------------------------------- MODULE Session -------------------------------
(***************************************************************************)
(* One admitted connection (handle_connection of server.rs and what it     *)
(* calls): the packet exchange of a status request or of a login that ends *)
(* in a Transfer packet.  Between any two steps the watcher may publish    *)
(* another configuration or the login timeout end it all; a client may     *)
(* keep to the protocol, or have sent anything or closed when it is read.  *)
(* What a client sends ahead waits in its stream: a packet is chosen when  *)
(* it is read.                                                             *)
(*                                                                         *)
(* Of a configuration only what it holds for this client matters: the      *)
(* protocol versions it serves, whether the security check blocks the      *)
(* client, and the lines that routing may choose.  A packet is a kind and, *)
(* where it decides something, its content.                                *)
(***************************************************************************)
EXTENDS Naturals, Sequences

CONSTANTS
    Versions,    \* protocol versions clients announce
    Known,       \* versions protocol_spec knows
    Lines,       \* routing lines, each with its target
    MaxPublish   \* bound: publications during the session

ASSUME SessionAssumption ==
    /\ Versions # {}
    /\ Known \subseteq Versions
    /\ MaxPublish \in Nat

\* supported_protocols, empty for all known ones; security.check; select_routing
Configs == [supported : SUBSET Versions, blocked : BOOLEAN, lines : SUBSET Lines]

\* NextState::Transfer is handled like "login".
Handshakes == [kind : {"handshake"}, version : Versions, intent : {"status", "login"}]
\* "login" with a name that validate_username accepts, "badname" with another;
\* "garbage" does not parse or has an id that is not expected anywhere.
Packets == Handshakes \cup [kind : {"request", "ping", "login", "badname", "ack", "garbage"}]
Replies == [kind : {"disconnect", "response", "pong", "success"}]
           \cup [kind : {"transfer"}, line : Lines]

VARIABLES
    well,       \* does the client keep to the protocol?
    consumed,   \* packets read so far
    received,   \* packets written to the client so far
    published,  \* the configuration in the watch channel
    count,      \* publications so far
    snapshot,   \* the configuration borrowed when the connection was accepted
    pc,         \* what is awaited: a packet of the client, or "select" a route,
                \* "proxy" | "pong" the backend, "resolve" the DNS; "over"
    line,       \* the line selected
    outcome     \* "none" | "ok" | "error" | "timeout"

channel == <<published, count>>
vars == <<well, consumed, received, channel, snapshot, pc, line, outcome>>

Reading == {"handshake", "request", "ping", "login", "ack"}
NoLine == "no line"

TypeOK ==
    /\ well \in BOOLEAN
    /\ consumed \in Seq(Packets)
    /\ received \in Seq(Replies)
    /\ published \in Configs /\ snapshot \in Configs
    /\ count \in 0..MaxPublish
    /\ pc \in Reading \cup {"select", "proxy", "pong", "resolve", "over"}
    /\ line \in Lines \cup {NoLine}
    /\ outcome \in {"none", "ok", "error", "timeout"}

Init ==
    /\ well \in BOOLEAN
    /\ consumed = <<>>
    /\ received = <<>>
    /\ published \in Configs
    /\ count = 0
    /\ snapshot = published
    /\ pc = "handshake"
    /\ line = NoLine
    /\ outcome = "none"

Shake == consumed[1]
Kinds(s) == [i \in DOMAIN s |-> s[i].kind]

\* protocol_spec and the configured list.
Serves(config, version) ==
    version \in Known /\ (config.supported = {} \/ version \in config.supported)

-----------------------------------------------------------------------------
(* The client, the watcher, and the clock.                                 *)

\* A client that keeps to the protocol sends its first two packets at once,
\* and the third when it has the answer to them.
KeepsProtocol(p) ==
    CASE Len(consumed) = 0 -> p.kind = "handshake"
      [] Len(consumed) = 1 -> p.kind \in IF Shake.intent = "status" THEN {"request"}
                                         ELSE {"login", "badname"}
      [] Len(consumed) = 2 -> \/ Kinds(received) = <<"response">> /\ p.kind = "ping"
                              \/ Kinds(received) = <<"success">> /\ p.kind = "ack"
      [] OTHER -> FALSE

Publish(config) ==
    /\ count < MaxPublish
    /\ count' = count + 1
    /\ published' = config
    /\ UNCHANGED <<well, consumed, received, snapshot, pc, line, outcome>>

\* timeout() drops handle_connection wherever it awaits.
Timeout ==
    /\ pc # "over"
    /\ pc' = "over"
    /\ outcome' = "timeout"
    /\ UNCHANGED <<well, consumed, received, channel, snapshot, line>>

-----------------------------------------------------------------------------
(* How the steps of the gateway end.                                       *)

Idle == UNCHANGED <<well, channel, snapshot>>
Quiet == UNCHANGED received
Write(reply) == received' = Append(received, reply)
Await(next) == pc' = next /\ UNCHANGED outcome
Return(result) == pc' = "over" /\ outcome' = result
\* send_login_disconnect, and the return that follows.
Disconnect == Write([kind |-> "disconnect"]) /\ Return("ok")

\* read_packet yields p.
Read(p) ==
    /\ Idle
    /\ well => KeepsProtocol(p)
    /\ consumed' = Append(consumed, p)

\* What passes for the awaited packet: of a status request only the id 0 is
\* checked, which it shares with handshake and login; the others are parsed.
Expected ==
    CASE pc = "request" -> {"request", "handshake", "login", "badname"}
      [] pc = "login" -> {"login", "badname"}
      [] OTHER -> {pc}

ReadUnexpected ==
    /\ pc \in Reading
    /\ \E p \in Packets : p.kind \notin Expected /\ Read(p)
    /\ Quiet /\ Return("error")
    /\ UNCHANGED line

\* The client has closed, or its stream fails: a read or a write ends it all.
StreamFails ==
    /\ Idle
    /\ pc # "over"
    /\ ~well
    /\ Quiet /\ Return("error")
    /\ UNCHANGED <<consumed, line>>

-----------------------------------------------------------------------------
(* handle_connection.                                                      *)

\* For a login, the announced version is answered before anything else is read.
ReadHandshake ==
    /\ pc = "handshake"
    /\ \E p \in Handshakes :
        /\ Read(p)
        /\ \/ p.intent = "status" /\ Quiet /\ Await("request")
           \/ p.intent = "login" /\ Serves(snapshot, p.version) /\ Quiet /\ Await("login")
           \/ p.intent = "login" /\ ~Serves(snapshot, p.version) /\ Disconnect
    /\ UNCHANGED line

-----------------------------------------------------------------------------
(* handle_status.                                                          *)

\* Mutant: the status is answered before the security check.
ReadRequestUnchecked ==
    /\ pc = "request"
    /\ \E p \in Packets : p.kind \in Expected /\ Read(p)
    /\ Quiet /\ Await("select")
    /\ UNCHANGED line

\* A blocked client is not answered.
ReadRequest ==
    /\ pc = "request"
    /\ \E p \in Packets : p.kind \in Expected /\ Read(p)
    /\ Quiet
    /\ IF snapshot.blocked THEN Return("ok") ELSE Await("select")
    /\ UNCHANGED line

\* The backend of the line answers, or what goes wrong there (DNS, connection,
\* a response that is none) makes the gateway answer by itself.
Proxy(backend) ==
    /\ pc = "proxy"
    /\ Idle
    /\ Write([kind |-> "response"])
    /\ line' = IF backend = "answers" THEN line ELSE NoLine
    /\ Await("ping")
    /\ UNCHANGED consumed

\* The ping is answered; a connected backend is pinged, too.
ReadPing ==
    /\ pc = "ping"
    /\ Read([kind |-> "ping"])
    /\ Write([kind |-> "pong"])
    /\ IF line = NoLine THEN Return("ok") ELSE Await("pong")
    /\ UNCHANGED line

\* complete_backend_status_ping, whose errors are only logged.
BackendPong ==
    /\ pc = "pong"
    /\ Idle
    /\ Quiet /\ Return("ok")
    /\ UNCHANGED <<consumed, line>>

-----------------------------------------------------------------------------
(* handle_login.                                                           *)

ReadLogin ==
    /\ pc = "login"
    /\ \E kind \in {"login", "badname"} :
        /\ Read([kind |-> kind])
        /\ IF kind = "badname" \/ snapshot.blocked
           THEN Disconnect
           ELSE Quiet /\ Await("select")
    /\ UNCHANGED line

\* Mutant: the route is taken from the configuration published by now.
SelectPublished ==
    /\ pc = "select"
    /\ Idle
    /\ \E l \in published.lines :
        /\ line' = l
        /\ Quiet /\ Await(IF Shake.intent = "status" THEN "proxy" ELSE "resolve")
    /\ UNCHANGED consumed

\* Mutant: without a route the login goes on.
SelectNothing ==
    /\ pc = "select"
    /\ Idle
    /\ line' \in IF snapshot.lines = {} THEN {NoLine} ELSE snapshot.lines
    /\ Quiet /\ Await(IF Shake.intent = "status" THEN "proxy" ELSE "resolve")
    /\ UNCHANGED consumed

\* select_routing, for the status and for the login.
Select ==
    /\ pc = "select"
    /\ Idle
    /\ \/ \E l \in snapshot.lines :
            /\ line' = l
            /\ Quiet /\ Await(IF Shake.intent = "status" THEN "proxy" ELSE "resolve")
       \/ /\ snapshot.lines = {}
          /\ UNCHANGED line
          /\ IF Shake.intent = "status"
             THEN Write([kind |-> "response"]) /\ Await("ping")
             ELSE Disconnect
    /\ UNCHANGED consumed

\* Mutant: the acknowledgement is awaited first.
ResolveWaiting ==
    /\ pc = "resolve"
    /\ Idle
    /\ Quiet /\ Await("ack")
    /\ UNCHANGED <<consumed, line>>

\* The target is resolved and the login accepted, or there is no such target.
Resolve ==
    /\ pc = "resolve"
    /\ Idle
    /\ \/ Write([kind |-> "success"]) /\ Await("ack")
       \/ Disconnect
    /\ UNCHANGED <<consumed, line>>

ReadAck ==
    /\ pc = "ack"
    /\ Read([kind |-> "ack"])
    /\ Write([kind |-> "transfer", line |-> line])
    /\ Return("ok")
    /\ UNCHANGED line

-----------------------------------------------------------------------------
Next ==
    \/ \E config \in Configs : Publish(config)
    \/ Timeout
    \/ ReadUnexpected \/ StreamFails \/ ReadHandshake
    \/ ReadRequest \/ ReadPing \/ BackendPong
    \/ \E backend \in {"answers", "fails"} : Proxy(backend)
    \/ ReadLogin \/ Select \/ Resolve \/ ReadAck

Spec == Init /\ [][Next]_vars

-----------------------------------------------------------------------------
(* Properties.                                                             *)

\* A Transfer is sent to a line of the configuration the connection was
\* accepted with, whatever is published meanwhile, and only to a client that it
\* serves and does not block, whose login was accepted and acknowledged.
TransferEarned ==
    \A i \in DOMAIN received : received[i].kind = "transfer" =>
        /\ Kinds(received) = <<"success", "transfer">>
        /\ Kinds(consumed) = <<"handshake", "login", "ack">>
        /\ received[i].line \in snapshot.lines
        /\ Serves(snapshot, Shake.version)
        /\ ~snapshot.blocked

\* To a blocked client the gateway says nothing but the reason of a login's end.
BlockedSeesNothing ==
    snapshot.blocked => \A i \in DOMAIN received : received[i].kind = "disconnect"

\* The gateway and a client that keeps to the protocol never wait for each
\* other: while the gateway reads, the client has a packet to send, and it is
\* one that the gateway expects.
NoMutualWait ==
    well /\ pc \in Reading => /\ \E p \in Packets : KeepsProtocol(p)
                             /\ \A p \in Packets : KeepsProtocol(p) => p.kind \in Expected

-----------------------------------------------------------------------------
(* The inductive invariant.                                                *)

\* What has been read and written where a session with that intent stands.
Begun(intent, packets, replies) ==
    /\ Len(consumed) = packets
    /\ Shake \in Handshakes /\ Shake.intent = intent
    /\ Len(received) = replies
    /\ intent = "login" => Serves(snapshot, Shake.version)

Passed(intent, replies) ==
    /\ Begun(intent, 2, replies)
    /\ ~snapshot.blocked
    /\ intent = "login" => consumed[2].kind = "login"

\* The exchange that leads to each point, and what is known there.
Exchange ==
    CASE pc = "handshake" -> consumed = <<>> /\ received = <<>>
      [] pc = "request" -> Begun("status", 1, 0)
      [] pc = "login" -> Begun("login", 1, 0)
      [] pc = "select" -> Passed("status", 0) \/ Passed("login", 0)
      [] pc = "proxy" -> Passed("status", 0)
      [] pc = "ping" -> Passed("status", 1) /\ received[1].kind = "response"
      [] pc = "pong" -> ~snapshot.blocked /\ \A i \in DOMAIN received : received[i].kind # "transfer"
      [] pc = "resolve" -> Passed("login", 0) /\ line \in snapshot.lines
      [] pc = "ack" -> Passed("login", 1) /\ received[1].kind = "success" /\ line \in snapshot.lines
      [] pc = "over" -> TransferEarned /\ BlockedSeesNothing

IInv == TypeOK /\ Exchange
=============================================================================
