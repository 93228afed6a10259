---------------------------- MODULE SessionProofs ----------------------------
(***************************************************************************)
(* The invariants of Session, for all sets of versions and lines and any   *)
(* number of publications.                                                 *)
(***************************************************************************)
EXTENDS Session, TLAPS

-----------------------------------------------------------------------------
(* Packets and replies.                                                    *)

LEMMA PacketTypes ==
  /\ Handshakes \subseteq Packets
  /\ \A h \in Handshakes : h.kind = "handshake" /\ h.version \in Versions /\ h.intent \in {"status", "login"}
  /\ \A p \in Packets : p.kind = "handshake" => p \in Handshakes
  /\ \A kind \in {"request", "ping", "login", "badname", "ack", "garbage"} :
        [kind |-> kind] \in Packets /\ [kind |-> kind].kind = kind
BY DEF Packets, Handshakes

LEMMA ReplyTypes ==
  /\ \A kind \in {"disconnect", "response", "pong", "success"} :
        [kind |-> kind] \in Replies /\ [kind |-> kind].kind = kind
  /\ \A l \in Lines : /\ [kind |-> "transfer", line |-> l] \in Replies
                      /\ [kind |-> "transfer", line |-> l].kind = "transfer"
                      /\ [kind |-> "transfer", line |-> l].line = l
BY DEF Replies

LEMMA AppendFacts ==
  ASSUME NEW S, NEW s \in Seq(S), NEW e \in S, NEW n \in Nat, Len(s) = n
  PROVE  /\ Append(s, e) \in Seq(S)
         /\ Len(Append(s, e)) = n + 1
         /\ DOMAIN Append(s, e) = 1..(n + 1)
         /\ Append(s, e)[n + 1] = e
         /\ \A i \in 1..n : Append(s, e)[i] = s[i]
OBVIOUS

LEMMA AppendToOne ==
  ASSUME NEW S, NEW s \in Seq(S), Len(s) = 1, NEW e \in S
  PROVE  /\ Append(s, e) \in Seq(S) /\ Len(Append(s, e)) = 2 /\ DOMAIN Append(s, e) = 1..2
         /\ Append(s, e)[1] = s[1] /\ Append(s, e)[2] = e
<1>1. Append(s, e)[1 + 1] = e /\ DOMAIN Append(s, e) = 1..(1 + 1)
  BY AppendFacts
<1> QED
  BY <1>1, AppendFacts

LEMMA AppendToTwo ==
  ASSUME NEW S, NEW s \in Seq(S), Len(s) = 2, NEW e \in S
  PROVE  /\ Append(s, e) \in Seq(S) /\ Len(Append(s, e)) = 3
         /\ Append(s, e)[1] = s[1] /\ Append(s, e)[2] = s[2] /\ Append(s, e)[3] = e
<1>1. Append(s, e)[2 + 1] = e /\ 2 + 1 = 3
  BY AppendFacts
<1>2. \A i \in 1..2 : Append(s, e)[i] = s[i]
  BY AppendFacts
<1>3. Append(s, e) \in Seq(S)
  BY AppendFacts
<1>4. Len(Append(s, e)) = 2 + 1
  BY AppendFacts
<1> QED
  BY <1>1, <1>2, <1>3, <1>4

\* Kinds of sequences of a known length.
LEMMA KindsOfOne ==
  ASSUME NEW S, NEW s \in Seq(S), Len(s) = 1
  PROVE  Kinds(s) = <<s[1].kind>>
<1>1. DOMAIN s = 1..1
  OBVIOUS
<1>2. \A i \in 1..1 : i = 1
  OBVIOUS
<1> QED
  BY <1>1, <1>2 DEF Kinds

LEMMA KindsOfTwo ==
  ASSUME NEW S, NEW s \in Seq(S), Len(s) = 2
  PROVE  Kinds(s) = <<s[1].kind, s[2].kind>>
<1>1. DOMAIN s = 1..2
  OBVIOUS
<1>2. \A i \in 1..2 : i = 1 \/ i = 2
  OBVIOUS
<1> QED
  BY <1>1, <1>2 DEF Kinds

LEMMA KindsOfThree ==
  ASSUME NEW S, NEW s \in Seq(S), Len(s) = 3
  PROVE  Kinds(s) = <<s[1].kind, s[2].kind, s[3].kind>>
<1>1. DOMAIN s = 1..3
  OBVIOUS
<1>2. \A i \in 1..3 : i = 1 \/ i = 2 \/ i = 3
  OBVIOUS
<1> QED
  BY <1>1, <1>2 DEF Kinds

-----------------------------------------------------------------------------
(* The inductive invariant.                                                *)

LEMMA InitInv == Init => IInv
<1> SUFFICES ASSUME Init PROVE IInv
  OBVIOUS
<1>1. count \in 0..MaxPublish /\ consumed \in Seq(Packets) /\ received \in Seq(Replies)
  BY SessionAssumption DEF SessionAssumption, Init
<1>2. TypeOK
  BY <1>1 DEF Init, TypeOK, Reading
<1>3. Exchange
  BY DEF Init, Exchange
<1> QED
  BY <1>2, <1>3 DEF IInv

\* Before its end a session has written no transfer, and nothing to a blocked
\* client.
LEMMA Written ==
  ASSUME IInv, pc # "over"
  PROVE  /\ \A i \in DOMAIN received : received[i].kind # "transfer"
         /\ snapshot.blocked => received = <<>>
<1>1. received \in Seq(Replies)
  BY DEF IInv, TypeOK
<1>2. CASE received = <<>>
  BY <1>2
<1>3. CASE received # <<>>
  <2>1. pc \in {"ping", "pong", "ack"}
    <3>1. Len(received) # 0 /\ pc \in Reading \cup {"select", "proxy", "pong", "resolve"}
      BY <1>1, <1>3 DEF IInv, TypeOK
    <3> QED
      BY <1>3, <3>1 DEF IInv, Exchange, Begun, Passed, Reading
  <2>2. ~snapshot.blocked
    BY <2>1 DEF IInv, Exchange, Passed
  <2>3. \A i \in DOMAIN received : received[i].kind # "transfer"
    <3>1. CASE pc = "pong"
      BY <3>1 DEF IInv, Exchange
    <3>2. CASE pc = "ping" \/ pc = "ack"
      <4>1. Len(received) = 1 /\ received[1].kind # "transfer"
        BY <3>2 DEF IInv, Exchange, Passed, Begun
      <4>2. \A i \in DOMAIN received : i = 1
        BY <1>1, <4>1
      <4> QED
        BY <4>1, <4>2
    <3> QED
      BY <2>1, <3>1, <3>2
  <2> QED
    BY <2>2, <2>3
<1> QED
  BY <1>2, <1>3

\* Errors, the timeout and what ends without a word leave it at that.
LEMMA EndsQuietly ==
  ASSUME IInv, UNCHANGED <<received, snapshot>>, pc # "over"
  PROVE  TransferEarned' /\ BlockedSeesNothing'
BY Written DEF TransferEarned, BlockedSeesNothing

LEMMA EndsWithDisconnect ==
  ASSUME IInv, received = <<>>, Disconnect
  PROVE  /\ received' \in Seq(Replies) /\ pc' = "over" /\ outcome' = "ok"
         /\ TransferEarned' /\ BlockedSeesNothing'
<1>1. received \in Seq(Replies) /\ [kind |-> "disconnect"] \in Replies
  BY ReplyTypes DEF IInv, TypeOK
<1>2. received' = Append(received, [kind |-> "disconnect"])
  BY DEF Disconnect, Write
<1>3. received' \in Seq(Replies) /\ DOMAIN received' = 1..1 /\ received'[1].kind = "disconnect"
  BY <1>1, <1>2
<1> QED
  BY <1>3 DEF Disconnect, Return, TransferEarned, BlockedSeesNothing

LEMMA UnchangedExchange ==
  ASSUME Exchange, UNCHANGED <<well, consumed, received, snapshot, pc, line, outcome>>
  PROVE  Exchange'
<1>1. TransferEarned' = TransferEarned /\ BlockedSeesNothing' = BlockedSeesNothing
  BY DEF TransferEarned, BlockedSeesNothing, Kinds, Serves, Shake
<1>2. \A intent \in {"status", "login"}, packets, replies \in Nat :
         Begun(intent, packets, replies)' = Begun(intent, packets, replies)
  BY DEF Begun, Serves, Shake
<1> QED
  BY <1>1, <1>2 DEF Exchange, Passed

LEMMA InvStep == IInv /\ [Next]_vars => IInv'
<1> SUFFICES ASSUME IInv, [Next]_vars PROVE IInv'
  OBVIOUS
<1>0. TypeOK /\ Exchange
  BY DEF IInv
<1> SUFFICES TypeOK' /\ Exchange'
  BY DEF IInv
<1>1. ASSUME NEW config \in Configs, Publish(config)
      PROVE  TypeOK' /\ Exchange'
  <2>1. UNCHANGED <<well, consumed, received, snapshot, pc, line, outcome>>
    BY <1>1 DEF Publish
  <2>2. Exchange'
    BY <1>0, <2>1, UnchangedExchange
  <2>3. published' = config /\ count' \in 0..MaxPublish
    BY <1>0, <1>1, SessionAssumption DEF SessionAssumption, Publish, TypeOK
  <2> QED
    BY <1>0, <2>1, <2>2, <2>3 DEF TypeOK
<1>2. CASE Timeout
  <2>1. TransferEarned' /\ BlockedSeesNothing'
    BY <1>2, EndsQuietly DEF Timeout
  <2> QED
    BY <1>0, <1>2, <2>1 DEF Timeout, channel, TypeOK, Exchange
<1>3. CASE ReadUnexpected
  <2>1. TransferEarned' /\ BlockedSeesNothing'
    BY <1>3, EndsQuietly DEF ReadUnexpected, Reading, Read, Idle, Quiet, Return
  <2> QED
    BY <1>0, <1>3, <2>1 DEF ReadUnexpected, Read, Idle, Quiet, Return, channel, TypeOK, Exchange
<1>4. CASE StreamFails
  <2>1. TransferEarned' /\ BlockedSeesNothing'
    BY <1>4, EndsQuietly DEF StreamFails, Idle, Quiet, Return
  <2> QED
    BY <1>0, <1>4, <2>1 DEF StreamFails, Idle, Quiet, Return, channel, TypeOK, Exchange
<1>5. CASE ReadHandshake
  <2>1. consumed = <<>> /\ received = <<>>
    BY <1>0, <1>5 DEF ReadHandshake, Exchange
  <2>2. PICK p \in Handshakes :
           /\ Read(p)
           /\ \/ p.intent = "status" /\ Quiet /\ Await("request")
              \/ p.intent = "login" /\ Serves(snapshot, p.version) /\ Quiet /\ Await("login")
              \/ p.intent = "login" /\ ~Serves(snapshot, p.version) /\ Disconnect
    BY <1>5 DEF ReadHandshake
  <2>3. consumed' \in Seq(Packets) /\ Len(consumed') = 1 /\ consumed'[1] = p
    BY <1>0, <2>1, <2>2, PacketTypes DEF Read, TypeOK
  <2>4. UNCHANGED <<well, channel, snapshot, line>>
    BY <1>5, <2>2 DEF ReadHandshake, Read, Idle
  <2>5. CASE Disconnect
    <3>1. /\ received' \in Seq(Replies) /\ pc' = "over" /\ outcome' = "ok"
          /\ TransferEarned' /\ BlockedSeesNothing'
      BY <2>1, <2>5, EndsWithDisconnect
    <3> QED
      BY <1>0, <2>3, <2>4, <3>1 DEF TypeOK, Exchange, channel
  <2>6. CASE p.intent = "status" /\ Quiet /\ Await("request")
    BY <1>0, <2>1, <2>3, <2>4, <2>6 DEF Quiet, Await, TypeOK, Exchange, Begun, Shake, channel, Reading
  <2>7. CASE p.intent = "login" /\ Serves(snapshot, p.version) /\ Quiet /\ Await("login")
    BY <1>0, <2>1, <2>3, <2>4, <2>7 DEF Quiet, Await, TypeOK, Exchange, Begun, Shake, Serves, channel, Reading
  <2> QED
    BY <2>2, <2>5, <2>6, <2>7
<1>6. CASE ReadRequest
  <2>1. Begun("status", 1, 0)
    BY <1>0, <1>6 DEF ReadRequest, Exchange
  <2>2. PICK p \in Packets : Read(p)
    BY <1>6 DEF ReadRequest
  <2>3. /\ consumed' \in Seq(Packets) /\ Len(consumed') = 2
        /\ Shake' = Shake /\ received' = received
    <3>1. consumed \in Seq(Packets) /\ Len(consumed) = 1
      BY <1>0, <2>1 DEF TypeOK, Begun
    <3>2. consumed' = Append(consumed, p) /\ received' = received
      BY <1>6, <2>2 DEF ReadRequest, Read, Quiet
    <3> QED
      BY <3>1, <3>2, AppendToOne DEF Shake
  <2>4. UNCHANGED <<well, channel, snapshot, line>>
    BY <1>6, <2>2 DEF ReadRequest, Read, Idle
  <2>5. CASE snapshot.blocked
    <3>1. TransferEarned' /\ BlockedSeesNothing'
      BY <1>6, <2>3, <2>4, <2>5, EndsQuietly DEF ReadRequest, Return
    <3> QED
      BY <1>0, <1>6, <2>3, <2>4, <2>5, <3>1 DEF ReadRequest, Return, TypeOK, Exchange, channel
  <2>6. CASE ~snapshot.blocked
    BY <1>0, <1>6, <2>1, <2>3, <2>4, <2>6
       DEF ReadRequest, Await, TypeOK, Exchange, Begun, Passed, channel, Reading
  <2> QED
    BY <2>5, <2>6
<1>7. CASE ReadPing
  <2>1. Passed("status", 1) /\ received[1].kind = "response"
    BY <1>0, <1>7 DEF ReadPing, Exchange
  <2>2. consumed' \in Seq(Packets)
    BY <1>0, <1>7, PacketTypes DEF ReadPing, Read, TypeOK
  <2>3. /\ received' \in Seq(Replies) /\ DOMAIN received' = 1..2
        /\ received'[1].kind = "response" /\ received'[2].kind = "pong"
    <3>1. received \in Seq(Replies) /\ Len(received) = 1 /\ [kind |-> "pong"] \in Replies
      BY <1>0, <2>1, ReplyTypes DEF TypeOK, Passed, Begun
    <3>2. received' = Append(received, [kind |-> "pong"])
      BY <1>7 DEF ReadPing, Write
    <3> QED
      BY <2>1, <3>1, <3>2, AppendToOne, ReplyTypes
  <2>4. \A i \in DOMAIN received' : received'[i].kind # "transfer"
    BY <2>3
  <2>5. UNCHANGED <<well, channel, snapshot, line>> /\ ~snapshot'.blocked
    BY <1>7, <2>1 DEF ReadPing, Read, Idle, Passed
  <2>6. TransferEarned' /\ BlockedSeesNothing'
    BY <2>4, <2>5 DEF TransferEarned, BlockedSeesNothing
  <2> QED
    BY <1>0, <1>7, <2>2, <2>3, <2>4, <2>5, <2>6
       DEF ReadPing, Return, Await, TypeOK, Exchange, channel, Reading
<1>8. CASE BackendPong
  <2>1. TransferEarned' /\ BlockedSeesNothing'
    BY <1>8, EndsQuietly DEF BackendPong, Idle, Quiet, Return
  <2> QED
    BY <1>0, <1>8, <2>1 DEF BackendPong, Idle, Quiet, Return, channel, TypeOK, Exchange
<1>9. ASSUME NEW backend \in {"answers", "fails"}, Proxy(backend)
      PROVE  TypeOK' /\ Exchange'
  <2>1. Passed("status", 0)
    BY <1>0, <1>9 DEF Proxy, Exchange
  <2>2. received' \in Seq(Replies) /\ Len(received') = 1 /\ received'[1].kind = "response"
    BY <1>0, <1>9, <2>1, ReplyTypes DEF Proxy, Write, TypeOK, Passed, Begun
  <2> QED
    BY <1>0, <1>9, <2>1, <2>2
       DEF Proxy, Idle, Await, TypeOK, Exchange, Passed, Begun, Shake, channel, Reading
<1>10. CASE ReadLogin
  <2>1. Begun("login", 1, 0)
    BY <1>0, <1>10 DEF ReadLogin, Exchange
  <2>2. PICK kind \in {"login", "badname"} :
           /\ Read([kind |-> kind])
           /\ IF kind = "badname" \/ snapshot.blocked THEN Disconnect ELSE Quiet /\ Await("select")
    BY <1>10 DEF ReadLogin
  <2>3. /\ consumed' \in Seq(Packets) /\ Len(consumed') = 2
        /\ Shake' = Shake /\ consumed'[2].kind = kind
    <3>1. /\ consumed \in Seq(Packets) /\ Len(consumed) = 1
          /\ [kind |-> kind] \in Packets /\ [kind |-> kind].kind = kind
      BY <1>0, <2>1, PacketTypes DEF TypeOK, Begun
    <3>2. consumed' = Append(consumed, [kind |-> kind])
      BY <2>2 DEF Read
    <3> QED
      BY <3>1, <3>2, AppendToOne, PacketTypes DEF Shake
  <2>4. UNCHANGED <<well, channel, snapshot, line>> /\ received = <<>>
    BY <1>0, <1>10, <2>1, <2>2 DEF ReadLogin, Read, Idle, Begun, TypeOK
  <2>5. CASE Disconnect
    <3>1. /\ received' \in Seq(Replies) /\ pc' = "over" /\ outcome' = "ok"
          /\ TransferEarned' /\ BlockedSeesNothing'
      BY <2>4, <2>5, EndsWithDisconnect
    <3> QED
      BY <1>0, <2>3, <2>4, <3>1 DEF TypeOK, Exchange, channel
  <2>6. CASE kind = "login" /\ ~snapshot.blocked /\ Quiet /\ Await("select")
    BY <1>0, <2>1, <2>3, <2>4, <2>6
       DEF Quiet, Await, TypeOK, Exchange, Begun, Passed, channel, Reading
  <2> QED
    BY <2>2, <2>5, <2>6
<1>11. CASE Select
  <2>1. PICK intent \in {"status", "login"} : Passed(intent, 0)
    BY <1>0, <1>11 DEF Select, Exchange
  <2>2. /\ Shake.intent = intent /\ received = <<>>
        /\ UNCHANGED <<well, channel, snapshot, consumed>>
    BY <1>0, <1>11, <2>1 DEF Select, Idle, Passed, Begun, TypeOK
  <2>3. ASSUME NEW l \in snapshot.lines, line' = l, Quiet,
               Await(IF Shake.intent = "status" THEN "proxy" ELSE "resolve")
        PROVE  TypeOK' /\ Exchange'
    <3>1. l \in Lines
      BY <1>0 DEF TypeOK, Configs
    <3> QED
      BY <1>0, <2>1, <2>2, <2>3, <3>1
         DEF Quiet, Await, TypeOK, Exchange, Passed, Begun, Shake, channel, Reading
  <2>4. ASSUME UNCHANGED line, intent = "status", Write([kind |-> "response"]), Await("ping")
        PROVE  TypeOK' /\ Exchange'
    <3>1. received' \in Seq(Replies) /\ Len(received') = 1 /\ received'[1].kind = "response"
      BY <1>0, <2>2, <2>4, ReplyTypes DEF Write, TypeOK
    <3> QED
      BY <1>0, <2>1, <2>2, <2>4, <3>1 DEF Await, TypeOK, Exchange, Passed, Begun, Shake, channel, Reading
  <2>5. ASSUME UNCHANGED line, Disconnect
        PROVE  TypeOK' /\ Exchange'
    <3>1. /\ received' \in Seq(Replies) /\ pc' = "over" /\ outcome' = "ok"
          /\ TransferEarned' /\ BlockedSeesNothing'
      BY <2>2, <2>5, EndsWithDisconnect
    <3> QED
      BY <1>0, <2>2, <2>5, <3>1 DEF TypeOK, Exchange, channel
  <2> QED
    BY <1>11, <2>2, <2>3, <2>4, <2>5 DEF Select
<1>12. CASE Resolve
  <2>1. Passed("login", 0) /\ line \in snapshot.lines /\ received = <<>>
    BY <1>0, <1>12 DEF Resolve, Exchange, Passed, Begun, TypeOK
  <2>2. UNCHANGED <<well, channel, snapshot, consumed, line>>
    BY <1>12 DEF Resolve, Idle
  <2>3. CASE Disconnect
    <3>1. /\ received' \in Seq(Replies) /\ pc' = "over" /\ outcome' = "ok"
          /\ TransferEarned' /\ BlockedSeesNothing'
      BY <2>1, <2>3, EndsWithDisconnect
    <3> QED
      BY <1>0, <2>2, <3>1 DEF TypeOK, Exchange, channel
  <2>4. CASE Write([kind |-> "success"]) /\ Await("ack")
    <3>1. received' \in Seq(Replies) /\ Len(received') = 1 /\ received'[1].kind = "success"
      BY <1>0, <2>1, <2>4, ReplyTypes DEF Write, TypeOK
    <3> QED
      BY <1>0, <2>1, <2>2, <2>4, <3>1
         DEF Await, TypeOK, Exchange, Passed, Begun, Shake, Serves, channel, Reading
  <2> QED
    BY <1>12, <2>3, <2>4 DEF Resolve
<1>13. CASE ReadAck
  <2>1. Passed("login", 1) /\ received[1].kind = "success" /\ line \in snapshot.lines
    BY <1>0, <1>13 DEF ReadAck, Exchange
  <2>2. line \in Lines
    BY <1>0, <2>1 DEF TypeOK, Configs
  <2>3. /\ consumed' \in Seq(Packets) /\ Len(consumed') = 3
        /\ consumed'[1] = Shake /\ consumed'[2].kind = "login" /\ consumed'[3].kind = "ack"
    <3>1. consumed \in Seq(Packets) /\ Len(consumed) = 2 /\ [kind |-> "ack"] \in Packets
      BY <1>0, <2>1, PacketTypes DEF TypeOK, Passed, Begun
    <3>2. consumed' = Append(consumed, [kind |-> "ack"]) /\ consumed[2].kind = "login"
      BY <1>13, <2>1 DEF ReadAck, Read, Passed
    <3> QED
      BY <3>1, <3>2, AppendToTwo, PacketTypes DEF Shake
  <2>4. Shake.kind = "handshake"
    BY <2>1, PacketTypes DEF Passed, Begun
  <2>5. Kinds(consumed') = <<"handshake", "login", "ack">>
    BY <2>3, <2>4, KindsOfThree
  <2>6. /\ received' \in Seq(Replies) /\ Len(received') = 2 /\ DOMAIN received' = 1..2
        /\ received'[1].kind = "success"
        /\ received'[2] = [kind |-> "transfer", line |-> line]
    <3>1. received \in Seq(Replies) /\ Len(received) = 1 /\ [kind |-> "transfer", line |-> line] \in Replies
      BY <1>0, <2>1, <2>2, ReplyTypes DEF TypeOK, Passed, Begun
    <3>2. received' = Append(received, [kind |-> "transfer", line |-> line])
      BY <1>13 DEF ReadAck, Write
    <3> QED
      BY <2>1, <3>1, <3>2, AppendToOne, ReplyTypes
  <2>7. received'[2].kind = "transfer" /\ received'[2].line = line
    BY <2>2, <2>6, ReplyTypes
  <2>8. Kinds(received') = <<"success", "transfer">>
    BY <2>6, <2>7, KindsOfTwo
  <2>9. UNCHANGED <<well, channel, snapshot, line>>
    BY <1>13 DEF ReadAck, Read, Idle
  <2>10. Serves(snapshot, Shake.version)' /\ ~snapshot'.blocked
    BY <2>1, <2>3, <2>9 DEF Passed, Begun, Serves, Shake
  <2>11. TransferEarned'
    <3>1. \A i \in DOMAIN received' : received'[i].kind = "transfer" => i = 2
      BY <2>6
    <3>2. Kinds(received)' = <<"success", "transfer">> /\ Kinds(consumed)' = <<"handshake", "login", "ack">>
      BY <2>5, <2>8 DEF Kinds
    <3> QED
      BY <2>1, <2>7, <2>9, <2>10, <3>1, <3>2 DEF TransferEarned
  <2>12. BlockedSeesNothing'
    BY <2>10 DEF BlockedSeesNothing
  <2> QED
    BY <1>0, <1>13, <2>3, <2>6, <2>9, <2>11, <2>12 DEF ReadAck, Return, TypeOK, Exchange, channel
<1>14. CASE UNCHANGED vars
  BY <1>0, <1>14
     DEF vars, channel, TypeOK, Exchange, Begun, Passed, Shake, Kinds, Serves, TransferEarned, BlockedSeesNothing
<1> QED
  BY <1>1, <1>2, <1>3, <1>4, <1>5, <1>6, <1>7, <1>8, <1>9, <1>10, <1>11, <1>12, <1>13, <1>14 DEF Next

-----------------------------------------------------------------------------
(* The theorems.                                                           *)

\* Wherever a session stands, what was read and written before is the exchange
\* that leads there.
THEOREM Invariance == Spec => []IInv
<1> QED
  BY InitInv, InvStep, PTL DEF Spec

\* The variables of a session have their types.
THEOREM TypeCorrect == Spec => []TypeOK
<1>1. IInv => TypeOK
  BY DEF IInv
<1> QED
  BY <1>1, Invariance, PTL

\* The gateway transfers only clients that have logged in and acknowledged it,
\* to a line of the snapshot, whatever is published meanwhile.
THEOREM TransfersAreEarned == Spec => []TransferEarned
<1>1. IInv => TransferEarned
  <2> SUFFICES ASSUME IInv PROVE TransferEarned
    OBVIOUS
  <2>1. CASE pc = "over"
    BY <2>1 DEF IInv, Exchange
  <2>2. CASE pc # "over"
    <3>1. \A i \in DOMAIN received : received[i].kind # "transfer"
      BY <2>2, Written
    <3> QED
      BY <3>1 DEF TransferEarned
  <2> QED
    BY <2>1, <2>2
<1> QED
  BY <1>1, Invariance, PTL

\* A client that the security check blocks learns nothing but that its login
\* has ended.
THEOREM BlockedLearnNothing == Spec => []BlockedSeesNothing
<1>1. IInv => BlockedSeesNothing
  <2> SUFFICES ASSUME IInv PROVE BlockedSeesNothing
    OBVIOUS
  <2>1. CASE pc = "over"
    BY <2>1 DEF IInv, Exchange
  <2>2. CASE pc # "over"
    <3>1. snapshot.blocked => received = <<>>
      BY <2>2, Written
    <3> QED
      BY <3>1 DEF BlockedSeesNothing
  <2> QED
    BY <2>1, <2>2
<1> QED
  BY <1>1, Invariance, PTL

\* A client that keeps to the protocol and the gateway never wait for each
\* other.
THEOREM NobodyWaits == Spec => []NoMutualWait
<1>1. IInv => NoMutualWait
  <2> SUFFICES ASSUME IInv, well, pc \in Reading
               PROVE  /\ \E p \in Packets : KeepsProtocol(p)
                      /\ \A p \in Packets : KeepsProtocol(p) => p.kind \in Expected
    BY DEF NoMutualWait
  <2>0. received \in Seq(Replies)
    BY DEF IInv, TypeOK
  <2>1. CASE pc = "handshake"
    <3>1. Len(consumed) = 0
      BY <2>1 DEF IInv, Exchange
    <3>2. PICK version \in Versions : TRUE
      BY SessionAssumption DEF SessionAssumption
    <3> DEFINE hello == [kind |-> "handshake", version |-> version, intent |-> "login"]
    <3>3. hello \in Packets /\ hello.kind = "handshake"
      BY DEF Packets, Handshakes
    <3> HIDE DEF hello
    <3> QED
      BY <2>1, <3>1, <3>3 DEF KeepsProtocol, Expected
  <2>2. CASE pc = "request"
    <3>1. Len(consumed) = 1 /\ Shake.intent = "status"
      BY <2>2 DEF IInv, Exchange, Begun
    <3> QED
      BY <2>2, <3>1, PacketTypes DEF KeepsProtocol, Expected
  <2>3. CASE pc = "login"
    <3>1. Len(consumed) = 1 /\ Shake.intent = "login"
      BY <2>3 DEF IInv, Exchange, Begun
    <3> QED
      BY <2>3, <3>1, PacketTypes DEF KeepsProtocol, Expected
  <2>4. CASE pc = "ping"
    <3>1. Len(consumed) = 2 /\ Len(received) = 1 /\ received[1].kind = "response"
      BY <2>4 DEF IInv, Exchange, Passed, Begun
    <3>2. Kinds(received) = <<"response">>
      BY <2>0, <3>1, KindsOfOne
    <3>3. <<"response">> # <<"success">>
      OBVIOUS
    <3> QED
      BY <2>4, <3>1, <3>2, <3>3, PacketTypes DEF KeepsProtocol, Expected
  <2>5. CASE pc = "ack"
    <3>1. Len(consumed) = 2 /\ Len(received) = 1 /\ received[1].kind = "success"
      BY <2>5 DEF IInv, Exchange, Passed, Begun
    <3>2. Kinds(received) = <<"success">>
      BY <2>0, <3>1, KindsOfOne
    <3>3. <<"response">> # <<"success">>
      OBVIOUS
    <3> QED
      BY <2>5, <3>1, <3>2, <3>3, PacketTypes DEF KeepsProtocol, Expected
  <2> QED
    BY <2>1, <2>2, <2>3, <2>4, <2>5 DEF Reading
<1> QED
  BY <1>1, Invariance, PTL
=============================================================================
