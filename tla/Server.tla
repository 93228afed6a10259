------------------------------- MODULE Server -------------------------------
(***************************************************************************)
(* The accept loop of server.rs: one task that accepts connections, admits *)
(* them through the lock-free ConnectionLimiter and follows server.bind,   *)
(* and one task per admitted connection, which holds a permit until it is  *)
(* done or its login timeout cuts it off.  The tasks run in parallel: a    *)
(* permit may be dropped between any two steps of the accept loop, and the *)
(* watcher may publish between any two steps.                              *)
(*                                                                         *)
(* A connection is a member of Conns; one that is over may come back as a  *)
(* new one.  Of a published configuration only server.bind and             *)
(* server.max_connections matter here.                                     *)
(***************************************************************************)
EXTENDS Naturals, FiniteSets

CONSTANTS
    Conns,       \* connections
    Addresses,   \* values of server.bind
    Limits,      \* values of server.max_connections
    Overlaps,    \* pairs of different addresses that cannot be bound at a time
    NoConn,      \* no connection is being admitted
    NoAddress,   \* nothing to bind, nothing bound
    MaxPublish,  \* bound: publications of the watcher
    MaxFaults    \* bound: bind attempts that fail for another reason

Configs == [bind : Addresses, max : Limits]

ASSUME ServerAssumption ==
    /\ IsFiniteSet(Conns)
    /\ NoConn \notin Conns
    /\ NoAddress \notin Addresses
    /\ Limits \subseteq Nat \ {0}
    /\ Overlaps \subseteq Addresses \X Addresses
    /\ MaxPublish \in Nat
    /\ MaxFaults \in Nat

VARIABLES
    published,  \* the configuration in the watch channel
    unseen,     \* has the receiver not seen the channel's version yet?
    sender,     \* "open" | "closed": the watcher task's end of the channel
    count,      \* publications so far
    phase,      \* "running" | "stopped"
    pc,         \* "select" | "acquire" | "exchange" | "bind"
    listener,   \* the address that is listened on
    bound,      \* what the loop takes for that address
    target,     \* the address being bound
    offer,      \* the connection being admitted
    limit,      \* max_connections of its snapshot
    loaded,     \* the local `active` of try_acquire
    active,     \* the shared counter of the ConnectionLimiter
    conn,       \* "none" | "queued" | "accepted" | "open", per connection
    faults      \* bind faults so far

channel == <<published, unseen, sender, count>>
binding == <<listener, bound, target, faults>>
limiter == <<offer, limit, loaded>>
vars == <<channel, binding, limiter, phase, pc, active, conn>>

Open == {c \in Conns : conn[c] = "open"}

TypeOK ==
    /\ published \in Configs
    /\ unseen \in BOOLEAN
    /\ sender \in {"open", "closed"}
    /\ count \in Nat
    /\ phase \in {"running", "stopped"}
    /\ pc \in {"select", "acquire", "exchange", "bind"}
    /\ listener \in Addresses \cup {NoAddress}
    /\ bound \in Addresses
    /\ target \in Addresses \cup {NoAddress}
    /\ offer \in Conns \cup {NoConn}
    /\ limit \in Nat
    /\ loaded \in Nat
    /\ active \in Nat
    /\ conn \in [Conns -> {"none", "queued", "accepted", "open"}]
    /\ faults \in Nat

\* The first listener is bound before the loop starts, or the program ends.
Init ==
    /\ published \in Configs
    /\ unseen = FALSE
    /\ sender = "open"
    /\ count = 0
    /\ phase = "running"
    /\ pc = "select"
    /\ listener = published.bind
    /\ bound = published.bind
    /\ target = NoAddress
    /\ offer = NoConn
    /\ limit = 0
    /\ loaded = 0
    /\ active = 0
    /\ conn = [c \in Conns |-> "none"]
    /\ faults = 0

AtSelect == phase = "running" /\ pc = "select"

-----------------------------------------------------------------------------
(* The watcher's end of the channel, and the clients.                      *)

Publish(config) ==
    /\ sender = "open"
    /\ count < MaxPublish
    /\ published' = config
    /\ unseen' = TRUE
    /\ count' = count + 1
    /\ UNCHANGED <<sender, binding, limiter, phase, pc, active, conn>>

\* The watcher task is over; its sender is dropped.
WatcherEnds ==
    /\ sender = "open"
    /\ sender' = "closed"
    /\ UNCHANGED <<published, unseen, count, binding, limiter, phase, pc, active, conn>>

Connect(c) ==
    /\ phase = "running"
    /\ listener # NoAddress
    /\ conn[c] = "none"
    /\ conn' = [conn EXCEPT ![c] = "queued"]
    /\ UNCHANGED <<channel, binding, limiter, phase, pc, active>>

-----------------------------------------------------------------------------
(* Accepting and admitting.                                                *)

\* The accepted branch: take a connection, borrow the published state.
Accept(c) ==
    /\ AtSelect
    /\ conn[c] = "queued"
    /\ conn' = [conn EXCEPT ![c] = "accepted"]
    /\ offer' = c
    /\ limit' = published.max
    /\ pc' = "acquire"
    /\ UNCHANGED <<channel, binding, loaded, phase, active>>

\* try_acquire reads the counter.
Load ==
    /\ pc = "acquire"
    /\ loaded' = active
    /\ pc' = "exchange"
    /\ UNCHANGED <<channel, binding, offer, limit, phase, active, conn>>

\* The loop is through with the offered connection.
Settle(outcome) ==
    /\ conn' = [conn EXCEPT ![offer] = outcome]
    /\ offer' = NoConn
    /\ limit' = 0
    /\ loaded' = 0
    /\ pc' = "select"

\* Mutant: the refused connection gives back a permit it never had.
RefuseReleasing ==
    /\ pc = "exchange"
    /\ loaded >= limit
    /\ active' = active - 1
    /\ Settle("none")
    /\ UNCHANGED <<channel, binding, phase>>

\* The limit is reached: the stream is dropped.
Refuse ==
    /\ pc = "exchange"
    /\ loaded >= limit
    /\ Settle("none")
    /\ UNCHANGED <<channel, binding, phase, active>>

\* Mutant: the limit is compared with <=.
AdmitOneMore ==
    /\ pc = "exchange"
    /\ active = loaded
    /\ active' = loaded + 1
    /\ Settle("open")
    /\ UNCHANGED <<channel, binding, phase>>

\* The exchange succeeds: the permit exists and the connection's task starts.
Admit ==
    /\ pc = "exchange"
    /\ loaded < limit
    /\ active = loaded
    /\ active' = loaded + 1
    /\ Settle("open")
    /\ UNCHANGED <<channel, binding, phase>>

\* Mutant: a failed exchange is tried again with the old value.
RetryOldValue == UNCHANGED vars

\* The exchange fails and yields the current value (failing spuriously, it
\* yields the value it had, which changes nothing).
Retry ==
    /\ pc = "exchange"
    /\ loaded < limit
    /\ active # loaded
    /\ loaded' = active
    /\ UNCHANGED <<channel, binding, offer, limit, phase, pc, active, conn>>

\* Mutant: the timeout drops the connection but not the permit.
EndKeepingPermit(c) ==
    /\ conn[c] = "open"
    /\ conn' = [conn EXCEPT ![c] = "none"]
    /\ UNCHANGED <<channel, binding, limiter, phase, pc, active>>

\* A connection's task returns, is cut off by the timeout, or is dropped with
\* the runtime: fetch_sub of the permit.
End(c) ==
    /\ conn[c] = "open"
    /\ conn' = [conn EXCEPT ![c] = "none"]
    /\ active' = active - 1
    /\ UNCHANGED <<channel, binding, limiter, phase, pc>>

-----------------------------------------------------------------------------
(* Following server.bind.                                                  *)

\* The changed branch: the version is seen, the state borrowed; a bind address
\* that differs is bound.
Changed ==
    /\ AtSelect
    /\ unseen
    /\ unseen' = FALSE
    /\ IF published.bind # bound
       THEN target' = published.bind /\ pc' = "bind"
       ELSE UNCHANGED <<target, pc>>
    /\ UNCHANGED <<published, sender, count, listener, bound, faults, limiter, phase, active, conn>>

Bindable(address) == <<address, listener>> \notin Overlaps /\ <<listener, address>> \notin Overlaps

\* Mutant: what was published during the bind is marked as seen, unread.
RebindMarkingSeen ==
    /\ pc = "bind"
    /\ Bindable(target)
    /\ listener' = target
    /\ bound' = target
    /\ target' = NoAddress
    /\ conn' = [c \in Conns |-> IF conn[c] = "queued" THEN "none" ELSE conn[c]]
    /\ pc' = "select"
    /\ unseen' = FALSE
    /\ UNCHANGED <<published, sender, count, faults, limiter, phase, active>>

\* The new listener replaces the old one, whose backlog is reset.
Rebind ==
    /\ pc = "bind"
    /\ Bindable(target)
    /\ listener' = target
    /\ bound' = target
    /\ target' = NoAddress
    /\ conn' = [c \in Conns |-> IF conn[c] = "queued" THEN "none" ELSE conn[c]]
    /\ pc' = "select"
    /\ UNCHANGED <<channel, faults, limiter, phase, active>>

\* Mutant: the old listener is closed before the new one is bound.
CloseThenFail ==
    /\ pc = "bind"
    /\ faults < MaxFaults
    /\ faults' = faults + 1
    /\ listener' = NoAddress
    /\ target' = NoAddress
    /\ pc' = "select"
    /\ UNCHANGED <<channel, bound, limiter, phase, active, conn>>

\* The address is in use: by the listener the loop still holds, or elsewhere.
RebindFails ==
    /\ pc = "bind"
    /\ \/ ~Bindable(target) /\ UNCHANGED faults
       \/ faults < MaxFaults /\ faults' = faults + 1
    /\ target' = NoAddress
    /\ pc' = "select"
    /\ UNCHANGED <<channel, listener, bound, limiter, phase, active, conn>>

\* run returns; the listener is closed and its backlog reset.
Return ==
    /\ AtSelect
    /\ phase' = "stopped"
    /\ listener' = NoAddress
    /\ conn' = [c \in Conns |-> IF conn[c] = "queued" THEN "none" ELSE conn[c]]
    /\ UNCHANGED <<channel, bound, target, faults, limiter, pc, active>>

\* accept fails, or ctrl-c.
Stop == Return

\* Mutant: the error of changed() is ignored, and the loop goes round again.
ChannelClosedIgnored == sender = "closed" /\ ~unseen /\ AtSelect /\ UNCHANGED vars

\* changed() finds the channel closed and nothing unseen in it.
ChannelClosed == sender = "closed" /\ ~unseen /\ Return

-----------------------------------------------------------------------------
Next ==
    \/ \E config \in Configs : Publish(config)
    \/ WatcherEnds
    \/ \E c \in Conns : Connect(c) \/ Accept(c) \/ End(c)
    \/ Load \/ Refuse \/ Admit \/ Retry
    \/ Changed \/ Rebind \/ RebindFails
    \/ Stop \/ ChannelClosed

Spec == Init /\ [][Next]_vars

\* The accept loop is scheduled, and a bind attempt returns.  select! polls its
\* branches in random order, so one that stays ready, or is ready again and
\* again, is taken.  A connection's task ends: timeout() wraps all of it.
Fairness ==
    /\ WF_vars(Load) /\ WF_vars(Refuse) /\ WF_vars(Admit) /\ WF_vars(Retry)
    /\ SF_vars(Changed)
    /\ WF_vars(Rebind \/ RebindFails)
    /\ SF_vars(ChannelClosed)
    /\ \A c \in Conns : WF_vars(End(c))

FairSpec == Spec /\ Fairness

-----------------------------------------------------------------------------
(* Properties.                                                             *)

\* The counter is the number of connections that hold a permit, whatever
\* permits are dropped while another is being acquired: no permit leaks, and
\* none is counted twice.
ActiveCounts == active = Cardinality(Open)

\* A connection is admitted only while fewer are open than max_connections
\* allowed when it was accepted, also after the limit was lowered below the
\* number of open connections.
WithinLimit ==
    [][\A c \in Conns : conn[c] # "open" /\ conn'[c] = "open" => Cardinality(Open) < limit]_vars

\* The server listens all the time it runs, and where the loop thinks it does:
\* a bind that fails keeps the previous listener.
KeepsListening == phase = "running" => listener = bound

\* try_acquire ends, although permits dropped meanwhile make exchanges fail.
Decided == \A c \in Conns : conn[c] = "accepted" ~> conn[c] # "accepted"

\* Once the configuration is no longer changed, a running server listens on the
\* published address: no publication is missed, not even one made during a bind.
FollowsBind == <>[](phase = "running" => listener = published.bind)

\* The same where the operating system may refuse the address: a bind that fails
\* is tried again only at the next publication, every other one is followed.
FollowsBindUnlessRefused ==
    <>[](phase = "running" => \/ listener = published.bind
                              \/ faults > 0
                              \/ ~Bindable(published.bind))

-----------------------------------------------------------------------------
(* The inductive invariant behind these properties.                        *)

\* The program point says what the loop holds: an accepted connection during
\* try_acquire, an address during a bind, nothing when run has returned.
LoopState ==
    /\ pc \in {"acquire", "exchange"} => offer \in Conns /\ conn[offer] = "accepted"
    /\ pc = "bind" => target \in Addresses
    /\ phase = "stopped" => pc = "select"

IInv == TypeOK /\ LoopState /\ ActiveCounts /\ KeepsListening
=============================================================================
