---------------------------- MODULE PacketStream ----------------------------
(***************************************************************************)
(* What the packet layer promises to a session (protocol.rs): the packets  *)
(* of the peer, whole and in order, until the connection breaks or one     *)
(* cannot be read.                                                         *)
(***************************************************************************)
EXTENDS Naturals, Sequences

CONSTANTS
    Items,      \* what a peer may send
    Unreadable  \* what stands for all of it that is no packet

VARIABLES
    sent,      \* what the peer has sent
    received,  \* what read_packet has returned
    broken,    \* "no", or how the connection has ended: "closed" or "reset"
    ended      \* how reading has ended: "no", "closed" for None, "failed" for an error

vars == <<sent, received, broken, ended>>

Init == sent = <<>> /\ received = <<>> /\ broken = "no" /\ ended = "no"

Send(item) ==
    /\ broken = "no"
    /\ sent' = Append(sent, item)
    /\ UNCHANGED <<received, broken, ended>>

Break ==
    /\ broken = "no"
    /\ broken' \in {"closed", "reset"}
    /\ UNCHANGED <<sent, received, ended>>

Pending == ended = "no" /\ Len(received) < Len(sent)
Following == sent[Len(received) + 1]

Receive ==
    /\ Pending
    /\ Following # Unreadable
    /\ received' = Append(received, Following)
    /\ UNCHANGED <<sent, broken, ended>>

\* An end of the connection fails a read only within a packet; a reset fails
\* any.
Fail ==
    /\ \/ Pending /\ (broken = "closed" \/ Following = Unreadable)
       \/ ended = "no" /\ broken = "reset"
    /\ ended' = "failed"
    /\ UNCHANGED <<sent, received, broken>>

\* A broken connection may have lost whole packets.
Close ==
    /\ ended = "no"
    /\ broken = "closed"
    /\ ended' = "closed"
    /\ UNCHANGED <<sent, received, broken>>

Read == Receive \/ Fail \/ Close

Next == (\E item \in Items : Send(item)) \/ Break \/ Read

InOrder == Init /\ [][Next]_vars

\* A session that reads is not left waiting for what has been sent.
Spec == InOrder /\ WF_vars(Read)
=============================================================================
