----------------------------- MODULE AddressSet -----------------------------
(***************************************************************************)
(* What an IP list promises to the security check and the routing rules    *)
(* (security.rs): it holds the addresses of all the networks put into it,  *)
(* and a question is answered by membership.                               *)
(***************************************************************************)
EXTENDS IpNetworks

VARIABLES
    listed,  \* the addresses in the set
    answer   \* the last answer

NoAnswer == [asked |-> "nothing"]

Init == listed = {} /\ answer = NoAnswer

Insert(network) ==
    /\ listed' = listed \cup {address \in Addresses : Covers(network, address)}
    /\ UNCHANGED answer

Contains(address) ==
    /\ answer' = [asked |-> address, listed |-> address \in listed]
    /\ UNCHANGED listed

Next ==
    \/ \E network \in Networks : Insert(network)
    \/ \E address \in Addresses : Contains(address)

Spec == Init /\ [][Next]_<<listed, answer>>
=============================================================================
