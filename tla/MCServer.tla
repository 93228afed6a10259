------------------------------ MODULE MCServer ------------------------------
(* Constant values for checking Server with TLC.                           *)
EXTENDS Server

CONSTANTS c1, c2, c3

MCConns == {c1, c2, c3}
MCAddresses == {"0.0.0.0:25565", "127.0.0.1:25565", "0.0.0.0:25566"}
MCLimits == {1, 2}
\* A listener on all addresses keeps a port from one on a single address.
MCOverlaps == {<<"0.0.0.0:25565", "127.0.0.1:25565">>}
=============================================================================
