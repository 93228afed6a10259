----------------------------- MODULE MCGateway -----------------------------
(* Constant values for checking Gateway with TLC.                          *)
EXTENDS Gateway

CONSTANTS c1, c2

MCConns == {c1, c2}
MCOwnFiles == {"config", "alpha"}
MCAddresses == {"0.0.0.0:25565", "127.0.0.1:25565", "0.0.0.0:25566"}
MCLimits == {1, 2}
\* A listener on all addresses keeps a port from one on a single address.
MCOverlaps == {<<"0.0.0.0:25565", "127.0.0.1:25565">>}
MCOwnNeeds == {"alpha"}
=============================================================================
