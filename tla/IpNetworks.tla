----------------------------- MODULE IpNetworks -----------------------------
(* Addresses and networks of one family, as security.rs reads them.        *)
EXTENDS Naturals

CONSTANT Bits  \* the width of an address: 32 or 128

\* An address is its bits, the most significant one first.
Addresses == [1..Bits -> {0, 1}]

\* The network of an address: parse_network sets the bits behind the prefix to 0.
Cut(address, prefix) ==
    [prefix |-> prefix, bits |-> [i \in 1..Bits |-> IF i <= prefix THEN address[i] ELSE 0]]

Networks == {Cut(address, prefix) : address \in Addresses, prefix \in 0..Bits}

\* Does the address lie in the network?
Covers(network, address) == Cut(address, network.prefix) = network
=============================================================================
