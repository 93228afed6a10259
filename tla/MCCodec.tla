------------------------------ MODULE MCCodec ------------------------------
(* Groups of 2 bits, numbers of 5 bits, and peers that keep to the format  *)
(* and others for TLC.                                                     *)
EXTENDS Codec

Go(bits) == [more |-> TRUE, bits |-> bits]
Stop(bits) == [more |-> FALSE, bits |-> bits]
Packet(id, payload) == [id |-> id, payload |-> payload]
Other(bytes, item) == [bytes |-> bytes, item |-> item]

\* Every id, and frames at the limit and just beyond.
MCPackets ==
    {Packet(id, <<>>) : id \in -16..15}
      \cup {Packet(1, <<Go(3)>>), Packet(-2, <<Stop(0)>>), Packet(-2, <<Go(1), Stop(0)>>)}

MCOthers == {
    Other(<<Stop(0)>>, Unreadable),                                 \* an empty frame
    Other(<<Go(3), Go(3), Stop(1)>>, Unreadable),                   \* a negative length
    Other(<<Go(0), Go(0), Go(0), Stop(0)>>, Unreadable),            \* a length that is too long
    Other(<<Stop(2), Go(0), Go(0)>>, Unreadable),                   \* an unfinished id
    Other(<<Go(0), Stop(1), Go(1), Go(0), Go(0), Stop(0)>>, Unreadable),  \* an id that is too long
    Other(<<Go(1), Go(0), Stop(2), Stop(2)>>, Packet(2, <<>>)),       \* zeros and a lost bit
    Other(<<Stop(3), Go(2), Go(0), Stop(0)>>, Packet(2, <<>>))}
=============================================================================
