------------------------------- MODULE Codec -------------------------------
(***************************************************************************)
(* Packets on a byte stream (protocol.rs): write_packet on one side and    *)
(* calls of read_packet, one after the other, on the other side.  A byte is*)
(* a flag for more and a group of bits, as a VarInt uses it; the widths are*)
(* constants, in the program groups of 7 bits, numbers of 32 and at most 5 *)
(* bytes.  Bytes arrive one by one, and the connection may be cut anywhere.*)
(***************************************************************************)
EXTENDS Integers, Sequences

CONSTANTS
    Base, Modulus,   \* how many values a group of bits has, and a word
    MaxVarIntBytes,
    MaxFrameLength,  \* server.max_frame_length
    Packets,         \* the packets that a peer may write
    Others,          \* what other peers may write: bytes, and the item they stand for
    Unreadable,      \* the item for bytes that are no packet
    MaxSent          \* bound: items sent

VARIABLES
    wire,      \* bytes under way
    cut,       \* "no", then what follows the last byte: "closed", an end, or "reset", an error
    head,      \* the bytes of the length read so far
    frame,     \* the bytes of the frame read so far
    need,      \* the length of the frame; Unknown while it is being read
    received,  \* the packets read so far
    ended,     \* "no", "closed" when read_packet returned None, "failed" for an error
    sent,      \* history: the items sent so far
    ends,      \* history: the number of bytes written when each item was sent
    written,   \* history: the bytes of all items
    lost,      \* history: how many of them the cut has dropped
    consumed   \* history: the bytes of the packets received

peer == <<sent, ends, written, lost>>
vars == <<wire, cut, head, frame, need, received, ended, peer, consumed>>

Byte == [more : BOOLEAN, bits : 0..(Base - 1)]
Word == (-(Modulus \div 2))..((Modulus \div 2) - 1)
Items == Packets \cup {Unreadable} \cup {other.item : other \in Others}
Unknown == -1

TypeOK ==
    /\ wire \in Seq(Byte) /\ head \in Seq(Byte) /\ frame \in Seq(Byte)
    /\ cut \in {"no", "closed", "reset"}
    /\ need \in {Unknown} \cup 0..MaxFrameLength
    /\ received \in Seq([id : Word, payload : Seq(Byte)])
    /\ ended \in {"no", "closed", "failed"}
    /\ sent \in Seq(Items) /\ Len(sent) <= MaxSent
    /\ ends \in Seq(Nat) /\ written \in Seq(Byte) /\ lost \in Nat
    /\ consumed \in Seq(Byte)

Init ==
    /\ wire = <<>> /\ cut = "no"
    /\ head = <<>> /\ frame = <<>> /\ need = Unknown
    /\ received = <<>> /\ ended = "no"
    /\ sent = <<>> /\ ends = <<>> /\ written = <<>> /\ lost = 0 /\ consumed = <<>>

-----------------------------------------------------------------------------
(* VarInts.                                                                *)

\* write_varint: groups of bits, the lowest ones first.
Groups[unsigned \in Nat] ==
    IF unsigned < Base THEN <<[more |-> FALSE, bits |-> unsigned]>>
    ELSE <<[more |-> TRUE, bits |-> unsigned % Base]>> \o Groups[unsigned \div Base]

WriteVarInt(value) == Groups[value % Modulus]

\* Does a VarInt end with the last of these bytes, and only there?
Complete(bytes) ==
    /\ bytes # <<>>
    /\ \A i \in DOMAIN bytes : bytes[i].more <=> i < Len(bytes)

\* The number that the groups make up.
Unsigned[bytes \in Seq(Byte)] ==
    IF bytes = <<>> THEN 0 ELSE Head(bytes).bits + Base * Unsigned[Tail(bytes)]

\* Mutant: the value stays unsigned.
ValueUnsigned(bytes) == Unsigned[bytes] % Modulus

\* The signed number; the shift drops what does not fit in the word.
Value(bytes) ==
    LET unsigned == Unsigned[bytes] % Modulus
    IN  IF unsigned < Modulus \div 2 THEN unsigned ELSE unsigned - Modulus

\* The lengths that a VarInt at the front of some bytes may have: one at most.
VarIntLengths(bytes) ==
    {n \in 1..MaxVarIntBytes : n <= Len(bytes) /\ Complete(SubSeq(bytes, 1, n))}

-----------------------------------------------------------------------------
(* What a peer may write.                                                  *)

Body(packet) == WriteVarInt(packet.id) \o packet.payload

\* A length, and as many bytes, which begin with an id.
IsPacket(bytes, packet) ==
    \E n \in VarIntLengths(bytes) :
        LET body == SubSeq(bytes, n + 1, Len(bytes))
        IN  /\ Len(body) <= MaxFrameLength /\ Len(body) = Value(SubSeq(bytes, 1, n))
            /\ \E i \in VarIntLengths(body) :
                  packet = [id |-> Value(SubSeq(body, 1, i)), payload |-> SubSeq(body, i + 1, Len(body))]

\* A length that does not end or is out of range, or a frame without an id.
IsNone(bytes) ==
    \/ Len(bytes) >= MaxVarIntBytes /\ \A i \in 1..MaxVarIntBytes : bytes[i].more
    \/ \E n \in VarIntLengths(bytes) :
          LET length == Value(SubSeq(bytes, 1, n))
          IN  \/ length \notin 0..MaxFrameLength
              \/ Len(bytes) >= n + length /\ VarIntLengths(SubSeq(bytes, n + 1, n + length)) = {}

StandsFor(bytes, item) == IF item = Unreadable THEN IsNone(bytes) ELSE IsPacket(bytes, item)

\* A VarInt has room for every word, max_frame_length is in its range, and no
\* packet is longer than a word can say.
ASSUME CodecAssumption ==
    /\ Base \in Nat /\ Base > 1
    /\ Modulus \in Nat \ {0} /\ Modulus % 2 = 0
    /\ MaxVarIntBytes \in Nat
    /\ \A unsigned \in 0..(Modulus - 1) : Len(Groups[unsigned]) <= MaxVarIntBytes
    /\ MaxFrameLength \in 0..(Modulus \div 2 - 1)
    /\ MaxSent \in Nat
    /\ \A packet \in Packets :
          packet \in [id : Word, payload : Seq(Byte)] /\ Len(Body(packet)) < Modulus
    /\ Unreadable \notin Packets
    /\ \A other \in Others : other.bytes \in Seq(Byte) /\ StandsFor(other.bytes, other.item)

-----------------------------------------------------------------------------
(* The peer.                                                               *)

Put(bytes, item) ==
    /\ cut = "no"
    /\ Len(sent) < MaxSent
    /\ wire' = wire \o bytes
    /\ written' = written \o bytes
    /\ sent' = Append(sent, item)
    /\ ends' = Append(ends, Len(written'))
    /\ UNCHANGED <<cut, head, frame, need, received, ended, lost, consumed>>

WritePacket(packet) ==
    Put(WriteVarInt(Len(Body(packet))) \o Body(packet),
        IF Len(Body(packet)) <= MaxFrameLength THEN packet ELSE Unreadable)

WriteOther(other) == Put(other.bytes, other.item)

\* The connection ends, in order or not, and the bytes that have not arrived
\* are dropped.
Cut ==
    /\ cut = "no"
    /\ cut' \in {"closed", "reset"}
    /\ \E n \in 0..Len(wire) :
          /\ wire' = SubSeq(wire, 1, n)
          /\ lost' = Len(wire) - n
    /\ UNCHANGED <<head, frame, need, received, ended, sent, ends, written, consumed>>

-----------------------------------------------------------------------------
(* read_packet.                                                            *)

Take == wire # <<>> /\ wire' = Tail(wire)

End(how) ==
    /\ ended' = how
    /\ UNCHANGED <<cut, head, frame, need, received, peer, consumed>>

\* read_varint_async, one byte.
ReadsLength == ended = "no" /\ need = Unknown
Heading == Append(head, Head(wire))

ReadOn ==
    /\ ReadsLength /\ Take
    /\ Head(wire).more
    /\ Len(Heading) < MaxVarIntBytes
    /\ head' = Heading
    /\ UNCHANGED <<cut, frame, need, received, ended, peer, consumed>>

VarIntTooLong ==
    /\ ReadsLength /\ Take
    /\ Head(wire).more
    /\ Len(Heading) = MaxVarIntBytes
    /\ End("failed")

\* A negative length, or one beyond the limit, is refused before any byte of
\* the frame is read.
BadLength ==
    /\ ReadsLength /\ Take
    /\ Complete(Heading)
    /\ Value(Heading) \notin 0..MaxFrameLength
    /\ End("failed")

ReadLength ==
    /\ ReadsLength /\ Take
    /\ Complete(Heading)
    /\ Value(Heading) \in 0..MaxFrameLength
    /\ head' = Heading
    /\ need' = Value(Heading)
    /\ UNCHANGED <<cut, frame, received, ended, peer, consumed>>

\* read_exact.
ReadFrame ==
    /\ ended = "no" /\ Len(frame) < need
    /\ Take
    /\ frame' = Append(frame, Head(wire))
    /\ UNCHANGED <<cut, head, need, received, ended, peer, consumed>>

\* Mutant: an id may take one byte more than a VarInt has.
IdLengthsOneMore ==
    {n \in 1..(MaxVarIntBytes + 1) : n <= Len(frame) /\ Complete(SubSeq(frame, 1, n))}

\* The places where the id may end: one at most.
IdLengths == VarIntLengths(frame)

ReturnPacket ==
    /\ ended = "no" /\ Len(frame) = need
    /\ \E n \in IdLengths :
          received' = Append(received, [id |-> Value(SubSeq(frame, 1, n)),
                                        payload |-> SubSeq(frame, n + 1, Len(frame))])
    /\ consumed' = consumed \o head \o frame
    /\ head' = <<>> /\ frame' = <<>> /\ need' = Unknown
    /\ UNCHANGED <<wire, cut, ended, peer>>

\* The frame ends before its id does, or the id does not end.
BadId ==
    /\ ended = "no" /\ Len(frame) = need
    /\ IdLengths = {}
    /\ End("failed")
    /\ UNCHANGED wire

\* Mutant: an end within a length passes for the end of the stream.
CleanCloseAnywhere ==
    /\ ReadsLength
    /\ cut = "closed" /\ wire = <<>>
    /\ End("closed")
    /\ UNCHANGED wire

\* The stream ends where a packet would begin: read_packet returns None.
CleanClose ==
    /\ ReadsLength /\ head = <<>>
    /\ cut = "closed" /\ wire = <<>>
    /\ End("closed")
    /\ UNCHANGED wire

UnexpectedEof ==
    /\ ended = "no"
    /\ cut = "closed" /\ wire = <<>>
    /\ IF need = Unknown THEN head # <<>> ELSE Len(frame) < need
    /\ End("failed")
    /\ UNCHANGED wire

\* Any other error of the connection fails the read, also where a packet would
\* begin.
ConnectionError ==
    /\ ended = "no"
    /\ cut = "reset" /\ wire = <<>>
    /\ need = Unknown \/ Len(frame) < need
    /\ End("failed")
    /\ UNCHANGED wire

ReadPacket ==
    \/ ReadOn \/ VarIntTooLong \/ BadLength \/ ReadLength
    \/ ReadFrame \/ ReturnPacket \/ BadId
    \/ CleanClose \/ UnexpectedEof \/ ConnectionError

Next ==
    \/ \E packet \in Packets : WritePacket(packet)
    \/ \E other \in Others : WriteOther(other)
    \/ Cut
    \/ ReadPacket

\* A read that waits is resumed when bytes or the end arrive.
Spec == Init /\ [][Next]_vars /\ WF_vars(ReadPacket)

-----------------------------------------------------------------------------
(* Properties.                                                             *)

\* However the bytes arrive and wherever the connection is cut, read_packet
\* returns the packets of the peer, whole and in order, fails at the first one
\* that is none or with the connection, and leaves nobody waiting for what has
\* been sent.
Stream == INSTANCE PacketStream
          WITH Items <- Items, Unreadable <- Unreadable,
               sent <- sent, received <- received, broken <- cut, ended <- ended
Delivers == Stream!Spec

\* The end of the stream counts as clean only if every byte that arrived
\* belongs to a packet received: what a session takes for a complete
\* conversation has not been cut within a packet.
Arrived == SubSeq(written, 1, Len(written) - lost)
CleanEnd == ended = "closed" => consumed = Arrived

\* The bytes of a peer, item by item.
Start(i) == IF i = 1 THEN 0 ELSE ends[i - 1]
BytesOf(i) == SubSeq(written, Start(i) + 1, ends[i])
ItemByItem ==
    /\ Len(ends) = Len(sent)
    /\ Start(Len(sent) + 1) = Len(written)
    /\ \A i \in 1..Len(sent) :
          /\ Start(i) < ends[i] /\ ends[i] <= Len(written)
          /\ StandsFor(BytesOf(i), sent[i])

\* No byte gets lost between the peer and the place where reading stands, which
\* is behind the packets received, within the next one or before it.
NoByteLost ==
    /\ cut = "no" => lost = 0
    /\ ended = "closed" => cut = "closed"
    /\ ended = "no" => consumed \o head \o frame \o wire = Arrived
    /\ Len(received) <= Len(sent)
    /\ Len(consumed) = Start(Len(received) + 1)

\* read_packet is within a length, or has read it and is within the frame.
Progress ==
    IF need = Unknown
    THEN frame = <<>> /\ Len(head) < MaxVarIntBytes /\ \A i \in DOMAIN head : head[i].more
    ELSE /\ Complete(head) /\ Len(head) <= MaxVarIntBytes
         /\ Value(head) = need /\ Len(frame) <= need

CodecInv == TypeOK /\ ItemByItem /\ NoByteLost /\ Progress /\ CleanEnd
=============================================================================
