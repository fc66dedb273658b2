----------------------------- MODULE PacketCodec -----------------------------
(***************************************************************************)
(* The packets of the WebSocket connections: one byte of header, the       *)
(* length of the body in one, two or four bytes, the body, deflated if it  *)
(* is long and gets shorter by it.  What the bytes of a body say is not    *)
(* modelled, but for its command: a protobuf message has to be registered. *)
(***************************************************************************)
EXTENDS Naturals

CONSTANTS
    Byte,        \* values of one byte of the length field: 256 in the code
    ZipAbove,    \* 1024 in the code
    Bodies,
    NoBody,      \* the data of a packet that nobody has read
    Size,        \* Size[b]: bytes of b as it is written by its protocol
    Deflated,    \* Deflated[b]: bytes of the same after deflateRawSync
    Registered   \* bodies whose command _protobuf_mgr knows

ASSUME CodecAssumption ==
    /\ Byte \in Nat \ {0} /\ ZipAbove \in Nat
    /\ Size \in [Bodies -> Nat] /\ Deflated \in [Bodies -> Nat]
    /\ Registered \subseteq Bodies

\* packettype, prototype and bodylenbits
Sys == 1
Msg == 3
Types == {Sys, 2, Msg}
Text == 1
Json == 2
Xml == 3
Grpc == 4
Binary == 5
Protos == {Text, Json, Xml, Grpc, Binary}
Bits == {0, 1, 2}

-----------------------------------------------------------------------------
\* The header: two bits, three, two and one.
MakeHeader(type, proto, bits, zipped) == 64 * type + 8 * proto + 2 * bits + zipped
TypeOf(h) == h \div 64
ProtoOf(h) == (h \div 8) % 8
BitsOf(h) == (h \div 2) % 4
ZippedOf(h) == h % 2

\* set_bitszipped: h & 0xf8, and the new bits
SetBitsZipped(h, bits, zipped) == 8 * (h \div 8) + 2 * bits + zipped

\* bytes of the length field, 0 for bits that decode_packet has no case for
Width(bits) == CASE bits = 0 -> 1 [] bits = 1 -> 2 [] bits = 2 -> 4 [] OTHER -> 0
Limit(bits) ==
    CASE bits = 0 -> Byte [] bits = 1 -> Byte * Byte [] OTHER -> Byte * Byte * Byte * Byte

\* Mutant of BitsFor: a boundary is off by one.
BitsFor_Late(n) == IF n <= Limit(0) THEN 0 ELSE IF n < Limit(1) THEN 1 ELSE 2

BitsFor(n) == IF n < Limit(0) THEN 0 ELSE IF n < Limit(1) THEN 1 ELSE 2

-----------------------------------------------------------------------------
\* A packet has its header from create_packet or from decode_packet, so its
\* bits may be anything until it is encoded.
NewPacket(type, proto, b) == [header |-> MakeHeader(type, proto, 0, 0), body |-> b]
Content(p) == <<TypeOf(p.header), ProtoOf(p.header), p.body>>

Zips(b) == Size[b] > ZipAbove /\ Deflated[b] < Size[b]
Length(b) == IF Zips(b) THEN Deflated[b] ELSE Size[b]

\* Neither side throws: the length fits its field, the message is registered.
Encodes(p) ==
    /\ Length(p.body) < Limit(BitsFor(Length(p.body)))
    /\ ProtoOf(p.header) = Grpc => p.body \in Registered

\* What a frame holds: as many bytes of length field as width, which say len,
\* and the body, as it is or deflated.
Encode(p) ==
    LET n == Length(p.body)
    IN  [header |-> SetBitsZipped(p.header, BitsFor(n), IF Zips(p.body) THEN 1 ELSE 0),
         width |-> Width(BitsFor(n)),
         len |-> n,
         body |-> p.body,
         zipped |-> Zips(p.body)]

BytesOf(f) == IF f.zipped THEN Deflated[f.body] ELSE Size[f.body]

\* The length read is the one that was written if the field is as wide as the
\* header says, and it has to be the number of the bytes that are left.  What
\* was not deflated cannot be inflated, nor the other way round be read.
Decodes(f) ==
    /\ Width(BitsOf(f.header)) = f.width
    /\ f.len = BytesOf(f)
    /\ f.zipped <=> ZippedOf(f.header) = 1
    /\ ProtoOf(f.header) = Grpc => f.body \in Registered

\* xml is a TO DO: its data stays null
Decode(f) ==
    [header |-> f.header, body |-> IF ProtoOf(f.header) = Xml THEN NoBody ELSE f.body]

-----------------------------------------------------------------------------
\* What the protocol has to carry: any body whose length four bytes can say, a
\* protobuf message if it is registered.
Sendable(proto, b) ==
    /\ Size[b] < Limit(2)
    /\ proto = Grpc => b \in Registered
=============================================================================
