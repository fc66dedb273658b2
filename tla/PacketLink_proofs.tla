-------------------------- MODULE PacketLink_proofs --------------------------
(***************************************************************************)
(* What encode_packet writes decode_packet reads, for every packet, body   *)
(* and width of a byte, and whatever the low bits of the header were; and  *)
(* of PacketLink, for any clients, clocks and number of packets: types,    *)
(* that what is sent arrives whole, and that a client's clock is behind,   *)
(* by no more than its latency if each ping is answered before the next.   *)
(***************************************************************************)
EXTENDS PacketLink, Integers, FiniteSetTheorems, SequenceTheorems, TLAPS

Headers == 0..255

(***************************************************************************)
(* The three fields of the header do not touch each other: setting the     *)
(* bits of the length and of the compression keeps the type and protocol.  *)
(***************************************************************************)
LEMMA HeaderFields ==
    ASSUME NEW h \in Headers, NEW bits \in Bits, NEW z \in {0, 1}
    PROVE  LET g == SetBitsZipped(h, bits, z)
           IN  /\ g \in Headers
               /\ TypeOf(g) = TypeOf(h)
               /\ ProtoOf(g) = ProtoOf(h)
               /\ BitsOf(g) = bits
               /\ ZippedOf(g) = z
<1> DEFINE q == h \div 8
<1> DEFINE g == 8 * q + 2 * bits + z
<1>1. q \in 0..31
  BY DEF Headers
<1>2. 2 * bits + z \in 0..5
  BY DEF Bits
<1>3. g \in Headers /\ g \div 8 = q
  BY <1>1, <1>2 DEF Headers, Bits
<1>4. g \div 64 = q \div 8
  <2>1. g \in Nat /\ q \in Nat
    BY <1>1, <1>3 DEF Headers
  <2> HIDE DEF q
  <2>2. PICK a \in 0..3, b \in 0..7 : q = 8 * a + b
    <3> DEFINE a == q \div 8
    <3>1. a \in 0..3 /\ q - 8 * a \in 0..7
      BY <1>1
    <3> HIDE DEF a
    <3> QED BY <2>1, <3>1
  <2>3. g = 64 * a + (8 * b + 2 * bits + z) /\ 8 * b + 2 * bits + z \in 0..63
    BY <2>2, <1>2 DEF Bits
  <2> QED BY <2>2, <2>3 DEF Bits
<1>5. h \div 64 = q \div 8
  BY DEF Headers
<1>6. (g \div 2) % 4 = bits
  <2>1. g \div 2 = 4 * q + bits
    BY <1>1 DEF Bits
  <2> QED BY <1>1, <2>1 DEF Bits
<1>7. g % 2 = z
  BY <1>1 DEF Bits
<1> QED
  BY <1>3, <1>4, <1>5, <1>6, <1>7 DEF SetBitsZipped, TypeOf, ProtoOf, BitsOf, ZippedOf

(***************************************************************************)
(* The length field has the width that the header says.                    *)
(***************************************************************************)
LEMMA BitsAreBits == ASSUME NEW n PROVE BitsFor(n) \in Bits
BY DEF BitsFor, Bits

(***************************************************************************)
(* Whatever encode_packet accepts decode_packet accepts as well, and gives *)
(* its type, protocol and body back, but for xml, which nobody reads yet.  *)
(***************************************************************************)
THEOREM RoundTrip ==
    ASSUME NEW p, p.header \in Headers, p.body \in Bodies, Encodes(p)
    PROVE  /\ Decodes(Encode(p))
           /\ ProtoOf(p.header) # Xml => Content(Decode(Encode(p))) = Content(p)
<1> DEFINE n == Length(p.body)
<1> DEFINE z == IF Zips(p.body) THEN 1 ELSE 0
<1> DEFINE g == SetBitsZipped(p.header, BitsFor(n), z)
<1>1. z \in {0, 1} /\ (z = 1 <=> Zips(p.body))
  OBVIOUS
<1>2. BitsFor(n) \in Bits
  BY BitsAreBits
<1>3. /\ TypeOf(g) = TypeOf(p.header) /\ ProtoOf(g) = ProtoOf(p.header)
      /\ BitsOf(g) = BitsFor(n) /\ ZippedOf(g) = z
  <2> HIDE DEF n, z
  <2> QED BY <1>1, <1>2, HeaderFields
<1>4. Encode(p) = [header |-> g, width |-> Width(BitsFor(n)), len |-> n, body |-> p.body,
                   zipped |-> Zips(p.body)]
  BY DEF Encode
<1>5. n = BytesOf(Encode(p))
  BY <1>4 DEF Length, BytesOf
<1> HIDE DEF g, z, n
<1>6. Decodes(Encode(p))
  BY <1>1, <1>3, <1>4, <1>5 DEF Decodes, Encodes
<1>7. ASSUME ProtoOf(p.header) # Xml PROVE Content(Decode(Encode(p))) = Content(p)
  BY <1>3, <1>4, <1>7 DEF Content, Decode
<1> QED BY <1>6, <1>7

(***************************************************************************)
(* A body whose length four bytes can say is encoded at every size, at the *)
(* boundaries of the length field as well, and deflated or not.            *)
(***************************************************************************)
THEOREM SendableEncodes ==
    ASSUME NEW type \in Types, NEW proto \in Protos, NEW b \in Bodies, Sendable(proto, b)
    PROVE  /\ NewPacket(type, proto, b).header \in Headers
           /\ Encodes(NewPacket(type, proto, b))
<1> DEFINE h == MakeHeader(type, proto, 0, 0)
<1>1. h \in Headers /\ ProtoOf(h) = proto
  <2>1. h = 8 * (8 * type + proto) /\ type \in 1..3 /\ proto \in 1..5
    BY DEF MakeHeader, Types, Protos, Sys, Msg, Text, Json, Xml, Grpc, Binary
  <2>2. h \div 8 = 8 * type + proto
    BY <2>1
  <2> QED BY <2>1, <2>2 DEF Headers, ProtoOf
<1>2. Length(b) \in Nat /\ Length(b) < Limit(2)
  <2>1. Size[b] \in Nat /\ Deflated[b] \in Nat /\ Size[b] < Limit(2) /\ Limit(2) \in Nat
    BY CodecAssumption DEF Sendable, Limit
  <2> QED BY <2>1 DEF Length, Zips
<1>3. Length(b) < Limit(BitsFor(Length(b)))
  BY <1>2 DEF BitsFor
<1> QED BY <1>1, <1>3 DEF NewPacket, Encodes, Sendable

-----------------------------------------------------------------------------
(***************************************************************************)
(* The frames on their way: shakehands and pings, and the packets of the   *)
(* program.                                                                *)
(***************************************************************************)
Contents == {<<Msg, p[1], p[2]>> : p \in Packets}
IsSys(f) == TypeOf(f.header) = Sys
IsMsg(f) == TypeOf(f.header) = Msg
Frames == {f \in [header : Headers, width : {1, 2, 4}, len : Nat, body : Bodies, zipped : BOOLEAN] :
    /\ Decodes(f)
    /\ IsSys(f) => Decode(f).body \in SysBodies
    /\ ~IsSys(f) => IsMsg(f) /\ Content(Decode(f)) \in Contents}

LEMMA HeaderOf ==
    ASSUME NEW type \in Types, NEW proto \in Protos
    PROVE  /\ MakeHeader(type, proto, 0, 0) \in Headers
           /\ TypeOf(MakeHeader(type, proto, 0, 0)) = type
           /\ ProtoOf(MakeHeader(type, proto, 0, 0)) = proto
<1> DEFINE h == MakeHeader(type, proto, 0, 0)
<1>1. h = 8 * (8 * type + proto) /\ type \in 1..3 /\ proto \in 1..5
  BY DEF MakeHeader, Types, Protos, Sys, Msg, Text, Json, Xml, Grpc, Binary
<1>2. h \div 8 = 8 * type + proto
  BY <1>1
<1>3. h \div 64 = type
  BY <1>1
<1> QED BY <1>1, <1>2, <1>3 DEF Headers, ProtoOf, TypeOf

LEMMA LengthIsNat == ASSUME NEW b \in Bodies PROVE Length(b) \in Nat
BY CodecAssumption DEF Length

\* The frame of a packet: its parts, and its type and protocol.
LEMMA FrameOf ==
    ASSUME NEW type \in Types, NEW proto \in Protos, NEW b \in Bodies,
           Encodes(NewPacket(type, proto, b))
    PROVE  LET f == Encode(NewPacket(type, proto, b))
           IN  /\ f \in [header : Headers, width : {1, 2, 4}, len : Nat, body : Bodies,
                         zipped : BOOLEAN]
               /\ Decodes(f) /\ f.body = b
               /\ TypeOf(f.header) = type /\ ProtoOf(f.header) = proto
<1> DEFINE p == NewPacket(type, proto, b)
           n == Length(b)
           z == IF Zips(b) THEN 1 ELSE 0
           g == SetBitsZipped(p.header, BitsFor(n), z)
<1>1. p.header \in Headers /\ TypeOf(p.header) = type /\ ProtoOf(p.header) = proto /\ p.body = b
  BY HeaderOf DEF NewPacket
<1>2. z \in {0, 1} /\ BitsFor(n) \in Bits /\ n \in Nat /\ Zips(b) \in BOOLEAN
  BY BitsAreBits, LengthIsNat DEF Zips
<1>3. Encode(p) = [header |-> g, width |-> Width(BitsFor(n)), len |-> n, body |-> b, zipped |-> Zips(b)]
  BY <1>1 DEF Encode
<1>4. Width(BitsFor(n)) \in {1, 2, 4}
  BY <1>2 DEF Width, Bits
<1>5. Decodes(Encode(p))
  BY <1>1, RoundTrip
<1> HIDE DEF p, n, z
<1>6. g \in Headers /\ TypeOf(g) = type /\ ProtoOf(g) = proto
  BY <1>1, <1>2, HeaderFields
<1> HIDE DEF g
<1> QED BY <1>2, <1>3, <1>4, <1>5, <1>6 DEF p

LEMMA SysFrames ==
    ASSUME NEW b \in SysBodies
    PROVE  /\ SysFrame(b) \in Frames /\ IsSys(SysFrame(b)) /\ ~IsMsg(SysFrame(b))
           /\ Decode(SysFrame(b)).body = b
<1>1. b \in Bodies /\ Size[b] < Byte /\ Size[b] <= ZipAbove
  BY LinkAssumption
<1>2. Length(b) = Size[b] /\ Length(b) < Limit(0) /\ BitsFor(Length(b)) = 0
  <2>1. Size[b] \in Nat /\ ZipAbove \in Nat
    BY <1>1, CodecAssumption
  <2> QED BY <1>1, <2>1 DEF Length, Zips, Limit, BitsFor
<1>3. Sys \in Types /\ Binary \in Protos /\ Binary # Grpc /\ Binary # Xml /\ Sys # Msg
  BY DEF Types, Protos, Sys, Msg, Text, Json, Xml, Grpc, Binary
<1>4. Encodes(NewPacket(Sys, Binary, b))
  BY <1>2, <1>3, HeaderOf DEF Encodes, NewPacket
<1>5. LET f == SysFrame(b)
      IN  /\ f \in [header : Headers, width : {1, 2, 4}, len : Nat, body : Bodies, zipped : BOOLEAN]
          /\ Decodes(f) /\ f.body = b /\ IsSys(f) /\ ~IsMsg(f) /\ ProtoOf(f.header) # Xml
  BY <1>1, <1>3, <1>4, FrameOf DEF SysFrame, IsSys, IsMsg
<1> QED BY <1>5 DEF Frames, Decode

LEMMA MsgFrames ==
    ASSUME NEW p \in Packets, Encodes(NewPacket(Msg, p[1], p[2]))
    PROVE  LET f == Encode(NewPacket(Msg, p[1], p[2]))
           IN  f \in Frames /\ IsMsg(f) /\ ~IsSys(f) /\ Content(Decode(f)) = <<Msg, p[1], p[2]>>
<1>1. p[1] \in Protos /\ p[1] # Xml /\ p[2] \in Bodies
  BY LinkAssumption
<1>2. Msg \in Types /\ Sys # Msg
  BY DEF Types, Msg, Sys
<1> DEFINE f == Encode(NewPacket(Msg, p[1], p[2]))
<1>3. /\ f \in [header : Headers, width : {1, 2, 4}, len : Nat, body : Bodies, zipped : BOOLEAN]
      /\ Decodes(f) /\ f.body = p[2] /\ IsMsg(f) /\ ~IsSys(f) /\ ProtoOf(f.header) = p[1]
      /\ TypeOf(f.header) = Msg
  BY <1>1, <1>2, FrameOf DEF IsSys, IsMsg
<1> HIDE DEF f
<1>4. Content(Decode(f)) = <<Msg, p[1], p[2]>>
  BY <1>1, <1>3 DEF Content, Decode
<1>5. f \in Frames
  BY <1>3, <1>4 DEF Frames, Contents
<1> QED BY <1>3, <1>4, <1>5 DEF f

\* What the codec accepts is what the program is promised.
LEMMA EncodesSendable ==
    ASSUME NEW p \in Packets
    PROVE  Encodes(NewPacket(Msg, p[1], p[2])) <=> Sendable(p[1], p[2])
<1>1. p[1] \in Protos /\ p[2] \in Bodies /\ Msg \in Types
  BY LinkAssumption DEF Types
<1>2. Sendable(p[1], p[2]) => Encodes(NewPacket(Msg, p[1], p[2]))
  BY <1>1, SendableEncodes
<1>3. ASSUME Encodes(NewPacket(Msg, p[1], p[2])) PROVE Sendable(p[1], p[2])
  <2>1. Length(p[2]) < Limit(BitsFor(Length(p[2]))) /\ (p[1] = Grpc => p[2] \in Registered)
    BY <1>1, <1>3, HeaderOf DEF Encodes, NewPacket
  <2>2. Byte \in Nat /\ Byte >= 1
    BY CodecAssumption
  <2>3. /\ Limit(0) = Byte /\ Limit(1) = Byte * Byte
        /\ Limit(2) = (Byte * Byte) * (Byte * Byte) /\ Limit(2) \in Nat
    BY <2>2 DEF Limit
  <2>4. Limit(0) <= Limit(2) /\ Limit(1) <= Limit(2)
    <3> DEFINE q == Byte * Byte
    <3>1. q \in Nat /\ Byte <= q
      BY <2>2
    <3>2. q >= 1
      BY <2>2, <3>1
    <3> HIDE DEF q
    <3>3. q <= q * q
      BY <3>1, <3>2
    <3> QED BY <2>2, <2>3, <3>1, <3>3 DEF q
  <2>5. Length(p[2]) < Limit(2)
    <3>1. Length(p[2]) \in Nat /\ Limit(0) \in Nat /\ Limit(1) \in Nat
      BY <1>1, <2>2, <2>3, LengthIsNat
    <3> QED BY <2>1, <2>3, <2>4, <3>1 DEF BitsFor
  <2>6. Size[p[2]] < Limit(2)
    <3>1. Length(p[2]) \in Nat
      BY <1>1, LengthIsNat
    <3> QED BY <2>3, <2>5, <3>1, LinkAssumption
  <2> QED BY <2>1, <2>6 DEF Sendable
<1> QED BY <1>2, <1>3

-----------------------------------------------------------------------------
(***************************************************************************)
(* The types, in three parts: the ends of the sockets and the clients'     *)
(* clocks, what is on its way and what was said, and the table.            *)
(***************************************************************************)
Clocks == [ping : Int, pong : Nat, latency : Int, tick : Nat]
EndsOK ==
    /\ now \in 0..MaxTime /\ broken \subseteq Clients
    /\ srv \in [Clients -> {"none", "open", "closing", "closed"}]
    /\ cli \in [Clients -> {"new", "open", "ended"}]
    /\ shaken \in [Clients -> BOOLEAN]
    /\ clock \in [Clients -> Clocks] /\ due \in [Clients -> Int]
    /\ \A c \in Clients : clock[c].pong <= DateNow(c)
WaysOK ==
    /\ up \in [Clients -> Seq(Frames)] /\ down \in [Clients -> Seq(Frames)]
    /\ said \in [Clients -> [Dirs -> Seq(Contents)]]
    /\ heard \in [Clients -> [Dirs -> Seq(Contents)]]

\* An id is one client's, and in the table until the server has seen the end.
Live == {c \in Clients : srv[c] \in {"open", "closing"}}
Accepted == {c \in Clients : srv[c] # "none"}
TableOK ==
    /\ seed = Cardinality(Accepted) + 1
    /\ cid \in [Clients -> Nat]
    /\ \A c \in Clients : cid[c] < seed /\ (cid[c] = 0 <=> srv[c] = "none")
    /\ \A c, d \in Clients : cid[c] = cid[d] /\ cid[c] # 0 => c = d
    /\ table \in [{cid[c] : c \in Live} -> Clients]
    /\ \A c \in Live : table[cid[c]] = c

TInv == EndsOK /\ WaysOK /\ TableOK

LEMMA Counts == IsFiniteSet(Accepted) /\ Cardinality(Accepted) \in 0..Cardinality(Clients)
                /\ Cardinality(Clients) \in Nat
<1>1. Accepted \subseteq Clients /\ IsFiniteSet(Clients)
  BY LinkAssumption DEF Accepted
<1> QED BY <1>1, FS_Subset, FS_CardinalityType

LEMMA TypesOf == TInv => TypeOK
<1> SUFFICES ASSUME TInv PROVE TypeOK
  OBVIOUS
<1>1. /\ seed \in 1..(Cardinality(Clients) + 1)
      /\ cid \in [Clients -> 0..Cardinality(Clients)]
  BY Counts DEF TInv, TableOK
<1>2. ASSUME NEW c \in Clients, NEW f \in ToSet(up[c]) \cup ToSet(down[c])
      PROVE  f \in Frames
  <2>1. up[c] \in Seq(Frames) /\ down[c] \in Seq(Frames)
    BY DEF TInv, WaysOK
  <2> QED BY <1>2, <2>1 DEF ToSet
<1>3. \A f \in Frames : f.header \in 0..255 /\ f.body \in Bodies
  BY DEF Frames, Headers
<1> QED BY <1>1, <1>2, <1>3 DEF TInv, EndsOK, TableOK, Live, TypeOK

LEMMA InTable ==
    ASSUME TableOK, NEW c \in Clients
    PROVE  /\ cid[c] \in DOMAIN table <=> c \in Live
           /\ c \in Live => table[cid[c]] = c
<1>1. ASSUME cid[c] \in DOMAIN table PROVE c \in Live
  <2>1. PICK d \in Live : cid[d] = cid[c]
    BY <1>1 DEF TableOK
  <2>2. d \in Clients /\ cid[d] # 0
    BY DEF TableOK, Live
  <2> QED BY <2>1, <2>2 DEF TableOK
<1> QED BY <1>1 DEF TableOK

\* What the server sends reaches the ways of those that it is for, and no other's.
LEMMA DeliveredTo ==
    ASSUME TInv, NEW S \in SUBSET Clients, NEW f
    PROVE  Delivered(S, f) = [d \in Clients |->
               IF d \in S /\ srv[d] = "open" /\ d \notin broken THEN Append(down[d], f) ELSE down[d]]
<1> DEFINE to == {d \in {table[cid[c]] : c \in {x \in S : cid[x] \in DOMAIN table}} :
                      srv[d] = "open" /\ d \notin broken}
<1>1. \A c \in S : (cid[c] \in DOMAIN table <=> c \in Live) /\ (c \in Live => table[cid[c]] = c)
  BY InTable DEF TInv
<1>2. \A d \in Clients : d \in to <=> (d \in S /\ srv[d] = "open" /\ d \notin broken)
  BY <1>1 DEF Live
<1>3. Delivered(S, f) = [d \in Clients |-> IF d \in to THEN Append(down[d], f) ELSE down[d]]
  BY DEF Delivered
<1> HIDE DEF to
<1> QED BY <1>2, <1>3

LEMMA InitTypes == Init => TInv
<1> SUFFICES ASSUME Init PROVE TInv
  OBVIOUS
<1>1. Accepted = {} /\ Live = {}
  BY DEF Init, Accepted, Live
<1>2. TableOK
  <2>1. Cardinality(Accepted) = 0
    BY <1>1, FS_EmptySet
  <2>2. table \in [{cid[c] : c \in Live} -> Clients]
    BY <1>1 DEF Init, Nobody
  <2> QED BY <1>1, <2>1, <2>2 DEF Init, TableOK
<1>3. EndsOK
  BY LinkAssumption DEF Init, EndsOK, Clocks, DateNow
<1>4. WaysOK
  BY DEF Init, WaysOK
<1> QED BY <1>2, <1>3, <1>4 DEF TInv

-----------------------------------------------------------------------------
(***************************************************************************)
(* Sockets.                                                                *)
(***************************************************************************)
LEMMA AcceptTypes ==
    ASSUME TInv, NEW c \in Clients, Accept(c)
    PROVE  TInv'
<1>1. /\ srv' = [srv EXCEPT ![c] = "open"] /\ srv[c] = "none"
      /\ cid' = [cid EXCEPT ![c] = seed] /\ seed' = seed + 1
      /\ table' = [i \in DOMAIN table \cup {seed} |-> IF i = seed THEN c ELSE table[i]]
  BY DEF Accept
<1>2. seed \in Nat \ {0} /\ srv'[c] = "open" /\ \A d \in Clients \ {c} : srv'[d] = srv[d] /\ cid'[d] = cid[d]
  BY <1>1, Counts DEF TInv, TableOK, EndsOK
<1>3. Accepted' = Accepted \cup {c} /\ c \notin Accepted /\ Live' = Live \cup {c} /\ c \notin Live
  BY <1>1, <1>2 DEF Accepted, Live
<1>4. Cardinality(Accepted') = Cardinality(Accepted) + 1
  BY <1>3, Counts, FS_AddElement
<1>5. cid' \in [Clients -> Nat] /\ cid'[c] = seed
  BY <1>1, <1>2 DEF TInv, TableOK
<1>6. /\ \A d \in Clients : cid'[d] < seed' /\ (cid'[d] = 0 <=> srv'[d] = "none")
      /\ \A d, e \in Clients : cid'[d] = cid'[e] /\ cid'[d] # 0 => d = e
  BY <1>1, <1>2, <1>5 DEF TInv, TableOK
<1>7. {cid'[d] : d \in Live'} = DOMAIN table \cup {seed}
  <2>1. {cid'[d] : d \in Live'} = {cid'[d] : d \in Live} \cup {seed}
    BY <1>3, <1>5
  <2>2. \A d \in Live : cid'[d] = cid[d]
    BY <1>2, <1>3 DEF Live
  <2> QED BY <2>1, <2>2 DEF TInv, TableOK
<1>8. table' \in [{cid'[d] : d \in Live'} -> Clients] /\ \A d \in Live' : table'[cid'[d]] = d
  <2>1. \A d \in Live : cid'[d] = cid[d] /\ cid[d] # seed /\ cid[d] \in DOMAIN table /\ table[cid[d]] = d
    BY <1>2, <1>3 DEF TInv, TableOK, Live
  <2>2. \A i \in DOMAIN table : table[i] \in Clients
    BY DEF TInv, TableOK
  <2> QED BY <1>1, <1>3, <1>5, <1>7, <2>1, <2>2
<1>9. TableOK'
  BY <1>1, <1>4, <1>5, <1>6, <1>8 DEF TInv, TableOK
<1>10. EndsOK' /\ WaysOK'
  BY <1>1 DEF Accept, TInv, EndsOK, WaysOK, DateNow
<1> QED BY <1>9, <1>10 DEF TInv

LEMMA OpenedTypes ==
    ASSUME TInv, NEW c \in Clients, Opened(c)
    PROVE  TInv'
<1>1. Shakehand(0) \in SysBodies
  BY LinkAssumption DEF Shakehand, SysBodies
<1>2. up' \in [Clients -> Seq(Frames)]
  BY <1>1, SysFrames DEF Opened, Shakes, Sent, TInv, WaysOK
<1>3. DateNow(c) \in Int
  BY LinkAssumption DEF TInv, EndsOK, DateNow
<1>4. clock' \in [Clients -> Clocks]
  BY <1>3 DEF Opened, TInv, EndsOK, Clocks
<1>5. EndsOK'
  <2>1. \A d \in Clients : clock'[d].pong = clock[d].pong
    BY DEF Opened, TInv, EndsOK, Clocks
  <2> QED BY <1>4, <2>1 DEF Opened, TInv, EndsOK, DateNow
<1>6. WaysOK'
  BY <1>2 DEF Opened, TInv, WaysOK
<1>7. TableOK'
  BY DEF Opened, TInv, TableOK, Live, Accepted
<1> QED BY <1>5, <1>6, <1>7 DEF TInv

LEMMA KickTypes ==
    ASSUME TInv, NEW c \in Clients, Kick(c)
    PROVE  TInv' /\ c \in Live /\ srv' = [srv EXCEPT ![c] = "closing"]
<1>1. c \in Live /\ srv' = [srv EXCEPT ![c] = "closing"]
  BY InTable DEF Kick, TInv
<1>2. Live' = Live /\ Accepted' = Accepted
  BY <1>1 DEF Live, Accepted, TInv, EndsOK
<1>3. TableOK'
  BY <1>1, <1>2 DEF Kick, TInv, TableOK, EndsOK, Live
<1> QED BY <1>1, <1>3 DEF Kick, TInv, EndsOK, WaysOK, DateNow

LEMMA ClosedTypes ==
    ASSUME TInv, NEW c \in Clients, Closed(c)
    PROVE  TInv'
<1>1. /\ srv' = [srv EXCEPT ![c] = "closed"] /\ srv[c] \in {"open", "closing"}
      /\ table' = [i \in DOMAIN table \ {cid[c]} |-> table[i]] /\ cid' = cid /\ seed' = seed
  BY DEF Closed
<1>2. c \in Live /\ Live' = Live \ {c} /\ Accepted' = Accepted
  BY <1>1 DEF Live, Accepted, TInv, EndsOK
<1>3. \A d \in Live' : d \in Live /\ d # c /\ cid[d] # cid[c]
  BY <1>2 DEF TInv, TableOK, Live
<1>4. {cid[d] : d \in Live'} = DOMAIN table \ {cid[c]}
  BY <1>2, <1>3 DEF TInv, TableOK
<1>5. table' \in [{cid[d] : d \in Live'} -> Clients] /\ \A d \in Live' : table'[cid[d]] = d
  <2>1. \A d \in Live : cid[d] \in DOMAIN table /\ table[cid[d]] = d
    BY DEF TInv, TableOK
  <2>2. \A i \in DOMAIN table : table[i] \in Clients
    BY DEF TInv, TableOK
  <2> QED BY <1>1, <1>3, <1>4, <2>1, <2>2
<1>6. \A d \in Clients : srv'[d] = "none" <=> srv[d] = "none"
  BY <1>1 DEF TInv, EndsOK
<1>7. TableOK'
  BY <1>1, <1>2, <1>5, <1>6 DEF TInv, TableOK
<1> QED BY <1>1, <1>7 DEF Closed, TInv, EndsOK, WaysOK, DateNow

\* Steps that leave the table alone and end or break a connection, or pass time.
LEMMA EndTypes ==
    ASSUME TInv, NEW c \in Clients, ClientEnds(c) \/ Break(c) \/ PingThrows(c) \/ Tick
    PROVE  TInv'
<1>1. UNCHANGED <<seed, table, cid, srv>>
  BY DEF ClientEnds, Break, PingThrows, Tick
<1>2. EndsOK' /\ WaysOK'
  <2>1. CASE ClientEnds(c)
    BY <2>1 DEF ClientEnds, TInv, EndsOK, WaysOK, DateNow
  <2>2. CASE Break(c)
    BY <2>2 DEF Break, TInv, EndsOK, WaysOK, DateNow
  <2>3. CASE PingThrows(c)
    BY <2>3 DEF PingThrows, TInv, EndsOK, WaysOK, DateNow
  <2>4. CASE Tick
    <3>1. \A d \in Clients : clock[d].pong <= now' + Ahead[d]
      BY <2>4, LinkAssumption DEF Tick, TInv, EndsOK, Clocks, DateNow
    <3> QED BY <2>4, <3>1, LinkAssumption DEF Tick, TInv, EndsOK, WaysOK, DateNow
  <2> QED BY <2>1, <2>2, <2>3, <2>4
<1> QED BY <1>1, <1>2 DEF TInv, TableOK, Live, Accepted

-----------------------------------------------------------------------------
(***************************************************************************)
(* Packets: every frame on its way is one of Frames.                       *)
(***************************************************************************)
\* A step that touches neither the ends of the server's sockets nor the table.
LEMMA SameTable ==
    ASSUME TInv, UNCHANGED <<seed, table, cid, srv>>
    PROVE  TableOK'
BY DEF TInv, TableOK, Live, Accepted

LEMMA SendTypes ==
    ASSUME TInv, NEW S \in SUBSET Clients, NEW p \in Packets, Send(S, p)
    PROVE  TInv'
<1> DEFINE pkt == NewPacket(Msg, p[1], p[2])
           f == Encode(pkt)
           m == <<Msg, p[1], p[2]>>
<1>1. UNCHANGED <<now, seed, table, cid, srv, cli, broken, up, clock, shaken, due, heard>>
  BY DEF Send
<1>2. down' = IF Encodes(pkt) THEN Delivered(S, f) ELSE down
  BY DEF Send
<1>3. Encodes(pkt) => f \in Frames
  BY MsgFrames
<1>4. m \in Contents
  BY DEF Contents
<1>5. said' = [c \in Clients |->
                  IF c \in S /\ srv[c] = "open" /\ Sendable(p[1], p[2])
                  THEN [said[c] EXCEPT !["down"] = Append(@, m)] ELSE said[c]]
  BY DEF Send, Says
<1> HIDE DEF pkt, f, m
<1>6. down' \in [Clients -> Seq(Frames)]
  <2>1. Delivered(S, f) = [d \in Clients |->
           IF d \in S /\ srv[d] = "open" /\ d \notin broken THEN Append(down[d], f) ELSE down[d]]
    BY DeliveredTo
  <2> QED BY <1>2, <1>3, <2>1 DEF TInv, WaysOK
<1>7. said' \in [Clients -> [Dirs -> Seq(Contents)]]
  BY <1>4, <1>5 DEF TInv, WaysOK, Dirs
<1>8. EndsOK' /\ WaysOK'
  BY <1>1, <1>6, <1>7 DEF TInv, EndsOK, WaysOK, DateNow
<1> QED BY <1>1, <1>8, SameTable DEF TInv

\* The answer of the server: nothing, or one frame to a client that is open.
LEMMA AnswerFrame ==
    ASSUME TInv, NEW c \in Clients, NEW b \in SysBodies
    PROVE  /\ down \in [Clients -> Seq(Frames)]
           /\ Answer(c, b.cmd) \in {down, [down EXCEPT ![c] =
                  Append(down[c], SysFrame([cmd |-> b.cmd, time |-> now]))]}
           /\ Answer(c, b.cmd) # down => [cmd |-> b.cmd, time |-> now] \in SysBodies
<1> DEFINE a == [cmd |-> b.cmd, time |-> now]
<1>1. now \in Nat /\ down \in [Clients -> Seq(Frames)] /\ TickLimit \in Nat \ {0}
  BY LinkAssumption DEF TInv, EndsOK, WaysOK, DateNow
<1>2. Writable(now) => a \in SysBodies
  BY <1>1 DEF Writable, SysBodies
<1>3. Answer(c, b.cmd) = IF Writable(now) THEN Delivered({c}, SysFrame(a)) ELSE down
  BY DEF Answer
<1> HIDE DEF a
<1>4. Delivered({c}, SysFrame(a)) = [d \in Clients |->
         IF d \in {c} /\ srv[d] = "open" /\ d \notin broken THEN Append(down[d], SysFrame(a)) ELSE down[d]]
  BY DeliveredTo
<1>5. Delivered({c}, SysFrame(a)) \in {down, [down EXCEPT ![c] = Append(down[c], SysFrame(a))]}
  BY <1>1, <1>4
<1> QED BY <1>1, <1>2, <1>3, <1>5 DEF a

LEMMA HandledTypes ==
    ASSUME TInv, NEW c \in Clients, NEW d \in Dirs, NEW f \in Frames, ~IsSys(f)
    PROVE  /\ Handled(c, d, f) = [heard EXCEPT ![c][d] = Append(@, Content(Decode(f)))]
           /\ Handled(c, d, f) \in [Clients -> [Dirs -> Seq(Contents)]]
BY DEF Frames, Handled, TInv, WaysOK, Dirs

LEMMA ServerReceiveTypes ==
    ASSUME TInv, NEW c \in Clients, ServerReceive(c)
    PROVE  TInv'
<1> DEFINE f == Head(up[c])
<1>1. UNCHANGED <<now, seed, table, cid, srv, cli, broken, clock, shaken, due, said>>
  BY DEF ServerReceive
<1>2. up[c] \in Seq(Frames) /\ up[c] # <<>> /\ f \in Frames
  BY DEF ServerReceive, TInv, WaysOK
<1>3. up' = [up EXCEPT ![c] = Tail(@)]
  BY DEF ServerReceive
<1>4. up' \in [Clients -> Seq(Frames)]
  BY <1>2, <1>3 DEF TInv, WaysOK
<1>5. CASE IsSys(f)
  <2> DEFINE b == Decode(f).body
  <2>1. b \in SysBodies /\ Decodes(f)
    BY <1>2, <1>5 DEF Frames
  <2>2. down' = Answer(c, b.cmd) /\ heard' = heard
    BY <1>5, <2>1 DEF ServerReceive, IsSys, Decode
  <2> DEFINE a == [cmd |-> b.cmd, time |-> now]
  <2>3. down' \in [Clients -> Seq(Frames)]
    <3> HIDE DEF b
    <3>1. /\ down \in [Clients -> Seq(Frames)]
          /\ Answer(c, b.cmd) \in {down, [down EXCEPT ![c] = Append(down[c], SysFrame(a))]}
          /\ Answer(c, b.cmd) # down => a \in SysBodies
      BY <2>1, AnswerFrame
    <3>2. a \in SysBodies => SysFrame(a) \in Frames
      BY SysFrames
    <3> HIDE DEF a
    <3>3. CASE a \in SysBodies
      <4>1. Append(down[c], SysFrame(a)) \in Seq(Frames)
        BY <3>1, <3>2, <3>3
      <4> QED BY <2>2, <3>1, <4>1
    <3> QED BY <2>2, <3>1, <3>3
  <2>4. EndsOK' /\ WaysOK'
    BY <1>1, <1>4, <2>2, <2>3 DEF TInv, EndsOK, WaysOK, DateNow
  <2> QED BY <1>1, <2>4, SameTable DEF TInv
<1>6. CASE ~IsSys(f)
  <2>1. heard' = Handled(c, "up", f) /\ down' = down
    BY <1>6 DEF ServerReceive, IsSys, Decode
  <2> HIDE DEF f
  <2>2. heard' \in [Clients -> [Dirs -> Seq(Contents)]]
    BY <1>2, <1>6, <2>1, HandledTypes DEF Dirs
  <2>3. EndsOK' /\ WaysOK'
    BY <1>1, <1>4, <2>1, <2>2 DEF TInv, EndsOK, WaysOK, DateNow
  <2> QED BY <1>1, <2>3, SameTable DEF TInv
<1> QED BY <1>5, <1>6

LEMMA ClientReceiveTypes ==
    ASSUME TInv, NEW c \in Clients, ClientReceive(c)
    PROVE  TInv'
<1> DEFINE f == Head(down[c])
<1>1. UNCHANGED <<now, seed, table, cid, srv, cli, broken, up, said>>
  BY DEF ClientReceive
<1>2. down[c] \in Seq(Frames) /\ down[c] # <<>> /\ f \in Frames
  BY DEF ClientReceive, TInv, WaysOK
<1>3. down' = [down EXCEPT ![c] = Tail(@)]
  BY DEF ClientReceive
<1>4. down' \in [Clients -> Seq(Frames)]
  BY <1>2, <1>3 DEF TInv, WaysOK
<1>5. CASE IsSys(f)
  <2> DEFINE b == Decode(f).body
  <2>1. b \in SysBodies /\ Decodes(f)
    BY <1>2, <1>5 DEF Frames
  <2>2. /\ clock' = [clock EXCEPT ![c] = Synced(c, b.time)] /\ heard' = heard
        /\ shaken' \in {shaken, [shaken EXCEPT ![c] = TRUE]}
        /\ due' \in {due, [due EXCEPT ![c] = now + PingTm]}
    BY <1>5, <2>1 DEF ClientReceive, IsSys, Decode
  <2> HIDE DEF b
  <2>3. b.time \in Nat /\ DateNow(c) \in Nat /\ now + PingTm \in Int
    BY <2>1, LinkAssumption DEF SysBodies, TInv, EndsOK, DateNow
  <2>4. clock[c] \in Clocks
    BY DEF TInv, EndsOK
  <2>5. Synced(c, b.time) \in Clocks /\ Synced(c, b.time).pong = DateNow(c)
    <3> DEFINE t == DateNow(c)
               s == [clock[c] EXCEPT !.pong = t, !.latency = t - clock[c].ping, !.tick = b.time]
    <3>1. Synced(c, b.time) = s
      BY DEF Synced
    <3> HIDE DEF t
    <3>2. t - clock[c].ping \in Int
      BY <2>3, <2>4 DEF Clocks, t
    <3>3. s \in Clocks /\ s.pong = t
      BY <2>3, <2>4, <3>2 DEF Clocks, t
    <3> QED BY <3>1, <3>3 DEF t
  <2>6. EndsOK'
    <3>1. clock \in [Clients -> Clocks] /\ \A d \in Clients : clock[d].pong <= DateNow(d)
      BY DEF TInv, EndsOK
    <3>2. clock' \in [Clients -> Clocks] /\ clock'[c] = Synced(c, b.time)
          /\ \A d \in Clients \ {c} : clock'[d] = clock[d]
      BY <2>2, <2>5, <3>1
    <3>3. \A d \in Clients : clock'[d].pong <= DateNow(d)
      BY <2>3, <2>5, <3>1, <3>2
    <3>4. DateNow(c) \in Nat /\ \A d \in Clients : clock'[d].pong <= now' + Ahead[d]
      BY <1>1, <2>3, <3>3 DEF DateNow
    <3>5. shaken' \in [Clients -> BOOLEAN] /\ due' \in [Clients -> Int]
      BY <2>2, <2>3 DEF TInv, EndsOK
    <3> QED BY <1>1, <3>2, <3>4, <3>5 DEF TInv, EndsOK, DateNow
  <2>7. WaysOK'
    BY <1>1, <1>4, <2>2 DEF TInv, WaysOK
  <2> QED BY <1>1, <2>6, <2>7, SameTable DEF TInv
<1>6. CASE ~IsSys(f)
  <2>1. heard' = Handled(c, "down", f) /\ UNCHANGED <<clock, shaken, due>>
    BY <1>6 DEF ClientReceive, IsSys, Decode
  <2> HIDE DEF f
  <2>2. heard' \in [Clients -> [Dirs -> Seq(Contents)]]
    BY <1>2, <1>6, <2>1, HandledTypes DEF Dirs
  <2>3. EndsOK' /\ WaysOK'
    BY <1>1, <1>4, <2>1, <2>2 DEF TInv, EndsOK, WaysOK, DateNow
  <2> QED BY <1>1, <2>3, SameTable DEF TInv
<1> QED BY <1>5, <1>6

LEMMA ClientSendTypes ==
    ASSUME TInv, NEW c \in Clients, NEW p \in Packets, ClientSend(c, p)
    PROVE  TInv'
<1> DEFINE pkt == NewPacket(Msg, p[1], p[2])
           f == Encode(pkt)
           m == <<Msg, p[1], p[2]>>
<1>1. UNCHANGED <<now, seed, table, cid, srv, cli, broken, down, clock, shaken, due, heard>>
  BY DEF ClientSend
<1>2. up' = IF Encodes(pkt) THEN [up EXCEPT ![c] = Sent(c, f)] ELSE up
  BY DEF ClientSend
<1>3. Encodes(pkt) => f \in Frames
  BY MsgFrames
<1>4. m \in Contents
  BY DEF Contents
<1>5. said' = IF Sendable(p[1], p[2]) /\ c \notin broken
              THEN [said EXCEPT ![c]["up"] = Append(@, m)] ELSE said
  BY DEF ClientSend
<1> HIDE DEF pkt, f, m
<1>6. up' \in [Clients -> Seq(Frames)]
  BY <1>2, <1>3 DEF Sent, TInv, WaysOK
<1>7. said' \in [Clients -> [Dirs -> Seq(Contents)]]
  BY <1>4, <1>5 DEF TInv, WaysOK, Dirs
<1>8. EndsOK' /\ WaysOK'
  BY <1>1, <1>6, <1>7 DEF TInv, EndsOK, WaysOK, DateNow
<1> QED BY <1>1, <1>8, SameTable DEF TInv

\* What a client reckons for the server's tick is no less than 0.
LEMMA TickIsNat ==
    ASSUME TInv, NEW c \in Clients
    PROVE  ServerTick(c) \in Nat /\ DateNow(c) \in Nat /\ clock[c] \in Clocks
<1>1. clock[c] \in Clocks /\ clock[c].pong <= DateNow(c) /\ now \in Nat /\ Ahead[c] \in Nat
  BY LinkAssumption DEF TInv, EndsOK
<1>2. DateNow(c) \in Nat
  BY <1>1 DEF DateNow
<1> QED BY <1>1, <1>2 DEF ServerTick, Clocks

LEMMA PingTypes ==
    ASSUME TInv, NEW c \in Clients, Ping(c)
    PROVE  /\ TInv' /\ Pingpong(ServerTick(c)) \in SysBodies
           /\ SysFrame(Pingpong(ServerTick(c))) \in Frames
<1>1. UNCHANGED <<now, seed, table, cid, srv, cli, broken, down, shaken, said, heard>>
  BY DEF Ping
<1>2. Pingpong(ServerTick(c)) \in SysBodies
  BY TickIsNat, LinkAssumption DEF Ping, Pingpong, SysBodies, Writable
<1> DEFINE f == SysFrame(Pingpong(ServerTick(c)))
<1>3. f \in Frames
  BY <1>2, SysFrames
<1>4. up' = [up EXCEPT ![c] = Sent(c, f)] /\ clock' = [clock EXCEPT ![c].ping = DateNow(c)]
      /\ due' = [due EXCEPT ![c] = now + PingTm]
  BY DEF Ping
<1> HIDE DEF f
<1>5. WaysOK'
  BY <1>1, <1>3, <1>4 DEF Sent, TInv, WaysOK
<1>6. EndsOK'
  <2>1. clock' \in [Clients -> Clocks] /\ \A d \in Clients : clock'[d].pong = clock[d].pong
    BY <1>4, TickIsNat DEF TInv, EndsOK, Clocks
  <2>2. now + PingTm \in Int
    BY LinkAssumption DEF TInv, EndsOK
  <2> QED BY <1>1, <1>4, <2>1, <2>2 DEF TInv, EndsOK, DateNow
<1> QED BY <1>1, <1>2, <1>3, <1>5, <1>6, SameTable DEF TInv, f

LEMMA NextTypes == TInv /\ [Next]_vars => TInv'
<1> SUFFICES ASSUME TInv, [Next]_vars PROVE TInv'
  OBVIOUS
<1>1. CASE UNCHANGED vars
  BY <1>1 DEF vars, TInv, EndsOK, WaysOK, TableOK, Live, Accepted, DateNow
<1>2. ASSUME Tick PROVE TInv'
  <2>1. CASE Clients = {}
    <3>1. TableOK'
      BY <1>2, SameTable DEF Tick
    <3> QED BY <1>2, <2>1, <3>1, LinkAssumption DEF Tick, TInv, EndsOK, WaysOK
  <2>2. CASE Clients # {}
    BY <1>2, <2>2, EndTypes
  <2> QED BY <2>1, <2>2
<1>3. ASSUME NEW c \in Clients,
             \/ Accept(c) \/ Opened(c) \/ Kick(c) \/ ClientEnds(c) \/ Break(c) \/ Closed(c)
             \/ ServerReceive(c) \/ ClientReceive(c) \/ Ping(c) \/ PingThrows(c)
      PROVE  TInv'
  BY <1>3, AcceptTypes, OpenedTypes, KickTypes, EndTypes, ClosedTypes, ServerReceiveTypes,
     ClientReceiveTypes, PingTypes
<1>4. ASSUME NEW c \in Clients, NEW p \in Packets, SendPacket(c, p) \/ ClientSend(c, p)
      PROVE  TInv'
  BY <1>4, SendTypes, ClientSendTypes DEF SendPacket
<1>5. ASSUME NEW S \in SUBSET Clients, NEW except \in Clients, NEW p \in Packets,
             BroadcastPacketWith(S, except, p)
      PROVE  TInv'
  BY <1>5, SendTypes DEF BroadcastPacketWith
<1> QED BY <1>1, <1>2, <1>3, <1>4, <1>5 DEF Next

(***************************************************************************)
(* The types, and the table: it has an entry for each socket whose end the *)
(* server has not seen, by an id that no other connection ever has.        *)
(***************************************************************************)
THEOREM TypeCorrect == Spec => []TypeOK
<1>1. Spec => []TInv
  BY InitTypes, NextTypes, PTL DEF Spec
<1> QED BY <1>1, TypesOf, PTL

-----------------------------------------------------------------------------
(***************************************************************************)
(* A way w carries what was said after the first k of s: its packets of    *)
(* the program are these, each once and in order, among the shakehands and *)
(* pings.  It goes on to do so when it grows at one end, and shrinks at    *)
(* the other.                                                              *)
(***************************************************************************)
Places(f, w, s, k) ==
    /\ f \in [(k + 1)..Len(s) -> OnTheWay(w)]
    /\ \A i, j \in (k + 1)..Len(s) : i < j => f[i] < f[j]
    /\ \A i \in (k + 1)..Len(s) : Content(Decode(w[f[i]])) = s[i]
    /\ \A x \in OnTheWay(w) : \E i \in (k + 1)..Len(s) : f[i] = x
Carries(w, s, k) == \E f : Places(f, w, s, k)

LEMMA OnWay ==
    ASSUME NEW w \in Seq(Frames)
    PROVE  /\ OnTheWay(w) \subseteq 1..Len(w) /\ Len(w) \in Nat
           /\ \A x \in 1..Len(w) : x \in OnTheWay(w) <=> IsMsg(w[x])
BY DEF OnTheWay, IsMsg

LEMMA CarriesNothing == ASSUME NEW s \in Seq(Contents) PROVE Carries(<<>>, s, Len(s))
<1>1. (Len(s) + 1)..Len(s) = {} /\ OnTheWay(<<>>) = {}
  BY DEF OnTheWay
<1>2. Places([i \in {} |-> 0], <<>>, s, Len(s))
  BY <1>1 DEF Places
<1> QED BY <1>2 DEF Carries

LEMMA AddSys ==
    ASSUME NEW w \in Seq(Frames), NEW s \in Seq(Contents), NEW k \in 0..Len(s), Carries(w, s, k),
           NEW g \in Frames, ~IsMsg(g)
    PROVE  Carries(Append(w, g), s, k)
<1> DEFINE v == Append(w, g)
<1>1. PICK f : Places(f, w, s, k)
  BY DEF Carries
<1>2. v \in Seq(Frames) /\ Len(v) = Len(w) + 1 /\ v[Len(v)] = g /\ \A x \in 1..Len(w) : v[x] = w[x]
  OBVIOUS
<1> HIDE DEF v
<1>3. OnTheWay(v) = OnTheWay(w)
  <2>1. \A x \in 1..Len(v) : x \in OnTheWay(v) <=> x \in OnTheWay(w)
    BY <1>2, OnWay
  <2>2. OnTheWay(v) \subseteq 1..Len(v) /\ OnTheWay(w) \subseteq 1..Len(w)
    BY <1>2, OnWay
  <2>3. OnTheWay(w) \subseteq 1..Len(v)
    BY <1>2, <2>2, OnWay
  <2> QED BY <2>1, <2>2, <2>3
<1>4. \A x \in OnTheWay(w) : v[x] = w[x]
  BY <1>2, OnWay
<1>5. Places(f, v, s, k)
  BY <1>1, <1>3, <1>4 DEF Places
<1> QED BY <1>5 DEF Carries, v

LEMMA AddMsg ==
    ASSUME NEW w \in Seq(Frames), NEW s \in Seq(Contents), NEW k \in 0..Len(s), Carries(w, s, k),
           NEW g \in Frames, IsMsg(g), NEW m \in Contents, Content(Decode(g)) = m
    PROVE  Carries(Append(w, g), Append(s, m), k)
<1> DEFINE v == Append(w, g)
           t == Append(s, m)
           n == Len(s)
           l == Len(w) + 1
<1>1. PICK f : Places(f, w, s, k)
  BY DEF Carries
<1>2. v \in Seq(Frames) /\ Len(v) = l /\ v[l] = g /\ \A x \in 1..Len(w) : v[x] = w[x]
  OBVIOUS
<1>3. Len(t) = n + 1 /\ t[n + 1] = m /\ (\A i \in 1..n : t[i] = s[i]) /\ n \in Nat
  OBVIOUS
<1> HIDE DEF v, t
<1>4. OnTheWay(v) = OnTheWay(w) \cup {l}
  <2>1. \A x \in 1..Len(w) : x \in OnTheWay(v) <=> x \in OnTheWay(w)
    BY <1>2, OnWay
  <2>2. l \in OnTheWay(v) /\ 1..Len(v) = 1..Len(w) \cup {l}
    BY <1>2, OnWay
  <2> QED BY <2>1, <2>2, <1>2, OnWay
<1>5. OnTheWay(w) \subseteq 1..Len(w) /\ Len(w) \in Nat
  BY OnWay
<1> DEFINE h == [i \in (k + 1)..(n + 1) |-> IF i = n + 1 THEN l ELSE f[i]]
<1>6. \A i \in (k + 1)..n : h[i] = f[i] /\ f[i] \in OnTheWay(w) /\ i \in 1..n
  BY <1>1, <1>3 DEF Places
<1>7. h[n + 1] = l /\ (k + 1)..(n + 1) = ((k + 1)..n) \cup {n + 1}
  BY <1>3
<1>8. h \in [(k + 1)..(n + 1) -> OnTheWay(v)]
  BY <1>4, <1>6, <1>7
<1> HIDE DEF h
<1>9. \A i, j \in (k + 1)..(n + 1) : i < j => h[i] < h[j]
  <2> SUFFICES ASSUME NEW i \in (k + 1)..(n + 1), NEW j \in (k + 1)..(n + 1), i < j
               PROVE  h[i] < h[j]
    OBVIOUS
  <2>1. i \in (k + 1)..n /\ h[i] = f[i] /\ f[i] \in 1..Len(w)
    BY <1>3, <1>5, <1>6
  <2>2. CASE j = n + 1
    BY <1>5, <1>7, <2>1, <2>2
  <2>3. CASE j # n + 1
    <3>1. j \in (k + 1)..n /\ h[j] = f[j]
      BY <1>3, <1>6, <2>3
    <3> QED BY <1>1, <2>1, <3>1 DEF Places
  <2> QED BY <2>2, <2>3
<1>10. \A i \in (k + 1)..(n + 1) : Content(Decode(v[h[i]])) = t[i]
  <2>1. \A i \in (k + 1)..n : v[h[i]] = w[f[i]] /\ t[i] = s[i] /\ Content(Decode(w[f[i]])) = s[i]
    BY <1>1, <1>2, <1>3, <1>5, <1>6 DEF Places
  <2> QED BY <1>2, <1>3, <1>7, <2>1
<1>11. \A x \in OnTheWay(v) : \E i \in (k + 1)..(n + 1) : h[i] = x
  <2>1. \A x \in OnTheWay(w) : \E i \in (k + 1)..n : f[i] = x
    BY <1>1 DEF Places
  <2> QED BY <1>4, <1>6, <1>7, <2>1
<1>12. Places(h, v, t, k)
  BY <1>3, <1>8, <1>9, <1>10, <1>11 DEF Places
<1> QED BY <1>12 DEF Carries, v, t

\* A way without its first frame: every other one moves up by one place.
LEMMA Shifted ==
    ASSUME NEW w \in Seq(Frames), w # <<>>
    PROVE  /\ Tail(w) \in Seq(Frames) /\ Head(w) \in Frames /\ Len(w) \in Nat \ {0}
           /\ \A x \in OnTheWay(w) \ {1} : x - 1 \in OnTheWay(Tail(w)) /\ Tail(w)[x - 1] = w[x]
           /\ \A x \in OnTheWay(Tail(w)) : x \in Nat /\ x + 1 \in OnTheWay(w) \ {1}
           /\ OnTheWay(w) \subseteq Nat \ {0}
           /\ 1 \in OnTheWay(w) <=> IsMsg(Head(w))
<1> DEFINE v == Tail(w)
<1>1. /\ v \in Seq(Frames) /\ Len(w) \in Nat \ {0} /\ Len(v) = Len(w) - 1 /\ Head(w) = w[1]
      /\ \A x \in 1..Len(v) : v[x] = w[x + 1]
      /\ Head(w) \in Frames
  OBVIOUS
<1> HIDE DEF v
<1>2. /\ OnTheWay(w) \subseteq 1..Len(w) /\ OnTheWay(v) \subseteq 1..Len(v)
      /\ \A x \in 1..Len(w) : x \in OnTheWay(w) <=> IsMsg(w[x])
      /\ \A x \in 1..Len(v) : x \in OnTheWay(v) <=> IsMsg(v[x])
  BY <1>1, OnWay
<1>3. \A x \in OnTheWay(w) \ {1} : x - 1 \in OnTheWay(v) /\ v[x - 1] = w[x]
  <2> TAKE x \in OnTheWay(w) \ {1}
  <2>1. x \in 2..Len(w) /\ x - 1 \in 1..Len(v) /\ (x - 1) + 1 = x
    BY <1>1, <1>2
  <2>2. v[x - 1] = w[x]
    BY <1>1, <2>1
  <2> QED BY <1>2, <2>1, <2>2
<1>4. \A x \in OnTheWay(v) : x \in Nat /\ x + 1 \in OnTheWay(w) \ {1}
  <2> TAKE x \in OnTheWay(v)
  <2>1. x \in 1..Len(v) /\ x + 1 \in 2..Len(w)
    BY <1>1, <1>2
  <2> QED BY <1>1, <1>2, <2>1
<1> QED BY <1>1, <1>2, <1>3, <1>4 DEF v

LEMMA DropSys ==
    ASSUME NEW w \in Seq(Frames), NEW s \in Seq(Contents), NEW k \in 0..Len(s), Carries(w, s, k),
           w # <<>>, ~IsMsg(Head(w))
    PROVE  Carries(Tail(w), s, k)
<1>1. PICK f : Places(f, w, s, k)
  BY DEF Carries
<1> DEFINE n == Len(s)
           v == Tail(w)
           h == [i \in (k + 1)..n |-> f[i] - 1]
<1>2. \A i \in (k + 1)..n : f[i] \in OnTheWay(w) \ {1}
  BY <1>1, Shifted DEF Places
<1>3. \A i \in (k + 1)..n : h[i] \in OnTheWay(v) /\ v[h[i]] = w[f[i]] /\ h[i] + 1 = f[i] /\ f[i] \in Nat
  <2> TAKE i \in (k + 1)..n
  <2>1. h[i] = f[i] - 1
    OBVIOUS
  <2> HIDE DEF h, v
  <2>2. f[i] - 1 \in OnTheWay(Tail(w)) /\ Tail(w)[f[i] - 1] = w[f[i]] /\ f[i] \in Nat
    BY <1>2, Shifted
  <2>3. (f[i] - 1) + 1 = f[i]
    BY <2>2
  <2>4. h[i] \in OnTheWay(Tail(w)) /\ Tail(w)[h[i]] = w[f[i]]
    BY <2>1, <2>2, Zenon
  <2> QED BY <2>1, <2>2, <2>3, <2>4, Zenon DEF v
<1>4. h \in [(k + 1)..n -> OnTheWay(v)]
  BY <1>3
<1>5. \A i, j \in (k + 1)..n : i < j => h[i] < h[j]
  BY <1>1, <1>3 DEF Places
<1>6. \A x \in OnTheWay(v) : \E i \in (k + 1)..n : h[i] = x
  <2> TAKE x \in OnTheWay(v)
  <2>1. PICK i \in (k + 1)..n : f[i] = x + 1
    BY <1>1, Shifted DEF Places
  <2>2. h[i] = x
    BY <2>1, Shifted
  <2> QED BY <2>2
<1> HIDE DEF h, v
<1>7. Places(h, v, s, k)
  BY <1>1, <1>3, <1>4, <1>5, <1>6 DEF Places
<1> QED BY <1>7 DEF Carries, v

LEMMA DropMsg ==
    ASSUME NEW w \in Seq(Frames), NEW s \in Seq(Contents), NEW k \in 0..Len(s), Carries(w, s, k),
           w # <<>>, IsMsg(Head(w))
    PROVE  k < Len(s) /\ s[k + 1] = Content(Decode(Head(w))) /\ Carries(Tail(w), s, k + 1)
<1>1. PICK f : Places(f, w, s, k)
  BY DEF Carries
<1> DEFINE n == Len(s)
           v == Tail(w)
           h == [i \in (k + 2)..n |-> f[i] - 1]
<1>2. 1 \in OnTheWay(w) /\ w[1] = Head(w) /\ n \in Nat
  BY Shifted
<1>3. \A i \in (k + 1)..n : f[i] \in OnTheWay(w) /\ f[i] \in Nat \ {0}
  BY <1>1, Shifted DEF Places
<1>4. PICK a \in (k + 1)..n : f[a] = 1
  BY <1>1, <1>2 DEF Places
<1>5. a = k + 1
  <2>1. k + 1 \in (k + 1)..n
    BY <1>2, <1>4
  <2>2. ~(k + 1 < a)
    BY <1>1, <1>3, <1>4, <2>1 DEF Places
  <2> QED BY <1>4, <2>2
<1>6. k < n /\ s[k + 1] = Content(Decode(Head(w)))
  BY <1>1, <1>2, <1>4, <1>5 DEF Places
<1>7. \A i \in (k + 2)..n : i \in (k + 1)..n /\ f[i] \in OnTheWay(w) \ {1}
  <2> TAKE i \in (k + 2)..n
  <2>1. i \in (k + 1)..n /\ k + 1 < i
    BY <1>2
  <2>2. f[k + 1] < f[i]
    BY <1>1, <1>4, <1>5, <2>1 DEF Places
  <2> QED BY <1>3, <1>4, <1>5, <2>1, <2>2
<1>8. \A i \in (k + 2)..n : h[i] \in OnTheWay(v) /\ v[h[i]] = w[f[i]] /\ h[i] + 1 = f[i] /\ f[i] \in Nat
  <2> TAKE i \in (k + 2)..n
  <2>1. h[i] = f[i] - 1
    OBVIOUS
  <2> HIDE DEF h, v
  <2>2. f[i] - 1 \in OnTheWay(Tail(w)) /\ Tail(w)[f[i] - 1] = w[f[i]] /\ f[i] \in Nat
    BY <1>7, Shifted
  <2>3. (f[i] - 1) + 1 = f[i]
    BY <2>2
  <2>4. h[i] \in OnTheWay(Tail(w)) /\ Tail(w)[h[i]] = w[f[i]]
    BY <2>1, <2>2, Zenon
  <2> QED BY <2>1, <2>2, <2>3, <2>4, Zenon DEF v
<1>9. h \in [(k + 2)..n -> OnTheWay(v)]
  BY <1>8
<1>10. \A i, j \in (k + 2)..n : i < j => h[i] < h[j]
  BY <1>1, <1>7, <1>8 DEF Places
<1>11. \A x \in OnTheWay(v) : \E i \in (k + 2)..n : h[i] = x
  <2> TAKE x \in OnTheWay(v)
  <2>1. x \in Nat /\ x + 1 \in OnTheWay(w) /\ x + 1 # 1
    BY Shifted
  <2>2. PICK i \in (k + 1)..n : f[i] = x + 1
    BY <1>1, <2>1 DEF Places
  <2>3. i \in (k + 2)..n
    BY <1>2, <1>4, <1>5, <2>1, <2>2
  <2>4. h[i] = x
    BY <2>1, <2>2, <2>3
  <2> QED BY <2>3, <2>4
<1> HIDE DEF h, v
<1>12. (k + 1) + 1 = k + 2
  OBVIOUS
<1>13. \A i \in (k + 2)..n : Content(Decode(v[h[i]])) = s[i]
  BY <1>1, <1>7, <1>8 DEF Places
<1>14. Places(h, v, s, k + 1)
  BY <1>9, <1>10, <1>11, <1>12, <1>13 DEF Places
<1> QED BY <1>6, <1>14 DEF Carries, v

\* As many packets are on the way as were said and not heard.
LEMMA Many ==
    ASSUME NEW w \in Seq(Frames), NEW s \in Seq(Contents), NEW k \in 0..Len(s), Carries(w, s, k)
    PROVE  Cardinality(OnTheWay(w)) = Len(s) - k
<1>1. PICK f : Places(f, w, s, k)
  BY DEF Carries
<1> DEFINE n == Len(s)
           I == (k + 1)..n
<1>2. n \in Nat /\ k \in Nat /\ k <= n
  OBVIOUS
<1>3. f \in Bijection(I, OnTheWay(w))
  <2>1. \A i, j \in I : f[i] = f[j] => i = j
    <3> SUFFICES ASSUME NEW i \in I, NEW j \in I, f[i] = f[j], i # j PROVE FALSE
      OBVIOUS
    <3>1. f[i] \in Int
      BY <1>1, OnWay DEF Places
    <3>2. i < j \/ j < i
      OBVIOUS
    <3>3. f[i] < f[j] \/ f[j] < f[i]
      BY <1>1, <3>2 DEF Places
    <3> QED BY <3>1, <3>3
  <2> QED BY <1>1, <2>1 DEF Places, Bijection, Injection, Surjection, IsInjective
<1>4. IsFiniteSet(I) /\ Cardinality(I) = n - k
  <2>1. k + 1 \in Int /\ n \in Int
    BY <1>2
  <2>2. IsFiniteSet(I) /\ Cardinality(I) = IF k + 1 > n THEN 0 ELSE n - (k + 1) + 1
    BY <2>1, FS_Interval
  <2> QED BY <1>2, <2>2
<1>5. ExistsBijection(I, OnTheWay(w))
  BY <1>3 DEF ExistsBijection
<1> QED BY <1>4, <1>5, FS_Bijection

-----------------------------------------------------------------------------
(***************************************************************************)
(* The invariant: what is heard was said, in this order, and a way carries *)
(* the rest of it until its connection breaks.                             *)
(***************************************************************************)
Holds(w, s, h, c, B) ==
    /\ Len(h) <= Len(s) /\ \A i \in 1..Len(h) : h[i] = s[i]
    /\ IF c \in B THEN w = <<>> ELSE Carries(w, s, Len(h))
CInv == \A c \in Clients, d \in Dirs : Holds(Way(c, d), said[c][d], heard[c][d], c, broken)

LEMMA WayTypes ==
    ASSUME TInv, NEW c \in Clients, NEW d \in Dirs
    PROVE  /\ Way(c, d) \in Seq(Frames)
           /\ said[c][d] \in Seq(Contents) /\ heard[c][d] \in Seq(Contents)
BY DEF TInv, WaysOK, Way

LEMMA HoldsSent ==
    ASSUME NEW w \in Seq(Frames), NEW s \in Seq(Contents), NEW h \in Seq(Contents),
           NEW c, NEW B, c \notin B, Holds(w, s, h, c, B), NEW g \in Frames
    PROVE  /\ ~IsMsg(g) => Holds(Append(w, g), s, h, c, B)
           /\ \A m \in Contents :
                 IsMsg(g) /\ Content(Decode(g)) = m => Holds(Append(w, g), Append(s, m), h, c, B)
<1>1. /\ Len(h) \in 0..Len(s) /\ Carries(w, s, Len(h)) /\ Len(s) \in Nat
      /\ \A i \in 1..Len(h) : h[i] = s[i]
  BY DEF Holds
<1>2. ASSUME ~IsMsg(g) PROVE Holds(Append(w, g), s, h, c, B)
  BY <1>1, <1>2, AddSys DEF Holds
<1>3. ASSUME NEW m \in Contents, IsMsg(g), Content(Decode(g)) = m
      PROVE  Holds(Append(w, g), Append(s, m), h, c, B)
  <2>1. Carries(Append(w, g), Append(s, m), Len(h))
    BY <1>1, <1>3, AddMsg
  <2>2. Len(Append(s, m)) = Len(s) + 1 /\ \A i \in 1..Len(s) : Append(s, m)[i] = s[i]
    OBVIOUS
  <2>3. Len(h) <= Len(Append(s, m)) /\ \A i \in 1..Len(h) : h[i] = Append(s, m)[i]
    BY <1>1, <2>2
  <2> QED BY <2>1, <2>3 DEF Holds
<1> QED BY <1>2, <1>3

LEMMA HoldsRead ==
    ASSUME NEW w \in Seq(Frames), NEW s \in Seq(Contents), NEW h \in Seq(Contents),
           NEW c, NEW B, Holds(w, s, h, c, B), w # <<>>
    PROVE  /\ c \notin B
           /\ ~IsMsg(Head(w)) => Holds(Tail(w), s, h, c, B)
           /\ IsMsg(Head(w)) => Holds(Tail(w), s, Append(h, Content(Decode(Head(w)))), c, B)
<1>1. /\ Len(h) \in 0..Len(s) /\ Carries(w, s, Len(h)) /\ Len(s) \in Nat /\ c \notin B
      /\ \A i \in 1..Len(h) : h[i] = s[i]
  BY DEF Holds
<1>2. ASSUME ~IsMsg(Head(w)) PROVE Holds(Tail(w), s, h, c, B)
  BY <1>1, <1>2, DropSys DEF Holds
<1>3. ASSUME IsMsg(Head(w))
      PROVE  Holds(Tail(w), s, Append(h, Content(Decode(Head(w)))), c, B)
  <2> DEFINE m == Content(Decode(Head(w)))
             t == Append(h, m)
  <2>1. Len(h) < Len(s) /\ s[Len(h) + 1] = m /\ Carries(Tail(w), s, Len(h) + 1)
    BY <1>1, <1>3, DropMsg
  <2>2. Len(t) = Len(h) + 1 /\ t[Len(h) + 1] = m /\ \A i \in 1..Len(h) : t[i] = h[i]
    OBVIOUS
  <2> HIDE DEF m, t
  <2>3. Len(t) <= Len(s) /\ \A i \in 1..Len(t) : t[i] = s[i]
    BY <1>1, <2>1, <2>2
  <2>4. Holds(Tail(w), s, t, c, B)
    BY <1>1, <2>1, <2>2, <2>3 DEF Holds
  <2> QED BY <2>4 DEF t, m
<1> QED BY <1>1, <1>2, <1>3

\* A connection that breaks, or is broken: what is said then is not heard.
LEMMA HoldsBroken ==
    ASSUME NEW w \in Seq(Frames), NEW s \in Seq(Contents), NEW h \in Seq(Contents),
           NEW c, NEW B, Holds(w, s, h, c, B)
    PROVE  /\ Holds(<<>>, s, h, c, B \cup {c})
           /\ c \in B => \A m \in Contents : Holds(w, Append(s, m), h, c, B)
<1>1. /\ Len(h) <= Len(s) /\ Len(s) \in Nat /\ Len(h) \in Nat
      /\ \A i \in 1..Len(h) : h[i] = s[i]
  <2>1. Len(s) \in Nat /\ Len(h) \in Nat
    OBVIOUS
  <2>2. Len(h) <= Len(s) /\ \A i \in 1..Len(h) : h[i] = s[i]
    BY Zenon DEF Holds
  <2> QED BY <2>1, <2>2
<1>2. Holds(<<>>, s, h, c, B \cup {c})
  BY <1>1 DEF Holds
<1>3. ASSUME c \in B, NEW m \in Contents PROVE Holds(w, Append(s, m), h, c, B)
  <2>1. Len(Append(s, m)) = Len(s) + 1 /\ \A i \in 1..Len(s) : Append(s, m)[i] = s[i]
    OBVIOUS
  <2>2. Len(h) <= Len(Append(s, m)) /\ \A i \in 1..Len(h) : h[i] = Append(s, m)[i]
    BY <1>1, <2>1
  <2>3. w = <<>>
    BY <1>3 DEF Holds
  <2> QED BY <1>3, <2>2, <2>3 DEF Holds
<1> QED BY <1>2, <1>3

LEMMA InitHolds == Init => CInv
<1> SUFFICES ASSUME Init, NEW c \in Clients, NEW d \in Dirs
             PROVE  Holds(Way(c, d), said[c][d], heard[c][d], c, broken)
  BY DEF CInv
<1>1. Way(c, d) = <<>> /\ said[c][d] = <<>> /\ heard[c][d] = <<>> /\ c \notin broken
  BY DEF Init, Way
<1>2. <<>> \in Seq(Contents) /\ Len(<<>>) = 0
  OBVIOUS
<1>3. Carries(<<>>, <<>>, 0)
  BY <1>2, CarriesNothing
<1> QED BY <1>1, <1>2, <1>3 DEF Holds

\* Of a frame, what it is: a shakehand or ping, or a packet of the program.
LEMMA Kinds == ASSUME NEW f \in Frames PROVE IsSys(f) <=> ~IsMsg(f)
BY DEF Frames, IsSys, IsMsg, Sys, Msg

\* A step that sends one shakehand or ping through the connection of c.
LEMMA SysHolds ==
    ASSUME TInv, CInv, NEW c \in Clients, NEW g \in Frames, IsSys(g),
           up' = [up EXCEPT ![c] = Sent(c, g)], UNCHANGED <<down, said, heard, broken>>
    PROVE  CInv'
<1> SUFFICES ASSUME NEW x \in Clients, NEW d \in Dirs
             PROVE  Holds(IF d = "up" THEN up'[x] ELSE down'[x], said'[x][d], heard'[x][d], x, broken')
  BY DEF CInv, Way
<1>1. Holds(Way(x, d), said[x][d], heard[x][d], x, broken)
  BY DEF CInv
<1>2. CASE x = c /\ d = "up" /\ c \notin broken
  <2>1. up'[x] = Append(Way(x, d), g)
    BY <1>2 DEF Sent, Way, TInv, WaysOK
  <2>2. Holds(Append(Way(x, d), g), said[x][d], heard[x][d], x, broken)
    BY <1>1, <1>2, WayTypes, HoldsSent, Kinds
  <2> QED BY <1>2, <2>1, <2>2
<1>3. CASE ~(x = c /\ d = "up" /\ c \notin broken)
  <2>1. up'[x] = up[x] \/ d # "up"
    BY <1>3 DEF Sent, TInv, WaysOK
  <2> QED BY <1>1, <2>1 DEF Way
<1> QED BY <1>2, <1>3

LEMMA BreakHolds ==
    ASSUME TInv, CInv, NEW c \in Clients, Break(c) \/ PingThrows(c)
    PROVE  CInv'
<1> SUFFICES ASSUME NEW x \in Clients, NEW d \in Dirs
             PROVE  Holds(IF d = "up" THEN up'[x] ELSE down'[x], said'[x][d], heard'[x][d], x, broken')
  BY DEF CInv, Way
<1>1. Holds(Way(x, d), said[x][d], heard[x][d], x, broken)
  BY DEF CInv
<1>2. /\ up' = [up EXCEPT ![c] = <<>>] /\ down' = [down EXCEPT ![c] = <<>>]
      /\ broken' = broken \cup {c} /\ said' = said /\ heard' = heard
  BY DEF Break, PingThrows
<1>3. CASE x = c
  <2>1. up'[x] = <<>> /\ down'[x] = <<>> /\ x \in broken'
    BY <1>2, <1>3 DEF TInv, WaysOK
  <2>2. Holds(<<>>, said[x][d], heard[x][d], x, broken \cup {x})
    BY <1>1, WayTypes, HoldsBroken
  <2> QED BY <1>2, <1>3, <2>1, <2>2
<1>4. CASE x # c
  <2>1. up'[x] = up[x] /\ down'[x] = down[x] /\ (x \in broken' <=> x \in broken)
    BY <1>2, <1>4 DEF TInv, WaysOK
  <2> QED BY <1>1, <1>2, <2>1 DEF Way, Holds
<1> QED BY <1>3, <1>4

LEMMA SendHolds ==
    ASSUME TInv, CInv, NEW S \in SUBSET Clients, NEW p \in Packets, Send(S, p)
    PROVE  CInv'
<1> DEFINE pkt == NewPacket(Msg, p[1], p[2])
           f == Encode(pkt)
           m == <<Msg, p[1], p[2]>>
<1>1. UNCHANGED <<broken, up, heard>> /\ m \in Contents
  BY DEF Send, Contents
<1>2. Encodes(pkt) <=> Sendable(p[1], p[2])
  BY EncodesSendable
<1>3. Encodes(pkt) => f \in Frames /\ IsMsg(f) /\ Content(Decode(f)) = m
  BY MsgFrames
<1>4. down' = IF Encodes(pkt) THEN Delivered(S, f) ELSE down
  BY DEF Send
<1>5. said' = [c \in Clients |->
                  IF c \in S /\ srv[c] = "open" /\ Encodes(pkt)
                  THEN [said[c] EXCEPT !["down"] = Append(@, m)] ELSE said[c]]
  BY <1>2 DEF Send, Says
<1>6. Delivered(S, f) = [d \in Clients |->
         IF d \in S /\ srv[d] = "open" /\ d \notin broken THEN Append(down[d], f) ELSE down[d]]
  BY DeliveredTo
<1> HIDE DEF pkt, f, m
<1> SUFFICES ASSUME NEW x \in Clients, NEW d \in Dirs
             PROVE  Holds(IF d = "up" THEN up'[x] ELSE down'[x], said'[x][d], heard'[x][d], x, broken')
  BY DEF CInv, Way
<1>7. Holds(Way(x, d), said[x][d], heard[x][d], x, broken)
  BY DEF CInv
<1>8. CASE d = "down" /\ x \in S /\ srv[x] = "open" /\ Encodes(pkt)
  <2>1. said'[x][d] = Append(said[x][d], m)
    BY <1>5, <1>8 DEF TInv, WaysOK, Dirs
  <2>2. CASE x \notin broken
    <3>1. down'[x] = Append(Way(x, d), f)
      BY <1>4, <1>6, <1>8, <2>2 DEF Way
    <3>2. Holds(Append(Way(x, d), f), Append(said[x][d], m), heard[x][d], x, broken)
      BY <1>1, <1>3, <1>7, <1>8, <2>2, WayTypes, HoldsSent
    <3> QED BY <1>1, <1>8, <2>1, <2>2, <3>1, <3>2
  <2>3. CASE x \in broken
    <3>1. down'[x] = Way(x, d)
      BY <1>4, <1>6, <1>8, <2>3 DEF Way
    <3>2. Holds(Way(x, d), Append(said[x][d], m), heard[x][d], x, broken)
      BY <1>1, <1>7, <2>3, WayTypes, HoldsBroken
    <3> QED BY <1>1, <1>8, <2>1, <2>3, <3>1, <3>2
  <2> QED BY <2>2, <2>3
<1>9. CASE ~(d = "down" /\ x \in S /\ srv[x] = "open" /\ Encodes(pkt))
  <2>1. said'[x][d] = said[x][d] /\ (d = "up" \/ down'[x] = down[x])
    BY <1>4, <1>5, <1>6, <1>9 DEF TInv, WaysOK, Dirs
  <2> QED BY <1>1, <1>7, <2>1 DEF Way, Dirs
<1> QED BY <1>8, <1>9

LEMMA ClientSendHolds ==
    ASSUME TInv, CInv, NEW c \in Clients, NEW p \in Packets, ClientSend(c, p)
    PROVE  CInv'
<1> DEFINE pkt == NewPacket(Msg, p[1], p[2])
           f == Encode(pkt)
           m == <<Msg, p[1], p[2]>>
<1>1. UNCHANGED <<broken, down, heard>> /\ m \in Contents
  BY DEF ClientSend, Contents
<1>2. Encodes(pkt) <=> Sendable(p[1], p[2])
  BY EncodesSendable
<1>3. Encodes(pkt) => f \in Frames /\ IsMsg(f) /\ Content(Decode(f)) = m
  BY MsgFrames
<1>4. up' = IF Encodes(pkt) THEN [up EXCEPT ![c] = Sent(c, f)] ELSE up
  BY DEF ClientSend
<1>5. said' = IF Encodes(pkt) /\ c \notin broken
              THEN [said EXCEPT ![c]["up"] = Append(@, m)] ELSE said
  BY <1>2 DEF ClientSend
<1> HIDE DEF pkt, f, m
<1> SUFFICES ASSUME NEW x \in Clients, NEW d \in Dirs
             PROVE  Holds(IF d = "up" THEN up'[x] ELSE down'[x], said'[x][d], heard'[x][d], x, broken')
  BY DEF CInv, Way
<1>6. Holds(Way(x, d), said[x][d], heard[x][d], x, broken)
  BY DEF CInv
<1>7. CASE d = "up" /\ x = c /\ Encodes(pkt) /\ c \notin broken
  <2>1. said'[x][d] = Append(said[x][d], m) /\ up'[x] = Append(Way(x, d), f)
    BY <1>4, <1>5, <1>7 DEF Sent, Way, TInv, WaysOK, Dirs
  <2>2. Holds(Append(Way(x, d), f), Append(said[x][d], m), heard[x][d], x, broken)
    BY <1>1, <1>3, <1>6, <1>7, WayTypes, HoldsSent
  <2> QED BY <1>1, <1>7, <2>1, <2>2
<1>8. CASE ~(d = "up" /\ x = c /\ Encodes(pkt) /\ c \notin broken)
  <2>1. said'[x][d] = said[x][d] /\ (d = "down" \/ up'[x] = up[x])
    BY <1>4, <1>5, <1>8 DEF Sent, TInv, WaysOK, Dirs
  <2> QED BY <1>1, <1>6, <2>1 DEF Way, Dirs
<1> QED BY <1>7, <1>8

LEMMA ServerReceiveHolds ==
    ASSUME TInv, CInv, NEW c \in Clients, ServerReceive(c)
    PROVE  CInv'
<1> DEFINE f == Head(up[c])
<1>1. up[c] \in Seq(Frames) /\ up[c] # <<>> /\ f \in Frames /\ up' = [up EXCEPT ![c] = Tail(@)]
  BY DEF ServerReceive, TInv, WaysOK
<1>2. UNCHANGED <<broken, said>>
  BY DEF ServerReceive
<1> HIDE DEF f
<1>3. c \notin broken /\ (~IsMsg(f) => Holds(Tail(up[c]), said[c]["up"], heard[c]["up"], c, broken))
      /\ (IsMsg(f) => Holds(Tail(up[c]), said[c]["up"],
                            Append(heard[c]["up"], Content(Decode(f))), c, broken))
  <2>1. "up" \in Dirs /\ Way(c, "up") = up[c]
    BY DEF Dirs, Way
  <2>2. Holds(up[c], said[c]["up"], heard[c]["up"], c, broken)
    BY <2>1 DEF CInv
  <2>3. said[c]["up"] \in Seq(Contents) /\ heard[c]["up"] \in Seq(Contents)
    BY <2>1, WayTypes
  <2> QED BY <1>1, <2>2, <2>3, HoldsRead DEF f
<1> SUFFICES ASSUME NEW x \in Clients, NEW d \in Dirs
             PROVE  Holds(IF d = "up" THEN up'[x] ELSE down'[x], said'[x][d], heard'[x][d], x, broken')
  BY DEF CInv, Way
<1>4. Holds(Way(x, d), said[x][d], heard[x][d], x, broken)
  BY DEF CInv
<1>5. x # c => up'[x] = up[x]
  BY <1>1 DEF TInv, WaysOK
<1>6. up'[c] = Tail(up[c])
  BY <1>1 DEF TInv, WaysOK
<1>7. CASE IsSys(f)
  <2> DEFINE b == Decode(f).body
             g == SysFrame([cmd |-> b.cmd, time |-> now])
  <2>1. b \in SysBodies /\ Decodes(f) /\ ~IsMsg(f)
    BY <1>1, <1>7, Kinds DEF Frames
  <2>2. down' = Answer(c, b.cmd) /\ heard' = heard
    BY <1>7, <2>1 DEF ServerReceive, IsSys, Decode, f
  <2>3. down' = down \/ (down' = [down EXCEPT ![c] = Append(down[c], g)] /\ g \in Frames /\ IsSys(g))
    <3> HIDE DEF b
    <3> DEFINE a == [cmd |-> b.cmd, time |-> now]
    <3>1. /\ Answer(c, b.cmd) \in {down, [down EXCEPT ![c] = Append(down[c], SysFrame(a))]}
          /\ Answer(c, b.cmd) # down => a \in SysBodies
      BY <2>1, AnswerFrame
    <3>2. a \in SysBodies => SysFrame(a) \in Frames /\ IsSys(SysFrame(a))
      BY SysFrames
    <3> HIDE DEF a
    <3> QED BY <2>2, <3>1, <3>2 DEF a
  <2> HIDE DEF b, g
  <2>4. CASE d = "up"
    <3>1. CASE x = c
      BY <1>2, <1>3, <1>6, <2>1, <2>2, <2>4, <3>1
    <3>2. CASE x # c
      BY <1>2, <1>4, <1>5, <2>2, <2>4, <3>2 DEF Way
    <3> QED BY <3>1, <3>2
  <2>5. CASE d = "down"
    <3>1. CASE down'[x] = down[x]
      BY <1>2, <1>4, <2>2, <2>5, <3>1 DEF Way
    <3>2. CASE down'[x] # down[x]
      <4>1. x = c /\ down'[x] = Append(Way(x, d), g) /\ g \in Frames /\ IsSys(g)
        BY <2>3, <2>5, <3>2 DEF Way, TInv, WaysOK
      <4>2. Holds(Append(Way(x, d), g), said[x][d], heard[x][d], x, broken)
        BY <1>3, <1>4, <4>1, WayTypes, HoldsSent, Kinds
      <4> QED BY <1>2, <2>2, <2>5, <4>1, <4>2
    <3> QED BY <3>1, <3>2
  <2> QED BY <2>4, <2>5 DEF Dirs
<1>8. CASE ~IsSys(f)
  <2>1. heard' = Handled(c, "up", f) /\ down' = down /\ IsMsg(f)
    BY <1>1, <1>8, Kinds DEF ServerReceive, IsSys, Decode, f
  <2>2. heard' = [heard EXCEPT ![c]["up"] = Append(@, Content(Decode(f)))]
    BY <1>1, <1>8, <2>1, HandledTypes DEF Dirs
  <2>3. heard'[c]["up"] = Append(heard[c]["up"], Content(Decode(f)))
    BY <2>2 DEF TInv, WaysOK, Dirs
  <2>4. CASE d = "up" /\ x = c
    BY <1>2, <1>3, <1>6, <2>1, <2>3, <2>4
  <2>5. CASE ~(d = "up" /\ x = c)
    <3>1. heard'[x][d] = heard[x][d]
      BY <2>2, <2>5 DEF TInv, WaysOK, Dirs
    <3> QED BY <1>2, <1>4, <1>5, <2>1, <2>5, <3>1 DEF Way
  <2> QED BY <2>4, <2>5
<1> QED BY <1>7, <1>8

LEMMA ClientReceiveHolds ==
    ASSUME TInv, CInv, NEW c \in Clients, ClientReceive(c)
    PROVE  CInv'
<1> DEFINE f == Head(down[c])
<1>1. down[c] \in Seq(Frames) /\ down[c] # <<>> /\ f \in Frames
      /\ down' = [down EXCEPT ![c] = Tail(@)]
  BY DEF ClientReceive, TInv, WaysOK
<1>2. UNCHANGED <<broken, said, up>>
  BY DEF ClientReceive
<1> HIDE DEF f
<1>3. (~IsMsg(f) => Holds(Tail(down[c]), said[c]["down"], heard[c]["down"], c, broken))
      /\ (IsMsg(f) => Holds(Tail(down[c]), said[c]["down"],
                            Append(heard[c]["down"], Content(Decode(f))), c, broken))
  <2>1. "down" \in Dirs /\ Way(c, "down") = down[c]
    BY DEF Dirs, Way
  <2>2. Holds(down[c], said[c]["down"], heard[c]["down"], c, broken)
    BY <2>1 DEF CInv
  <2>3. said[c]["down"] \in Seq(Contents) /\ heard[c]["down"] \in Seq(Contents)
    BY <2>1, WayTypes
  <2> QED BY <1>1, <2>2, <2>3, HoldsRead DEF f
<1> SUFFICES ASSUME NEW x \in Clients, NEW d \in Dirs
             PROVE  Holds(IF d = "up" THEN up'[x] ELSE down'[x], said'[x][d], heard'[x][d], x, broken')
  BY DEF CInv, Way
<1>4. Holds(Way(x, d), said[x][d], heard[x][d], x, broken)
  BY DEF CInv
<1>5. (x # c => down'[x] = down[x]) /\ down'[c] = Tail(down[c])
  BY <1>1 DEF TInv, WaysOK
<1>6. CASE IsSys(f)
  <2>1. Decodes(f) /\ ~IsMsg(f)
    BY <1>1, <1>6, Kinds DEF Frames
  <2>2. heard' = heard
    BY <1>6, <2>1 DEF ClientReceive, IsSys, Decode, f
  <2>3. CASE d = "down" /\ x = c
    BY <1>2, <1>3, <1>5, <2>1, <2>2, <2>3
  <2>4. CASE ~(d = "down" /\ x = c)
    BY <1>2, <1>4, <1>5, <2>2, <2>4 DEF Way, Dirs
  <2> QED BY <2>3, <2>4
<1>7. CASE ~IsSys(f)
  <2>1. heard' = Handled(c, "down", f) /\ IsMsg(f)
    BY <1>1, <1>7, Kinds DEF ClientReceive, IsSys, Decode, f
  <2>2. heard' = [heard EXCEPT ![c]["down"] = Append(@, Content(Decode(f)))]
    BY <1>1, <1>7, <2>1, HandledTypes DEF Dirs
  <2>3. heard'[c]["down"] = Append(heard[c]["down"], Content(Decode(f)))
    BY <2>2 DEF TInv, WaysOK, Dirs
  <2>4. CASE d = "down" /\ x = c
    BY <1>2, <1>3, <1>5, <2>1, <2>3, <2>4
  <2>5. CASE ~(d = "down" /\ x = c)
    <3>1. heard'[x][d] = heard[x][d]
      BY <2>2, <2>5 DEF TInv, WaysOK, Dirs
    <3> QED BY <1>2, <1>4, <1>5, <2>5, <3>1 DEF Way, Dirs
  <2> QED BY <2>4, <2>5
<1> QED BY <1>6, <1>7

\* Steps that send nothing, hear nothing and break nothing.
LEMMA QuietHolds ==
    ASSUME CInv, UNCHANGED <<up, down, said, heard, broken>>
    PROVE  CInv'
BY DEF CInv, Way

LEMMA NextHolds == TInv /\ CInv /\ [Next]_vars => CInv'
<1> SUFFICES ASSUME TInv, CInv, [Next]_vars PROVE CInv'
  OBVIOUS
<1>1. CASE UNCHANGED vars
  BY <1>1, QuietHolds DEF vars
<1>2. CASE Tick
  BY <1>2, QuietHolds DEF Tick
<1>3. ASSUME NEW c \in Clients, Accept(c) \/ Kick(c) \/ ClientEnds(c) \/ Closed(c) PROVE CInv'
  BY <1>3, QuietHolds DEF Accept, Kick, ClientEnds, Closed
<1>4. ASSUME NEW c \in Clients, Opened(c) PROVE CInv'
  <2>1. Shakehand(0) \in SysBodies
    BY LinkAssumption DEF Shakehand, SysBodies
  <2> DEFINE g == SysFrame(Shakehand(0))
  <2>2. g \in Frames /\ IsSys(g)
    BY <2>1, SysFrames
  <2>3. up' = [up EXCEPT ![c] = Sent(c, g)] /\ UNCHANGED <<down, said, heard, broken>>
    BY <1>4 DEF Opened, Shakes
  <2> HIDE DEF g
  <2> QED BY <2>2, <2>3, SysHolds
<1>5. ASSUME NEW c \in Clients, Ping(c) PROVE CInv'
  <2> DEFINE g == SysFrame(Pingpong(ServerTick(c)))
  <2>1. g \in Frames /\ IsSys(g)
    BY <1>5, PingTypes, SysFrames
  <2>2. up' = [up EXCEPT ![c] = Sent(c, g)] /\ UNCHANGED <<down, said, heard, broken>>
    BY <1>5 DEF Ping
  <2> HIDE DEF g
  <2> QED BY <2>1, <2>2, SysHolds
<1>6. ASSUME NEW c \in Clients, Break(c) \/ PingThrows(c) \/ ServerReceive(c) \/ ClientReceive(c)
      PROVE  CInv'
  BY <1>6, BreakHolds, ServerReceiveHolds, ClientReceiveHolds
<1>7. ASSUME NEW c \in Clients, NEW p \in Packets, SendPacket(c, p) \/ ClientSend(c, p)
      PROVE  CInv'
  BY <1>7, SendHolds, ClientSendHolds DEF SendPacket
<1>8. ASSUME NEW S \in SUBSET Clients, NEW except \in Clients, NEW p \in Packets,
             BroadcastPacketWith(S, except, p)
      PROVE  CInv'
  BY <1>8, SendHolds DEF BroadcastPacketWith
<1> QED BY <1>1, <1>2, <1>3, <1>4, <1>5, <1>6, <1>7, <1>8 DEF Next

LEMMA HoldsArrives == TInv /\ CInv => ArrivesWhole
<1> SUFFICES ASSUME TInv, CInv, NEW c \in Clients, NEW d \in Dirs
             PROVE  /\ IsPrefix(heard[c][d], said[c][d])
                    /\ c \notin broken =>
                          Len(said[c][d]) - Len(heard[c][d]) = Cardinality(OnTheWay(Way(c, d)))
  BY DEF ArrivesWhole
<1> DEFINE w == Way(c, d)
           s == said[c][d]
           h == heard[c][d]
<1>1. w \in Seq(Frames) /\ s \in Seq(Contents) /\ h \in Seq(Contents)
  BY WayTypes
<1>2. Holds(w, s, h, c, broken)
  BY DEF CInv
<1> HIDE DEF w, s, h
<1>3. Len(h) \in 0..Len(s) /\ \A i \in 1..Len(h) : h[i] = s[i]
  BY <1>1, <1>2 DEF Holds
<1>4. IsPrefix(h, s)
  <2> DEFINE n == Len(h)
  <2>1. n \in Nat /\ n <= Len(s)
    BY <1>1, <1>3
  <2> HIDE DEF n
  <2>2. /\ SubSeq(h, 1, n) \in Seq(Contents) /\ Len(SubSeq(h, 1, n)) = n
        /\ \A i \in 1..n : SubSeq(h, 1, n)[i] = h[i]
    <3>1. \A i \in 1..n : h[i] \in Contents
      BY <1>1, <1>3, <2>1 DEF n
    <3> QED BY <2>1, <3>1, SubSeqProperties
  <2>3. /\ SubSeq(s, 1, n) \in Seq(Contents) /\ Len(SubSeq(s, 1, n)) = n
        /\ \A i \in 1..n : SubSeq(s, 1, n)[i] = s[i]
    <3>1. \A i \in 1..n : s[i] \in Contents
      BY <1>1, <2>1
    <3> QED BY <2>1, <3>1, SubSeqProperties
  <2>4. \A i \in 1..n : h[i] = s[i]
    BY <1>3 DEF n
  <2>5. SubSeq(h, 1, n) = SubSeq(s, 1, n)
    BY <2>2, <2>3, <2>4, SeqEqual
  <2> QED BY <2>1, <2>5 DEF IsPrefix, n
<1>5. ASSUME c \notin broken PROVE Len(s) - Len(h) = Cardinality(OnTheWay(w))
  BY <1>1, <1>2, <1>3, <1>5, Many DEF Holds
<1> QED BY <1>4, <1>5 DEF w, s, h

(***************************************************************************)
(* Whatever the bodies, their sizes and the limits of the length field:    *)
(* what is said through a connection is heard as it was, once and in       *)
(* order, or it is on its way, or the connection broke.                    *)
(***************************************************************************)
THEOREM SaidIsHeard == Spec => []ArrivesWhole
<1>1. Spec => [](TInv /\ CInv)
  BY InitTypes, NextTypes, InitHolds, NextHolds, PTL DEF Spec
<1> QED BY <1>1, HoldsArrives, PTL

-----------------------------------------------------------------------------
(***************************************************************************)
(* The clock.  A client has one question on its way at a time: the answer  *)
(* that it reads was written after it asked, and before now.               *)
(***************************************************************************)
\* The answers on their way to c, and the times they say.
NoAnswer(w) == \A i \in 1..Len(w) : ~IsSys(w[i])
Since(w, t, a) == \A i \in 1..Len(w) : IsSys(w[i]) =>
    /\ Decode(w[i]).body.time <= now
    /\ t <= Decode(w[i]).body.time + a
KInv == \A c \in Clients :
    /\ clock[c].ping <= DateNow(c)
    /\ cli[c] = "new" => up[c] = <<>> /\ NoAnswer(down[c]) /\ ~shaken[c]
    /\ Since(down[c], clock[c].ping, Ahead[c])
    /\ shaken[c] => /\ clock[c].tick + Ahead[c] <= clock[c].pong
                    /\ clock[c].pong <= clock[c].tick + Ahead[c] + clock[c].latency

\* A frame more, or one less.
LEMMA WayGrows ==
    ASSUME NEW w \in Seq(Frames), NEW g \in Frames
    PROVE  /\ NoAnswer(w) /\ ~IsSys(g) => NoAnswer(Append(w, g))
           /\ \A t, a : Since(w, t, a) /\ (IsSys(g) => Decode(g).body.time <= now
                                                    /\ t <= Decode(g).body.time + a)
                        => Since(Append(w, g), t, a)
<1> DEFINE v == Append(w, g)
<1>1. Len(v) = Len(w) + 1 /\ v[Len(w) + 1] = g /\ (\A i \in 1..Len(w) : v[i] = w[i]) /\ Len(w) \in Nat
  OBVIOUS
<1> HIDE DEF v
<1>2. 1..Len(v) = 1..Len(w) \cup {Len(w) + 1}
  BY <1>1
<1> QED BY <1>1, <1>2 DEF NoAnswer, Since, v

LEMMA WayShrinks ==
    ASSUME NEW w \in Seq(Frames), w # <<>>
    PROVE  /\ NoAnswer(w) => NoAnswer(Tail(w))
           /\ \A t, a : Since(w, t, a) => Since(Tail(w), t, a)
           /\ NoAnswer(w) => ~IsSys(Head(w))
           /\ \A t, a : Since(w, t, a) /\ IsSys(Head(w)) =>
                 Decode(Head(w)).body.time <= now /\ t <= Decode(Head(w)).body.time + a
<1> DEFINE v == Tail(w)
<1>1. /\ Len(v) = Len(w) - 1 /\ Len(w) \in Nat \ {0} /\ Head(w) = w[1]
      /\ \A i \in 1..Len(v) : v[i] = w[i + 1]
  OBVIOUS
<1> HIDE DEF v
<1>2. \A i \in 1..Len(v) : i + 1 \in 1..Len(w)
  BY <1>1
<1> QED BY <1>1, <1>2 DEF NoAnswer, Since, v

LEMMA InitClock == Init => KInv
<1> SUFFICES ASSUME Init, NEW c \in Clients
             PROVE  /\ clock[c].ping <= DateNow(c) /\ ~shaken[c]
                    /\ up[c] = <<>> /\ NoAnswer(down[c])
                    /\ Since(down[c], clock[c].ping, Ahead[c])
  BY DEF KInv
<1>1. clock[c].ping = 0 /\ ~shaken[c] /\ up[c] = <<>> /\ down[c] = <<>> /\ now = 0 /\ Ahead[c] \in Nat
  BY LinkAssumption DEF Init
<1>2. Len(<<>>) = 0 /\ 1..0 = {}
  OBVIOUS
<1> QED BY <1>1, <1>2 DEF DateNow, NoAnswer, Since

\* Time that passes.
LEMMA TickClock ==
    ASSUME TInv, KInv, Tick
    PROVE  KInv'
<1> SUFFICES ASSUME NEW c \in Clients
             PROVE  /\ clock[c].ping <= now' + Ahead[c]
                    /\ \A i \in 1..Len(down[c]) : IsSys(down[c][i]) =>
                          /\ Decode(down[c][i]).body.time <= now'
                          /\ clock[c].ping <= Decode(down[c][i]).body.time + Ahead[c]
  BY DEF Tick, KInv, Since, NoAnswer, DateNow
<1>1. now' = now + 1 /\ now \in Nat /\ Ahead[c] \in Nat /\ clock[c].ping \in Int
  BY LinkAssumption DEF Tick, TInv, EndsOK, Clocks
<1>2. clock[c].ping <= now + Ahead[c]
  BY DEF KInv, DateNow
<1>3. ASSUME NEW i \in 1..Len(down[c]), IsSys(down[c][i])
      PROVE  /\ Decode(down[c][i]).body.time <= now'
             /\ clock[c].ping <= Decode(down[c][i]).body.time + Ahead[c]
  <2> DEFINE t == Decode(down[c][i]).body.time
  <2>1. t <= now /\ clock[c].ping <= t + Ahead[c]
    BY <1>3 DEF KInv, Since
  <2>2. down[c][i] \in Frames
    BY DEF TInv, WaysOK
  <2>3. t \in Nat
    BY <1>3, <2>2, LinkAssumption DEF Frames, SysBodies
  <2> HIDE DEF t
  <2>4. t <= now'
    BY <1>1, <2>1, <2>3
  <2> QED BY <2>1, <2>4 DEF t
<1> QED BY <1>1, <1>2, <1>3

\* Steps that leave the clocks and the shakehands alone, and let ways lose all
\* they carry at most.
LEMMA EndClock ==
    ASSUME TInv, KInv, NEW c \in Clients,
           Accept(c) \/ Kick(c) \/ ClientEnds(c) \/ Break(c) \/ Closed(c) \/ PingThrows(c)
    PROVE  KInv'
<1>1. UNCHANGED <<now, clock, shaken>> /\ \A x \in Clients : cli'[x] = "new" => cli[x] = "new"
  BY DEF Accept, Kick, ClientEnds, Break, Closed, PingThrows, TInv, EndsOK
<1>2. \A x \in Clients : (up'[x] = up[x] \/ up'[x] = <<>>) /\ (down'[x] = down[x] \/ down'[x] = <<>>)
  BY DEF Accept, Kick, ClientEnds, Break, Closed, PingThrows, TInv, WaysOK
<1>3. \A t, a : NoAnswer(<<>>) /\ Since(<<>>, t, a)
  <2>1. Len(<<>>) = 0 /\ 1..0 = {}
    OBVIOUS
  <2> QED BY <2>1 DEF NoAnswer, Since
<1>4. \A w, t, a : Since(w, t, a)' <=> \A i \in 1..Len(w) : IsSys(w[i]) =>
         Decode(w[i]).body.time <= now /\ t <= Decode(w[i]).body.time + a
  BY <1>1 DEF Since
<1> SUFFICES ASSUME NEW x \in Clients
             PROVE  /\ cli'[x] = "new" => up'[x] = <<>> /\ NoAnswer(down'[x])
                    /\ Since(down'[x], clock[x].ping, Ahead[x])
  BY <1>1 DEF KInv, Since, DateNow
<1> QED BY <1>1, <1>2, <1>3 DEF KInv

\* Packets of the program are no answers.
LEMMA SendDown ==
    ASSUME TInv, NEW S \in SUBSET Clients, NEW p \in Packets, Send(S, p)
    PROVE  \A x \in Clients : down'[x] = down[x] \/
               \E f \in Frames : ~IsSys(f) /\ down'[x] = Append(down[x], f)
<1> DEFINE f == Encode(NewPacket(Msg, p[1], p[2]))
<1>1. CASE Encodes(NewPacket(Msg, p[1], p[2]))
  <2>1. f \in Frames /\ ~IsSys(f)
    BY <1>1, MsgFrames
  <2>2. down' = Delivered(S, f)
    BY <1>1 DEF Send
  <2> HIDE DEF f
  <2>3. Delivered(S, f) = [d \in Clients |->
           IF d \in S /\ srv[d] = "open" /\ d \notin broken THEN Append(down[d], f) ELSE down[d]]
    BY DeliveredTo
  <2> QED BY <2>1, <2>2, <2>3
<1>2. CASE ~Encodes(NewPacket(Msg, p[1], p[2]))
  BY <1>2 DEF Send
<1> QED BY <1>1, <1>2

LEMMA SendClock ==
    ASSUME TInv, KInv, NEW S \in SUBSET Clients, NEW p \in Packets, Send(S, p)
    PROVE  KInv'
<1>1. UNCHANGED <<now, clock, shaken, cli, up>>
  BY DEF Send
<1>2. \A x \in Clients : down'[x] = down[x] \/
         \E f \in Frames : ~IsSys(f) /\ down'[x] = Append(down[x], f)
  BY SendDown
<1> SUFFICES ASSUME NEW x \in Clients
             PROVE  /\ cli[x] = "new" => NoAnswer(down'[x])
                    /\ Since(down'[x], clock[x].ping, Ahead[x])
  BY <1>1 DEF KInv, Since, DateNow
<1>3. down[x] \in Seq(Frames)
  BY DEF TInv, WaysOK
<1> QED BY <1>2, <1>3, WayGrows DEF KInv

LEMMA ClientSendClock ==
    ASSUME TInv, KInv, NEW c \in Clients, NEW p \in Packets, ClientSend(c, p)
    PROVE  KInv'
<1>1. UNCHANGED <<now, clock, shaken, cli, down>> /\ cli[c] = "open"
  BY DEF ClientSend
<1>2. \A x \in Clients : x # c => up'[x] = up[x]
  BY DEF ClientSend, TInv, WaysOK
<1> SUFFICES ASSUME NEW x \in Clients PROVE cli[x] = "new" => up'[x] = <<>>
  BY <1>1 DEF KInv, Since, DateNow
<1> QED BY <1>1, <1>2 DEF KInv

\* A question: nobody has asked before, or all that was asked is answered.
LEMMA AskClock ==
    ASSUME TInv, KInv, NEW c \in Clients, NoAnswer(down[c]), cli'[c] # "new",
           \A x \in Clients : x # c => up'[x] = up[x] /\ cli'[x] = cli[x],
           clock' = [clock EXCEPT ![c].ping = DateNow(c)], UNCHANGED <<now, down, shaken>>
    PROVE  KInv'
<1>1. \A x \in Clients : clock[x] \in Clocks /\ DateNow(x) \in Nat
  BY TickIsNat
<1>2. \A x \in Clients : x # c => clock'[x] = clock[x]
  BY DEF TInv, EndsOK
<1>3. /\ clock'[c].ping = DateNow(c) /\ clock'[c].tick = clock[c].tick
      /\ clock'[c].pong = clock[c].pong /\ clock'[c].latency = clock[c].latency
  BY <1>1 DEF TInv, EndsOK, Clocks
<1>4. \A t, a : Since(down[c], t, a)
  BY DEF NoAnswer, Since
<1> SUFFICES ASSUME NEW x \in Clients
             PROVE  /\ clock'[x].ping <= DateNow(x)
                    /\ cli'[x] = "new" => up'[x] = <<>> /\ NoAnswer(down[x]) /\ ~shaken[x]
                    /\ Since(down[x], clock'[x].ping, Ahead[x])
                    /\ shaken[x] => /\ clock'[x].tick + Ahead[x] <= clock'[x].pong
                                    /\ clock'[x].pong <= clock'[x].tick + Ahead[x] + clock'[x].latency
  BY DEF KInv, Since, DateNow
<1>5. CASE x = c
  <2>1. DateNow(c) <= DateNow(c)
    BY <1>1
  <2> QED BY <1>3, <1>4, <1>5, <2>1 DEF KInv
<1>6. CASE x # c
  BY <1>2, <1>6 DEF KInv
<1> QED BY <1>5, <1>6

LEMMA OpenedClock ==
    ASSUME TInv, KInv, NEW c \in Clients, Opened(c)
    PROVE  KInv'
<1>1. NoAnswer(down[c])
  BY DEF Opened, KInv
<1>2. cli'[c] # "new" /\ \A x \in Clients : x # c => up'[x] = up[x] /\ cli'[x] = cli[x]
  BY DEF Opened, Shakes, TInv, EndsOK, WaysOK
<1>3. clock' = [clock EXCEPT ![c].ping = DateNow(c)] /\ UNCHANGED <<now, down, shaken>>
  BY DEF Opened
<1> QED BY <1>1, <1>2, <1>3, AskClock

LEMMA PingClock ==
    ASSUME TInv, KInv, Prompt, NEW c \in Clients, Ping(c)
    PROVE  KInv'
<1>1. NoAnswer(down[c])
  <2>1. ~Unanswered(c)
    BY DEF Ping
  <2>2. \A i \in 1..Len(down[c]) : down[c][i] \in ToSet(down[c])
    BY DEF TInv, WaysOK, ToSet
  <2> QED BY <2>1, <2>2 DEF Unanswered, NoAnswer, IsSys
<1>2. cli'[c] # "new" /\ \A x \in Clients : x # c => up'[x] = up[x] /\ cli'[x] = cli[x]
  BY DEF Ping, TInv, WaysOK
<1>3. clock' = [clock EXCEPT ![c].ping = DateNow(c)] /\ UNCHANGED <<now, down, shaken>>
  BY DEF Ping
<1> QED BY <1>1, <1>2, <1>3, AskClock

\* The answer says the server's tick of this moment.
LEMMA AnswerDown ==
    ASSUME TInv, NEW c \in Clients, ServerReceive(c)
    PROVE  down' = down \/ \E g \in Frames : /\ down' = [down EXCEPT ![c] = Append(down[c], g)]
                                             /\ IsSys(g) /\ Decode(g).body.time = now
<1> DEFINE f == Head(up[c])
<1>1. f \in Frames
  BY DEF ServerReceive, TInv, WaysOK
<1>2. CASE IsSys(f)
  <2> DEFINE b == Decode(f).body
             a == [cmd |-> b.cmd, time |-> now]
  <2>1. b \in SysBodies /\ Decodes(f)
    BY <1>1, <1>2 DEF Frames
  <2>2. down' = Answer(c, b.cmd)
    BY <1>2, <2>1 DEF ServerReceive, IsSys, Decode
  <2> HIDE DEF b, f
  <2>3. /\ Answer(c, b.cmd) \in {down, [down EXCEPT ![c] = Append(down[c], SysFrame(a))]}
        /\ Answer(c, b.cmd) # down => a \in SysBodies
    BY <2>1, AnswerFrame
  <2>4. a \in SysBodies => /\ SysFrame(a) \in Frames /\ IsSys(SysFrame(a))
                           /\ Decode(SysFrame(a)).body = a
    BY SysFrames
  <2>5. a.time = now
    OBVIOUS
  <2> HIDE DEF a
  <2> QED BY <2>2, <2>3, <2>4, <2>5
<1>3. CASE ~IsSys(f)
  BY <1>3 DEF ServerReceive, IsSys, Decode
<1> QED BY <1>2, <1>3

LEMMA ServerReceiveClock ==
    ASSUME TInv, KInv, NEW c \in Clients, ServerReceive(c)
    PROVE  KInv'
<1>1. UNCHANGED <<now, clock, shaken, cli>> /\ up[c] # <<>> /\ up' = [up EXCEPT ![c] = Tail(@)]
  BY DEF ServerReceive
<1>3. cli[c] # "new" /\ \A x \in Clients : x # c => up'[x] = up[x]
  BY <1>1 DEF KInv, TInv, WaysOK
<1>4. down' = down \/ \E g \in Frames : /\ down' = [down EXCEPT ![c] = Append(down[c], g)]
                                        /\ IsSys(g) /\ Decode(g).body.time = now
  BY AnswerDown
<1> SUFFICES ASSUME NEW x \in Clients
             PROVE  /\ cli[x] = "new" => up'[x] = <<>> /\ NoAnswer(down'[x])
                    /\ Since(down'[x], clock[x].ping, Ahead[x])
  BY <1>1 DEF KInv, Since, DateNow
<1>5. down[x] \in Seq(Frames)
  BY DEF TInv, WaysOK
<1>6. CASE x = c
  <2>1. Since(down[x], clock[x].ping, Ahead[x]) /\ clock[x].ping <= now + Ahead[x] /\ now <= now
    BY DEF KInv, DateNow, TInv, EndsOK
  <2>2. down'[x] = down[x] \/ \E g \in Frames : /\ down'[x] = Append(down[x], g)
                                               /\ IsSys(g) /\ Decode(g).body.time = now
    BY <1>4, <1>6 DEF TInv, WaysOK
  <2>3. Since(down'[x], clock[x].ping, Ahead[x])
    BY <1>5, <2>1, <2>2, WayGrows
  <2> QED BY <1>3, <1>6, <2>3
<1>7. CASE x # c
  <2>1. down'[x] = down[x] /\ up'[x] = up[x]
    BY <1>3, <1>4, <1>7 DEF TInv, WaysOK
  <2> QED BY <2>1 DEF KInv
<1> QED BY <1>6, <1>7

LEMMA ClientReceiveClock ==
    ASSUME TInv, KInv, NEW c \in Clients, ClientReceive(c)
    PROVE  KInv'
<1> DEFINE f == Head(down[c])
<1>1. /\ UNCHANGED <<now, cli, up>> /\ down[c] # <<>> /\ cli[c] = "open"
      /\ down' = [down EXCEPT ![c] = Tail(@)] /\ down[c] \in Seq(Frames)
  BY DEF ClientReceive, TInv, WaysOK
<1>2. f \in Frames
  BY <1>1
<1>3. down'[c] = Tail(down[c]) /\ Since(Tail(down[c]), clock[c].ping, Ahead[c])
  BY <1>1, WayShrinks DEF KInv, TInv, WaysOK
<1>4. \A x \in Clients : x # c => down'[x] = down[x]
  BY <1>1 DEF TInv, WaysOK
<1>5. CASE ~IsSys(f)
  <2>1. UNCHANGED <<clock, shaken>>
    BY <1>5 DEF ClientReceive, IsSys, Decode
  <2> SUFFICES ASSUME NEW x \in Clients
               PROVE  /\ cli[x] = "new" => NoAnswer(down'[x])
                      /\ Since(down'[x], clock[x].ping, Ahead[x])
    BY <1>1, <2>1 DEF KInv, Since, DateNow
  <2> QED BY <1>1, <1>3, <1>4 DEF KInv
<1>6. CASE IsSys(f)
  <2> DEFINE t == Decode(f).body.time
             k == clock[c]
             n == DateNow(c)
  <2>1. Decode(f).body \in SysBodies /\ Decodes(f)
    BY <1>2, <1>6 DEF Frames
  <2>2. clock' = [clock EXCEPT ![c] = Synced(c, t)] /\ \A x \in Clients : x # c => shaken'[x] = shaken[x]
    BY <1>6, <2>1 DEF ClientReceive, IsSys, Decode, TInv, EndsOK
  <2>3. t \in Nat /\ t <= now /\ k.ping <= t + Ahead[c]
    <3>1. Decode(f).body.time \in Nat
      BY <2>1, LinkAssumption DEF SysBodies
    <3>2. Since(down[c], k.ping, Ahead[c])
      BY DEF KInv
    <3> QED BY <1>1, <1>6, <3>1, <3>2, WayShrinks
  <2>4. n \in Nat /\ k \in Clocks /\ Ahead[c] \in Nat /\ now \in Nat /\ n = now + Ahead[c]
    BY TickIsNat, LinkAssumption DEF TInv, EndsOK, DateNow
  <2> HIDE DEF f, t, n
  <2>5. Synced(c, t) = [k EXCEPT !.pong = n, !.latency = n - k.ping, !.tick = t]
    BY DEF Synced, n
  <2>6. /\ Synced(c, t).ping = k.ping /\ Synced(c, t).pong = n
        /\ Synced(c, t).latency = n - k.ping /\ Synced(c, t).tick = t
    BY <2>4, <2>5 DEF Clocks
  <2>7. k.ping \in Int /\ k.ping <= n
    BY <2>4 DEF Clocks, KInv, n
  <2>8. t + Ahead[c] <= n /\ n <= t + Ahead[c] + (n - k.ping)
    BY <2>3, <2>4, <2>7
  <2>9. clock'[c] = Synced(c, t) /\ \A x \in Clients : x # c => clock'[x] = clock[x]
    BY <2>2 DEF TInv, EndsOK
  <2> SUFFICES ASSUME NEW x \in Clients
               PROVE  /\ clock'[x].ping <= DateNow(x)
                      /\ cli[x] = "new" => up[x] = <<>> /\ NoAnswer(down'[x]) /\ ~shaken'[x]
                      /\ Since(down'[x], clock'[x].ping, Ahead[x])
                      /\ shaken'[x] => /\ clock'[x].tick + Ahead[x] <= clock'[x].pong
                                       /\ clock'[x].pong <= clock'[x].tick + Ahead[x] + clock'[x].latency
    BY <1>1 DEF KInv, Since, DateNow
  <2>10. CASE x = c
    BY <1>1, <1>3, <2>6, <2>7, <2>8, <2>9, <2>10 DEF n
  <2>11. CASE x # c
    BY <1>4, <2>2, <2>9, <2>11 DEF KInv
  <2> QED BY <2>10, <2>11
<1> QED BY <1>5, <1>6

LEMMA NextClock == ASSUME Prompt PROVE TInv /\ KInv /\ [Next]_vars => KInv'
<1> SUFFICES ASSUME TInv, KInv, [Next]_vars PROVE KInv'
  OBVIOUS
<1>1. CASE UNCHANGED vars
  BY <1>1 DEF vars, KInv, Since, DateNow
<1>2. CASE Tick
  BY <1>2, TickClock
<1>3. ASSUME NEW c \in Clients,
             \/ Accept(c) \/ Opened(c) \/ Kick(c) \/ ClientEnds(c) \/ Break(c) \/ Closed(c)
             \/ ServerReceive(c) \/ ClientReceive(c) \/ Ping(c) \/ PingThrows(c)
      PROVE  KInv'
  BY <1>3, EndClock, OpenedClock, ServerReceiveClock, ClientReceiveClock, PingClock
<1>4. ASSUME NEW c \in Clients, NEW p \in Packets, SendPacket(c, p) \/ ClientSend(c, p)
      PROVE  KInv'
  BY <1>4, SendClock, ClientSendClock DEF SendPacket
<1>5. ASSUME NEW S \in SUBSET Clients, NEW except \in Clients, NEW p \in Packets,
             BroadcastPacketWith(S, except, p)
      PROVE  KInv'
  BY <1>5, SendClock DEF BroadcastPacketWith
<1> QED BY <1>1, <1>2, <1>3, <1>4, <1>5 DEF Next

LEMMA BehindOf == TInv /\ KInv => ClockIsBehind
<1> SUFFICES ASSUME TInv, KInv, NEW c \in Clients, shaken[c]
             PROVE  ServerTick(c) <= now /\ now <= ServerTick(c) + clock[c].latency
  BY DEF ClockIsBehind
<1>1. /\ clock[c].tick + Ahead[c] <= clock[c].pong
      /\ clock[c].pong <= clock[c].tick + Ahead[c] + clock[c].latency
  BY DEF KInv
<1>2. clock[c].tick \in Nat /\ clock[c].pong \in Nat /\ clock[c].latency \in Int
      /\ Ahead[c] \in Nat /\ now \in Nat
  BY LinkAssumption DEF TInv, EndsOK, Clocks
<1> QED BY <1>1, <1>2 DEF ServerTick, DateNow

(***************************************************************************)
(* Whatever the clients' clocks and the times on the way: if a ping is     *)
(* answered before the next, a client's tick is at most the server's, and  *)
(* less by no more than the latency it has measured.                       *)
(***************************************************************************)
THEOREM TickIsBehind == ASSUME Prompt PROVE Spec => []ClockIsBehind
<1>1. TInv /\ KInv /\ [Next]_vars => KInv'
  BY NextClock
<1>2. Spec => [](TInv /\ KInv)
  BY <1>1, InitTypes, NextTypes, InitClock, PTL DEF Spec
<1> QED BY <1>2, BehindOf, PTL

-----------------------------------------------------------------------------
(***************************************************************************)
(* The first half of ClockIsBehind needs no order of pings and answers: a  *)
(* client that asks again before it is answered measures a latency that is *)
(* too small, but what it is told was the server's tick before it read it. *)
(***************************************************************************)
NotAhead == \A c \in Clients : shaken[c] => ServerTick(c) <= now

\* No time on its way to a client is to come.
Written(w) == Since(w, 0, 0)
AInv == \A c \in Clients :
    /\ Written(down[c])
    /\ shaken[c] => clock[c].tick + Ahead[c] <= clock[c].pong

\* What is on its way to the clients, when no time passes.
LEMMA WrittenNow ==
    ASSUME TInv, AInv, now' = now, NEW x \in Clients,
           \/ down'[x] = down[x] \/ down'[x] = <<>>
           \/ down[x] # <<>> /\ down'[x] = Tail(down[x])
           \/ \E f \in Frames : /\ down'[x] = Append(down[x], f)
                                /\ IsSys(f) => Decode(f).body.time = now
    PROVE  Written(down'[x]) /\ (Written(down[x]))'
<1>1. down[x] \in Seq(Frames) /\ Written(down[x]) /\ now \in Nat
  BY LinkAssumption DEF TInv, EndsOK, WaysOK, AInv
<1>2. Written(<<>>)
  <2>1. Len(<<>>) = 0 /\ 1..0 = {}
    OBVIOUS
  <2> QED BY <2>1 DEF Written, Since
<1>3. Written(down'[x])
  <2>1. CASE down[x] # <<>> /\ down'[x] = Tail(down[x])
    BY <1>1, <2>1, WayShrinks DEF Written
  <2>2. CASE \E f \in Frames : /\ down'[x] = Append(down[x], f)
                               /\ IsSys(f) => Decode(f).body.time = now
    <3>1. PICK f \in Frames : /\ down'[x] = Append(down[x], f)
                              /\ IsSys(f) => Decode(f).body.time = now
      BY <2>2
    <3>2. IsSys(f) => Decode(f).body.time <= now /\ 0 <= Decode(f).body.time + 0
      BY <1>1, <3>1
    <3> QED BY <1>1, <3>1, <3>2, WayGrows DEF Written
  <2> QED BY <1>1, <1>2, <2>1, <2>2
<1>4. (Written(down[x]))' <=> \A i \in 1..Len(down'[x]) : IsSys(down'[x][i]) =>
         /\ Decode(down'[x][i]).body.time <= now
         /\ 0 <= Decode(down'[x][i]).body.time + 0
  BY DEF Written, Since
<1> QED BY <1>3, <1>4 DEF Written, Since

\* Steps at which no client learns a time.
LEMMA QuietAhead ==
    ASSUME TInv, AInv, UNCHANGED <<now, shaken>>,
           \A x \in Clients : (Written(down[x]))' /\ clock'[x].tick = clock[x].tick
                                                  /\ clock'[x].pong = clock[x].pong
    PROVE  AInv'
  BY DEF AInv

LEMMA TickAhead ==
    ASSUME TInv, AInv, Tick
    PROVE  AInv'
<1>1. now' = now + 1 /\ now \in Nat /\ UNCHANGED <<down, clock, shaken>>
  BY LinkAssumption DEF Tick, TInv, EndsOK
<1>2. ASSUME NEW c \in Clients, NEW i \in 1..Len(down[c]), IsSys(down[c][i])
      PROVE  /\ Decode(down[c][i]).body.time <= now'
             /\ 0 <= Decode(down[c][i]).body.time + 0
  <2> DEFINE t == Decode(down[c][i]).body.time
  <2>1. t <= now
    BY <1>2 DEF AInv, Written, Since
  <2>2. down[c][i] \in Frames
    BY DEF TInv, WaysOK
  <2>3. t \in Nat
    BY <1>2, <2>2, LinkAssumption DEF Frames, SysBodies
  <2> HIDE DEF t
  <2>4. t <= now' /\ 0 <= t + 0
    BY <1>1, <2>1, <2>3
  <2> QED BY <2>4 DEF t
<1> QED BY <1>1, <1>2 DEF AInv, Written, Since

\* A client that reads an answer takes a time that is past.
LEMMA ReceiveAhead ==
    ASSUME TInv, AInv, NEW c \in Clients, ClientReceive(c)
    PROVE  AInv'
<1> DEFINE f == Head(down[c])
<1>1. /\ now' = now /\ down[c] # <<>> /\ down' = [down EXCEPT ![c] = Tail(@)]
      /\ down[c] \in Seq(Frames) /\ down \in [Clients -> Seq(Frames)]
  BY DEF ClientReceive, TInv, WaysOK
<1>2. f \in Frames
  BY <1>1
<1>3. \A x \in Clients : (Written(down[x]))'
  BY <1>1, WrittenNow
<1>4. CASE ~IsSys(f)
  <2>1. UNCHANGED <<clock, shaken>>
    BY <1>4 DEF ClientReceive, IsSys, Decode
  <2> QED BY <1>1, <1>3, <2>1, QuietAhead
<1>5. CASE IsSys(f)
  <2> DEFINE t == Decode(f).body.time
             n == DateNow(c)
  <2>1. Decode(f).body \in SysBodies /\ Decodes(f)
    BY <1>2, <1>5 DEF Frames
  <2>2. clock' = [clock EXCEPT ![c] = Synced(c, t)] /\ \A x \in Clients : x # c => shaken'[x] = shaken[x]
    BY <1>5, <2>1 DEF ClientReceive, IsSys, Decode, TInv, EndsOK
  <2>3. t \in Nat /\ t <= now
    <3>1. Decode(f).body.time \in Nat
      BY <2>1, LinkAssumption DEF SysBodies
    <3>2. Since(down[c], 0, 0)
      BY DEF AInv, Written
    <3> QED BY <1>1, <1>5, <3>1, <3>2, WayShrinks
  <2>4. n \in Nat /\ clock[c] \in Clocks /\ Ahead[c] \in Nat /\ now \in Nat /\ n = now + Ahead[c]
    BY TickIsNat, LinkAssumption DEF TInv, EndsOK, DateNow
  <2> HIDE DEF f, t, n
  <2>5. Synced(c, t) = [clock[c] EXCEPT !.pong = n, !.latency = n - clock[c].ping, !.tick = t]
    BY DEF Synced, n
  <2>6. Synced(c, t).pong = n /\ Synced(c, t).tick = t
    BY <2>4, <2>5 DEF Clocks
  <2>7. t + Ahead[c] <= n
    BY <2>3, <2>4
  <2>8. clock'[c] = Synced(c, t) /\ \A x \in Clients : x # c => clock'[x] = clock[x]
    BY <2>2 DEF TInv, EndsOK
  <2> QED BY <1>3, <2>2, <2>6, <2>7, <2>8 DEF AInv
<1> QED BY <1>4, <1>5

LEMMA NextAhead == TInv /\ AInv /\ [Next]_vars => AInv'
<1> SUFFICES ASSUME TInv, AInv, [Next]_vars PROVE AInv'
  OBVIOUS
<1>1. CASE UNCHANGED vars
  BY <1>1, WrittenNow, QuietAhead DEF vars
<1>2. CASE Tick
  BY <1>2, TickAhead
<1>3. ASSUME NEW c \in Clients,
             Accept(c) \/ Kick(c) \/ ClientEnds(c) \/ Break(c) \/ Closed(c) \/ PingThrows(c)
      PROVE  AInv'
  <2>1. UNCHANGED <<now, clock, shaken>>
    BY <1>3 DEF Accept, Kick, ClientEnds, Break, Closed, PingThrows
  <2>2. \A x \in Clients : down'[x] = down[x] \/ down'[x] = <<>>
    BY <1>3 DEF Accept, Kick, ClientEnds, Break, Closed, PingThrows, TInv, WaysOK
  <2> QED BY <2>1, <2>2, WrittenNow, QuietAhead
<1>4. ASSUME NEW c \in Clients, Opened(c) \/ Ping(c)
      PROVE  AInv'
  <2>1. UNCHANGED <<now, shaken, down>> /\ clock' = [clock EXCEPT ![c].ping = DateNow(c)]
    BY <1>4 DEF Opened, Ping
  <2>2. \A x \in Clients : clock'[x].tick = clock[x].tick /\ clock'[x].pong = clock[x].pong
    BY <2>1 DEF TInv, EndsOK, Clocks
  <2>3. \A x \in Clients : (Written(down[x]))'
    BY <2>1, WrittenNow
  <2> QED BY <2>1, <2>2, <2>3, QuietAhead
<1>5. ASSUME NEW c \in Clients, ServerReceive(c)
      PROVE  AInv'
  <2>1. UNCHANGED <<now, clock, shaken>>
    BY <1>5 DEF ServerReceive
  <2>2. \A x \in Clients : down'[x] = down[x] \/
           \E g \in Frames : /\ down'[x] = Append(down[x], g)
                             /\ IsSys(g) => Decode(g).body.time = now
    <3>1. down' = down \/ \E g \in Frames : /\ down' = [down EXCEPT ![c] = Append(down[c], g)]
                                            /\ IsSys(g) /\ Decode(g).body.time = now
      BY <1>5, AnswerDown
    <3>2. down \in [Clients -> Seq(Frames)]
      BY DEF TInv, WaysOK
    <3> QED BY <3>1, <3>2
  <2> QED BY <2>1, <2>2, WrittenNow, QuietAhead
<1>6. ASSUME NEW c \in Clients, ClientReceive(c)
      PROVE  AInv'
  BY <1>6, ReceiveAhead
<1>7. ASSUME NEW c \in Clients, NEW p \in Packets, ClientSend(c, p)
      PROVE  AInv'
  <2>1. UNCHANGED <<now, clock, shaken, down>>
    BY <1>7 DEF ClientSend
  <2> QED BY <2>1, WrittenNow, QuietAhead
<1>8. ASSUME NEW S \in SUBSET Clients, NEW p \in Packets, Send(S, p)
      PROVE  AInv'
  <2>1. UNCHANGED <<now, clock, shaken>>
    BY <1>8 DEF Send
  <2> QED BY <1>8, <2>1, SendDown, WrittenNow, QuietAhead
<1>9. ASSUME NEW c \in Clients, NEW p \in Packets, SendPacket(c, p) PROVE AInv'
  BY <1>8, <1>9 DEF SendPacket
<1>10. ASSUME NEW S \in SUBSET Clients, NEW except \in Clients, NEW p \in Packets,
              BroadcastPacketWith(S, except, p)
       PROVE  AInv'
  BY <1>8, <1>10 DEF BroadcastPacketWith
<1> QED BY <1>1, <1>2, <1>3, <1>4, <1>5, <1>6, <1>7, <1>9, <1>10 DEF Next

(***************************************************************************)
(* A client never takes the server's tick for more than it is              *)
(* (wsconnecter_nodeimpl.ts, server_tick), however many pings it sends     *)
(* before it is answered and however long the answers are on their way.    *)
(***************************************************************************)
THEOREM TickIsNotAhead == Spec => []NotAhead
<1>1. Init => AInv
  <2> SUFFICES ASSUME Init, NEW c \in Clients PROVE Written(down[c]) /\ ~shaken[c]
    BY DEF AInv
  <2>1. ~shaken[c] /\ down[c] = <<>>
    BY DEF Init
  <2>2. Len(<<>>) = 0 /\ 1..0 = {}
    OBVIOUS
  <2> QED BY <2>1, <2>2 DEF Written, Since
<1>2. TInv /\ AInv => NotAhead
  <2> SUFFICES ASSUME TInv, AInv, NEW c \in Clients, shaken[c] PROVE ServerTick(c) <= now
    BY DEF NotAhead
  <2>1. clock[c].tick + Ahead[c] <= clock[c].pong
    BY DEF AInv
  <2>2. clock[c].tick \in Nat /\ clock[c].pong \in Nat /\ Ahead[c] \in Nat /\ now \in Nat
    BY LinkAssumption DEF TInv, EndsOK, Clocks
  <2> QED BY <2>1, <2>2 DEF ServerTick, DateNow
<1>3. Spec => [](TInv /\ AInv)
  BY <1>1, InitTypes, NextTypes, NextAhead, PTL DEF Spec
<1> QED BY <1>2, <1>3, PTL
=============================================================================
