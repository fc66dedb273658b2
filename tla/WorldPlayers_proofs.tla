-------------------------- MODULE WorldPlayers_proofs --------------------------
(***************************************************************************)
(* WorldPlayers, for any users, sessions, maps, workers, changes and ends  *)
(* of the process: the types; the instance ids and the index of a map; and *)
(* that no worker begins with documents that another one has yet to write, *)
(* as long as no connection closes while its player is created.            *)
(***************************************************************************)
EXTENDS WorldPlayers, SequenceTheorems, TLAPS

Cmds == [kind : {"flush", "leave", "read", "close"}, sid : Sids, doc : Doc]
Map == [players : [Users -> Sids \cup {NoSid}], sids : SUBSET Sids, free : Seq(Nat), seed : Nat]
Seen == [inst : Nat, user : Users, ver : Nat]
Zone == [maps : [Maps -> Map], on : [Sids -> Maps \cup {NoMap}], inst : [Sids -> Nat],
         ver : [Sids -> Nat], view : [Sids -> SUBSET Seen]]

\* A command on its way is its session's worker's, and says how far the session is.
Due(kind) == CASE kind = "flush" -> {"in", "leaving", "closing"}
               [] kind = "leave" -> {"leaving"}
               [] kind = "read"  -> {"entering", "reading"}
               [] kind = "close" -> {"closing"}
Fits(w, c) == worker[c.sid] = w /\ at[c.sid] \in Due(c.kind)
InWire == \A w \in Services : \A c \in Range(wire[w]) : Fits(w, c)

\* Of one session there is a flush and what is behind it at most.
Behind(c, d) == c.sid = d.sid => c.kind = "flush" /\ d.kind # "flush"
Ordered(q) == \A w \in Services : \A i, j \in DOMAIN q[w] : i < j => Behind(q[w][i], q[w][j])

SesOK ==
    /\ at \in [Sids -> Places] /\ worker \in [Sids -> Services] /\ gone \in [Sids -> BOOLEAN]
    /\ asked \in [Sids -> Services] /\ mem \in [Sids -> Doc \cup {NoDoc}]
    /\ \A s \in Sids : Holds(s) <=> mem[s] # NoDoc
DataOK ==
    /\ db \in [Users -> Doc] /\ bound \in [Users -> BOOLEAN] /\ latest \in [Users -> Nat]
    /\ exits \in Nat
WireOK ==
    /\ wire \in [Services -> Seq(Cmds)] /\ InWire /\ Ordered(wire)
ZoneOK ==
    /\ zone \in Zone
    /\ \A s \in Sids : zone.on[s] # NoMap <=> at[s] = "in"

TInv == SesOK /\ DataOK /\ WireOK /\ ZoneOK

LEMMA TypesOf == TInv => TypeOK
BY DEF TInv, SesOK, DataOK, WireOK, ZoneOK, Zone, Cmds, TypeOK

LEMMA Facts ==
    /\ NoSid \notin Sids /\ NoMap \notin Maps /\ Out \notin Workers
    /\ UserOf \in [Sids -> Users] /\ WorkerOf \in [Maps -> Workers] /\ FirstMap \in [Users -> Maps]
    /\ Workers \subseteq Services /\ Out \in Services /\ NoWorker \in Services
    /\ NoDoc \notin Doc
    /\ \A m \in Maps, v \in Nat : [map |-> m, ver |-> v] \in Doc
    /\ \A d \in Doc : d.map \in Maps /\ d.ver \in Nat
    /\ \A k \in {"flush", "leave", "read", "close"}, s \in Sids, d \in Doc :
          Cmd(k, s, d) \in Cmds /\ Cmd(k, s, d).kind = k /\ Cmd(k, s, d).sid = s /\ Cmd(k, s, d).doc = d
BY WorldAssumption DEF Services, NoWorker, NoDoc, Doc, Cmd, Cmds

-----------------------------------------------------------------------------
\* The zone keeps its type, and who comes on or off is the session at hand.
LEMMA SeeType ==
    ASSUME NEW i \in Nat, NEW u \in Users, NEW n \in Nat
    PROVE  See(i, u, n) \in Seen
BY DEF See, Seen

LEMMA InstidType ==
    ASSUME NEW map \in Map
    PROVE  /\ Instid(map) \in Nat
           /\ (IF map.free # <<>> THEN Front(map.free) ELSE <<>>) \in Seq(Nat)
<1>1. map.free \in Seq(Nat) /\ map.seed \in Nat
    BY DEF Map
<1>2. CASE map.free = <<>>
    BY <1>1, <1>2 DEF Instid
<1>3. CASE map.free # <<>>
    <2>1. Len(map.free) \in DOMAIN map.free /\ Len(map.free) - 1 \in 0..Len(map.free)
        BY <1>1, <1>3
    <2>2. map.free[Len(map.free)] \in Nat
        BY <1>1, <2>1
    <2>3. SubSeq(map.free, 1, Len(map.free) - 1) \in Seq(Nat)
        BY <1>1, <2>1
    <2> QED BY <1>3, <2>2, <2>3 DEF Instid, Last, Front
<1> QED BY <1>2, <1>3

LEMMA AddedType ==
    ASSUME NEW z \in Zone, NEW s \in Sids, NEW m \in Maps
    PROVE  Added(z, s, m) \in Zone /\ Added(z, s, m).on = [z.on EXCEPT ![s] = m]
<1> DEFINE map == z.maps[m]
           u == UserOf[s]
           i == Instid(map)
           others == {map.players[v] : v \in Users} \ {NoSid}
           infos == {See(z.inst[t], UserOf[t], z.ver[t]) : t \in others}
           f == IF map.free # <<>> THEN Front(map.free) ELSE <<>>
           e == IF map.free # <<>> THEN map.seed ELSE map.seed + 1
           new == [players |-> [map.players EXCEPT ![u] = s], sids |-> map.sids \cup {s},
                   free |-> f, seed |-> e]
           view == [t \in Sids |-> IF t = s THEN Forget(infos, i)
                                   ELSE IF t \in map.sids THEN Forget(z.view[t], i) \cup {See(i, u, z.ver[s])}
                                   ELSE z.view[t]]
<1>1. Added(z, s, m) = [maps |-> [z.maps EXCEPT ![m] = new], on |-> [z.on EXCEPT ![s] = m],
                        inst |-> [z.inst EXCEPT ![s] = i], ver |-> z.ver, view |-> view]
    BY DEF Added
<1>2. map \in Map /\ u \in Users /\ i \in Nat /\ f \in Seq(Nat)
    BY Facts, InstidType DEF Zone
<1>3. e \in Nat
    BY <1>2 DEF Map
<1>4. new \in Map
    <2>1. [map.players EXCEPT ![u] = s] \in [Users -> Sids \cup {NoSid}]
        BY <1>2 DEF Map
    <2>2. map.sids \cup {s} \in SUBSET Sids
        BY <1>2 DEF Map
    <2> HIDE DEF map, u, f, e
    <2> QED BY <1>2, <1>3, <2>1, <2>2 DEF Map
<1>5. view \in [Sids -> SUBSET Seen]
    <2>1. others \subseteq Sids
        BY <1>2 DEF Map
    <2>2. infos \subseteq Seen
        BY <2>1, SeeType, Facts DEF Zone
    <2>3. See(i, u, z.ver[s]) \in Seen
        BY <1>2, SeeType DEF Zone
    <2> HIDE DEF infos, i, u, map
    <2> QED BY <2>2, <2>3 DEF Forget, Zone
<1> HIDE DEF new, view, i
<1>6. /\ [z.maps EXCEPT ![m] = new] \in [Maps -> Map]
      /\ [z.on EXCEPT ![s] = m] \in [Sids -> Maps \cup {NoMap}]
      /\ [z.inst EXCEPT ![s] = i] \in [Sids -> Nat] /\ z.ver \in [Sids -> Nat]
    BY <1>2, <1>4 DEF Zone
<1> QED BY <1>1, <1>5, <1>6 DEF Zone

LEMMA RemovedType ==
    ASSUME NEW z \in Zone, NEW s \in Sids
    PROVE  Removed(z, s) \in Zone /\ Removed(z, s).on = [z.on EXCEPT ![s] = NoMap]
<1>1. CASE z.on[s] = NoMap
    <2>1. Removed(z, s) = z
        BY <1>1 DEF Removed
    <2>2. z.on = [z.on EXCEPT ![s] = NoMap]
        BY <1>1 DEF Zone
    <2> QED BY <2>1, <2>2
<1>2. CASE z.on[s] # NoMap
    <2> DEFINE m == z.on[s]
               map == z.maps[m]
               new == [players |-> [map.players EXCEPT ![UserOf[s]] = NoSid], sids |-> map.sids \ {s},
                       free |-> Append(map.free, z.inst[s]), seed |-> map.seed]
               view == [t \in Sids |-> IF t = s THEN {} ELSE IF t \in map.sids
                                       THEN Forget(z.view[t], z.inst[s]) ELSE z.view[t]]
    <2>1. Removed(z, s) = [z EXCEPT !.maps = [z.maps EXCEPT ![m] = new], !.on = [z.on EXCEPT ![s] = NoMap],
                                    !.inst = [z.inst EXCEPT ![s] = 0], !.view = view]
        BY <1>2 DEF Removed
    <2>2. m \in Maps /\ map \in Map /\ z.inst[s] \in Nat
        BY <1>2 DEF Zone
    <2>3. new \in Map
        <3>1. [map.players EXCEPT ![UserOf[s]] = NoSid] \in [Users -> Sids \cup {NoSid}]
            BY <2>2 DEF Map
        <3>2. map.sids \ {s} \in SUBSET Sids /\ Append(map.free, z.inst[s]) \in Seq(Nat) /\ map.seed \in Nat
            BY <2>2 DEF Map
        <3> HIDE DEF map
        <3> QED BY <3>1, <3>2 DEF Map
    <2>4. view \in [Sids -> SUBSET Seen]
        BY DEF Forget, Zone
    <2> HIDE DEF new, view
    <2>5. /\ [z.maps EXCEPT ![m] = new] \in [Maps -> Map]
          /\ [z.on EXCEPT ![s] = NoMap] \in [Sids -> Maps \cup {NoMap}]
          /\ [z.inst EXCEPT ![s] = 0] \in [Sids -> Nat]
        BY <2>2, <2>3 DEF Zone
    <2> QED BY <2>1, <2>4, <2>5 DEF Zone
<1> QED BY <1>1, <1>2

LEMMA GoneType ==
    ASSUME NEW z \in Zone, NEW s \in Sids
    PROVE  Gone(z, s) \in Zone /\ Gone(z, s).on = [z.on EXCEPT ![s] = NoMap]
<1> DEFINE r == Removed(z, s)
<1>1. r \in Zone /\ r.on = [z.on EXCEPT ![s] = NoMap]
    BY RemovedType
<1>2. Gone(z, s) = [r EXCEPT !.ver = [r.ver EXCEPT ![s] = 0]]
    BY DEF Gone
<1> HIDE DEF r
<1>3. [r.ver EXCEPT ![s] = 0] \in [Sids -> Nat]
    BY <1>1 DEF Zone
<1> QED BY <1>1, <1>2, <1>3 DEF Zone

LEMMA ChangedType ==
    ASSUME NEW z \in Zone, NEW s \in Sids
    PROVE  Changed(z, s) \in Zone /\ Changed(z, s).on = z.on
<1> DEFINE n == z.ver[s] + 1
           view == [t \in Sids |-> IF t \in z.maps[z.on[s]].sids
                                   THEN {IF e.user = UserOf[s] THEN [e EXCEPT !.ver = n] ELSE e : e \in z.view[t]}
                                   ELSE z.view[t]]
<1>1. n \in Nat
    BY DEF Zone
<1>2. Changed(z, s) = [z EXCEPT !.ver = [z.ver EXCEPT ![s] = n], !.view = view]
    BY DEF Changed
<1>3. view \in [Sids -> SUBSET Seen]
    <2>1. \A e \in Seen : [e EXCEPT !.ver = n] \in Seen
        BY <1>1 DEF Seen
    <2> HIDE DEF n
    <2>2. \A t \in Sids : {IF e.user = UserOf[s] THEN [e EXCEPT !.ver = n] ELSE e : e \in z.view[t]} \subseteq Seen
        BY <2>1 DEF Zone
    <2> QED BY <2>2 DEF Zone
<1> HIDE DEF view, n
<1>4. [z.ver EXCEPT ![s] = n] \in [Sids -> Nat]
    BY <1>1 DEF Zone
<1> QED BY <1>2, <1>3, <1>4 DEF Zone

LEMMA NewZoneType == NewZone \in Zone /\ \A s \in Sids : NewZone.on[s] = NoMap
<1>1. NewMap \in Map
    BY DEF NewMap, Map
<1> QED BY <1>1 DEF NewZone, Zone

-----------------------------------------------------------------------------
\* Commands are sent behind the others, and reach Redis from the front.
Landed(q, w) == [q EXCEPT ![w] = Tail(q[w])]
Sent(q, w, c) == [q EXCEPT ![w] = Append(q[w], c)]

LEMMA AtFront ==
    ASSUME NEW q \in [Services -> Seq(Cmds)], Ordered(q), NEW w \in Services, q[w] # <<>>
    PROVE  /\ Landed(q, w) \in [Services -> Seq(Cmds)] /\ Ordered(Landed(q, w))
           /\ \A v \in Services : Range(Landed(q, w)[v]) \subseteq Range(q[v])
           /\ Head(q[w]) \in Range(q[w]) /\ Head(q[w]) \in Cmds
           /\ \A c \in Range(Landed(q, w)[w]) : Behind(Head(q[w]), c)
           /\ \A v \in Services : Range(q[v]) \subseteq Range(Landed(q, w)[v]) \cup {Head(q[w])}
<1> DEFINE r == Landed(q, w)
<1>1. /\ q[w] \in Seq(Cmds) /\ 1 \in DOMAIN q[w] /\ Head(q[w]) = q[w][1] /\ Tail(q[w]) \in Seq(Cmds)
      /\ \A i \in DOMAIN Tail(q[w]) : /\ i + 1 \in DOMAIN q[w] /\ Tail(q[w])[i] = q[w][i + 1]
                                      /\ i \in Nat /\ 1 < i + 1
      /\ \A i \in DOMAIN q[w] : i = 1 \/ (i - 1 \in DOMAIN Tail(q[w]) /\ Tail(q[w])[i - 1] = q[w][i])
    OBVIOUS
<1>2. r \in [Services -> Seq(Cmds)] /\ r[w] = Tail(q[w]) /\ \A v \in Services \ {w} : r[v] = q[v]
    BY <1>1 DEF Landed
<1> HIDE DEF r
<1>3. Ordered(r)
    <2> SUFFICES ASSUME NEW v \in Services, NEW i \in DOMAIN r[v], NEW j \in DOMAIN r[v], i < j
                 PROVE  Behind(r[v][i], r[v][j])
        BY DEF Ordered
    <2>1. CASE v = w
        <3>1. i + 1 < j + 1 /\ i + 1 \in DOMAIN q[w] /\ j + 1 \in DOMAIN q[w]
            BY <1>1, <1>2, <2>1
        <3>2. Behind(q[w][i + 1], q[w][j + 1])
            BY <3>1 DEF Ordered
        <3> QED BY <1>1, <1>2, <2>1, <3>2
    <2>2. CASE v # w
        BY <1>2, <2>2 DEF Ordered
    <2> QED BY <2>1, <2>2
<1>4. \A c \in Range(r[w]) : c \in Range(q[w]) /\ Behind(Head(q[w]), c)
    <2> SUFFICES ASSUME NEW i \in DOMAIN r[w] PROVE r[w][i] \in Range(q[w]) /\ Behind(Head(q[w]), r[w][i])
        BY DEF Range
    <2>1. i + 1 \in DOMAIN q[w] /\ r[w][i] = q[w][i + 1] /\ 1 < i + 1
        BY <1>1, <1>2
    <2>2. Behind(q[w][1], q[w][i + 1])
        BY <1>1, <2>1 DEF Ordered
    <2> QED BY <1>1, <2>1, <2>2 DEF Range
<1>5. Range(q[w]) \subseteq Range(r[w]) \cup {Head(q[w])}
    <2> SUFFICES ASSUME NEW i \in DOMAIN q[w] PROVE q[w][i] \in Range(r[w]) \cup {Head(q[w])}
        BY DEF Range
    <2>1. CASE i = 1
        BY <1>1, <2>1
    <2>2. CASE i # 1
        <3>1. i - 1 \in DOMAIN r[w] /\ r[w][i - 1] = q[w][i]
            BY <1>1, <1>2, <2>2
        <3> QED BY <3>1 DEF Range
    <2> QED BY <2>1, <2>2
<1>6. Head(q[w]) \in Cmds /\ Head(q[w]) \in Range(q[w])
    BY <1>1 DEF Range
<1>7. \A v \in Services : Range(r[v]) \subseteq Range(q[v]) /\ Range(q[v]) \subseteq Range(r[v]) \cup {Head(q[w])}
    <2> SUFFICES ASSUME NEW v \in Services
                 PROVE  Range(r[v]) \subseteq Range(q[v]) /\ Range(q[v]) \subseteq Range(r[v]) \cup {Head(q[w])}
        OBVIOUS
    <2>1. CASE v = w
        BY <1>4, <1>5, <2>1
    <2>2. CASE v # w
        BY <1>2, <2>2
    <2> QED BY <2>1, <2>2
<1> QED BY <1>2, <1>3, <1>4, <1>6, <1>7 DEF r

LEMMA AtBack ==
    ASSUME NEW q \in [Services -> Seq(Cmds)], Ordered(q), NEW w \in Services, NEW c \in Cmds,
           \A d \in Range(q[w]) : Behind(d, c)
    PROVE  /\ Sent(q, w, c) \in [Services -> Seq(Cmds)] /\ Ordered(Sent(q, w, c))
           /\ \A d : d \in Range(Sent(q, w, c)[w]) <=> d \in Range(q[w]) \/ d = c
           /\ \A v \in Services \ {w} : Sent(q, w, c)[v] = q[v]
<1> DEFINE n == Len(q[w])
           r == Sent(q, w, c)
<1>1. /\ q[w] \in Seq(Cmds) /\ n \in Nat /\ DOMAIN q[w] = 1..n
      /\ DOMAIN Append(q[w], c) = 1..(n + 1) /\ Append(q[w], c)[n + 1] = c
      /\ \A i \in 1..n : Append(q[w], c)[i] = q[w][i]
    OBVIOUS
<1>2. /\ r \in [Services -> Seq(Cmds)] /\ r[w] = Append(q[w], c)
      /\ \A v \in Services \ {w} : r[v] = q[v]
    BY DEF Sent
<1> HIDE DEF n, r
<1>3. Ordered(r)
    <2> SUFFICES ASSUME NEW v \in Services, NEW i \in DOMAIN r[v], NEW j \in DOMAIN r[v], i < j
                 PROVE  Behind(r[v][i], r[v][j])
        BY DEF Ordered
    <2>1. CASE v = w /\ j = n + 1
        <3>1. i \in 1..n /\ r[v][i] = q[w][i] /\ r[v][j] = c
            BY <1>1, <1>2, <2>1
        <3> QED BY <1>1, <3>1 DEF Range
    <2>2. CASE v = w /\ j # n + 1
        <3>1. i \in 1..n /\ j \in 1..n /\ r[v][i] = q[w][i] /\ r[v][j] = q[w][j]
            BY <1>1, <1>2, <2>2
        <3> QED BY <1>1, <3>1 DEF Ordered
    <2>3. CASE v # w
        BY <1>2, <2>3 DEF Ordered
    <2> QED BY <2>1, <2>2, <2>3
<1>4. \A d : d \in Range(r[w]) <=> d \in Range(q[w]) \/ d = c
    <2>1. \A i \in 1..(n + 1) : i \in 1..n \/ i = n + 1
        BY <1>1
    <2>2. 1..n \subseteq 1..(n + 1) /\ n + 1 \in 1..(n + 1)
        BY <1>1
    <2> QED BY <1>1, <1>2, <2>1, <2>2 DEF Range
<1> QED BY <1>2, <1>3, <1>4 DEF r

LEMMA RangeType == TInv => \A w \in Services : \A c \in Range(wire[w]) :
    /\ c \in Cmds /\ Fits(w, c)
    /\ c.sid \in Sids /\ c.doc \in Doc /\ c.kind \in {"flush", "leave", "read", "close"}
<1> SUFFICES ASSUME TInv, NEW w \in Services, NEW c \in Range(wire[w])
             PROVE  c \in Cmds /\ Fits(w, c)
    BY DEF Cmds
<1>1. wire[w] \in Seq(Cmds) /\ Fits(w, c)
    BY DEF TInv, WireOK, InWire
<1>2. PICK i \in DOMAIN wire[w] : c = wire[w][i]
    BY DEF Range
<1> QED BY <1>1, <1>2

\* Nothing is sent: no session with a command on its way goes on.
LEMMA StillWire ==
    ASSUME TInv, wire' = wire,
           \A w \in Services : \A c \in Range(wire[w]) :
               worker'[c.sid] = worker[c.sid] /\ (at'[c.sid] = at[c.sid])
    PROVE  WireOK'
BY DEF TInv, WireOK, InWire, Fits, Ordered, Range

LEMMA SendWire ==
    ASSUME TInv, NEW w \in Services, NEW c \in Cmds, Send(w, c), Fits(w, c)',
           \A d \in Range(wire[w]) : Behind(d, c),
           \A v \in Services : \A d \in Range(wire[v]) : Fits(v, d)'
    PROVE  /\ WireOK'
           /\ \A d : d \in Range(wire'[w]) <=> d \in Range(wire[w]) \/ d = c
           /\ \A v \in Services \ {w} : wire'[v] = wire[v]
<1>1. wire \in [Services -> Seq(Cmds)] /\ Ordered(wire) /\ wire' = Sent(wire, w, c)
    BY DEF TInv, WireOK, Send, Sent
<1>2. /\ wire' \in [Services -> Seq(Cmds)] /\ Ordered(wire')
      /\ \A d : d \in Range(wire'[w]) <=> d \in Range(wire[w]) \/ d = c
      /\ \A v \in Services \ {w} : wire'[v] = wire[v]
    <2> DEFINE r == Sent(wire, w, c)
    <2>1. /\ wire \in [Services -> Seq(Cmds)] /\ Ordered(wire)
          /\ \A d \in Range(wire[w]) : Behind(d, c)
        BY <1>1
    <2>2. r \in [Services -> Seq(Cmds)]
        BY <2>1, AtBack
    <2>3. Ordered(r)
        BY <2>1, AtBack
    <2>4. \A d : d \in Range(r[w]) <=> d \in Range(wire[w]) \/ d = c
        BY <2>1, AtBack
    <2>5. \A v \in Services \ {w} : r[v] = wire[v]
        BY <2>1, AtBack
    <2>6. wire' = r
        BY <1>1
    <2> HIDE DEF r
    <2> QED BY <2>2, <2>3, <2>4, <2>5, <2>6 DEF Ordered
<1>3. InWire'
    <2> SUFFICES ASSUME NEW v \in Services, NEW d \in Range(wire'[v]) PROVE Fits(v, d)'
        BY DEF InWire
    <2>1. CASE v = w
        BY <1>2, <2>1
    <2>2. CASE v # w
        BY <1>2, <2>2
    <2> QED BY <2>1, <2>2
<1> QED BY <1>2, <1>3 DEF WireOK, Ordered

LEMMA LandFacts ==
    ASSUME TInv, NEW w \in Services, wire[w] # <<>>, wire' = [wire EXCEPT ![w] = Tail(@)]
    PROVE  /\ wire' = Landed(wire, w) /\ Landed(wire, w) \in [Services -> Seq(Cmds)]
           /\ Ordered(Landed(wire, w))
           /\ \A v \in Services : Range(Landed(wire, w)[v]) \subseteq Range(wire[v])
           /\ \A c \in Range(Landed(wire, w)[w]) : Behind(Head(wire[w]), c)
           /\ Head(wire[w]) \in Range(wire[w])
           /\ \A v \in Services : \A d \in Range(wire[v]) :
                 d \in Range(Landed(wire, w)[v]) \/ d = Head(wire[w])
<1>1. wire \in [Services -> Seq(Cmds)] /\ Ordered(wire)
    BY DEF TInv, WireOK
<1>2. wire' = Landed(wire, w)
    BY <1>1 DEF Landed
<1>3. Landed(wire, w) \in [Services -> Seq(Cmds)] /\ Ordered(Landed(wire, w))
    BY <1>1, AtFront
<1>4. \A v \in Services : Range(Landed(wire, w)[v]) \subseteq Range(wire[v])
    BY <1>1, AtFront
<1>5. \A c \in Range(Landed(wire, w)[w]) : Behind(Head(wire[w]), c)
    BY <1>1, AtFront
<1>6. Head(wire[w]) \in Range(wire[w])
    BY <1>1, AtFront
<1>7. \A v \in Services : Range(wire[v]) \subseteq Range(Landed(wire, w)[v]) \cup {Head(wire[w])}
    BY <1>1, AtFront
<1> QED BY <1>2, <1>3, <1>4, <1>5, <1>6, <1>7

\* What is left when a command has landed fits, if it did and its session, when it
\* is another one, has not gone on; behind a flush there is nothing of its session
\* that the flush would make wrong.
LEMMA LandWire ==
    ASSUME TInv, NEW w \in Services, wire[w] # <<>>, wire' = [wire EXCEPT ![w] = Tail(@)],
           worker' = worker, \A s \in Sids : s # Head(wire[w]).sid => at'[s] = at[s],
           Head(wire[w]).kind = "flush" => at' = at
    PROVE  WireOK'
<1> DEFINE r == Landed(wire, w)
           h == Head(wire[w])
<1>1. /\ wire' = r /\ r \in [Services -> Seq(Cmds)] /\ Ordered(r)
      /\ \A v \in Services : Range(r[v]) \subseteq Range(wire[v])
      /\ \A c \in Range(r[w]) : Behind(h, c) /\ h \in Range(wire[w])
    BY LandFacts
<1>2. ASSUME NEW v \in Services, NEW d \in Range(r[v]) PROVE Fits(v, d)'
    <2>1. d \in Range(wire[v]) /\ Fits(v, d) /\ d.sid \in Sids
        BY <1>1, <1>2, RangeType
    <2>2. h \in Range(wire[w]) /\ Fits(w, h)
        BY LandFacts, RangeType
    <2>3. CASE h.kind = "flush"
        BY <2>1, <2>3 DEF Fits
    <2>4. CASE h.kind # "flush" /\ v = w
        <3>1. d.sid # h.sid
            BY <1>1, <1>2, <2>4 DEF Behind
        <3> QED BY <2>1, <3>1 DEF Fits
    <2>5. CASE v # w
        <3>1. d.sid # h.sid
            BY <2>1, <2>2, <2>5 DEF Fits
        <3> QED BY <2>1, <3>1 DEF Fits
    <2> QED BY <2>3, <2>4, <2>5
<1> HIDE DEF r, h
<1> QED BY <1>1, <1>2 DEF WireOK, InWire, Ordered

\* How far a session with a command on its way can be.
LEMMA OnWire ==
    ASSUME TInv, NEW w \in Services, NEW c \in Range(wire[w])
    PROVE  /\ c.sid \in Sids /\ worker[c.sid] = w /\ c.doc \in Doc
           /\ at[c.sid] \in {"in", "leaving", "closing", "entering", "reading"}
           /\ at[c.sid] = "in" => c.kind = "flush"
           /\ c.kind = "flush" => at[c.sid] \in {"in", "leaving", "closing"}
           /\ c.kind = "leave" => at[c.sid] = "leaving"
           /\ c.kind = "read" => at[c.sid] \in {"entering", "reading"}
           /\ c.kind = "close" => at[c.sid] = "closing"
BY RangeType DEF Fits, Due

-----------------------------------------------------------------------------
LEMMA InitTypes == Init => TInv
<1> SUFFICES ASSUME Init PROVE TInv
    OBVIOUS
<1>1. /\ \A u \in Users : [map |-> FirstMap[u], ver |-> 0] \in Doc
      /\ Out \in Services /\ NoWorker \in Services
    BY Facts
<1>2. SesOK
    BY <1>1 DEF Init, SesOK, Places, Holds
<1>3. DataOK
    BY <1>1 DEF Init, DataOK
<1>4. WireOK
    BY DEF Init, WireOK, InWire, Ordered, Range
<1>5. ZoneOK
    BY NewZoneType DEF Init, ZoneOK
<1> QED BY <1>2, <1>3, <1>4, <1>5 DEF TInv

\* A session comes to another place, with other documents or none.
LEMMA SesTypes ==
    ASSUME TInv, NEW s \in Sids, NEW p \in Places, NEW d \in Doc \cup {NoDoc},
           at' = [at EXCEPT ![s] = p], mem' = [mem EXCEPT ![s] = d],
           p \in {"out", "firstin", "in", "lost"} <=> d # NoDoc,
           worker' \in [Sids -> Services], gone' \in [Sids -> BOOLEAN], asked' \in [Sids -> Services]
    PROVE  SesOK'
BY DEF TInv, SesOK, Holds

LEMMA HeldDoc == TInv => \A s \in Sids : Holds(s) <=> mem[s] \in Doc
BY Facts DEF TInv, SesOK

LEMMA LogInTypes ==
    ASSUME TInv, NEW s \in Sids, LogIn(s)
    PROVE  TInv'
<1>1. db[UserOf[s]] \in Doc /\ db[UserOf[s]] # NoDoc
    BY Facts DEF TInv, DataOK
<1>2. SesOK'
    BY <1>1, SesTypes DEF LogIn, Places, TInv, SesOK
<1>3. WireOK'
    <2>1. \A w \in Services : \A c \in Range(wire[w]) : c.sid # s /\ c.sid \in Sids
        BY OnWire DEF LogIn
    <2> QED BY <2>1, StillWire DEF LogIn, TInv, SesOK
<1>4. DataOK'
    BY Facts DEF LogIn, TInv, DataOK
<1>5. ZoneOK'
    BY DEF LogIn, TInv, ZoneOK, SesOK
<1> QED BY <1>2, <1>3, <1>4, <1>5 DEF TInv

LEMMA AskTypes ==
    ASSUME TInv, NEW s \in Sids, EnterGame(s) \/ Disconnect(s)
    PROVE  TInv'
<1>1. WireOK'
    BY StillWire DEF EnterGame, Disconnect
<1>2. CASE EnterGame(s)
    <2>1. mem[s] \in Doc
        BY <1>2, HeldDoc DEF EnterGame, Holds
    <2>2. WorkerOf[mem[s].map] \in Services
        BY <2>1, Facts
    <2>3. SesOK'
        BY <1>2, <2>2 DEF EnterGame, TInv, SesOK, Holds
    <2> QED BY <1>1, <1>2, <2>3 DEF EnterGame, TInv, DataOK, ZoneOK
<1>3. CASE Disconnect(s)
    <2>1. SesOK'
        BY <1>3 DEF Disconnect, TInv, SesOK, Holds
    <2> QED BY <1>1, <1>3, <2>1 DEF Disconnect, TInv, DataOK, ZoneOK
<1> QED BY <1>2, <1>3

\* The player goes off its map and out of the memory, with a last flush.
LEMMA LastFlush ==
    ASSUME TInv, NEW s \in Sids, at[s] \in {"out", "in", "lost"},
           NEW kind \in {"leave", "close"}, NEW p, p = IF kind = "leave" THEN "leaving" ELSE "closing",
           at' = [at EXCEPT ![s] = p], zone' = Gone(zone, s), Send(worker[s], Cmd(kind, s, mem[s])),
           mem' = [mem EXCEPT ![s] = NoDoc], gone' \in [Sids -> BOOLEAN],
           UNCHANGED <<worker, asked, db, bound, latest, exits>>
    PROVE  /\ TInv'
           /\ worker[s] \in Services /\ Cmd(kind, s, mem[s]) \in Cmds
           /\ \A d : d \in Range(wire'[worker[s]]) <=> d \in Range(wire[worker[s]]) \/ d = Cmd(kind, s, mem[s])
           /\ \A v \in Services \ {worker[s]} : wire'[v] = wire[v]
<1>0. PICK w, c : w = worker[s] /\ c = Cmd(kind, s, mem[s])
    OBVIOUS
<1>1. mem[s] \in Doc /\ w \in Services
    BY <1>0, HeldDoc DEF Holds, TInv, SesOK
<1>2. c \in Cmds /\ c.kind = kind /\ c.sid = s /\ c.doc = mem[s] /\ w = worker[s]
    BY <1>0, <1>1, Facts
<1>9. Send(w, c)
    BY <1>0
<1>3. at'[s] = p /\ (\A r \in Sids \ {s} : at'[r] = at[r]) /\ p \in Places
      /\ (kind = "leave" => p = "leaving") /\ (kind = "close" => p = "closing")
    BY DEF TInv, SesOK, Places
<1>4. SesOK'
    BY <1>3, SesTypes DEF TInv, SesOK
<1>5. Fits(w, c)'
    BY <1>0, <1>2, <1>3 DEF Fits, Due
<1>6. \A v \in Services : \A d \in Range(wire[v]) : d.sid = s => d.kind = "flush" /\ v = w
    BY <1>2, OnWire
<1>7. \A d \in Range(wire[w]) : Behind(d, c)
    BY <1>1, <1>2, <1>6 DEF Behind
<1>8. \A v \in Services : \A d \in Range(wire[v]) : Fits(v, d)'
    <2> SUFFICES ASSUME NEW v \in Services, NEW d \in Range(wire[v]) PROVE Fits(v, d)'
        OBVIOUS
    <2>1. Fits(v, d) /\ d.sid \in Sids
        BY RangeType
    <2>2. CASE d.sid = s
        BY <1>3, <1>6, <2>1, <2>2 DEF Fits, Due
    <2>3. CASE d.sid # s
        BY <1>3, <2>1, <2>3 DEF Fits
    <2> QED BY <2>2, <2>3
<1>10. WireOK'
    BY <1>1, <1>2, <1>5, <1>7, <1>8, <1>9, SendWire
<1>13. \A d : d \in Range(wire'[w]) <=> d \in Range(wire[w]) \/ d = c
    BY <1>1, <1>2, <1>5, <1>7, <1>8, <1>9, SendWire
<1>11. \A v \in Services \ {w} : wire'[v] = wire[v]
    BY <1>1, <1>2, <1>5, <1>7, <1>8, <1>9, SendWire
<1>12. ZoneOK'
    <2>1. zone \in Zone /\ zone' \in Zone /\ zone'.on = [zone.on EXCEPT ![s] = NoMap]
        BY GoneType DEF TInv, ZoneOK
    <2>2. zone'.on[s] = NoMap /\ (\A r \in Sids \ {s} : zone'.on[r] = zone.on[r]) /\ p # "in"
        BY <1>3, <2>1 DEF Zone
    <2> QED BY <1>3, <2>1, <2>2 DEF TInv, ZoneOK
<1> QED BY <1>0, <1>1, <1>2, <1>4, <1>10, <1>11, <1>12, <1>13 DEF TInv, DataOK

LEMMA LeaveTypes ==
    ASSUME TInv, NEW s \in Sids, Leave(s)
    PROVE  TInv'
BY LastFlush DEF Leave, TInv, SesOK

LEMMA CloseTypes ==
    ASSUME TInv, NEW s \in Sids, Close(s)
    PROVE  TInv'
<1>1. CASE at[s] \in {"entering", "reading", "firstin"}
    <2>1. WireOK'
        BY <1>1, StillWire DEF Close
    <2>2. SesOK'
        BY <1>1 DEF Close, TInv, SesOK, Holds
    <2>3. DataOK'
        <3>1. bound' = [bound EXCEPT ![UserOf[s]] = FALSE] /\ UNCHANGED <<db, latest, exits>>
            BY <1>1 DEF Close
        <3> QED BY <3>1 DEF TInv, DataOK
    <2>4. ZoneOK'
        BY <1>1 DEF Close, TInv, ZoneOK
    <2> QED BY <2>1, <2>2, <2>3, <2>4 DEF TInv
<1>2. CASE at[s] \notin {"entering", "reading", "firstin"}
    BY <1>2, LastFlush DEF Close, TInv, SesOK
<1> QED BY <1>1, <1>2

LEMMA FlushFacts ==
    ASSUME TInv, NEW s \in Sids, Flush(s)
    PROVE  /\ TInv'
           /\ worker[s] \in Services /\ at[s] = "in" /\ mem[s] \in Doc
           /\ Cmd("flush", s, mem[s]) \in Cmds
           /\ \A v \in Services : \A d \in Range(wire[v]) : d.sid # s
           /\ \A d : d \in Range(wire'[worker[s]]) <=> d \in Range(wire[worker[s]]) \/ d = Cmd("flush", s, mem[s])
           /\ \A v \in Services \ {worker[s]} : wire'[v] = wire[v]
<1>0. PICK w, c : w = worker[s] /\ c = Cmd("flush", s, mem[s])
    OBVIOUS
<1>1. at[s] = "in" /\ w \in Services
    BY <1>0 DEF Flush, TInv, ZoneOK, SesOK
<1>2. mem[s] \in Doc
    BY <1>1, HeldDoc DEF Holds
<1>3. c \in Cmds /\ c.kind = "flush" /\ c.sid = s /\ c.doc = mem[s] /\ w = worker[s]
    BY <1>0, <1>2, Facts
<1>4. \A v \in Services : \A d \in Range(wire[v]) : d.sid # s
    <2> SUFFICES ASSUME NEW v \in Services, NEW d \in Range(wire[v]), d.sid = s PROVE FALSE
        OBVIOUS
    <2>1. d.kind = "flush"
        BY <1>1, OnWire
    <2> QED BY <2>1 DEF Flush, Range
<1>5. Fits(w, c)' /\ \A v \in Services : \A d \in Range(wire[v]) : Fits(v, d)'
    BY <1>1, <1>3, RangeType DEF Flush, Fits, Due
<1>6. \A d \in Range(wire[w]) : Behind(d, c)
    BY <1>1, <1>3, <1>4 DEF Behind
<1>7. Send(w, c)
    BY <1>0 DEF Flush
<1>8. WireOK'
    BY <1>1, <1>3, <1>5, <1>6, <1>7, SendWire
<1>11. \A d : d \in Range(wire'[w]) <=> d \in Range(wire[w]) \/ d = c
    BY <1>1, <1>3, <1>5, <1>6, <1>7, SendWire
<1>9. \A v \in Services \ {w} : wire'[v] = wire[v]
    BY <1>1, <1>3, <1>5, <1>6, <1>7, SendWire
<1>10. SesOK' /\ DataOK' /\ ZoneOK'
    BY DEF Flush, TInv, SesOK, Holds, DataOK, ZoneOK
<1> QED BY <1>0, <1>1, <1>2, <1>3, <1>4, <1>8, <1>9, <1>10, <1>11 DEF TInv

LEMMA PlayTypes ==
    ASSUME TInv, NEW s \in Sids,
           FirstIn(s) \/ Walk(s) \/ ChangeLooks(s) \/ \E m \in Maps : ChangeMap(s, m)
    PROVE  TInv'
<1>1. at[s] \in {"firstin", "in"} /\ mem[s] \in Doc /\ mem[s].map \in Maps /\ mem[s].ver \in Nat
    BY HeldDoc, Facts DEF Holds, FirstIn, Walk, ChangeLooks, ChangeMap, Plays
<1>2. \A doc \in Doc : /\ [doc EXCEPT !.ver = @ + 1] \in Doc
                       /\ \A m \in Maps : [doc EXCEPT !.map = m] \in Doc
    BY DEF Doc
<1>3. CASE FirstIn(s)
    <2>1. WireOK'
        <3>1. \A w \in Services : \A c \in Range(wire[w]) : c.sid # s /\ c.sid \in Sids
            BY <1>3, OnWire DEF FirstIn
        <3> QED BY <1>3, <3>1, StillWire DEF FirstIn, TInv, SesOK
    <2>2. SesOK'
        BY <1>1, <1>3 DEF FirstIn, TInv, SesOK, Holds, Places
    <2>3. ZoneOK'
        <3>1. zone \in Zone /\ zone' \in Zone /\ zone'.on = [zone.on EXCEPT ![s] = mem[s].map]
            BY <1>1, <1>3, AddedType DEF FirstIn, TInv, ZoneOK
        <3>2. at'[s] = "in" /\ mem[s].map # NoMap /\ \A r \in Sids \ {s} : at'[r] = at[r]
            BY <1>1, <1>3, Facts DEF FirstIn, TInv, SesOK
        <3>3. zone'.on[s] # NoMap /\ \A r \in Sids \ {s} : zone'.on[r] = zone.on[r]
            BY <3>1, <3>2 DEF Zone
        <3> QED BY <3>1, <3>2, <3>3 DEF TInv, ZoneOK
    <2> QED BY <1>3, <2>1, <2>2, <2>3 DEF FirstIn, TInv, DataOK
<1>4. ASSUME NEW doc \in {mem[s]} \cup {[mem[s] EXCEPT !.map = m] : m \in Maps}, Changes(s, doc), at[s] = "in",
             at' = at, UNCHANGED <<worker, gone, db, bound, exits>>, asked' \in [Sids -> Services]
      PROVE  SesOK' /\ DataOK'
    <2>1. [doc EXCEPT !.ver = @ + 1] \in Doc
        <3>1. doc \in Doc
            BY <1>1, <1>2, <1>4
        <3> QED BY <1>2, <3>1
    <2>2. SesOK'
        <3>1. /\ at' = [at EXCEPT ![s] = "in"] /\ mem' = [mem EXCEPT ![s] = [doc EXCEPT !.ver = @ + 1]]
              /\ [doc EXCEPT !.ver = @ + 1] # NoDoc /\ "in" \in Places
            <4>1. mem' = [mem EXCEPT ![s] = [doc EXCEPT !.ver = @ + 1]]
                BY <1>4 DEF Changes
            <4>2. at' = [at EXCEPT ![s] = "in"]
                BY <1>4 DEF TInv, SesOK
            <4> QED BY <2>1, <4>1, <4>2, Facts DEF Places
        <3>2. worker' \in [Sids -> Services] /\ gone' \in [Sids -> BOOLEAN]
            BY <1>4 DEF TInv, SesOK
        <3> QED BY <1>4, <2>1, <3>1, <3>2, SesTypes
    <2>3. DataOK'
        BY <1>4, Facts DEF Changes, TInv, DataOK
    <2> QED BY <2>2, <2>3
<1>5. CASE Walk(s)
    <2>1. WireOK'
        BY <1>5, StillWire DEF Walk
    <2>2. SesOK' /\ DataOK'
        BY <1>4, <1>5 DEF Walk, Plays, TInv, SesOK
    <2> QED BY <1>5, <2>1, <2>2 DEF Walk, TInv, ZoneOK
<1>6. CASE ChangeLooks(s)
    <2>1. WireOK'
        BY <1>6, StillWire DEF ChangeLooks
    <2>2. SesOK' /\ DataOK'
        BY <1>4, <1>6 DEF ChangeLooks, Plays, TInv, SesOK
    <2>3. ZoneOK'
        BY <1>6, ChangedType DEF ChangeLooks, TInv, ZoneOK
    <2> QED BY <2>1, <2>2, <2>3 DEF TInv
<1>7. ASSUME NEW m \in Maps, ChangeMap(s, m) PROVE TInv'
    <2>1. WireOK'
        BY <1>7, StillWire DEF ChangeMap
    <2>2. asked' \in [Sids -> Services]
        BY <1>7, Facts DEF ChangeMap, TInv, SesOK
    <2>3. SesOK' /\ DataOK'
        BY <1>4, <1>7, <2>2 DEF ChangeMap, Plays
    <2>4. CASE WorkerOf[m] = worker[s]
        <3>1. zone' = Added(Removed(zone, s), s, m) /\ at' = at /\ at[s] = "in" /\ m # NoMap
            BY <1>7, <2>4, Facts DEF ChangeMap, Plays
        <3>2. zone \in Zone /\ Removed(zone, s) \in Zone /\ Removed(zone, s).on = [zone.on EXCEPT ![s] = NoMap]
            BY RemovedType DEF TInv, ZoneOK
        <3>3. zone' \in Zone /\ zone'.on = [Removed(zone, s).on EXCEPT ![s] = m]
            BY <3>1, <3>2, AddedType
        <3>4. zone'.on = [zone.on EXCEPT ![s] = m]
            BY <3>2, <3>3 DEF Zone
        <3>5. ZoneOK'
            BY <3>1, <3>3, <3>4 DEF TInv, ZoneOK, Zone
        <3> QED BY <2>1, <2>3, <3>5 DEF TInv
    <2>5. CASE WorkerOf[m] # worker[s]
        BY <1>7, <2>1, <2>3, <2>5 DEF ChangeMap, TInv, ZoneOK
    <2> QED BY <2>4, <2>5
<1> QED BY <1>3, <1>5, <1>6, <1>7

-----------------------------------------------------------------------------
\* What reaches Redis.
LEMMA LandTypes ==
    ASSUME TInv, NEW w \in Services, LandFlush(w) \/ LandClose(w) \/ LandRead(w)
    PROVE  TInv'
<1>0. PICK c : c = Head(wire[w])
    OBVIOUS
<1>1. wire[w] # <<>> /\ wire' = [wire EXCEPT ![w] = Tail(@)]
    BY DEF LandFlush, LandClose, LandRead, Head1
<1>2. c \in Range(wire[w])
    BY <1>0, <1>1, LandFacts
<1>3. c.sid \in Sids /\ c.doc \in Doc /\ UserOf[c.sid] \in Users
    BY <1>2, OnWire, Facts
<1>4. CASE LandFlush(w)
    <2>1. WireOK'
        BY <1>1, <1>4, LandWire DEF LandFlush
    <2>2. DataOK'
        BY <1>0, <1>3, <1>4 DEF LandFlush, Write, TInv, DataOK
    <2>3. SesOK' /\ ZoneOK'
        BY <1>4 DEF LandFlush, TInv, SesOK, Holds, ZoneOK
    <2> QED BY <2>1, <2>2, <2>3 DEF TInv
<1>5. CASE LandClose(w)
    <2>1. c.kind = "close" /\ at[c.sid] = "closing"
        BY <1>0, <1>2, <1>5, OnWire DEF LandClose, Head1
    <2>2. at' = [at EXCEPT ![c.sid] = "clearing"] /\ worker' = worker
        BY <1>0, <1>5 DEF LandClose
    <2>3. \A s \in Sids : s # c.sid => at'[s] = at[s]
        BY <2>2 DEF TInv, SesOK
    <2>4. WireOK'
        BY <1>0, <1>1, <2>1, <2>2, <2>3, LandWire
    <2>5. DataOK'
        BY <1>0, <1>3, <1>5 DEF LandClose, Write, TInv, DataOK
    <2>6. SesOK'
        BY <1>3, <1>5, <2>1, <2>2 DEF LandClose, TInv, SesOK, Holds, Places
    <2>7. ZoneOK'
        BY <1>3, <1>5, <2>1, <2>2 DEF LandClose, TInv, SesOK, ZoneOK
    <2> QED BY <2>4, <2>5, <2>6, <2>7 DEF TInv
<1>6. CASE LandRead(w)
    <2>1. PICK s, doc : s = c.sid /\ doc = db[UserOf[s]]
        OBVIOUS
    <2>2. c.kind = "read" /\ at[s] \in {"entering", "reading"}
        BY <1>0, <1>2, <1>6, <2>1, OnWire DEF LandRead, Head1
    <2>3. doc \in Doc /\ doc # NoDoc /\ doc.map \in Maps /\ s \in Sids
        BY <1>3, <2>1, Facts DEF TInv, DataOK
    <2>4. /\ mem' = [mem EXCEPT ![s] = doc]
          /\ \/ zone' = zone /\ at' = [at EXCEPT ![s] = "lost"]
             \/ zone' = zone /\ at' = [at EXCEPT ![s] = "firstin"]
             \/ zone' = Added(zone, s, doc.map) /\ at' = [at EXCEPT ![s] = "in"]
          /\ UNCHANGED <<worker, gone, asked, db, bound, latest, exits>>
        BY <1>0, <1>6, <2>1 DEF LandRead
    <2>5. PICK p \in {"lost", "firstin", "in"} : at' = [at EXCEPT ![s] = p]
        BY <2>4
    <2>6. at'[s] = p /\ \A r \in Sids : r # s => at'[r] = at[r]
        BY <2>3, <2>5 DEF TInv, SesOK
    <2>7. WireOK'
        BY <1>0, <1>1, <2>1, <2>2, <2>4, <2>6, LandWire
    <2>8. SesOK'
        BY <2>3, <2>4, <2>5, SesTypes DEF Places, TInv, SesOK
    <2>9. ZoneOK'
        <3>1. zone \in Zone
            BY DEF TInv, ZoneOK
        <3>2. CASE zone' = zone /\ at'[s] # "in"
            BY <2>2, <2>3, <2>6, <3>2 DEF TInv, ZoneOK
        <3>3. CASE zone' = Added(zone, s, doc.map) /\ at'[s] = "in"
            <4>1. zone' \in Zone /\ zone'.on = [zone.on EXCEPT ![s] = doc.map] /\ doc.map # NoMap
                BY <2>3, <3>1, <3>3, AddedType, Facts
            <4>2. zone'.on[s] # NoMap /\ \A r \in Sids \ {s} : zone'.on[r] = zone.on[r]
                BY <2>3, <3>1, <4>1 DEF Zone
            <4> QED BY <2>6, <3>3, <4>1, <4>2 DEF TInv, ZoneOK
        <3> QED BY <2>3, <2>4, <3>2, <3>3 DEF TInv, SesOK
    <2> QED BY <2>4, <2>7, <2>8, <2>9 DEF TInv, DataOK
<1> QED BY <1>4, <1>5, <1>6

\* The player has left: its session goes to the next worker, which reads.
LEMMA LeftFacts ==
    ASSUME TInv, NEW w \in Services, LandLeave(w), NEW c, c = Head(wire[w])
    PROVE  /\ TInv'
           /\ c \in Range(wire[w]) /\ c.kind = "leave" /\ c.sid \in Sids /\ at[c.sid] = "leaving"
           /\ at'[c.sid] \in {"entering", "reading"} /\ \A r \in Sids \ {c.sid} : at'[r] = at[r]
           /\ \A v \in Services : \A d \in Range(wire'[v]) :
                 (d \in Range(wire[v]) /\ d.sid # c.sid) \/ (d.kind = "read" /\ d.sid = c.sid)
<1> DEFINE r == Landed(wire, w)
<1>1. wire[w] # <<>> /\ c.kind = "leave"
    BY DEF LandLeave, Head1
<1>2. wire \in [Services -> Seq(Cmds)] /\ Ordered(wire)
    BY DEF TInv, WireOK
<1>3. c \in Range(wire[w])
    BY <1>1, <1>2, AtFront
<1>4. c.sid \in Sids /\ c.doc \in Doc /\ at[c.sid] = "leaving" /\ worker[c.sid] = w
    BY <1>1, <1>3, OnWire
<1>5. PICK s, v, e : s = c.sid /\ v = asked[s] /\ e = Cmd("read", s, c.doc)
    OBVIOUS
<1>6. v \in Services /\ e \in Cmds /\ e.kind = "read" /\ e.sid = s /\ s \in Sids
    BY <1>4, <1>5, Facts DEF TInv, SesOK
<1>7. r \in [Services -> Seq(Cmds)]
    BY <1>1, <1>2, AtFront
<1>8. Ordered(r)
    BY <1>1, <1>2, AtFront
<1>9. \A x \in Services : \A d \in Range(r[x]) : d \in Range(wire[x]) /\ d.sid # s
    <2> SUFFICES ASSUME NEW x \in Services, NEW d \in Range(r[x]) PROVE d \in Range(wire[x]) /\ d.sid # s
        OBVIOUS
    <2>1. d \in Range(wire[x])
        BY <1>1, <1>2, AtFront
    <2>2. CASE x = w
        <3>1. Behind(c, d)
            BY <1>1, <1>2, <2>2, AtFront
        <3> QED BY <1>1, <1>5, <2>1, <3>1 DEF Behind
    <2>3. CASE x # w
        BY <1>4, <1>5, <2>1, <2>3, OnWire
    <2> QED BY <2>2, <2>3
<1>10. wire' = Sent(r, v, e)
    BY <1>5 DEF LandLeave, Landed, Sent
<1> HIDE DEF r
<1>11. \A d \in Range(r[v]) : Behind(d, e)
    BY <1>6, <1>9 DEF Behind
<1>12. Sent(r, v, e) \in [Services -> Seq(Cmds)]
    BY <1>6, <1>7, <1>8, <1>11, AtBack
<1>13. Ordered(Sent(r, v, e))
    BY <1>6, <1>7, <1>8, <1>11, AtBack
<1>14. \A d : d \in Range(Sent(r, v, e)[v]) <=> d \in Range(r[v]) \/ d = e
    BY <1>6, <1>7, <1>8, <1>11, AtBack
<1>15. \A x \in Services \ {v} : Sent(r, v, e)[x] = r[x]
    BY <1>6, <1>7, <1>8, <1>11, AtBack
<1>16. \A x \in Services : \A d \in Range(wire'[x]) :
          (d \in Range(wire[x]) /\ d.sid # s) \/ (d = e /\ x = v)
    <2> SUFFICES ASSUME NEW x \in Services, NEW d \in Range(wire'[x])
                 PROVE  (d \in Range(wire[x]) /\ d.sid # s) \/ (d = e /\ x = v)
        OBVIOUS
    <2>1. CASE x = v
        BY <1>9, <1>10, <1>14, <2>1
    <2>2. CASE x # v
        BY <1>9, <1>10, <1>15, <2>2
    <2> QED BY <2>1, <2>2
<1>17. /\ at' = [at EXCEPT ![s] = IF w = Out THEN "entering" ELSE "reading"]
       /\ worker' = [worker EXCEPT ![s] = v] /\ asked' = [asked EXCEPT ![s] = NoWorker]
       /\ db' = [db EXCEPT ![UserOf[s]] = c.doc] /\ UNCHANGED <<gone, mem, zone, bound, latest, exits>>
    BY <1>5 DEF LandLeave, Write
<1>18. /\ at'[s] \in {"entering", "reading"} /\ worker'[s] = v
       /\ \A q \in Sids \ {s} : at'[q] = at[q] /\ worker'[q] = worker[q]
    BY <1>6, <1>17 DEF TInv, SesOK
<1>19. WireOK'
    <2>1. \A x \in Services : \A d \in Range(wire'[x]) : Fits(x, d)'
        <3> SUFFICES ASSUME NEW x \in Services, NEW d \in Range(wire'[x]) PROVE Fits(x, d)'
            OBVIOUS
        <3>1. CASE d \in Range(wire[x]) /\ d.sid # s
            <4>1. Fits(x, d) /\ d.sid \in Sids
                BY <3>1, RangeType
            <4> QED BY <1>18, <3>1, <4>1 DEF Fits
        <3>2. CASE d = e /\ x = v
            BY <1>6, <1>18, <3>2 DEF Fits, Due
        <3> QED BY <1>16, <3>1, <3>2
    <2>2. wire' \in [Services -> Seq(Cmds)]
        BY <1>10, <1>12
    <2>3. Ordered(wire)'
        BY <1>10, <1>13 DEF Ordered
    <2> QED BY <2>1, <2>2, <2>3 DEF WireOK, InWire
<1>20. SesOK'
    <2>1. mem[s] = NoDoc
        BY <1>4, <1>5 DEF TInv, SesOK, Holds
    <2> QED BY <1>6, <1>17, <1>18, <2>1, Facts DEF TInv, SesOK, Holds, Places
<1>21. DataOK'
    BY <1>4, <1>5, <1>17, Facts DEF TInv, DataOK
<1>22. ZoneOK'
    BY <1>4, <1>5, <1>17, <1>18 DEF TInv, ZoneOK
<1> QED BY <1>1, <1>3, <1>4, <1>5, <1>6, <1>16, <1>18, <1>19, <1>20, <1>21, <1>22 DEF TInv

LEMMA ClearTypes ==
    ASSUME TInv, NEW s \in Sids, Clear(s)
    PROVE  TInv'
<1>1. \A w \in Services : \A c \in Range(wire[w]) : c.sid # s /\ c.sid \in Sids
    BY OnWire DEF Clear
<1>2. WireOK'
    BY <1>1, StillWire DEF Clear, TInv, SesOK
<1>3. SesOK'
    BY Facts DEF Clear, TInv, SesOK, Holds, Places
<1>4. DataOK'
    BY Facts DEF Clear, TInv, DataOK
<1>5. ZoneOK'
    BY DEF Clear, TInv, ZoneOK, SesOK
<1> QED BY <1>2, <1>3, <1>4, <1>5 DEF TInv

\* Whatever survives is a document.
LEMMA ExitTypes ==
    ASSUME TInv, Exit
    PROVE  TInv' /\ \A u \in Users : db'[u] \in Survives(u)
<1>1. \A u \in Users : Survives(u) \subseteq Doc
    <2> SUFFICES ASSUME NEW u \in Users PROVE Survives(u) \subseteq Doc
        OBVIOUS
    <2>1. db[u] \in Doc
        BY DEF TInv, DataOK
    <2>2. \A c \in Pending(u) : c.doc \in Doc
        BY OnWire DEF Pending
    <2>3. \A s \in Sids : Holds(s) => mem[s] \in Doc
        BY HeldDoc
    <2> QED BY <2>1, <2>2, <2>3 DEF Survives
<1>2. db' \in [Users -> UNION {Survives(u) : u \in Users}] /\ \A u \in Users : db'[u] \in Survives(u)
    BY DEF Exit
<1> HIDE DEF Survives
<1>3. db' \in [Users -> Doc]
    BY <1>1, <1>2
<1>4. DataOK'
    BY <1>3, Facts DEF Exit, TInv, DataOK
<1>5. SesOK'
    BY Facts DEF Exit, SesOK, Holds, Places
<1>6. WireOK'
    BY DEF Exit, WireOK, InWire, Ordered, Range
<1>7. ZoneOK'
    BY NewZoneType DEF Exit, ZoneOK
<1> QED BY <1>2, <1>4, <1>5, <1>6, <1>7 DEF TInv

LEMMA StepTypes ==
    ASSUME TInv, [Next]_vars
    PROVE  TInv'
<1>1. CASE UNCHANGED vars
    BY <1>1 DEF vars, TInv, SesOK, Holds, DataOK, WireOK, InWire, Fits, Ordered, ZoneOK
<1>2. CASE Next
    BY <1>2, LogInTypes, AskTypes, LeaveTypes, CloseTypes, FlushFacts, PlayTypes, LandTypes, LeftFacts,
       ClearTypes, ExitTypes DEF Next
<1> QED BY <1>1, <1>2

\* Type correctness; a session with a command on its way is where the command says.
THEOREM TypeCorrect == Spec => []TypeOK
<1>1. Spec => []TInv
    BY InitTypes, StepTypes, PTL DEF Spec
<1> QED BY <1>1, TypesOf, PTL

-----------------------------------------------------------------------------
(***************************************************************************)
(* As long as no connection closes while its player is created, a user has *)
(* one live session at most; Redis is behind what was made of the player   *)
(* only while that session plays or has its last flush on the way, and     *)
(* what is on the way is no older than what is there.                      *)
(***************************************************************************)
Live(s) == at[s] \notin {"new", "closed"}
Dirty(s) == at[s] \in {"in", "leaving", "closing"}
Alone ==
    \A s \in Sids : Live(s) =>
        bound[UserOf[s]] /\ \A t \in Sids : Live(t) /\ UserOf[t] = UserOf[s] => t = s
Settled ==
    \A u \in Users :
        /\ db[u].ver =< latest[u]
        /\ (\A s \in Sids : UserOf[s] = u => ~Dirty(s)) => db[u].ver = latest[u]
Newer(c) ==
    c.kind # "read" =>
        /\ db[UserOf[c.sid]].ver =< c.doc.ver /\ c.doc.ver =< latest[UserOf[c.sid]]
        /\ c.kind # "flush" => c.doc.ver = latest[UserOf[c.sid]]
Pends == \A w \in Services : \A c \in Range(wire[w]) : Newer(c)

VInv == TInv /\ Alone /\ Settled /\ NothingLost /\ Pends
Grows == \A u \in Users : db'[u].ver >= db[u].ver

LEMMA Vers ==
    ASSUME TInv
    PROVE  /\ \A u \in Users : db[u].ver \in Nat /\ latest[u] \in Nat
           /\ \A s \in Sids : UserOf[s] \in Users /\ (Holds(s) => mem[s].ver \in Nat)
           /\ \A w \in Services : \A c \in Range(wire[w]) : c.doc.ver \in Nat /\ c.sid \in Sids
BY Facts, HeldDoc, OnWire DEF TInv, DataOK

\* A step of one session: nobody else's is disturbed.
LEMMA OneSession ==
    ASSUME VInv, NEW s \in Sids, NEW u \in Users, u = UserOf[s], Live(s) \/ ~bound[u],
           \A r \in Sids \ {s} : at'[r] = at[r] /\ mem'[r] = mem[r],
           \A v \in Users \ {u} : db'[v] = db[v] /\ latest'[v] = latest[v] /\ bound'[v] = bound[v],
           \A w \in Services : \A c \in Range(wire'[w]) : c.sid # s => c \in Range(wire[w]),
           Live(s)' => bound'[u],
           Holds(s)' => mem'[s].ver = latest'[u],
           db'[u].ver =< latest'[u], ~Dirty(s)' => db'[u].ver = latest'[u],
           \A w \in Services : \A c \in Range(wire'[w]) : c.sid = s => Newer(c)'
    PROVE  Alone' /\ Settled' /\ NothingLost' /\ Pends'
<1>1. \A r \in Sids : UserOf[r] \in Users
    BY Facts
<1>2. \A r \in Sids \ {s} : UserOf[r] = u => ~Live(r) /\ ~Live(r)' /\ ~Dirty(r)' /\ ~Holds(r)'
    BY DEF VInv, Alone, Live, Dirty, Holds
<1>3. Alone'
    <2> SUFFICES ASSUME NEW r \in Sids, Live(r)'
                 PROVE  bound'[UserOf[r]] /\ \A t \in Sids : Live(t)' /\ UserOf[t] = UserOf[r] => t = r
        BY DEF Alone
    <2>1. CASE r = s
        BY <1>2, <2>1
    <2>2. CASE r # s
        <3>1. UserOf[r] # u /\ Live(r)
            BY <1>2, <2>2 DEF Live
        <3>2. \A t \in Sids : Live(t)' /\ UserOf[t] = UserOf[r] => t # s /\ Live(t)
            BY <3>1 DEF Live
        <3> QED BY <1>1, <3>1, <3>2 DEF VInv, Alone
    <2> QED BY <2>1, <2>2
<1>4. Settled'
    <2> SUFFICES ASSUME NEW v \in Users
                 PROVE  /\ db'[v].ver =< latest'[v]
                        /\ (\A r \in Sids : UserOf[r] = v => ~Dirty(r)') => db'[v].ver = latest'[v]
        BY DEF Settled
    <2>1. CASE v # u
        <3>1. \A r \in Sids : UserOf[r] = v => (Dirty(r)' <=> Dirty(r))
            BY <2>1 DEF Dirty
        <3> QED BY <2>1, <3>1 DEF VInv, Settled
    <2> QED BY <2>1
<1>5. NothingLost'
    <2> SUFFICES ASSUME NEW r \in Sids, Holds(r)' PROVE mem'[r].ver = latest'[UserOf[r]]
        BY DEF NothingLost
    <2>1. CASE r # s
        BY <1>1, <1>2, <2>1 DEF VInv, NothingLost, Holds
    <2> QED BY <2>1
<1>6. Pends'
    <2> SUFFICES ASSUME NEW w \in Services, NEW c \in Range(wire'[w]), c.sid # s PROVE Newer(c)'
        BY DEF Pends
    <2>1. c \in Range(wire[w]) /\ c.sid \in Sids /\ Live(c.sid)
        BY OnWire DEF VInv, Live
    <2>2. UserOf[c.sid] # u
        BY <1>2, <2>1
    <2> QED BY <1>1, <2>1, <2>2 DEF VInv, Pends, Newer
<1> QED BY <1>3, <1>4, <1>5, <1>6

LEMMA InitVersions == Init => VInv
<1> SUFFICES ASSUME Init PROVE VInv
    OBVIOUS
<1>1. TInv
    BY InitTypes
<1>2. Alone /\ Settled /\ NothingLost
    BY DEF Init, Alone, Live, Settled, NothingLost, Holds
<1>3. Pends
    BY DEF Init, Pends, Range
<1> QED BY <1>1, <1>2, <1>3 DEF VInv

LEMMA LogInVersions ==
    ASSUME VInv, NEW s \in Sids, LogIn(s)
    PROVE  VInv' /\ Grows
<1>0. PICK u : u = UserOf[s]
    OBVIOUS
<1>1. TInv' /\ TInv /\ u \in Users
    BY <1>0, LogInTypes, Facts DEF VInv
<1>2. \A w \in Services : \A c \in Range(wire[w]) : c.sid # s
    BY OnWire DEF VInv, LogIn
<1>3. \A r \in Sids : UserOf[r] = u => ~Dirty(r)
    BY <1>0 DEF VInv, LogIn, Alone, Live, Dirty
<1>4. db[u].ver = latest[u] /\ db[u].ver \in Nat /\ latest[u] \in Nat
    BY <1>1, <1>3, Vers DEF VInv, Settled
<1>5. /\ at'[s] = "out" /\ mem'[s] = db[u] /\ bound'[u] = TRUE /\ db' = db /\ latest' = latest /\ wire' = wire
      /\ \A r \in Sids \ {s} : at'[r] = at[r] /\ mem'[r] = mem[r]
      /\ \A v \in Users \ {u} : bound'[v] = bound[v]
    BY <1>0, <1>1 DEF LogIn, TInv, SesOK, DataOK
<1>6. ~bound[u]
    BY <1>0 DEF LogIn
<1>7. Alone' /\ Settled' /\ NothingLost' /\ Pends'
    BY <1>0, <1>1, <1>2, <1>4, <1>5, <1>6, OneSession
<1> QED BY <1>1, <1>5, <1>7, Vers DEF VInv, Grows

\* No document is written and none is made.
LEMMA AskVersions ==
    ASSUME VInv, NEW s \in Sids, EnterGame(s) \/ Disconnect(s)
    PROVE  VInv' /\ Grows
<1>1. TInv' /\ UNCHANGED <<at, mem, wire, db, bound, latest>>
    BY AskTypes DEF VInv, EnterGame, Disconnect
<1>2. Alone' /\ Settled' /\ NothingLost' /\ Pends'
    BY <1>1 DEF VInv, Alone, Live, Settled, Dirty, NothingLost, Holds, Pends, Newer
<1> QED BY <1>1, <1>2, Vers DEF VInv, Grows

\* What is sent is the player as it is.
LEMMA LastVersions ==
    ASSUME VInv, NEW s \in Sids, Leave(s) \/ (Close(s) /\ ~Overtaken)
    PROVE  VInv' /\ Grows
<1>0. PICK u, v : u = UserOf[s] /\ v = worker[s]
    OBVIOUS
<1>1. PICK kind \in {"leave", "close"}, p \in {"leaving", "closing"} :
          /\ p = IF kind = "leave" THEN "leaving" ELSE "closing"
          /\ at[s] \in {"out", "in", "lost"} /\ at' = [at EXCEPT ![s] = p] /\ zone' = Gone(zone, s)
          /\ Send(worker[s], Cmd(kind, s, mem[s])) /\ mem' = [mem EXCEPT ![s] = NoDoc]
          /\ gone' \in [Sids -> BOOLEAN] /\ UNCHANGED <<worker, asked, db, bound, latest, exits>>
    <2>1. CASE Leave(s)
        BY <2>1 DEF Leave, VInv, TInv, SesOK
    <2>2. CASE Close(s) /\ ~Overtaken
        BY <2>2 DEF Close, VInv, TInv, SesOK
    <2> QED BY <2>1, <2>2
<1>2. PICK c : c = Cmd(kind, s, mem[s])
    OBVIOUS
<1>3. TInv' /\ TInv /\ u \in Users
    BY <1>0, LeaveTypes, CloseTypes, Facts DEF VInv
<1>4. /\ v \in Services /\ c \in Cmds
      /\ \A d : d \in Range(wire'[v]) <=> d \in Range(wire[v]) \/ d = c
      /\ \A x \in Services \ {v} : wire'[x] = wire[x]
    BY <1>0, <1>1, <1>2, <1>3, LastFlush
<1>5. \A x \in Services : \A d \in Range(wire'[x]) : d \in Range(wire[x]) \/ d = c
    BY <1>4
<1>6. mem[s] \in Doc /\ c.kind = kind /\ c.sid = s /\ c.doc = mem[s] /\ Holds(s) /\ Live(s)
    BY <1>1, <1>2, <1>3, HeldDoc, Facts DEF Holds, Live
<1>7. /\ at'[s] \in {"leaving", "closing"}
      /\ \A r \in Sids \ {s} : at'[r] = at[r] /\ mem'[r] = mem[r]
    BY <1>1, <1>3 DEF TInv, SesOK
<1>8. mem[s].ver = latest[u] /\ db[u].ver =< latest[u] /\ bound[u]
    BY <1>0, <1>3, <1>6 DEF VInv, NothingLost, Settled, Alone
<1>9. latest' = latest /\ db' = db /\ bound' = bound
    BY <1>1
<1>10. ~Holds(s)' /\ Dirty(s)'
    BY <1>7 DEF Holds, Dirty
<1>11. latest[u] \in Nat
    BY <1>3, Vers
<1>12. ASSUME NEW x \in Services, NEW d \in Range(wire'[x]), d.sid = s PROVE Newer(d)'
    <2>1. CASE d = c
        BY <1>0, <1>6, <1>8, <1>9, <1>11, <2>1 DEF Newer
    <2>2. CASE d \in Range(wire[x])
        BY <1>9, <2>2 DEF VInv, Pends, Newer
    <2> QED BY <1>5, <1>12, <2>1, <2>2
<1>13. \A x \in Services : \A d \in Range(wire'[x]) : d.sid # s => d \in Range(wire[x])
    BY <1>5, <1>6
<1>14. Alone' /\ Settled' /\ NothingLost' /\ Pends'
    BY <1>0, <1>3, <1>6, <1>7, <1>8, <1>9, <1>10, <1>12, <1>13, OneSession
<1> QED BY <1>3, <1>9, <1>14, Vers DEF VInv, Grows

LEMMA FlushVersions ==
    ASSUME VInv, NEW s \in Sids, Flush(s)
    PROVE  VInv' /\ Grows
<1>0. PICK u, v, c : u = UserOf[s] /\ v = worker[s] /\ c = Cmd("flush", s, mem[s])
    OBVIOUS
<1>1. TInv /\ TInv' /\ u \in Users /\ at[s] = "in" /\ mem[s] \in Doc /\ v \in Services
    BY <1>0, FlushFacts, Facts DEF VInv
<1>2. /\ \A d : d \in Range(wire'[v]) <=> d \in Range(wire[v]) \/ d = c
      /\ \A x \in Services \ {v} : wire'[x] = wire[x]
      /\ \A x \in Services : \A d \in Range(wire[x]) : d.sid # s
    BY <1>0, <1>1, FlushFacts
<1>3. \A x \in Services : \A d \in Range(wire'[x]) : d \in Range(wire[x]) \/ d = c
    BY <1>2
<1>4. c.sid = s /\ c.kind = "flush" /\ c.doc = mem[s] /\ Holds(s) /\ Live(s) /\ Dirty(s)
    BY <1>0, <1>1, Facts DEF Holds, Live, Dirty
<1>5. UNCHANGED <<at, mem, db, bound, latest>>
    BY DEF Flush
<1>6. mem[s].ver = latest[u] /\ db[u].ver =< latest[u] /\ bound[u] /\ latest[u] \in Nat
    BY <1>0, <1>1, <1>4, Vers DEF VInv, NothingLost, Settled, Alone
<1>7. ASSUME NEW x \in Services, NEW d \in Range(wire'[x]), d.sid = s PROVE Newer(d)'
    <2>1. d = c
        BY <1>2, <1>3, <1>7
    <2> QED BY <1>0, <1>4, <1>5, <1>6, <2>1 DEF Newer
<1>8. \A x \in Services : \A d \in Range(wire'[x]) : d.sid # s => d \in Range(wire[x])
    BY <1>3, <1>4
<1>9. Dirty(s)' /\ (Holds(s)' => mem'[s].ver = latest'[u])
    BY <1>4, <1>5, <1>6 DEF Dirty
<1>10. Alone' /\ Settled' /\ NothingLost' /\ Pends'
    BY <1>0, <1>1, <1>4, <1>5, <1>6, <1>7, <1>8, <1>9, OneSession
<1> QED BY <1>1, <1>5, <1>10, Vers DEF VInv, Grows

\* A change is in the memory of the one session that plays.
LEMMA PlayVersions ==
    ASSUME VInv, NEW s \in Sids,
           FirstIn(s) \/ Walk(s) \/ ChangeLooks(s) \/ \E m \in Maps : ChangeMap(s, m)
    PROVE  VInv' /\ Grows
<1>0. PICK u : u = UserOf[s]
    OBVIOUS
<1>1. TInv /\ TInv' /\ u \in Users /\ db[u].ver \in Nat /\ latest[u] \in Nat
    BY <1>0, PlayTypes, Facts, Vers DEF VInv
<1>2. at[s] \in {"firstin", "in"} /\ at'[s] = "in" /\ Live(s) /\ Dirty(s)' /\ Holds(s)
    BY <1>1 DEF FirstIn, Walk, ChangeLooks, ChangeMap, Plays, TInv, SesOK, Live, Dirty, Holds
<1>3. mem[s].ver = latest[u] /\ db[u].ver =< latest[u] /\ bound[u]
    BY <1>0, <1>1, <1>2 DEF VInv, NothingLost, Settled, Alone
<1>4. wire' = wire /\ db' = db /\ bound' = bound /\ \A r \in Sids \ {s} : at'[r] = at[r]
    BY <1>1 DEF FirstIn, Walk, ChangeLooks, ChangeMap, TInv, SesOK
<1>5. \/ latest' = latest /\ mem' = mem
      \/ \E doc \in Doc : doc.ver = mem[s].ver /\ Changes(s, doc)
    <2>1. CASE FirstIn(s)
        BY <2>1 DEF FirstIn
    <2>2. CASE Walk(s) \/ ChangeLooks(s)
        BY <1>1, <1>2, <2>2, HeldDoc DEF Walk, ChangeLooks
    <2>3. ASSUME NEW m \in Maps, ChangeMap(s, m) PROVE \E doc \in Doc : doc.ver = mem[s].ver /\ Changes(s, doc)
        <3>1. mem[s] \in Doc
            BY <1>1, <1>2, HeldDoc
        <3>2. [mem[s] EXCEPT !.map = m] \in Doc /\ [mem[s] EXCEPT !.map = m].ver = mem[s].ver
            BY <3>1 DEF Doc
        <3> QED BY <2>3, <3>2 DEF ChangeMap
    <2> QED BY <2>1, <2>2, <2>3
<1>6. /\ latest'[u] \in Nat /\ latest[u] =< latest'[u] /\ mem'[s].ver = latest'[u]
      /\ \A v \in Users \ {u} : latest'[v] = latest[v]
      /\ \A r \in Sids \ {s} : mem'[r] = mem[r]
    <2>1. CASE latest' = latest /\ mem' = mem
        BY <1>1, <1>3, <2>1
    <2>2. ASSUME NEW doc \in Doc, doc.ver = mem[s].ver, Changes(s, doc)
          PROVE  /\ latest'[u] = latest[u] + 1 /\ mem'[s].ver = latest[u] + 1
                 /\ \A v \in Users \ {u} : latest'[v] = latest[v]
                 /\ \A r \in Sids \ {s} : mem'[r] = mem[r]
        <3>1. [doc EXCEPT !.ver = @ + 1].ver = latest[u] + 1
            BY <1>3, <2>2 DEF Doc
        <3> QED BY <1>0, <1>1, <2>2, <3>1 DEF Changes, TInv, SesOK, DataOK
    <2> QED BY <1>1, <1>5, <2>1, <2>2
<1>7. db'[u].ver =< latest'[u]
    BY <1>1, <1>3, <1>4, <1>6
<1>8. ASSUME NEW x \in Services, NEW d \in Range(wire'[x]), d.sid = s PROVE Newer(d)'
    <2>1. d \in Range(wire[x]) /\ d.kind = "flush" /\ Newer(d) /\ d.doc.ver \in Nat
        <3>1. at'[s] = "in" /\ at[s] \in {"firstin", "in"} /\ d \in Range(wire[x])
            BY <1>2, <1>4, <1>8
        <3> QED BY <1>1, <1>8, <3>1, OnWire, Vers DEF VInv, Pends
    <2> QED BY <1>0, <1>1, <1>4, <1>6, <1>8, <2>1 DEF Newer
<1>9. Alone' /\ Settled' /\ NothingLost' /\ Pends'
    BY <1>0, <1>1, <1>2, <1>3, <1>4, <1>6, <1>7, <1>8, OneSession
<1> QED BY <1>1, <1>4, <1>9, Vers DEF VInv, Grows

\* What is written is newer than what is there; what is behind it is newer still.
LEMMA LandVersions ==
    ASSUME VInv, NEW w \in Services, LandFlush(w) \/ LandClose(w) \/ LandRead(w)
    PROVE  VInv' /\ Grows
<1>0. PICK c, s, u : c = Head(wire[w]) /\ s = c.sid /\ u = UserOf[s]
    OBVIOUS
<1>1. TInv /\ TInv'
    BY LandTypes DEF VInv
<1>2. wire[w] # <<>> /\ wire' = [wire EXCEPT ![w] = Tail(@)]
    BY DEF LandFlush, LandClose, LandRead, Head1
<1>3. c \in Range(wire[w]) /\ \A x \in Services : \A d \in Range(wire'[x]) : d \in Range(wire[x])
    BY <1>0, <1>1, <1>2, LandFacts
<1>4. \A d \in Range(wire'[w]) : Behind(c, d)
    BY <1>0, <1>1, <1>2, LandFacts
<1>5. /\ s \in Sids /\ u \in Users /\ c.doc \in Doc /\ c.doc.ver \in Nat /\ Newer(c) /\ worker[s] = w
      /\ db[u].ver \in Nat /\ latest[u] \in Nat
    BY <1>0, <1>1, <1>3, OnWire, Facts, Vers DEF VInv, Pends
<1>6. Live(s) /\ bound[u] /\ bound' = bound /\ latest' = latest
    BY <1>0, <1>1, <1>3, <1>5, OnWire DEF VInv, Alone, Live, LandFlush, LandClose, LandRead
<1>7. \A x \in Services : \A d \in Range(wire'[x]) : d.sid = s => x = w /\ c.kind = "flush" /\ d.kind # "flush"
    BY <1>0, <1>1, <1>3, <1>4, <1>5, OnWire DEF Behind
<1>8. ASSUME NEW x \in Services, NEW d \in Range(wire'[x]), d.sid = s, db'[u].ver =< latest[u] PROVE Newer(d)'
    <2>1. Newer(d) /\ d.kind # "flush" /\ d \in Range(wire[x])
        BY <1>3, <1>7, <1>8 DEF VInv, Pends
    <2> QED BY <1>0, <1>6, <1>8, <2>1 DEF Newer
<1>9. CASE LandFlush(w) \/ LandClose(w)
    <2>1. db' = [db EXCEPT ![u] = c.doc] /\ mem' = mem /\ c.kind \in {"flush", "close"}
        BY <1>0, <1>9 DEF LandFlush, LandClose, Write, Head1
    <2>2. db'[u] = c.doc /\ \A v \in Users \ {u} : db'[v] = db[v]
        BY <1>1, <1>5, <2>1 DEF TInv, DataOK
    <2>3. db'[u].ver =< latest'[u] /\ db[u].ver =< db'[u].ver
        BY <1>0, <1>5, <1>6, <2>1, <2>2 DEF Newer
    <2>4. /\ \A r \in Sids \ {s} : at'[r] = at[r] /\ mem'[r] = mem[r]
          /\ ~Dirty(s)' => db'[u].ver = latest'[u]
          /\ Holds(s)' => Holds(s)
        <3>1. CASE LandFlush(w)
            <4>1. at' = at /\ Dirty(s)
                BY <1>0, <1>1, <1>3, <3>1, OnWire DEF LandFlush, Head1, Dirty
            <4> QED BY <2>1, <4>1 DEF Dirty, Holds
        <3>2. CASE LandClose(w)
            <4>1. c.kind = "close" /\ at' = [at EXCEPT ![s] = "clearing"]
                BY <1>0, <3>2 DEF LandClose, Head1
            <4>2. c.doc.ver = latest[u]
                BY <1>0, <1>5, <4>1 DEF Newer
            <4>3. at'[s] = "clearing" /\ \A r \in Sids \ {s} : at'[r] = at[r]
                BY <1>1, <1>5, <4>1 DEF TInv, SesOK
            <4> QED BY <1>6, <2>1, <2>2, <4>2, <4>3 DEF Holds
        <3> QED BY <1>9, <3>1, <3>2
    <2>5. Holds(s)' => mem'[s].ver = latest'[u]
        BY <1>0, <1>5, <1>6, <2>1, <2>4 DEF VInv, NothingLost
    <2>6. Alone' /\ Settled' /\ NothingLost' /\ Pends'
        <3>1. u = UserOf[s] /\ s \in Sids /\ u \in Users /\ (Live(s) \/ ~bound[u]) /\ (Live(s)' => bound'[u])
            BY <1>0, <1>5, <1>6
        <3>2. \A v \in Users \ {u} : db'[v] = db[v] /\ latest'[v] = latest[v] /\ bound'[v] = bound[v]
            BY <1>6, <2>2
        <3>3. \A x \in Services : \A d \in Range(wire'[x]) : d.sid # s => d \in Range(wire[x])
            BY <1>3
        <3>4. \A x \in Services : \A d \in Range(wire'[x]) : d.sid = s => Newer(d)'
            BY <1>6, <1>8, <2>3
        <3>5. db'[u].ver =< latest'[u] /\ (~Dirty(s)' => db'[u].ver = latest'[u])
              /\ \A t \in Sids \ {s} : at'[t] = at[t] /\ mem'[t] = mem[t]
            BY <2>3, <2>4
        <3> QED BY <2>5, <3>1, <3>2, <3>3, <3>4, <3>5, OneSession
    <2> QED BY <1>1, <1>5, <2>2, <2>3, <2>6, Vers DEF VInv, Grows
<1>10. CASE LandRead(w)
    <2>1. at[s] \in {"entering", "reading"} /\ db' = db /\ mem' = [mem EXCEPT ![s] = db[u]]
        BY <1>0, <1>1, <1>3, <1>10, OnWire DEF LandRead, Head1
    <2>2. \A r \in Sids : UserOf[r] = u => ~Dirty(r)
        BY <1>0, <1>5, <1>6, <2>1 DEF VInv, Alone, Live, Dirty
    <2>3. db[u].ver = latest[u]
        BY <1>5, <2>2 DEF VInv, Settled
    <2>4. mem'[s] = db[u] /\ \A r \in Sids \ {s} : at'[r] = at[r] /\ mem'[r] = mem[r]
        BY <1>0, <1>1, <1>5, <1>10, <2>1 DEF LandRead, TInv, SesOK
    <2>5. db'[u].ver =< latest'[u] /\ db'[u].ver = latest'[u] /\ mem'[s].ver = latest'[u]
        BY <1>5, <1>6, <2>1, <2>3, <2>4
    <2>6. \A v \in Users \ {u} : db'[v] = db[v] /\ latest'[v] = latest[v] /\ bound'[v] = bound[v]
        BY <1>6, <2>1
    <2>7. \A x \in Services : \A d \in Range(wire'[x]) : d.sid = s => Newer(d)'
        BY <1>6, <1>8, <2>5
    <2>8. bound'[u] /\ \A x \in Services : \A d \in Range(wire'[x]) : d.sid # s => d \in Range(wire[x])
        BY <1>3, <1>6
    <2>9. Alone' /\ Settled' /\ NothingLost' /\ Pends'
        <3>1. u = UserOf[s] /\ s \in Sids /\ u \in Users /\ (Live(s) \/ ~bound[u]) /\ (Live(s)' => bound'[u])
            BY <1>0, <1>5, <1>6
        <3>2. (Holds(s)' => mem'[s].ver = latest'[u]) /\ (~Dirty(s)' => db'[u].ver = latest'[u])
            BY <2>5
        <3>3. \A t \in Sids \ {s} : at'[t] = at[t] /\ mem'[t] = mem[t]
            BY <2>4
        <3>4. db'[u].ver =< latest'[u]
            BY <2>5
        <3> QED BY <2>6, <2>7, <2>8, <3>1, <3>2, <3>3, <3>4, OneSession
    <2> QED BY <1>1, <2>1, <2>9, Vers DEF VInv, Grows
<1> QED BY <1>9, <1>10

LEMMA LeftVersions ==
    ASSUME VInv, NEW w \in Services, LandLeave(w)
    PROVE  VInv' /\ Grows
<1>0. PICK c, s, u : c = Head(wire[w]) /\ s = c.sid /\ u = UserOf[s]
    OBVIOUS
<1>1. TInv
    BY DEF VInv
<1>2. /\ TInv' /\ c \in Range(wire[w]) /\ c.kind = "leave" /\ s \in Sids /\ at[s] = "leaving"
      /\ at'[s] \in {"entering", "reading"} /\ \A r \in Sids \ {s} : at'[r] = at[r]
    BY <1>0, <1>1, LeftFacts
<1>3. \A v \in Services : \A d \in Range(wire'[v]) :
          (d \in Range(wire[v]) /\ d.sid # s) \/ (d.kind = "read" /\ d.sid = s)
    BY <1>0, <1>1, LeftFacts
<1>4. /\ u \in Users /\ c.doc \in Doc /\ Newer(c) /\ db[u].ver \in Nat /\ latest[u] \in Nat /\ c.doc.ver \in Nat
      /\ Live(s) /\ bound[u]
    BY <1>0, <1>1, <1>2, OnWire, Facts, Vers DEF VInv, Pends, Alone, Live
<1>5. db' = [db EXCEPT ![u] = c.doc] /\ mem' = mem /\ bound' = bound /\ latest' = latest
    BY <1>0 DEF LandLeave, Write
<1>6. db'[u] = c.doc /\ \A v \in Users \ {u} : db'[v] = db[v]
    BY <1>1, <1>4, <1>5 DEF TInv, DataOK
<1>7. c.doc.ver = latest[u] /\ db[u].ver =< c.doc.ver
    BY <1>0, <1>2, <1>4 DEF Newer
<1>8. ~Holds(s)'
    BY <1>2 DEF Holds
<1>9. \A v \in Services : \A d \in Range(wire'[v]) : d.sid = s => Newer(d)'
    BY <1>3 DEF Newer
<1>10. db'[u].ver =< latest'[u] /\ db'[u].ver = latest'[u]
    BY <1>4, <1>5, <1>6, <1>7
<1>11. \A v \in Services : \A d \in Range(wire'[v]) : d.sid # s => d \in Range(wire[v])
    BY <1>3
<1>12. /\ \A v \in Users \ {u} : db'[v] = db[v] /\ latest'[v] = latest[v] /\ bound'[v] = bound[v]
       /\ \A r \in Sids \ {s} : at'[r] = at[r] /\ mem'[r] = mem[r]
    BY <1>2, <1>5, <1>6
<1>13. bound'[u]
    BY <1>4, <1>5
<1>14. Alone' /\ Settled' /\ NothingLost' /\ Pends'
    BY <1>0, <1>2, <1>4, <1>8, <1>9, <1>10, <1>11, <1>12, <1>13, OneSession
<1> QED BY <1>1, <1>2, <1>4, <1>6, <1>7, <1>14, Vers DEF VInv, Grows

LEMMA ClearVersions ==
    ASSUME VInv, NEW s \in Sids, Clear(s)
    PROVE  VInv' /\ Grows
<1>0. PICK u : u = UserOf[s]
    OBVIOUS
<1>1. TInv /\ TInv' /\ u \in Users
    BY <1>0, ClearTypes, Facts DEF VInv
<1>2. at[s] = "clearing" /\ UNCHANGED <<mem, wire, db, latest>>
    BY DEF Clear
<1>3. \A x \in Services : \A d \in Range(wire[x]) : d.sid # s
    BY <1>1, <1>2, OnWire
<1>4. /\ at'[s] = "closed" /\ \A r \in Sids \ {s} : at'[r] = at[r]
      /\ \A v \in Users \ {u} : bound'[v] = bound[v]
    BY <1>0, <1>1 DEF Clear, TInv, SesOK, DataOK
<1>5. Live(s) /\ ~Live(s)' /\ ~Holds(s)'
    BY <1>2, <1>4 DEF Live, Holds
<1>6. \A r \in Sids : UserOf[r] = u => ~Dirty(r)
    BY <1>0, <1>2, <1>5 DEF VInv, Alone, Live, Dirty
<1>7. db[u].ver = latest[u] /\ db[u].ver =< latest[u]
    BY <1>1, <1>6 DEF VInv, Settled
<1>8. Alone' /\ Settled' /\ NothingLost' /\ Pends'
    BY <1>0, <1>1, <1>2, <1>3, <1>4, <1>5, <1>7, OneSession
<1> QED BY <1>1, <1>2, <1>8, Vers DEF VInv, Grows

\* What survives the end of the process is no older than what is in Redis.
LEMMA ExitVersions ==
    ASSUME VInv, Exit
    PROVE  VInv' /\ Grows
<1>1. TInv /\ TInv' /\ \A u \in Users : db'[u] \in Survives(u)
    BY ExitTypes DEF VInv
<1>2. \A u \in Users : \A d \in Survives(u) : d.ver >= db[u].ver
    <2> SUFFICES ASSUME NEW u \in Users, NEW d \in Survives(u) PROVE d.ver >= db[u].ver
        OBVIOUS
    <2>1. db[u].ver \in Nat /\ latest[u] \in Nat /\ db[u].ver =< latest[u]
        BY <1>1, Vers DEF VInv, Settled
    <2>2. CASE d = db[u]
        BY <2>1, <2>2
    <2>3. CASE d \in {c.doc : c \in Pending(u)}
        <3>0. PICK c \in Pending(u) : d = c.doc
            BY <2>3
        <3>1. PICK w \in Services : c \in Range(wire[w]) /\ d = c.doc /\ c.kind # "read" /\ UserOf[c.sid] = u
            BY <3>0 DEF Pending
        <3>2. Newer(c) /\ c.doc.ver \in Nat
            BY <1>1, <3>1, Vers DEF VInv, Pends
        <3> QED BY <2>1, <3>1, <3>2 DEF Newer
    <2>4. CASE d \in {mem[s] : s \in {s \in Sids : UserOf[s] = u /\ Holds(s)}}
        BY <2>1, <2>4 DEF VInv, NothingLost
    <2> QED BY <2>2, <2>3, <2>4 DEF Survives
<1>3. \A s \in Sids : ~Live(s)' /\ ~Dirty(s)' /\ ~Holds(s)'
    BY DEF Exit, Live, Dirty, Holds
<1>4. \A u \in Users : latest'[u] = db'[u].ver
    BY DEF Exit
<1>5. \A u \in Users : db'[u].ver \in Nat
    BY <1>1, Facts DEF TInv, DataOK
<1>6. Settled'
    BY <1>4, <1>5 DEF Settled
<1>7. Pends'
    BY DEF Exit, Pends, Range
<1> QED BY <1>1, <1>2, <1>3, <1>6, <1>7 DEF VInv, Grows, Alone, NothingLost

LEMMA StepVersions ==
    ASSUME ~Overtaken, VInv, [Next]_vars
    PROVE  VInv' /\ Grows
<1>1. CASE UNCHANGED vars
    <2>1. TInv'
        BY <1>1, StepTypes DEF VInv
    <2>2. UNCHANGED <<at, mem, wire, db, bound, latest>>
        BY <1>1 DEF vars
    <2>3. Alone' /\ Settled' /\ NothingLost' /\ Pends'
        BY <2>2 DEF VInv, Alone, Live, Settled, Dirty, NothingLost, Holds, Pends, Newer
    <2> QED BY <2>1, <2>2, <2>3, Vers DEF VInv, Grows
<1>2. CASE Next
    BY <1>2, LogInVersions, AskVersions, LastVersions, FlushVersions, PlayVersions, LandVersions,
       LeftVersions, ClearVersions, ExitVersions DEF Next
<1> QED BY <1>1, <1>2

\* Where no connection closes while its player is created, a player is in the memory
\* of one worker, and there with every change that was ever made to it
\* (servicebase.ts:128).
THEOREM PlayerIsWhole == ASSUME ~Overtaken PROVE Spec => []NothingLost
<1>1. Init => VInv
    BY InitVersions
<1>2. VInv /\ [Next]_vars => VInv'
    BY StepVersions
<1>3. VInv => NothingLost
    BY DEF VInv
<1> QED BY <1>1, <1>2, <1>3, PTL DEF Spec

\* Nor does any write, or what is left of the writes when the process ends, put an
\* older document in the place of a newer one (player.ts:211).
THEOREM WritesGoOn == ASSUME ~Overtaken PROVE Spec => NeverOlder
<1>1. Init => VInv
    BY InitVersions
<1>2. VInv /\ [Next]_vars => VInv' /\ [Grows]_db
    BY StepVersions
<1> QED BY <1>1, <1>2, PTL DEF Spec, NeverOlder, Grows

-----------------------------------------------------------------------------
(***************************************************************************)
(* The maps: who is on one, under which number, and who sees whom.  A      *)
(* number is in use, waits to be used again, or was not given yet.         *)
(***************************************************************************)
Distinct(f) == \A i, j \in DOMAIN f : i # j => f[i] # f[j]
On(z, m) == {s \in Sids : z.on[s] = m}
Others(z, m, s) == {See(z.inst[t], UserOf[t], z.ver[t]) : t \in On(z, m) \ {s}}

MapOK(z, m) ==
    LET map == z.maps[m] IN
    /\ map.sids = On(z, m)
    /\ \A u \in Users : map.players[u] # NoSid =>
          z.on[map.players[u]] = m /\ UserOf[map.players[u]] = u
    /\ \A s \in On(z, m) :
          /\ map.players[UserOf[s]] = s
          /\ z.inst[s] < map.seed /\ z.inst[s] \notin Range(map.free)
          /\ \A t \in On(z, m) : s # t => z.inst[s] # z.inst[t]
    /\ Distinct(map.free)
    /\ \A i \in Range(map.free) : i < map.seed
SeenOK(z, m) == \A s \in On(z, m) : z.view[s] = Others(z, m, s)
ZoneFits(z) == \A m \in Maps : MapOK(z, m) /\ SeenOK(z, m)

\* The last number that waits is taken off, or another is put behind it.
LEMMA TakeOff ==
    ASSUME NEW f \in Seq(Nat), f # <<>>, Distinct(f)
    PROVE  /\ Front(f) \in Seq(Nat) /\ Distinct(Front(f)) /\ Range(Front(f)) \subseteq Range(f)
           /\ Last(f) \in Range(f) /\ Last(f) \notin Range(Front(f)) /\ Last(f) \in Nat
<1>0. PICK n, g : n = Len(f) /\ g = SubSeq(f, 1, n - 1)
    OBVIOUS
<1>1. n \in Nat /\ n > 0 /\ DOMAIN f = 1..n /\ n \in DOMAIN f
    BY <1>0
<1>2. g \in Seq(Nat) /\ DOMAIN g = 1..(n - 1) /\ \A i \in 1..(n - 1) : g[i] = f[i] /\ i \in DOMAIN f /\ i # n
    <2>1. n - 1 \in 0..n /\ \A i \in 1..(n - 1) : i \in 1..n /\ i # n
        BY <1>1
    <2>2. g \in Seq(Nat) /\ DOMAIN g = 1..(n - 1) /\ \A i \in 1..(n - 1) : g[i] = f[i]
        <3>1. n - 1 \in Int /\ 1 \in Int /\ n - 1 >= 0 /\ \A i \in 1..(n - 1) : f[i] \in Nat
            BY <1>1, <2>1
        <3>2. /\ g \in Seq(Nat) /\ Len(g) = IF 1 =< n - 1 THEN n - 1 - 1 + 1 ELSE 0
              /\ \A i \in 1..(n - 1 - 1 + 1) : g[i] = f[1 + i - 1]
            BY <1>0, <3>1, SubSeqProperties
        <3> QED BY <1>1, <3>1, <3>2
    <2> QED BY <1>1, <2>1, <2>2
<1>3. Front(f) = g /\ Last(f) = f[n]
    BY <1>0 DEF Front, Last
<1>4. Distinct(g) /\ Range(g) \subseteq Range(f)
    BY <1>2 DEF Distinct, Range
<1>5. f[n] \notin Range(g)
    BY <1>1, <1>2 DEF Distinct, Range
<1>6. f[n] \in Range(f) /\ f[n] \in Nat
    BY <1>1 DEF Range
<1> QED BY <1>2, <1>3, <1>4, <1>5, <1>6

LEMMA PutOn ==
    ASSUME NEW f \in Seq(Nat), Distinct(f), NEW i \in Nat, i \notin Range(f)
    PROVE  Distinct(Append(f, i)) /\ Range(Append(f, i)) = Range(f) \cup {i}
<1> DEFINE n == Len(f)
           g == Append(f, i)
<1>1. n \in Nat /\ DOMAIN f = 1..n /\ DOMAIN g = 1..(n + 1) /\ g[n + 1] = i /\ \A k \in 1..n : g[k] = f[k]
    OBVIOUS
<1> HIDE DEF g, n
<1>2. \A k \in 1..(n + 1) : k \in 1..n \/ k = n + 1
    BY <1>1
<1>3. 1..n \subseteq 1..(n + 1) /\ n + 1 \in 1..(n + 1)
    BY <1>1
<1>4. \A k \in DOMAIN f : f[k] # i
    BY DEF Range
<1>5. Distinct(g)
    <2> SUFFICES ASSUME NEW j \in DOMAIN g, NEW k \in DOMAIN g, j # k PROVE g[j] # g[k]
        BY DEF Distinct
    <2>1. (j \in 1..n \/ j = n + 1) /\ (k \in 1..n \/ k = n + 1)
        BY <1>1, <1>2
    <2> QED BY <1>1, <1>4, <2>1 DEF Distinct
<1>6. Range(g) = Range(f) \cup {i}
    BY <1>1, <1>2, <1>3 DEF Range
<1> QED BY <1>5, <1>6 DEF g

\* The number a newcomer gets is nobody's.
LEMMA NewNumber ==
    ASSUME NEW z \in Zone, NEW m \in Maps, MapOK(z, m),
           NEW i, i = Instid(z.maps[m]),
           NEW f, f = IF z.maps[m].free # <<>> THEN Front(z.maps[m].free) ELSE <<>>,
           NEW e, e = IF z.maps[m].free # <<>> THEN z.maps[m].seed ELSE z.maps[m].seed + 1
    PROVE  /\ i \in Nat /\ i < e /\ \A t \in On(z, m) : z.inst[t] # i /\ z.inst[t] < e
           /\ Distinct(f) /\ Range(f) \subseteq Range(z.maps[m].free) /\ i \notin Range(f)
           /\ \A j \in Range(f) : j < e
<1> DEFINE map == z.maps[m]
<1>1. map.free \in Seq(Nat) /\ map.seed \in Nat /\ \A t \in Sids : z.inst[t] \in Nat
    BY DEF Zone, Map
<1>2. /\ Distinct(map.free) /\ \A j \in Range(map.free) : j < map.seed
      /\ \A t \in On(z, m) : t \in Sids /\ z.inst[t] < map.seed /\ z.inst[t] \notin Range(map.free)
    BY DEF MapOK, On
<1>3. CASE map.free = <<>>
    <2>1. f = <<>> /\ i = map.seed /\ e = map.seed + 1
        BY <1>3 DEF Instid
    <2>2. Range(f) = {} /\ Distinct(f)
        BY <2>1 DEF Range, Distinct
    <2>3. i < e /\ \A t \in On(z, m) : z.inst[t] # i /\ z.inst[t] < e
        BY <1>1, <1>2, <2>1
    <2> QED BY <1>1, <2>1, <2>2, <2>3
<1>4. CASE map.free # <<>>
    <2>1. f = Front(map.free) /\ i = Last(map.free) /\ e = map.seed
        BY <1>4 DEF Instid
    <2>2. Distinct(f) /\ Range(f) \subseteq Range(map.free) /\ i \in Range(map.free) /\ i \notin Range(f) /\ i \in Nat
        BY <1>1, <1>2, <1>4, <2>1, TakeOff
    <2> QED BY <1>2, <2>1, <2>2
<1> QED BY <1>3, <1>4

\* A player that is on no map comes on one where its user is not.
LEMMA AddedFits ==
    ASSUME NEW z \in Zone, ZoneFits(z), NEW s \in Sids, NEW m \in Maps,
           z.on[s] = NoMap, \A t \in On(z, m) : UserOf[t] # UserOf[s]
    PROVE  ZoneFits(Added(z, s, m))
<1>1. PICK map, u, i, f, e :
          /\ map = z.maps[m] /\ u = UserOf[s] /\ i = Instid(map)
          /\ f = IF map.free # <<>> THEN Front(map.free) ELSE <<>>
          /\ e = IF map.free # <<>> THEN map.seed ELSE map.seed + 1
    OBVIOUS
<1>2. PICK r : r = Added(z, s, m)
    OBVIOUS
<1>3. /\ r.maps = [z.maps EXCEPT ![m] = [players |-> [map.players EXCEPT ![u] = s],
                                         sids |-> map.sids \cup {s}, free |-> f, seed |-> e]]
      /\ r.on = [z.on EXCEPT ![s] = m] /\ r.inst = [z.inst EXCEPT ![s] = i] /\ r.ver = z.ver
      /\ \A t \in Sids : r.view[t] =
            IF t = s THEN Forget({See(z.inst[x], UserOf[x], z.ver[x]) :
                                     x \in {map.players[v] : v \in Users} \ {NoSid}}, i)
            ELSE IF t \in map.sids THEN Forget(z.view[t], i) \cup {See(i, u, z.ver[s])}
            ELSE z.view[t]
    BY <1>1, <1>2 DEF Added
<1>4. m # NoMap /\ s # NoSid /\ u \in Users /\ map \in Map /\ NoSid \notin Sids
    BY <1>1, Facts DEF Zone
<1>5. /\ r.on[s] = m /\ r.inst[s] = i /\ \A t \in Sids \ {s} : r.on[t] = z.on[t] /\ r.inst[t] = z.inst[t]
      /\ On(r, m) = On(z, m) \cup {s} /\ s \notin On(z, m) /\ \A x \in Maps \ {m} : On(r, x) = On(z, x) /\ s \notin On(z, x)
    BY <1>3, <1>4, Facts DEF Zone, On
<1>6. /\ r.maps[m].players = [map.players EXCEPT ![u] = s] /\ r.maps[m].sids = map.sids \cup {s}
      /\ r.maps[m].free = f /\ r.maps[m].seed = e /\ \A x \in Maps \ {m} : r.maps[x] = z.maps[x]
    BY <1>3 DEF Zone
<1>7. MapOK(z, m) /\ SeenOK(z, m) /\ \A x \in Maps : MapOK(z, x) /\ SeenOK(z, x)
    BY DEF ZoneFits
<1>8. /\ i \in Nat /\ i < e /\ \A t \in On(z, m) : z.inst[t] # i /\ z.inst[t] < e
      /\ Distinct(f) /\ Range(f) \subseteq Range(map.free) /\ i \notin Range(f)
      /\ \A j \in Range(f) : j < e
    <2>1. /\ i = Instid(z.maps[m]) /\ f = IF z.maps[m].free # <<>> THEN Front(z.maps[m].free) ELSE <<>>
          /\ e = IF z.maps[m].free # <<>> THEN z.maps[m].seed ELSE z.maps[m].seed + 1
          /\ map = z.maps[m]
        BY <1>1
    <2> QED BY <1>7, <2>1, NewNumber
<1>9. /\ map.sids = On(z, m)
      /\ \A v \in Users : map.players[v] # NoSid => map.players[v] \in On(z, m) /\ UserOf[map.players[v]] = v
      /\ \A t \in On(z, m) : map.players[UserOf[t]] = t /\ UserOf[t] \in Users /\ UserOf[t] # u /\ t \in Sids
    <2>1. map.sids = On(z, m) /\ \A t \in On(z, m) : map.players[UserOf[t]] = t
        BY <1>1, <1>7 DEF MapOK
    <2>2. \A v \in Users : map.players[v] # NoSid =>
              map.players[v] \in Sids /\ z.on[map.players[v]] = m /\ UserOf[map.players[v]] = v
        <3>1. \A v \in Users : map.players[v] # NoSid => z.on[map.players[v]] = m /\ UserOf[map.players[v]] = v
            BY <1>1, <1>7 DEF MapOK
        <3>2. \A v \in Users : map.players[v] \in Sids \cup {NoSid}
            BY <1>4 DEF Map
        <3> QED BY <3>1, <3>2
    <2>3. \A t \in On(z, m) : t \in Sids /\ UserOf[t] \in Users /\ UserOf[t] # u
        BY <1>1, Facts DEF On
    <2> QED BY <2>1, <2>2, <2>3 DEF On
<1>10. /\ r.maps[m].players[u] = s
       /\ \A v \in Users \ {u} : r.maps[m].players[v] = map.players[v]
    BY <1>4, <1>6 DEF Map
<1>11. MapOK(r, m)
    <2>1. r.maps[m].sids = On(r, m)
        BY <1>5, <1>6, <1>9
    <2>2. \A v \in Users : r.maps[m].players[v] # NoSid =>
              r.on[r.maps[m].players[v]] = m /\ UserOf[r.maps[m].players[v]] = v
        <3> SUFFICES ASSUME NEW v \in Users, r.maps[m].players[v] # NoSid
                     PROVE  r.on[r.maps[m].players[v]] = m /\ UserOf[r.maps[m].players[v]] = v
            OBVIOUS
        <3>1. CASE v = u
            BY <1>1, <1>5, <1>10, <3>1
        <3>2. CASE v # u
            <4>1. map.players[v] \in On(z, m) /\ UserOf[map.players[v]] = v /\ r.maps[m].players[v] = map.players[v]
                BY <1>9, <1>10, <3>2
            <4> QED BY <1>5, <4>1 DEF On
        <3> QED BY <3>1, <3>2
    <2>3. ASSUME NEW t \in On(r, m)
          PROVE  /\ r.maps[m].players[UserOf[t]] = t
                 /\ r.inst[t] < e /\ r.inst[t] \notin Range(f)
                 /\ \A x \in On(r, m) : t # x => r.inst[t] # r.inst[x]
        <3>1. CASE t = s
            BY <1>1, <1>5, <1>8, <1>9, <1>10, <3>1
        <3>2. CASE t # s
            <4>1. t \in On(z, m) /\ r.inst[t] = z.inst[t]
                BY <1>5, <2>3, <3>2 DEF On
            <4>2. z.inst[t] \notin Range(map.free) /\ \A x \in On(z, m) : t # x => z.inst[t] # z.inst[x]
                BY <1>1, <1>7, <4>1 DEF MapOK
            <4>3. \A x \in On(r, m) : t # x => r.inst[t] # r.inst[x]
                BY <1>5, <1>8, <1>9, <4>1, <4>2
            <4> QED BY <1>8, <1>9, <1>10, <4>1, <4>2, <4>3
        <3> QED BY <3>1, <3>2
    <2> QED BY <1>6, <1>8, <2>1, <2>2, <2>3 DEF MapOK
<1>12. \A x \in Maps \ {m} : MapOK(r, x)
    <2> SUFFICES ASSUME NEW x \in Maps \ {m} PROVE MapOK(r, x)
        OBVIOUS
    <2>1. MapOK(z, x) /\ r.maps[x] = z.maps[x] /\ On(r, x) = On(z, x)
        BY <1>5, <1>6, <1>7
    <2>2. \A t \in On(z, x) : t \in Sids /\ r.inst[t] = z.inst[t] /\ r.on[t] = x
        BY <1>5 DEF On
    <2>3. \A v \in Users : z.maps[x].players[v] # NoSid => z.maps[x].players[v] \in On(z, x)
        BY <2>1 DEF MapOK, On, Zone, Map
    <2>4. \A v \in Users : r.maps[x].players[v] # NoSid =>
              r.on[r.maps[x].players[v]] = x /\ UserOf[r.maps[x].players[v]] = v
        BY <2>1, <2>2, <2>3 DEF MapOK
    <2> QED BY <2>1, <2>2, <2>4 DEF MapOK
<1>13. \A x \in Maps \ {m} : SeenOK(r, x)
    <2> SUFFICES ASSUME NEW x \in Maps \ {m}, NEW t \in On(r, x) PROVE r.view[t] = Others(r, x, t)
        BY DEF SeenOK
    <2>1. On(r, x) = On(z, x) /\ t \in Sids /\ t # s /\ t \notin On(z, m)
        BY <1>5 DEF On
    <2>2. r.view[t] = Others(z, x, t)
        BY <1>3, <1>7, <1>9, <2>1 DEF SeenOK
    <2>3. \A y \in On(z, x) \ {t} : See(r.inst[y], UserOf[y], r.ver[y]) = See(z.inst[y], UserOf[y], z.ver[y])
        BY <1>3, <1>5 DEF On
    <2> QED BY <2>1, <2>2, <2>3 DEF Others
<1>14. SeenOK(r, m)
    <2> SUFFICES ASSUME NEW t \in On(r, m) PROVE r.view[t] = Others(r, m, t)
        BY DEF SeenOK
    <2>1. \A x \in On(z, m) : x # s /\ See(r.inst[x], UserOf[x], r.ver[x]) = See(z.inst[x], UserOf[x], z.ver[x])
                              /\ See(z.inst[x], UserOf[x], z.ver[x]).inst # i
        BY <1>3, <1>5, <1>8 DEF On, See
    <2>2. CASE t = s
        <3>1. {map.players[v] : v \in Users} \ {NoSid} = On(z, m)
            BY <1>4, <1>9
        <3>2. r.view[s] = Forget({See(z.inst[x], UserOf[x], z.ver[x]) : x \in On(z, m)}, i)
            BY <1>3, <3>1
        <3>3. Others(r, m, s) = {See(z.inst[x], UserOf[x], z.ver[x]) : x \in On(z, m)}
            <4>1. On(r, m) \ {s} = On(z, m)
                BY <1>5
            <4> QED BY <2>1, <4>1 DEF Others
        <3> QED BY <2>1, <2>2, <3>2, <3>3 DEF Forget
    <2>3. CASE t # s
        <3>1. t \in On(z, m) /\ t \in Sids /\ t \in map.sids
            BY <1>5, <1>9, <2>3 DEF On
        <3>2. r.view[t] = Forget(Others(z, m, t), i) \cup {See(i, u, z.ver[s])}
            BY <1>3, <1>7, <2>3, <3>1 DEF SeenOK
        <3>3. Forget(Others(z, m, t), i) = Others(z, m, t)
            BY <2>1 DEF Forget, Others
        <3>4. On(r, m) \ {t} = (On(z, m) \ {t}) \cup {s}
            BY <1>5, <2>3
        <3>5. Others(r, m, t) = Others(z, m, t) \cup {See(r.inst[s], UserOf[s], r.ver[s])}
            BY <2>1, <3>4 DEF Others
        <3> QED BY <1>1, <1>3, <1>5, <3>2, <3>3, <3>5
    <2> QED BY <2>2, <2>3
<1> QED BY <1>2, <1>11, <1>12, <1>13, <1>14 DEF ZoneFits

\* Who goes off a map leaves its number, and the others are told.
LEMMA RemovedFits ==
    ASSUME NEW z \in Zone, ZoneFits(z), NEW s \in Sids
    PROVE  ZoneFits(Removed(z, s))
<1>1. CASE z.on[s] = NoMap
    BY <1>1 DEF Removed
<1>2. CASE z.on[s] # NoMap
    <2>0. PICK m, map, u, i, r :
              m = z.on[s] /\ map = z.maps[m] /\ u = UserOf[s] /\ i = z.inst[s] /\ r = Removed(z, s)
        OBVIOUS
    <2>1. m \in Maps /\ map \in Map /\ u \in Users /\ i \in Nat /\ s # NoSid /\ m # NoMap
        BY <1>2, <2>0, Facts DEF Zone
    <2>2. /\ r.maps = [z.maps EXCEPT ![m] = [players |-> [map.players EXCEPT ![u] = NoSid],
                                             sids |-> map.sids \ {s},
                                             free |-> Append(map.free, i), seed |-> map.seed]]
          /\ r.on = [z.on EXCEPT ![s] = NoMap] /\ r.inst = [z.inst EXCEPT ![s] = 0] /\ r.ver = z.ver
          /\ \A t \in Sids : r.view[t] = IF t = s THEN {} ELSE IF t \in map.sids
                                         THEN Forget(z.view[t], i) ELSE z.view[t]
        <3>1. Removed(z, s) =
                [z EXCEPT !.maps = [z.maps EXCEPT ![m] = [players |-> [map.players EXCEPT ![u] = NoSid],
                                                          sids |-> map.sids \ {s},
                                                          free |-> Append(map.free, i), seed |-> map.seed]],
                          !.on = [z.on EXCEPT ![s] = NoMap], !.inst = [z.inst EXCEPT ![s] = 0],
                          !.view = [t \in Sids |-> IF t = s THEN {} ELSE IF t \in map.sids
                                                   THEN Forget(z.view[t], i) ELSE z.view[t]]]
            BY <1>2, <2>0 DEF Removed
        <3>2. /\ r.maps = [z.maps EXCEPT ![m] = [players |-> [map.players EXCEPT ![u] = NoSid],
                                                 sids |-> map.sids \ {s},
                                                 free |-> Append(map.free, i), seed |-> map.seed]]
              /\ r.on = [z.on EXCEPT ![s] = NoMap] /\ r.inst = [z.inst EXCEPT ![s] = 0] /\ r.ver = z.ver
            BY <2>0, <3>1 DEF Zone
        <3>3. r.view = [t \in Sids |-> IF t = s THEN {} ELSE IF t \in map.sids
                                                 THEN Forget(z.view[t], i) ELSE z.view[t]]
            BY <2>0, <3>1 DEF Zone
        <3> QED BY <3>2, <3>3
    <2>3. /\ r.on[s] = NoMap /\ \A t \in Sids \ {s} : r.on[t] = z.on[t] /\ r.inst[t] = z.inst[t]
          /\ On(r, m) = On(z, m) \ {s} /\ s \in On(z, m)
          /\ \A x \in Maps \ {m} : On(r, x) = On(z, x) /\ s \notin On(z, x)
        BY <2>0, <2>1, <2>2, Facts DEF Zone, On
    <2>4. /\ r.maps[m].players = [map.players EXCEPT ![u] = NoSid] /\ r.maps[m].sids = map.sids \ {s}
          /\ r.maps[m].free = Append(map.free, i) /\ r.maps[m].seed = map.seed
          /\ \A x \in Maps \ {m} : r.maps[x] = z.maps[x]
        BY <2>1, <2>2 DEF Zone
    <2>5. \A x \in Maps : MapOK(z, x) /\ SeenOK(z, x)
        BY DEF ZoneFits
    <2>6. /\ map.sids = On(z, m) /\ Distinct(map.free) /\ i \notin Range(map.free) /\ i < map.seed
          /\ \A v \in Users : map.players[v] # NoSid => map.players[v] \in On(z, m) /\ UserOf[map.players[v]] = v
          /\ \A t \in On(z, m) : /\ map.players[UserOf[t]] = t /\ UserOf[t] \in Users /\ t \in Sids
                                 /\ z.inst[t] < map.seed /\ z.inst[t] \notin Range(map.free)
                                 /\ \A x \in On(z, m) : t # x => z.inst[t] # z.inst[x]
          /\ \A j \in Range(map.free) : j < map.seed
        <3>1. MapOK(z, m)
            BY <2>1, <2>5
        <3>2. \A v \in Users : map.players[v] # NoSid => map.players[v] \in On(z, m) /\ UserOf[map.players[v]] = v
            <4>1. \A v \in Users : map.players[v] # NoSid => z.on[map.players[v]] = m /\ UserOf[map.players[v]] = v
                BY <2>0, <3>1 DEF MapOK
            <4>2. \A v \in Users : map.players[v] \in Sids \cup {NoSid}
                BY <2>1 DEF Map
            <4> QED BY <4>1, <4>2 DEF On
        <3>3. /\ map.sids = On(z, m) /\ Distinct(map.free) /\ \A j \in Range(map.free) : j < map.seed
              /\ \A t \in On(z, m) : /\ map.players[UserOf[t]] = t /\ z.inst[t] < map.seed
                                     /\ z.inst[t] \notin Range(map.free)
                                     /\ \A x \in On(z, m) : t # x => z.inst[t] # z.inst[x]
            BY <2>0, <3>1 DEF MapOK
        <3>4. \A t \in On(z, m) : t \in Sids /\ UserOf[t] \in Users
            BY Facts DEF On
        <3>5. i \notin Range(map.free) /\ i < map.seed
            BY <2>0, <2>3, <3>3
        <3> QED BY <3>2, <3>3, <3>4, <3>5
    <2>7. Distinct(r.maps[m].free) /\ Range(r.maps[m].free) = Range(map.free) \cup {i}
        BY <2>1, <2>4, <2>6, PutOn DEF Map
    <2>8. \A v \in Users : r.maps[m].players[v] = IF v = u THEN NoSid ELSE map.players[v]
        BY <2>1, <2>4 DEF Map
    <2>9. MapOK(r, m)
        <3>1. r.maps[m].sids = On(r, m)
            BY <2>3, <2>4, <2>6
        <3>2. ASSUME NEW v \in Users, r.maps[m].players[v] # NoSid
              PROVE  r.on[r.maps[m].players[v]] = m /\ UserOf[r.maps[m].players[v]] = v
            <4>1. v # u /\ r.maps[m].players[v] = map.players[v]
                BY <2>8, <3>2
            <4>2. map.players[v] \in On(z, m) /\ UserOf[map.players[v]] = v /\ map.players[v] # s
                BY <2>0, <2>6, <3>2, <4>1
            <4> QED BY <2>3, <4>1, <4>2 DEF On
        <3>3. ASSUME NEW t \in On(r, m)
              PROVE  /\ r.maps[m].players[UserOf[t]] = t
                     /\ r.inst[t] < map.seed /\ r.inst[t] \notin Range(map.free) \cup {i}
                     /\ \A x \in On(r, m) : t # x => r.inst[t] # r.inst[x]
            <4>1. t \in On(z, m) /\ t # s /\ t \in Sids /\ r.inst[t] = z.inst[t]
                BY <2>3, <3>3 DEF On
            <4>0. /\ map.players[UserOf[t]] = t /\ map.players[UserOf[s]] = s
                  /\ \A x \in On(z, m) : t # x => z.inst[t] # z.inst[x]
                BY <2>3, <2>6, <4>1
            <4>2. UserOf[t] # u
                BY <2>0, <4>0, <4>1
            <4>3. z.inst[t] # i
                BY <2>0, <2>3, <4>0, <4>1
            <4>4. \A x \in On(r, m) : x \in On(z, m) /\ r.inst[x] = z.inst[x]
                BY <2>3 DEF On
            <4> QED BY <2>6, <2>8, <4>1, <4>2, <4>3, <4>4
        <3>4. \A j \in Range(r.maps[m].free) : j < map.seed
            BY <2>6, <2>7
        <3> QED BY <2>4, <2>7, <3>1, <3>2, <3>3, <3>4 DEF MapOK
    <2>10. \A x \in Maps \ {m} : MapOK(r, x)
        <3> SUFFICES ASSUME NEW x \in Maps \ {m} PROVE MapOK(r, x)
            OBVIOUS
        <3>1. MapOK(z, x) /\ r.maps[x] = z.maps[x] /\ On(r, x) = On(z, x)
            BY <2>3, <2>4, <2>5
        <3>2. \A t \in On(z, x) : t \in Sids /\ r.inst[t] = z.inst[t] /\ r.on[t] = x
            BY <2>3 DEF On
        <3>3. \A v \in Users : z.maps[x].players[v] # NoSid => z.maps[x].players[v] \in On(z, x)
            BY <3>1 DEF MapOK, On, Zone, Map
        <3>4. \A v \in Users : r.maps[x].players[v] # NoSid =>
                  r.on[r.maps[x].players[v]] = x /\ UserOf[r.maps[x].players[v]] = v
            BY <3>1, <3>2, <3>3 DEF MapOK
        <3> QED BY <3>1, <3>2, <3>4 DEF MapOK
    <2>11. \A x \in Maps \ {m} : SeenOK(r, x)
        <3> SUFFICES ASSUME NEW x \in Maps \ {m}, NEW t \in On(r, x) PROVE r.view[t] = Others(r, x, t)
            BY DEF SeenOK
        <3>1. On(r, x) = On(z, x) /\ t \in Sids /\ t # s /\ t \notin On(z, m)
            BY <2>3 DEF On
        <3>2. r.view[t] = Others(z, x, t)
            BY <2>2, <2>5, <2>6, <3>1 DEF SeenOK
        <3>3. \A y \in On(z, x) \ {t} : See(r.inst[y], UserOf[y], r.ver[y]) = See(z.inst[y], UserOf[y], z.ver[y])
            BY <2>2, <2>3 DEF On
        <3> QED BY <3>1, <3>2, <3>3 DEF Others
    <2>12. SeenOK(r, m)
        <3> SUFFICES ASSUME NEW t \in On(r, m) PROVE r.view[t] = Others(r, m, t)
            BY DEF SeenOK
        <3>1. t \in On(z, m) /\ t # s /\ t \in Sids /\ t \in map.sids
            BY <2>3, <2>6 DEF On
        <3>2. r.view[t] = Forget(Others(z, m, t), i)
            BY <2>1, <2>2, <2>5, <3>1 DEF SeenOK
        <3>3. \A x \in On(r, m) : See(r.inst[x], UserOf[x], r.ver[x]) = See(z.inst[x], UserOf[x], z.ver[x])
            BY <2>2, <2>3 DEF On
        <3>4. \A x \in On(z, m) : See(z.inst[x], UserOf[x], z.ver[x]).inst # i <=> x # s
            BY <2>0, <2>3, <2>6 DEF See
        <3>5. On(r, m) \ {t} = {x \in On(z, m) \ {t} : x # s}
            BY <2>3
        <3> QED BY <3>2, <3>3, <3>4, <3>5 DEF Forget, Others
    <2> QED BY <2>0, <2>9, <2>10, <2>11, <2>12 DEF ZoneFits
<1> QED BY <1>1, <1>2

\* The looks of who is on no map are nobody's to see.
LEMMA GoneFits ==
    ASSUME NEW z \in Zone, ZoneFits(z), NEW s \in Sids
    PROVE  ZoneFits(Gone(z, s))
<1>1. PICK r, g : r = Removed(z, s) /\ g = Gone(z, s)
    OBVIOUS
<1>2. r \in Zone /\ r.on = [z.on EXCEPT ![s] = NoMap] /\ ZoneFits(r)
    BY <1>1, RemovedType, RemovedFits
<1>3. /\ g.maps = r.maps /\ g.on = r.on /\ g.inst = r.inst /\ g.view = r.view
      /\ \A t \in Sids \ {s} : g.ver[t] = r.ver[t]
    BY <1>1, <1>2 DEF Gone, Zone
<1>4. \A m \in Maps : On(g, m) = On(r, m) /\ s \notin On(r, m)
    BY <1>2, <1>3, Facts DEF On, Zone
<1>5. \A m \in Maps : MapOK(g, m)
    BY <1>2, <1>3, <1>4 DEF ZoneFits, MapOK
<1>6. \A m \in Maps : SeenOK(g, m)
    <2> SUFFICES ASSUME NEW m \in Maps, NEW t \in On(g, m) PROVE g.view[t] = Others(g, m, t)
        BY DEF SeenOK
    <2>1. g.view[t] = Others(r, m, t)
        BY <1>2, <1>3, <1>4 DEF ZoneFits, SeenOK
    <2>2. \A x \in On(g, m) : See(g.inst[x], UserOf[x], g.ver[x]) = See(r.inst[x], UserOf[x], r.ver[x])
        BY <1>3, <1>4 DEF On
    <2> QED BY <1>4, <2>1, <2>2 DEF Others
<1> QED BY <1>1, <1>5, <1>6 DEF ZoneFits

\* Who looks different is seen so by all on its map.
LEMMA ChangedFits ==
    ASSUME NEW z \in Zone, ZoneFits(z), NEW s \in Sids, z.on[s] # NoMap
    PROVE  ZoneFits(Changed(z, s))
<1>1. PICK m, n, g : m = z.on[s] /\ n = z.ver[s] + 1 /\ g = Changed(z, s)
    OBVIOUS
<1>2. m \in Maps /\ s \in On(z, m) /\ \A x \in Maps \ {m} : s \notin On(z, x)
    BY <1>1 DEF Zone, On
<1>3. /\ g.maps = z.maps /\ g.on = z.on /\ g.inst = z.inst /\ g.ver[s] = n
      /\ \A t \in Sids \ {s} : g.ver[t] = z.ver[t]
      /\ \A t \in Sids : g.view[t] = IF t \in z.maps[m].sids
              THEN {IF e.user = UserOf[s] THEN [e EXCEPT !.ver = n] ELSE e : e \in z.view[t]} ELSE z.view[t]
    BY <1>1 DEF Changed, Zone
<1>4. \A x \in Maps : On(g, x) = On(z, x) /\ MapOK(z, x) /\ SeenOK(z, x) /\ z.maps[x].sids = On(z, x)
    BY <1>3 DEF On, ZoneFits, MapOK
<1>5. \A x \in Maps : MapOK(g, x)
    BY <1>3, <1>4 DEF MapOK
<1>6. \A t \in On(z, m) : t # s => UserOf[t] # UserOf[s]
    BY <1>2, <1>4 DEF MapOK
<1>7. \A x \in Maps \ {m} : SeenOK(g, x)
    <2> SUFFICES ASSUME NEW x \in Maps \ {m}, NEW t \in On(g, x) PROVE g.view[t] = Others(g, x, t)
        BY DEF SeenOK
    <2>1. t \in On(z, x) /\ t \in Sids /\ t \notin On(z, m)
        BY <1>4 DEF On
    <2>2. g.view[t] = Others(z, x, t)
        BY <1>2, <1>3, <1>4, <2>1 DEF SeenOK
    <2>3. \A y \in On(z, x) : See(g.inst[y], UserOf[y], g.ver[y]) = See(z.inst[y], UserOf[y], z.ver[y])
        BY <1>2, <1>3 DEF On
    <2> QED BY <1>4, <2>2, <2>3 DEF Others
<1>8. SeenOK(g, m)
    <2> SUFFICES ASSUME NEW t \in On(g, m) PROVE g.view[t] = Others(g, m, t)
        BY DEF SeenOK
    <2>1. t \in On(z, m) /\ t \in Sids /\ On(g, m) = On(z, m)
        BY <1>2, <1>4 DEF On
    <2> DEFINE New(e) == IF e.user = UserOf[s] THEN [e EXCEPT !.ver = n] ELSE e
    <2>2. g.view[t] = {New(e) : e \in Others(z, m, t)}
        BY <1>2, <1>3, <1>4, <2>1 DEF SeenOK
    <2>3. \A y \in On(z, m) : New(See(z.inst[y], UserOf[y], z.ver[y])) = See(g.inst[y], UserOf[y], g.ver[y])
        BY <1>3, <1>6 DEF On, See
    <2> HIDE DEF New
    <2> QED BY <2>1, <2>2, <2>3 DEF Others
<1> QED BY <1>1, <1>2, <1>5, <1>7, <1>8 DEF ZoneFits

LEMMA NewZoneFits == ZoneFits(NewZone)
<1>1. \A m \in Maps : On(NewZone, m) = {}
    BY Facts DEF On, NewZone
<1>2. \A m \in Maps : NewZone.maps[m] = NewMap
    BY DEF NewZone
<1>3. /\ NewMap.sids = {} /\ NewMap.free = <<>> /\ \A u \in Users : NewMap.players[u] = NoSid
    BY DEF NewMap
<1>4. Distinct(NewMap.free) /\ Range(NewMap.free) = {}
    BY <1>3 DEF Distinct, Range
<1>5. \A m \in Maps : MapOK(NewZone, m)
    BY <1>1, <1>2, <1>3, <1>4 DEF MapOK
<1> QED BY <1>1, <1>5 DEF ZoneFits, SeenOK

\* A map's players are its worker's, and so is who is about to come on it.
WhereOK ==
    \A s \in Sids :
        /\ zone.on[s] # NoMap => worker[s] = WorkerOf[zone.on[s]]
        /\ at[s] = "firstin" => worker[s] = WorkerOf[mem[s].map]
MInv == VInv /\ WhereOK /\ ZoneFits(zone)
Mapped == WhereOK' /\ ZoneFits(zone)'

\* Who is on a map is the only live session of its user.
LEMMA OnlyOne ==
    ASSUME MInv, NEW s \in Sids, Live(s), NEW m \in Maps, NEW t \in On(zone, m), t # s
    PROVE  UserOf[t] # UserOf[s]
<1>1. t \in Sids /\ at[t] = "in"
    BY Facts DEF MInv, VInv, TInv, ZoneOK, On
<1> QED BY <1>1 DEF MInv, VInv, Alone, Live

LEMMA MapsStay ==
    ASSUME MInv, zone' = zone, \A s \in Sids : zone.on[s] # NoMap => worker'[s] = worker[s],
           \A s \in Sids : at'[s] = "firstin" => at[s] = "firstin" /\ worker'[s] = worker[s] /\ mem'[s] = mem[s]
    PROVE  Mapped
BY DEF MInv, WhereOK, Mapped, ZoneFits, MapOK, SeenOK, On, Others, Forget

LEMMA MapsLose ==
    ASSUME MInv, NEW s \in Sids, zone' = Gone(zone, s), worker' = worker, at'[s] # "firstin",
           \A r \in Sids \ {s} : at'[r] = at[r] /\ mem'[r] = mem[r]
    PROVE  Mapped
<1>1. zone \in Zone /\ ZoneFits(zone)
    BY DEF MInv, VInv, TInv, ZoneOK
<1>2. ZoneFits(Gone(zone, s)) /\ Gone(zone, s).on = [zone.on EXCEPT ![s] = NoMap]
    BY <1>1, GoneFits, GoneType
<1>3. ZoneFits(zone)'
    BY <1>2 DEF ZoneFits, MapOK, SeenOK, On, Others
<1>4. zone'.on[s] = NoMap /\ \A r \in Sids \ {s} : zone'.on[r] = zone.on[r]
    BY <1>1, <1>2 DEF Zone
<1>5. WhereOK'
    BY <1>4 DEF MInv, WhereOK
<1> QED BY <1>3, <1>5 DEF Mapped

LEMMA MapsGain ==
    ASSUME MInv, NEW s \in Sids, Live(s), NEW m \in Maps, WorkerOf[m] = worker[s],
           zone' = Added(Removed(zone, s), s, m), worker' = worker, at'[s] # "firstin",
           \A r \in Sids \ {s} : at'[r] = at[r] /\ mem'[r] = mem[r]
    PROVE  Mapped
<1>1. zone \in Zone /\ ZoneFits(zone)
    BY DEF MInv, VInv, TInv, ZoneOK
<1>2. PICK z : z = Removed(zone, s)
    OBVIOUS
<1>3. z \in Zone /\ ZoneFits(z) /\ z.on = [zone.on EXCEPT ![s] = NoMap]
    BY <1>1, <1>2, RemovedFits, RemovedType
<1>4. z.on[s] = NoMap /\ \A r \in Sids \ {s} : z.on[r] = zone.on[r]
    BY <1>1, <1>3 DEF Zone
<1>5. \A t \in On(z, m) : UserOf[t] # UserOf[s]
    <2>1. \A t \in On(z, m) : t \in On(zone, m) /\ t # s
        BY <1>4, Facts DEF On
    <2> QED BY <2>1, OnlyOne
<1>6. ZoneFits(Added(z, s, m)) /\ Added(z, s, m).on = [z.on EXCEPT ![s] = m]
    <2>1. ZoneFits(Added(z, s, m))
        BY <1>3, <1>4, <1>5, AddedFits
    <2>2. Added(z, s, m).on = [z.on EXCEPT ![s] = m]
        BY <1>3, AddedType
    <2> QED BY <2>1, <2>2
<1>7. ZoneFits(zone)'
    BY <1>2, <1>6 DEF ZoneFits, MapOK, SeenOK, On, Others
<1>8. zone'.on[s] = m /\ \A r \in Sids \ {s} : zone'.on[r] = zone.on[r]
    BY <1>2, <1>3, <1>4, <1>6 DEF Zone
<1>9. WhereOK'
    BY <1>8 DEF MInv, WhereOK
<1> QED BY <1>7, <1>9 DEF Mapped

LEMMA FromNowhere ==
    ASSUME NEW s \in Sids, zone.on[s] = NoMap
    PROVE  Removed(zone, s) = zone
BY DEF Removed

\* The actions of a session.
LEMMA SesMaps ==
    ASSUME ~Overtaken, MInv, NEW s \in Sids,
           \/ LogIn(s) \/ EnterGame(s) \/ Leave(s) \/ Flush(s) \/ Close(s) \/ Clear(s) \/ Disconnect(s)
    PROVE  Mapped
<1>1. TInv /\ SesOK
    BY DEF MInv, VInv, TInv
<1>2. CASE LogIn(s)
    BY <1>1, <1>2, MapsStay DEF LogIn, SesOK
<1>3. CASE EnterGame(s) \/ Flush(s) \/ Disconnect(s)
    BY <1>3, MapsStay DEF EnterGame, Flush, Disconnect
<1>4. CASE Clear(s)
    <2>1. zone.on[s] = NoMap /\ worker' = [worker EXCEPT ![s] = Out] /\ at' = [at EXCEPT ![s] = "closed"]
          /\ zone' = zone /\ mem' = mem
        BY <1>1, <1>4 DEF Clear, TInv, ZoneOK
    <2>2. \A r \in Sids \ {s} : worker'[r] = worker[r] /\ at'[r] = at[r]
        BY <1>1, <2>1 DEF SesOK
    <2>3. at'[s] = "closed"
        BY <1>1, <2>1 DEF SesOK
    <2> QED BY <2>1, <2>2, <2>3, MapsStay
<1>5. CASE Leave(s) \/ Close(s)
    <2>1. PICK p \in {"leaving", "closing"} : at' = [at EXCEPT ![s] = p]
        BY <1>5 DEF Leave, Close
    <2>2. zone' = Gone(zone, s) /\ worker' = worker /\ mem' = [mem EXCEPT ![s] = NoDoc]
        BY <1>5 DEF Leave, Close
    <2>3. at'[s] # "firstin" /\ \A r \in Sids \ {s} : at'[r] = at[r] /\ mem'[r] = mem[r]
        BY <1>1, <2>1, <2>2 DEF SesOK
    <2> QED BY <2>2, <2>3, MapsLose
<1> QED BY <1>2, <1>3, <1>4, <1>5

\* The actions of a player that is there.
LEMMA PlayMaps ==
    ASSUME MInv, NEW s \in Sids,
           FirstIn(s) \/ Walk(s) \/ ChangeLooks(s) \/ \E m \in Maps : ChangeMap(s, m)
    PROVE  Mapped
<1>1. TInv /\ SesOK /\ zone \in Zone /\ ZoneFits(zone)
    BY DEF MInv, VInv, TInv, ZoneOK
<1>2. CASE FirstIn(s)
    <2>1. at[s] = "firstin" /\ Live(s) /\ mem[s] \in Doc /\ mem[s].map \in Maps /\ zone.on[s] = NoMap
        BY <1>1, <1>2, HeldDoc, Facts DEF FirstIn, Live, Holds, TInv, ZoneOK
    <2>2. WorkerOf[mem[s].map] = worker[s]
        BY <2>1 DEF MInv, WhereOK
    <2>3. zone' = Added(Removed(zone, s), s, mem[s].map) /\ worker' = worker /\ mem' = mem
        BY <1>2, <2>1, FromNowhere DEF FirstIn
    <2>4. at'[s] = "in" /\ \A r \in Sids \ {s} : at'[r] = at[r]
        BY <1>1, <1>2 DEF FirstIn, SesOK
    <2> QED BY <2>1, <2>2, <2>3, <2>4, MapsGain
<1>3. CASE Walk(s)
    <2>1. at[s] = "in" /\ at' = at /\ zone' = zone /\ worker' = worker
        BY <1>3 DEF Walk, Plays
    <2>2. \A r \in Sids \ {s} : mem'[r] = mem[r]
        BY <1>1, <1>3 DEF Walk, Changes, SesOK
    <2> QED BY <2>1, <2>2, MapsStay
<1>4. CASE ChangeLooks(s)
    <2>1. at[s] = "in" /\ at' = at /\ zone' = Changed(zone, s) /\ worker' = worker
        BY <1>4 DEF ChangeLooks, Plays
    <2>2. \A r \in Sids \ {s} : mem'[r] = mem[r]
        BY <1>1, <1>4 DEF ChangeLooks, Changes, SesOK
    <2>3. zone.on[s] # NoMap
        BY <1>1, <2>1 DEF TInv, ZoneOK
    <2>4. ZoneFits(Changed(zone, s)) /\ Changed(zone, s).on = zone.on
        BY <1>1, <2>3, ChangedFits, ChangedType
    <2>5. ZoneFits(zone)'
        BY <2>1, <2>4 DEF ZoneFits, MapOK, SeenOK, On, Others
    <2>6. WhereOK'
        BY <2>1, <2>2, <2>4 DEF MInv, WhereOK
    <2> QED BY <2>5, <2>6 DEF Mapped
<1>5. ASSUME NEW m \in Maps, ChangeMap(s, m) PROVE Mapped
    <2>1. at[s] = "in" /\ at' = at /\ worker' = worker /\ Live(s)
        BY <1>5 DEF ChangeMap, Plays, Live
    <2>2. \A r \in Sids \ {s} : mem'[r] = mem[r]
        BY <1>1, <1>5 DEF ChangeMap, Changes, SesOK
    <2>3. CASE WorkerOf[m] = worker[s]
        <3>1. zone' = Added(Removed(zone, s), s, m)
            BY <1>5, <2>3 DEF ChangeMap
        <3> QED BY <2>1, <2>2, <2>3, <3>1, MapsGain
    <2>4. CASE WorkerOf[m] # worker[s]
        <3>1. zone' = zone
            BY <1>5, <2>4 DEF ChangeMap
        <3> QED BY <2>1, <2>2, <3>1, MapsStay
    <2> QED BY <2>3, <2>4
<1> QED BY <1>2, <1>3, <1>4, <1>5

\* What reaches Redis.
LEMMA LandMaps ==
    ASSUME MInv, NEW w \in Services, LandFlush(w) \/ LandLeave(w) \/ LandRead(w) \/ LandClose(w)
    PROVE  Mapped
<1>0. PICK c, s : c = Head(wire[w]) /\ s = c.sid
    OBVIOUS
<1>1. TInv /\ SesOK /\ WireOK
    BY DEF MInv, VInv, TInv
<1>2. wire[w] # <<>> /\ c \in Range(wire[w])
    <2>1. wire[w] # <<>>
        BY DEF LandFlush, LandLeave, LandRead, LandClose, Head1
    <2>2. wire \in [Services -> Seq(Cmds)] /\ Ordered(wire)
        BY <1>1 DEF WireOK
    <2> QED BY <1>0, <2>1, <2>2, AtFront
<1>3. s \in Sids /\ worker[s] = w
    BY <1>0, <1>1, <1>2, OnWire
<1>4. CASE LandFlush(w)
    BY <1>4, MapsStay DEF LandFlush
<1>5. CASE LandClose(w)
    <2>1. at' = [at EXCEPT ![s] = "clearing"] /\ UNCHANGED <<zone, worker, mem>>
        BY <1>0, <1>5 DEF LandClose
    <2>2. \A r \in Sids : at'[r] = "firstin" => at[r] = "firstin"
        BY <1>1, <2>1 DEF SesOK
    <2> QED BY <2>1, <2>2, MapsStay
<1>6. CASE LandLeave(w)
    <2>1. at[s] = "leaving" /\ at'[s] \in {"entering", "reading"} /\ \A r \in Sids \ {s} : at'[r] = at[r]
        BY <1>0, <1>1, <1>6, LeftFacts
    <2>2. worker' = [worker EXCEPT ![s] = asked[s]] /\ zone' = zone /\ mem' = mem
        BY <1>0, <1>6 DEF LandLeave
    <2>3. zone.on[s] = NoMap /\ \A r \in Sids \ {s} : worker'[r] = worker[r]
        BY <1>1, <1>3, <2>1, <2>2 DEF TInv, ZoneOK, SesOK
    <2> QED BY <2>1, <2>2, <2>3, MapsStay
<1>7. CASE LandRead(w)
    <2>1. PICK doc : doc = db[UserOf[s]]
        OBVIOUS
    <2>2. at[s] \in {"entering", "reading"} /\ Live(s) /\ zone.on[s] = NoMap /\ doc \in Doc /\ doc.map \in Maps
        <3>1. at[s] \in {"entering", "reading"}
            BY <1>0, <1>1, <1>2, <1>7, OnWire DEF LandRead, Head1
        <3>2. db[UserOf[s]] \in Doc
            BY <1>1, <1>3, Facts DEF TInv, DataOK
        <3> QED BY <1>1, <1>3, <2>1, <3>1, <3>2, Facts DEF TInv, ZoneOK, Live
    <2>3. /\ mem' = [mem EXCEPT ![s] = doc] /\ worker' = worker
          /\ \/ zone' = zone /\ at' = [at EXCEPT ![s] = "lost"]
             \/ zone' = zone /\ at' = [at EXCEPT ![s] = "firstin"] /\ WorkerOf[doc.map] = w
             \/ zone' = Added(zone, s, doc.map) /\ at' = [at EXCEPT ![s] = "in"] /\ WorkerOf[doc.map] = w
        BY <1>0, <1>7, <2>1 DEF LandRead
    <2>4. \A r \in Sids \ {s} : at'[r] = at[r] /\ mem'[r] = mem[r]
        BY <1>1, <2>3 DEF SesOK
    <2>5. mem'[s] = doc
        BY <1>1, <1>3, <2>3 DEF SesOK
    <2>6. CASE zone' = zone /\ at' = [at EXCEPT ![s] = "lost"]
        <3>1. at'[s] = "lost"
            BY <1>1, <1>3, <2>6 DEF SesOK
        <3> QED BY <2>3, <2>4, <2>6, <3>1, MapsStay
    <2>7. CASE zone' = zone /\ at' = [at EXCEPT ![s] = "firstin"] /\ WorkerOf[doc.map] = w
        <3>1. WhereOK'
            BY <1>3, <2>2, <2>3, <2>4, <2>5, <2>7 DEF MInv, WhereOK
        <3>2. ZoneFits(zone)'
            BY <2>7 DEF MInv, ZoneFits, MapOK, SeenOK, On, Others
        <3> QED BY <3>1, <3>2 DEF Mapped
    <2>8. CASE zone' = Added(zone, s, doc.map) /\ at' = [at EXCEPT ![s] = "in"] /\ WorkerOf[doc.map] = w
        <3>1. at'[s] = "in"
            BY <1>1, <1>3, <2>8 DEF SesOK
        <3>2. zone' = Added(Removed(zone, s), s, doc.map)
            BY <1>3, <2>2, <2>8, FromNowhere
        <3> QED BY <1>3, <2>2, <2>3, <2>4, <2>8, <3>1, <3>2, MapsGain
    <2> QED BY <2>3, <2>6, <2>7, <2>8
<1> QED BY <1>4, <1>5, <1>6, <1>7

LEMMA ExitMaps ==
    ASSUME Exit
    PROVE  Mapped
<1>1. ZoneFits(zone)'
    BY NewZoneFits DEF Exit, ZoneFits, MapOK, SeenOK, On, Others
<1>2. WhereOK'
    BY NewZoneType DEF Exit, WhereOK
<1> QED BY <1>1, <1>2 DEF Mapped

LEMMA InitMaps == Init => MInv
<1> SUFFICES ASSUME Init PROVE MInv
    OBVIOUS
<1>1. zone = NewZone /\ \A s \in Sids : at[s] = "new"
    BY DEF Init
<1>2. ZoneFits(zone) /\ WhereOK
    BY <1>1, NewZoneFits, NewZoneType DEF WhereOK
<1> QED BY <1>2, InitVersions DEF MInv

LEMMA StepMaps ==
    ASSUME ~Overtaken, MInv, [Next]_vars
    PROVE  MInv'
<1>1. VInv'
    BY StepVersions DEF MInv
<1>2. CASE UNCHANGED vars
    BY <1>1, <1>2, MapsStay DEF vars, Mapped, MInv
<1>3. CASE Next
    <2>1. Mapped
        BY <1>3, SesMaps, PlayMaps, LandMaps, ExitMaps DEF Next
    <2> QED BY <1>1, <2>1 DEF Mapped, MInv
<1> QED BY <1>2, <1>3

LEMMA MapsOf == MInv => OnTheirMap /\ ZoneIsSeen
<1> SUFFICES ASSUME MInv, NEW m \in Maps
             PROVE  OnTheirMap!(m) /\ ZoneIsSeen!(m)
    BY DEF OnTheirMap, ZoneIsSeen
<1>1. MapOK(zone, m) /\ SeenOK(zone, m) /\ OnMap(m) = On(zone, m)
    BY DEF MInv, ZoneFits, OnMap, On
<1>2. \A s \in On(zone, m) : at[s] = "in" /\ worker[s] = WorkerOf[m]
    BY Facts DEF On, MInv, WhereOK, VInv, TInv, ZoneOK
<1>3. ZoneIsSeen!(m)
    BY <1>1 DEF SeenOK, Others
<1>4. OnTheirMap!(m)
    BY <1>1, <1>2 DEF MapOK, Distinct
<1> QED BY <1>3, <1>4

\* A map's index names its players, each under a number of its own, on the worker
\* that has the map (game_map.ts:71).
THEOREM MapsAreKept == ASSUME ~Overtaken PROVE Spec => []OnTheirMap
<1>1. MInv => OnTheirMap
    BY MapsOf
<1>2. MInv /\ [Next]_vars => MInv'
    BY StepMaps
<1> QED BY <1>1, <1>2, InitMaps, PTL DEF Spec

\* Who is on a map has been told of all the others, as they look now, and of nobody
\* else (game_map.ts:104-128, 147).
THEOREM AllAreSeen == ASSUME ~Overtaken PROVE Spec => []ZoneIsSeen
<1>1. MInv => ZoneIsSeen
    BY MapsOf
<1>2. MInv /\ [Next]_vars => MInv'
    BY StepMaps
<1> QED BY <1>1, <1>2, InitMaps, PTL DEF Spec

=============================================================================
