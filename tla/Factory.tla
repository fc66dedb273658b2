------------------------------- MODULE Factory -------------------------------
(***************************************************************************)
(* The factory of a player's port: production lines that turn goods of the *)
(* storehouse into products, and the heroes and pets set to work on them.  *)
(*                                                                         *)
(* A player in the world holds its data components in memory: its port,    *)
(* with lines and storehouse, its heroes and its pets.  Each of them is a  *)
(* document of Redis, and each handler writes back the documents it names, *)
(* and no other.  The handlers here await nothing, so each is one step;    *)
(* those of the mine await its first use only (see MapMine).               *)
(***************************************************************************)
EXTENDS Integers, Sequences, FiniteSets

CONSTANTS
    Heroes, Pets,  \* nft ids
    NoNft,         \* the empty nft id of a line's slot
    Inputs,        \* items a product is made from
    Products,      \* products the factory's level allows
    NoProduct,     \* proditemid 0, of a line that never worked
    NoData,        \* a document that is not in Redis
    Cost,          \* factory config: Cost[p][i] of input i for one p
    TimeS,         \* factory config: seconds for one p
    NLines,        \* factory config: lines of the factory's level
    Counts,        \* bound: how many to make at once
    MaxEarned,     \* bound: of each input
    Times,         \* bound: the seconds at which something happens
    MaxCrashes     \* bound: restarts of the server

Nfts == Heroes \cup Pets
Goods == Inputs \cup Products

ASSUME FactoryAssumption ==
    /\ Heroes \cap Pets = {} /\ NoNft \notin Nfts
    /\ Inputs \cap Products = {} /\ NoProduct \notin Products /\ IsFiniteSet(Products)
    /\ Cost \in [Products -> [Inputs -> Nat]]
    /\ TimeS \in [Products -> Nat \ {0}]
    /\ NLines \in Nat
    /\ Counts \subseteq Nat
    /\ MaxEarned \in Nat /\ MaxCrashes \in Nat
    /\ Times \subseteq Nat \ {0} /\ 1 \in Times

VARIABLES
    here,     \* the player is in the world
    mem,      \* its data components: player_port, player_hero, player_pet
    db,       \* the same documents in Redis
    now,      \* seconds
    crashes   \* restarts so far

vars == <<here, mem, db, now, crashes>>

Documents == {"port", "hero", "pet"}
Slots == {"hero", "pet"}

Lines == [prod : Products \cup {NoProduct}, target : Nat, output : Nat, unfetched : Nat,
          single : Nat, last : Nat, who : [Slots -> Nfts \cup {NoNft}]]
Ports == [lines : Seq(Lines), items : [Goods -> Int], load : [Goods -> Int],
          ordered : [Products -> Nat], earned : [Inputs -> Nat]]
CardType == [mining : BOOLEAN, line : 0..NLines]
Cards(ns) == [ns -> CardType]

\* A document that is not there is not a document.
ASSUME NoDataAssumption ==
    NoData \notin Ports /\ NoData \notin Cards(Heroes) /\ NoData \notin Cards(Pets)

EmptyLine == [prod |-> NoProduct, target |-> 0, output |-> 0, unfetched |-> 0,
              single |-> 0, last |-> 0, who |-> [s \in Slots |-> NoNft]]

\* load is the share each good has in curload.  ordered and earned are history:
\* products ordered, inputs that came in.
NewPort == [lines |-> <<>>, items |-> [g \in Goods |-> 0], load |-> [g \in Goods |-> 0],
            ordered |-> [p \in Products |-> 0], earned |-> [i \in Inputs |-> 0]]

Free == [mining |-> FALSE, line |-> 0]
NewCards(ns) == [n \in ns |-> Free]
New == [d \in Documents |-> CASE d = "port" -> NewPort
                              [] d = "hero" -> NewCards(Heroes)
                              [] d = "pet" -> NewCards(Pets)]

\* The handler leaves memory as m and flushes some documents.
Becomes(m, flushed) ==
    /\ mem' = m
    /\ db' = [d \in Documents |-> IF d \in flushed /\ m[d] # NoData THEN m[d] ELSE db[d]]
    /\ UNCHANGED <<here, now, crashes>>

SetLine(port, l, line) == [port EXCEPT !.lines[l] = line]
SetPort(port) == [mem EXCEPT !["port"] = port]

Init ==
    /\ here = TRUE
    /\ db \in {[d \in Documents |-> NoData], New}
    /\ mem = db
    /\ now = 1
    /\ crashes = 0

-----------------------------------------------------------------------------
\* add_player_storehouse_items, cost_player_storehouse_items
Store(port, g, n) == [port EXCEPT !.items[g] = @ + n, !.load[g] = @ + n]

Enough(port, p, n) ==
    /\ \E i \in Inputs : Cost[p][i] > 0
    /\ \A i \in Inputs : Cost[p][i] > 0 => port.items[i] > 0 /\ port.items[i] >= Cost[p][i] * n

Less(has, p, n) ==
    [g \in Goods |-> IF g \in Inputs THEN has[g] - Cost[p][g] * n ELSE has[g]]

\* Mutant of Spend: the load is left alone.
Spend_Loaded(port, p, n) == [port EXCEPT !.items = Less(@, p, n)]

Spend(port, p, n) == [port EXCEPT !.items = Less(@, p, n), !.load = Less(@, p, n)]

\* _fill_empty_lines, up to line l
Fill(lines, l) ==
    [k \in 1..(IF l > Len(lines) THEN l ELSE Len(lines)) |->
        IF k <= Len(lines) THEN lines[k] ELSE EmptyLine]

Single(p) == TimeS[p] * 1000

\* _output_products
Output(line) ==
    LET due == ((now - line.last) * 1000) \div line.single
        open == line.target - line.output
        made == IF due > open THEN open ELSE due
    IN  IF line.last > 0 /\ line.last < now /\ line.output < line.target /\ due >= 1
        THEN [line EXCEPT !.last = @ + made * line.single,
                          !.output = @ + made, !.unfetched = @ + made]
        ELSE line

\* What a handler works on: the player has a port, which has the line.
HasPort == here /\ mem["port"] # NoData
Port == mem["port"]
HasLine(l) == HasPort /\ l <= Len(Port.lines)
Line(l) == Port.lines[l]

\* fac_make_factory_product: the lines are filled up and the line's output
\* counted before the order is looked at
Prepared(l) ==
    LET lines == Fill(Port.lines, l)
    IN  [Port EXCEPT !.lines = [lines EXCEPT ![l] = Output(@)]]

Idle(line) == line.unfetched <= 0 /\ line.target <= line.output

Make(l, p, n) ==
    /\ HasPort
    /\ LET port == Prepared(l)
           line == [port.lines[l] EXCEPT !.prod = p, !.target = n, !.output = 0,
                        !.unfetched = 0, !.single = Single(p), !.last = now]
           paid == SetLine(Spend(port, p, n), l, line)
       IN  \/ /\ Idle(port.lines[l]) /\ Enough(port, p, n)
              /\ Becomes(SetPort([paid EXCEPT !.ordered[p] = @ + n]), {"port"})
           \/ /\ ~(Idle(port.lines[l]) /\ Enough(port, p, n))
              /\ Becomes(SetPort(port), {})

\* Mutant of Fetch: the storehouse is not written back.
Fetch_Unflushed(l) ==
    /\ HasLine(l)
    /\ LET line == Output(Line(l)) IN
          /\ line.unfetched > 0
          /\ Becomes(SetPort(SetLine(Store(Port, line.prod, line.unfetched), l,
                                     [line EXCEPT !.unfetched = 0])), {})

\* fac_fetch_factory_product
Fetch(l) ==
    /\ HasLine(l)
    /\ LET line == Output(Line(l)) IN
          /\ line.unfetched > 0
          /\ Becomes(SetPort(SetLine(Store(Port, line.prod, line.unfetched), l,
                                     [line EXCEPT !.unfetched = 0])), {"port"})

-----------------------------------------------------------------------------
\* The document of a card, and the slot of a line it takes.
Slot(n) == IF n \in Pets THEN "pet" ELSE "hero"
HasCard(n) == here /\ mem[Slot(n)] # NoData
Card(n) == mem[Slot(n)][n]
SetCard(m, n, card) == [m EXCEPT ![Slot(n)] = [@ EXCEPT ![n] = card]]

\* Mutant of Unused: a hero in a mine may be set.
Unused_Mining(n) == HasCard(n) /\ Card(n).line = 0

\* check_player_hero_usage, check_player_pet_usage
Unused(n) == HasCard(n) /\ Card(n) = Free

\* Line l gets worker w in the slot of n, which goes to line k.
Assigned(l, n, w, k) ==
    SetCard(SetPort(SetLine(Port, l, [Line(l) EXCEPT !.who = [@ EXCEPT ![Slot(n)] = w],
                                                     !.single = Single(Line(l).prod)])),
            n, [Card(n) EXCEPT !.line = k])

\* fac_set_factory_hero: the card is written back, and not the port
SetHero(l, n) ==
    /\ HasLine(l)
    /\ Line(l).who[Slot(n)] = NoNft
    /\ Line(l).prod # NoProduct
    /\ Unused(n)
    /\ Becomes(Assigned(l, n, n, l), {Slot(n)})

\* fac_unset_factory_hero
UnsetHero(l, n) ==
    /\ HasLine(l)
    /\ Line(l).who[Slot(n)] = n
    /\ Line(l).prod # NoProduct
    /\ HasCard(n) /\ Card(n).line # 0
    /\ Becomes(Assigned(l, n, NoNft, 0), {"port", Slot(n)})

\* mine_start_heromine and mine_stop_heromine, as far as the hero goes
StartMine(n) ==
    /\ Unused(n)
    /\ Becomes(SetCard(mem, n, [Card(n) EXCEPT !.mining = TRUE]), {"hero"})

StopMine(n) ==
    /\ HasCard(n) /\ Card(n).mining
    /\ Becomes(SetCard(mem, n, [Card(n) EXCEPT !.mining = FALSE]), {"hero"})

\* Inputs come in: mined ones are written back, those of a game master are not.
Earn(i, flushed) ==
    /\ HasPort
    /\ Port.earned[i] < MaxEarned
    /\ Becomes(SetPort([Store(Port, i, 1) EXCEPT !.earned[i] = @ + 1]), flushed)

-----------------------------------------------------------------------------
\* player_get_portdata, player_get_hero_info, player_get_pet_info: data that is
\* not there is made up and written, and not taken into memory
Show(d) ==
    /\ here /\ mem[d] = NoData
    /\ db' = [db EXCEPT ![d] = New[d]]
    /\ UNCHANGED <<here, mem, now, crashes>>

\* player.on_update: all of the player's data is written back
FlushAll ==
    /\ here
    /\ Becomes(mem, Documents)

\* Mutant of Leave: nothing is written back.
Leave_Unflushed ==
    /\ here /\ here' = FALSE
    /\ mem' = [d \in Documents |-> NoData]
    /\ UNCHANGED <<db, now, crashes>>

\* on_remove_session or on_session_close
Leave ==
    /\ here /\ here' = FALSE
    /\ db' = [d \in Documents |-> IF mem[d] # NoData THEN mem[d] ELSE db[d]]
    /\ mem' = [d \in Documents |-> NoData]
    /\ UNCHANGED <<now, crashes>>

\* on_add_session: _sync_playerdatas
Enter ==
    /\ ~here /\ here' = TRUE
    /\ mem' = db
    /\ UNCHANGED <<db, now, crashes>>

\* The process ends: what was not written back is gone.
Crash ==
    /\ crashes < MaxCrashes
    /\ crashes' = crashes + 1
    /\ here' = FALSE
    /\ mem' = [d \in Documents |-> NoData]
    /\ UNCHANGED <<db, now>>

Tick ==
    /\ now' \in {t \in Times : t > now}
    /\ UNCHANGED <<here, mem, db, crashes>>

Next ==
    \/ \E l \in 1..NLines :
          \/ \E p \in Products, n \in Counts : Make(l, p, n)
          \/ Fetch(l)
          \/ \E n \in Nfts : SetHero(l, n) \/ UnsetHero(l, n)
    \/ \E n \in Heroes : StartMine(n) \/ StopMine(n)
    \/ \E i \in Inputs : Earn(i, {}) \/ Earn(i, {"port"})
    \/ \E d \in Documents : Show(d)
    \/ FlushAll \/ Leave \/ Enter \/ Crash \/ Tick

Spec == Init /\ [][Next]_vars

-----------------------------------------------------------------------------
Stored ==
    [d \in Documents |-> CASE d = "port" -> Ports
                           [] d = "hero" -> Cards(Heroes)
                           [] d = "pet" -> Cards(Pets)]

TypeOK ==
    /\ here \in BOOLEAN
    /\ mem = [d \in Documents |-> mem[d]] /\ db = [d \in Documents |-> db[d]]
    /\ \A d \in Documents : {mem[d], db[d]} \subseteq Stored[d] \cup {NoData}
    /\ now \in Times
    /\ crashes \in Nat

\* The player's data in memory, and in Redis.
Views == {db, mem}
PortsKept == {v["port"] : v \in Views} \ {NoData}

\* A line makes what was ordered and no more.
WithinOrder ==
    \A port \in PortsKept : \A l \in DOMAIN port.lines :
        LET line == port.lines[l] IN line.unfetched <= line.output /\ line.output <= line.target

\* The sum of the naturals of a function: as many pieces of each.
Total(f) == Cardinality(UNION {{x} \X (1..f[x]) : x \in DOMAIN f})

\* Pieces of p that wait on a line or are still to be made, and what a port has
\* paid of input i for what was ordered.
Pieces(line, p) == IF line.prod = p THEN line.unfetched + line.target - line.output ELSE 0
Waiting(port, p) == Total([l \in DOMAIN port.lines |-> Pieces(port.lines[l], p)])
Paid(port, i) == Total([p \in Products |-> Cost[p][i] * port.ordered[p]])

\* Goods are neither lost nor made up, whatever is fetched, ordered again,
\* flushed in part or lost in a restart: what was ordered is in the storehouse,
\* waits on a line or is still to be made, what came in is there or was paid,
\* and the load is what is stored (factory_msgs.ts:109, 417, player.ts:333, 366).
Conserved ==
    \A port \in PortsKept :
        /\ \A p \in Products : port.ordered[p] = port.items[p] + Waiting(port, p)
        /\ \A i \in Inputs : port.earned[i] = port.items[i] + Paid(port, i)
        /\ \A g \in Goods : port.items[g] >= 0
        /\ port.load = port.items
    /\ WithinOrder

\* A card works in one place: on a line that names it only, or in a mine
\* (share_structure.proto:159).  Over restarts too: a line in Redis never names a
\* card that Redis has elsewhere.
WorksOnce ==
    \A v \in Views :
        /\ v["port"] # NoData => \A l \in DOMAIN v["port"].lines, n \in Nfts :
              v["port"].lines[l].who[Slot(n)] = n =>
                  v[Slot(n)] # NoData /\ v[Slot(n)][n].line = l /\ ~v[Slot(n)][n].mining

\* What a player is told was ordered or fetched is in Redis, "sync to cache"
\* (factory_msgs.ts:116, 337): a restart does not take it back.
AnsweredIsStored ==
    here /\ mem["port"] # NoData =>
        /\ db["port"] # NoData
        /\ db["port"].ordered = mem["port"].ordered
        /\ \A p \in Products : db["port"].items[p] = mem["port"].items[p]

\* A card that is marked as working on a line can be taken off it, as long as
\* the server has not been restarted (factory_msgs.ts:192).
MarkedIsNamed ==
    crashes = 0 /\ here => \A n \in Nfts :
        mem[Slot(n)] # NoData /\ Card(n).line # 0 =>
            HasLine(Card(n).line) /\ Line(Card(n).line).who[Slot(n)] = n

\* The last output of a line lies in the past (share_structure.proto:171,
\* "last output timestamp in second").
LastOutputIsPast ==
    \A port \in PortsKept : \A l \in DOMAIN port.lines : port.lines[l].last <= now
=============================================================================
