-------------------------- MODULE WorldWorker_proofs --------------------------
(***************************************************************************)
(* Proofs about the two parts of a world worker that share its handlers'   *)
(* way of running through: Factory and MapMine.                            *)
(*                                                                         *)
(* Factory, for all heroes, pets, goods, costs, times and any number of    *)
(* restarts: types, that a line keeps within its order, that a card works  *)
(* in one place and can be taken off it, that what a player was told is    *)
(* stored, and that goods are neither lost nor made up.                    *)
(*                                                                         *)
(* MapMine, for all players, capacities, counts and any number of          *)
(* restarts: types, that the number of miners is right, that marks and     *)
(* list agree, and that a hero's output is paid for.                       *)
(***************************************************************************)
EXTENDS Factory, MapMine, FiniteSetTheorems, SequenceTheorems, WellFoundedInduction, TLAPS

\* A line that has worked knows its product's time, which is not 0; a line that
\* has not keeps the stamp and the target 0.
GoodLine(line) ==
    /\ line \in Lines
    /\ line.unfetched <= line.output
    /\ line.output <= line.target
    /\ line.prod # NoProduct => line.single \in Nat \ {0}
    /\ line.prod = NoProduct => line.last = 0 /\ line.target = 0

GoodPort(port) ==
    /\ port \in Ports
    /\ \A l \in DOMAIN port.lines : GoodLine(port.lines[l])

\* Line l of a port names the card n.
Names(port, l, n) == l \in DOMAIN port.lines /\ port.lines[l].who[Slot(n)] = n

\* What was ordered and what is stored of the products is the same.
SameStore(a, b) == a.ordered = b.ordered /\ \A p \in Products : a.items[p] = b.items[p]

\* A step that touches the port only, leaves every worker on its line, and writes
\* back what it orders or stores of products.
PortOnly ==
    /\ HasPort
    /\ \E port : /\ GoodPort(port)
                 /\ \A l, n : n \in Nfts => (Names(port, l, n) <=> Names(Port, l, n))
                 /\ \E flushed \in SUBSET {"port"} :
                       /\ "port" \in flushed \/ SameStore(port, Port)
                       /\ Becomes(SetPort(port), flushed)

Good(v) ==
    /\ v = [d \in Documents |-> v[d]]
    /\ v["port"] = NoData \/ GoodPort(v["port"])
    /\ v["hero"] = NoData \/ v["hero"] \in Cards(Heroes)
    /\ v["pet"] = NoData \/ v["pet"] \in Cards(Pets)

Inv ==
    /\ here \in BOOLEAN
    /\ Good(mem)
    /\ Good(db)
    /\ now \in Times
    /\ crashes \in Nat

-----------------------------------------------------------------------------
\* What the helpers return is good.

LEMMA TimesAreNats == Times \subseteq Nat
  BY FactoryAssumption

LEMMA SlotOf ==
    ASSUME NEW n \in Nfts
    PROVE  /\ Slot(n) \in Slots /\ Slot(n) \in Documents /\ Slot(n) # "port"
           /\ Slot(n) = "pet" => n \in Pets
           /\ Slot(n) = "hero" => n \in Heroes
  BY DEF Slot, Slots, Documents, Nfts

LEMMA EmptyLineGood == GoodLine(EmptyLine)
<1>1. EmptyLine \in Lines
  BY DEF EmptyLine, Lines
<1>. QED
  BY <1>1 DEF EmptyLine, GoodLine

LEMMA OutputGood ==
    ASSUME NEW line, GoodLine(line), now \in Nat
    PROVE  GoodLine(Output(line)) /\ Output(line).who = line.who
<1>. DEFINE due == ((now - line.last) * 1000) \div line.single
            open == line.target - line.output
            made == IF due > open THEN open ELSE due
            works == line.last > 0 /\ line.last < now /\ line.output < line.target /\ due >= 1
<1>1. CASE ~works
  <2>1. Output(line) = line
    BY <1>1 DEF Output
  <2>. QED
    BY <2>1
<1>2. CASE works
  <2>1. line.prod # NoProduct
    BY <1>2 DEF GoodLine, Lines
  <2>2. /\ line.single \in Nat \ {0} /\ line.last \in Nat /\ line.unfetched \in Nat
        /\ line.output \in Nat /\ line.target \in Nat
    BY <2>1 DEF GoodLine, Lines
  <2>3. (now - line.last) * 1000 \in Int
    BY <2>2
  <2>4. due \in Int
    BY <2>2, <2>3
  <2>5. made \in Nat /\ line.output + made <= line.target
    <3>. HIDE DEF due
    <3>. QED
      BY <1>2, <2>2, <2>4
  <2>6. made * line.single \in Nat
    <3>. HIDE DEF made
    <3>. QED
      BY <2>2, <2>5
  <2>7. Output(line) = [line EXCEPT !.last = @ + made * line.single,
                                   !.output = @ + made, !.unfetched = @ + made]
    BY <1>2 DEF Output
  <2>. HIDE DEF made
  <2>. DEFINE add == made * line.single
  <2>. HIDE DEF add
  <2>8. Output(line) = [line EXCEPT !.last = @ + add,
                                   !.output = @ + made, !.unfetched = @ + made]
    BY <2>7 DEF add
  <2>9. add \in Nat
    BY <2>6 DEF add
  <2>a. line.output + made \in Nat /\ line.unfetched + made \in Nat /\ line.last + add \in Nat
    BY <2>2, <2>5, <2>9
  <2>b. line \in Lines
    BY DEF GoodLine
  <2>10. Output(line) \in Lines
    <3>. DEFINE o == line.output + made
                u == line.unfetched + made
                t == line.last + add
    <3>1. Output(line) = [line EXCEPT !.last = t, !.output = o, !.unfetched = u]
      BY <2>8, <2>b DEF Lines
    <3>2. o \in Nat /\ u \in Nat /\ t \in Nat
      BY <2>a
    <3>. HIDE DEF o, u, t
    <3>. QED
      BY <2>b, <3>1, <3>2 DEF Lines
  <2>. QED
    BY <2>1, <2>2, <2>5, <2>8, <2>9, <2>10 DEF GoodLine, Lines
<1>. QED
  BY <1>1, <1>2

LEMMA SetLineGood ==
    ASSUME NEW port, GoodPort(port), NEW l \in DOMAIN port.lines,
           NEW line, GoodLine(line)
    PROVE  /\ GoodPort(SetLine(port, l, line))
           /\ DOMAIN SetLine(port, l, line).lines = DOMAIN port.lines
           /\ \A k \in DOMAIN port.lines :
                 SetLine(port, l, line).lines[k] = IF k = l THEN line ELSE port.lines[k]
<1>1. port.lines \in Seq(Lines) /\ DOMAIN port.lines = 1..Len(port.lines)
  BY LenProperties DEF GoodPort, Ports
<1>2. line \in Lines
  BY DEF GoodLine
<1>3. /\ [port.lines EXCEPT ![l] = line] \in Seq(Lines)
      /\ DOMAIN [port.lines EXCEPT ![l] = line] = DOMAIN port.lines
      /\ \A k \in DOMAIN port.lines :
            [port.lines EXCEPT ![l] = line][k] = IF k = l THEN line ELSE port.lines[k]
  BY <1>1, <1>2, ExceptSeq
<1>4. SetLine(port, l, line) = [port EXCEPT !.lines = [port.lines EXCEPT ![l] = line]]
  BY DEF SetLine, GoodPort, Ports
<1>5. SetLine(port, l, line).lines = [port.lines EXCEPT ![l] = line]
  BY <1>4 DEF GoodPort, Ports
<1>6. SetLine(port, l, line) \in Ports
  BY <1>3, <1>4 DEF GoodPort, Ports
<1>. QED
  BY <1>3, <1>5, <1>6 DEF GoodPort

LEMMA FillGood ==
    ASSUME NEW lines \in Seq(Lines), \A k \in DOMAIN lines : GoodLine(lines[k]),
           NEW l \in 1..NLines
    PROVE  /\ Fill(lines, l) \in Seq(Lines)
           /\ l \in DOMAIN Fill(lines, l)
           /\ DOMAIN lines \subseteq DOMAIN Fill(lines, l)
           /\ \A k \in DOMAIN Fill(lines, l) :
                 Fill(lines, l)[k] = IF k \in DOMAIN lines THEN lines[k] ELSE EmptyLine
<1>. DEFINE n == IF l > Len(lines) THEN l ELSE Len(lines)
            e(k) == IF k <= Len(lines) THEN lines[k] ELSE EmptyLine
<1>1. Len(lines) \in Nat /\ DOMAIN lines = 1..Len(lines) /\ NLines \in Nat
  BY LenProperties, FactoryAssumption
<1>2. n \in Nat /\ l <= n /\ Len(lines) <= n /\ l \in Nat /\ l >= 1
  BY <1>1
<1>3. \A k \in 1..n : e(k) \in Lines
  BY <1>1, EmptyLineGood DEF GoodLine
<1>4. [k \in 1..n |-> e(k)] \in Seq(Lines)
  <2>. HIDE DEF n, e
  <2>. QED
    BY <1>2, <1>3, IsASeq
<1>5. Fill(lines, l) = [k \in 1..n |-> e(k)]
  BY DEF Fill
<1>6. DOMAIN Fill(lines, l) = 1..n
  BY <1>5
<1>. QED
  BY <1>1, <1>2, <1>4, <1>5, <1>6

\* Filling the lines up and counting the output changes no worker.
LEMMA PreparedGood ==
    ASSUME GoodPort(Port), now \in Nat, NEW l \in 1..NLines
    PROVE  /\ GoodPort(Prepared(l))
           /\ l \in DOMAIN Prepared(l).lines
           /\ \A k \in DOMAIN Prepared(l).lines : \/ Prepared(l).lines[k].who = EmptyLine.who
                 \/ /\ k \in DOMAIN Port.lines
                    /\ Prepared(l).lines[k].who = Port.lines[k].who
           /\ \A k \in DOMAIN Port.lines :
                 /\ k \in DOMAIN Prepared(l).lines
                 /\ Prepared(l).lines[k].who = Port.lines[k].who
           /\ SameStore(Prepared(l), Port)
<1>. DEFINE lines == Fill(Port.lines, l)
<1>1. Port.lines \in Seq(Lines) /\ \A k \in DOMAIN Port.lines : GoodLine(Port.lines[k])
  BY DEF GoodPort, Ports
<1>2. /\ lines \in Seq(Lines) /\ l \in DOMAIN lines /\ DOMAIN Port.lines \subseteq DOMAIN lines
      /\ \A k \in DOMAIN lines :
            lines[k] = IF k \in DOMAIN Port.lines THEN Port.lines[k] ELSE EmptyLine
  BY <1>1, FillGood
<1>3. \A k \in DOMAIN lines : GoodLine(lines[k])
  BY <1>1, <1>2, EmptyLineGood
<1>. DEFINE filled == [Port EXCEPT !.lines = lines]
<1>. HIDE DEF lines
<1>4. filled.lines = lines /\ GoodPort(filled)
  BY <1>2, <1>3 DEF GoodPort, Ports
<1>5. GoodLine(Output(lines[l])) /\ Output(lines[l]).who = lines[l].who
  BY <1>2, <1>3, OutputGood
<1>6. Prepared(l) = SetLine(filled, l, Output(lines[l]))
  BY <1>2 DEF Prepared, SetLine, lines, GoodPort, Ports
<1>. HIDE DEF filled
<1>7. /\ GoodPort(Prepared(l))
      /\ DOMAIN Prepared(l).lines = DOMAIN lines
      /\ \A k \in DOMAIN lines :
            Prepared(l).lines[k] = IF k = l THEN Output(lines[l]) ELSE lines[k]
  BY <1>2, <1>4, <1>5, <1>6, SetLineGood
<1>8. SameStore(Prepared(l), Port)
  <2>1. Prepared(l) = [Port EXCEPT !.lines = [lines EXCEPT ![l] = Output(lines[l])]]
    BY DEF Prepared, lines
  <2>. QED
    BY <2>1 DEF SameStore, GoodPort, Ports
<1>. QED
  BY <1>2, <1>5, <1>7, <1>8

LEMMA StoreGood ==
    ASSUME NEW port, GoodPort(port), NEW g \in Goods, NEW n \in Nat
    PROVE  GoodPort(Store(port, g, n)) /\ Store(port, g, n).lines = port.lines
<1>. DEFINE items == [port.items EXCEPT ![g] = @ + n]
            load == [port.load EXCEPT ![g] = @ + n]
<1>1. port \in Ports
  BY DEF GoodPort
<1>2. Store(port, g, n) = [port EXCEPT !.items = items, !.load = load]
  BY <1>1 DEF Store, Ports
<1>3. items \in [Goods -> Int] /\ load \in [Goods -> Int]
  BY <1>1 DEF Ports
<1>. HIDE DEF items, load
<1>4. Store(port, g, n) \in Ports /\ Store(port, g, n).lines = port.lines
  BY <1>1, <1>2, <1>3 DEF Ports
<1>. QED
  BY <1>4 DEF GoodPort

LEMMA SpendGood ==
    ASSUME NEW port, GoodPort(port), NEW p \in Products, NEW n \in Nat
    PROVE  GoodPort(Spend(port, p, n)) /\ Spend(port, p, n).lines = port.lines
<1>1. port \in Ports
  BY DEF GoodPort
<1>2. ASSUME NEW has \in [Goods -> Int]
      PROVE  Less(has, p, n) \in [Goods -> Int]
  <2>1. ASSUME NEW i \in Inputs
        PROVE  Cost[p][i] * n \in Int
    BY FactoryAssumption
  <2>. QED
    BY <2>1 DEF Less, Goods
<1>3. Less(port.items, p, n) \in [Goods -> Int] /\ Less(port.load, p, n) \in [Goods -> Int]
  BY <1>1, <1>2 DEF Ports
<1>4. Spend(port, p, n) \in Ports /\ Spend(port, p, n).lines = port.lines
  BY <1>1, <1>3 DEF Ports, Spend
<1>. QED
  BY <1>4 DEF GoodPort

LEMMA SetPortGood ==
    ASSUME Good(mem), NEW port, GoodPort(port)
    PROVE  Good(SetPort(port))
  BY DEF Good, SetPort, Documents

LEMMA SetCardGood ==
    ASSUME NEW m, Good(m), NEW n \in Nfts, m[Slot(n)] # NoData, NEW card \in CardType
    PROVE  Good(SetCard(m, n, card))
<1>. DEFINE cards == [m[Slot(n)] EXCEPT ![n] = card]
<1>1. SetCard(m, n, card) = [m EXCEPT ![Slot(n)] = cards]
  BY SlotOf DEF SetCard, Good
<1>2. Slot(n) = "hero" => cards \in Cards(Heroes)
  BY SlotOf DEF Good, Cards, CardType
<1>3. Slot(n) = "pet" => cards \in Cards(Pets)
  BY SlotOf DEF Good, Cards, CardType
<1>. HIDE DEF cards
<1>4. Slot(n) = "hero" \/ Slot(n) = "pet"
  BY SlotOf DEF Slots
<1>. QED
  BY <1>1, <1>2, <1>3, <1>4 DEF Good, Documents

LEMMA NewGood ==
    /\ New = [d \in Documents |-> New[d]]
    /\ New["port"] = NewPort /\ GoodPort(NewPort)
    /\ New["hero"] \in Cards(Heroes)
    /\ New["pet"] \in Cards(Pets)
<1>1. NewPort.lines = <<>>
  BY DEF NewPort
<1>2. <<>> \in Seq(Lines) /\ DOMAIN NewPort.lines = {}
  BY <1>1, EmptySeq
<1>3. NewPort \in Ports
  BY <1>2 DEF NewPort, Ports
<1>4. 0 \in 0..NLines
  BY FactoryAssumption
<1>. QED
  BY <1>2, <1>3, <1>4 DEF New, Documents, NewCards, Free, Cards, CardType, GoodPort

LEMMA NoDataGood == Good([d \in Documents |-> NoData])
  BY DEF Good, Documents

\* A step that leaves good data in memory keeps the type.
LEMMA BecomesGood ==
    ASSUME Inv, NEW m, Good(m), NEW flushed, Becomes(m, flushed)
    PROVE  Inv'
<1>1. mem' = m /\ UNCHANGED <<here, now, crashes>>
  BY DEF Becomes
<1>2. db' = [d \in Documents |-> IF d \in flushed /\ m[d] # NoData THEN m[d] ELSE db[d]]
  BY DEF Becomes
<1>3. Good(db')
  BY <1>2 DEF Good, Documents, Inv
<1>. QED
  BY <1>1, <1>3 DEF Inv, Good, GoodPort, GoodLine

-----------------------------------------------------------------------------
\* Every action keeps the type.

LEMMA PortGood ==
    ASSUME Inv, HasPort
    PROVE  GoodPort(Port) /\ Good(mem) /\ now \in Nat
  BY TimesAreNats DEF Inv, HasPort, Port, Good

LEMMA PortOnlyType == Inv /\ PortOnly => Inv'
  BY PortGood, SetPortGood, BecomesGood DEF PortOnly

LEMMA MakePort ==
    ASSUME Inv, NEW l \in 1..NLines, NEW p \in Products, NEW n \in Counts, Make(l, p, n)
    PROVE  PortOnly
<1>. DEFINE port == Prepared(l)
            line == [port.lines[l] EXCEPT !.prod = p, !.target = n, !.output = 0,
                        !.unfetched = 0, !.single = Single(p), !.last = now]
            paid == SetLine(Spend(port, p, n), l, line)
            ordered == [paid EXCEPT !.ordered[p] = @ + n]
<1>1. GoodPort(Port) /\ Good(mem) /\ now \in Nat
  BY PortGood DEF Make
<1>2. GoodPort(port) /\ l \in DOMAIN port.lines
  BY <1>1, PreparedGood
<1>a. \A k, c : c \in Nfts => (Names(port, k, c) <=> Names(Port, k, c))
  <2>1. \A c \in Nfts : EmptyLine.who[Slot(c)] # c
    BY SlotOf, FactoryAssumption DEF EmptyLine
  <2>. QED
    BY <1>1, <2>1, PreparedGood DEF Names
<1>3. n \in Nat /\ Single(p) \in Nat \ {0} /\ p # NoProduct
  BY FactoryAssumption DEF Single
<1>4. GoodLine(line)
  <2>1. port.lines[l] \in Lines
    BY <1>2 DEF GoodPort, GoodLine
  <2>2. line \in Lines
    BY <1>1, <1>3, <2>1 DEF Lines
  <2>. QED
    BY <1>1, <1>3, <2>1, <2>2 DEF GoodLine, Lines
<1>5. GoodPort(Spend(port, p, n)) /\ Spend(port, p, n).lines = port.lines
  BY <1>2, <1>3, SpendGood
<1>6. /\ GoodPort(paid)
      /\ DOMAIN paid.lines = DOMAIN port.lines
      /\ \A k \in DOMAIN port.lines :
            paid.lines[k] = IF k = l THEN line ELSE port.lines[k]
  <2>. HIDE DEF line, port
  <2>. QED
    BY <1>2, <1>4, <1>5, SetLineGood
<1>b. line.who = port.lines[l].who
  BY <1>2 DEF GoodPort, GoodLine, Lines
<1>c. \A k, c : c \in Nfts => (Names(paid, k, c) <=> Names(port, k, c))
  <2>. HIDE DEF line, port, paid
  <2>. QED
    BY <1>6, <1>b DEF Names
<1>7. GoodPort(ordered) /\ ordered.lines = paid.lines
  <2>. HIDE DEF paid
  <2>1. paid.ordered[p] + n \in Nat
    BY <1>3, <1>6 DEF GoodPort, Ports
  <2>. QED
    BY <1>6, <2>1 DEF GoodPort, Ports
<1>8. \/ Becomes(SetPort(ordered), {"port"})
      \/ Becomes(SetPort(port), {}) /\ SameStore(port, Port)
  BY <1>1, PreparedGood DEF Make
<1>d. \A k, c : c \in Nfts => (Names(ordered, k, c) <=> Names(Port, k, c))
  <2>. HIDE DEF ordered, paid, port
  <2>. QED
    BY <1>7, <1>a, <1>c DEF Names
<1>. HIDE DEF ordered, port
<1>. QED
  BY <1>2, <1>7, <1>8, <1>a, <1>d DEF PortOnly, Make

LEMMA FetchPort ==
    ASSUME Inv, NEW l \in 1..NLines, Fetch(l)
    PROVE  PortOnly
<1>. DEFINE line == Output(Line(l))
            stored == Store(Port, line.prod, line.unfetched)
            fetched == [line EXCEPT !.unfetched = 0]
            port == SetLine(stored, l, fetched)
<1>1. GoodPort(Port) /\ Good(mem) /\ now \in Nat
  BY PortGood DEF Fetch, HasLine
<1>2. l \in DOMAIN Port.lines
  BY <1>1, LenProperties DEF GoodPort, Ports, Fetch, HasLine
<1>3. GoodLine(Line(l))
  BY <1>1, <1>2 DEF GoodPort, Line
<1>4. GoodLine(line) /\ line.who = Line(l).who
  BY <1>1, <1>3, OutputGood
<1>5. line.unfetched > 0 /\ Becomes(SetPort(port), {"port"})
  BY DEF Fetch
<1>. HIDE DEF line
<1>6. line.unfetched \in Nat /\ line.prod \in Goods
  <2>1. line \in Lines /\ line.unfetched <= line.target
    BY <1>4 DEF GoodLine, Lines
  <2>2. line.prod # NoProduct
    BY <1>4, <1>5, <2>1 DEF GoodLine, Lines
  <2>. QED
    BY <2>1, <2>2 DEF Lines, Goods
<1>7. GoodLine(fetched) /\ fetched.who = Line(l).who
  BY <1>4 DEF GoodLine, Lines
<1>8. GoodPort(stored) /\ stored.lines = Port.lines
  BY <1>1, <1>6, StoreGood
<1>9. /\ GoodPort(port)
      /\ DOMAIN port.lines = DOMAIN Port.lines
      /\ \A k \in DOMAIN Port.lines :
            port.lines[k] = IF k = l THEN fetched ELSE Port.lines[k]
  <2>. HIDE DEF fetched, stored
  <2>. QED
    BY <1>2, <1>7, <1>8, SetLineGood
<1>. HIDE DEF port, fetched
<1>10. \A k, c : c \in Nfts => (Names(port, k, c) <=> Names(Port, k, c))
  BY <1>7, <1>9 DEF Names, Line
<1>. QED
  BY <1>5, <1>9, <1>10 DEF PortOnly, Fetch, HasLine

\* A card is in memory as one of its type.
LEMMA CardGood ==
    ASSUME Good(mem), NEW n \in Nfts, HasCard(n)
    PROVE  Card(n) \in CardType
  BY SlotOf DEF Good, HasCard, Card, Cards, CardType, Slots

\* What setting and unsetting a worker leave in memory.
LEMMA AssignedGood ==
    ASSUME Inv, NEW l \in 1..NLines, NEW n \in Nfts, HasLine(l), HasCard(n),
           Line(l).prod # NoProduct, NEW w \in Nfts \cup {NoNft}, NEW k \in 0..NLines
    PROVE  Good(Assigned(l, n, w, k))
<1>. DEFINE line == [Line(l) EXCEPT !.who = [@ EXCEPT ![Slot(n)] = w],
                                    !.single = Single(Line(l).prod)]
            port == SetLine(Port, l, line)
            card == [Card(n) EXCEPT !.line = k]
<1>1. GoodPort(Port) /\ Good(mem)
  BY PortGood DEF HasLine
<1>2. l \in DOMAIN Port.lines
  BY <1>1, LenProperties DEF GoodPort, Ports, HasLine
<1>3. GoodLine(Line(l))
  BY <1>1, <1>2 DEF GoodPort, Line
<1>4. GoodLine(line)
  <2>. DEFINE who == [Line(l).who EXCEPT ![Slot(n)] = w]
              single == Single(Line(l).prod)
  <2>1. Line(l) \in Lines
    BY <1>3 DEF GoodLine
  <2>2. who \in [Slots -> Nfts \cup {NoNft}]
    BY <2>1 DEF Lines
  <2>3. single \in Nat \ {0}
    BY <2>1, FactoryAssumption DEF Lines, Single
  <2>4. line = [Line(l) EXCEPT !.who = who, !.single = single]
    BY <2>1 DEF Lines
  <2>. HIDE DEF who, single, line
  <2>5. line \in Lines
    BY <2>1, <2>2, <2>3, <2>4 DEF Lines
  <2>. QED
    BY <1>3, <2>1, <2>3, <2>4, <2>5 DEF GoodLine, Lines
<1>. HIDE DEF line
<1>5. GoodPort(port)
  BY <1>1, <1>2, <1>4, SetLineGood
<1>6. Good(SetPort(port))
  BY <1>1, <1>5, SetPortGood
<1>7. card \in CardType
  BY <1>1, CardGood DEF CardType
<1>8. SetPort(port)[Slot(n)] # NoData
  BY <1>1, SlotOf DEF SetPort, HasCard, Good
<1>9. Assigned(l, n, w, k) = SetCard(SetPort(port), n, card)
  BY DEF Assigned, line
<1>. HIDE DEF port, card
<1>. QED
  BY <1>6, <1>7, <1>8, <1>9, SetCardGood

LEMMA HeroType ==
    ASSUME Inv, NEW l \in 1..NLines, NEW n \in Nfts, SetHero(l, n) \/ UnsetHero(l, n)
    PROVE  Inv'
<1>1. CASE SetHero(l, n)
  <2>1. l \in 0..NLines
    BY FactoryAssumption
  <2>2. Good(Assigned(l, n, n, l))
    BY <1>1, <2>1, AssignedGood DEF SetHero, Unused
  <2>. QED
    BY <1>1, <2>2, BecomesGood DEF SetHero
<1>2. CASE UnsetHero(l, n)
  <2>1. 0 \in 0..NLines
    BY FactoryAssumption
  <2>2. Good(Assigned(l, n, NoNft, 0))
    BY <1>2, <2>1, AssignedGood DEF UnsetHero
  <2>. QED
    BY <1>2, <2>2, BecomesGood DEF UnsetHero
<1>. QED
  BY <1>1, <1>2

LEMMA MineType ==
    ASSUME Inv, NEW n \in Heroes, StartMine(n) \/ StopMine(n)
    PROVE  Inv'
<1>1. n \in Nfts /\ HasCard(n) /\ Good(mem)
  BY DEF Nfts, StartMine, StopMine, Unused, Inv
<1>2. Card(n) \in CardType
  BY <1>1, CardGood
<1>3. ASSUME NEW b \in BOOLEAN
      PROVE  Good(SetCard(mem, n, [Card(n) EXCEPT !.mining = b]))
  <2>1. [Card(n) EXCEPT !.mining = b] \in CardType
    BY <1>2 DEF CardType
  <2>. QED
    BY <1>1, <2>1, SetCardGood DEF HasCard
<1>. QED
  BY <1>3, BecomesGood DEF StartMine, StopMine

LEMMA EarnPort ==
    ASSUME Inv, NEW i \in Inputs, NEW flushed \in SUBSET {"port"}, Earn(i, flushed)
    PROVE  PortOnly
<1>. DEFINE stored == Store(Port, i, 1)
            port == [stored EXCEPT !.earned[i] = @ + 1]
<1>1. GoodPort(Port) /\ Good(mem)
  BY PortGood DEF Earn
<1>2. GoodPort(stored) /\ stored.lines = Port.lines
  BY <1>1, StoreGood DEF Goods
<1>3. Becomes(SetPort(port), flushed)
  BY DEF Earn
<1>. HIDE DEF stored
<1>4. GoodPort(port) /\ port.lines = Port.lines
  <2>1. stored \in Ports /\ stored.earned[i] + 1 \in Nat
    BY <1>2 DEF GoodPort, Ports
  <2>2. port \in Ports /\ port.lines = stored.lines
    BY <2>1 DEF Ports
  <2>. HIDE DEF port
  <2>. QED
    BY <1>2, <2>2 DEF GoodPort
<1>5. SameStore(port, Port)
  <2>1. stored = [Port EXCEPT !.items[i] = @ + 1, !.load[i] = @ + 1]
    BY DEF stored, Store
  <2>2. \A p \in Products : p # i
    BY FactoryAssumption
  <2>. QED
    BY <1>1, <2>1, <2>2 DEF SameStore, GoodPort, Ports
<1>. HIDE DEF port
<1>. QED
  BY <1>3, <1>4, <1>5 DEF PortOnly, Earn, Names

\* Inv is an invariant.
LEMMA InitInv == Init => Inv
<1>1. Good(New)
  BY NewGood DEF Good
<1>. QED
  BY <1>1, NoDataGood, FactoryAssumption DEF Init, Inv

LEMMA StepInv == Inv /\ [Next]_vars => Inv'
<1>. SUFFICES ASSUME Inv, [Next]_vars PROVE Inv'
  OBVIOUS
<1>1. ASSUME NEW l \in 1..NLines, NEW p \in Products, NEW n \in Counts, Make(l, p, n)
      PROVE  Inv'
  BY <1>1, MakePort, PortOnlyType
<1>2. ASSUME NEW l \in 1..NLines, Fetch(l) PROVE Inv'
  BY <1>2, FetchPort, PortOnlyType
<1>3. ASSUME NEW l \in 1..NLines, NEW n \in Nfts, SetHero(l, n) \/ UnsetHero(l, n)
      PROVE  Inv'
  BY <1>3, HeroType
<1>4. ASSUME NEW n \in Heroes, StartMine(n) \/ StopMine(n) PROVE Inv'
  BY <1>4, MineType
<1>5. ASSUME NEW i \in Inputs, Earn(i, {}) \/ Earn(i, {"port"}) PROVE Inv'
  BY <1>5, EarnPort, PortOnlyType
<1>6. ASSUME NEW d \in Documents, Show(d) PROVE Inv'
  <2>1. db' = [db EXCEPT ![d] = New[d]] /\ UNCHANGED <<here, mem, now, crashes>>
    BY <1>6 DEF Show
  <2>2. Good(db')
    BY <2>1, NewGood DEF Inv, Good, Documents
  <2>. QED
    BY <2>1, <2>2 DEF Inv, Good, GoodPort, GoodLine
<1>7. ASSUME FlushAll PROVE Inv'
  BY <1>7, BecomesGood DEF FlushAll, Inv
<1>8. ASSUME Leave PROVE Inv'
  <2>1. Good(db')
    BY <1>8 DEF Leave, Inv, Good, Documents
  <2>2. Good(mem')
    BY <1>8, NoDataGood DEF Leave
  <2>. QED
    BY <1>8, <2>1, <2>2 DEF Leave, Inv
<1>9. ASSUME Enter PROVE Inv'
  BY <1>9 DEF Enter, Inv, Good, GoodPort, GoodLine
<1>10. ASSUME Crash PROVE Inv'
  <2>1. Good(mem')
    BY <1>10, NoDataGood DEF Crash
  <2>2. Good(db')
    BY <1>10 DEF Crash, Inv, Good, GoodPort, GoodLine
  <2>3. here' \in BOOLEAN /\ now' \in Times
    BY <1>10 DEF Crash, Inv
  <2>4. crashes' \in Nat
    BY <1>10 DEF Crash, Inv
  <2>. QED
    BY <2>1, <2>2, <2>3, <2>4 DEF Inv
<1>11. ASSUME Tick PROVE Inv'
  BY <1>11 DEF Tick, Inv, Good, GoodPort, GoodLine
<1>12. ASSUME UNCHANGED vars PROVE Inv'
  BY <1>12 DEF vars, Inv, Good, GoodPort, GoodLine
<1>. QED
  BY <1>1, <1>2, <1>3, <1>4, <1>5, <1>6, <1>7, <1>8, <1>9, <1>10, <1>11, <1>12 DEF Next

LEMMA Invariance == Spec => []Inv
  BY InitInv, StepInv, PTL DEF Spec

\* Documents in memory and in Redis keep their type (define.ts), for every
\* configuration of the factory and any number of restarts.
THEOREM TypeCorrect == Spec => []TypeOK
<1>1. Inv => TypeOK
  BY DEF Inv, TypeOK, Good, GoodPort, Stored, Documents
<1>. QED
  BY <1>1, Invariance, PTL

\* No line makes more than was ordered (factory_msgs.ts:430), however the clock
\* jumps and whichever documents are lost.
THEOREM Ordered == Spec => []WithinOrder
<1>1. Inv => WithinOrder
  <2>. SUFFICES ASSUME Inv, NEW port \in PortsKept PROVE GoodPort(port)
    BY DEF WithinOrder, GoodPort, GoodLine
  <2>. QED
    BY DEF Inv, Good, PortsKept, Views
<1>. QED
  BY <1>1, Invariance, PTL

-----------------------------------------------------------------------------
\* A card works in one place.

At(card, l) == card.line = l /\ ~card.mining

NamesIn(v, l, n) == v["port"] # NoData /\ Names(v["port"], l, n)

\* In v, a card that a line names is marked for that line.
Marked(v) ==
    \A n \in Nfts : \A l : NamesIn(v, l, n) => v[Slot(n)] # NoData /\ At(v[Slot(n)][n], l)

\* Cards are written back whenever they change; a card that is not in memory is
\* on no line, in Redis neither.
Agree ==
    here => \A n \in Nfts :
        /\ mem[Slot(n)] # NoData => mem[Slot(n)] = db[Slot(n)]
        /\ mem[Slot(n)] = NoData => \A l : ~NamesIn(db, l, n)

Away == ~here => mem = [d \in Documents |-> NoData]

OneInv == Marked(mem) /\ Marked(db) /\ Agree /\ Away

\* A step that leaves m in memory keeps OneInv if m is marked, if every card
\* that changes is written back, and if the lines in Redis, unless they are
\* written too, name no card that changes.
LEMMA BecomesOne ==
    ASSUME Inv, OneInv, here, NEW m, Good(m), NEW flushed \in SUBSET Documents,
           Becomes(m, flushed), Marked(m),
           \A n \in Nfts : m[Slot(n)] = NoData <=> mem[Slot(n)] = NoData,
           \A n \in Nfts : m[Slot(n)] = mem[Slot(n)] \/ Slot(n) \in flushed,
           \/ "port" \in flushed /\ m["port"] # NoData
           \/ \A n \in Nfts : \A l : NamesIn(db, l, n) => m[Slot(n)][n] = mem[Slot(n)][n]
    PROVE  OneInv'
<1>1. mem' = m /\ here' /\ "port" \in Documents /\ \A n \in Nfts : Slot(n) \in Documents
  BY SlotOf DEF Becomes, Documents
<1>2. \A d \in Documents : db'[d] = IF d \in flushed /\ m[d] # NoData THEN m[d] ELSE db[d]
  BY DEF Becomes
<1>3. \A n \in Nfts : m[Slot(n)] # NoData => db'[Slot(n)] = m[Slot(n)]
  BY <1>1, <1>2 DEF OneInv, Agree
<1>4. \A n \in Nfts : \A l : NamesIn(db', l, n) => NamesIn(m, l, n) \/ NamesIn(db, l, n)
  BY <1>1, <1>2 DEF NamesIn
<1>5. ASSUME NEW n \in Nfts, NEW l, NamesIn(db', l, n)
      PROVE  m[Slot(n)] # NoData /\ At(m[Slot(n)][n], l)
  <2>1. CASE NamesIn(m, l, n)
    BY <2>1 DEF Marked
  <2>2. CASE ~NamesIn(m, l, n)
    <3>1. NamesIn(db, l, n)
      BY <1>4, <1>5, <2>2
    <3>2. ~("port" \in flushed /\ m["port"] # NoData)
      BY <1>1, <1>2, <1>5, <2>2 DEF NamesIn
    <3>3. m[Slot(n)][n] = mem[Slot(n)][n]
      BY <3>1, <3>2
    <3>4. mem[Slot(n)] # NoData /\ mem[Slot(n)] = db[Slot(n)]
      BY <3>1 DEF OneInv, Agree
    <3>5. At(db[Slot(n)][n], l)
      BY <3>1 DEF OneInv, Marked
    <3>. QED
      BY <3>3, <3>4, <3>5
  <2>. QED
    BY <2>1, <2>2
<1>6. Marked(db')
  BY <1>3, <1>5 DEF Marked
<1>7. \A n \in Nfts : mem'[Slot(n)] # NoData => mem'[Slot(n)] = db'[Slot(n)]
  BY <1>1, <1>3
<1>8. \A n \in Nfts : mem'[Slot(n)] = NoData => \A l : ~NamesIn(db', l, n)
  BY <1>1, <1>5
<1>. QED
  BY <1>1, <1>6, <1>7, <1>8 DEF OneInv, Agree, Away, Marked, NamesIn, Names

LEMMA PortOnlyOne ==
    ASSUME Inv, OneInv, PortOnly
    PROVE  OneInv'
<1>1. PICK port : /\ GoodPort(port)
                  /\ \A l, n : n \in Nfts => (Names(port, l, n) <=> Names(Port, l, n))
                  /\ \E flushed \in SUBSET {"port"} : Becomes(SetPort(port), flushed)
  BY DEF PortOnly
<1>2. PICK flushed \in SUBSET {"port"} : Becomes(SetPort(port), flushed)
  BY <1>1
<1>. DEFINE m == SetPort(port)
<1>3. Good(m) /\ m["port"] = port
  BY <1>1, SetPortGood DEF Inv, Good, SetPort, Documents
<1>4. \A n \in Nfts : m[Slot(n)] = mem[Slot(n)]
  BY SlotOf DEF SetPort, Inv, Good
<1>5. \A n \in Nfts : \A l : NamesIn(m, l, n) => NamesIn(mem, l, n)
  BY <1>1, <1>3 DEF NamesIn, PortOnly, HasPort, Port
<1>. HIDE DEF m
<1>6. Marked(m)
  BY <1>4, <1>5 DEF Marked, OneInv
<1>7. flushed \in SUBSET Documents /\ here
  BY DEF Documents, PortOnly, HasPort
<1>. QED
  BY <1>2, <1>3, <1>4, <1>6, <1>7, BecomesOne DEF m

\* What memory holds after a worker was set or unset.
LEMMA AssignedShape ==
    ASSUME Inv, NEW l \in 1..NLines, NEW n \in Nfts, HasLine(l), HasCard(n),
           Line(l).prod # NoProduct, NEW w \in Nfts \cup {NoNft}, NEW q \in 0..NLines
    PROVE  /\ Assigned(l, n, w, q)["port"] # NoData
           /\ \A c \in Nfts : Assigned(l, n, w, q)[Slot(c)] = NoData <=> mem[Slot(c)] = NoData
           /\ \A c \in Nfts : Slot(c) # Slot(n) => Assigned(l, n, w, q)[Slot(c)] = mem[Slot(c)]
           /\ \A c \in Nfts \ {n} : Assigned(l, n, w, q)[Slot(c)][c] = mem[Slot(c)][c]
           /\ Assigned(l, n, w, q)[Slot(n)][n].line = q
           /\ Assigned(l, n, w, q)[Slot(n)][n].mining = Card(n).mining
           /\ \A k : \A c \in Nfts : NamesIn(Assigned(l, n, w, q), k, c) <=>
                 IF k = l /\ Slot(c) = Slot(n) THEN c = w ELSE NamesIn(mem, k, c)
<1>. DEFINE m == Assigned(l, n, w, q)
            line == [Line(l) EXCEPT !.who = [@ EXCEPT ![Slot(n)] = w],
                                    !.single = Single(Line(l).prod)]
            port == SetLine(Port, l, line)
            card == [Card(n) EXCEPT !.line = q]
<1>1. GoodPort(Port) /\ Good(mem)
  BY PortGood DEF HasLine
<1>2. Port.lines \in Seq(Lines) /\ l \in DOMAIN Port.lines
  BY <1>1, LenProperties DEF GoodPort, Ports, HasLine
<1>3. Line(l) \in Lines
  BY <1>1, <1>2 DEF GoodPort, GoodLine, Line
<1>4. \A s \in Slots : line.who[s] = IF s = Slot(n) THEN w ELSE Line(l).who[s]
  BY <1>3 DEF Lines
<1>5. port.lines = [Port.lines EXCEPT ![l] = line]
  BY <1>1 DEF SetLine, GoodPort, Ports
<1>6. /\ DOMAIN port.lines = DOMAIN Port.lines
      /\ \A k \in DOMAIN Port.lines : port.lines[k] = IF k = l THEN line ELSE Port.lines[k]
  <2>. HIDE DEF line, port
  <2>. QED
    BY <1>2, <1>5
<1>7. m = [[mem EXCEPT !["port"] = port]
              EXCEPT ![Slot(n)] = [mem[Slot(n)] EXCEPT ![n] = card]]
  <2>1. [mem EXCEPT !["port"] = port][Slot(n)] = mem[Slot(n)]
    BY <1>1, SlotOf DEF Good
  <2>. QED
    BY <2>1, <1>1, SlotOf DEF Assigned, SetCard, SetPort, Good
<1>. HIDE DEF line, port, card, m
<1>8. m["port"] = port
  BY <1>1, <1>7, SlotOf DEF Good, Documents
<1>9. m[Slot(n)] = [mem[Slot(n)] EXCEPT ![n] = card]
  BY <1>1, <1>7, SlotOf DEF Good
<1>10. \A c \in Nfts : Slot(c) # Slot(n) => m[Slot(c)] = mem[Slot(c)]
  BY <1>1, <1>7, SlotOf DEF Good
<1>11. n \in DOMAIN mem[Slot(n)] /\ mem[Slot(n)] = [c \in DOMAIN mem[Slot(n)] |-> mem[Slot(n)][c]]
  BY <1>1, SlotOf DEF Good, HasCard, Cards, Slots
<1>12. m[Slot(n)][n] = card /\ \A c \in Nfts \ {n} : m[Slot(c)][c] = mem[Slot(c)][c]
  <2>1. m[Slot(n)][n] = card
    BY <1>9, <1>11
  <2>2. \A c \in Nfts \ {n} : Slot(c) = Slot(n) => c \in DOMAIN mem[Slot(n)]
    BY <1>1, SlotOf DEF Good, HasCard, Cards, Slots
  <2>. QED
    BY <1>9, <1>10, <1>11, <2>1, <2>2
<1>13. m[Slot(n)] # NoData /\ m["port"] # NoData
  <2>1. mem[Slot(n)] # NoData
    BY DEF HasCard
  <2>2. card \in CardType
    BY <1>1, CardGood DEF card, CardType
  <2>3. Slot(n) = "hero" => m[Slot(n)] \in Cards(Heroes)
    BY <1>1, <1>9, <2>1, <2>2, SlotOf DEF Good, Cards
  <2>4. Slot(n) = "pet" => m[Slot(n)] \in Cards(Pets)
    BY <1>1, <1>9, <2>1, <2>2, SlotOf DEF Good, Cards
  <2>5. port \in Ports
    <3>1. [Port.lines EXCEPT ![l] = line] \in Seq(Lines)
      <4>1. line \in Lines
        <5>1. [Line(l).who EXCEPT ![Slot(n)] = w] \in [Slots -> Nfts \cup {NoNft}]
          BY <1>3 DEF Lines
        <5>2. Single(Line(l).prod) \in Nat
          BY <1>3, FactoryAssumption DEF Single, Lines
        <5>. QED
          BY <1>3, <5>1, <5>2 DEF line, Lines
      <4>. QED
        BY <1>2, <4>1, ExceptSeq, LenProperties
    <3>. QED
      BY <1>1, <3>1 DEF port, SetLine, GoodPort, Ports
  <2>. QED
    BY <1>8, <2>3, <2>4, <2>5, SlotOf, NoDataAssumption DEF Slots
<1>d. card.line = q /\ card.mining = Card(n).mining
  BY <1>1, CardGood DEF card, CardType
<1>14. ASSUME NEW k, NEW c \in Nfts
       PROVE  NamesIn(m, k, c) <=>
                 IF k = l /\ Slot(c) = Slot(n) THEN c = w ELSE NamesIn(mem, k, c)
  <2>1. NamesIn(m, k, c) <=> k \in DOMAIN Port.lines /\ port.lines[k].who[Slot(c)] = c
    BY <1>6, <1>8, <1>13 DEF NamesIn, Names
  <2>2. NamesIn(mem, k, c) <=> k \in DOMAIN Port.lines /\ Port.lines[k].who[Slot(c)] = c
    BY DEF NamesIn, Names, Port, HasLine, HasPort
  <2>3. k \in DOMAIN Port.lines =>
            port.lines[k].who[Slot(c)] =
                IF k = l THEN IF Slot(c) = Slot(n) THEN w ELSE Port.lines[k].who[Slot(c)]
                ELSE Port.lines[k].who[Slot(c)]
    BY <1>4, <1>6, SlotOf DEF Line
  <2>. QED
    BY <1>2, <2>1, <2>2, <2>3
<1>15. \A c \in Nfts : m[Slot(c)] = NoData <=> mem[Slot(c)] = NoData
  BY <1>10, <1>13 DEF HasCard
<1>. QED
  BY <1>10, <1>12, <1>13, <1>14, <1>15, <1>d DEF m

\* A card that a line names, in memory or in Redis, is marked for it in memory.
LEMMA NamedIsAt ==
    ASSUME Inv, OneInv, here, NEW n \in Nfts, HasCard(n),
           NEW l, NamesIn(mem, l, n) \/ NamesIn(db, l, n)
    PROVE  At(Card(n), l) /\ l # 0 /\ Card(n) # Free
<1>1. At(Card(n), l)
  BY DEF OneInv, Marked, Agree, HasCard, Card
<1>2. \A port : GoodPort(port) /\ Names(port, l, n) => l # 0
  BY LenProperties DEF GoodPort, Ports, Names
<1>3. l # 0
  BY <1>2 DEF NamesIn, Inv, Good
<1>. QED
  BY <1>1, <1>3 DEF At, Free

LEMMA SetHeroOne ==
    ASSUME Inv, OneInv, NEW l \in 1..NLines, NEW n \in Nfts, SetHero(l, n)
    PROVE  OneInv'
<1>. DEFINE m == Assigned(l, n, n, l)
<1>1. /\ here /\ HasLine(l) /\ HasCard(n) /\ Card(n) = Free /\ Line(l).prod # NoProduct
      /\ Becomes(m, {Slot(n)}) /\ l \in 0..NLines
  BY FactoryAssumption DEF SetHero, Unused, HasCard
<1>2. Good(m)
  BY <1>1, AssignedGood
<1>3. /\ \A c \in Nfts : m[Slot(c)] = NoData <=> mem[Slot(c)] = NoData
      /\ \A c \in Nfts : Slot(c) # Slot(n) => m[Slot(c)] = mem[Slot(c)]
      /\ \A c \in Nfts \ {n} : m[Slot(c)][c] = mem[Slot(c)][c]
      /\ m[Slot(n)][n].line = l /\ m[Slot(n)][n].mining = Card(n).mining
      /\ \A k : \A c \in Nfts : NamesIn(m, k, c) =>
            IF k = l /\ Slot(c) = Slot(n) THEN c = n ELSE NamesIn(mem, k, c)
  BY <1>1, AssignedShape
<1>. HIDE DEF m
<1>4. At(m[Slot(n)][n], l)
  <2>1. ~Free.mining
    BY DEF Free
  <2>. QED
    BY <1>1, <1>3, <2>1 DEF At
<1>5. ASSUME NEW k, NamesIn(mem, k, n) \/ NamesIn(db, k, n) PROVE FALSE
  BY <1>1, <1>5, NamedIsAt
<1>6. Marked(m)
  <2>. SUFFICES ASSUME NEW c \in Nfts, NEW k, NamesIn(m, k, c)
                PROVE  m[Slot(c)] # NoData /\ At(m[Slot(c)][c], k)
    BY DEF Marked
  <2>1. CASE k = l /\ Slot(c) = Slot(n)
    BY <1>1, <1>3, <1>4, <2>1 DEF HasCard
  <2>2. CASE ~(k = l /\ Slot(c) = Slot(n))
    <3>1. NamesIn(mem, k, c) /\ c # n
      BY <1>3, <1>5, <2>2
    <3>2. mem[Slot(c)] # NoData /\ At(mem[Slot(c)][c], k)
      BY <3>1 DEF OneInv, Marked
    <3>. QED
      BY <1>3, <3>1, <3>2
  <2>. QED
    BY <2>1, <2>2
<1>7. \A c \in Nfts : \A k : NamesIn(db, k, c) => m[Slot(c)][c] = mem[Slot(c)][c]
  BY <1>3, <1>5
<1>8. {Slot(n)} \in SUBSET Documents
  BY SlotOf
<1>. QED
  BY <1>1, <1>2, <1>3, <1>6, <1>7, <1>8, BecomesOne

LEMMA UnsetHeroOne ==
    ASSUME Inv, OneInv, NEW l \in 1..NLines, NEW n \in Nfts, UnsetHero(l, n)
    PROVE  OneInv'
<1>. DEFINE m == Assigned(l, n, NoNft, 0)
<1>1. /\ here /\ HasLine(l) /\ HasCard(n) /\ Line(l).prod # NoProduct
      /\ Line(l).who[Slot(n)] = n
      /\ Becomes(m, {"port", Slot(n)}) /\ 0 \in 0..NLines /\ NoNft \in Nfts \cup {NoNft}
  BY FactoryAssumption DEF UnsetHero, HasCard
<1>2. Good(m)
  BY <1>1, AssignedGood
<1>3. /\ m["port"] # NoData
      /\ \A c \in Nfts : m[Slot(c)] = NoData <=> mem[Slot(c)] = NoData
      /\ \A c \in Nfts : Slot(c) # Slot(n) => m[Slot(c)] = mem[Slot(c)]
      /\ \A c \in Nfts \ {n} : m[Slot(c)][c] = mem[Slot(c)][c]
      /\ \A k : \A c \in Nfts : NamesIn(m, k, c) =>
            IF k = l /\ Slot(c) = Slot(n) THEN c = NoNft ELSE NamesIn(mem, k, c)
  BY <1>1, AssignedShape
<1>. HIDE DEF m
<1>4. NamesIn(mem, l, n)
  <2>1. l \in DOMAIN Port.lines
    BY <1>1, PortGood, LenProperties DEF HasLine, GoodPort, Ports
  <2>. QED
    BY <1>1, <2>1 DEF NamesIn, Names, Line, Port, HasLine, HasPort
<1>5. ASSUME NEW k, NamesIn(mem, k, n) PROVE k = l
  BY <1>1, <1>4, <1>5, NamedIsAt DEF At
<1>6. Marked(m)
  <2>. SUFFICES ASSUME NEW c \in Nfts, NEW k, NamesIn(m, k, c)
                PROVE  m[Slot(c)] # NoData /\ At(m[Slot(c)][c], k)
    BY DEF Marked
  <2>1. ~(k = l /\ Slot(c) = Slot(n))
    BY <1>3, FactoryAssumption
  <2>2. NamesIn(mem, k, c) /\ c # n
    BY <1>3, <1>5, <2>1
  <2>3. mem[Slot(c)] # NoData /\ At(mem[Slot(c)][c], k)
    BY <2>2 DEF OneInv, Marked
  <2>. QED
    BY <1>3, <2>2, <2>3
<1>7. {"port", Slot(n)} \in SUBSET Documents
  BY SlotOf DEF Documents
<1>. QED
  BY <1>1, <1>2, <1>3, <1>6, <1>7, BecomesOne

\* A hero that starts to mine or stops is on no line.
LEMMA MineOne ==
    ASSUME Inv, OneInv, NEW n \in Heroes, StartMine(n) \/ StopMine(n)
    PROVE  OneInv'
<1>1. PICK b \in BOOLEAN : Becomes(SetCard(mem, n, [Card(n) EXCEPT !.mining = b]), {"hero"})
  BY DEF StartMine, StopMine
<1>. DEFINE card == [Card(n) EXCEPT !.mining = b]
            m == SetCard(mem, n, card)
<1>2. n \in Nfts /\ Slot(n) = "hero" /\ HasCard(n) /\ here /\ Good(mem)
  BY FactoryAssumption DEF Nfts, Slot, StartMine, StopMine, Unused, HasCard, Inv
<1>3. card \in CardType
  BY <1>2, CardGood DEF CardType
<1>4. m = [mem EXCEPT !["hero"] = [mem["hero"] EXCEPT ![n] = card]]
  BY <1>2 DEF SetCard, Good
<1>5. Good(m)
  BY <1>2, <1>3, SetCardGood DEF HasCard
<1>. HIDE DEF card, m
<1>6. m["hero"] = [mem["hero"] EXCEPT ![n] = card] /\ m["port"] = mem["port"] /\ m["pet"] = mem["pet"]
  BY <1>2, <1>4 DEF Good, Documents
<1>7. mem["hero"] \in Cards(Heroes) /\ m["hero"] \in Cards(Heroes)
  BY <1>2, <1>3, <1>6 DEF Good, HasCard, Cards
<1>8. \A c \in Nfts : /\ m[Slot(c)] = NoData <=> mem[Slot(c)] = NoData
                      /\ m[Slot(c)] = mem[Slot(c)] \/ Slot(c) \in {"hero"}
                      /\ c # n => m[Slot(c)][c] = mem[Slot(c)][c]
  <2>. SUFFICES ASSUME NEW c \in Nfts
                PROVE  /\ m[Slot(c)] = NoData <=> mem[Slot(c)] = NoData
                       /\ m[Slot(c)] = mem[Slot(c)] \/ Slot(c) \in {"hero"}
                       /\ c # n => m[Slot(c)][c] = mem[Slot(c)][c]
    OBVIOUS
  <2>1. CASE Slot(c) = "pet"
    BY <1>6, <2>1
  <2>2. CASE Slot(c) = "hero"
    <3>1. c \in Heroes
      BY <2>2, SlotOf
    <3>. QED
      BY <1>6, <1>7, <2>2, <3>1, NoDataAssumption DEF Cards
  <2>. QED
    BY <2>1, <2>2, SlotOf DEF Slots
<1>9. ASSUME NEW k, NamesIn(mem, k, n) \/ NamesIn(db, k, n) PROVE FALSE
  <2>1. At(Card(n), k) /\ Card(n) # Free
    BY <1>2, <1>9, NamedIsAt
  <2>. QED
    BY <2>1 DEF At, StartMine, StopMine, Unused
<1>10. \A k : \A c \in Nfts : NamesIn(m, k, c) => NamesIn(mem, k, c) /\ c # n
  BY <1>6, <1>9 DEF NamesIn
<1>11. Marked(m)
  BY <1>8, <1>10 DEF Marked, OneInv
<1>12. \A c \in Nfts : \A k : NamesIn(db, k, c) => m[Slot(c)][c] = mem[Slot(c)][c]
  BY <1>8, <1>9
<1>13. {"hero"} \in SUBSET Documents /\ Becomes(m, {"hero"})
  BY <1>1 DEF Documents, m, card
<1>. QED
  BY <1>2, <1>5, <1>8, <1>11, <1>12, <1>13, BecomesOne

\* Nothing is named by no data, nor by a new port.
LEMMA NoneNamed ==
    /\ \A l, n : ~NamesIn([d \in Documents |-> NoData], l, n)
    /\ \A v, l, n : v["port"] = New["port"] => ~NamesIn(v, l, n)
<1>1. \A l, n : ~NamesIn([d \in Documents |-> NoData], l, n)
  BY DEF NamesIn, Documents
<1>2. NewPort.lines = <<>> /\ New["port"] = NewPort
  BY NewGood DEF NewPort
<1>3. DOMAIN <<>> = {}
  BY EmptySeq
<1>. QED
  BY <1>1, <1>2, <1>3 DEF NamesIn, Names

LEMMA ShowOne ==
    ASSUME Inv, OneInv, NEW d \in Documents, Show(d)
    PROVE  OneInv'
<1>1. /\ here /\ here' /\ mem' = mem /\ mem[d] = NoData
      /\ db' = [db EXCEPT ![d] = New[d]]
  BY DEF Show
<1>2. \A e \in Documents : db'[e] = IF e = d THEN New[d] ELSE db[e]
  BY <1>1 DEF Inv, Good
<1>3. ASSUME NEW n \in Nfts, NEW l, NamesIn(db', l, n)
      PROVE  NamesIn(db, l, n) /\ Slot(n) # d /\ mem[Slot(n)] # NoData
  <2>1. d # "port"
    BY <1>2, <1>3, NoneNamed
  <2>2. NamesIn(db, l, n)
    BY <1>2, <1>3, <2>1 DEF NamesIn, Documents
  <2>. QED
    BY <1>1, <2>2 DEF OneInv, Agree
<1>4. Marked(db')
  BY <1>2, <1>3, SlotOf DEF OneInv, Marked
<1>5. \A n \in Nfts : /\ mem[Slot(n)] # NoData => mem[Slot(n)] = db'[Slot(n)]
                      /\ mem[Slot(n)] = NoData => \A l : ~NamesIn(db', l, n)
  BY <1>1, <1>2, <1>3, SlotOf DEF OneInv, Agree
<1>. QED
  BY <1>1, <1>4, <1>5 DEF OneInv, Agree, Away, Marked, NamesIn, Names

LEMMA LeaveOne ==
    ASSUME Inv, OneInv, Leave
    PROVE  OneInv'
<1>1. /\ here /\ ~here' /\ mem' = [d \in Documents |-> NoData]
      /\ db' = [d \in Documents |-> IF mem[d] # NoData THEN mem[d] ELSE db[d]]
  BY DEF Leave
<1>2. \A d \in Documents : db'[d] = IF mem[d] # NoData THEN mem[d] ELSE db[d]
  BY <1>1
<1>3. ASSUME NEW n \in Nfts, NEW l, NamesIn(db', l, n)
      PROVE  mem[Slot(n)] # NoData /\ At(mem[Slot(n)][n], l)
  <2>1. NamesIn(mem, l, n) \/ NamesIn(db, l, n)
    BY <1>2, <1>3 DEF NamesIn, Documents
  <2>. QED
    BY <1>1, <2>1 DEF OneInv, Marked, Agree
<1>4. Marked(db')
  BY <1>2, <1>3, SlotOf DEF Marked, At
<1>5. Marked(mem')
  BY <1>1, NoneNamed DEF Marked
<1>. QED
  BY <1>1, <1>4, <1>5 DEF OneInv, Agree, Away, Marked, NamesIn, Names

LEMMA StepOne ==
    ASSUME Inv, OneInv, [Next]_vars
    PROVE  OneInv'
<1>1. ASSUME NEW l \in 1..NLines, NEW p \in Products, NEW n \in Counts, Make(l, p, n)
      PROVE  OneInv'
  BY <1>1, MakePort, PortOnlyOne
<1>2. ASSUME NEW l \in 1..NLines, Fetch(l) PROVE OneInv'
  BY <1>2, FetchPort, PortOnlyOne
<1>3. ASSUME NEW l \in 1..NLines, NEW n \in Nfts, SetHero(l, n) \/ UnsetHero(l, n)
      PROVE  OneInv'
  BY <1>3, SetHeroOne, UnsetHeroOne
<1>4. ASSUME NEW n \in Heroes, StartMine(n) \/ StopMine(n) PROVE OneInv'
  BY <1>4, MineOne
<1>5. ASSUME NEW i \in Inputs, Earn(i, {}) \/ Earn(i, {"port"}) PROVE OneInv'
  BY <1>5, EarnPort, PortOnlyOne
<1>6. ASSUME NEW d \in Documents, Show(d) PROVE OneInv'
  BY <1>6, ShowOne
<1>7. ASSUME FlushAll PROVE OneInv'
  <2>1. here /\ Becomes(mem, Documents) /\ Good(mem) /\ Marked(mem)
    BY <1>7 DEF FlushAll, Inv, OneInv
  <2>. QED
    BY <2>1, BecomesOne
<1>8. ASSUME Leave PROVE OneInv'
  BY <1>8, LeaveOne
<1>9. ASSUME Enter PROVE OneInv'
  <2>1. here' /\ mem' = db /\ db' = db
    BY <1>9 DEF Enter
  <2>2. \A n \in Nfts : db[Slot(n)] = NoData => \A l : ~NamesIn(db, l, n)
    BY DEF OneInv, Marked
  <2>. QED
    BY <2>1, <2>2 DEF OneInv, Agree, Away, Marked, NamesIn, Names
<1>10. ASSUME Crash PROVE OneInv'
  <2>1. ~here' /\ mem' = [d \in Documents |-> NoData] /\ db' = db
    BY <1>10 DEF Crash
  <2>2. Marked(mem')
    BY <2>1, NoneNamed DEF Marked
  <2>. QED
    BY <2>1, <2>2 DEF OneInv, Agree, Away, Marked, NamesIn, Names
<1>11. ASSUME UNCHANGED <<here, mem, db>> PROVE OneInv'
  BY <1>11 DEF OneInv, Agree, Away, Marked, NamesIn, Names
<1>12. ASSUME Tick \/ UNCHANGED vars PROVE OneInv'
  BY <1>11, <1>12 DEF Tick, vars
<1>. QED
  BY <1>1, <1>2, <1>3, <1>4, <1>5, <1>6, <1>7, <1>8, <1>9, <1>10, <1>12 DEF Next

LEMMA InitOne == Init => OneInv
<1>1. ASSUME Init PROVE \A l, n : ~NamesIn(mem, l, n) /\ ~NamesIn(db, l, n)
  BY <1>1, NoneNamed DEF Init
<1>. QED
  BY <1>1 DEF Init, OneInv, Marked, Agree, Away

\* A card works in one place (share_structure.proto:159): a line names only a
\* card that is marked for it and does not mine, in memory and in Redis, after
\* any number of restarts.
THEOREM OnePlace == Spec => []WorksOnce
<1>1. OneInv => WorksOnce
  BY DEF OneInv, Marked, NamesIn, Names, At, WorksOnce, Views
<1>2. Inv /\ OneInv /\ [Next]_vars => (Inv /\ OneInv)'
  BY StepInv, StepOne
<1>. QED
  BY <1>1, <1>2, InitInv, InitOne, PTL DEF Spec

-----------------------------------------------------------------------------
(***************************************************************************)
(* What a player was told is stored: whatever orders or stores a product   *)
(* writes the port back, and what does not changes neither.                *)
(***************************************************************************)
LEMMA BecomesStored ==
    ASSUME Inv, AnsweredIsStored, here, NEW m, NEW flushed, Becomes(m, flushed),
           \/ m["port"] = NoData
           \/ "port" \in flushed
           \/ mem["port"] # NoData /\ SameStore(m["port"], mem["port"])
    PROVE  AnsweredIsStored'
<1>1. mem' = m /\ here' /\ "port" \in Documents
  BY DEF Becomes, Documents
<1>2. db'["port"] = IF "port" \in flushed /\ m["port"] # NoData THEN m["port"] ELSE db["port"]
  BY <1>1 DEF Becomes
<1>3. CASE m["port"] = NoData
  BY <1>1, <1>3 DEF AnsweredIsStored
<1>4. CASE m["port"] # NoData /\ "port" \in flushed
  BY <1>1, <1>2, <1>4 DEF AnsweredIsStored
<1>5. CASE m["port"] # NoData /\ "port" \notin flushed
  <2>1. mem["port"] # NoData /\ SameStore(m["port"], mem["port"]) /\ db'["port"] = db["port"]
    BY <1>2, <1>5
  <2>. QED
    BY <1>1, <2>1 DEF AnsweredIsStored, SameStore
<1>. QED
  BY <1>3, <1>4, <1>5

LEMMA PortOnlyStored ==
    ASSUME Inv, AnsweredIsStored, PortOnly
    PROVE  AnsweredIsStored'
<1>1. PICK port : /\ GoodPort(port)
                  /\ \E flushed \in SUBSET {"port"} :
                        /\ "port" \in flushed \/ SameStore(port, Port)
                        /\ Becomes(SetPort(port), flushed)
  BY DEF PortOnly
<1>2. SetPort(port)["port"] = port /\ here /\ mem["port"] # NoData /\ mem["port"] = Port
  BY DEF SetPort, Inv, Good, Documents, PortOnly, HasPort, Port
<1>. QED
  BY <1>1, <1>2, BecomesStored

\* Setting or unsetting a worker leaves the storehouse alone.
LEMMA AssignedStore ==
    ASSUME Inv, NEW l \in 1..NLines, NEW n \in Nfts, HasLine(l), HasCard(n), NEW w, NEW k
    PROVE  mem["port"] # NoData /\ SameStore(Assigned(l, n, w, k)["port"], mem["port"])
<1>. DEFINE line == [Line(l) EXCEPT !.who = [@ EXCEPT ![Slot(n)] = w],
                                    !.single = Single(Line(l).prod)]
            port == SetLine(Port, l, line)
            card == [Card(n) EXCEPT !.line = k]
<1>1. GoodPort(Port) /\ Good(mem) /\ mem["port"] # NoData
  BY PortGood DEF HasLine, HasPort
<1>2. Assigned(l, n, w, k) = SetCard(SetPort(port), n, card)
  BY DEF Assigned
<1>. HIDE DEF line
<1>3. SameStore(port, Port)
  BY <1>1 DEF SameStore, SetLine, GoodPort, Ports
<1>. HIDE DEF port, card
<1>4. Assigned(l, n, w, k)["port"] = port
  BY <1>1, <1>2, SlotOf DEF SetCard, SetPort, Good, Documents
<1>. QED
  BY <1>1, <1>3, <1>4 DEF Port

LEMMA StepStored ==
    ASSUME Inv, AnsweredIsStored, [Next]_vars
    PROVE  AnsweredIsStored'
<1>1. ASSUME NEW l \in 1..NLines, NEW p \in Products, NEW n \in Counts, Make(l, p, n)
      PROVE  AnsweredIsStored'
  BY <1>1, MakePort, PortOnlyStored
<1>2. ASSUME NEW l \in 1..NLines, Fetch(l) PROVE AnsweredIsStored'
  BY <1>2, FetchPort, PortOnlyStored
<1>3. ASSUME NEW l \in 1..NLines, NEW n \in Nfts, SetHero(l, n) \/ UnsetHero(l, n)
      PROVE  AnsweredIsStored'
  <2>1. PICK w, k, flushed : Becomes(Assigned(l, n, w, k), flushed)
    BY <1>3 DEF SetHero, UnsetHero
  <2>2. here /\ HasLine(l) /\ HasCard(n)
    BY <1>3 DEF SetHero, UnsetHero, Unused, HasCard
  <2>. QED
    BY <2>1, <2>2, AssignedStore, BecomesStored
<1>4. ASSUME NEW n \in Heroes, StartMine(n) \/ StopMine(n) PROVE AnsweredIsStored'
  <2>1. PICK card : Becomes(SetCard(mem, n, card), {"hero"})
    BY <1>4 DEF StartMine, StopMine
  <2>2. SetCard(mem, n, card)["port"] = mem["port"] /\ here
    BY <1>4, SlotOf DEF SetCard, Inv, Good, Documents, Nfts, StartMine, StopMine, Unused, HasCard
  <2>3. mem["port"] # NoData => SameStore(SetCard(mem, n, card)["port"], mem["port"])
    BY <2>2 DEF SameStore
  <2>. QED
    BY <2>1, <2>2, <2>3, BecomesStored
<1>5. ASSUME NEW i \in Inputs, Earn(i, {}) \/ Earn(i, {"port"}) PROVE AnsweredIsStored'
  BY <1>5, EarnPort, PortOnlyStored
<1>6. ASSUME NEW d \in Documents, Show(d) PROVE AnsweredIsStored'
  <2>1. mem' = mem /\ mem[d] = NoData /\ \A e \in Documents \ {d} : db'[e] = db[e]
    BY <1>6 DEF Show, Inv, Good
  <2>2. CASE d = "port"
    BY <2>1, <2>2 DEF AnsweredIsStored
  <2>3. CASE d # "port"
    <3>1. db'["port"] = db["port"] /\ here
      BY <1>6, <2>1, <2>3 DEF Documents, Show
    <3>. QED
      BY <2>1, <3>1 DEF AnsweredIsStored
  <2>. QED
    BY <2>2, <2>3
<1>7. ASSUME FlushAll PROVE AnsweredIsStored'
  <2>1. here /\ Becomes(mem, Documents) /\ "port" \in Documents
    BY <1>7 DEF FlushAll, Documents
  <2>. QED
    BY <2>1, BecomesStored
<1>8. ASSUME Leave \/ Crash PROVE AnsweredIsStored'
  BY <1>8 DEF Leave, Crash, AnsweredIsStored
<1>9. ASSUME Enter PROVE AnsweredIsStored'
  BY <1>9 DEF Enter, AnsweredIsStored
<1>10. ASSUME UNCHANGED <<here, mem, db>> PROVE AnsweredIsStored'
  BY <1>10 DEF AnsweredIsStored
<1>11. ASSUME Tick \/ UNCHANGED vars PROVE AnsweredIsStored'
  BY <1>10, <1>11 DEF Tick, vars
<1>. QED
  BY <1>1, <1>2, <1>3, <1>4, <1>5, <1>6, <1>7, <1>8, <1>9, <1>11 DEF Next

\* What a player is told was ordered or fetched is in Redis (factory_msgs.ts:116, 337),
\* though setting a worker and earning write other documents, or none.
THEOREM AnswersAreStored == Spec => []AnsweredIsStored
<1>1. Init => AnsweredIsStored
  BY DEF Init, AnsweredIsStored
<1>2. Inv /\ AnsweredIsStored /\ [Next]_vars => (Inv /\ AnsweredIsStored)'
  BY StepInv, StepStored
<1>. QED
  BY <1>1, <1>2, InitInv, PTL DEF Spec

-----------------------------------------------------------------------------
(***************************************************************************)
(* The converse of WorksOnce, until a restart: a marked card is named.     *)
(* While the player is away, Redis has cards and port as they were when it *)
(* left; cards that are not in memory are on no line in Redis.             *)
(***************************************************************************)
\* In v, a card that is marked for a line is named by it.
Named(v) ==
    \A n \in Nfts : v[Slot(n)] # NoData /\ v[Slot(n)][n].line # 0 =>
        NamesIn(v, v[Slot(n)][n].line, n)

NInv ==
    crashes = 0 =>
        /\ here => /\ Named(mem)
                   /\ \A n \in Nfts : mem[Slot(n)] = NoData =>
                         db[Slot(n)] = NoData \/ db[Slot(n)][n].line = 0
        /\ ~here => Named(db)

\* A step that leaves m in memory, with the documents that were there.
LEMMA BecomesNamed ==
    ASSUME Inv, NInv, here, NEW m, NEW flushed, Becomes(m, flushed),
           \A n \in Nfts : m[Slot(n)] = NoData <=> mem[Slot(n)] = NoData,
           Named(mem) => Named(m)
    PROVE  NInv'
<1>1. mem' = m /\ here' /\ crashes' = crashes
  BY DEF Becomes
<1>2. \A n \in Nfts : m[Slot(n)] = NoData => db'[Slot(n)] = db[Slot(n)]
  BY SlotOf DEF Becomes
<1>3. crashes = 0 => Named(m)
  BY DEF NInv
<1>4. Named(m) => Named(mem')
  BY <1>1
<1>. QED
  BY <1>1, <1>2, <1>3 DEF NInv, Named, NamesIn, Names

LEMMA PortOnlyNamed ==
    ASSUME Inv, NInv, PortOnly
    PROVE  NInv'
<1>1. PICK port : /\ GoodPort(port)
                  /\ \A l, n : n \in Nfts => (Names(port, l, n) <=> Names(Port, l, n))
                  /\ \E flushed \in SUBSET {"port"} : Becomes(SetPort(port), flushed)
  BY DEF PortOnly
<1>2. PICK flushed \in SUBSET {"port"} : Becomes(SetPort(port), flushed)
  BY <1>1
<1>. DEFINE m == SetPort(port)
<1>3. m["port"] = port /\ here /\ port # NoData
  BY <1>1, NoDataAssumption DEF Inv, Good, SetPort, Documents, PortOnly, HasPort, GoodPort
<1>4. \A n \in Nfts : m[Slot(n)] = mem[Slot(n)]
  BY SlotOf DEF SetPort, Inv, Good
<1>5. \A n \in Nfts : \A l : NamesIn(mem, l, n) => NamesIn(m, l, n)
  BY <1>1, <1>3 DEF NamesIn, PortOnly, HasPort, Port
<1>. HIDE DEF m
<1>6. Named(mem) => Named(m)
  BY <1>4, <1>5 DEF Named
<1>. QED
  BY <1>2, <1>3, <1>4, <1>6, BecomesNamed DEF m

LEMMA HeroNamed ==
    ASSUME Inv, NInv, NEW l \in 1..NLines, NEW n \in Nfts, SetHero(l, n) \/ UnsetHero(l, n)
    PROVE  NInv'
<1>1. PICK w, q, flushed :
          /\ Becomes(Assigned(l, n, w, q), flushed)
          /\ \/ w = n /\ q = l /\ Line(l).who[Slot(n)] = NoNft
             \/ w = NoNft /\ q = 0 /\ Line(l).who[Slot(n)] = n
  BY DEF SetHero, UnsetHero
<1>2. here /\ HasLine(l) /\ HasCard(n) /\ Line(l).prod # NoProduct
  BY DEF SetHero, UnsetHero, Unused, HasCard
<1>3. w \in Nfts \cup {NoNft} /\ q \in 0..NLines
  BY <1>1, FactoryAssumption
<1>. DEFINE m == Assigned(l, n, w, q)
<1>4. /\ \A c \in Nfts : m[Slot(c)] = NoData <=> mem[Slot(c)] = NoData
      /\ \A c \in Nfts \ {n} : m[Slot(c)][c] = mem[Slot(c)][c]
      /\ m[Slot(n)][n].line = q
      /\ \A k : \A c \in Nfts : NamesIn(m, k, c) <=>
            IF k = l /\ Slot(c) = Slot(n) THEN c = w ELSE NamesIn(mem, k, c)
  BY <1>2, <1>3, AssignedShape
<1>. HIDE DEF m
<1>5. Named(mem) => Named(m)
  <2>. SUFFICES ASSUME Named(mem), NEW c \in Nfts, m[Slot(c)] # NoData, m[Slot(c)][c].line # 0
                PROVE  NamesIn(m, m[Slot(c)][c].line, c)
    BY DEF Named
  <2>1. CASE c = n
    <3>1. q = l /\ w = n
      BY <1>1, <1>4, <2>1
    <3>. QED
      BY <1>4, <2>1, <3>1
  <2>2. CASE c # n
    <3>1. m[Slot(c)][c] = mem[Slot(c)][c] /\ mem[Slot(c)] # NoData
      BY <1>4, <2>2
    <3>2. PICK k : k = mem[Slot(c)][c].line
      OBVIOUS
    <3>3. NamesIn(mem, k, c)
      BY <3>1, <3>2 DEF Named
    <3>4. ~(k = l /\ Slot(c) = Slot(n))
      <4>1. k = l /\ Slot(c) = Slot(n) => Line(l).who[Slot(n)] = c
        BY <3>3 DEF NamesIn, Names, Line, Port
      <4>. QED
        BY <1>1, <2>2, <4>1, FactoryAssumption
    <3>. QED
      BY <1>4, <3>1, <3>2, <3>3, <3>4
  <2>. QED
    BY <2>1, <2>2
<1>. QED
  BY <1>1, <1>2, <1>4, <1>5, BecomesNamed DEF m

LEMMA MineNamed ==
    ASSUME Inv, NInv, NEW n \in Heroes, StartMine(n) \/ StopMine(n)
    PROVE  NInv'
<1>1. PICK b \in BOOLEAN : Becomes(SetCard(mem, n, [Card(n) EXCEPT !.mining = b]), {"hero"})
  BY DEF StartMine, StopMine
<1>. DEFINE card == [Card(n) EXCEPT !.mining = b]
            m == SetCard(mem, n, card)
<1>2. n \in Nfts /\ Slot(n) = "hero" /\ HasCard(n) /\ here /\ Good(mem)
  BY FactoryAssumption DEF Nfts, Slot, StartMine, StopMine, Unused, HasCard, Inv
<1>3. card \in CardType /\ card.line = Card(n).line
  BY <1>2, CardGood DEF CardType
<1>4. m = [mem EXCEPT !["hero"] = [mem["hero"] EXCEPT ![n] = card]]
  BY <1>2 DEF SetCard, Good
<1>. HIDE DEF card, m
<1>6. m["hero"] = [mem["hero"] EXCEPT ![n] = card] /\ m["port"] = mem["port"] /\ m["pet"] = mem["pet"]
  BY <1>2, <1>4 DEF Good, Documents
<1>7. mem["hero"] \in Cards(Heroes) /\ m["hero"] \in Cards(Heroes)
  BY <1>2, <1>3, <1>6 DEF Good, HasCard, Cards
<1>8. \A c \in Nfts : /\ m[Slot(c)] = NoData <=> mem[Slot(c)] = NoData
                      /\ mem[Slot(c)] # NoData => m[Slot(c)][c].line = mem[Slot(c)][c].line
  <2>. SUFFICES ASSUME NEW c \in Nfts
                PROVE  /\ m[Slot(c)] = NoData <=> mem[Slot(c)] = NoData
                       /\ m[Slot(c)][c].line = mem[Slot(c)][c].line
    OBVIOUS
  <2>1. CASE Slot(c) = "pet"
    BY <1>6, <2>1
  <2>2. CASE Slot(c) = "hero"
    <3>1. c \in Heroes /\ mem["hero"][n] = Card(n)
      BY <1>2, <2>2, SlotOf DEF Card
    <3>2. m["hero"][c].line = mem["hero"][c].line
      BY <1>3, <1>6, <1>7, <3>1 DEF Cards
    <3>. QED
      BY <1>7, <2>2, <3>2, NoDataAssumption
  <2>. QED
    BY <2>1, <2>2, SlotOf DEF Slots
<1>9. Named(mem) => Named(m)
  BY <1>6, <1>8 DEF Named, NamesIn
<1>. QED
  BY <1>1, <1>2, <1>8, <1>9, BecomesNamed DEF m, card

\* A document that is new has no marked card.
LEMMA NewIsFree ==
    \A n \in Nfts : New[Slot(n)][n].line = 0
<1>. SUFFICES ASSUME NEW n \in Nfts PROVE New[Slot(n)][n].line = 0
  OBVIOUS
<1>1. CASE Slot(n) = "hero"
  BY <1>1, SlotOf DEF New, Documents, NewCards, Free
<1>2. CASE Slot(n) = "pet"
  BY <1>2, SlotOf DEF New, Documents, NewCards, Free
<1>. QED
  BY <1>1, <1>2, SlotOf DEF Slots

LEMMA StepNamed ==
    ASSUME Inv, NInv, [Next]_vars
    PROVE  NInv'
<1>1. ASSUME NEW l \in 1..NLines, NEW p \in Products, NEW n \in Counts, Make(l, p, n)
      PROVE  NInv'
  BY <1>1, MakePort, PortOnlyNamed
<1>2. ASSUME NEW l \in 1..NLines, Fetch(l) PROVE NInv'
  BY <1>2, FetchPort, PortOnlyNamed
<1>3. ASSUME NEW l \in 1..NLines, NEW n \in Nfts, SetHero(l, n) \/ UnsetHero(l, n)
      PROVE  NInv'
  BY <1>3, HeroNamed
<1>4. ASSUME NEW n \in Heroes, StartMine(n) \/ StopMine(n) PROVE NInv'
  BY <1>4, MineNamed
<1>5. ASSUME NEW i \in Inputs, Earn(i, {}) \/ Earn(i, {"port"}) PROVE NInv'
  BY <1>5, EarnPort, PortOnlyNamed
<1>6. ASSUME NEW d \in Documents, Show(d) PROVE NInv'
  <2>1. /\ here /\ here' /\ mem' = mem /\ crashes' = crashes
        /\ \A e \in Documents : db'[e] = IF e = d THEN New[d] ELSE db[e]
    BY <1>6 DEF Show, Inv, Good
  <2>2. ASSUME NEW n \in Nfts, crashes = 0, mem[Slot(n)] = NoData
        PROVE  db'[Slot(n)] = NoData \/ db'[Slot(n)][n].line = 0
    BY <2>1, <2>2, NewIsFree, SlotOf DEF NInv
  <2>. QED
    BY <2>1, <2>2 DEF NInv, Named, NamesIn, Names
<1>7. ASSUME FlushAll PROVE NInv'
  BY <1>7, BecomesNamed DEF FlushAll
<1>8. ASSUME Leave PROVE NInv'
  <2>1. /\ here /\ ~here' /\ crashes' = crashes /\ "port" \in Documents
        /\ \A d \in Documents : db'[d] = IF mem[d] # NoData THEN mem[d] ELSE db[d]
    BY <1>8 DEF Leave, Documents
  <2>2. ASSUME crashes = 0, NEW n \in Nfts, db'[Slot(n)] # NoData, db'[Slot(n)][n].line # 0
        PROVE  NamesIn(db', db'[Slot(n)][n].line, n)
    <3>1. mem[Slot(n)] # NoData /\ db'[Slot(n)] = mem[Slot(n)]
      BY <2>1, <2>2, SlotOf DEF NInv
    <3>2. NamesIn(mem, mem[Slot(n)][n].line, n)
      BY <2>1, <2>2, <3>1 DEF NInv, Named
    <3>. QED
      BY <2>1, <3>1, <3>2 DEF NamesIn
  <2>. QED
    BY <2>1, <2>2 DEF NInv, Named, NamesIn, Names
<1>9. ASSUME Enter PROVE NInv'
  <2>1. ~here /\ here' /\ mem' = db /\ db' = db /\ crashes' = crashes
    BY <1>9 DEF Enter
  <2>. QED
    BY <2>1 DEF NInv, Named, NamesIn, Names
<1>10. ASSUME Crash PROVE NInv'
  <2>1. crashes' # 0
    BY <1>10 DEF Crash, Inv
  <2>. QED
    BY <2>1 DEF NInv
<1>11. ASSUME UNCHANGED <<here, mem, db, crashes>> PROVE NInv'
  BY <1>11 DEF NInv, Named, NamesIn, Names
<1>12. ASSUME Tick \/ UNCHANGED vars PROVE NInv'
  BY <1>11, <1>12 DEF Tick, vars
<1>. QED
  BY <1>1, <1>2, <1>3, <1>4, <1>5, <1>6, <1>7, <1>8, <1>9, <1>10, <1>12 DEF Next

\* A card that is marked for a line can be taken off it (factory_msgs.ts:192), through
\* every flush of one document without the other, until the server is restarted.
THEOREM MarksAreNamed == Spec => []MarkedIsNamed
<1>1. Init => NInv
  <2>1. ASSUME Init, NEW n \in Nfts, mem[Slot(n)] # NoData PROVE mem[Slot(n)][n].line = 0
    BY <2>1, NewIsFree, SlotOf DEF Init
  <2>. QED
    BY <2>1 DEF Init, NInv, Named
<1>2. Inv /\ NInv => MarkedIsNamed
  <2>. SUFFICES ASSUME Inv, NInv, crashes = 0, here, NEW n \in Nfts,
                       mem[Slot(n)] # NoData, Card(n).line # 0
                PROVE  HasLine(Card(n).line) /\ Line(Card(n).line).who[Slot(n)] = n
    BY DEF MarkedIsNamed
  <2>1. PICK k : k = Card(n).line
    OBVIOUS
  <2>2. NamesIn(mem, k, n)
    BY <2>1 DEF NInv, Named, Card
  <2>3. HasPort /\ k \in DOMAIN Port.lines /\ Port.lines[k].who[Slot(n)] = n
    BY <2>2 DEF NamesIn, Names, HasPort, Port
  <2>4. k <= Len(Port.lines)
    BY <2>3, PortGood, LenProperties DEF GoodPort, Ports
  <2>. QED
    BY <2>1, <2>3, <2>4 DEF HasLine, Line
<1>3. Inv /\ NInv /\ [Next]_vars => (Inv /\ NInv)'
  BY StepInv, StepNamed
<1>. QED
  BY <1>1, <1>2, <1>3, InitInv, PTL DEF Spec

-----------------------------------------------------------------------------
(***************************************************************************)
(* Nothing is lost or made up.  A Total is the number of pieces in a heap  *)
(* with one column for each argument: it grows and shrinks with a column.  *)
(* The equations of a port's books then hold in memory and in Redis, each  *)
(* in itself, since a port is written as a whole.                          *)
(***************************************************************************)
Column(f, x) == {x} \X (1..f[x])
Heap(f) == UNION {Column(f, x) : x \in DOMAIN f}

LEMMA TotalIsHeap == \A f : Total(f) = Cardinality(Heap(f))
  BY DEF Total, Heap, Column

LEMMA ColumnCounts ==
    ASSUME NEW f, NEW x, f[x] \in Nat
    PROVE  IsFiniteSet(Column(f, x)) /\ Cardinality(Column(f, x)) = f[x]
<1>. DEFINE n == f[x]
            S == {x}
            T == 1..n
<1>1. n \in Int /\ 1 \in Int /\ (1 > n => n = 0)
  OBVIOUS
<1>2. Column(f, x) = S \X T
  BY DEF Column
<1>3. IsFiniteSet(S) /\ Cardinality(S) = 1
  BY FS_Singleton
<1>. HIDE DEF n, S
<1>4. IsFiniteSet(T) /\ Cardinality(T) = n
  <2>1. IsFiniteSet(1..n) /\ Cardinality(1..n) = IF 1 > n THEN 0 ELSE n - 1 + 1
    BY <1>1, FS_Interval
  <2>. QED
    BY <1>1, <2>1
<1>. HIDE DEF T
<1>5. IsFiniteSet(S \X T) /\ Cardinality(S \X T) = Cardinality(S) * Cardinality(T)
  BY <1>3, <1>4, FS_Product
<1>6. IsFiniteSet(Column(f, x)) /\ Cardinality(Column(f, x)) = n
  BY <1>1, <1>2, <1>3, <1>4, <1>5
<1>. QED
  BY <1>6 DEF n

LEMMA HeapFinite ==
    ASSUME NEW D, IsFiniteSet(D), NEW f \in [D -> Nat]
    PROVE  IsFiniteSet(Heap(f)) /\ Total(f) \in Nat
<1>. DEFINE columns == {Column(f, x) : x \in D}
            column == [x \in D |-> Column(f, x)]
<1>1. column \in Surjection(D, columns)
  BY DEF Surjection
<1>. HIDE DEF column
<1>2. IsFiniteSet(columns)
  BY <1>1, FS_Surjection
<1>3. \A c \in columns : IsFiniteSet(c)
  BY ColumnCounts
<1>4. IsFiniteSet(UNION columns)
  <2>. HIDE DEF columns
  <2>. QED
    BY <1>2, <1>3, FS_UNION
<1>5. IsFiniteSet(Heap(f))
  BY <1>4 DEF Heap
<1>. QED
  BY <1>5, FS_CardinalityType, TotalIsHeap

\* One column grows or shrinks.
LEMMA TotalChanges ==
    ASSUME NEW D, IsFiniteSet(D), NEW f \in [D -> Nat], NEW g \in [D -> Nat], NEW d \in D,
           \A x \in D \ {d} : g[x] = f[x]
    PROVE  Total(g) = Total(f) - f[d] + g[d] /\ Total(f) \in Nat /\ Total(g) \in Nat
<1>. DEFINE rest == UNION {Column(f, x) : x \in D \ {d}}
<1>1. Heap(f) = rest \cup Column(f, d) /\ Heap(g) = rest \cup Column(g, d)
  BY DEF Heap, Column
<1>2. rest \cap Column(f, d) = {} /\ rest \cap Column(g, d) = {}
  BY DEF Column
<1>3. IsFiniteSet(rest)
  BY <1>1, HeapFinite, FS_Subset
<1>. HIDE DEF rest
<1>4. f[d] \in Nat /\ g[d] \in Nat
  OBVIOUS
<1>5. /\ IsFiniteSet(Column(f, d)) /\ Cardinality(Column(f, d)) = f[d]
      /\ IsFiniteSet(Column(g, d)) /\ Cardinality(Column(g, d)) = g[d]
  BY <1>4, ColumnCounts
<1>6. /\ Cardinality(Heap(f)) = Cardinality(rest) + f[d] - Cardinality({})
      /\ Cardinality(Heap(g)) = Cardinality(rest) + g[d] - Cardinality({})
  <2>1. Cardinality(rest \cup Column(f, d)) = Cardinality(rest) + f[d] - Cardinality({})
    BY <1>2, <1>3, <1>5, FS_Union
  <2>2. Cardinality(rest \cup Column(g, d)) = Cardinality(rest) + g[d] - Cardinality({})
    BY <1>2, <1>3, <1>5, FS_Union
  <2>. QED
    BY <1>1, <2>1, <2>2
<1>7. Cardinality(rest) \in Nat /\ Cardinality({}) = 0
  BY <1>3, FS_CardinalityType, FS_EmptySet
<1>8. Total(f) = Cardinality(rest) + f[d] /\ Total(g) = Cardinality(rest) + g[d]
  BY <1>4, <1>6, <1>7, TotalIsHeap
<1>. QED
  BY <1>4, <1>7, <1>8

\* Empty columns add nothing.
LEMMA TotalExtends ==
    ASSUME NEW D, NEW E, D \subseteq E, NEW f \in [D -> Nat], NEW g \in [E -> Nat],
           \A x \in E : g[x] = IF x \in D THEN f[x] ELSE 0
    PROVE  Total(g) = Total(f)
<1>1. \A x \in E \ D : Column(g, x) = {}
  BY DEF Column
<1>2. \A x \in D : Column(g, x) = Column(f, x)
  BY DEF Column
<1>3. Heap(g) = Heap(f)
  BY <1>1, <1>2 DEF Heap
<1>. QED
  BY <1>3, TotalIsHeap

LEMMA TotalZero ==
    ASSUME NEW D, NEW f, DOMAIN f = D, \A x \in D : f[x] = 0
    PROVE  Total(f) = 0
<1>1. Heap(f) = {}
  BY DEF Heap, Column
<1>. QED
  BY <1>1, TotalIsHeap, FS_EmptySet

-----------------------------------------------------------------------------
\* What waits on the lines, and what was paid for the orders.

LEMMA PiecesAreNat ==
    ASSUME NEW line, GoodLine(line), NEW p
    PROVE  Pieces(line, p) \in Nat
  BY DEF Pieces, GoodLine, Lines

LEMMA LinesFinite ==
    ASSUME NEW port, GoodPort(port)
    PROVE  IsFiniteSet(DOMAIN port.lines)
<1>1. DOMAIN port.lines = 1..Len(port.lines) /\ Len(port.lines) \in Nat
  BY LenProperties DEF GoodPort, Ports
<1>. QED
  BY <1>1, FS_Interval

\* Line l is another one.
LEMMA WaitingChanges ==
    ASSUME NEW a, GoodPort(a), NEW b, GoodPort(b), DOMAIN b.lines = DOMAIN a.lines,
           NEW l \in DOMAIN a.lines, \A k \in DOMAIN a.lines \ {l} : b.lines[k] = a.lines[k],
           NEW p
    PROVE  /\ Waiting(b, p) = Waiting(a, p) - Pieces(a.lines[l], p) + Pieces(b.lines[l], p)
           /\ Waiting(a, p) \in Nat /\ Waiting(b, p) \in Nat
<1>. DEFINE D == DOMAIN a.lines
            f == [k \in DOMAIN a.lines |-> Pieces(a.lines[k], p)]
            g == [k \in DOMAIN b.lines |-> Pieces(b.lines[k], p)]
<1>1. f \in [D -> Nat] /\ g \in [D -> Nat]
  BY PiecesAreNat DEF GoodPort
<1>2. \A x \in D \ {l} : g[x] = f[x]
  OBVIOUS
<1>3. f[l] = Pieces(a.lines[l], p) /\ g[l] = Pieces(b.lines[l], p)
  OBVIOUS
<1>4. Waiting(a, p) = Total(f) /\ Waiting(b, p) = Total(g)
  BY DEF Waiting
<1>5. IsFiniteSet(D)
  BY LinesFinite
<1>. HIDE DEF f, g
<1>6. Total(g) = Total(f) - f[l] + g[l] /\ Total(f) \in Nat /\ Total(g) \in Nat
  <2>. HIDE DEF D
  <2>1. l \in D
    BY DEF D
  <2>. QED
    BY <1>1, <1>2, <1>5, <2>1, TotalChanges
<1>. QED
  BY <1>3, <1>4, <1>6

LEMMA WaitingFilled ==
    ASSUME NEW a, GoodPort(a), NEW b, GoodPort(b), DOMAIN a.lines \subseteq DOMAIN b.lines,
           \A k \in DOMAIN b.lines :
               b.lines[k] = IF k \in DOMAIN a.lines THEN a.lines[k] ELSE EmptyLine,
           NEW p \in Products
    PROVE  Waiting(b, p) = Waiting(a, p)
<1>. DEFINE D == DOMAIN a.lines
            E == DOMAIN b.lines
            f == [k \in DOMAIN a.lines |-> Pieces(a.lines[k], p)]
            g == [k \in DOMAIN b.lines |-> Pieces(b.lines[k], p)]
<1>1. f \in [D -> Nat] /\ g \in [E -> Nat]
  BY PiecesAreNat DEF GoodPort
<1>2. Pieces(EmptyLine, p) = 0
  BY FactoryAssumption DEF Pieces, EmptyLine
<1>3. \A x \in E : g[x] = IF x \in D THEN f[x] ELSE 0
  BY <1>2
<1>4. Waiting(a, p) = Total(f) /\ Waiting(b, p) = Total(g)
  BY DEF Waiting
<1>. HIDE DEF f, g
<1>5. Total(g) = Total(f)
  <2>1. D \subseteq E
    OBVIOUS
  <2>. HIDE DEF D, E
  <2>. QED
    BY <1>1, <1>3, <2>1, TotalExtends
<1>. QED
  BY <1>4, <1>5

LEMMA WaitingIsNat ==
    ASSUME NEW a, GoodPort(a), NEW p
    PROVE  Waiting(a, p) \in Nat
<1>. DEFINE f == [k \in DOMAIN a.lines |-> Pieces(a.lines[k], p)]
<1>1. f \in [DOMAIN a.lines -> Nat] /\ Waiting(a, p) = Total(f)
  BY PiecesAreNat DEF GoodPort, Waiting
<1>. HIDE DEF f
<1>. QED
  BY <1>1, LinesFinite, HeapFinite

LEMMA PaidIsNat ==
    ASSUME NEW a \in Ports, NEW i \in Inputs
    PROVE  [p \in Products |-> Cost[p][i] * a.ordered[p]] \in [Products -> Nat] /\ Paid(a, i) \in Nat
<1>. DEFINE f == [p \in Products |-> Cost[p][i] * a.ordered[p]]
<1>1. ASSUME NEW x \in Nat, NEW y \in Nat PROVE x * y \in Nat
  OBVIOUS
<1>2. f \in [Products -> Nat]
  <2>1. \A p \in Products : Cost[p][i] \in Nat /\ a.ordered[p] \in Nat
    BY FactoryAssumption DEF Ports
  <2>. QED
    BY <1>1, <2>1
<1>3. Paid(a, i) = Total(f)
  BY DEF Paid
<1>. HIDE DEF f
<1>4. Total(f) \in Nat
  <2>1. IsFiniteSet(Products)
    BY FactoryAssumption
  <2>. QED
    BY <1>2, <2>1, HeapFinite
<1>. QED
  BY <1>2, <1>3, <1>4 DEF f

\* n of p are ordered.
LEMMA PaidChanges ==
    ASSUME NEW a \in Ports, NEW b \in Ports, NEW q \in Products, NEW n \in Nat,
           b.ordered = [a.ordered EXCEPT ![q] = @ + n], NEW i \in Inputs
    PROVE  /\ Paid(b, i) = Paid(a, i) + Cost[q][i] * n
           /\ Paid(a, i) \in Nat /\ Cost[q][i] * n \in Nat
<1>. DEFINE f == [p \in Products |-> Cost[p][i] * a.ordered[p]]
            g == [p \in Products |-> Cost[p][i] * b.ordered[p]]
<1>0. ASSUME NEW x \in Nat, NEW y \in Nat PROVE x * y \in Nat
  OBVIOUS
<1>1. f \in [Products -> Nat] /\ g \in [Products -> Nat]
  BY PaidIsNat
<1>2. \A p \in Products \ {q} : g[p] = f[p]
  BY DEF Ports
<1>3. f[q] = Cost[q][i] * a.ordered[q] /\ g[q] = Cost[q][i] * (a.ordered[q] + n)
  BY DEF Ports
<1>4. Cost[q][i] \in Nat /\ a.ordered[q] \in Nat
  BY FactoryAssumption DEF Ports
<1>5. Cost[q][i] * (a.ordered[q] + n) = Cost[q][i] * a.ordered[q] + Cost[q][i] * n
  BY <1>4
<1>6. Paid(a, i) = Total(f) /\ Paid(b, i) = Total(g)
  BY DEF Paid
<1>. HIDE DEF f, g
<1>a. IsFiniteSet(Products)
  BY FactoryAssumption
<1>7. Total(g) = Total(f) - f[q] + g[q] /\ Total(f) \in Nat
  BY <1>1, <1>2, <1>a, TotalChanges
<1>8. f[q] \in Nat /\ Cost[q][i] * n \in Nat
  BY <1>0, <1>1, <1>4
<1>. QED
  BY <1>3, <1>5, <1>6, <1>7, <1>8

-----------------------------------------------------------------------------
\* The books of a port are balanced.
Ledger(port) ==
    /\ \A p \in Products : port.ordered[p] = port.items[p] + Waiting(port, p)
    /\ \A i \in Inputs : port.earned[i] = port.items[i] + Paid(port, i)
    /\ \A g \in Goods : port.items[g] >= 0
    /\ port.load = port.items

Balanced(v) == v["port"] # NoData => Ledger(v["port"])

LInv == Balanced(mem) /\ Balanced(db)

\* The store and the orders are as they were, and as much waits.
LEMMA SameLedger ==
    ASSUME NEW a, Ledger(a), NEW b, b.ordered = a.ordered, b.earned = a.earned,
           b.items = a.items, b.load = a.load,
           \A p \in Products : Waiting(b, p) = Waiting(a, p)
    PROVE  Ledger(b)
<1>1. \A i \in Inputs : Paid(b, i) = Paid(a, i)
  BY DEF Paid
<1>. QED
  BY <1>1 DEF Ledger

\* A line is another one with as many pieces.
LEMMA SetLineLedger ==
    ASSUME NEW port, GoodPort(port), Ledger(port), NEW l \in DOMAIN port.lines,
           NEW line, GoodLine(line),
           \A p \in Products : Pieces(line, p) = Pieces(port.lines[l], p)
    PROVE  Ledger(SetLine(port, l, line))
<1>. DEFINE b == SetLine(port, l, line)
<1>1. /\ b.ordered = port.ordered /\ b.earned = port.earned
      /\ b.items = port.items /\ b.load = port.load
  BY DEF SetLine, GoodPort, Ports
<1>2. /\ GoodPort(b)
      /\ DOMAIN b.lines = DOMAIN port.lines
      /\ \A k \in DOMAIN port.lines : b.lines[k] = IF k = l THEN line ELSE port.lines[k]
  BY SetLineGood
<1>. HIDE DEF b
<1>3. ASSUME NEW p \in Products PROVE Waiting(b, p) = Waiting(port, p)
  <2>1. /\ Waiting(b, p) = Waiting(port, p) - Pieces(port.lines[l], p) + Pieces(b.lines[l], p)
        /\ Waiting(port, p) \in Nat
    BY <1>2, WaitingChanges
  <2>2. Pieces(b.lines[l], p) = Pieces(port.lines[l], p) /\ Pieces(port.lines[l], p) \in Nat
    BY <1>2, PiecesAreNat DEF GoodPort
  <2>. QED
    BY <2>1, <2>2
<1>4. Ledger(b)
  BY <1>1, <1>3, SameLedger
<1>. QED
  BY <1>4 DEF b

\* What is put out of a line is what it has less to make.
LEMMA OutputPieces ==
    ASSUME NEW line, GoodLine(line), now \in Nat, NEW p
    PROVE  Pieces(Output(line), p) = Pieces(line, p)
<1>. DEFINE due == ((now - line.last) * 1000) \div line.single
            open == line.target - line.output
            made == IF due > open THEN open ELSE due
            works == line.last > 0 /\ line.last < now /\ line.output < line.target /\ due >= 1
            add == made * line.single
<1>1. CASE ~works
  <2>1. Output(line) = line
    BY <1>1 DEF Output
  <2>. QED
    BY <2>1
<1>2. CASE works
  <2>1. /\ line.single \in Nat \ {0} /\ line.last \in Nat /\ line.unfetched \in Nat
        /\ line.output \in Nat /\ line.target \in Nat /\ line \in Lines
    BY <1>2 DEF GoodLine, Lines
  <2>2. due \in Int
    BY <2>1
  <2>3. made \in Int
    <3>. HIDE DEF due
    <3>. QED
      BY <2>1, <2>2
  <2>4. Output(line) = [line EXCEPT !.last = @ + add, !.output = @ + made, !.unfetched = @ + made]
    BY <1>2 DEF Output
  <2>. HIDE DEF made, add
  <2>5. /\ Output(line).prod = line.prod /\ Output(line).target = line.target
        /\ Output(line).output = line.output + made
        /\ Output(line).unfetched = line.unfetched + made
    BY <2>1, <2>4 DEF Lines
  <2>. QED
    BY <2>1, <2>3, <2>5 DEF Pieces
<1>. QED
  BY <1>1, <1>2

LEMMA PreparedLedger ==
    ASSUME GoodPort(Port), Ledger(Port), now \in Nat, NEW l \in 1..NLines
    PROVE  Ledger(Prepared(l))
<1>. DEFINE lines == Fill(Port.lines, l)
            filled == [Port EXCEPT !.lines = lines]
<1>1. Port.lines \in Seq(Lines) /\ \A k \in DOMAIN Port.lines : GoodLine(Port.lines[k])
  BY DEF GoodPort, Ports
<1>2. /\ lines \in Seq(Lines) /\ l \in DOMAIN lines /\ DOMAIN Port.lines \subseteq DOMAIN lines
      /\ \A k \in DOMAIN lines :
            lines[k] = IF k \in DOMAIN Port.lines THEN Port.lines[k] ELSE EmptyLine
  BY <1>1, FillGood
<1>3. \A k \in DOMAIN lines : GoodLine(lines[k])
  BY <1>1, <1>2, EmptyLineGood
<1>. HIDE DEF lines
<1>4. /\ filled.lines = lines /\ GoodPort(filled)
      /\ filled.ordered = Port.ordered /\ filled.earned = Port.earned
      /\ filled.items = Port.items /\ filled.load = Port.load
  BY <1>2, <1>3 DEF GoodPort, Ports
<1>5. Prepared(l) = SetLine(filled, l, Output(lines[l]))
  BY <1>2 DEF Prepared, SetLine, lines, GoodPort, Ports
<1>. HIDE DEF filled
<1>6. Ledger(filled)
  BY <1>2, <1>4, WaitingFilled, SameLedger
<1>7. GoodLine(Output(lines[l]))
  BY <1>2, <1>3, OutputGood
<1>8. \A p \in Products : Pieces(Output(lines[l]), p) = Pieces(lines[l], p)
  BY <1>2, <1>3, OutputPieces
<1>. QED
  BY <1>2, <1>4, <1>5, <1>6, <1>7, <1>8, SetLineLedger

\* The inputs of n of q are taken out, and n of q wait to be made on line l.
LEMMA OrderBooks ==
    ASSUME NEW a, GoodPort(a), Ledger(a), NEW b, GoodPort(b),
           NEW q \in Products, NEW n \in Nat, Enough(a, q, n),
           b.ordered = [a.ordered EXCEPT ![q] = @ + n], b.earned = a.earned,
           b.items = Less(a.items, q, n), b.load = Less(a.load, q, n),
           \A p \in Products : Waiting(b, p) = Waiting(a, p) + (IF p = q THEN n ELSE 0)
    PROVE  Ledger(b)
<1>1. a \in Ports /\ b \in Ports
  BY DEF GoodPort
<1>12. /\ \A p \in Products : b.items[p] = a.items[p]
       /\ \A i \in Inputs : b.items[i] = a.items[i] - Cost[q][i] * n
  BY FactoryAssumption DEF Less, Goods
<1>13. b.load = b.items
  BY DEF Ledger
<1>14. ASSUME NEW i \in Inputs
       PROVE  b.earned[i] = b.items[i] + Paid(b, i) /\ b.items[i] >= 0
  <2>1. Paid(b, i) = Paid(a, i) + Cost[q][i] * n /\ Paid(a, i) \in Nat /\ Cost[q][i] * n \in Nat
    BY <1>1, PaidChanges
  <2>2. a.items[i] \in Int /\ a.items[i] >= 0 /\ a.earned[i] = a.items[i] + Paid(a, i)
    BY <1>1 DEF Ledger, Goods, Ports
  <2>3. a.items[i] >= Cost[q][i] * n
    <3>1. CASE Cost[q][i] > 0
      BY <3>1 DEF Enough
    <3>2. CASE Cost[q][i] = 0
      BY <2>2, <3>2
    <3>. QED
      BY <3>1, <3>2, FactoryAssumption
  <2>. DEFINE c == Cost[q][i] * n
  <2>4. b.items[i] = a.items[i] - c /\ b.earned[i] = a.earned[i]
    BY <1>12
  <2>5. Paid(b, i) = Paid(a, i) + c /\ c \in Nat /\ a.items[i] >= c
    BY <2>1, <2>3
  <2>. HIDE DEF c
  <2>. QED
    BY <2>1, <2>2, <2>4, <2>5
<1>15. ASSUME NEW p \in Products
       PROVE  b.ordered[p] = b.items[p] + Waiting(b, p) /\ b.items[p] >= 0
  <2>1. b.ordered[p] = (IF p = q THEN a.ordered[p] + n ELSE a.ordered[p]) /\ a.ordered[p] \in Nat
    BY <1>1 DEF Ports
  <2>2. a.items[p] \in Int /\ a.items[p] >= 0 /\ a.ordered[p] = a.items[p] + Waiting(a, p)
    BY <1>1 DEF Ledger, Goods, Ports
  <2>3. Waiting(a, p) \in Nat
    BY WaitingIsNat
  <2>. QED
    BY <1>12, <2>1, <2>2, <2>3
<1>. QED
  BY <1>13, <1>14, <1>15 DEF Ledger, Goods

\* n of q are ordered on a line that has no pieces.
LEMMA OrderLedger ==
    ASSUME NEW a, GoodPort(a), Ledger(a), NEW l \in DOMAIN a.lines, Idle(a.lines[l]),
           NEW q \in Products, NEW n \in Nat, Enough(a, q, n),
           NEW line, GoodLine(line), line.prod = q, line.target = n, line.output = 0,
           line.unfetched = 0
    PROVE  Ledger([SetLine(Spend(a, q, n), l, line) EXCEPT !.ordered[q] = @ + n])
<1>. DEFINE spent == Spend(a, q, n)
            set == SetLine(spent, l, line)
            b == [set EXCEPT !.ordered[q] = @ + n]
<1>1. a \in Ports
  BY DEF GoodPort
<1>2. GoodPort(spent) /\ spent.lines = a.lines
  BY SpendGood
<1>3. /\ spent.items = Less(a.items, q, n) /\ spent.load = Less(a.load, q, n)
      /\ spent.ordered = a.ordered /\ spent.earned = a.earned
  BY <1>1 DEF Spend, Ports
<1>. HIDE DEF spent
<1>4. /\ GoodPort(set)
      /\ DOMAIN set.lines = DOMAIN a.lines
      /\ \A k \in DOMAIN a.lines : set.lines[k] = IF k = l THEN line ELSE a.lines[k]
  BY <1>2, SetLineGood
<1>5. /\ set.items = spent.items /\ set.load = spent.load
      /\ set.ordered = spent.ordered /\ set.earned = spent.earned
  BY <1>2 DEF SetLine, GoodPort, Ports
<1>. HIDE DEF set
<1>. DEFINE ordered == [set.ordered EXCEPT ![q] = @ + n]
<1>7. set \in Ports /\ ordered \in [Products -> Nat]
  BY <1>4 DEF GoodPort, Ports
<1>8. b = [set EXCEPT !.ordered = ordered]
  BY <1>7 DEF Ports
<1>. HIDE DEF ordered, b
<1>9. /\ b \in Ports /\ b.lines = set.lines /\ b.ordered = ordered
      /\ b.earned = a.earned /\ b.items = Less(a.items, q, n) /\ b.load = Less(a.load, q, n)
  BY <1>3, <1>4, <1>5, <1>7, <1>8 DEF GoodPort, Ports
<1>10. GoodPort(b)
  BY <1>4, <1>9 DEF GoodPort
<1>11. ordered = [a.ordered EXCEPT ![q] = @ + n]
  BY <1>3, <1>5 DEF ordered
<1>12. ASSUME NEW p \in Products
       PROVE  Waiting(b, p) = Waiting(a, p) + (IF p = q THEN n ELSE 0)
  <2>1. /\ DOMAIN b.lines = DOMAIN a.lines
        /\ \A k \in DOMAIN a.lines \ {l} : b.lines[k] = a.lines[k]
        /\ b.lines[l] = line
    BY <1>4, <1>9
  <2>2. Pieces(a.lines[l], p) = 0
    BY DEF Idle, Pieces, GoodPort, GoodLine, Lines
  <2>3. Pieces(b.lines[l], p) = IF p = q THEN n ELSE 0
    BY <2>1 DEF Pieces
  <2>4. /\ Waiting(b, p) = Waiting(a, p) - Pieces(a.lines[l], p) + Pieces(b.lines[l], p)
        /\ Waiting(a, p) \in Nat
    BY <1>10, <2>1, WaitingChanges
  <2>. QED
    BY <2>2, <2>3, <2>4
<1>13. Ledger(b)
  BY <1>9, <1>10, <1>11, <1>12, OrderBooks
<1>. QED
  BY <1>13 DEF b, set, spent

\* What waits on a line is taken into the store.
LEMMA FetchLedger ==
    ASSUME NEW a, GoodPort(a), Ledger(a), NEW l \in DOMAIN a.lines,
           NEW line, GoodLine(line), line.unfetched > 0,
           \A p \in Products : Pieces(line, p) = Pieces(a.lines[l], p)
    PROVE  Ledger(SetLine(Store(a, line.prod, line.unfetched), l, [line EXCEPT !.unfetched = 0]))
<1>. DEFINE q == line.prod
            n == line.unfetched
            fetched == [line EXCEPT !.unfetched = 0]
            stored == Store(a, q, n)
            b == SetLine(stored, l, fetched)
<1>1. a \in Ports /\ line \in Lines
  BY DEF GoodPort, GoodLine
<1>2. n \in Nat /\ n > 0 /\ q \in Products
  <2>1. line.prod # NoProduct
    BY <1>1 DEF GoodLine, Lines
  <2>. QED
    BY <1>1, <2>1 DEF Lines
<1>3. /\ GoodLine(fetched) /\ fetched.prod = q /\ fetched.unfetched = 0
      /\ fetched.target = line.target /\ fetched.output = line.output
  BY <1>1 DEF GoodLine, Lines
<1>4. ASSUME NEW p \in Products
      PROVE  /\ Pieces(fetched, p) = Pieces(line, p) - (IF p = q THEN n ELSE 0)
             /\ Pieces(line, p) \in Nat
  BY <1>1, <1>2, <1>3, PiecesAreNat DEF Pieces, Lines
<1>. HIDE DEF q, n, fetched
<1>5. /\ stored.items = [a.items EXCEPT ![q] = @ + n] /\ stored.load = [a.load EXCEPT ![q] = @ + n]
      /\ stored.ordered = a.ordered /\ stored.earned = a.earned
  BY <1>1 DEF Store, Ports
<1>6. GoodPort(stored) /\ stored.lines = a.lines
  BY <1>2, StoreGood DEF Goods
<1>. HIDE DEF stored
<1>7. /\ GoodPort(b)
      /\ DOMAIN b.lines = DOMAIN a.lines
      /\ \A k \in DOMAIN a.lines : b.lines[k] = IF k = l THEN fetched ELSE a.lines[k]
  BY <1>3, <1>6, SetLineGood
<1>8. /\ b.items = stored.items /\ b.load = stored.load
      /\ b.ordered = a.ordered /\ b.earned = a.earned
  BY <1>5, <1>6 DEF SetLine, GoodPort, Ports
<1>. HIDE DEF b
<1>9. b.load = b.items
  BY <1>5, <1>8 DEF Ledger
<1>10. ASSUME NEW i \in Inputs
       PROVE  b.earned[i] = b.items[i] + Paid(b, i) /\ b.items[i] >= 0
  <2>1. b.items[i] = a.items[i]
    BY <1>1, <1>2, <1>5, <1>8, FactoryAssumption DEF Ports, Goods
  <2>2. Paid(b, i) = Paid(a, i)
    BY <1>8 DEF Paid
  <2>. QED
    BY <1>8, <2>1, <2>2 DEF Ledger, Goods
<1>11. ASSUME NEW p \in Products
       PROVE  b.ordered[p] = b.items[p] + Waiting(b, p) /\ b.items[p] >= 0
  <2>1. /\ Waiting(b, p) = Waiting(a, p) - Pieces(a.lines[l], p) + Pieces(b.lines[l], p)
        /\ Waiting(a, p) \in Nat
    BY <1>7, WaitingChanges
  <2>2. Pieces(b.lines[l], p) = Pieces(a.lines[l], p) - (IF p = q THEN n ELSE 0)
        /\ Pieces(a.lines[l], p) \in Nat
    BY <1>4, <1>7
  <2>3. b.items[p] = a.items[p] + (IF p = q THEN n ELSE 0)
    BY <1>1, <1>2, <1>5, <1>8 DEF Ports, Goods
  <2>4. a.items[p] \in Int /\ a.items[p] >= 0 /\ a.ordered[p] = a.items[p] + Waiting(a, p)
    BY <1>1 DEF Ledger, Goods, Ports
  <2>. QED
    BY <1>2, <1>8, <2>1, <2>2, <2>3, <2>4
<1>12. Ledger(b)
  BY <1>9, <1>10, <1>11 DEF Ledger, Goods
<1>. QED
  BY <1>12 DEF b, stored, fetched, q, n

\* One of an input comes in.
LEMMA EarnLedger ==
    ASSUME NEW a, GoodPort(a), Ledger(a), NEW j \in Inputs
    PROVE  Ledger([Store(a, j, 1) EXCEPT !.earned[j] = @ + 1])
<1>. DEFINE stored == Store(a, j, 1)
            earned == [a.earned EXCEPT ![j] = @ + 1]
            b == [Store(a, j, 1) EXCEPT !.earned[j] = @ + 1]
<1>1. a \in Ports
  BY DEF GoodPort
<1>2. /\ stored.items = [a.items EXCEPT ![j] = @ + 1] /\ stored.load = [a.load EXCEPT ![j] = @ + 1]
      /\ stored.ordered = a.ordered /\ stored.earned = a.earned
  BY <1>1 DEF Store, Ports
<1>3. GoodPort(stored) /\ stored.lines = a.lines
  BY StoreGood DEF Goods
<1>. HIDE DEF stored
<1>4. b = [stored EXCEPT !.earned = earned]
  BY <1>2, <1>3 DEF stored, GoodPort, Ports
<1>. HIDE DEF b
<1>5. /\ b.items = stored.items /\ b.load = stored.load /\ b.lines = a.lines
      /\ b.ordered = a.ordered /\ b.earned = earned
  BY <1>2, <1>3, <1>4 DEF GoodPort, Ports
<1>6. \A p \in Products : Waiting(b, p) = Waiting(a, p)
  BY <1>5 DEF Waiting
<1>7. \A i \in Inputs : Paid(b, i) = Paid(a, i)
  BY <1>5 DEF Paid
<1>8. b.load = b.items
  BY <1>2, <1>5 DEF Ledger
<1>9. \A p \in Products : b.items[p] = a.items[p]
  BY <1>1, <1>2, <1>5, FactoryAssumption DEF Ports, Goods
<1>10. ASSUME NEW i \in Inputs
       PROVE  b.earned[i] = b.items[i] + Paid(b, i) /\ b.items[i] >= 0
  <2>1. /\ b.items[i] = a.items[i] + (IF i = j THEN 1 ELSE 0)
        /\ b.earned[i] = a.earned[i] + (IF i = j THEN 1 ELSE 0)
    BY <1>1, <1>2, <1>5 DEF Ports, Goods
  <2>2. a.items[i] \in Int /\ a.items[i] >= 0 /\ a.earned[i] = a.items[i] + Paid(a, i)
    BY <1>1 DEF Ledger, Goods, Ports
  <2>3. Paid(a, i) \in Nat
    BY <1>1, PaidIsNat
  <2>. QED
    BY <1>7, <2>1, <2>2, <2>3
<1>11. \A p \in Products : b.ordered[p] = b.items[p] + Waiting(b, p) /\ b.items[p] >= 0
  BY <1>5, <1>6, <1>9 DEF Ledger, Goods
<1>12. Ledger(b)
  BY <1>8, <1>10, <1>11 DEF Ledger, Goods
<1>. QED
  BY <1>12 DEF b

-----------------------------------------------------------------------------
\* Each step keeps the books balanced.

LEMMA BecomesBalanced ==
    ASSUME LInv, NEW m, NEW flushed, Becomes(m, flushed), Balanced(m)
    PROVE  LInv'
<1>1. mem' = m /\ "port" \in Documents
  BY DEF Becomes, Documents
<1>2. db'["port"] = IF "port" \in flushed /\ m["port"] # NoData THEN m["port"] ELSE db["port"]
  BY <1>1 DEF Becomes
<1>. QED
  BY <1>1, <1>2 DEF LInv, Balanced, Ledger, Waiting, Paid

LEMMA PortBalanced ==
    ASSUME Inv, LInv, HasPort, NEW port, Ledger(port), NEW flushed, Becomes(SetPort(port), flushed)
    PROVE  LInv'
<1>1. SetPort(port)["port"] = port
  BY DEF SetPort, Inv, Good, Documents
<1>2. Balanced(SetPort(port))
  BY <1>1 DEF Balanced
<1>. QED
  BY <1>2, BecomesBalanced

LEMMA PortLedger ==
    ASSUME LInv, HasPort
    PROVE  Ledger(Port)
  BY DEF LInv, Balanced, HasPort, Port

LEMMA MakeBalanced ==
    ASSUME Inv, LInv, NEW l \in 1..NLines, NEW q \in Products, NEW n \in Counts, Make(l, q, n)
    PROVE  LInv'
<1>. DEFINE port == Prepared(l)
            line == [port.lines[l] EXCEPT !.prod = q, !.target = n, !.output = 0,
                        !.unfetched = 0, !.single = Single(q), !.last = now]
            paid == SetLine(Spend(port, q, n), l, line)
            ordered == [paid EXCEPT !.ordered[q] = @ + n]
<1>1. GoodPort(Port) /\ now \in Nat /\ Ledger(Port) /\ HasPort
  BY PortGood, PortLedger DEF Make
<1>2. GoodPort(port) /\ l \in DOMAIN port.lines /\ Ledger(port)
  BY <1>1, PreparedGood, PreparedLedger
<1>3. \/ Idle(port.lines[l]) /\ Enough(port, q, n) /\ Becomes(SetPort(ordered), {"port"})
      \/ Becomes(SetPort(port), {})
  BY DEF Make
<1>. HIDE DEF port
<1>4. n \in Nat /\ Single(q) \in Nat \ {0} /\ q # NoProduct
  BY FactoryAssumption DEF Single
<1>5. /\ GoodLine(line) /\ line.prod = q /\ line.target = n /\ line.output = 0
      /\ line.unfetched = 0
  <2>1. port.lines[l] \in Lines
    BY <1>2 DEF GoodPort, GoodLine
  <2>2. line \in Lines
    BY <1>1, <1>4, <2>1 DEF Lines
  <2>3. /\ line.prod = q /\ line.target = n /\ line.output = 0 /\ line.unfetched = 0
        /\ line.single = Single(q)
    BY <2>1 DEF Lines
  <2>. HIDE DEF line
  <2>. QED
    BY <1>4, <2>2, <2>3 DEF GoodLine
<1>. HIDE DEF line
<1>6. Idle(port.lines[l]) /\ Enough(port, q, n) => Ledger(ordered)
  BY <1>2, <1>4, <1>5, OrderLedger
<1>. HIDE DEF ordered
<1>. QED
  BY <1>1, <1>2, <1>3, <1>6, PortBalanced

LEMMA FetchBalanced ==
    ASSUME Inv, LInv, NEW l \in 1..NLines, Fetch(l)
    PROVE  LInv'
<1>. DEFINE line == Output(Line(l))
            port == SetLine(Store(Port, line.prod, line.unfetched), l,
                            [line EXCEPT !.unfetched = 0])
<1>1. GoodPort(Port) /\ now \in Nat /\ Ledger(Port) /\ HasPort
  BY PortGood, PortLedger DEF Fetch, HasLine
<1>2. l \in DOMAIN Port.lines
  BY <1>1, LenProperties DEF GoodPort, Ports, Fetch, HasLine
<1>3. GoodLine(Line(l))
  BY <1>1, <1>2 DEF GoodPort, Line
<1>4. GoodLine(line) /\ \A p \in Products : Pieces(line, p) = Pieces(Port.lines[l], p)
  BY <1>1, <1>3, OutputGood, OutputPieces DEF Line
<1>5. line.unfetched > 0 /\ Becomes(SetPort(port), {"port"})
  BY DEF Fetch
<1>. HIDE DEF line
<1>6. Ledger(port)
  BY <1>1, <1>2, <1>4, <1>5, FetchLedger
<1>. HIDE DEF port
<1>. QED
  BY <1>1, <1>5, <1>6, PortBalanced

\* A line that gets or loses a worker has the pieces it had.
LEMMA HeroBalanced ==
    ASSUME Inv, LInv, NEW l \in 1..NLines, NEW n \in Nfts, SetHero(l, n) \/ UnsetHero(l, n)
    PROVE  LInv'
<1>1. PICK w, k, flushed : w \in Nfts \cup {NoNft} /\ Becomes(Assigned(l, n, w, k), flushed)
  BY DEF SetHero, UnsetHero
<1>2. HasLine(l) /\ Line(l).prod # NoProduct
  BY DEF SetHero, UnsetHero
<1>. DEFINE who == [Line(l).who EXCEPT ![Slot(n)] = w]
            single == Single(Line(l).prod)
            line == [Line(l) EXCEPT !.who = [@ EXCEPT ![Slot(n)] = w],
                                    !.single = Single(Line(l).prod)]
            port == SetLine(Port, l, line)
            card == [Card(n) EXCEPT !.line = k]
<1>3. GoodPort(Port) /\ Good(mem) /\ Ledger(Port) /\ HasPort
  BY <1>2, PortGood, PortLedger DEF HasLine
<1>4. l \in DOMAIN Port.lines
  BY <1>2, <1>3, LenProperties DEF GoodPort, Ports, HasLine
<1>5. Line(l) = Port.lines[l] /\ Line(l) \in Lines /\ GoodLine(Line(l))
  BY <1>3, <1>4 DEF GoodPort, Line, GoodLine
<1>6. who \in [Slots -> Nfts \cup {NoNft}] /\ single \in Nat \ {0}
  <2>1. who \in [Slots -> Nfts \cup {NoNft}]
    BY <1>1, <1>5 DEF Lines
  <2>2. single \in Nat \ {0}
    BY <1>2, <1>5, FactoryAssumption DEF Lines, Single
  <2>. QED
    BY <2>1, <2>2
<1>7. line = [Line(l) EXCEPT !.who = who, !.single = single]
  BY <1>5 DEF Lines
<1>. HIDE DEF who, single, line
<1>8. /\ line \in Lines /\ line.prod = Line(l).prod /\ line.target = Line(l).target
      /\ line.output = Line(l).output /\ line.unfetched = Line(l).unfetched
      /\ line.single = single /\ line.last = Line(l).last
  BY <1>5, <1>6, <1>7 DEF Lines
<1>9. GoodLine(line) /\ \A p \in Products : Pieces(line, p) = Pieces(Port.lines[l], p)
  BY <1>5, <1>6, <1>8 DEF GoodLine, Pieces
<1>10. Ledger(port)
  BY <1>3, <1>4, <1>9, SetLineLedger
<1>11. Assigned(l, n, w, k) = SetCard(SetPort(port), n, card)
  BY DEF Assigned, line
<1>. HIDE DEF port, card
<1>12. Assigned(l, n, w, k)["port"] = port
  BY <1>3, <1>11, SlotOf DEF SetCard, SetPort, Good, Documents
<1>13. Balanced(Assigned(l, n, w, k))
  BY <1>10, <1>12 DEF Balanced
<1>. QED
  BY <1>1, <1>13, BecomesBalanced

LEMMA EarnBalanced ==
    ASSUME Inv, LInv, NEW i \in Inputs, NEW flushed, Earn(i, flushed)
    PROVE  LInv'
<1>. DEFINE port == [Store(Port, i, 1) EXCEPT !.earned[i] = @ + 1]
<1>1. GoodPort(Port) /\ Ledger(Port) /\ HasPort /\ Becomes(SetPort(port), flushed)
  BY PortGood, PortLedger DEF Earn
<1>2. Ledger(port)
  BY <1>1, EarnLedger
<1>. HIDE DEF port
<1>. QED
  BY <1>1, <1>2, PortBalanced

LEMMA NewBalanced == Balanced(New)
<1>1. /\ NewPort.lines = <<>> /\ NewPort.load = NewPort.items
      /\ NewPort.items = [g \in Goods |-> 0]
      /\ NewPort.ordered = [p \in Products |-> 0] /\ NewPort.earned = [i \in Inputs |-> 0]
  BY DEF NewPort
<1>2. ASSUME NEW p PROVE Waiting(NewPort, p) = 0
  <2>1. DOMAIN NewPort.lines = {}
    BY <1>1
  <2>2. DOMAIN [l \in DOMAIN NewPort.lines |-> Pieces(NewPort.lines[l], p)] = {}
    BY <2>1
  <2>. QED
    BY <2>2, TotalZero DEF Waiting
<1>3. ASSUME NEW i \in Inputs PROVE Paid(NewPort, i) = 0
  <2>. DEFINE f == [p \in Products |-> Cost[p][i] * NewPort.ordered[p]]
  <2>1. \A p \in Products : f[p] = 0
    BY <1>1, FactoryAssumption
  <2>2. DOMAIN f = Products /\ Paid(NewPort, i) = Total(f)
    BY DEF Paid
  <2>. HIDE DEF f
  <2>. QED
    BY <2>1, <2>2, TotalZero
<1>4. Ledger(NewPort)
  BY <1>1, <1>2, <1>3 DEF Ledger, Goods
<1>. QED
  BY <1>4, NewGood DEF Balanced

LEMMA StepBalanced ==
    ASSUME Inv, LInv, [Next]_vars
    PROVE  LInv'
<1>1. ASSUME NEW l \in 1..NLines, NEW p \in Products, NEW n \in Counts, Make(l, p, n)
      PROVE  LInv'
  BY <1>1, MakeBalanced
<1>2. ASSUME NEW l \in 1..NLines, Fetch(l) PROVE LInv'
  BY <1>2, FetchBalanced
<1>3. ASSUME NEW l \in 1..NLines, NEW n \in Nfts, SetHero(l, n) \/ UnsetHero(l, n)
      PROVE  LInv'
  BY <1>3, HeroBalanced
<1>4. ASSUME NEW n \in Heroes, StartMine(n) \/ StopMine(n) PROVE LInv'
  <2>1. PICK card : Becomes(SetCard(mem, n, card), {"hero"})
    BY <1>4 DEF StartMine, StopMine
  <2>2. SetCard(mem, n, card)["port"] = mem["port"]
    BY SlotOf DEF SetCard, Inv, Good, Documents, Nfts
  <2>3. Balanced(SetCard(mem, n, card))
    BY <2>2 DEF LInv, Balanced
  <2>. QED
    BY <2>1, <2>3, BecomesBalanced
<1>5. ASSUME NEW i \in Inputs, Earn(i, {}) \/ Earn(i, {"port"}) PROVE LInv'
  BY <1>5, EarnBalanced
<1>6. ASSUME NEW d \in Documents, Show(d) PROVE LInv'
  <2>1. mem' = mem /\ (db'["port"] = db["port"] \/ db'["port"] = New["port"])
    BY <1>6 DEF Show, Inv, Good, Documents
  <2>. QED
    BY <2>1, NewBalanced DEF LInv, Balanced, Ledger, Waiting, Paid
<1>7. ASSUME FlushAll PROVE LInv'
  BY <1>7, BecomesBalanced DEF FlushAll, LInv
<1>8. ASSUME Leave PROVE LInv'
  <2>1. mem'["port"] = NoData /\ (db'["port"] = db["port"] \/ db'["port"] = mem["port"])
    BY <1>8 DEF Leave, Documents
  <2>. QED
    BY <2>1 DEF LInv, Balanced, Ledger, Waiting, Paid
<1>9. ASSUME Enter PROVE LInv'
  BY <1>9 DEF Enter, LInv, Balanced, Ledger, Waiting, Paid
<1>10. ASSUME Crash PROVE LInv'
  <2>1. mem'["port"] = NoData /\ db' = db
    BY <1>10 DEF Crash, Documents
  <2>. QED
    BY <2>1 DEF LInv, Balanced, Ledger, Waiting, Paid
<1>11. ASSUME UNCHANGED <<mem, db>> PROVE LInv'
  BY <1>11 DEF LInv, Balanced, Ledger, Waiting, Paid
<1>12. ASSUME Tick \/ UNCHANGED vars PROVE LInv'
  BY <1>11, <1>12 DEF Tick, vars
<1>. QED
  BY <1>1, <1>2, <1>3, <1>4, <1>5, <1>6, <1>7, <1>8, <1>9, <1>10, <1>12 DEF Next

\* Goods are neither lost nor made up (factory_msgs.ts:109, 417, player.ts:333, 366), for
\* any goods, prices, orders and restarts.
THEOREM GoodsAreConserved == Spec => []Conserved
<1>1. Init => LInv
  <2>1. Balanced([d \in Documents |-> NoData])
    BY DEF Balanced, Documents
  <2>. QED
    BY <2>1, NewBalanced DEF Init, LInv, Balanced
<1>2. Inv /\ LInv /\ [Next]_vars => (Inv /\ LInv)'
  BY StepInv, StepBalanced
<1>3. LInv /\ WithinOrder => Conserved
  BY DEF LInv, Balanced, Ledger, Conserved, PortsKept, Views
<1>. QED
  BY <1>1, <1>2, <1>3, Ordered, InitInv, PTL DEF Spec

-----------------------------------------------------------------------------
(***************************************************************************)
(* The mine.  What a map holds and what Redis holds are of the right shape *)
(* for any number of first uses, updates and restarts; that no entry has   *)
(* more points and output than a hero began with is part of it.            *)
(***************************************************************************)
Sound(m) ==
    /\ m \in MineData
    /\ \A p \in Pids : m.players[p].ap + m.players[p].out <= InitAct

SoundOrNone(m) == m # NoMine => Sound(m)

UpdateType == [dc : DOMAIN dcs, todo : SUBSET Pids, rmv : SUBSET Pids, ask : Pids,
               online : BOOLEAN]

PlayerTypes ==
    /\ bound \in [Pids -> BOOLEAN]
    /\ place \in [Pids -> {"here", "near", "away"}]
    /\ manul \in [Pids -> BOOLEAN]
    /\ hero \in [Pids -> [mining : BOOLEAN, ap : 0..InitAct]]

DataTypes ==
    /\ dcs \in Seq(MineData) /\ \A d \in DOMAIN dcs : Sound(dcs[d])
    /\ loaded \in 0..Len(dcs)
    /\ SoundOrNone(minedb)

PendingTypes ==
    \A h \in pending : /\ h \in [op : Ops, p : Pids, got : MineData \cup {NoMine}, live : BOOLEAN]
                       /\ SoundOrNone(h.got)

UpdateTypes ==
    /\ updates = [n \in 1..MaxUpdates |-> updates[n]]
    /\ \A n \in 1..MaxUpdates : updates[n] # NoUpdate => updates[n] \in UpdateType

MineTypes ==
    /\ PlayerTypes /\ DataTypes /\ PendingTypes /\ UpdateTypes
    /\ restarts \in Nat
    /\ \A p \in Pids : manul[p] => loaded # 0

(***************************************************************************)
(* The mine as the next handler finds it: that of the map, or what it will *)
(* read.                                                                   *)
(***************************************************************************)
Read(d) == IF d = NoMine THEN Fresh ELSE d
Held == IF loaded # 0 THEN dcs[loaded] ELSE Read(minedb)

Counted(m) == m.cur = Cardinality(Miners(m)) /\ m.cur <= MaxMiner

\* Who has the mark of a hand miner, or of a hero's mine, is in the list as that.
Agrees(m, man, h) ==
    \A p \in Pids : /\ man[p] => m.players[p].kind = "manul"
                    /\ h[p].mining => m.players[p].kind = "hero"

\* A hero that is marked is in the mine that Redis has.
Called(m, h) == \A p \in Pids : h[p].mining => m # NoMine /\ m.players[p].kind = "hero"

\* A hero in the list is marked, and its points cover what the list says it has.
Earned(m, h) ==
    \A p \in Pids :
        LET e == m.players[p]
        IN  e.kind = "hero" => h[p].mining /\ e.ap + e.out <= h[p].ap

\* A miner by hand that nobody but an update can take off.
Left(m, man, p) == p \in Pids /\ m.players[p].kind = "manul" /\ ~man[p]

OneMine ==
    /\ Len(dcs) = loaded /\ loaded <= 1
    /\ \A h \in pending : /\ loaded = 0 /\ h.got = minedb /\ h.live
                          /\ place[h.p] # "away"
                          /\ h.op \in {"stophero", "fetchhero"} => hero[h.p].mining
                          /\ \A k \in pending : h = k
    /\ \A p \in Pids : ~bound[p] => place[p] = "away"
    /\ \A p \in Pids : place[p] = "away" => ~manul[p]

ListInv ==
    /\ Counted(Held)
    /\ minedb # NoMine => Counted(minedb)
    /\ Agrees(Held, manul, hero)
    /\ Called(minedb, hero)
    /\ LET u == updates[1]
       IN  u # NoUpdate =>
              /\ u.dc = loaded
              /\ \A p \in u.rmv : Left(Held, manul, p)
              /\ ~u.online => Left(Held, manul, u.ask)
    /\ restarts = 0 =>
          /\ loaded = 0 => minedb = NoMine
          /\ Earned(Held, hero)

MineInv == MineTypes /\ OneMine /\ ListInv

-----------------------------------------------------------------------------
\* What is put on the list and taken off it.

LEMMA FreshSound == Sound(Fresh) /\ Miners(Fresh) = {} /\ \A p \in Pids : Fresh.players[p] = Absent
  BY MineAssumption DEF Sound, Fresh, MineData, Entry, Kinds, Absent, Miners, In

\* An entry that fits.
GoodEntry(e) == e \in Entry /\ e.ap + e.out <= InitAct

LEMMA Entries ==
    /\ GoodEntry(Absent) /\ Absent.kind = "none"
    /\ GoodEntry(ByHand) /\ ByHand.kind = "manul"
    /\ \A ap \in 0..InitAct : /\ GoodEntry(OfHero(ap)) /\ OfHero(ap).kind = "hero"
                              /\ OfHero(ap).ap = ap /\ OfHero(ap).out = 0
  BY MineAssumption DEF GoodEntry, Entry, Kinds, Absent, ByHand, OfHero

LEMMA SoundEntry ==
    ASSUME NEW m, Sound(m), NEW p \in Pids
    PROVE  GoodEntry(m.players[p])
  BY DEF Sound, GoodEntry, MineData

LEMMA SoundParts ==
    ASSUME NEW m, m \in MineData, \A p \in Pids : GoodEntry(m.players[p])
    PROVE  Sound(m)
  BY DEF Sound, GoodEntry

LEMMA PutMine ==
    ASSUME NEW m, Sound(m), NEW p \in Pids, NEW e, GoodEntry(e)
    PROVE  /\ Sound(Put(m, p, e))
           /\ Put(m, p, e).cur = m.cur + 1
           /\ Put(m, p, e).players = [m.players EXCEPT ![p] = e]
  <1>1. m \in MineData /\ e \in Entry
    BY DEF Sound, GoodEntry
  <1>2. Put(m, p, e) \in MineData /\ Put(m, p, e).cur = m.cur + 1
        /\ Put(m, p, e).players = [m.players EXCEPT ![p] = e]
    <2> DEFINE c == m.cur + 1
               f == [m.players EXCEPT ![p] = e]
    <2>1. c \in Int /\ f \in [Pids -> Entry]
      BY <1>1 DEF MineData
    <2>2. Put(m, p, e) = [m EXCEPT !.players = f, !.cur = c]
      BY DEF Put
    <2> HIDE DEF c, f
    <2>3. Put(m, p, e) \in MineData /\ Put(m, p, e).cur = c /\ Put(m, p, e).players = f
      BY <1>1, <2>1, <2>2 DEF MineData
    <2> QED
      BY <2>3 DEF c, f
  <1>3. \A q \in Pids : GoodEntry(Put(m, p, e).players[q])
    <2> TAKE q \in Pids
    <2>1. GoodEntry(m.players[q])
      BY SoundEntry
    <2> QED
      BY <1>1, <1>2, <2>1 DEF MineData
  <1> QED
    BY <1>2, <1>3, SoundParts

LEMMA DropMine ==
    ASSUME NEW m, Sound(m), NEW p \in Pids
    PROVE  /\ Sound(Drop(m, p))
           /\ Drop(m, p).cur = m.cur - 1
           /\ Drop(m, p).players = [m.players EXCEPT ![p] = Absent]
  <1>1. m \in MineData /\ Absent \in Entry
    BY Entries DEF Sound, GoodEntry
  <1>2. Drop(m, p) \in MineData /\ Drop(m, p).cur = m.cur - 1
        /\ Drop(m, p).players = [m.players EXCEPT ![p] = Absent]
    <2> DEFINE c == m.cur - 1
               f == [m.players EXCEPT ![p] = Absent]
    <2>1. c \in Int /\ f \in [Pids -> Entry]
      BY <1>1 DEF MineData
    <2>2. Drop(m, p) = [m EXCEPT !.players = f, !.cur = c]
      BY DEF Drop
    <2> HIDE DEF c, f
    <2>3. Drop(m, p) \in MineData /\ Drop(m, p).cur = c /\ Drop(m, p).players = f
      BY <1>1, <2>1, <2>2 DEF MineData
    <2> QED
      BY <2>3 DEF c, f
  <1>3. \A q \in Pids : GoodEntry(Drop(m, p).players[q])
    <2> TAKE q \in Pids
    <2>1. GoodEntry(m.players[q])
      BY SoundEntry
    <2> QED
      BY <1>1, <1>2, <2>1, Entries DEF MineData
  <1> QED
    BY <1>2, <1>3, SoundParts

\* The output of an entry is fetched.
FetchedFrom(m, p) == [m EXCEPT !.players[p].out = 0]

LEMMA FetchMine ==
    ASSUME NEW m, Sound(m), NEW p \in Pids
    PROVE  /\ Sound(FetchedFrom(m, p))
           /\ FetchedFrom(m, p).cur = m.cur
           /\ \A q \in Pids :
                 /\ FetchedFrom(m, p).players[q].kind = m.players[q].kind
                 /\ FetchedFrom(m, p).players[q].ap = m.players[q].ap
                 /\ FetchedFrom(m, p).players[q].out \in {0, m.players[q].out}
  <1>1. m \in MineData
    BY DEF Sound
  <1>2. /\ FetchedFrom(m, p) \in MineData /\ FetchedFrom(m, p).cur = m.cur
        /\ FetchedFrom(m, p).players = [m.players EXCEPT ![p] = [m.players[p] EXCEPT !.out = 0]]
    BY <1>1, MineAssumption DEF FetchedFrom, MineData, Entry
  <1>3. \A q \in Pids :
           /\ FetchedFrom(m, p).players[q].kind = m.players[q].kind
           /\ FetchedFrom(m, p).players[q].ap = m.players[q].ap
           /\ FetchedFrom(m, p).players[q].out \in {0, m.players[q].out}
    BY <1>1, <1>2 DEF MineData, Entry
  <1>4. \A q \in Pids : GoodEntry(FetchedFrom(m, p).players[q])
    <2> TAKE q \in Pids
    <2>1. GoodEntry(m.players[q]) /\ FetchedFrom(m, p).players[q] \in Entry
      BY <1>2, SoundEntry DEF MineData
    <2> QED
      BY <1>3, <2>1, MineAssumption DEF GoodEntry, Entry
  <1> QED
    BY <1>2, <1>3, <1>4, SoundParts

\* The number of miners, when one comes and when one goes.
LEMMA MinersFinite == \A m : IsFiniteSet(Miners(m)) /\ Cardinality(Miners(m)) \in Nat
  <1> TAKE m
  <1>1. IsFiniteSet(Pids) /\ Miners(m) \subseteq Pids
    BY MineAssumption DEF Miners
  <1> QED
    BY <1>1, FS_Subset, FS_CardinalityType

LEMMA PutCounted ==
    ASSUME NEW m, Sound(m), Counted(m), m.cur < MaxMiner,
           NEW p \in Pids, ~In(m, p), NEW e, GoodEntry(e), e.kind # "none"
    PROVE  Counted(Put(m, p, e))
  <1>1. Miners(Put(m, p, e)) = Miners(m) \cup {p} /\ p \notin Miners(m)
    <2>1. m.players \in [Pids -> Entry]
      BY DEF Sound, MineData
    <2>2. Put(m, p, e).players = [m.players EXCEPT ![p] = e]
      BY PutMine
    <2>3. \A q \in Pids : In(Put(m, p, e), q) <=> q = p \/ In(m, q)
      BY <2>1, <2>2 DEF In
    <2> QED
      BY <2>3 DEF Miners
  <1>2. Cardinality(Miners(m) \cup {p}) = Cardinality(Miners(m)) + 1
    BY <1>1, MinersFinite, FS_AddElement
  <1> QED
    <2>1. m.cur \in Int /\ MaxMiner \in Nat /\ Cardinality(Miners(m)) \in Nat
      BY MineAssumption, MinersFinite DEF Sound, MineData
    <2>2. Put(m, p, e).cur = m.cur + 1
      BY PutMine
    <2> QED
      BY <1>1, <1>2, <2>1, <2>2 DEF Counted

LEMMA DropCounted ==
    ASSUME NEW m, Sound(m), Counted(m), NEW p \in Pids, In(m, p)
    PROVE  Counted(Drop(m, p))
  <1>1. Miners(Drop(m, p)) = Miners(m) \ {p} /\ p \in Miners(m)
    <2>1. m.players \in [Pids -> Entry]
      BY DEF Sound, MineData
    <2>2. Drop(m, p).players = [m.players EXCEPT ![p] = Absent]
      BY DropMine
    <2>3. \A q \in Pids : In(Drop(m, p), q) <=> q # p /\ In(m, q)
      BY <2>1, <2>2, Entries DEF In
    <2> QED
      BY <2>3 DEF Miners
  <1>2. Cardinality(Miners(m) \ {p}) = Cardinality(Miners(m)) - 1
    BY <1>1, MinersFinite, FS_RemoveElement
  <1> QED
    <2>1. m.cur \in Int /\ MaxMiner \in Nat /\ Cardinality(Miners(m)) \in Nat
      BY MineAssumption, MinersFinite DEF Sound, MineData
    <2>2. Drop(m, p).cur = m.cur - 1
      BY DropMine
    <2> QED
      BY <1>1, <1>2, <2>1, <2>2 DEF Counted

LEMMA SameCounted ==
    ASSUME NEW m, NEW n, Counted(m), n.cur = m.cur,
           \A p \in Pids : n.players[p].kind = m.players[p].kind
    PROVE  Counted(n)
  <1>1. Miners(n) = Miners(m)
    BY DEF Miners, In
  <1> QED
    BY <1>1 DEF Counted

LEMMA FreshCounted == Counted(Fresh)
  <1>1. Cardinality({}) = 0
    BY FS_EmptySet
  <1>2. Fresh.cur = 0
    BY DEF Fresh
  <1> QED
    BY <1>1, <1>2, FreshSound, MineAssumption DEF Counted

-----------------------------------------------------------------------------
\* What an update does to the mine.

LEMMA LeastIsIn ==
    ASSUME NEW S, S \subseteq Nat, S # {}
    PROVE  Min(S) \in S
  <1> DEFINE R == OpToRel(<, Nat)
  <1>1. PICK x \in S : \A y \in S : ~ (<<y, x>> \in R)
    <2>1. IsWellFoundedOn(R, Nat)
      BY NatLessThanWellFounded
    <2> HIDE DEF R
    <2> QED
      BY <2>1, WFMin
  <1>2. \A y \in S : x <= y
    <2> SUFFICES ASSUME NEW y \in S, ~(x <= y)
                 PROVE  FALSE
      OBVIOUS
    <2>1. y < x /\ x \in Nat /\ y \in Nat
      OBVIOUS
    <2>2. <<y, x>> \in R
      BY <2>1 DEF OpToRel
    <2> QED
      BY <1>1, <2>2
  <1> QED
    BY <1>1, <1>2 DEF Min

LEMMA ServedFacts ==
    ASSUME NEW m, Sound(m), NEW todo, todo \subseteq Pids
    PROVE  /\ \A p \in Served(m, todo) : p \in Pids /\ m.players[p].ap >= 1
           /\ Cardinality(Served(m, todo)) \in Nat
  <1>1. \A p \in Served(m, todo) : p \in Pids /\ m.players[p].ap >= 1
    BY DEF Served, Working, Ahead
  <1>2. IsFiniteSet(Served(m, todo))
    BY <1>1, MineAssumption, FS_Subset
  <1> QED
    BY <1>1, <1>2, FS_CardinalityType

\* Serving moves points to the output, and takes nobody on or off the list.
LEMMA ServeMine ==
    ASSUME NEW m, Sound(m), NEW todo, todo \subseteq Pids
    PROVE  /\ Sound(Serve(m, todo))
           /\ Serve(m, todo).cur = m.cur
           /\ \A p \in Pids :
                 /\ Serve(m, todo).players[p].kind = m.players[p].kind
                 /\ Serve(m, todo).players[p].ap + Serve(m, todo).players[p].out
                        = m.players[p].ap + m.players[p].out
  <1> DEFINE S == Served(m, todo)
             x == Exhausts(m, todo)
             P == [p \in Pids |-> IF p \in S
                                  THEN Produced(m.players[p])
                                  ELSE m.players[p]]
             l == IF x THEN 0 ELSE m.left - Cardinality(S)
             r == m.recovering \/ x
  <1>1. m \in MineData
    BY DEF Sound
  <1>2. Serve(m, todo) = [m EXCEPT !.players = P, !.left = l, !.recovering = r]
    BY Zenon DEF Serve
  <1>3. \A p \in Pids : GoodEntry(P[p]) /\ P[p].kind = m.players[p].kind
                        /\ P[p].ap + P[p].out = m.players[p].ap + m.players[p].out
    <2> TAKE p \in Pids
    <2> DEFINE e == m.players[p]
    <2>1. GoodEntry(e) /\ e \in Entry
      BY SoundEntry DEF GoodEntry
    <2>2. e.ap \in 0..InitAct /\ e.out \in 0..InitAct /\ e.ap + e.out <= InitAct
          /\ InitAct \in Nat
      BY <2>1, MineAssumption DEF GoodEntry, Entry
    <2>3. CASE p \in S
      <3>1. e.ap >= 1
        BY <2>3, ServedFacts
      <3> DEFINE f == Produced(e)
      <3>2. P[p] = f
        BY <2>3
      <3>3. f.kind = e.kind /\ f.ap = e.ap - 1 /\ f.out = e.out + 1
            /\ e.ap - 1 \in 0..InitAct /\ e.out + 1 \in 0..InitAct
        BY <2>1, <2>2, <3>1 DEF Entry, Produced
      <3>4. f \in Entry
        BY <2>1, <3>3 DEF Entry, Produced
      <3> HIDE DEF f, P, e
      <3>5. GoodEntry(f) /\ f.ap + f.out = e.ap + e.out
        BY <2>2, <3>3, <3>4 DEF GoodEntry
      <3> QED
        BY <3>2, <3>3, <3>5 DEF e
    <2>4. CASE p \notin S
      <3>1. P[p] = e
        BY <2>4
      <3> QED
        BY <2>1, <3>1
    <2> QED
      BY <2>3, <2>4
  <1>4. P \in [Pids -> Entry]
    <2>1. \A p \in Pids : P[p] \in Entry
      BY <1>3 DEF GoodEntry
    <2>2. P = [p \in Pids |-> P[p]]
      OBVIOUS
    <2> HIDE DEF P
    <2> QED
      BY <2>1, <2>2
  <1>5. l \in Int
    <2>1. m.left \in Int
      BY <1>1 DEF MineData
    <2>2. Cardinality(S) \in Nat
      BY ServedFacts
    <2> HIDE DEF S, x
    <2> QED
      BY <2>1, <2>2
  <1>6. r \in BOOLEAN
    <2>1. m.recovering \in BOOLEAN
      BY <1>1 DEF MineData
    <2>2. x \in BOOLEAN
      BY DEF Exhausts
    <2> HIDE DEF x
    <2> QED
      BY <2>1, <2>2
  <1> HIDE DEF P, l, r
  <1>7. Serve(m, todo) \in MineData /\ Serve(m, todo).cur = m.cur /\ Serve(m, todo).players = P
    BY <1>1, <1>2, <1>4, <1>5, <1>6 DEF MineData
  <1>8. Sound(Serve(m, todo))
    BY <1>3, <1>7, SoundParts
  <1> QED
    BY <1>3, <1>7, <1>8

LEMMA KickMine ==
    ASSUME NEW m, Sound(m), NEW rmv, rmv \subseteq Pids
    PROVE  /\ Sound(Kick(m, rmv))
           /\ Kick(m, rmv).cur = m.cur - Cardinality(rmv)
           /\ \A p \in Pids : Kick(m, rmv).players[p]
                                 = IF p \in rmv THEN Absent ELSE m.players[p]
  <1> DEFINE P == [p \in Pids |-> IF p \in rmv THEN Absent ELSE m.players[p]]
             c == m.cur - Cardinality(rmv)
  <1>1. m \in MineData
    BY DEF Sound
  <1>2. Kick(m, rmv) = [m EXCEPT !.players = P, !.cur = c]
    BY DEF Kick
  <1>3. Cardinality(rmv) \in Nat
    BY MineAssumption, FS_Subset, FS_CardinalityType
  <1>4. c \in Int
    BY <1>1, <1>3 DEF MineData
  <1>5. \A p \in Pids : GoodEntry(P[p])
    BY Entries, SoundEntry
  <1>6. \A p \in Pids : P[p] = IF p \in rmv THEN Absent ELSE m.players[p]
    OBVIOUS
  <1>7. P = [p \in Pids |-> P[p]]
    OBVIOUS
  <1> HIDE DEF P
  <1>8. P \in [Pids -> Entry]
    BY <1>5, <1>7 DEF GoodEntry
  <1> HIDE DEF c
  <1>9. Kick(m, rmv) \in MineData /\ Kick(m, rmv).cur = c /\ Kick(m, rmv).players = P
    BY <1>1, <1>2, <1>4, <1>8 DEF MineData
  <1>10. Sound(Kick(m, rmv))
    BY <1>5, <1>9, SoundParts
  <1> QED
    BY <1>6, <1>9, <1>10 DEF c

LEMMA KickCounted ==
    ASSUME NEW m, Sound(m), Counted(m), NEW rmv, rmv \subseteq Miners(m)
    PROVE  Counted(Kick(m, rmv))
  <1>1. rmv \subseteq Pids
    BY DEF Miners
  <1>2. \A p \in Pids : In(Kick(m, rmv), p) <=> In(m, p) /\ p \notin rmv
    BY <1>1, KickMine, Entries DEF In
  <1>3. Miners(Kick(m, rmv)) = Miners(m) \ rmv
    BY <1>2 DEF Miners
  <1>4. /\ IsFiniteSet(rmv) /\ Cardinality(rmv) \in Nat
        /\ Miners(m) \cap rmv = rmv
    BY <1>1, MineAssumption, FS_Subset, FS_CardinalityType
  <1>5. Cardinality(Miners(m) \ rmv) = Cardinality(Miners(m)) - Cardinality(rmv)
    BY <1>4, MinersFinite, FS_Difference
  <1>6. m.cur \in Int /\ MaxMiner \in Nat /\ Cardinality(Miners(m)) \in Nat
    BY MineAssumption, MinersFinite DEF Sound, MineData
  <1>7. Kick(m, rmv).cur = m.cur - Cardinality(rmv)
    BY <1>1, KickMine
  <1> QED
    BY <1>3, <1>4, <1>5, <1>6, <1>7 DEF Counted

-----------------------------------------------------------------------------
\* What a handler does once it has the mine.

GoodContext(c) ==
    /\ c.p \in Pids /\ c.live \in BOOLEAN
    /\ c.ms \in Seq(MineData) /\ \A d \in DOMAIN c.ms : Sound(c.ms[d])
    /\ c.i \in DOMAIN c.ms
    /\ SoundOrNone(c.db)

HeroRecords == [mining : BOOLEAN, ap : 0..InitAct]

LEMMA ContextMine ==
    ASSUME NEW c, GoodContext(c)
    PROVE  Sound(M(c)) /\ c.p \in Pids
  BY DEF GoodContext, M

LEMMA MarkHeroType ==
    ASSUME NEW c, GoodContext(c), hero \in [Pids -> HeroRecords], NEW h \in HeroRecords, MarkHero(c, h)
    PROVE  hero' \in [Pids -> HeroRecords]
  BY DEF MarkHero, GoodContext

LEMMA RunTypes ==
    ASSUME NEW c, GoodContext(c), NEW op, Run(op, c),
           manul \in [Pids -> BOOLEAN], hero \in [Pids -> HeroRecords]
    PROVE  /\ \E m : /\ Sound(m)
                     /\ dcs' = [c.ms EXCEPT ![c.i] = m]
                     /\ minedb' \in {m, c.db}
           /\ manul' \in [Pids -> BOOLEAN]
           /\ hero' \in [Pids -> HeroRecords]
  <1> DEFINE m == M(c)
  <1>1. Sound(m) /\ c.p \in Pids
    BY ContextMine
  <1> HIDE DEF m
  <1>2. CASE StartManul(c)
    <2>1. Keep(c, Put(m, c.p, ByHand), FALSE)
      BY <1>2 DEF StartManul, m
    <2>2. Sound(Put(m, c.p, ByHand))
      BY <1>1, PutMine, Entries
    <2>3. hero' = hero /\ manul' \in [Pids -> BOOLEAN]
      BY <1>2 DEF StartManul
    <2> QED
      BY <2>1, <2>2, <2>3 DEF Keep
  <1>3. CASE StartHero(c)
    <2>1. PICK ap \in ActPoints(hero[c.p].ap) :
             /\ Keep(c, Put(m, c.p, OfHero(ap)), TRUE)
             /\ MarkHero(c, [mining |-> TRUE, ap |-> ap])
      BY <1>3 DEF StartHero, Send, m
    <2>2. ap \in 0..InitAct
      <3>1. hero[c.p].ap \in 0..InitAct
        BY <1>1 DEF HeroRecords
      <3> QED
        BY <2>1, <3>1, MineAssumption DEF ActPoints
    <2>3. Sound(Put(m, c.p, OfHero(ap)))
      BY <1>1, <2>2, PutMine, Entries
    <2>4. [mining |-> TRUE, ap |-> ap] \in HeroRecords
      BY <2>2 DEF HeroRecords
    <2>5. hero' \in [Pids -> HeroRecords]
      BY <2>1, <2>4, MarkHeroType
    <2>6. manul' = manul
      BY <1>3 DEF StartHero, Send
    <2> QED
      BY <2>1, <2>3, <2>5, <2>6 DEF Keep
  <1>4. CASE StopHero(c)
    <2> DEFINE n == Drop(m, c.p)
    <2>1. Keep(c, n, n.cur <= 0) /\ MarkHero(c, [mining |-> FALSE, ap |-> m.players[c.p].ap])
          /\ manul' = manul
      BY <1>4 DEF StopHero, m, Miner
    <2>2. Sound(n)
      BY <1>1, DropMine
    <2>3. [mining |-> FALSE, ap |-> m.players[c.p].ap] \in HeroRecords
      BY <1>1, SoundEntry DEF HeroRecords, GoodEntry, Entry
    <2>4. hero' \in [Pids -> HeroRecords]
      BY <2>1, <2>3, MarkHeroType
    <2> HIDE DEF n
    <2> QED
      BY <2>1, <2>2, <2>4 DEF Keep
  <1>5. CASE FetchHero(c)
    <2>1. Keep(c, FetchedFrom(m, c.p), TRUE) /\ manul' = manul /\ hero' = hero
      BY <1>5 DEF FetchHero, m, FetchedFrom
    <2>2. Sound(FetchedFrom(m, c.p))
      BY <1>1, FetchMine
    <2> QED
      BY <2>1, <2>2 DEF Keep
  <1>6. CASE Refused(op, c)
    BY <1>1, <1>6 DEF Refused, Keep, m
  <1> QED
    BY <1>2, <1>3, <1>4, <1>5, <1>6 DEF Run

(***************************************************************************)
(* A handler whose player is still there keeps marks and list in step, in  *)
(* memory and in Redis, and leaves the miners alone that only an update    *)
(* can take off.                                                           *)
(***************************************************************************)
Becoming(m, n) ==
    /\ Counted(n)
    /\ Agrees(n, manul', hero')
    /\ Called(minedb', hero')
    /\ Earned(m, hero) => Earned(n, hero')
    /\ \A p : Left(m, manul, p) => Left(n, manul', p)

LEMMA CalledBy ==
    ASSUME NEW m, Sound(m), NEW man, NEW h, Agrees(m, man, h)
    PROVE  Called(m, h)
  BY MineAssumption DEF Sound, Agrees, Called

LEMMA StartManulKeeps ==
    ASSUME NEW c, GoodContext(c), c.live, StartManul(c),
           manul \in [Pids -> BOOLEAN], hero \in [Pids -> HeroRecords],
           Counted(M(c)), Agrees(M(c), manul, hero), Called(c.db, hero)
    PROVE  \E n : /\ Sound(n) /\ dcs' = [c.ms EXCEPT ![c.i] = n] /\ minedb' \in {n, c.db}
                  /\ Becoming(M(c), n)
                  /\ \A p \in Pids : manul'[p] => manul[p] \/ p = c.p
  <1> DEFINE m == M(c)
             n == Put(m, c.p, ByHand)
  <1>1. Sound(m) /\ c.p \in Pids /\ m.players \in [Pids -> Entry]
    BY ContextMine DEF Sound, MineData
  <1>2. /\ m.cur < MaxMiner /\ ~In(m, c.p)
        /\ Keep(c, n, FALSE)
        /\ manul' = [manul EXCEPT ![c.p] = TRUE]
        /\ hero' = hero
    BY DEF StartManul, Room
  <1>a. hero' = hero /\ ~In(m, c.p) /\ Agrees(m, manul, hero)
    BY <1>2
  <1> HIDE DEF m
  <1>3. Sound(n) /\ n.players = [m.players EXCEPT ![c.p] = ByHand]
    BY <1>1, PutMine, Entries
  <1>4. Counted(n)
    BY <1>1, <1>2, PutCounted, Entries DEF m
  <1> HIDE DEF n
  <1>5. dcs' = [c.ms EXCEPT ![c.i] = n] /\ minedb' = c.db
    BY <1>2 DEF Keep
  <1>6. ~manul[c.p] /\ ~hero[c.p].mining
    BY <1>1, <1>2 DEF Agrees, In, m
  <1>7. /\ n.players[c.p].kind = "manul"
        /\ \A p \in Pids \ {c.p} : n.players[p] = m.players[p]
    BY <1>1, <1>3, Entries
  <1>b. \A p \in Pids : manul'[p] => manul[p] \/ p = c.p
    BY <1>2
  <1>8. Agrees(n, manul', hero')
    <2> SUFFICES ASSUME NEW p \in Pids
                 PROVE  /\ manul'[p] => n.players[p].kind = "manul"
                        /\ hero[p].mining => n.players[p].kind = "hero"
      BY <1>a DEF Agrees
    <2>1. CASE p = c.p
      BY <1>6, <1>7, <2>1
    <2>2. CASE p # c.p
      BY <1>a, <1>7, <1>b, <2>2 DEF Agrees
    <2> QED
      BY <2>1, <2>2
  <1>9. Called(minedb', hero')
    BY <1>2, <1>5
  <1>10. Earned(m, hero) => Earned(n, hero')
    BY <1>a, <1>7 DEF Earned
  <1>11. \A p : Left(m, manul, p) => Left(n, manul', p)
    <2> SUFFICES ASSUME NEW p, Left(m, manul, p)
                 PROVE  Left(n, manul', p)
      OBVIOUS
    <2>1. p \in Pids /\ m.players[p].kind = "manul" /\ ~manul[p]
      BY DEF Left
    <2>2. p # c.p
      BY <1>a, <2>1 DEF In
    <2>3. n.players[p] = m.players[p] /\ ~manul'[p]
      BY <1>7, <1>b, <2>1, <2>2
    <2> QED
      BY <2>1, <2>3 DEF Left
  <1> QED
    BY <1>3, <1>4, <1>5, <1>8, <1>9, <1>10, <1>11, <1>b DEF Becoming, m

LEMMA StartHeroKeeps ==
    ASSUME NEW c, GoodContext(c), c.live, StartHero(c),
           manul \in [Pids -> BOOLEAN], hero \in [Pids -> HeroRecords],
           Counted(M(c)), Agrees(M(c), manul, hero), Called(c.db, hero)
    PROVE  \E n : /\ Sound(n) /\ dcs' = [c.ms EXCEPT ![c.i] = n] /\ minedb' \in {n, c.db}
                  /\ Becoming(M(c), n)
                  /\ \A p \in Pids : manul'[p] => manul[p] \/ p = c.p
  <1> DEFINE m == M(c)
  <1>1. Sound(m) /\ c.p \in Pids /\ m.players \in [Pids -> Entry]
    BY ContextMine DEF Sound, MineData
  <1>2. PICK ap \in ActPoints(hero[c.p].ap) :
           /\ Keep(c, Put(m, c.p, OfHero(ap)), TRUE)
           /\ MarkHero(c, [mining |-> TRUE, ap |-> ap])
    BY DEF StartHero, Send
  <1>3. m.cur < MaxMiner /\ ~In(m, c.p) /\ manul' = manul
    BY DEF StartHero, Send, Room
  <1>4. ap \in 0..InitAct
    <2>1. hero[c.p].ap \in 0..InitAct
      BY <1>1 DEF HeroRecords
    <2> QED
      BY <1>2, <2>1, MineAssumption DEF ActPoints
  <1>5. hero' = [hero EXCEPT ![c.p] = [mining |-> TRUE, ap |-> ap]]
    BY <1>2 DEF MarkHero
  <1> DEFINE n == Put(m, c.p, OfHero(ap))
  <1> HIDE DEF m
  <1>6. Sound(n) /\ n.players = [m.players EXCEPT ![c.p] = OfHero(ap)]
    BY <1>1, <1>4, PutMine, Entries
  <1>7. Counted(n)
    BY <1>1, <1>3, <1>4, PutCounted, Entries DEF m
  <1>8. dcs' = [c.ms EXCEPT ![c.i] = n] /\ minedb' = n
    BY <1>2 DEF Keep
  <1>9. /\ n.players[c.p].kind = "hero" /\ n.players[c.p].ap = ap /\ n.players[c.p].out = 0
        /\ \A p \in Pids \ {c.p} : n.players[p] = m.players[p]
    BY <1>1, <1>4, <1>6, Entries
  <1> HIDE DEF n
  <1>10. /\ hero'[c.p].mining /\ hero'[c.p].ap = ap
         /\ \A p \in Pids \ {c.p} : hero'[p] = hero[p]
    BY <1>1, <1>5
  <1>11. ~manul[c.p]
    BY <1>1, <1>3 DEF Agrees, In, m
  <1>12. Agrees(n, manul', hero')
    BY <1>3, <1>9, <1>10, <1>11 DEF Agrees, m
  <1>13. Called(minedb', hero')
    BY <1>6, <1>8, <1>12, CalledBy
  <1>14. Earned(m, hero) => Earned(n, hero')
    BY <1>4, <1>9, <1>10, MineAssumption DEF Earned
  <1>15. \A p : Left(m, manul, p) => Left(n, manul', p)
    BY <1>3, <1>9 DEF Left, In
  <1> QED
    BY <1>3, <1>6, <1>7, <1>8, <1>12, <1>13, <1>14, <1>15 DEF Becoming, m

LEMMA StopHeroKeeps ==
    ASSUME NEW c, GoodContext(c), c.live, StopHero(c), hero[c.p].mining,
           manul \in [Pids -> BOOLEAN], hero \in [Pids -> HeroRecords],
           Counted(M(c)), Agrees(M(c), manul, hero), Called(c.db, hero)
    PROVE  \E n : /\ Sound(n) /\ dcs' = [c.ms EXCEPT ![c.i] = n] /\ minedb' \in {n, c.db}
                  /\ Becoming(M(c), n)
                  /\ \A p \in Pids : manul'[p] => manul[p] \/ p = c.p
  <1> DEFINE m == M(c)
             n == Drop(m, c.p)
             h == [mining |-> FALSE, ap |-> m.players[c.p].ap]
  <1>1. Sound(m) /\ c.p \in Pids /\ m.players \in [Pids -> Entry]
    BY ContextMine DEF Sound, MineData
  <1>2. /\ In(m, c.p) /\ manul' = manul
        /\ Keep(c, n, n.cur <= 0)
        /\ hero' = [hero EXCEPT ![c.p] = h]
    BY DEF StopHero, MarkHero, Miner
  <1> HIDE DEF m
  <1>3. Sound(n) /\ n.players = [m.players EXCEPT ![c.p] = Absent]
    BY <1>1, DropMine
  <1>4. Counted(n)
    BY <1>1, <1>2, DropCounted DEF m
  <1> HIDE DEF n
  <1>5. dcs' = [c.ms EXCEPT ![c.i] = n] /\ minedb' \in {n, c.db}
    BY <1>2 DEF Keep
  <1>6. m.players[c.p].kind = "hero" /\ ~manul[c.p]
    BY <1>1 DEF Agrees, m
  <1>7. /\ n.players[c.p].kind = "none"
        /\ \A p \in Pids \ {c.p} : n.players[p] = m.players[p]
    BY <1>1, <1>3, Entries
  <1>8. ~hero'[c.p].mining /\ \A p \in Pids \ {c.p} : hero'[p] = hero[p]
    BY <1>1, <1>2
  <1>9. Agrees(n, manul', hero')
    BY <1>2, <1>6, <1>7, <1>8 DEF Agrees, m
  <1>10. Called(n, hero')
    BY <1>3, <1>9, CalledBy
  <1>11. Called(c.db, hero')
    BY <1>8 DEF Called
  <1>12. Called(minedb', hero')
    BY <1>5, <1>10, <1>11
  <1>13. Earned(m, hero) => Earned(n, hero')
    BY <1>7, <1>8 DEF Earned
  <1>14. \A p : Left(m, manul, p) => Left(n, manul', p)
    BY <1>2, <1>6, <1>7 DEF Left
  <1> QED
    BY <1>2, <1>3, <1>4, <1>5, <1>9, <1>12, <1>13, <1>14 DEF Becoming, m

LEMMA FetchHeroKeeps ==
    ASSUME NEW c, GoodContext(c), FetchHero(c),
           manul \in [Pids -> BOOLEAN], hero \in [Pids -> HeroRecords],
           Counted(M(c)), Agrees(M(c), manul, hero), Called(c.db, hero)
    PROVE  \E n : /\ Sound(n) /\ dcs' = [c.ms EXCEPT ![c.i] = n] /\ minedb' \in {n, c.db}
                  /\ Becoming(M(c), n)
                  /\ \A p \in Pids : manul'[p] => manul[p] \/ p = c.p
  <1> DEFINE m == M(c)
             n == FetchedFrom(m, c.p)
  <1>1. Sound(m) /\ c.p \in Pids
    BY ContextMine
  <1>2. Keep(c, n, TRUE) /\ manul' = manul /\ hero' = hero
    BY DEF FetchHero, FetchedFrom
  <1> HIDE DEF m
  <1>3. /\ Sound(n) /\ n.cur = m.cur
        /\ \A q \in Pids : /\ n.players[q].kind = m.players[q].kind
                           /\ n.players[q].ap = m.players[q].ap
                           /\ n.players[q].out \in {0, m.players[q].out}
    BY <1>1, FetchMine
  <1> HIDE DEF n
  <1>4. Counted(n)
    BY <1>3, SameCounted DEF m
  <1>5. dcs' = [c.ms EXCEPT ![c.i] = n] /\ minedb' = n
    BY <1>2 DEF Keep
  <1>6. Agrees(n, manul', hero')
    BY <1>2, <1>3 DEF Agrees, m
  <1>7. Called(minedb', hero')
    BY <1>3, <1>5, <1>6, CalledBy
  <1>8. Earned(m, hero) => Earned(n, hero')
    <2> SUFFICES ASSUME Earned(m, hero), NEW p \in Pids, n.players[p].kind = "hero"
                 PROVE  hero'[p].mining /\ n.players[p].ap + n.players[p].out <= hero'[p].ap
      BY DEF Earned
    <2>1. hero[p].mining /\ m.players[p].ap + m.players[p].out <= hero[p].ap
      BY <1>3 DEF Earned
    <2>2. /\ m.players[p].ap \in Nat /\ m.players[p].out \in Nat
          /\ hero[p].ap \in Nat
      BY <1>1, SoundEntry DEF GoodEntry, Entry, HeroRecords
    <2> QED
      BY <1>2, <1>3, <2>1, <2>2
  <1>9. \A p : Left(m, manul, p) => Left(n, manul', p)
    BY <1>2, <1>3 DEF Left
  <1> QED
    BY <1>2, <1>3, <1>4, <1>5, <1>6, <1>7, <1>8, <1>9 DEF Becoming, m

LEMMA RunKeeps ==
    ASSUME NEW c, GoodContext(c), c.live, NEW op, Run(op, c),
           op \in {"stophero", "fetchhero"} => hero[c.p].mining,
           manul \in [Pids -> BOOLEAN], hero \in [Pids -> HeroRecords],
           Counted(M(c)), Agrees(M(c), manul, hero), Called(c.db, hero)
    PROVE  \E n : /\ Sound(n) /\ dcs' = [c.ms EXCEPT ![c.i] = n] /\ minedb' \in {n, c.db}
                  /\ Becoming(M(c), n)
                  /\ \A p \in Pids : manul'[p] => manul[p] \/ p = c.p
  <1>1. CASE StartManul(c)
    BY <1>1, StartManulKeeps
  <1>2. CASE StartHero(c)
    BY <1>2, StartHeroKeeps
  <1>3. CASE op = "stophero" /\ StopHero(c)
    BY <1>3, StopHeroKeeps
  <1>4. CASE FetchHero(c)
    BY <1>4, FetchHeroKeeps
  <1>5. CASE Refused(op, c)
    <2>1. Keep(c, M(c), FALSE) /\ manul' = manul /\ hero' = hero
      BY <1>5 DEF Refused
    <2>2. Sound(M(c))
      BY ContextMine
    <2>3. Becoming(M(c), M(c))
      BY <2>1 DEF Becoming, Keep
    <2> QED
      BY <2>1, <2>2, <2>3 DEF Keep
  <1> QED
    BY <1>1, <1>2, <1>3, <1>4, <1>5 DEF Run

-----------------------------------------------------------------------------
\* The components of the mine after a step.

LEMMA ChangedData ==
    ASSUME DataTypes, NEW d \in DOMAIN dcs, NEW k, Sound(k), dcs' = [dcs EXCEPT ![d] = k],
           minedb' \in {k, minedb}, loaded' = loaded
    PROVE  DataTypes' /\ DOMAIN dcs' = DOMAIN dcs /\ Len(dcs') = Len(dcs) /\ dcs'[d] = k
  <1>1. dcs \in Seq(MineData) /\ k \in MineData /\ DOMAIN dcs = 1..Len(dcs)
    BY DEF DataTypes, Sound
  <1>2. dcs' \in Seq(MineData) /\ DOMAIN dcs' = DOMAIN dcs /\ Len(dcs') = Len(dcs)
        /\ dcs'[d] = k /\ \A e \in DOMAIN dcs \ {d} : dcs'[e] = dcs[e]
    BY <1>1
  <1>3. \A e \in DOMAIN dcs' : Sound(dcs'[e])
    BY <1>2 DEF DataTypes
  <1>4. SoundOrNone(minedb')
    BY DEF DataTypes, SoundOrNone
  <1>5. loaded' \in 0..Len(dcs')
    BY <1>2 DEF DataTypes
  <1> QED
    BY <1>2, <1>3, <1>4, <1>5 DEF DataTypes

LEMMA AddedData ==
    ASSUME DataTypes, NEW m, Sound(m), NEW k, Sound(k), NEW i, i = Len(dcs) + 1,
           dcs' = [Append(dcs, m) EXCEPT ![i] = k], SoundOrNone(minedb'), loaded' = i
    PROVE  DataTypes' /\ Len(dcs') = i /\ dcs'[i] = k /\ DOMAIN dcs \subseteq DOMAIN dcs'
           /\ i # 0
  <1>1. dcs \in Seq(MineData) /\ k \in MineData /\ m \in MineData /\ Len(dcs) \in Nat
    BY DEF DataTypes, Sound
  <1>2. Append(dcs, m) \in Seq(MineData) /\ Len(Append(dcs, m)) = i
        /\ DOMAIN Append(dcs, m) = 1..i
        /\ \A e \in 1..Len(dcs) : Append(dcs, m)[e] = dcs[e]
    BY <1>1
  <1>3. dcs' \in Seq(MineData) /\ Len(dcs') = i /\ DOMAIN dcs' = 1..i
        /\ dcs'[i] = k /\ \A e \in 1..i : e # i => dcs'[e] = dcs[e]
    <2> DEFINE b == Append(dcs, m)
    <2>1. b \in Seq(MineData) /\ Len(b) = i /\ DOMAIN b = 1..i /\ dcs' = [b EXCEPT ![i] = k]
      BY <1>2
    <2>2. \A e \in 1..i : e # i => b[e] = dcs[e]
      BY <1>1, <1>2
    <2>3. i \in 1..i /\ i \in Nat
      BY <1>1
    <2> HIDE DEF b
    <2>4. dcs' \in Seq(MineData) /\ Len(dcs') = i /\ DOMAIN dcs' = 1..i
      BY <1>1, <2>1, <2>3
    <2>5. dcs'[i] = k /\ \A e \in 1..i : e # i => dcs'[e] = b[e]
      BY <2>1, <2>3
    <2> QED
      BY <2>2, <2>4, <2>5
  <1>4. \A e \in DOMAIN dcs' : Sound(dcs'[e])
    BY <1>1, <1>3 DEF DataTypes
  <1> QED
    BY <1>1, <1>3, <1>4 DEF DataTypes

LEMMA SameUpdates ==
    ASSUME UpdateTypes, updates' = updates, DOMAIN dcs \subseteq DOMAIN dcs'
    PROVE  UpdateTypes'
  <1>1. UpdateType \subseteq UpdateType'
    BY DEF UpdateType
  <1> QED
    BY <1>1 DEF UpdateTypes

LEMMA ChangedUpdates ==
    ASSUME UpdateTypes, NEW n \in 1..MaxUpdates, NEW u, u # NoUpdate => u \in UpdateType,
           updates' = [updates EXCEPT ![n] = u], DOMAIN dcs' = DOMAIN dcs
    PROVE  UpdateTypes' /\ updates'[n] = u
  <1>1. UpdateType' = UpdateType
    BY DEF UpdateType
  <1>2. \A k \in 1..MaxUpdates : updates'[k] = IF k = n THEN u ELSE updates[k]
    BY DEF UpdateTypes
  <1>3. updates' = [k \in 1..MaxUpdates |-> updates'[k]]
    BY DEF UpdateTypes
  <1> QED
    BY <1>1, <1>2, <1>3 DEF UpdateTypes

LEMMA MinersByHand ==
    ASSUME NEW m, NEW todo, todo \subseteq Pids, ByHandIn(m, todo) # {}
    PROVE  /\ Min(ByHandIn(m, todo)) \in Pids
           /\ m.players[Min(ByHandIn(m, todo))].kind = "manul"
  <1>1. ByHandIn(m, todo) \subseteq Nat /\ ByHandIn(m, todo) \subseteq Pids
    BY MineAssumption DEF ByHandIn, Ahead
  <1>2. Min(ByHandIn(m, todo)) \in ByHandIn(m, todo)
    BY <1>1, LeastIsIn
  <1> QED
    BY <1>1, <1>2 DEF ByHandIn

LEMMA GoOnTypes ==
    ASSUME NEW n, NEW d \in DOMAIN dcs, NEW m, Sound(m), NEW todo, todo \subseteq Pids,
           NEW rmv, rmv \subseteq Pids, PlayerTypes, GoOn(n, d, m, todo, rmv)
    PROVE  /\ \E k : Sound(k) /\ dcs' = [dcs EXCEPT ![d] = k] /\ minedb' \in {k, minedb}
           /\ \E u : u \in UpdateType \cup {NoUpdate} /\ updates' = [updates EXCEPT ![n] = u]
  <1> DEFINE s == Serve(m, todo)
             hand == ByHandIn(m, todo)
  <1>1. Sound(s)
    BY ServeMine
  <1>2. CASE Exhausts(m, todo) \/ hand = {}
    <2>1. dcs' = [dcs EXCEPT ![d] = Kick(s, rmv)] /\ minedb' = Kick(s, rmv)
          /\ updates' = [updates EXCEPT ![n] = NoUpdate]
      BY <1>2 DEF GoOn
    <2>2. Sound(Kick(s, rmv))
      BY <1>1, KickMine
    <2> QED
      BY <2>1, <2>2
  <1>3. CASE ~(Exhausts(m, todo) \/ hand = {})
    <2> DEFINE q == Min(hand)
               u == [dc |-> d, todo |-> {p \in todo : p > q}, rmv |-> rmv,
                     ask |-> q, online |-> bound[q]]
    <2>1. dcs' = [dcs EXCEPT ![d] = s] /\ minedb' = minedb
          /\ updates' = [updates EXCEPT ![n] = u]
      BY <1>3 DEF GoOn
    <2>2. q \in Pids
      BY <1>3, MinersByHand
    <2>3. bound[q] \in BOOLEAN
      BY <2>2 DEF PlayerTypes
    <2> HIDE DEF q
    <2>4. u \in UpdateType
      BY <2>2, <2>3 DEF UpdateType
    <2> HIDE DEF s, u
    <2> QED
      BY <1>1, <2>1, <2>4
  <1> QED
    BY <1>2, <1>3

\* The update starts from the mine as it is, or full again.
Refilled(m) == IF m.left > 0 THEN m ELSE [m EXCEPT !.left = MaxOutput]

LEMMA RefilledMine ==
    ASSUME NEW m, Sound(m)
    PROVE  Sound(Refilled(m)) /\ Refilled(m).players = m.players /\ Refilled(m).cur = m.cur
  BY MineAssumption DEF Refilled, Sound, MineData

-----------------------------------------------------------------------------
\* The types are kept.

LEMMA SamePending == PendingTypes /\ pending' \subseteq pending => PendingTypes'
  BY DEF PendingTypes

LEMMA InitTypes == MineInit => MineTypes
  <1> SUFFICES ASSUME MineInit PROVE MineTypes
    OBVIOUS
  <1> USE DEF MineInit
  <1>1. PlayerTypes
    <2>1. bound \in [Pids -> BOOLEAN] /\ place \in [Pids -> {"here", "near", "away"}]
          /\ manul \in [Pids -> BOOLEAN]
      OBVIOUS
    <2>2. hero \in [Pids -> [mining : BOOLEAN, ap : 0..InitAct]]
      BY MineAssumption
    <2> QED
      BY <2>1, <2>2 DEF PlayerTypes
  <1>2. DataTypes
    <2>1. CASE Cold
      BY <2>1 DEF DataTypes, SoundOrNone
    <2>2. CASE ~Cold
      <3>1. dcs = <<Fresh>> /\ loaded = 1 /\ minedb = Fresh
        BY <2>2
      <3>2. Fresh \in MineData /\ Sound(Fresh)
        BY FreshSound DEF Sound
      <3>3. dcs \in Seq(MineData) /\ Len(dcs) = 1 /\ \A d \in DOMAIN dcs : Sound(dcs[d])
        BY <3>1, <3>2
      <3> QED
        BY <3>1, <3>2, <3>3 DEF DataTypes, SoundOrNone
    <2> QED
      BY <2>1, <2>2
  <1>3. PendingTypes
    BY DEF PendingTypes
  <1>4. UpdateTypes
    BY DEF UpdateTypes
  <1> QED
    BY <1>1, <1>2, <1>3, <1>4 DEF MineTypes

LEMMA HandleTypes ==
    ASSUME MineTypes, NEW op, NEW p \in Pids, Handle(op, p)
    PROVE  MineTypes'
  <1> DEFINE c == [p |-> p, live |-> TRUE, ms |-> dcs, i |-> loaded, db |-> minedb]
  <1>1. loaded \in DOMAIN dcs
    BY DEF Handle, MineTypes, DataTypes
  <1>2. GoodContext(c)
    BY <1>1 DEF GoodContext, MineTypes, DataTypes
  <1>3. Run(op, c)
    BY DEF Handle
  <1>4. manul \in [Pids -> BOOLEAN] /\ hero \in [Pids -> HeroRecords]
    BY DEF MineTypes, PlayerTypes, HeroRecords
  <1>5. c.ms = dcs /\ c.i = loaded /\ c.db = minedb
    OBVIOUS
  <1> HIDE DEF c
  <1>6. /\ \E m : /\ Sound(m)
                  /\ dcs' = [c.ms EXCEPT ![c.i] = m]
                  /\ minedb' \in {m, c.db}
        /\ manul' \in [Pids -> BOOLEAN]
        /\ hero' \in [Pids -> HeroRecords]
    BY <1>2, <1>3, <1>4, RunTypes
  <1>7. PICK m : /\ Sound(m) /\ dcs' = [dcs EXCEPT ![loaded] = m] /\ minedb' \in {m, minedb}
    BY <1>5, <1>6
  <1>8. DataTypes' /\ DOMAIN dcs' = DOMAIN dcs
    BY <1>1, <1>7, ChangedData DEF MineTypes, Handle
  <1>9. UpdateTypes'
    BY <1>8, SameUpdates DEF MineTypes, Handle
  <1>10. PlayerTypes' /\ PendingTypes' /\ restarts' \in Nat /\ loaded' # 0
    BY <1>6 DEF MineTypes, PlayerTypes, PendingTypes, HeroRecords, Handle
  <1> QED
    BY <1>8, <1>9, <1>10 DEF MineTypes

LEMMA FirstUseTypes ==
    ASSUME MineTypes, NEW op \in Ops, NEW p \in Pids, FirstUse(op, p)
    PROVE  MineTypes'
  <1> DEFINE h == [op |-> op, p |-> p, got |-> minedb, live |-> TRUE]
  <1>1. SoundOrNone(minedb) /\ minedb \in MineData \cup {NoMine}
    BY DEF MineTypes, DataTypes, SoundOrNone, Sound
  <1>2. h \in [op : Ops, p : Pids, got : MineData \cup {NoMine}, live : BOOLEAN]
        /\ SoundOrNone(h.got)
    BY <1>1
  <1>3. pending' = pending \cup {h}
    BY DEF FirstUse
  <1> HIDE DEF h
  <1>4. PendingTypes'
    BY <1>2, <1>3 DEF MineTypes, PendingTypes
  <1>5. PlayerTypes' /\ DataTypes' /\ UpdateTypes' /\ restarts' \in Nat
    BY DEF MineTypes, PlayerTypes, DataTypes, UpdateTypes, UpdateType, FirstUse
  <1>6. \A q \in Pids : manul'[q] => loaded' # 0
    BY DEF MineTypes, FirstUse
  <1> QED
    BY <1>4, <1>5, <1>6 DEF MineTypes

LEMMA FirstUseReadTypes ==
    ASSUME MineTypes, NEW h \in pending, FirstUseRead(h)
    PROVE  MineTypes'
  <1> DEFINE m == IF h.got = NoMine THEN Fresh ELSE h.got
             i == Len(dcs) + 1
             c == [p |-> h.p, live |-> h.live, ms |-> Append(dcs, m), i |-> i,
                   db |-> IF h.got = NoMine THEN m ELSE minedb]
  <1>1. /\ h.p \in Pids /\ h.live \in BOOLEAN /\ h.got \in MineData \cup {NoMine}
        /\ SoundOrNone(h.got)
    BY DEF MineTypes, PendingTypes
  <1>2. Sound(m) /\ m \in MineData
    BY <1>1, FreshSound DEF SoundOrNone, Sound
  <1>3. Run(h.op, c) /\ loaded' = i /\ pending' = pending \ {h}
        /\ UNCHANGED <<bound, place, updates, restarts>>
    BY DEF FirstUseRead
  <1>4. c.p = h.p /\ c.live = h.live /\ c.ms = Append(dcs, m) /\ c.i = i
        /\ c.db = IF h.got = NoMine THEN m ELSE minedb
    OBVIOUS
  <1> HIDE DEF m, i, c
  <1>5. SoundOrNone(c.db)
    BY <1>2, <1>4 DEF SoundOrNone, MineTypes, DataTypes
  <1>6. dcs \in Seq(MineData) /\ Len(dcs) \in Nat /\ \A d \in DOMAIN dcs : Sound(dcs[d])
    BY DEF MineTypes, DataTypes
  <1>7. /\ Append(dcs, m) \in Seq(MineData) /\ DOMAIN Append(dcs, m) = 1..i
        /\ i \in 1..i
        /\ \A d \in 1..i : d # i => Append(dcs, m)[d] = dcs[d] /\ d \in DOMAIN dcs
        /\ Append(dcs, m)[i] = m
    BY <1>2, <1>6 DEF i
  <1>8. GoodContext(c)
    BY <1>1, <1>2, <1>4, <1>5, <1>6, <1>7 DEF GoodContext
  <1>9. manul \in [Pids -> BOOLEAN] /\ hero \in [Pids -> HeroRecords]
    BY DEF MineTypes, PlayerTypes, HeroRecords
  <1>10. /\ \E k : /\ Sound(k)
                   /\ dcs' = [c.ms EXCEPT ![c.i] = k]
                   /\ minedb' \in {k, c.db}
         /\ manul' \in [Pids -> BOOLEAN]
         /\ hero' \in [Pids -> HeroRecords]
    BY <1>3, <1>8, <1>9, RunTypes
  <1>11. PICK k : /\ Sound(k) /\ dcs' = [Append(dcs, m) EXCEPT ![i] = k]
                  /\ minedb' \in {k, c.db}
    BY <1>4, <1>10
  <1>12. SoundOrNone(minedb')
    BY <1>5, <1>11 DEF SoundOrNone
  <1>13. DataTypes' /\ DOMAIN dcs \subseteq DOMAIN dcs' /\ i # 0
    BY <1>2, <1>3, <1>11, <1>12, AddedData DEF MineTypes, i
  <1>14. UpdateTypes'
    BY <1>3, <1>13, SameUpdates DEF MineTypes
  <1>15. PlayerTypes' /\ restarts' \in Nat /\ loaded' # 0
    BY <1>3, <1>10, <1>13 DEF MineTypes, PlayerTypes, HeroRecords
  <1>16. PendingTypes'
    BY <1>3, SamePending DEF MineTypes
  <1> QED
    BY <1>13, <1>14, <1>15, <1>16 DEF MineTypes

\* A hand miner is taken off the list, by its own request or because it leaves.
LEMMA TakenOff ==
    ASSUME MineTypes, NEW p \in Pids, manul[p],
           dcs' = [dcs EXCEPT ![loaded] = Drop(dcs[loaded], p)],
           minedb' = IF Drop(dcs[loaded], p).cur <= 0 THEN Drop(dcs[loaded], p) ELSE minedb,
           loaded' = loaded
    PROVE  /\ DataTypes' /\ DOMAIN dcs' = DOMAIN dcs /\ dcs'[loaded] = Drop(dcs[loaded], p)
           /\ loaded \in DOMAIN dcs /\ Sound(dcs[loaded])
           /\ Sound(Drop(dcs[loaded], p))
  <1>1. loaded \in DOMAIN dcs
    BY DEF MineTypes, DataTypes
  <1>2. Sound(dcs[loaded])
    BY <1>1 DEF MineTypes, DataTypes
  <1>3. Sound(Drop(dcs[loaded], p))
    BY <1>2, DropMine
  <1> DEFINE k == Drop(dcs[loaded], p)
  <1>4. Sound(k) /\ dcs' = [dcs EXCEPT ![loaded] = k] /\ minedb' \in {k, minedb}
    BY <1>3
  <1> HIDE DEF k
  <1>5. DataTypes' /\ DOMAIN dcs' = DOMAIN dcs /\ dcs'[loaded] = k
    BY <1>1, <1>4, ChangedData DEF MineTypes
  <1> QED
    BY <1>1, <1>2, <1>3, <1>5 DEF k

LEMMA StopManulTypes ==
    ASSUME MineTypes, NEW p \in Pids, StopManul(p)
    PROVE  MineTypes'
  <1>1. UNCHANGED <<bound, place, hero, loaded, pending, updates, restarts>> /\ manul[p]
    BY DEF StopManul
  <1>2. CASE In(dcs[loaded], p)
    <2>1. /\ dcs' = [dcs EXCEPT ![loaded] = Drop(dcs[loaded], p)]
          /\ minedb' = IF Drop(dcs[loaded], p).cur <= 0 THEN Drop(dcs[loaded], p) ELSE minedb
          /\ manul' = [manul EXCEPT ![p] = FALSE]
      BY <1>2 DEF StopManul, TakeOff
    <2>2. DataTypes' /\ DOMAIN dcs' = DOMAIN dcs
      BY <1>1, <2>1, TakenOff
    <2>3. UpdateTypes'
      BY <1>1, <2>2, SameUpdates DEF MineTypes
    <2>4. PlayerTypes'
      BY <1>1, <2>1 DEF MineTypes, PlayerTypes
    <2>5. PendingTypes' /\ restarts' \in Nat
      BY <1>1, SamePending DEF MineTypes
    <2>6. \A q \in Pids : manul'[q] => loaded' # 0
      BY <1>1, <2>1 DEF MineTypes, PlayerTypes
    <2> QED
      BY <2>2, <2>3, <2>4, <2>5, <2>6 DEF MineTypes
  <1>3. CASE ~In(dcs[loaded], p)
    BY <1>1, <1>3 DEF StopManul, TakeOff, MineTypes, PlayerTypes, DataTypes, PendingTypes,
                      UpdateTypes, UpdateType
  <1> QED
    BY <1>2, <1>3

LEMMA StrokeTypes ==
    ASSUME MineTypes, NEW p \in Pids, Stroke(p)
    PROVE  /\ MineTypes' /\ loaded \in DOMAIN dcs /\ Sound(dcs'[loaded]) /\ Len(dcs') = Len(dcs)
           /\ dcs'[loaded].players = dcs[loaded].players
           /\ dcs'[loaded].cur = dcs[loaded].cur
  <1> DEFINE m == dcs[loaded]
             k == [m EXCEPT !.left = @ - 1]
  <1>1. loaded \in DOMAIN dcs
    BY DEF Stroke, MineTypes, DataTypes
  <1>2. Sound(m)
    BY <1>1 DEF MineTypes, DataTypes
  <1>3. Sound(k) /\ k.players = m.players /\ k.cur = m.cur
    BY <1>2 DEF Sound, MineData
  <1>4. dcs' = [dcs EXCEPT ![loaded] = k]
        /\ UNCHANGED <<bound, place, manul, hero, loaded, minedb, pending, updates, restarts>>
    BY DEF Stroke
  <1> HIDE DEF k
  <1>5. DataTypes' /\ DOMAIN dcs' = DOMAIN dcs /\ dcs'[loaded] = k /\ Len(dcs') = Len(dcs)
    BY <1>1, <1>3, <1>4, ChangedData DEF MineTypes
  <1>6. UpdateTypes'
    BY <1>4, <1>5, SameUpdates DEF MineTypes
  <1>7. PlayerTypes' /\ PendingTypes' /\ restarts' \in Nat
        /\ \A q \in Pids : manul'[q] => loaded' # 0
    BY <1>4 DEF MineTypes, PlayerTypes, PendingTypes
  <1> QED
    BY <1>1, <1>3, <1>5, <1>6, <1>7 DEF MineTypes

LEMMA UpdateStepTypes ==
    ASSUME MineTypes, NEW n \in 1..MaxUpdates, NEW d \in DOMAIN dcs, NEW m, Sound(m),
           NEW todo, todo \subseteq Pids, NEW rmv, rmv \subseteq Pids,
           GoOn(n, d, m, todo, rmv),
           UNCHANGED <<bound, place, manul, hero, loaded, pending, restarts>>
    PROVE  MineTypes'
  <1>1. PICK k : Sound(k) /\ dcs' = [dcs EXCEPT ![d] = k] /\ minedb' \in {k, minedb}
    BY GoOnTypes DEF MineTypes
  <1>2. PICK u : u \in UpdateType \cup {NoUpdate} /\ updates' = [updates EXCEPT ![n] = u]
    BY GoOnTypes DEF MineTypes
  <1>3. DataTypes' /\ DOMAIN dcs' = DOMAIN dcs
    BY <1>1, ChangedData DEF MineTypes
  <1>4. UpdateTypes'
    BY <1>2, <1>3, ChangedUpdates DEF MineTypes
  <1>5. PlayerTypes' /\ PendingTypes' /\ restarts' \in Nat
        /\ \A q \in Pids : manul'[q] => loaded' # 0
    BY DEF MineTypes, PlayerTypes, PendingTypes
  <1> QED
    BY <1>3, <1>4, <1>5 DEF MineTypes

LEMMA UpdateBegins ==
    ASSUME MineTypes, NEW n \in 1..MaxUpdates, Update(n)
    PROVE  /\ loaded \in DOMAIN dcs /\ Sound(dcs[loaded])
           /\ GoOn(n, loaded, Refilled(dcs[loaded]), Miners(dcs[loaded]), {})
           /\ UNCHANGED <<bound, place, manul, hero, loaded, pending, restarts>>
  <1>1. loaded \in DOMAIN dcs
    BY DEF Update, MineTypes, DataTypes
  <1>2. Sound(dcs[loaded])
    BY <1>1 DEF MineTypes, DataTypes
  <1> QED
    BY <1>1, <1>2 DEF Update, Refilled

LEMMA UpdateGoesOn ==
    ASSUME MineTypes, NEW n \in 1..MaxUpdates, UpdateRead(n)
    PROVE  LET u == updates[n]
               rmv == IF u.online THEN u.rmv ELSE u.rmv \cup {u.ask}
           IN  /\ u # NoUpdate /\ u \in UpdateType
               /\ u.dc \in DOMAIN dcs /\ Sound(dcs[u.dc])
               /\ u.todo \subseteq Pids /\ rmv \subseteq Pids
               /\ GoOn(n, u.dc, dcs[u.dc], u.todo, rmv)
               /\ UNCHANGED <<bound, place, manul, hero, loaded, pending, restarts>>
  <1> DEFINE u == updates[n]
  <1>1. u # NoUpdate /\ u \in UpdateType
    BY DEF UpdateRead, MineTypes, UpdateTypes
  <1>2. u.dc \in DOMAIN dcs /\ u.todo \subseteq Pids /\ u.rmv \subseteq Pids /\ u.ask \in Pids
    BY <1>1 DEF UpdateType
  <1>3. Sound(dcs[u.dc])
    BY <1>2 DEF MineTypes, DataTypes
  <1> QED
    BY <1>1, <1>2, <1>3 DEF UpdateRead

LEMMA RecoveredTypes ==
    ASSUME MineTypes, NEW d \in DOMAIN dcs, Recovered(d)
    PROVE  /\ MineTypes' /\ Len(dcs') = Len(dcs) /\ \A e \in DOMAIN dcs : e # d => dcs'[e] = dcs[e]
           /\ dcs'[d].players = dcs[d].players
           /\ dcs'[d].cur = dcs[d].cur
  <1> DEFINE m == dcs[d]
             k == [m EXCEPT !.recovering = FALSE]
  <1>1. Sound(m)
    BY DEF MineTypes, DataTypes
  <1>2. Sound(k) /\ k.players = m.players /\ k.cur = m.cur
    BY <1>1 DEF Sound, MineData
  <1>3. dcs' = [dcs EXCEPT ![d] = k]
        /\ UNCHANGED <<bound, place, manul, hero, loaded, minedb, pending, updates, restarts>>
    BY DEF Recovered
  <1> HIDE DEF k
  <1>4. DataTypes' /\ DOMAIN dcs' = DOMAIN dcs /\ dcs'[d] = k /\ Len(dcs') = Len(dcs)
    BY <1>2, <1>3, ChangedData DEF MineTypes
  <1>5. UpdateTypes'
    BY <1>3, <1>4, SameUpdates DEF MineTypes
  <1>6. PlayerTypes' /\ PendingTypes' /\ restarts' \in Nat
        /\ \A q \in Pids : manul'[q] => loaded' # 0
    BY <1>3 DEF MineTypes, PlayerTypes, PendingTypes
  <1> QED
    BY <1>2, <1>3, <1>4, <1>5, <1>6 DEF MineTypes

LEMMA LeaveTypes ==
    ASSUME MineTypes, NEW p \in Pids, LeaveWorker(p)
    PROVE  MineTypes'
  <1>1. /\ place' = [place EXCEPT ![p] = "away"]
        /\ manul' = [manul EXCEPT ![p] = FALSE]
        /\ pending' = {IF h.p = p THEN [h EXCEPT !.live = FALSE] ELSE h : h \in pending}
        /\ UNCHANGED <<bound, hero, loaded, updates, restarts>>
    BY DEF LeaveWorker
  <1>2. PlayerTypes'
    BY <1>1 DEF MineTypes, PlayerTypes
  <1>3. PendingTypes'
    <2> SUFFICES ASSUME NEW k \in pending'
                 PROVE  /\ k \in [op : Ops, p : Pids, got : MineData \cup {NoMine},
                                  live : BOOLEAN]
                        /\ SoundOrNone(k.got)
      BY DEF PendingTypes
    <2>1. PICK h \in pending : k = IF h.p = p THEN [h EXCEPT !.live = FALSE] ELSE h
      BY <1>1
    <2>2. /\ h \in [op : Ops, p : Pids, got : MineData \cup {NoMine}, live : BOOLEAN]
          /\ SoundOrNone(h.got)
      BY DEF MineTypes, PendingTypes
    <2>3. k \in [op : Ops, p : Pids, got : MineData \cup {NoMine}, live : BOOLEAN]
          /\ k.got = h.got
      BY <2>1, <2>2
    <2> QED
      BY <2>2, <2>3
  <1>4. \A q \in Pids : manul'[q] => loaded' # 0
    BY <1>1 DEF MineTypes, PlayerTypes
  <1>5. CASE place[p] = "here" /\ manul[p] /\ In(dcs[loaded], p)
    <2>1. /\ dcs' = [dcs EXCEPT ![loaded] = Drop(dcs[loaded], p)]
          /\ minedb' = IF Drop(dcs[loaded], p).cur <= 0 THEN Drop(dcs[loaded], p) ELSE minedb
      BY <1>5 DEF LeaveWorker
    <2>2. DataTypes' /\ DOMAIN dcs' = DOMAIN dcs
      BY <1>1, <1>5, <2>1, TakenOff
    <2>3. UpdateTypes'
      BY <1>1, <2>2, SameUpdates DEF MineTypes
    <2> QED
      BY <1>1, <1>2, <1>3, <1>4, <2>2, <2>3 DEF MineTypes
  <1>6. CASE ~(place[p] = "here" /\ manul[p] /\ In(dcs[loaded], p))
    <2>1. UNCHANGED <<dcs, minedb>>
      BY <1>6 DEF LeaveWorker
    <2>2. DataTypes' /\ UpdateTypes' /\ restarts' \in Nat
      BY <1>1, <2>1 DEF MineTypes, DataTypes, UpdateTypes, UpdateType
    <2> QED
      BY <1>2, <1>3, <1>4, <2>2 DEF MineTypes
  <1> QED
    BY <1>5, <1>6

LEMMA SameMine ==
    ASSUME MineTypes, UNCHANGED <<manul, hero, mine, restarts>>, PlayerTypes'
    PROVE  MineTypes'
  BY DEF MineTypes, mine, DataTypes, PendingTypes, UpdateTypes, UpdateType

LEMMA MoveTypes ==
    ASSUME MineTypes, NEW p \in Pids, ChangeMap(p) \/ EnterWorker(p) \/ LogIn(p) \/ LogOut(p)
    PROVE  MineTypes'
  <1>1. UNCHANGED <<manul, hero, mine, restarts>>
    BY DEF ChangeMap, EnterWorker, LogIn, LogOut
  <1>2. PlayerTypes'
    <2>1. CASE ChangeMap(p)
      BY <2>1 DEF ChangeMap, MineTypes, PlayerTypes
    <2>2. CASE EnterWorker(p)
      BY <2>2 DEF EnterWorker, MineTypes, PlayerTypes
    <2>3. CASE LogIn(p)
      BY <2>3 DEF LogIn, MineTypes, PlayerTypes
    <2>4. CASE LogOut(p)
      BY <2>4 DEF LogOut, MineTypes, PlayerTypes
    <2> QED
      BY <2>1, <2>2, <2>3, <2>4
  <1> QED
    BY <1>1, <1>2, SameMine

LEMMA RestartTypes ==
    ASSUME MineTypes, Restart
    PROVE  MineTypes'
  <1>1. PlayerTypes' /\ PendingTypes' /\ restarts' \in Nat
        /\ \A p \in Pids : ~manul'[p]
    BY DEF MineTypes, PlayerTypes, PendingTypes, Restart
  <1>2. DataTypes' /\ UpdateTypes'
    BY DEF MineTypes, DataTypes, UpdateTypes, Restart
  <1> QED
    BY <1>1, <1>2 DEF MineTypes

LEMMA MineStepTypes == MineTypes /\ [MineNext]_mineVars => MineTypes'
  <1> SUFFICES ASSUME MineTypes, [MineNext]_mineVars
               PROVE  MineTypes'
    OBVIOUS
  <1>1. ASSUME NEW p \in Pids, NEW op \in Ops, Handle(op, p) PROVE MineTypes'
    BY <1>1, HandleTypes
  <1>2. ASSUME NEW p \in Pids, NEW op \in Ops, FirstUse(op, p) PROVE MineTypes'
    BY <1>2, FirstUseTypes
  <1>3. ASSUME NEW p \in Pids, StopManul(p) PROVE MineTypes'
    BY <1>3, StopManulTypes
  <1>4. ASSUME NEW p \in Pids, Stroke(p) PROVE MineTypes'
    BY <1>4, StrokeTypes
  <1>5. ASSUME NEW p \in Pids, ChangeMap(p) \/ EnterWorker(p) \/ LogIn(p) \/ LogOut(p)
        PROVE  MineTypes'
    BY <1>5, MoveTypes
  <1>6. ASSUME NEW p \in Pids, LeaveWorker(p) PROVE MineTypes'
    BY <1>6, LeaveTypes
  <1>7. ASSUME NEW h \in pending, FirstUseRead(h) PROVE MineTypes'
    BY <1>7, FirstUseReadTypes
  <1>8. ASSUME NEW n \in 1..MaxUpdates, Update(n) PROVE MineTypes'
    <2>1. /\ loaded \in DOMAIN dcs /\ Sound(dcs[loaded])
          /\ GoOn(n, loaded, Refilled(dcs[loaded]), Miners(dcs[loaded]), {})
          /\ UNCHANGED <<bound, place, manul, hero, loaded, pending, restarts>>
      BY <1>8, UpdateBegins
    <2>2. Sound(Refilled(dcs[loaded])) /\ Miners(dcs[loaded]) \subseteq Pids
      BY <2>1, RefilledMine DEF Miners
    <2> QED
      BY <2>1, <2>2, UpdateStepTypes
  <1>9. ASSUME NEW n \in 1..MaxUpdates, UpdateRead(n) PROVE MineTypes'
    <2> DEFINE u == updates[n]
               rmv == IF u.online THEN u.rmv ELSE u.rmv \cup {u.ask}
    <2>1. /\ u.dc \in DOMAIN dcs /\ Sound(dcs[u.dc])
          /\ u.todo \subseteq Pids /\ rmv \subseteq Pids
          /\ GoOn(n, u.dc, dcs[u.dc], u.todo, rmv)
          /\ UNCHANGED <<bound, place, manul, hero, loaded, pending, restarts>>
      BY <1>9, UpdateGoesOn
    <2> HIDE DEF u, rmv
    <2> QED
      BY <2>1, UpdateStepTypes
  <1>10. ASSUME NEW d \in DOMAIN dcs, Recovered(d) PROVE MineTypes'
    BY <1>10, RecoveredTypes
  <1>11. CASE Restart
    BY <1>11, RestartTypes
  <1>12. CASE UNCHANGED mineVars
    BY <1>12 DEF mineVars, MineTypes, PlayerTypes, DataTypes, PendingTypes, UpdateTypes,
                 UpdateType
  <1> QED
    BY <1>1, <1>2, <1>3, <1>4, <1>5, <1>6, <1>7, <1>8, <1>9, <1>10, <1>11, <1>12
    DEF MineNext, Player

LEMMA MineTyped == MineSpec => []MineTypes
  BY InitTypes, MineStepTypes, PTL DEF MineSpec

(***************************************************************************)
(* The types of the mine hold in every state, whatever first uses and      *)
(* updates overlap: an entry's points and output stay within what a hero   *)
(* can have (mine_msgs.ts:573, game_map.ts:273).                           *)
(***************************************************************************)
THEOREM MineTypeCorrect == MineSpec => []MineTypeOK
  <1>1. MineTypes => MineTypeOK
    <2> SUFFICES ASSUME MineTypes PROVE MineTypeOK
      OBVIOUS
    <2>1. minedb \in MineData \cup {NoMine}
      BY DEF MineTypes, DataTypes, SoundOrNone, Sound
    <2> QED
      BY <2>1 DEF MineTypes, PlayerTypes, DataTypes, PendingTypes, UpdateTypes, UpdateType,
                  MineTypeOK
  <1> QED
    BY <1>1, MineTyped, PTL

-----------------------------------------------------------------------------
(***************************************************************************)
(* Marks, list and number, when first uses do not meet, an update is over  *)
(* before the next begins, and nobody leaves while it awaits an answer.    *)
(***************************************************************************)

\* The list is left as it is, and marks of hand miners may go.
LEMMA SameList ==
    ASSUME NEW m, NEW k, k.players = m.players, k.cur = m.cur, Counted(m),
           Agrees(m, manul, hero), Called(minedb, hero), Sound(k),
           minedb' \in {k, minedb}, hero' = hero,
           \A p \in Pids : manul'[p] => manul[p]
    PROVE  Becoming(m, k)
  <1>1. Counted(k)
    BY SameCounted
  <1>2. Agrees(k, manul', hero')
    BY DEF Agrees
  <1>3. Called(k, hero')
    BY <1>2, CalledBy
  <1>4. Called(minedb', hero')
    BY <1>3
  <1>5. Earned(m, hero) => Earned(k, hero')
    BY DEF Earned
  <1>6. \A p : Left(m, manul, p) => Left(k, manul', p)
    BY DEF Left
  <1> QED
    BY <1>1, <1>2, <1>4, <1>5, <1>6 DEF Becoming

\* A hand miner goes.
LEMMA OneOff ==
    ASSUME NEW m, Sound(m), Counted(m), Agrees(m, manul, hero), Called(minedb, hero),
           NEW p \in Pids, manul[p], minedb' \in {Drop(m, p), minedb}, hero' = hero,
           manul \in [Pids -> BOOLEAN], manul' = [manul EXCEPT ![p] = FALSE]
    PROVE  Becoming(m, Drop(m, p))
  <1> DEFINE k == Drop(m, p)
  <1>1. m.players[p].kind = "manul" /\ In(m, p)
    BY DEF Agrees, In
  <1>2. Sound(k) /\ k.players = [m.players EXCEPT ![p] = Absent] /\ Counted(k)
    BY <1>1, DropMine, DropCounted
  <1> HIDE DEF k
  <1>3. m.players \in [Pids -> Entry]
    BY DEF Sound, MineData
  <1>4. k.players[p].kind = "none" /\ \A q \in Pids : q # p => k.players[q] = m.players[q]
    BY <1>2, <1>3, Entries
  <1>5. ~manul'[p]
    OBVIOUS
  <1>6. \A q \in Pids : q # p => (manul'[q] <=> manul[q])
    OBVIOUS
  <1>7. ~hero[p].mining
    BY <1>1 DEF Agrees
  <1>8. Agrees(k, manul', hero')
    <2> SUFFICES ASSUME NEW q \in Pids
                 PROVE  /\ manul'[q] => k.players[q].kind = "manul"
                        /\ hero[q].mining => k.players[q].kind = "hero"
      BY DEF Agrees
    <2>1. CASE q = p
      BY <1>5, <1>7, <2>1
    <2>2. CASE q # p
      <3>1. manul'[q] => manul[q]
        BY <1>6, <2>2
      <3>2. k.players[q] = m.players[q]
        BY <1>4, <2>2
      <3> QED
        BY <3>1, <3>2 DEF Agrees
    <2> QED
      BY <2>1, <2>2
  <1>9. Called(k, hero')
    BY <1>2, <1>8, CalledBy
  <1>10. Called(minedb', hero')
    BY <1>9 DEF k
  <1>11. Earned(m, hero) => Earned(k, hero')
    BY <1>4 DEF Earned
  <1>12. \A q : Left(m, manul, q) => Left(k, manul', q)
    <2> SUFFICES ASSUME NEW q, Left(m, manul, q)
                 PROVE  Left(k, manul', q)
      OBVIOUS
    <2>1. q \in Pids /\ m.players[q].kind = "manul" /\ ~manul[q]
      BY DEF Left
    <2>2. q # p
      BY <2>1
    <2>3. ~manul'[q]
      BY <1>6, <2>1, <2>2
    <2>4. k.players[q] = m.players[q]
      BY <1>4, <2>1, <2>2
    <2> QED
      BY <2>1, <2>3, <2>4 DEF Left
  <1> QED
    BY <1>2, <1>8, <1>10, <1>11, <1>12 DEF Becoming, k

LEMMA HeldSound ==
    ASSUME MineTypes
    PROVE  Sound(Held) /\ Sound(Read(minedb))
  <1>1. Sound(Read(minedb))
    BY FreshSound DEF MineTypes, DataTypes, SoundOrNone, Read
  <1> QED
    BY <1>1 DEF MineTypes, DataTypes, Held

\* The step of a handler, whose result is k: the map has it then.
LEMMA ListKept ==
    ASSUME ListInv, NEW k, Sound(k), Held' = k, minedb' \in {k, minedb, Read(minedb)},
           Becoming(Held, k), updates' = updates, loaded' # 0, restarts' = restarts,
           updates[1] # NoUpdate => loaded' = loaded
    PROVE  ListInv'
  <1>1. Counted(Held')
    BY DEF Becoming
  <1>2. minedb' # NoMine => Counted(minedb')
    BY FreshCounted DEF Becoming, ListInv, Read
  <1>3. Agrees(Held', manul', hero') /\ Called(minedb', hero')
    BY DEF Becoming
  <1>4. updates'[1] # NoUpdate =>
            /\ updates'[1].dc = loaded'
            /\ \A p \in updates'[1].rmv : Left(Held', manul', p)
            /\ ~updates'[1].online => Left(Held', manul', updates'[1].ask)
    <2> DEFINE u == updates[1]
    <2>1. u # NoUpdate =>
              /\ u.dc = loaded
              /\ \A p \in u.rmv : Left(Held, manul, p)
              /\ ~u.online => Left(Held, manul, u.ask)
      BY DEF ListInv
    <2>2. \A p : Left(Held, manul, p) => Left(Held', manul', p)
      BY DEF Becoming
    <2>3. updates'[1] = u
      OBVIOUS
    <2> HIDE DEF u
    <2> QED
      BY <2>1, <2>2, <2>3
  <1>5. restarts' = 0 => Earned(Held', hero')
    BY DEF ListInv, Becoming
  <1> QED
    BY <1>1, <1>2, <1>3, <1>4, <1>5 DEF ListInv

\* Nothing the mine's list depends on changes.
LEMMA ListSame ==
    ASSUME ListInv, UNCHANGED <<manul, hero, dcs, loaded, minedb, updates, restarts>>
    PROVE  ListInv'
  BY DEF ListInv, Held

\* The map's component is the only one.
LEMMA OneHeld ==
    ASSUME MineTypes, OneMine, loaded # 0
    PROVE  /\ loaded = 1 /\ DOMAIN dcs = {1} /\ Held = dcs[1]
           /\ pending = {}
  <1>1. loaded \in Nat /\ loaded <= 1 /\ Len(dcs) = loaded /\ dcs \in Seq(MineData)
    BY DEF MineTypes, DataTypes, OneMine
  <1>2. loaded = 1 /\ DOMAIN dcs = {1}
    BY <1>1
  <1>3. pending = {}
    BY DEF OneMine
  <1> QED
    BY <1>2, <1>3 DEF Held

\* The component changes, and with it marks at most.
LEMMA OneChanged ==
    ASSUME MineTypes, OneMine, loaded # 0, NEW k, dcs' = [dcs EXCEPT ![loaded] = k],
           UNCHANGED <<bound, place, loaded, pending>>,
           \A p \in Pids : manul'[p] => manul[p] \/ place[p] # "away"
    PROVE  OneMine' /\ Held' = k
  <1>1. loaded = 1 /\ DOMAIN dcs = {1} /\ pending = {}
    BY OneHeld
  <1>2. dcs \in Seq(MineData)
    BY DEF MineTypes, DataTypes
  <1>3. dcs'[1] = k /\ Len(dcs') = Len(dcs)
    BY <1>1, <1>2
  <1>4. Held' = k
    BY <1>1, <1>3 DEF Held
  <1>5. \A p \in Pids : place'[p] = "away" => ~manul'[p]
    BY DEF OneMine
  <1> QED
    BY <1>1, <1>3, <1>4, <1>5 DEF OneMine

-----------------------------------------------------------------------------
\* One step at a time.

LEMMA HandleKeeps ==
    ASSUME MineInv, NEW op, NEW p \in Pids, Handle(op, p)
    PROVE  OneMine' /\ ListInv'
  <1> USE DEF MineInv
  <1> DEFINE c == [p |-> p, live |-> TRUE, ms |-> dcs, i |-> loaded, db |-> minedb]
  <1>1. loaded # 0 /\ place[p] = "here" /\ Run(op, c)
        /\ (op \in {"stophero", "fetchhero"} => hero[p].mining)
        /\ UNCHANGED <<bound, place, loaded, pending, updates, restarts>>
    BY DEF Handle, Admitted
  <1>2. c.p = p /\ c.live /\ c.ms = dcs /\ c.i = loaded /\ c.db = minedb
    OBVIOUS
  <1>3. loaded \in DOMAIN dcs /\ Held = dcs[loaded]
    BY <1>1, OneHeld
  <1>4. GoodContext(c)
    BY <1>3 DEF GoodContext, MineTypes, DataTypes
  <1>5. manul \in [Pids -> BOOLEAN] /\ hero \in [Pids -> HeroRecords]
    BY DEF MineTypes, PlayerTypes, HeroRecords
  <1> HIDE DEF c
  <1>6. M(c) = Held
    BY <1>2, <1>3 DEF M
  <1>7. Counted(M(c)) /\ Agrees(M(c), manul, hero) /\ Called(c.db, hero)
    BY <1>2, <1>6 DEF ListInv
  <1>8. \E n : /\ Sound(n) /\ dcs' = [c.ms EXCEPT ![c.i] = n] /\ minedb' \in {n, c.db}
               /\ Becoming(M(c), n)
               /\ \A q \in Pids : manul'[q] => manul[q] \/ q = c.p
    BY <1>1, <1>2, <1>4, <1>5, <1>7, RunKeeps
  <1>9. PICK n : /\ Sound(n) /\ dcs' = [dcs EXCEPT ![loaded] = n] /\ minedb' \in {n, minedb}
                 /\ Becoming(Held, n)
                 /\ \A q \in Pids : manul'[q] => manul[q] \/ q = p
    BY <1>2, <1>6, <1>8
  <1>10. \A q \in Pids : manul'[q] => manul[q] \/ place[q] # "away"
    BY <1>1, <1>9
  <1>11. OneMine' /\ Held' = n
    BY <1>1, <1>9, <1>10, OneChanged
  <1>12. ListInv'
    BY <1>1, <1>9, <1>11, ListKept
  <1> QED
    BY <1>11, <1>12

LEMMA FirstUseKeeps ==
    ASSUME MineInv, MaxUses <= 1, NEW op \in Ops, NEW p \in Pids, FirstUse(op, p)
    PROVE  OneMine' /\ ListInv'
  <1> USE DEF MineInv
  <1> DEFINE h == [op |-> op, p |-> p, got |-> minedb, live |-> TRUE]
  <1>1. /\ loaded = 0 /\ Cardinality(pending) < MaxUses /\ pending' = pending \cup {h}
        /\ place[p] = "here" /\ (op \in {"stophero", "fetchhero"} => hero[p].mining)
        /\ UNCHANGED <<bound, place, manul, hero, dcs, loaded, minedb, updates, restarts>>
    BY DEF FirstUse, Admitted
  <1>2. pending = {}
    <2> SUFFICES ASSUME NEW k \in pending
                 PROVE  FALSE
      OBVIOUS
    <2>1. pending = {k}
      BY DEF OneMine
    <2>2. Cardinality(pending) = 1
      BY <2>1, FS_Singleton
    <2> QED
      BY <1>1, <2>2, MineAssumption
  <1>3. h.op = op /\ h.p = p /\ h.got = minedb /\ h.live
    OBVIOUS
  <1> HIDE DEF h
  <1>4. pending' = {h}
    BY <1>1, <1>2
  <1>5. OneMine'
    BY <1>1, <1>3, <1>4 DEF OneMine
  <1>6. ListInv'
    BY <1>1, ListSame
  <1> QED
    BY <1>5, <1>6

LEMMA FirstUseReadKeeps ==
    ASSUME MineInv, NEW h \in pending, FirstUseRead(h)
    PROVE  OneMine' /\ ListInv'
  <1> USE DEF MineInv
  <1> DEFINE m == Read(minedb)
             c == [p |-> h.p, live |-> h.live, ms |-> Append(dcs, m), i |-> Len(dcs) + 1,
                   db |-> m]
  <1>1. /\ loaded = 0 /\ Len(dcs) = 0 /\ h.got = minedb /\ h.live /\ place[h.p] # "away"
        /\ pending = {h}
        /\ (h.op \in {"stophero", "fetchhero"} => hero[h.p].mining)
    BY DEF OneMine
  <1>2. Held = m /\ Sound(m)
    BY <1>1, HeldSound DEF Held
  <1>3. /\ Run(h.op, c) /\ loaded' = Len(dcs) + 1 /\ pending' = pending \ {h}
        /\ UNCHANGED <<bound, place, updates, restarts>>
    <2>1. /\ Run(h.op, [p |-> h.p, live |-> h.live,
                        ms |-> Append(dcs, IF h.got = NoMine THEN Fresh ELSE h.got),
                        i |-> Len(dcs) + 1,
                        db |-> IF h.got = NoMine
                               THEN IF h.got = NoMine THEN Fresh ELSE h.got ELSE minedb])
          /\ loaded' = Len(dcs) + 1 /\ pending' = pending \ {h}
          /\ UNCHANGED <<bound, place, updates, restarts>>
      BY DEF FirstUseRead
    <2>2. m = IF h.got = NoMine THEN Fresh ELSE h.got
      BY <1>1 DEF Read
    <2>3. m = IF h.got = NoMine
              THEN IF h.got = NoMine THEN Fresh ELSE h.got ELSE minedb
      BY <1>1 DEF Read
    <2> QED
      BY <2>1, <2>2, <2>3
  <1>4. c.p = h.p /\ c.live /\ c.ms = Append(dcs, m) /\ c.i = 1 /\ c.db = m
    BY <1>1
  <1>5. /\ h.p \in Pids /\ h.live \in BOOLEAN
        /\ dcs \in Seq(MineData) /\ m \in MineData
    BY <1>2 DEF MineTypes, PendingTypes, DataTypes, Sound
  <1>6. /\ Append(dcs, m) \in Seq(MineData) /\ DOMAIN Append(dcs, m) = {1}
        /\ Append(dcs, m)[1] = m /\ Len(Append(dcs, m)) = 1
    BY <1>1, <1>5
  <1>7. c.live \in BOOLEAN
    BY <1>5
  <1>8. c.db = m /\ c.p \in Pids
    BY <1>4, <1>5
  <1> HIDE DEF c, m
  <1>9. GoodContext(c)
    BY <1>2, <1>4, <1>6, <1>7, <1>8 DEF GoodContext, SoundOrNone
  <1>10. M(c) = Held
    BY <1>2, <1>4, <1>6 DEF M
  <1>11. Called(m, hero)
    <2>1. Agrees(m, manul, hero)
      BY <1>2 DEF ListInv
    <2> QED
      BY <1>2, <2>1, CalledBy
  <1>12. Counted(M(c)) /\ Agrees(M(c), manul, hero) /\ Called(c.db, hero)
    BY <1>4, <1>10, <1>11 DEF ListInv
  <1>13. manul \in [Pids -> BOOLEAN] /\ hero \in [Pids -> HeroRecords]
    BY DEF MineTypes, PlayerTypes, HeroRecords
  <1>14. \E n : /\ Sound(n) /\ dcs' = [c.ms EXCEPT ![c.i] = n] /\ minedb' \in {n, c.db}
                /\ Becoming(M(c), n)
                /\ \A q \in Pids : manul'[q] => manul[q] \/ q = c.p
    BY <1>1, <1>3, <1>4, <1>9, <1>12, <1>13, RunKeeps
  <1>15. PICK n : /\ Sound(n) /\ dcs' = [Append(dcs, m) EXCEPT ![1] = n] /\ minedb' \in {n, m}
                  /\ Becoming(Held, n)
                  /\ \A q \in Pids : manul'[q] => manul[q] \/ q = h.p
    BY <1>4, <1>10, <1>14
  <1>16. n \in MineData
    BY <1>15 DEF Sound
  <1>17. dcs'[1] = n /\ Len(dcs') = 1
    BY <1>6, <1>15, <1>16
  <1>18. loaded' = 1
    BY <1>1, <1>3
  <1>19. Held' = n
    BY <1>17, <1>18 DEF Held
  <1>20. \A q \in Pids : place'[q] = "away" => ~manul'[q]
    BY <1>1, <1>3, <1>15 DEF OneMine
  <1>21. pending' = {}
    BY <1>1, <1>3
  <1>22. \A q \in Pids : ~bound'[q] => place'[q] = "away"
    BY <1>3 DEF OneMine
  <1>23. OneMine'
    BY <1>17, <1>18, <1>20, <1>21, <1>22 DEF OneMine
  <1>24. updates[1] = NoUpdate
    <2> SUFFICES ASSUME updates[1] # NoUpdate PROVE FALSE
      OBVIOUS
    <2>1. 1 \in 1..MaxUpdates
      BY MineAssumption
    <2>2. updates[1] \in UpdateType
      BY <2>1 DEF MineTypes, UpdateTypes
    <2>3. updates[1].dc \in DOMAIN dcs
      BY <2>2 DEF UpdateType
    <2> QED
      BY <1>1, <1>5, <2>3
  <1>25. ListInv'
    BY <1>3, <1>15, <1>18, <1>19, <1>24, ListKept DEF m
  <1> QED
    BY <1>23, <1>25

LEMMA StopManulKeeps ==
    ASSUME MineInv, NEW p \in Pids, StopManul(p)
    PROVE  OneMine' /\ ListInv'
  <1> USE DEF MineInv
  <1>1. manul[p] /\ loaded # 0
        /\ UNCHANGED <<bound, place, hero, loaded, pending, updates, restarts>>
    BY DEF StopManul, MineTypes
  <1>2. Held = dcs[loaded] /\ Sound(Held)
    BY <1>1, OneHeld, HeldSound
  <1>3. In(dcs[loaded], p)
    BY <1>1, <1>2 DEF ListInv, Agrees, In
  <1> DEFINE k == Drop(Held, p)
  <1>4. dcs' = [dcs EXCEPT ![loaded] = k] /\ minedb' \in {k, minedb}
        /\ manul' = [manul EXCEPT ![p] = FALSE]
    BY <1>1, <1>2, <1>3 DEF StopManul, TakeOff
  <1>5. Sound(k) /\ manul \in [Pids -> BOOLEAN]
    BY <1>2, DropMine DEF MineTypes, PlayerTypes
  <1>6. Becoming(Held, k)
    BY <1>1, <1>2, <1>4, <1>5, OneOff DEF ListInv
  <1> HIDE DEF k
  <1>7. \A q \in Pids : manul'[q] => manul[q]
    BY <1>4, <1>5
  <1>8. OneMine' /\ Held' = k
    BY <1>1, <1>4, <1>7, OneChanged
  <1> QED
    BY <1>1, <1>4, <1>5, <1>6, <1>8, ListKept

LEMMA StrokeKeeps ==
    ASSUME MineInv, NEW p \in Pids, Stroke(p)
    PROVE  OneMine' /\ ListInv'
  <1> USE DEF MineInv
  <1>1. manul[p] /\ loaded # 0
        /\ UNCHANGED <<bound, place, manul, hero, loaded, minedb, pending, updates, restarts>>
    BY DEF Stroke, MineTypes
  <1>2. Held = dcs[loaded]
    BY <1>1, OneHeld
  <1> DEFINE k == [Held EXCEPT !.left = @ - 1]
  <1>3. dcs' = [dcs EXCEPT ![loaded] = k]
    BY <1>2 DEF Stroke
  <1> HIDE DEF k
  <1>4. OneMine' /\ Held' = k
    BY <1>1, <1>3, OneChanged
  <1>5. Sound(k) /\ k.players = Held.players /\ k.cur = Held.cur
    BY HeldSound DEF k, Sound, MineData
  <1>6. Becoming(Held, k)
    BY <1>1, <1>5, SameList DEF ListInv
  <1> QED
    BY <1>1, <1>4, <1>5, <1>6, ListKept

LEMMA RecoveredKeeps ==
    ASSUME MineInv, NEW d \in DOMAIN dcs, Recovered(d)
    PROVE  OneMine' /\ ListInv'
  <1> USE DEF MineInv
  <1>1. UNCHANGED <<bound, place, manul, hero, loaded, minedb, pending, updates, restarts>>
    BY DEF Recovered
  <1>2. loaded # 0 /\ d = loaded
    <2>1. loaded \in Nat /\ loaded <= 1 /\ DOMAIN dcs = 1..loaded
      BY DEF OneMine, MineTypes, DataTypes
    <2> QED
      BY <2>1
  <1>3. Held = dcs[loaded]
    BY <1>2, OneHeld
  <1> DEFINE k == [Held EXCEPT !.recovering = FALSE]
  <1>4. dcs' = [dcs EXCEPT ![loaded] = k]
    BY <1>2, <1>3 DEF Recovered
  <1> HIDE DEF k
  <1>5. OneMine' /\ Held' = k
    BY <1>1, <1>2, <1>4, OneChanged
  <1>6. Sound(k) /\ k.players = Held.players /\ k.cur = Held.cur
    BY HeldSound DEF k, Sound, MineData
  <1>7. Becoming(Held, k)
    BY <1>1, <1>6, SameList DEF ListInv
  <1> QED
    BY <1>1, <1>2, <1>5, <1>6, <1>7, ListKept

LEMMA LeaveKeeps ==
    ASSUME MineInv, Patient, NEW p \in Pids, LeaveWorker(p)
    PROVE  OneMine' /\ ListInv'
  <1> USE DEF MineInv
  <1>1. /\ place' = [place EXCEPT ![p] = "away"]
        /\ manul' = [manul EXCEPT ![p] = FALSE]
        /\ \A h \in pending : h.p # p
        /\ pending' = {IF h.p = p THEN [h EXCEPT !.live = FALSE] ELSE h : h \in pending}
        /\ UNCHANGED <<bound, hero, loaded, updates, restarts>>
    BY DEF LeaveWorker
  <1>2. pending' = pending
    <2>1. \A h \in pending : (IF h.p = p THEN [h EXCEPT !.live = FALSE] ELSE h) = h
      BY <1>1
    <2> QED
      BY <1>1, <2>1
  <1>3. manul \in [Pids -> BOOLEAN] /\ place \in [Pids -> {"here", "near", "away"}]
    BY DEF MineTypes, PlayerTypes
  <1>4. (\A q \in Pids : manul'[q] => manul[q]) /\ ~manul'[p]
    BY <1>1, <1>3
  <1>5. Len(dcs') = Len(dcs) => OneMine'
    <2>1. \A q \in Pids : place'[q] = IF q = p THEN "away" ELSE place[q]
      BY <1>1, <1>3
    <2>2. \A q \in Pids : ~bound'[q] => place'[q] = "away"
      BY <1>1, <2>1 DEF OneMine
    <2>3. \A q \in Pids : place'[q] = "away" => ~manul'[q]
      BY <1>4, <2>1 DEF OneMine
    <2> SUFFICES ASSUME Len(dcs') = Len(dcs) PROVE OneMine'
      OBVIOUS
    <2>4. Len(dcs') = loaded' /\ loaded' <= 1
      BY <1>1 DEF OneMine
    <2>5. \A h \in pending' : /\ loaded' = 0 /\ h.got = minedb' /\ h.live
                              /\ place'[h.p] # "away"
                              /\ h.op \in {"stophero", "fetchhero"} => hero'[h.p].mining
                              /\ \A k \in pending' : h = k
      <3> SUFFICES ASSUME NEW h \in pending
                   PROVE  /\ loaded' = 0 /\ h.got = minedb' /\ h.live
                          /\ place'[h.p] # "away"
                          /\ h.op \in {"stophero", "fetchhero"} => hero'[h.p].mining
                          /\ \A k \in pending : h = k
        BY <1>2
      <3>1. loaded = 0 /\ h.p \in Pids /\ h.p # p
        BY <1>1 DEF OneMine, MineTypes, PendingTypes
      <3>2. minedb' = minedb
        BY <3>1 DEF LeaveWorker, MineTypes
      <3> QED
        BY <1>1, <2>1, <3>1, <3>2 DEF OneMine
    <2> QED
      BY <2>2, <2>3, <2>4, <2>5 DEF OneMine
  <1>6. CASE place[p] = "here" /\ manul[p] /\ In(dcs[loaded], p)
    <2> DEFINE k == Drop(Held, p)
    <2>1. loaded # 0 /\ Held = dcs[loaded] /\ loaded \in DOMAIN dcs /\ Sound(Held)
      BY <1>6, OneHeld, HeldSound DEF MineTypes
    <2>2. dcs' = [dcs EXCEPT ![loaded] = k] /\ minedb' \in {k, minedb}
      BY <1>6, <2>1 DEF LeaveWorker
    <2>3. Sound(k)
      BY <2>1, DropMine
    <2>4. Becoming(Held, k)
      BY <1>1, <1>3, <1>6, <2>1, <2>2, OneOff DEF ListInv
    <2> HIDE DEF k
    <2>5. Len(dcs') = Len(dcs) /\ dcs'[loaded] = k
      BY <1>1, <2>1, <2>2, <2>3, ChangedData DEF MineTypes
    <2>6. Held' = k
      BY <1>1, <2>1, <2>5 DEF Held
    <2> QED
      BY <1>1, <1>5, <2>1, <2>2, <2>3, <2>4, <2>5, <2>6, ListKept
  <1>7. CASE ~(place[p] = "here" /\ manul[p] /\ In(dcs[loaded], p))
    <2>1. UNCHANGED <<dcs, minedb>>
      BY <1>7 DEF LeaveWorker
    <2>2. Held' = Held /\ Sound(Held)
      BY <1>1, <2>1, HeldSound DEF Held
    <2>3. Becoming(Held, Held)
      BY <1>1, <1>4, <2>1, <2>2, SameList DEF ListInv
    <2>4. CASE loaded # 0
      BY <1>1, <1>5, <2>1, <2>2, <2>3, <2>4, ListKept
    <2>5. CASE loaded = 0
      <3>1. \A q \in Pids : ~manul[q]
        BY <2>5 DEF MineTypes
      <3>2. manul' = manul
        BY <1>1, <1>3, <3>1
      <3> QED
        BY <1>1, <1>5, <2>1, <3>2, ListSame
    <2> QED
      BY <2>4, <2>5
  <1> QED
    BY <1>6, <1>7

LEMMA SameKinds ==
    ASSUME NEW m, Sound(m), NEW k, Sound(k), k.cur = m.cur, Counted(m),
           Agrees(m, manul, hero), hero \in [Pids -> HeroRecords],
           \A p \in Pids : /\ k.players[p].kind = m.players[p].kind
                           /\ k.players[p].ap + k.players[p].out
                                  = m.players[p].ap + m.players[p].out
    PROVE  /\ Counted(k) /\ Agrees(k, manul, hero)
           /\ Earned(m, hero) => Earned(k, hero)
           /\ \A p : Left(m, manul, p) => Left(k, manul, p)
  <1>1. Counted(k)
    BY SameCounted
  <1>2. Agrees(k, manul, hero)
    BY DEF Agrees
  <1>3. Earned(m, hero) => Earned(k, hero)
    BY DEF Earned
  <1>4. \A p : Left(m, manul, p) => Left(k, manul, p)
    BY DEF Left
  <1> QED
    BY <1>1, <1>2, <1>3, <1>4

\* What one leg of update n leaves: the mine k, and what it awaits.
Updated(n, d, m, k, u) ==
    /\ Sound(k) /\ dcs' = [dcs EXCEPT ![d] = k] /\ minedb' \in {k, minedb}
    /\ Counted(k) /\ Agrees(k, manul, hero) /\ Called(minedb', hero)
    /\ Earned(m, hero) => Earned(k, hero)
    /\ updates' = [updates EXCEPT ![n] = u]
    /\ u # NoUpdate => /\ u.dc = d
                       /\ \A p \in u.rmv : Left(k, manul, p)
                       /\ ~u.online => Left(k, manul, u.ask)

\* What an update takes off are hand miners whose mark is gone.
LEMMA GoOnKeeps ==
    ASSUME MineTypes, OneMine, NEW n, NEW d, NEW m, Sound(m), NEW todo, todo \subseteq Pids,
           NEW rmv, rmv \subseteq Pids, GoOn(n, d, m, todo, rmv),
           Counted(m), Agrees(m, manul, hero), Called(minedb, hero),
           \A p \in rmv : Left(m, manul, p)
    PROVE  \E k, u : Updated(n, d, m, k, u)
  <1> DEFINE s == Serve(m, todo)
             hand == ByHandIn(m, todo)
  <1>1. /\ Sound(s) /\ s.cur = m.cur
        /\ \A p \in Pids : /\ s.players[p].kind = m.players[p].kind
                           /\ s.players[p].ap + s.players[p].out
                                  = m.players[p].ap + m.players[p].out
    BY ServeMine
  <1>2. hero \in [Pids -> HeroRecords]
    BY DEF MineTypes, PlayerTypes, HeroRecords
  <1>3. /\ Counted(s) /\ Agrees(s, manul, hero)
        /\ Earned(m, hero) => Earned(s, hero)
        /\ \A p : Left(m, manul, p) => Left(s, manul, p)
    BY <1>1, <1>2, SameKinds
  <1>4. CASE Exhausts(m, todo) \/ hand = {}
    <2> DEFINE k == Kick(s, rmv)
    <2>1. dcs' = [dcs EXCEPT ![d] = k] /\ minedb' = k
          /\ updates' = [updates EXCEPT ![n] = NoUpdate]
      BY <1>4 DEF GoOn
    <2> HIDE DEF s
    <2>2. \A p \in rmv : Left(s, manul, p)
      BY <1>3
    <2>3. rmv \subseteq Miners(s)
      BY <2>2 DEF Left, Miners, In
    <2>4. Sound(k) /\ Counted(k)
          /\ \A p \in Pids : k.players[p] = IF p \in rmv THEN Absent ELSE s.players[p]
      BY <1>1, <1>3, <2>3, KickMine, KickCounted
    <2> HIDE DEF k
    <2>5. Agrees(k, manul, hero)
      <3> SUFFICES ASSUME NEW p \in Pids
                   PROVE  /\ manul[p] => k.players[p].kind = "manul"
                          /\ hero[p].mining => k.players[p].kind = "hero"
        BY DEF Agrees
      <3>1. (manul[p] => s.players[p].kind = "manul")
            /\ (hero[p].mining => s.players[p].kind = "hero")
        BY <1>3 DEF Agrees
      <3>2. p \in rmv => ~manul[p] /\ s.players[p].kind = "manul"
        BY <2>2 DEF Left
      <3>3. p \notin rmv => k.players[p] = s.players[p]
        BY <2>4
      <3> QED
        BY <3>1, <3>2, <3>3
    <2>6. Called(k, hero)
      BY <2>4, <2>5, CalledBy
    <2>7. Earned(s, hero) => Earned(k, hero)
      BY <2>4, Entries DEF Earned
    <2>8. Updated(n, d, m, k, NoUpdate)
      BY <1>3, <2>1, <2>4, <2>5, <2>6, <2>7 DEF Updated
    <2> QED
      BY <2>8
  <1>5. CASE ~(Exhausts(m, todo) \/ hand = {})
    <2> DEFINE q == Min(hand)
               u == [dc |-> d, todo |-> {p \in todo : p > q}, rmv |-> rmv,
                     ask |-> q, online |-> bound[q]]
    <2>1. dcs' = [dcs EXCEPT ![d] = s] /\ minedb' = minedb
          /\ updates' = [updates EXCEPT ![n] = u]
      BY <1>5 DEF GoOn
    <2>2. q \in Pids /\ m.players[q].kind = "manul"
      BY <1>5, MinersByHand
    <2> HIDE DEF q, s
    <2>3. u.dc = d /\ u.rmv = rmv /\ u.ask = q /\ (u.online <=> bound[q])
      <3>1. u.dc = d /\ u.rmv = rmv /\ u.ask = q
        OBVIOUS
      <3>2. u.online = bound[q]
        OBVIOUS
      <3> QED
        BY <3>1, <3>2
    <2> HIDE DEF u
    <2>4. ~bound[q] => ~manul[q]
      BY <2>2 DEF OneMine
    <2>5. ~u.online => Left(m, manul, u.ask)
      BY <2>2, <2>3, <2>4 DEF Left
    <2>6. \A p \in u.rmv : Left(m, manul, p)
      BY <2>3
    <2>7. Updated(n, d, m, s, u)
      BY <1>1, <1>3, <2>1, <2>3, <2>5, <2>6 DEF Updated
    <2> QED
      BY <2>7
  <1> QED
    BY <1>4, <1>5

LEMMA UpdateStepKeeps ==
    ASSUME MineInv, MaxUpdates = 1, loaded # 0, NEW m, Sound(m),
           m.players = Held.players, m.cur = Held.cur,
           NEW todo, todo \subseteq Pids, NEW rmv, rmv \subseteq Pids,
           \A p \in rmv : Left(Held, manul, p),
           GoOn(1, loaded, m, todo, rmv),
           UNCHANGED <<bound, place, manul, hero, loaded, pending, restarts>>
    PROVE  OneMine' /\ ListInv'
  <1> USE DEF MineInv
  <1>1. Counted(m) /\ Agrees(m, manul, hero) /\ Called(minedb, hero)
    BY SameCounted DEF ListInv, Agrees
  <1>2. \A p \in rmv : Left(m, manul, p)
    BY DEF Left
  <1>3. \E k, u : Updated(1, loaded, m, k, u)
    BY <1>1, <1>2, GoOnKeeps
  <1>4. PICK k, u : /\ Sound(k) /\ dcs' = [dcs EXCEPT ![loaded] = k] /\ minedb' \in {k, minedb}
                    /\ Counted(k) /\ Agrees(k, manul, hero) /\ Called(minedb', hero)
                    /\ Earned(m, hero) => Earned(k, hero)
                    /\ updates' = [updates EXCEPT ![1] = u]
                    /\ u # NoUpdate => /\ u.dc = loaded
                                       /\ \A p \in u.rmv : Left(k, manul, p)
                                       /\ ~u.online => Left(k, manul, u.ask)
    BY <1>3 DEF Updated
  <1>5. updates'[1] = u
    <2>1. updates = [n \in 1..1 |-> updates[n]]
      BY DEF MineTypes, UpdateTypes
    <2> QED
      BY <1>4, <2>1
  <1>6. OneMine' /\ Held' = k
    BY <1>4, OneChanged
  <1>7. minedb' # NoMine => Counted(minedb')
    BY <1>4 DEF ListInv
  <1>8. restarts' = 0 => Earned(Held', hero')
    BY <1>4, <1>6 DEF ListInv, Earned
  <1>9. updates'[1] # NoUpdate =>
            /\ updates'[1].dc = loaded'
            /\ \A p \in updates'[1].rmv : Left(Held', manul', p)
            /\ ~updates'[1].online => Left(Held', manul', updates'[1].ask)
    BY <1>4, <1>5, <1>6
  <1>10. ListInv'
    BY <1>4, <1>6, <1>7, <1>8, <1>9 DEF ListInv
  <1> QED
    BY <1>6, <1>10

LEMMA UpdateKeeps ==
    ASSUME MineInv, MaxUpdates = 1, Update(1)
    PROVE  OneMine' /\ ListInv'
  <1> USE DEF MineInv
  <1>1. /\ loaded \in DOMAIN dcs /\ Sound(dcs[loaded])
        /\ GoOn(1, loaded, Refilled(dcs[loaded]), Miners(dcs[loaded]), {})
        /\ UNCHANGED <<bound, place, manul, hero, loaded, pending, restarts>>
    BY UpdateBegins
  <1>2. loaded # 0
    BY DEF Update
  <1>3. Held = dcs[loaded]
    BY <1>2, OneHeld
  <1> DEFINE m == Refilled(dcs[loaded])
  <1>4. Sound(m) /\ m.players = Held.players /\ m.cur = Held.cur
    BY <1>1, <1>3, RefilledMine
  <1>5. Miners(dcs[loaded]) \subseteq Pids
    BY DEF Miners
  <1> HIDE DEF m
  <1> QED
    BY <1>1, <1>2, <1>4, <1>5, UpdateStepKeeps DEF m

LEMMA UpdateReadKeeps ==
    ASSUME MineInv, MaxUpdates = 1, UpdateRead(1)
    PROVE  OneMine' /\ ListInv'
  <1> USE DEF MineInv
  <1> DEFINE u == updates[1]
             rmv == IF u.online THEN u.rmv ELSE u.rmv \cup {u.ask}
  <1>1. /\ u # NoUpdate /\ u \in UpdateType
        /\ u.dc \in DOMAIN dcs /\ Sound(dcs[u.dc])
        /\ u.todo \subseteq Pids /\ rmv \subseteq Pids
        /\ GoOn(1, u.dc, dcs[u.dc], u.todo, rmv)
        /\ UNCHANGED <<bound, place, manul, hero, loaded, pending, restarts>>
    BY UpdateGoesOn
  <1>2. /\ u.dc = loaded
        /\ \A p \in u.rmv : Left(Held, manul, p)
        /\ ~u.online => Left(Held, manul, u.ask)
    BY <1>1 DEF ListInv
  <1>3. \A p \in rmv : Left(Held, manul, p)
    BY <1>2
  <1>4. loaded # 0
    <2>1. loaded \in 1..Len(dcs)
      BY <1>1, <1>2 DEF MineTypes, DataTypes
    <2> QED
      BY <2>1
  <1>5. Held = dcs[loaded]
    BY <1>4, OneHeld
  <1> HIDE DEF u, rmv
  <1> QED
    BY <1>1, <1>2, <1>3, <1>4, <1>5, UpdateStepKeeps

LEMMA MoveKeeps ==
    ASSUME MineInv, NEW p \in Pids, ChangeMap(p) \/ EnterWorker(p) \/ LogIn(p) \/ LogOut(p)
    PROVE  OneMine' /\ ListInv'
  <1> USE DEF MineInv
  <1>1. UNCHANGED <<manul, hero, dcs, loaded, minedb, pending, updates, restarts>>
    BY DEF ChangeMap, EnterWorker, LogIn, LogOut, mine
  <1>2. place \in [Pids -> {"here", "near", "away"}] /\ bound \in [Pids -> BOOLEAN]
    BY DEF MineTypes, PlayerTypes
  <1>3. \A q \in Pids : place'[q] = "away" => place[q] = "away"
    BY <1>2 DEF ChangeMap, EnterWorker, LogIn, LogOut
  <1>4. \A q \in Pids : ~bound'[q] => place'[q] = "away"
    <2>1. CASE ChangeMap(p)
      BY <1>2, <2>1 DEF OneMine, ChangeMap
    <2>2. CASE EnterWorker(p)
      BY <1>2, <2>2 DEF OneMine, EnterWorker
    <2>3. CASE LogIn(p)
      <3>1. bound' = [bound EXCEPT ![p] = TRUE] /\ place' = place
        BY <2>3 DEF LogIn
      <3>2. \A q \in Pids : ~bound'[q] => ~bound[q]
        BY <1>2, <3>1
      <3> QED
        BY <3>1, <3>2 DEF OneMine
    <2>4. CASE LogOut(p)
      <3>1. bound' = [bound EXCEPT ![p] = FALSE] /\ place' = place /\ place[p] = "away"
        BY <2>4 DEF LogOut
      <3>2. \A q \in Pids : ~bound'[q] => ~bound[q] \/ q = p
        BY <1>2, <3>1
      <3> QED
        BY <3>1, <3>2 DEF OneMine
    <2> QED
      BY <2>1, <2>2, <2>3, <2>4
  <1>5. \A h \in pending : h.p \in Pids
    BY DEF MineTypes, PendingTypes
  <1>6. OneMine'
    <2>1. \A q \in Pids : place'[q] = "away" => ~manul'[q]
      BY <1>1, <1>3 DEF OneMine
    <2>2. \A h \in pending' : /\ loaded' = 0 /\ h.got = minedb' /\ h.live
                              /\ place'[h.p] # "away"
                              /\ h.op \in {"stophero", "fetchhero"} => hero'[h.p].mining
                              /\ \A k \in pending' : h = k
      BY <1>1, <1>3, <1>5 DEF OneMine
    <2>3. Len(dcs') = loaded' /\ loaded' <= 1
      BY <1>1 DEF OneMine
    <2> QED
      BY <1>4, <2>1, <2>2, <2>3 DEF OneMine
  <1>7. ListInv'
    BY <1>1, ListSame
  <1> QED
    BY <1>6, <1>7

LEMMA RestartKeeps ==
    ASSUME MineInv, Restart
    PROVE  OneMine' /\ ListInv'
  <1> USE DEF MineInv
  <1>1. /\ restarts' = restarts + 1 /\ dcs' = <<>> /\ loaded' = 0 /\ pending' = {}
        /\ UNCHANGED <<hero, minedb>>
        /\ \A p \in Pids : ~bound'[p] /\ place'[p] = "away" /\ ~manul'[p]
    BY DEF Restart
  <1>2. updates'[1] = NoUpdate
    BY MineAssumption DEF Restart
  <1>3. OneMine'
    BY <1>1 DEF OneMine
  <1>4. Held' = Read(minedb)
    BY <1>1 DEF Held, Read
  <1>5. Counted(Read(minedb)) /\ (minedb # NoMine => Counted(minedb))
    BY FreshCounted DEF ListInv, Read
  <1>6. Agrees(Held', manul', hero')
    BY <1>1, <1>4 DEF Agrees, ListInv, Called, Read
  <1>7. restarts' # 0
    BY <1>1 DEF MineTypes
  <1>8. Called(minedb', hero')
    BY <1>1 DEF ListInv
  <1> QED
    BY <1>1, <1>2, <1>3, <1>4, <1>5, <1>6, <1>7, <1>8 DEF ListInv

LEMMA MineInitInv == MineInit => MineInv
  <1> SUFFICES ASSUME MineInit PROVE MineInv
    OBVIOUS
  <1>1. MineTypes
    BY InitTypes
  <1>2. /\ pending = {} /\ updates[1] = NoUpdate
        /\ \A p \in Pids : ~manul[p] /\ ~hero[p].mining /\ (~bound[p] => place[p] = "away")
    BY MineAssumption DEF MineInit
  <1>3. /\ Len(dcs) = loaded /\ loaded <= 1 /\ Held = Fresh
        /\ (loaded = 0 => minedb = NoMine) /\ minedb \in {NoMine, Fresh}
    <2>1. CASE Cold
      BY <2>1 DEF MineInit, Held, Read
    <2>2. CASE ~Cold
      BY <2>2 DEF MineInit, Held
    <2> QED
      BY <2>1, <2>2
  <1>4. OneMine
    BY <1>2, <1>3 DEF OneMine
  <1>5. Earned(Fresh, hero)
    BY FreshSound, Entries DEF Earned
  <1>6. Agrees(Held, manul, hero) /\ Called(minedb, hero)
    BY <1>2 DEF Agrees, Called
  <1>7. ListInv
    BY <1>2, <1>3, <1>5, <1>6, FreshCounted DEF ListInv
  <1> QED
    BY <1>1, <1>4, <1>7 DEF MineInv

LEMMA MineStepInv ==
    ASSUME Patient, MaxUses <= 1, MaxUpdates = 1
    PROVE  MineInv /\ [MineNext]_mineVars => MineInv'
  <1> SUFFICES ASSUME MineInv, [MineNext]_mineVars
               PROVE  OneMine' /\ ListInv'
    BY MineStepTypes DEF MineInv
  <1>1. ASSUME NEW p \in Pids, NEW op \in Ops, Handle(op, p) PROVE OneMine' /\ ListInv'
    BY <1>1, HandleKeeps
  <1>2. ASSUME NEW p \in Pids, NEW op \in Ops, FirstUse(op, p) PROVE OneMine' /\ ListInv'
    BY <1>2, FirstUseKeeps
  <1>3. ASSUME NEW p \in Pids, StopManul(p) PROVE OneMine' /\ ListInv'
    BY <1>3, StopManulKeeps
  <1>4. ASSUME NEW p \in Pids, Stroke(p) PROVE OneMine' /\ ListInv'
    BY <1>4, StrokeKeeps
  <1>5. ASSUME NEW p \in Pids, ChangeMap(p) \/ EnterWorker(p) \/ LogIn(p) \/ LogOut(p)
        PROVE  OneMine' /\ ListInv'
    BY <1>5, MoveKeeps
  <1>6. ASSUME NEW p \in Pids, LeaveWorker(p) PROVE OneMine' /\ ListInv'
    BY <1>6, LeaveKeeps
  <1>7. ASSUME NEW h \in pending, FirstUseRead(h) PROVE OneMine' /\ ListInv'
    BY <1>7, FirstUseReadKeeps
  <1>8. ASSUME NEW n \in 1..MaxUpdates, Update(n) \/ UpdateRead(n) PROVE OneMine' /\ ListInv'
    <2>1. n = 1
      OBVIOUS
    <2> QED
      BY <1>8, <2>1, UpdateKeeps, UpdateReadKeeps
  <1>9. ASSUME NEW d \in DOMAIN dcs, Recovered(d) PROVE OneMine' /\ ListInv'
    BY <1>9, RecoveredKeeps
  <1>10. CASE Restart
    BY <1>10, RestartKeeps
  <1>11. CASE UNCHANGED mineVars
    <2>1. UNCHANGED <<bound, place, manul, hero, dcs, loaded, minedb, pending, updates, restarts>>
      BY <1>11 DEF mineVars
    <2>2. ListInv'
      BY <2>1, ListSame DEF MineInv
    <2> QED
      BY <2>1, <2>2 DEF MineInv, OneMine
  <1> QED
    BY <1>1, <1>2, <1>3, <1>4, <1>5, <1>6, <1>7, <1>8, <1>9, <1>10, <1>11
    DEF MineNext, Player

LEMMA MineInvariance ==
    ASSUME Patient, MaxUses <= 1, MaxUpdates = 1
    PROVE  MineSpec => []MineInv
  <1>1. MineInv /\ [MineNext]_mineVars => MineInv'
    BY MineStepInv
  <1> QED
    BY <1>1, MineInitInv, PTL DEF MineSpec

LEMMA OnlyComponent ==
    ASSUME MineInv
    PROVE  \A d \in DOMAIN dcs : loaded # 0 /\ d = loaded /\ Held = dcs[d]
  <1> SUFFICES ASSUME NEW d \in DOMAIN dcs
               PROVE  loaded # 0 /\ d = loaded /\ Held = dcs[d]
    OBVIOUS
  <1>1. loaded \in Nat /\ loaded <= 1 /\ DOMAIN dcs = 1..loaded
    BY DEF MineInv, OneMine, MineTypes, DataTypes
  <1>2. loaded # 0 /\ d = loaded
    BY <1>1
  <1> QED
    BY <1>2 DEF Held

(***************************************************************************)
(* The number of miners that mine_msgs.ts and the update keep by hand is   *)
(* that of the list, and within maxminner, over any number of updates,     *)
(* restarts, players.  Who leaves while it awaits the first read, a second *)
(* first use and a second update are left out.                             *)
(***************************************************************************)
THEOREM CountIsRight ==
    ASSUME Patient, MaxUses <= 1, MaxUpdates = 1
    PROVE  MineSpec => []CountMatches
  <1>1. MineInv => CountMatches
    BY OnlyComponent DEF MineInv, ListInv, Counted, CountMatches
  <1> QED
    BY <1>1, MineInvariance, PTL

(***************************************************************************)
(* Marks and list: a hand miner is found where it mines, a hero can be     *)
(* called back, and until a restart nobody is listed as a hero that could  *)
(* not be (mine_msgs.ts:138, 196, 404).                                    *)
(***************************************************************************)
THEOREM MarksAreListed ==
    ASSUME Patient, MaxUses <= 1, MaxUpdates = 1
    PROVE  MineSpec => []MarkedIsListed
  <1>1. MineInv => MarkedIsListed
    <2> SUFFICES ASSUME MineInv PROVE MarkedIsListed
      OBVIOUS
    <2>1. loaded # 0 => Held = dcs[loaded]
      BY DEF Held
    <2>2. \A p \in Pids : manul[p] => loaded # 0
      BY DEF MineInv, MineTypes
    <2>3. Agrees(Held, manul, hero) /\ (restarts = 0 => Earned(Held, hero))
      BY DEF MineInv, ListInv
    <2> QED
      BY <2>1, <2>2, <2>3 DEF MarkedIsListed, Agrees, Earned
  <1> QED
    BY <1>1, MineInvariance, PTL

(***************************************************************************)
(* What a hero brings in is paid for with its points, until a restart      *)
(* (game_map.ts:273, mine_msgs.ts:404).                                    *)
(***************************************************************************)
THEOREM OutputHasAPrice ==
    ASSUME Patient, MaxUses <= 1, MaxUpdates = 1
    PROVE  MineSpec => []OutputIsPaid
  <1>1. MineInv => OutputIsPaid
    BY DEF MineInv, ListInv, Earned, Held, OutputIsPaid
  <1> QED
    BY <1>1, MineInvariance, PTL
=============================================================================
