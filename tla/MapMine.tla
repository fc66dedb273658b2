------------------------------- MODULE MapMine -------------------------------
(***************************************************************************)
(* One mine of a map of a world worker: players mine it by hand or send a  *)
(* hero, and the map's update gives the heroes their output and throws out *)
(* the hand miners that are no longer online.                              *)
(*                                                                         *)
(* The mine's data is one record, read from Redis at the first use and     *)
(* kept in the map.  Once it is there a handler runs without a pause; the  *)
(* first uses await the read, and an update awaits one read per hand       *)
(* miner, while other handlers run.                                        *)
(***************************************************************************)
EXTENDS Integers, Sequences, FiniteSets, FiniteSetsExt

CONSTANTS
    Pids,        \* players by id, the order in which for-in visits them
    MaxMiner,    \* mine config: maxminner
    MaxOutput,   \* mine config: maxoutputcount
    InitAct,     \* game config: init_actpoint, of a hero
    NoMine,      \* the mine is not in Redis yet
    Cold,        \* the world worker has just started, the mine is not loaded
    Patient,     \* a player does not leave the worker while it awaits an answer
    MaxUses,     \* first uses that await the data at once; 1 if they do not meet
    MaxUpdates,  \* updates under way at once; 1 if replies take less than minning_cds
    StrokeAt,    \* bound: the counts left at which hand miners strike
    MaxRestarts  \* bound: restarts of the server

\* minedata.players: what an entry is, its action points and unfetched output
Kinds == {"none", "manul", "hero"}
Entry == [kind : Kinds, ap : 0..InitAct, out : 0..InitAct]
MineData == [left : Int, recovering : BOOLEAN, cur : Int, players : [Pids -> Entry]]

ASSUME MineAssumption ==
    /\ NoMine \notin MineData
    /\ Pids \subseteq Nat /\ IsFiniteSet(Pids)
    /\ MaxMiner \in Nat \ {0} /\ MaxOutput \in Nat \ {0} /\ InitAct \in Nat \ {0}
    /\ Cold \in BOOLEAN /\ Patient \in BOOLEAN
    /\ MaxUses \in Nat /\ MaxUpdates \in Nat \ {0} /\ StrokeAt \subseteq Int /\ MaxRestarts \in Nat

VARIABLES
    bound,     \* __bindsid_ of the player's user exists: it is online
    place,     \* "here" on this map, "near" on another map of the worker, "away"
    manul,     \* runtimedata.manulmineid names this mine
    hero,      \* the player's hero, written through to Redis
    dcs,       \* the data components created for this mine
    loaded,    \* _map_mine_datas: the one the map holds, 0 if none
    minedb,    \* Redis world db: mapmine_<mineid>
    pending,   \* handlers that await the first read
    updates,   \* _update_mine callbacks that await a binding
    restarts   \* restarts so far

mineVars == <<bound, place, manul, hero, dcs, loaded, minedb, pending, updates, restarts>>
mine == <<dcs, loaded, minedb, pending, updates>>

Absent == [kind |-> "none", ap |-> 0, out |-> 0]
ByHand == [kind |-> "manul", ap |-> 0, out |-> 0]
OfHero(ap) == [kind |-> "hero", ap |-> ap, out |-> 0]
In(m, p) == m.players[p].kind # "none"
Miners(m) == {p \in Pids : In(m, p)}

\* recovering: recovertms is still to come
Fresh == [left |-> MaxOutput, recovering |-> FALSE, cur |-> 0,
          players |-> [p \in Pids |-> Absent]]

NoUpdate == [dc |-> 0, todo |-> {}, rmv |-> {}, ask |-> 0, online |-> FALSE]

\* _recover_actpoint: what they can be by now
ActPoints(ap) == ap..InitAct

Put(m, p, e) == [m EXCEPT !.players = [@ EXCEPT ![p] = e], !.cur = @ + 1]
Drop(m, p) == [m EXCEPT !.players = [@ EXCEPT ![p] = Absent], !.cur = @ - 1]

MineInit ==
    /\ bound \in [Pids -> BOOLEAN]
    /\ place \in [Pids -> {"here", "away"}]
    /\ \A p \in Pids : ~bound[p] => place[p] = "away"
    /\ manul = [p \in Pids |-> FALSE]
    /\ hero = [p \in Pids |-> [mining |-> FALSE, ap |-> InitAct]]
    /\ dcs = IF Cold THEN <<>> ELSE <<Fresh>>
    /\ loaded = IF Cold THEN 0 ELSE 1
    /\ minedb = IF Cold THEN NoMine ELSE Fresh
    /\ pending = {}
    /\ updates = [i \in 1..MaxUpdates |-> NoUpdate]
    /\ restarts = 0

-----------------------------------------------------------------------------
(***************************************************************************)
(* What a handler does once it has the data component, in a context c: the *)
(* player, the contents of the components, the index of the one it got,    *)
(* what Redis holds, and whether the player object is still the one the    *)
(* handler began with.  What is set on an object that has left the worker  *)
(* is lost, except that the new one may yet load the hero it flushed.      *)
(***************************************************************************)
M(c) == c.ms[c.i]
Miner(c) == M(c).players[c.p]

Keep(c, m, flushed) ==
    /\ dcs' = [c.ms EXCEPT ![c.i] = m]
    /\ minedb' = IF flushed THEN m ELSE c.db

MarkHero(c, h) ==
    \/ hero' = [hero EXCEPT ![c.p] = h]
    \/ ~c.live /\ UNCHANGED hero

Room(c) == M(c).cur < MaxMiner

\* mine_start_manulmine: nothing is flushed
StartManul(c) ==
    /\ Room(c) /\ ~In(M(c), c.p)
    /\ Keep(c, Put(M(c), c.p, ByHand), FALSE)
    /\ manul' = IF c.live THEN [manul EXCEPT ![c.p] = TRUE] ELSE manul
    /\ UNCHANGED hero

\* the hero's points recover, it is marked and sent
Send(c) ==
    /\ \E ap \in ActPoints(hero[c.p].ap) :
          /\ ap >= 1
          /\ Keep(c, Put(M(c), c.p, OfHero(ap)), TRUE)
          /\ MarkHero(c, [mining |-> TRUE, ap |-> ap])
    /\ UNCHANGED manul

\* Mutant of StartHero: the player may be in the mine.
StartHero_Twice(c) == Room(c) /\ ~hero[c.p].mining /\ Send(c)

StartHero(c) == Room(c) /\ ~In(M(c), c.p) /\ ~hero[c.p].mining /\ Send(c)

StopHero(c) ==
    /\ In(M(c), c.p)
    /\ LET m == Drop(M(c), c.p) IN Keep(c, m, m.cur <= 0)
    /\ MarkHero(c, [mining |-> FALSE, ap |-> Miner(c).ap])
    /\ UNCHANGED manul

FetchHero(c) ==
    /\ Miner(c).out > 0
    /\ Keep(c, [M(c) EXCEPT !.players[c.p].out = 0], TRUE)
    /\ UNCHANGED <<manul, hero>>

\* An error, or nothing to do: too far from the mine, no port to store in, ...
Refused(op, c) ==
    /\ op = "stophero" => ~In(M(c), c.p)
    /\ Keep(c, M(c), FALSE)
    /\ UNCHANGED <<manul, hero>>

Run(op, c) ==
    \/ op = "start" /\ StartManul(c)
    \/ op = "starthero" /\ StartHero(c)
    \/ op = "stophero" /\ StopHero(c)
    \/ op = "fetchhero" /\ FetchHero(c)
    \/ Refused(op, c)

-----------------------------------------------------------------------------
\* Conditions a handler checks before it asks for the mine's data.
Admitted(op, p) ==
    /\ place[p] = "here"
    /\ op = "start" => ~manul[p]
    /\ op \in {"stophero", "fetchhero"} => hero[p].mining

Ops == {"info", "start", "starthero", "stophero", "fetchhero"}

\* get_mapmine_datacomp of a mine the map holds: the handler goes straight on ...
Handle(op, p) ==
    /\ Admitted(op, p)
    /\ loaded # 0
    /\ Run(op, [p |-> p, live |-> TRUE, ms |-> dcs, i |-> loaded, db |-> minedb])
    /\ UNCHANGED <<bound, place, loaded, pending, updates, restarts>>

\* ... else it makes a component of its own and awaits the data,
FirstUse(op, p) ==
    /\ Admitted(op, p)
    /\ loaded = 0
    /\ Cardinality(pending) < MaxUses
    /\ pending' = pending \cup {[op |-> op, p |-> p, got |-> minedb, live |-> TRUE]}
    /\ UNCHANGED <<bound, place, manul, hero, dcs, loaded, minedb, updates, restarts>>

\* which it puts in the map, whatever is there by now.
FirstUseRead(h) ==
    LET m == IF h.got = NoMine THEN Fresh ELSE h.got
        i == Len(dcs) + 1
    IN  /\ pending' = pending \ {h}
        /\ loaded' = i
        /\ Run(h.op, [p |-> h.p, live |-> h.live, ms |-> Append(dcs, m), i |-> i,
                      db |-> IF h.got = NoMine THEN m ELSE minedb])
        /\ UNCHANGED <<bound, place, updates, restarts>>

\* mine_stop_manulmine, and mine_beh's fin: the player takes itself off the mine
TakeOff(p) ==
    IF manul[p] /\ In(dcs[loaded], p)
    THEN LET m == Drop(dcs[loaded], p)
         IN  /\ dcs' = [dcs EXCEPT ![loaded] = m]
             /\ minedb' = IF m.cur <= 0 THEN m ELSE minedb
             /\ manul' = [manul EXCEPT ![p] = FALSE]
    ELSE UNCHANGED <<dcs, minedb, manul>>

StopManul(p) ==
    /\ place[p] = "here" /\ manul[p]
    /\ TakeOff(p)
    /\ UNCHANGED <<bound, place, hero, loaded, pending, updates, restarts>>

\* mine_manulmine: whatever count is left
Stroke(p) ==
    /\ place[p] = "here" /\ manul[p] /\ In(dcs[loaded], p)
    /\ dcs[loaded].left \in StrokeAt
    /\ dcs' = [dcs EXCEPT ![loaded].left = @ - 1]
    /\ UNCHANGED <<bound, place, manul, hero, loaded, minedb, pending, updates, restarts>>

-----------------------------------------------------------------------------
(***************************************************************************)
(* _update_mine.  The loop runs over the players in order: up to the next  *)
(* hand miner, whose binding it awaits, or to the end; it breaks off when  *)
(* the heroes have taken what was left.                                    *)
(***************************************************************************)
Ahead(m, todo) == {p \in todo : In(m, p)}
ByHandIn(m, todo) == {p \in Ahead(m, todo) : m.players[p].kind = "manul"}
\* Mutant of Working: a hero without points works on.
Working_NoPoints(m, todo) ==
    {p \in Ahead(m, todo) :
        /\ m.players[p].kind = "hero"
        /\ \A q \in ByHandIn(m, todo) : p < q}

Working(m, todo) ==
    {p \in Ahead(m, todo) :
        /\ m.players[p].kind = "hero" /\ m.players[p].ap >= 1
        /\ \A q \in ByHandIn(m, todo) : p < q}
\* countleft is looked at after it is decremented: one output at least
Quota(m) == IF m.left >= 1 THEN m.left ELSE 1
Exhausts(m, todo) == Cardinality(Working(m, todo)) >= Quota(m)
Served(m, todo) ==
    {p \in Working(m, todo) :
        Cardinality({q \in Working(m, todo) : q <= p}) <= Quota(m)}

\* Mutant of Produced: the output costs no point.
Produced_Free(e) == [e EXCEPT !.out = @ + 1]

\* A hero's point is spent on an output.
Produced(e) == [e EXCEPT !.ap = @ - 1, !.out = @ + 1]

Serve(m, todo) ==
    [m EXCEPT !.players = [p \in Pids |-> IF p \in Served(m, todo) THEN Produced(@[p])
                                                                    ELSE @[p]],
              !.left = IF Exhausts(m, todo) THEN 0 ELSE @ - Cardinality(Served(m, todo)),
              !.recovering = @ \/ Exhausts(m, todo)]

\* Mutant of Kick: the number of miners is left alone.
Kick_Uncounted(m, rmv) ==
    [m EXCEPT !.players = [p \in Pids |-> IF p \in rmv THEN Absent ELSE @[p]]]

Kick(m, rmv) ==
    [m EXCEPT !.players = [p \in Pids |-> IF p \in rmv THEN Absent ELSE @[p]],
              !.cur = @ - Cardinality(rmv)]

\* Update number n goes on with component d, of contents m.
GoOn(n, d, m, todo, rmv) ==
    LET m2 == Serve(m, todo)
        hand == ByHandIn(m, todo)
    IN  IF Exhausts(m, todo) \/ hand = {}
        THEN /\ dcs' = [dcs EXCEPT ![d] = Kick(m2, rmv)]
             /\ minedb' = Kick(m2, rmv)
             /\ updates' = [updates EXCEPT ![n] = NoUpdate]
        ELSE LET q == Min(hand)
             IN  /\ dcs' = [dcs EXCEPT ![d] = m2]
                 /\ updates' = [updates EXCEPT ![n] =
                        [dc |-> d, todo |-> {p \in todo : p > q}, rmv |-> rmv,
                         ask |-> q, online |-> bound[q]]]
                 /\ UNCHANGED minedb

\* Every minning_cds seconds, if there are miners and something is left or the
\* time to recover is over.
Update(n) ==
    /\ updates[n] = NoUpdate
    /\ loaded # 0
    /\ LET m == dcs[loaded] IN
          /\ m.cur > 0
          /\ m.left > 0 \/ ~m.recovering
          /\ GoOn(n, loaded, IF m.left > 0 THEN m ELSE [m EXCEPT !.left = MaxOutput],
                  Miners(m), {})
    /\ UNCHANGED <<bound, place, manul, hero, loaded, pending, restarts>>

\* Mutant of UpdateRead: nobody is thrown out.
UpdateRead_Stays(n) ==
    LET u == updates[n] IN
    /\ u # NoUpdate
    /\ GoOn(n, u.dc, dcs[u.dc], u.todo, u.rmv)
    /\ UNCHANGED <<bound, place, manul, hero, loaded, pending, restarts>>

UpdateRead(n) ==
    LET u == updates[n] IN
    /\ u # NoUpdate
    /\ GoOn(n, u.dc, dcs[u.dc], u.todo, IF u.online THEN u.rmv ELSE u.rmv \cup {u.ask})
    /\ UNCHANGED <<bound, place, manul, hero, loaded, pending, restarts>>

\* recovertms passes
Recovered(d) ==
    /\ dcs[d].recovering
    /\ dcs' = [dcs EXCEPT ![d].recovering = FALSE]
    /\ UNCHANGED <<bound, place, manul, hero, loaded, minedb, pending, updates, restarts>>

-----------------------------------------------------------------------------
\* What the rest of the server does to a player, as far as the mine can tell.
\* changemap_end between two maps of the worker: the player object stays
ChangeMap(p) ==
    /\ \/ place[p] = "here" /\ place' = [place EXCEPT ![p] = "near"]
       \/ place[p] = "near" /\ place' = [place EXCEPT ![p] = "here"]
    /\ UNCHANGED <<bound, manul, hero, mine, restarts>>

\* on_remove_session or on_session_close: fin finds the mine on its own map only
LeaveWorker(p) ==
    /\ place[p] # "away"
    /\ Patient => \A h \in pending : h.p # p
    /\ place' = [place EXCEPT ![p] = "away"]
    /\ IF place[p] = "here" /\ manul[p] /\ In(dcs[loaded], p)
       THEN LET m == Drop(dcs[loaded], p)
            IN  /\ dcs' = [dcs EXCEPT ![loaded] = m]
                /\ minedb' = IF m.cur <= 0 THEN m ELSE minedb
       ELSE UNCHANGED <<dcs, minedb>>
    /\ manul' = [manul EXCEPT ![p] = FALSE]
    /\ pending' = {IF h.p = p THEN [h EXCEPT !.live = FALSE] ELSE h : h \in pending}
    /\ UNCHANGED <<bound, hero, loaded, updates, restarts>>

EnterWorker(p) ==
    /\ place[p] = "away" /\ bound[p]
    /\ place' \in {[place EXCEPT ![p] = "here"], [place EXCEPT ![p] = "near"]}
    /\ UNCHANGED <<bound, manul, hero, mine, restarts>>

LogIn(p) ==
    /\ ~bound[p]
    /\ bound' = [bound EXCEPT ![p] = TRUE]
    /\ UNCHANGED <<place, manul, hero, mine, restarts>>

\* _do_clear_session, after fin
LogOut(p) ==
    /\ bound[p] /\ place[p] = "away"
    /\ bound' = [bound EXCEPT ![p] = FALSE]
    /\ UNCHANGED <<place, manul, hero, mine, restarts>>

\* The process ends: memory goes, the session database is cleared at the start.
Restart ==
    /\ restarts < MaxRestarts
    /\ restarts' = restarts + 1
    /\ bound' = [p \in Pids |-> FALSE]
    /\ place' = [p \in Pids |-> "away"]
    /\ manul' = [p \in Pids |-> FALSE]
    /\ dcs' = <<>>
    /\ loaded' = 0
    /\ pending' = {}
    /\ updates' = [i \in 1..MaxUpdates |-> NoUpdate]
    /\ UNCHANGED <<hero, minedb>>

Player(p) ==
    \/ \E op \in Ops : Handle(op, p) \/ FirstUse(op, p)
    \/ StopManul(p) \/ Stroke(p)
    \/ ChangeMap(p) \/ LeaveWorker(p) \/ EnterWorker(p) \/ LogIn(p) \/ LogOut(p)

MineNext ==
    \/ \E p \in Pids : Player(p)
    \/ \E h \in pending : FirstUseRead(h)
    \/ \E n \in 1..MaxUpdates : Update(n) \/ UpdateRead(n)
    \/ \E d \in DOMAIN dcs : Recovered(d)
    \/ Restart

MineSpec == MineInit /\ [][MineNext]_mineVars

\* An update that begins now, or goes on, changes something: it asks for a hand
\* miner or takes one off.
Due(n) ==
    \/ updates[n] # NoUpdate
    \/ /\ loaded # 0
       /\ dcs[loaded].left > 0 \/ ~dcs[loaded].recovering
       /\ \E p \in Pids : dcs[loaded].players[p].kind = "manul"

\* The service's update timer never stops, replies come, time passes: weak
\* fairness, with what enables the steps written out.
Fair ==
    /\ \A n \in 1..MaxUpdates :
          []<>~Due(n) \/ []<><<Update(n) \/ UpdateRead(n)>>_mineVars
    /\ \/ []<>~(loaded # 0 /\ dcs[loaded].recovering)
       \/ []<><<loaded # 0 /\ Recovered(loaded)>>_mineVars
FairMineSpec == MineSpec /\ Fair

-----------------------------------------------------------------------------
MineTypeOK ==
    /\ bound \in [Pids -> BOOLEAN]
    /\ place \in [Pids -> {"here", "near", "away"}]
    /\ manul \in [Pids -> BOOLEAN]
    /\ hero \in [Pids -> [mining : BOOLEAN, ap : 0..InitAct]]
    /\ dcs \in Seq(MineData)
    /\ loaded \in 0..Len(dcs)
    /\ minedb \in MineData \cup {NoMine}
    /\ pending \subseteq [op : Ops, p : Pids, got : MineData \cup {NoMine}, live : BOOLEAN]
    /\ \A n \in 1..MaxUpdates : updates[n] # NoUpdate =>
          updates[n] \in [dc : DOMAIN dcs, todo : SUBSET Pids, rmv : SUBSET Pids,
                          ask : Pids, online : BOOLEAN]

\* curminingplys is the number of miners, whoever came and went while an update
\* awaited: the check against maxminner can rely on it (mine_msgs.ts:82), and
\* the mine takes no more than that (config.md:48).
CountMatches ==
    \A d \in DOMAIN dcs :
        /\ dcs[d].cur = Cardinality(Miners(dcs[d]))
        /\ dcs[d].cur <= MaxMiner

\* A player that mines by hand is among the miners of the component the map
\* holds, by hand: it can stroke and stop (mine_msgs.ts:138, 196).  A hero is
\* marked exactly while the mine lists it: it can be called back, and no entry
\* is left behind that only its hero could remove (mine_msgs.ts:404).  A restart
\* brings back the mine as it was flushed, which a hero called back may be in.
MarkedIsListed ==
    /\ \A p \in Pids : manul[p] => loaded # 0 /\ dcs[loaded].players[p].kind = "manul"
    /\ loaded # 0 /\ restarts = 0 => \A p \in Pids :
          hero[p].mining <=> dcs[loaded].players[p].kind = "hero"

\* What a hero brought in is in its points and its output: none is made up, and
\* its points come back less what they paid for, as long as the server runs.
OutputIsPaid ==
    loaded # 0 /\ restarts = 0 => \A p \in Pids :
        LET e == dcs[loaded].players[p]
        IN  e.kind = "hero" => e.ap + e.out <= hero[p].ap

\* A hand miner that is offline is thrown out (game_map.ts:261), unless it
\* comes back first.
OfflineIsKicked ==
    \A p \in Pids :
        (loaded # 0 /\ dcs[loaded].players[p].kind = "manul" /\ ~bound[p])
            ~> (loaded = 0 \/ dcs[loaded].players[p].kind # "manul" \/ bound[p])
=============================================================================
