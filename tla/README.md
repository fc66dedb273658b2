# A verification project for Natrium

Natrium is a game server in TypeScript on Node: a main thread that owns the
sockets, worker threads that own the players, Redis for what must survive, and a
process of its own that carries events of a block chain into the game. This
directory holds TLA+ models of the parts that keep state, TLC configurations
that check them on small instances, and proofs that TLAPS checks for all values
of the constants. `PROJECT.json` lists components, runs, mutants, theorems,
hazards, findings, and for every definition the source lines it stands for.
Paths below are relative to `src/src/` of the repository.

Contents: 1 the system, 2 the modules, 3 what each run checks, 4 what the
models take for granted, 5 findings, 6 proofs, 7 what is not modelled, 8 plan.

## 1. The system

```
 client --ws--> wslistener -- natrium_server -- serviceworker_nodeimpl ==port==> servicebase (worker)
                (sockets)     (sessionmgr,       (one proxy per worker)           outgame: login, creation
                               main thread)                                       world:   maps, players
 chain node --rpc--> chainmonitor --http post--> chainwatcher (main thread)              |
                     (own process)                     +------------ Redis --------------+
```

| component | state | operations |
|---|---|---|
| Sockets (`network/wslistener_nodeimpl.ts`, `wsconnecter_nodeimpl.ts`, `protocol/*`) | table of connection ids, frames under way, a client's reckoning of the server's clock | accept, close, shakehand, ping, send, broadcast, disconnect |
| Session routing (`natrium_server.ts`, `serviceworker_nodeimpl.ts`, `_service_nodeworker_impl.ts`, `services/servicebase.ts`) | sessionmgr, `current_service`, sessions and changing sessions of each proxy; sessions, players and marks of each worker | connect, close, kick, forward, change service, session removed |
| Login (`msgs/procs/user_msgs.ts`, `servicebase.ts`) | Redis: base data of a session, session a user is bound to, player of a user, id counter | user_login, user_createplayer, user_entergame, add, remove, close, clear |
| World players (`services/worldservice.ts`, `gameobjects/game_map.ts`, `player.ts`, `_redis.ts`) | documents in a worker's memory and in Redis, commands on their way, the players of each map, instance ids, what clients were told | create, change map, walk, change, flush, leave, close, end of process |
| Map mines (`msgs/procs/mine_msgs.ts`, `game_map.ts`, `behaviours/mine_beh.ts`) | a record per mine in the map and in Redis, marks on players and heroes | start, stop, stroke, hero start, stop, fetch, update, recovery |
| Factory (`msgs/procs/factory_msgs.ts`, `player.ts`) | lines and storehouse of a port, marks on heroes and pets; three documents | order, fetch, set and unset workers, queries, earn |
| Chain (`blockchain/chainmonitor_server.ts`, `_chainwatcher_impl.ts`) | height in memory and in Redis, batch being posted; records of transactions | read blocks, post, retry, process, record, restart |
| Users, tokens and warrants (`msgs/httpmsgs.ts`, `datacomponent/globaldata.ts`) | Redis: user of a wallet, user counter, a user's base and warrant documents, records of mints | sign in, mint, read, keep and write back, end of process |
| Threads (`natrium_server.ts` startup and SIGINT, `_node/_threads.ts`, `servicebase.ts`) | how far main and each worker are, messages and events between them, what Redis kept of an earlier process | start, load, fail, orderly end, end and start of the process |
| Others | see section 7 | |

How they interact: a packet becomes a message on a port; the port's messages
start handlers that nobody waits for (`_service_nodeworker_impl.ts:84`, "TO DO :
queue msgs?"), so that **every await is a point where another handler of the
same worker runs**. Replies to main travel on the opposite port. Main and the
workers share no memory. Workers share Redis, each on a connection of its own.

Hard to get right, and hard to test:

* a session is closed, kicked or asked to change while it is between two
  workers, or while a handler of it awaits Redis;
* two sessions of one user log in, create and leave at the same time;
* a player's documents are read by one worker while another, or a flush that
  nobody awaits (`player.ts:211`), may still write them;
* an update of a map awaits Redis in the middle of a loop over data that
  handlers change;
* documents that belong together are written at different times, and the
  process may end in between;
* a post whose connection breaks is posted again while its handler still runs;
  the monitor's height is in two places; block numbers are sorted as text;
* a user's documents are written by the sign-in handler, by the watcher and by
  whichever worker has the player, each over what the others wrote;
* a start waits for threads of which one fails; the sessions of the last process
  are cleared while the new one begins, with the same session numbers;
* seconds and milliseconds meet; fields of 1, 2 and 4 bytes and their limits.

`PROJECT.json` lists forty such hazards, each at its line, with the properties
that would catch it.

## 2. The modules

One action is one handler between two awaits. The state's names are the code's
where there is one; comments on the VARIABLES say what each one is.

| module | models | properties |
|---|---|---|
| `SessionRouting` | main's tables, the ports as FIFO queues, the workers' tables, handlers suspended at an await (`running`) | RoutedOnce, WaitRemoveFinish, Agreement, KeepsCustody, ChangeArrives, DroppedIsForgotten, ClosedIsDropped |
| `SessionCustody` | abstract: a session has one custodian; assigned again only when nobody has it | implemented by SessionRouting |
| `UserLogin` | the handlers of login, creation, entering and leaving, a step per Redis command | Authenticated, UniquePlayerId, BoundWhilePlaying |
| `WorldPlayers` | documents as one versioned record, a FIFO of commands per worker, the zone | NothingLost, NeverOlder, OnTheirMap, ZoneIsSeen |
| `MapMine` | one mine, its miners, its first read and its update | MineTypeOK, CountMatches, MarkedIsListed, OutputIsPaid, OfflineIsKicked |
| `Factory` | one port with its lines, storehouse, heroes and pets, in memory and in Redis | Conserved, WorksOnce, AnsweredIsStored, MarkedIsNamed, LastOutputIsPast |
| `ChainSync` | monitor, posts, overlapping handlers of the watcher, restarts, lost Redis | NothingSkipped, RecordedIsApplied, OnceButForFaults, OrderKept, KeepsFeed, Delivered |
| `ChainFeed` | abstract: transactions are taken, a cursor passes what was taken | implemented by ChainSync |
| `PacketCodec` | header bits, length field, compression, protocols | (theorems) |
| `PacketLink` | listener and connecters over it, breaking connections, clocks | TypeOK, ArrivesWhole, ClockIsBehind, Answered |
| `UserRecords` | the sign-in handler, the watcher's handler of a mint, the workers' copies of a user's documents, over one Redis | Owned, SignedIn, SameUser, Minted |
| `ThreadLife` | startup, the workers' threads, their failures, SIGINT and the next process | BoundIsPresent, ToldIsClosed, Settles, Frees |

`MC<module>` gives functions their values for TLC, `<module>_proofs` holds the
theorems: `WorldWorker_proofs` those of Factory and MapMine, which live in one
worker, `PacketLink_proofs` those of PacketCodec too. `PacketLink` extends `PacketCodec`. The others are independent and
meet at interfaces that each states: UserLogin starts where SessionRouting has
accepted a session; WorldPlayers takes from UserLogin that a bound user cannot
log in (BoundWhilePlaying) and from SessionRouting that a session is added to a
worker only after the last one let it go (WaitRemoveFinish); MapMine and
Factory live inside one world worker; UserRecords makes the users and tokens
UserLogin starts from, and is what ChainSync's effect of an event is for a mint;
ThreadLife is the frame in which all of them run, and takes a login and the
removal of a session's data as one step each.

How handlers are cut. *SessionRouting*: an await that reaches the database is a
cut; what follows it is an element of `running[w]`. *UserLogin*: a step takes
the reply, runs to the next await and issues its command, which takes effect
there; a worker's commands leave in order on one connection. *MapMine*: a
handler runs through once the mine is loaded; only the first use and the update
await. *Factory*: nothing awaits. *WorldPlayers*: a command is appended to
`wire[w]` and lands later; port messages are folded into the steps, since
SessionRouting is about them. *ChainSync*: the steps of a handler are look-up,
processing, recording and answer. *UserRecords*: a step per awaited command; what
is not awaited (`globaldata.ts:32`) is in the queue of its connection.
*ThreadLife*: a step per message or event of a thread; flushes are elements of
`closing`, removals of data of `wiping`, and a session closed by the end of its
worker waits for its turn in `left`.

A type invariant is a run's property in MapMine and PacketLink; those of the other
modules are theorems for all instances and need no run.

## 3. What each run checks

Every property of a passing run has a mutant in `PROJECT.json`: a plausible bug
in a mapped definition, under which TLC finds the property violated.

| run | question | instance, and why it is enough |
|---|---|---|
| `routing_safe` | is there one custodian at any time, do main and workers agree, does the port order hold? | two sessions, one outgame and two world workers (those of `config/serverconf.json`), three client messages each: login, enter, and one repeated or a change back. `s2` has a stored map no world serves, the kick path. A session's tables touch no other's; two show that |
| `routing_live` | does a change of service arrive, is a dropped session forgotten? | one session, four messages: enough to travel to the second world and back |
| `closed_in_transit` | finding 1 | as above, a violation |
| `login` | are users exclusive, ids unique, bindings released? | three sessions, a stored user and a new one, two requests each: two compete for a user while the third uses, frees or closes |
| `mine` | do marks and entries agree, is output paid for, is the number of miners right and bounded, is who is offline thrown out? | from a mine nobody has used: two players, two places, two units, heroes of one action point; by hand and by hero at once, one update under way, one restart at any point. Strokes by hand, which only lower a number, happen at nothing left (`StrokeAt = {0}`) |
| `chain_sync` | is anything skipped, is order kept, is what is done twice paid for by a fault, does all arrive, what does a lost Redis cost? | six blocks 13..18 around 0x10, where the text order turns; batches of three, so that one straddles it; two faults, one of which may be the loss of Redis |
| `factory` | are goods conserved, does a card work in one place, is what was answered stored? | two lines, a hero, a pet, a product of two inputs (2 and 1), counts 1 and 2, time 1, 2 and 1002 (beyond the wrong stamp), a restart |
| `factory_stamp` | finding 2 | as above, a violation |
| `world` | is any change lost between two workers, does a map know its players, do clients see what is there? | two sessions of one user, one of another, three maps on two workers, two changes of one user and one of the other, one end of the process |
| `link` | does what is sent arrive whole, is the clock behind, does an open client get its shakehand? | two clients; a byte has 3 values, so that fields end before 3, 9, 81; bodies of 3, 12 (9 deflated), 81, and one nobody registered; ticks below 2 for 2^32; two ticks, one packet said per connection and direction, one end |
| `records` | does a user belong to one wallet, does an answered token log in, is a wallet one user, does a recorded mint stay? | two sign-ins of two wallets, of the same or of each; three mints, the first and the last for one wallet, so that a user gets a second warrant; two handlers at once, alike (symmetry); one end of the process at any point besides the one the code brings about |
| `threads` | does a start end, is anybody shut out by what is no longer there, does a worker close all its sessions before it says it is done? | two workers, one with both connections and one whose start can fail; two users, two connections of one process; two processes, one thread that fails at any time |

Deadlock is not checked: all counters are bounded, clients and chain stop at
their bounds, and the bounded system may rest there.

Reading the properties in the code's terms:

* **RoutedOnce, WaitRemoveFinish, KeepsCustody.** "wait remove finish"
  (`serviceworker_nodeimpl.ts:226`) is the hand-over protocol: the answer
  `changeservice_sesrmved` must follow the flush. KeepsCustody says it
  of every order of closes, kicks, repetitions and awaits at once.
* **BoundWhilePlaying.** The check of the binding (`user_msgs.ts:40`) and the
  write (`:84`) are several awaits apart. A binding names one session, so that
  two sessions never play as one user.
* **NothingLost, NeverOlder.** The last flush is awaited before the next worker
  may read; a periodic flush before it is on the same connection, in front.
* **ZoneIsSeen.** Instance ids are used again at once. What a client was told
  of an id must be about whoever has it now.
* **CountMatches.** `curminingplys` is kept by hand in six places of three files, one of them
  after awaits.
* **NothingSkipped, OrderKept.** The batch is sorted by hexadecimal text, so
  that 0x10 precedes 0xf. The height goes to one before the last that was
  sent, so the rest is read again; nothing is skipped, but order holds only
  between numbers of equally many digits.
* **AnsweredIsStored.** What a client is told was ordered or fetched is in
  Redis. Inputs and what lines have produced since are not in that promise.
* **Owned, SameUser.** The number of a user, its binding and its document are
  three commands; another sign-in, or the end of the process, comes between them.
* **SignedIn, Minted.** Workers write whole documents back. What main writes
  meanwhile must survive, or be one of the cases the properties name.
* **BoundIsPresent, Frees.** A binding that outlives its session shuts its user
  out for good. `natrium_server.ts:64` is all that clears those of the last
  process, and nobody waits for it.
* **ToldIsClosed, Settles.** "clear sessions & save data" (`servicebase.ts:75`)
  goes through the sessions one flush after the other while closes go on.
  startup awaits a promise per worker.

Fairness, and why the code justifies it:

* `routing_live`: ports deliver, Redis replies, and a socket main asked to close
  closes (`ws` closes by itself 30 s after `close()`). Clients owe nothing.
* `mine`: the update timer of the service never stops, its replies come and
  recovery times pass. Players owe nothing. The fairness is written out
  (`Due`), since an update is a step only if there is something to change. The loop breaks off when
  a hero empties the mine (`game_map.ts:280`), before it reaches who comes
  later; MaxOutput is above the number of heroes that can be ahead, or heroes
  that always have points could keep it from a hand miner for ever.
* `chain_sync`: the chain grows up to its bound, the node answers in the end,
  posts arrive, Redis replies. Faults are bounded, not fair. There is no run of
  MaxBatch empty blocks: such a run stops the monitor for good
  (`chainmonitor_server.ts:194` returns without moving the height).
* `threads`: a worker's routine loads, ports deliver, Redis replies, and startup
  goes on once its promises are kept. Connections, users, failures and signals
  owe nothing.
* `link`: frames on a connection that is open are delivered and handled. Opened
  and ClientEnds are fair because TCP and the operating system see to them.

## 4. What the models take for granted

These are CONSTANTS, so that the assumption is visible and can be dropped. With
the other value TLC finds the following, none of which the repository says
cannot happen; they are worth knowing.

| module | value in the runs | with the other value |
|---|---|---|
| UserLogin | `Patient = TRUE`: a client waits for every answer | two overlapping logins of one user both enter; a login under way binds a closed session again; two creations of one session both draw an id, and the second replaces the first's |
| MapMine | `Patient = TRUE`: a player does not leave the worker while it awaits the first read | the mark of a hero and its entry come apart; later `mine_stop_heromine` takes off an entry by hand that an update takes off too, and the count is one too low: CountMatches |
| MapMine | `MaxUses = 1`: two first uses do not meet | the second to read replaces the component, with the entries of the first |
| MapMine | `MaxUpdates = 1`: an update ends before the next begins | both take off the same miners, the count is too low, and more than `maxminner` are let in |
| WorldPlayers | `Overtaken = FALSE`: a connection does not close while its player is created | a ghost stays on the map, whose periodic flush puts older documents over newer ones: NothingLost, NeverOlder, OnTheirMap |
| PacketLink | `Prompt = TRUE`: a ping is answered before the next | the latency is measured from the wrong ping and is too small: ClockIsBehind (that it is never ahead is proved without this: `TickIsNotAhead`) |
| ChainSync | properties that say "until the first outage" (`outages = 0`) | a handler whose client is not connected takes every transaction for new, finds no user, writes nothing and answers OK: NothingSkipped, RecordedIsApplied and Delivered end there; OrderKept, OnceButForFaults and KeepsFeed go on |
| UserRecords | SameUser and Minted leave out wallets that asked again while their first call was at work (`met`) | both calls make a user, and the first answer's is not the wallet's |
| UserRecords | SignedIn leaves out tokens written while a worker has the document (`shadowed`) | the worker writes the old one back, and the client's token does not log in |
| UserRecords | Minted leaves out wallets that had no user when a mint of theirs was looked at (`missed`) | the mint is recorded without effect (`_chainwatcher_impl.ts:66`, with a TO DO) |
| ThreadLife | Frees leaves out the users of a worker that failed | main goes on without it, and nobody removes their bindings before the next start |
| ChainSync | no run of MaxBatch empty blocks | the monitor stands still for ever: Delivered |

The ASSUMEs of the modules say what else the theorems rest on: that sets of
players, clients and products are finite, that names for nothing (NoMine, NoNft, NoData)
are not names of something, and in PacketLink that a body too long for four bytes of
length is so deflated, too (LinkAssumption; Node has no string that long).

More is in the code but outside every property. The second mint of a user ends
the process: `_add` pushes to a property of an array (`globaldata.ts:70`), and
nobody handles the rejection; the mint is not recorded, so the next process ends
by it too. UserRecords has that as its action Add; Minted says that no recorded
mint is lost by it. A hero called back just
before a restart stays in the stored mine, since the mine is written by the next
update only (`mine_msgs.ts:427`); a card set to a line just before a restart is
marked and not named, since the card is written and the port is not
(`factory_msgs.ts:205`), and cannot be taken off any more. WorksOnce, the other
direction, holds over restarts.

Abstractions, per module:

* **SessionRouting.** Entry and Home stand for `cid % n` and `mapid %
  service_count`. Packets of other commands, broadcasts and service tasks change no
  routing state.
* **UserLogin.** A user's data are its player id. Tokens are compared, not read.
* **WorldPlayers.** A player's documents are one record of map and version.
  Nearness, paths and conditions of a change of map are left out. One periodic
  flush per session is in flight at most. Redis is ready. At the end of the
  process any write under way, or closing flush a worker has begun, may be the
  last that survives.
* **MapMine.** Drops, distances and action points of hand miners are data.
  Hand miners take from `countleft` without a lower bound, and may overdraw it;
  the type says so.
* **Factory.** The factory's level is 1, heroes speed nothing up
  (`player.ts:380` returns 0.0). Inputs are no products,
  hero and pet ids differ. `ordered` and `earned` are histories. `load` is
  kept per good here, of which the code keeps the weighted sum. A handler's writes
  land together, as they leave in one go on one connection.
* **ChainSync.** One watched transaction per block; several are handled one after
  the other like neighbouring blocks. A failed RPC gives an empty batch and the
  sync returns. The node is external; it does not reorganise, and replies in order.
* **PacketCodec/PacketLink.** A body is a model value with a size, a deflated size
  and a command that is registered or not; bytes of header and length are
  computed. `xml` data is never read by the decoder (TO DO in the code).
  Packets that cannot be encoded are dropped, as by the callers' catch. The
  client never listens for the end of its socket. Frames come from this
  repository's codec only. A broadcast is one step for all its receivers.
* **UserRecords.** A sign-in's number is its token: the code makes it from the
  user, the time in seconds and a secret, so that two sign-ins within a second
  have one token, which only makes SignedIn easier. The check of the signature, the
  session's data and everything of the base document but wallet and token are left
  out. A warrant is the mint it came by. Redis is ready, and
  commands that were sent before the process ends are carried out. service_mod is
  never called, since the session is looked up by a number that Redis returns as
  text (`globaldata.ts:154`); add_warrant and rmv_warrant are empty.
* **ThreadLife.** A session stays in the worker it is added to. A worker whose
  file or service class is missing leaves startup waiting for ever; that is a
  mistake in the configuration and left out, as are channels between workers, which
  nobody asks for, and the close of a worker's parent port. A rejection that main
  does not handle is one of the ends of the process. finish()
  (`_threads.ts:115`) never resolves, and no step waits for it.

## 5. Findings

1. **A socket that closes between two services leaves its session behind**
   (`closed_in_transit`, `natrium_server.ts:229`). `on_disconnected` returns
   before `remove_session` when `current_service` is null, as it is from the
   removal at one worker until the next is named. The session stays in sessionmgr, and
   is added to a worker without a socket. DroppedIsForgotten is stated
   for sessions main did drop.
2. **The stamp of a line's last output is moved by milliseconds and is in
   seconds** (`factory_stamp`, `factory_msgs.ts:436`,
   `protobuf/share_structure.proto:171`). After its first output a line makes
   nothing for up to a thousand times its working time.

## 6. Proofs

All proofs are checked by TLAPS to the last leaf; each theorem holds for all
values of the constants that the module's ASSUME allows, that is any number of
sessions, workers, users, blocks, cards, lines, and for unbounded counters too.

| theorem | says | argument |
|---|---|---|
| SessionRouting: `TypeCorrect`, `Routing` | TypeOK; RoutedOnce | RoutedOnce is not inductive alone: `on_connected` hands a session to its entry worker without looking whether it is known, so the invariant adds that an id the listener has not given out is unknown to sessionmgr (`NewIsUnknown`) |
| SessionRouting: `OneWorkerHasIt`, `PortsAgree` | WaitRemoveFinish; Agreement | an invariant of one session's way through the ports (`Travels`): no worker knows of an unconnected one (`Fresh`); one worker at most has it, is about to, or makes its player, and that is the one main knows (`OnePlace`); at each worker it is first on its way in, then there, then on its way out or dropped (`Arriving`, `Staying`, `Leaving`, `Dropped`), and the ports keep that order (`PortIn`, `PortOut`). It is preserved for one session at a time: a step about another session leaves all it reads alone |
| SessionRouting: `ImplementsCustody` | KeepsCustody | every step is a step of SessionCustody or a stutter, from the same invariant: the worker whose port carries an add, and the one that has the session, are unique, so the mapping's choices are determined |
| UserLogin: `TypeCorrect`, `Authentication` | TypeOK; Authenticated | a handler carries its user through its awaits; the invariant says that past the token check, that user is one the session has shown the token of (`CarriedAll`). No use of `Patient`: it holds for clients that wait for nothing |
| UserLogin: `UniqueIds` | UniquePlayerId | an id is in the table, in a player object, or in a handler about to store it; nobody else has it, none is above the counter, and one just drawn is nobody's (`IdInv`) |
| UserLogin: `OneSessionAUser` | BoundWhilePlaying | under `Patient`. A session has one handler at most, and a user one besides those that clear closed sessions (`OnePerSession`, `OnePerUser`). Who plays is bound, and what a handler has seen at its await, of the session it binds or the one it clears, still holds at the next (`Knows`) |
| ChainSync: `TypeCorrect` | TypeOK, and one handler at most is listened to | for any faults and outages |
| ChainSync: `NoneSkipped`, `RecordIsTrue` | NothingSkipped; RecordedIsApplied | until the first outage. What the height or the end of a batch has passed is recorded, in the batch, or left for a handler that is listened to (`Covered`, `Sent`, `Replying`); what a handler is about to record has been applied (`Applied`) |
| ChainSync: `RepetitionIsPaid` | OnceButForFaults | each handler that is no longer listened to may still process a transaction once, and so may the one that is listened to or the next, unless it is recorded or about to be; what was processed and what may still be is paid for by faults and outages (`Paid`) |
| ChainSync: `OrderIsKept` | OrderKept | until the first outage. A batch, and what a handler has left of it, has before each transaction those of its width that precede it on the chain and are not processed (`Follows`); sorting by text gives that, since between numbers of one width text and number agree, and what a batch does not have was recorded before |
| ChainSync: `ImplementsFeed` | KeepsFeed | every step is a step of ChainFeed or a stutter, from the same invariant |
| Factory: `TypeCorrect`, `Ordered` | TypeOK; WithinOrder, a part of Conserved | a line that worked has a working time that is not 0, else division would fail and the count of outputs with it |
| Factory: `OnePlace` | WorksOnce | memory and Redis are both marked, cards in memory equal those in Redis since each handler that changes a card writes it, a card that is not in memory is on no line in Redis, and nobody is in memory while the player is away (`OneInv`). Without `Agree`, a flush of the port alone could name a card that Redis has elsewhere |
| Factory: `AnswersAreStored` | AnsweredIsStored | inductive with the types: a step that changes orders or stored products flushes the port (`PortOnly`, `SameStore`), setting a worker and mining leave the storehouse alone |
| Factory: `MarksAreNamed` | MarkedIsNamed | until a restart: in memory while the player is here, in Redis while it is away, a marked card is named; a card that is not in memory while the player is here is not marked in Redis (`NInv`) |
| Factory: `GoodsAreConserved` | Conserved | the sums are numbers of pieces: a `Total` counts a heap with a column for each line or product, and a step makes one column higher or lower (`TotalChanges`), so no induction over lines is needed. The port's equations (`Ledger`) hold in memory and in Redis each in itself. A new order goes to a line with no pieces (`Idle`), and an output moves pieces from what is to be made to what waits |
| WorldPlayers: `TypeCorrect` | TypeOK | not inductive alone: a command on its way is its session's worker's and says how far the session is, and of one session there is a flush and what is behind it at most (`InWire`, `Ordered`). Any value of `Overtaken` |
| WorldPlayers: `PlayerIsWhole`, `WritesGoOn` | NothingLost; NeverOlder | for `Overtaken = FALSE`. A user has one session at most that plays, moves or closes; Redis is behind its newest version only while that session's worker still has it or has the last flush on its way; what is on the way to Redis is between the stored version and the newest, in order (`VInv`) |
| WorldPlayers: `MapsAreKept`, `AllAreSeen` | OnTheirMap; ZoneIsSeen | for `Overtaken = FALSE`. Both are one invariant of the zone (`ZoneFits`), with where each session is: a session that plays is on the map of its document, on that map's worker, and no other is on any (`MInv`) |
| UserRecords: `TypeCorrect`, `UserIsOwned` | TypeOK; Owned | wherever a user is named with a wallet, in bindings, calls, answers, documents, workers' copies and commands on their way, it is the same wallet, and its number has been drawn (`OneWallet`); one just drawn is named nowhere |
| UserRecords: `AnsweredIsSignedIn` | SignedIn | the answers on their way are in the order of the writes, the last one for a user has the token that is stored, and a copy in a worker that no sign-in wrote under equals the document |
| UserRecords: `WalletIsOneUser` | SameUser | a wallet nobody asked twice for has one call that makes a user, and answers only of the user it is bound to |
| UserRecords: `RecordedIsMinted` | Minted | of a wallet that counts (it has not asked twice at once, and had a user whenever the watcher looked) a user's documents hold the first mint only, in Redis, in a worker's copy and in the writes on their way (`FirstOnly`), so no write takes it away; a handler has recorded what it passed, and its read is behind the writes of that (`ReadOK`), so who reads nothing is at the first mint |
| ThreadLife: `TypeCorrect`, `NoneIsShutOut` | TypeOK; BoundIsPresent | from when the clear is carried out, a bound session is one of this process, with its user in the session's data and in the worker, and there, lost or with its removal under way (`Bindings`, `Placed`) |
| ThreadLife: `DoneIsClosed` | ToldIsClosed | a session that a worker had when it was told to end is gone, at its flush, or still in `left` (`Taken`); a close comes after the adding of its session, which comes once (`InOrder`), so that a close that crosses the end takes away no session that is not in hand |
| PacketCodec: `RoundTrip`, `SendableEncodes` | what is encoded is decoded with type, protocol and body; what four bytes can say is encoded | the fields of the header do not touch each other (`HeaderFields`), and a length that is below a limit has the field's width |
| PacketLink: `TypeCorrect` | TypeOK | a frame on its way or being taken in is one the encoder makes, and the clocks' differences are those of the ticks |
| PacketLink: `SaidIsHeard` | ArrivesWhole | along what is heard, taken in and on its way, in this order, each packet is at a later place of what was said than the one before: the way from said to heard is a strictly increasing numbering (`OnTheWay`), which a frame keeps as it moves on. Frames are decoded to the packet they were made of by `RoundTrip` |
| PacketLink: `TickIsBehind` | ClockIsBehind | under `Prompt`, for every width of the tick: a client has one question under way at most, from the ping to the answer; the time in an answer lies between that ping and now, so what the client makes of it is not ahead, and behind by no more than the latency it measured |
| PacketLink: `TickIsNotAhead` | - | the half of ClockIsBehind that needs no `Prompt`: a time on its way to a client is not one to come, so at each answer the tick the client takes is no more than its own clock less its lead (`AInv`), and from then on both run alike |
| MapMine: `MineTypeCorrect` | MineTypeOK | for all values of the constants. That no entry has more points and output than a hero begins with is part of it (`Sound`), else an output could leave its range |
| MapMine: `CountIsRight` | CountMatches | under `Patient`, `MaxUses <= 1`, `MaxUpdates = 1`. There is one component (`OneMine`), and an update is about that one; who it takes off at the end is still there, by hand (`Left`), so it subtracts as many as it removes |
| MapMine: `MarksAreListed` | MarkedIsListed | under the same. It is an invariant of the mine as the next handler finds it: in the map, on its way from Redis or in Redis (`Held`); a marked hero is in the stored mine too (`Called`), and who an update takes off has lost its mark by hand |
| MapMine: `OutputHasAPrice` | OutputIsPaid | under the same, from the same invariant: an entry's points and output are together at most the points its hero was marked with |

Every invariant of a passing run, and every action property and refinement, is a
theorem. Checked by TLC only: liveness (DroppedIsForgotten, ChangeArrives,
OfflineIsKicked, Delivered, Answered, Settles, Frees), which is out of the prover's
reach. The theorems under `Patient`, `Prompt`, `Overtaken = FALSE`, `MaxUses <= 1`,
`MaxUpdates = 1` or before an outage say nothing of the other values, and could not:
section 4 says what TLC finds there.
What deflate does to bytes is a pair of numbers per body, so the proofs say
nothing about the compression itself.

## 7. What is not modelled

* **Redis layer**: each module models the calls it makes. Keys, formats,
  persistence flags and set-up are left out. A connection that is lost is modelled
  in ChainSync only: elsewhere a write that answers false is not looked at
  (`servicebase.ts:124`), and every property about stored data would end there.
* **Faults that do not depend on any order**: behaviours are never initialised
  (`player.ts:124` iterates over the function `keys`), the getter `talbe` calls
  itself (`datacomp.ts:54`), finish() waits for an exit code that terminate()
  does not give (`_threads.ts:115`). Each shows at the first call and needs no
  model; they are listed among the hazards.
* **Chat, lists and gm commands**: they answer or broadcast and keep no state.
* **MySQL, level instances, sign server, commented-out and unreached code,
  configuration, interfaces, helpers, tests**: nothing that changes state.

## 8. Plan

Done: the twelve modules above, in this order: SessionRouting with
SessionCustody, UserLogin, MapMine, ChainSync with ChainFeed, Factory,
WorldPlayers, PacketCodec with PacketLink, UserRecords, ThreadLife; theorems on
eight of them.

Next, to extend the model:

1. an abstract specification of a player's documents (one owner, one newest
   version) that WorldPlayers implements;
2. several mines on a map with the switch of a hand miner between maps;
3. a Redis connection that is lost under WorldPlayers' flushes.

Then, to prove more: for the values of section 4 that break a property, what is
left of it (of CountMatches with updates that meet, whether the count is ever above the
number of miners; of OnTheirMap with a ghost on a map, whether those that have a
session are still on one map).
