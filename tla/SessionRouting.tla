--------------------------- MODULE SessionRouting ---------------------------
(***************************************************************************)
(* How a client's session moves between the worker threads.                *)
(*                                                                         *)
(* The main thread owns the sockets, the session manager and one proxy     *)
(* (serviceworker_nodeimpl) per worker; every worker owns a servicebase    *)
(* with its own sessions and players.  Main and worker talk over a pair of *)
(* FIFO message ports.  A worker dispatches every message as soon as it    *)
(* arrives (_service_nodeworker_impl.ts:84, "TO DO : queue msgs?"), so a   *)
(* handler that awaits the database interleaves with the handlers of the   *)
(* messages behind it.  Each handler is split here at the awaits that      *)
(* reach the database; its continuation is an element of running[w].       *)
(***************************************************************************)
EXTENDS Naturals, Sequences

CONSTANTS
    Sids,       \* session ids; a session id is its connection id
    OutGame,    \* the outgame workers: login and character creation
    World,      \* the world workers: the maps
    NoService,  \* null / no target
    Entry,      \* Entry[s]: the outgame worker cid % n names
    Home,       \* Home[s]: the world worker the stored map id names
    Unmapped,   \* sessions whose stored map id is in no configuration
    MaxMsgs     \* bound: client messages per session

Services == OutGame \cup World

ASSUME RoutingAssumption ==
    /\ OutGame \cap World = {}
    /\ NoService \notin Services
    /\ Entry \in [Sids -> OutGame]
    /\ Home \in [Sids -> World]
    /\ Unmapped \subseteq Sids
    /\ MaxMsgs \in Nat

VARIABLES
    sock,      \* main: state of the socket of a connection id
    mgr,       \* main: session ids in sessionmgr
    current,   \* main: session.current_service
    held,      \* main: _sessions of each proxy
    changing,  \* main: _changing_svr_sessoins of each proxy
    toWorker,  \* port main -> worker
    toMain,    \* port worker -> main
    sessions,  \* worker: servicebase._sessions
    players,   \* worker: keys of servicebase._players
    onmap,     \* worker: sessions whose player object is on a game_map
    marks,     \* worker: _changingservice_sids
    running,   \* worker: handlers waiting for the database
    firstin,   \* session base data: first entry into the world still to come
    sent       \* client messages received so far

mainVars   == <<sock, mgr, current, held, changing>>
workerVars == <<sessions, players, onmap, marks, running, firstin>>
vars == <<mainVars, toWorker, toMain, workerVars, sent>>

-----------------------------------------------------------------------------
\* Messages and suspended handlers.  n numbers the client messages of a
\* session, so that two logins of one session are two handlers.

Msg == [cmd : {"add_session", "rmv_session", "close_session", "login", "change"},
        sid : Sids, to : Services \cup {NoService}, n : 0..MaxMsgs]
WorldMsg == {m \in Msg : m.cmd = "change" => m.to \in World}
Reply == [cmd : {"changeservice", "changeservice_sesrmved"}, sid : Sids, to : World]
           \cup [cmd : {"kickplayer"}, sid : Sids, to : {NoService}]
Task == [stage : {"login", "create", "firstin", "remove", "close"},
         sid : Sids, n : 0..MaxMsgs]

M2W(c, s) == [cmd |-> c, sid |-> s, to |-> NoService, n |-> 0]
Reply2Main(c, s, t) == [cmd |-> c, sid |-> s, to |-> t]
Handler(stage, s) == [stage |-> stage, sid |-> s, n |-> 0]

Post(w, m) == toWorker' = [toWorker EXCEPT ![w] = Append(@, m)]
Notify(w, m) == toMain' = [toMain EXCEPT ![w] = Append(@, m)]

\* Mutant of NotifyRemoved: clears the mark and forgets to answer.
NotifyRemoved_Silent(w, s) ==
    /\ marks' = [marks EXCEPT ![w][s] = NoService]
    /\ UNCHANGED toMain

\* on_remove_session's tail in the worker's message switch: the mark that
\* mark_changeservice left decides whether main hears that the session is out
NotifyRemoved(w, s) ==
    IF marks[w][s] = NoService
    THEN UNCHANGED <<marks, toMain>>
    ELSE /\ marks' = [marks EXCEPT ![w][s] = NoService]
         /\ Notify(w, Reply2Main("changeservice_sesrmved", s, marks[w][s]))

-----------------------------------------------------------------------------
Init ==
    /\ sock = [s \in Sids |-> "new"]
    /\ mgr = {}
    /\ current = [s \in Sids |-> NoService]
    /\ held = [w \in Services |-> {}]
    /\ changing = [w \in Services |-> {}]
    /\ toWorker = [w \in Services |-> <<>>]
    /\ toMain = [w \in Services |-> <<>>]
    /\ sessions = [w \in Services |-> {}]
    /\ players = [w \in Services |-> {}]
    /\ onmap = [w \in Services |-> {}]
    /\ marks = [w \in Services |-> [s \in Sids |-> NoService]]
    /\ running = [w \in Services |-> {}]
    /\ firstin = Sids
    /\ sent = [s \in Sids |-> 0]

-----------------------------------------------------------------------------
\* Main thread: the listener's callbacks and the proxies.

\* serviceworker_nodeimpl.add_session
AddSession(w, s) ==
    IF s \in held[w]
    THEN UNCHANGED <<held, current, toWorker>>
    ELSE /\ held' = [held EXCEPT ![w] = @ \cup {s}]
         /\ current' = [current EXCEPT ![s] = w]
         /\ Post(w, M2W("add_session", s))

\* Mutant of RemoveSession: the proxy keeps the session.
RemoveSession_Kept(w, s) ==
    /\ current' = [current EXCEPT ![s] = NoService]
    /\ Post(w, M2W("rmv_session", s))
    /\ UNCHANGED held

\* serviceworker_nodeimpl.remove_session, called when s is in held[w]
RemoveSession(w, s) ==
    /\ held' = [held EXCEPT ![w] = @ \ {s}]
    /\ current' = [current EXCEPT ![s] = NoService]
    /\ Post(w, M2W("rmv_session", s))

\* Mutant of CloseSession: the proxy keeps the session.
CloseSession_Kept(w, s) ==
    /\ Post(w, M2W("close_session", s))
    /\ UNCHANGED held

\* serviceworker_nodeimpl.on_session_close; session.current_service stays
CloseSession(w, s) ==
    IF s \in held[w]
    THEN /\ held' = [held EXCEPT ![w] = @ \ {s}]
         /\ Post(w, M2W("close_session", s))
    ELSE UNCHANGED <<held, toWorker>>

\* wslistener.disconnect: asks the socket to close; its close event is later
Disconnect(s) ==
    sock' = [sock EXCEPT ![s] = IF @ = "open" THEN "closing" ELSE @]

\* wslistener._on_socket_connect, natrium_server.on_connected
Connect(s) ==
    /\ sock[s] = "new"
    /\ sock' = [sock EXCEPT ![s] = "open"]
    /\ mgr' = mgr \cup {s}
    /\ AddSession(Entry[s], s)
    /\ UNCHANGED <<changing, toMain, workerVars, sent>>

\* wslistener._on_socket_close, natrium_server.on_disconnected: a session
\* between two services (current_service null) is logged and left in sessionmgr
SocketClose(s) ==
    /\ sock[s] \in {"open", "closing"}
    /\ sock' = [sock EXCEPT ![s] = "closed"]
    /\ IF s \in mgr /\ current[s] # NoService
       THEN /\ CloseSession(current[s], s)
            /\ mgr' = mgr \ {s}
       ELSE UNCHANGED <<held, toWorker, mgr>>
    /\ UNCHANGED <<current, changing, toMain, workerVars, sent>>

\* natrium_server.on_packet: the message goes to the session's current worker
Packet(s, c, t) ==
    /\ sock[s] \in {"open", "closing"}
    /\ sent[s] < MaxMsgs
    /\ s \in mgr
    /\ current[s] # NoService
    /\ sent' = [sent EXCEPT ![s] = @ + 1]
    /\ Post(current[s], [cmd |-> c, sid |-> s, to |-> t, n |-> sent[s] + 1])
    /\ UNCHANGED <<mainVars, toMain, workerVars>>

\* The three messages of serviceworker_nodeimpl._on_worker_msg that move
\* sessions; each is the head of the port of worker w
Arrived(w, c) == toMain[w] # <<>> /\ Head(toMain[w]).cmd = c
Receive(w) == toMain' = [toMain EXCEPT ![w] = Tail(@)]

\* Mutant of OnChangeService: does not wait for the removal to finish.
OnChangeService_NoWait(w) ==
    /\ Arrived(w, "changeservice")
    /\ Receive(w)
    /\ LET s == Head(toMain[w]).sid
           t == Head(toMain[w]).to
       IN IF s \in held[w]
          THEN /\ held' = [held EXCEPT ![w] = @ \ {s}, ![t] = @ \cup {s}]
               /\ current' = [current EXCEPT ![s] = t]
               /\ toWorker' = [toWorker EXCEPT ![w] = Append(@, M2W("rmv_session", s)),
                                              ![t] = Append(@, M2W("add_session", s))]
               /\ UNCHANGED <<sock, changing>>
          ELSE /\ Disconnect(s)
               /\ UNCHANGED <<held, current, changing, toWorker>>
    /\ UNCHANGED <<mgr, workerVars, sent>>

OnChangeService(w) ==
    /\ Arrived(w, "changeservice")
    /\ Receive(w)
    /\ LET s == Head(toMain[w]).sid IN
       IF s \in held[w]
       THEN /\ RemoveSession(w, s)
            /\ changing' = [changing EXCEPT ![w] = @ \cup {s}]
            /\ UNCHANGED sock
       ELSE /\ Disconnect(s)
            /\ UNCHANGED <<held, current, changing, toWorker>>
    /\ UNCHANGED <<mgr, workerVars, sent>>

OnSessionRemoved(w) ==
    /\ Arrived(w, "changeservice_sesrmved")
    /\ Receive(w)
    /\ LET s == Head(toMain[w]).sid IN
       IF s \in changing[w]
       THEN /\ changing' = [changing EXCEPT ![w] = @ \ {s}]
            /\ AddSession(Head(toMain[w]).to, s)
            /\ UNCHANGED sock
       ELSE /\ Disconnect(s)
            /\ UNCHANGED <<held, current, changing, toWorker>>
    /\ UNCHANGED <<mgr, workerVars, sent>>

OnKickPlayer(w) ==
    /\ Arrived(w, "kickplayer")
    /\ Receive(w)
    /\ Disconnect(Head(toMain[w]).sid)
    /\ UNCHANGED <<mgr, current, held, changing, toWorker, workerVars, sent>>

-----------------------------------------------------------------------------
\* Worker threads: dispatch of the head of the port, and the continuations.

Dispatch(w, c) ==
    /\ toWorker[w] # <<>>
    /\ Head(toWorker[w]).cmd = c
    /\ toWorker' = [toWorker EXCEPT ![w] = Tail(@)]

Await(w, t) == running' = [running EXCEPT ![w] = @ \cup {t}]
Resume(w, t) == t \in running[w] /\ running' = [running EXCEPT ![w] = @ \ {t}]

\* on_add_session: a world worker goes on to create the player
OnAddSession(w) ==
    /\ Dispatch(w, "add_session")
    /\ LET s == Head(toWorker[w]).sid IN
       /\ sessions' = [sessions EXCEPT ![w] = @ \cup {s}]
       /\ IF w \in World THEN Await(w, Handler("create", s)) ELSE UNCHANGED running
    /\ UNCHANGED <<mainVars, toMain, players, onmap, marks, firstin, sent>>

\* worldservice.on_add_session after create_player: no map for the player is a
\* kick, the first entry flushes firstin, any other entry goes to the map.
\* Nothing looks again whether the session is still there.  create_player and
\* firstin_init do not fail: player.init and firstin_init loop over the
\* properties of a function (player.ts:124,143), so no behaviour is asked.
PlayerCreated(w, s) ==
    LET h == Handler("create", s) IN
    /\ h \in running[w]
    /\ players' = [players EXCEPT ![w] = @ \cup {s}]
    /\ \/ /\ s \in Unmapped
          /\ Resume(w, h)
          /\ Notify(w, Reply2Main("kickplayer", s, NoService))
          /\ UNCHANGED <<onmap, firstin>>
       \/ /\ s \in firstin \ Unmapped
          /\ firstin' = firstin \ {s}
          /\ running' = [running EXCEPT ![w] = (@ \ {h}) \cup {Handler("firstin", s)}]
          /\ UNCHANGED <<toMain, onmap>>
       \/ /\ s \notin firstin \cup Unmapped
          /\ Resume(w, h)
          /\ onmap' = [onmap EXCEPT ![w] = @ \cup {s}]
          /\ UNCHANGED <<toMain, firstin>>
    /\ UNCHANGED <<mainVars, toWorker, sessions, marks, sent>>

\* Mutant of FirstinFlushed: the player is left without a map.
FirstinFlushed_NoMap(w, s) ==
    /\ Resume(w, Handler("firstin", s))
    /\ UNCHANGED <<mainVars, toWorker, toMain, sessions, players, onmap, marks, firstin, sent>>

\* worldservice.on_add_session after the flush of firstin
FirstinFlushed(w, s) ==
    /\ Resume(w, Handler("firstin", s))
    /\ onmap' = [onmap EXCEPT ![w] = @ \cup {s}]
    /\ UNCHANGED <<mainVars, toWorker, toMain, sessions, players, marks, firstin, sent>>

\* on_session_message for login and create_player, up to the first await
OnLogin(w) ==
    /\ Dispatch(w, "login")
    /\ LET m == Head(toWorker[w]) IN
       IF m.sid \in sessions[w] \ players[w]
       THEN Await(w, [stage |-> "login", sid |-> m.sid, n |-> m.n])
       ELSE UNCHANGED running
    /\ UNCHANGED <<mainVars, toMain, sessions, players, onmap, marks, firstin, sent>>

\* ... and after its last: the player exists, or the login was refused
LoginDone(w, s, n) ==
    /\ Resume(w, [stage |-> "login", sid |-> s, n |-> n])
    /\ \/ players' = [players EXCEPT ![w] = @ \cup {s}]
       \/ UNCHANGED players
    /\ UNCHANGED <<mainVars, toWorker, toMain, sessions, onmap, marks, firstin, sent>>

\* user_entergame in an outgame worker, player_changemapend in a world worker:
\* both mark the session and tell main, without an await
OnChange(w) ==
    /\ Dispatch(w, "change")
    /\ LET m == Head(toWorker[w])
           s == m.sid
           target == IF w \in OutGame THEN Home[s] ELSE m.to
       IN IF /\ s \in sessions[w] \cap players[w]
             /\ w \in World => s \in onmap[w] /\ target # w
          THEN /\ marks' = [marks EXCEPT ![w][s] = target]
               /\ Notify(w, Reply2Main("changeservice", s, target))
          ELSE UNCHANGED <<marks, toMain>>
    /\ UNCHANGED <<mainVars, sessions, players, onmap, running, firstin, sent>>

\* Mutant of OnRemoveSession: answers before the player's data is
\* flushed.
OnRemoveSession_Early(w) ==
    /\ Dispatch(w, "rmv_session")
    /\ LET s == Head(toWorker[w]).sid IN
       /\ NotifyRemoved(w, s)
       /\ IF s \in players[w]
          THEN /\ onmap' = [onmap EXCEPT ![w] = @ \ {s}]
               /\ Await(w, Handler("remove", s))
               /\ UNCHANGED sessions
          ELSE /\ sessions' = [sessions EXCEPT ![w] = @ \ {s}]
               /\ UNCHANGED <<onmap, running>>
    /\ UNCHANGED <<mainVars, players, firstin, sent>>
\* on_remove_session: takes the player off its map and flushes its data ...
\* player.fin, called before, reads at most a mine its map has cached.
OnRemoveSession(w) ==
    /\ Dispatch(w, "rmv_session")
    /\ LET s == Head(toWorker[w]).sid IN
       IF s \in players[w]
       THEN /\ onmap' = [onmap EXCEPT ![w] = @ \ {s}]
            /\ Await(w, Handler("remove", s))
            /\ UNCHANGED <<toMain, sessions, marks>>
       ELSE /\ sessions' = [sessions EXCEPT ![w] = @ \ {s}]
            /\ NotifyRemoved(w, s)
            /\ UNCHANGED <<onmap, running>>
    /\ UNCHANGED <<mainVars, players, firstin, sent>>

\* ... and when the flush is done forgets it and answers main
SessionRemoved(w, s) ==
    /\ Resume(w, Handler("remove", s))
    /\ players' = [players EXCEPT ![w] = @ \ {s}]
    /\ sessions' = [sessions EXCEPT ![w] = @ \ {s}]
    /\ NotifyRemoved(w, s)
    /\ UNCHANGED <<mainVars, toWorker, onmap, firstin, sent>>

\* Mutant of OnSessionClose: returns after the error log when there is no player.
OnSessionClose_Returns(w) ==
    /\ Dispatch(w, "close_session")
    /\ LET s == Head(toWorker[w]).sid IN
       IF s \in players[w]
       THEN /\ onmap' = [onmap EXCEPT ![w] = @ \ {s}]
            /\ Await(w, Handler("close", s))
       ELSE UNCHANGED <<onmap, running>>
    /\ UNCHANGED <<mainVars, toMain, sessions, players, marks, firstin, sent>>

\* on_session_close: the same without an answer, and a mark stays behind
OnSessionClose(w) ==
    /\ Dispatch(w, "close_session")
    /\ LET s == Head(toWorker[w]).sid IN
       IF s \in players[w]
       THEN /\ onmap' = [onmap EXCEPT ![w] = @ \ {s}]
            /\ Await(w, Handler("close", s))
            /\ UNCHANGED sessions
       ELSE /\ sessions' = [sessions EXCEPT ![w] = @ \ {s}]
            /\ UNCHANGED <<onmap, running>>
    /\ UNCHANGED <<mainVars, toMain, players, marks, firstin, sent>>

\* ... and when that flush is done forgets it
SessionClosed(w, s) ==
    /\ Resume(w, Handler("close", s))
    /\ players' = [players EXCEPT ![w] = @ \ {s}]
    /\ sessions' = [sessions EXCEPT ![w] = @ \ {s}]
    /\ UNCHANGED <<mainVars, toWorker, toMain, onmap, marks, firstin, sent>>

-----------------------------------------------------------------------------
\* A command a worker does not register is dropped there, so a login is sent
\* to outgame workers only; enter_game names no target, changemap_end does.
ClientMessage(s) ==
    \/ current[s] \in OutGame /\ Packet(s, "login", NoService)
    \/ current[s] \in OutGame /\ Packet(s, "change", NoService)
    \/ current[s] \in World /\ \E t \in World : Packet(s, "change", t)

MainStep(w) == OnChangeService(w) \/ OnSessionRemoved(w) \/ OnKickPlayer(w)

WorkerStep(w) ==
    \/ OnAddSession(w) \/ OnLogin(w) \/ OnChange(w)
    \/ OnRemoveSession(w) \/ OnSessionClose(w)

Continuation(w, s) ==
    \/ PlayerCreated(w, s) \/ FirstinFlushed(w, s)
    \/ SessionRemoved(w, s) \/ SessionClosed(w, s)
    \/ \E n \in 1..MaxMsgs : LoginDone(w, s, n)

Next ==
    \/ \E s \in Sids : Connect(s) \/ SocketClose(s) \/ ClientMessage(s)
    \/ \E w \in Services : MainStep(w) \/ WorkerStep(w)
    \/ \E w \in Services, s \in Sids : Continuation(w, s)

Spec == Init /\ [][Next]_vars

\* Ports are delivered, awaited replies arrive, and a socket main asked to
\* close does close.  Clients owe nothing.
Fairness ==
    /\ \A w \in Services : WF_vars(MainStep(w)) /\ WF_vars(WorkerStep(w))
    /\ \A w \in Services, s \in Sids : WF_vars(Continuation(w, s))
    /\ \A s \in Sids : WF_vars(sock[s] = "closing" /\ SocketClose(s))

FairSpec == Spec /\ Fairness

-----------------------------------------------------------------------------
\* Properties.

TypeOK ==
    /\ sock \in [Sids -> {"new", "open", "closing", "closed"}]
    /\ mgr \in SUBSET Sids
    /\ current \in [Sids -> Services \cup {NoService}]
    /\ held \in [Services -> SUBSET Sids]
    /\ changing \in [Services -> SUBSET Sids]
    /\ toWorker \in [Services -> Seq(Msg)]
    /\ \A w \in World : toWorker[w] \in Seq(WorldMsg)
    /\ toMain \in [Services -> Seq(Reply)]
    /\ sessions \in [Services -> SUBSET Sids]
    /\ players \in [Services -> SUBSET Sids]
    /\ onmap \in [Services -> SUBSET Sids]
    /\ marks \in [Services -> [Sids -> World \cup {NoService}]]
    /\ running \in [Services -> SUBSET Task]
    /\ firstin \in SUBSET Sids
    /\ sent \in [Sids -> 0..MaxMsgs]

\* Main never routes one session to two workers: a session of sessionmgr is
\* either held by exactly the proxy its current_service names, or waits in the
\* changing map of exactly one proxy; a session main dropped is in none.
RoutedOnce ==
    /\ \A s \in Sids, w \in Services :
          s \in held[w] <=> s \in mgr /\ current[s] = w
    /\ \A s \in mgr : current[s] = NoService =>
          \E w \in Services : s \in changing[w]
    /\ \A s \in Sids, w \in Services : s \in changing[w] =>
          /\ s \in mgr
          /\ current[s] = NoService
          /\ \A v \in Services : s \in changing[v] => v = w

\* "wait remove finish" (serviceworker_nodeimpl.ts:226): a worker takes a session
\* in only after the worker it left has flushed and forgotten it, so two
\* workers never hold one session, and no two worlds hold its player.
WaitRemoveFinish ==
    \A s \in Sids, v, w \in Services : v # w =>
        /\ ~(s \in sessions[v] /\ s \in sessions[w])
        /\ v \in World /\ w \in World => ~(s \in players[v] /\ s \in players[w])

\* The ports keep the order main decided on: a worker is told to remove or close
\* only sessions it has, to add only sessions it has not, and main hears that a
\* change is finished only while it waits for it.  And when nothing is on its way,
\* main and the workers agree who holds what.
Agreement ==
    /\ \A w \in Services :
          /\ toWorker[w] # <<>> =>
               LET m == Head(toWorker[w]) IN
               /\ m.cmd \in {"rmv_session", "close_session"} => m.sid \in sessions[w]
               /\ m.cmd = "add_session" => m.sid \notin sessions[w]
          /\ Arrived(w, "changeservice_sesrmved") => Head(toMain[w]).sid \in changing[w]
    /\ (\A w \in Services : toWorker[w] = <<>> /\ toMain[w] = <<>> /\ running[w] = {})
           => \A w \in Services : sessions[w] = held[w] /\ changing[w] = {}

\* The ports, tables and marks implement the custody of SessionCustody.tla.
Queued(w, s) == \E i \in DOMAIN toWorker[w] :
    toWorker[w][i].cmd = "add_session" /\ toWorker[w][i].sid = s
One(S) == IF S = {} THEN NoService ELSE CHOOSE w \in S : TRUE

Custody == INSTANCE SessionCustody WITH
    Workers <- Services,
    Nowhere <- NoService,
    route   <- [s \in Sids |->
                  IF s \notin mgr THEN IF sock[s] = "new" THEN "new" ELSE "gone"
                  ELSE IF current[s] = NoService THEN "moving" ELSE current[s]],
    pending <- [s \in Sids |-> One({w \in Services : Queued(w, s)})],
    home    <- [s \in Sids |-> One({w \in Services : s \in sessions[w]})]

\* Every step of the threads is a step of the custody or none of its business:
\* a session is assigned again only when no worker has it any more, only the
\* worker that has it can ask for a change, no session enters a worker twice.
KeepsCustody == Custody!Spec

\* A change of service arrives: the player comes to stand on a map of another
\* worker than the one it left, or its socket is closing or closed.  Open or
\* closed, no session is left between two services.
ChangeArrives ==
    \A w \in Services, s \in Sids :
        /\ s \in changing[w] ~>
            (\E v \in World \ {w} : s \in onmap[v]) \/ sock[s] # "open"
        /\ s \in changing[w] ~> s \notin changing[w]

\* A session main dropped disappears from the session tables of every worker.
DroppedIsForgotten ==
    \A s \in Sids : (sock[s] = "closed" /\ s \notin mgr) ~>
        [](\A w \in Services : s \notin sessions[w])

\* natrium_server.ts:230 logs "session not in service" as an error when a
\* socket closes: a closed socket leaves no session in sessionmgr.
ClosedIsDropped == \A s \in mgr : sock[s] # "closed"
=============================================================================
