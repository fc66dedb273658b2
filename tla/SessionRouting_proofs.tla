----------------------- MODULE SessionRouting_proofs -----------------------
(***************************************************************************)
(* Main never routes a session to two workers, no two workers ever have    *)
(* one, the ports keep main and the workers in agreement, and the whole    *)
(* implements SessionCustody.tla: for any number of sessions, outgame      *)
(* workers, world workers and client messages.                             *)
(***************************************************************************)
EXTENDS SessionRouting, SequenceTheorems, TLAPS

\* A session id the listener has not handed out yet is unknown to sessionmgr;
\* on_connected relies on it to hand the session to its entry worker.
NewIsUnknown == \A s \in mgr : sock[s] # "new"

IInv == TypeOK /\ RoutedOnce /\ NewIsUnknown

-----------------------------------------------------------------------------
\* Taking the head off a typed, non-empty port leaves a typed port.
LEMMA HeadTail ==
    ASSUME NEW S, NEW q \in Seq(S), q # <<>>
    PROVE  Head(q) \in S /\ Tail(q) \in Seq(S)
  BY HeadTailProperties

\* Posting a message of the right kind keeps the ports to the workers typed.
LEMMA PostTyped ==
    ASSUME TypeOK, NEW w \in Services, NEW m \in Msg,
           w \in World => m \in WorldMsg, Post(w, m)
    PROVE  /\ toWorker' \in [Services -> Seq(Msg)]
           /\ \A v \in World : toWorker'[v] \in Seq(WorldMsg)
  <1>1. toWorker[w] \in Seq(Msg) /\ toWorker \in [Services -> Seq(Msg)]
    BY DEF TypeOK
  <1>2. Append(toWorker[w], m) \in Seq(Msg)
    BY <1>1, AppendProperties
  <1>3. w \in World => Append(toWorker[w], m) \in Seq(WorldMsg)
    BY AppendProperties DEF TypeOK
  <1>4. toWorker' = [toWorker EXCEPT ![w] = Append(toWorker[w], m)]
    BY DEF Post
  <1>5. ASSUME NEW v \in World PROVE toWorker'[v] \in Seq(WorldMsg)
    <2>1. v \in Services /\ toWorker[v] \in Seq(WorldMsg)
      BY DEF TypeOK, Services
    <2>2. CASE v = w BY <2>1, <2>2, <1>1, <1>3, <1>4
    <2>3. CASE v # w BY <2>1, <2>3, <1>1, <1>4
    <2> QED BY <2>2, <2>3
  <1> QED BY <1>1, <1>2, <1>4, <1>5

\* Dispatching the head keeps them typed, and the head is a message the worker
\* may get.
LEMMA DispatchTyped ==
    ASSUME TypeOK, NEW w \in Services, NEW c, Dispatch(w, c)
    PROVE  /\ toWorker' \in [Services -> Seq(Msg)]
           /\ \A v \in World : toWorker'[v] \in Seq(WorldMsg)
           /\ Head(toWorker[w]) \in Msg
           /\ w \in World => Head(toWorker[w]) \in WorldMsg
           /\ Head(toWorker[w]).cmd = c
  <1>1. toWorker[w] \in Seq(Msg) /\ toWorker \in [Services -> Seq(Msg)] /\ toWorker[w] # <<>>
    BY DEF TypeOK, Dispatch
  <1>2. Head(toWorker[w]) \in Msg /\ Tail(toWorker[w]) \in Seq(Msg)
    BY <1>1, HeadTail
  <1>3. w \in World => /\ Head(toWorker[w]) \in WorldMsg
                       /\ Tail(toWorker[w]) \in Seq(WorldMsg)
    BY <1>1, HeadTail DEF TypeOK
  <1>4. toWorker' = [toWorker EXCEPT ![w] = Tail(toWorker[w])]
    BY DEF Dispatch
  <1>5. ASSUME NEW v \in World PROVE toWorker'[v] \in Seq(WorldMsg)
    <2>1. v \in Services /\ toWorker[v] \in Seq(WorldMsg)
      BY DEF TypeOK, Services
    <2>2. CASE v = w BY <2>1, <2>2, <1>1, <1>3, <1>4
    <2>3. CASE v # w BY <2>1, <2>3, <1>1, <1>4
    <2> QED BY <2>2, <2>3
  <1>6. Head(toWorker[w]).cmd = c
    BY DEF Dispatch
  <1> QED BY <1>1, <1>2, <1>3, <1>4, <1>5, <1>6

\* The same for the ports to main.
LEMMA NotifyTyped ==
    ASSUME TypeOK, NEW w \in Services, NEW m \in Reply, Notify(w, m)
    PROVE  toMain' \in [Services -> Seq(Reply)]
  <1>1. toMain[w] \in Seq(Reply) /\ toMain \in [Services -> Seq(Reply)]
    BY DEF TypeOK
  <1>2. Append(toMain[w], m) \in Seq(Reply)
    BY <1>1, AppendProperties
  <1> QED BY <1>1, <1>2 DEF Notify

LEMMA ReceiveTyped ==
    ASSUME TypeOK, NEW w \in Services, NEW c, Arrived(w, c), Receive(w)
    PROVE  /\ toMain' \in [Services -> Seq(Reply)]
           /\ Head(toMain[w]) \in Reply
           /\ Head(toMain[w]).cmd = c
  <1>1. toMain[w] \in Seq(Reply) /\ toMain \in [Services -> Seq(Reply)] /\ toMain[w] # <<>>
    BY DEF TypeOK, Arrived
  <1>2. Head(toMain[w]) \in Reply /\ Tail(toMain[w]) \in Seq(Reply)
    BY <1>1, HeadTail
  <1> QED BY <1>1, <1>2 DEF Arrived, Receive

\* The messages the handlers build are messages.
LEMMA Built ==
    ASSUME NEW s \in Sids
    PROVE  /\ \A c \in {"add_session", "rmv_session", "close_session"} :
                M2W(c, s) \in Msg /\ M2W(c, s) \in WorldMsg
           /\ \A g \in {"create", "firstin", "remove", "close"} : Handler(g, s) \in Task
           /\ \A c \in {"changeservice", "changeservice_sesrmved"}, t \in World :
                Reply2Main(c, s, t) \in Reply
           /\ Reply2Main("kickplayer", s, NoService) \in Reply
  BY RoutingAssumption DEF M2W, Msg, WorldMsg, Handler, Task, Reply2Main, Reply

\* Suspending and resuming handlers keeps the running handlers typed.
LEMMA AwaitTyped ==
    ASSUME TypeOK, NEW w \in Services, NEW t \in Task, Await(w, t)
    PROVE  running' \in [Services -> SUBSET Task]
  BY DEF Await, TypeOK

LEMMA ResumeTyped ==
    ASSUME TypeOK, NEW w \in Services, NEW t, Resume(w, t)
    PROVE  running' \in [Services -> SUBSET Task]
  BY DEF Resume, TypeOK

-----------------------------------------------------------------------------
\* serviceworker.add_session leaves main's tables typed.
LEMMA AddSessionTyped ==
    ASSUME TypeOK, NEW w \in Services, NEW s \in Sids, AddSession(w, s)
    PROVE  /\ current' \in [Sids -> Services \cup {NoService}]
           /\ held' \in [Services -> SUBSET Sids]
           /\ toWorker' \in [Services -> Seq(Msg)]
           /\ \A v \in World : toWorker'[v] \in Seq(WorldMsg)
  <1>1. CASE s \in held[w]
    BY <1>1 DEF AddSession, TypeOK
  <1>2. CASE s \notin held[w]
    <2>1. M2W("add_session", s) \in Msg /\ M2W("add_session", s) \in WorldMsg
      BY Built
    <2>2. Post(w, M2W("add_session", s))
      BY <1>2 DEF AddSession
    <2>3. /\ toWorker' \in [Services -> Seq(Msg)]
          /\ \A v \in World : toWorker'[v] \in Seq(WorldMsg)
      BY <2>1, <2>2, PostTyped
    <2>4. current' = [current EXCEPT ![s] = w] /\ held' = [held EXCEPT ![w] = @ \cup {s}]
      BY <1>2 DEF AddSession
    <2> QED BY <2>3, <2>4 DEF TypeOK
  <1> QED BY <1>1, <1>2

\* The worker's answer about a removed session is typed.
LEMMA NotifyRemovedTyped ==
    ASSUME TypeOK, NEW w \in Services, NEW s \in Sids, NotifyRemoved(w, s)
    PROVE  /\ marks' \in [Services -> [Sids -> World \cup {NoService}]]
           /\ toMain' \in [Services -> Seq(Reply)]
  <1>1. CASE marks[w][s] = NoService
    BY <1>1 DEF NotifyRemoved, TypeOK
  <1>2. CASE marks[w][s] # NoService
    <2>1. marks[w][s] \in World
      BY <1>2 DEF TypeOK
    <2>2. Notify(w, Reply2Main("changeservice_sesrmved", s, marks[w][s]))
      BY <1>2 DEF NotifyRemoved
    <2>3. toMain' \in [Services -> Seq(Reply)]
      BY <2>1, <2>2, Built, NotifyTyped
    <2>4. marks' = [marks EXCEPT ![w][s] = NoService]
      BY <1>2 DEF NotifyRemoved
    <2> QED BY <2>3, <2>4 DEF TypeOK
  <1> QED BY <1>1, <1>2

\* Every step of the main thread keeps the types.
LEMMA MainTyped ==
    ASSUME TypeOK,
           \/ \E s \in Sids : Connect(s) \/ SocketClose(s) \/ ClientMessage(s)
           \/ \E w \in Services : MainStep(w)
    PROVE  TypeOK'
  <1>1. ASSUME NEW s \in Sids, Connect(s) PROVE TypeOK'
    <2>1. Entry[s] \in Services
      BY RoutingAssumption DEF Services
    <2>2. AddSession(Entry[s], s)
      BY <1>1 DEF Connect
    <2> QED BY <1>1, <2>1, <2>2, AddSessionTyped DEF Connect, TypeOK, workerVars
  <1>2. ASSUME NEW s \in Sids, SocketClose(s) PROVE TypeOK'
    <2>1. CASE s \in mgr /\ current[s] # NoService /\ s \in held[current[s]]
      <3>1. current[s] \in Services
        BY <2>1 DEF TypeOK
      <3>2. Post(current[s], M2W("close_session", s))
        BY <1>2, <2>1 DEF SocketClose, CloseSession
      <3>3. /\ toWorker' \in [Services -> Seq(Msg)]
            /\ \A v \in World : toWorker'[v] \in Seq(WorldMsg)
        BY <3>1, <3>2, Built, PostTyped
      <3>0. held' = [held EXCEPT ![current[s]] = @ \ {s}]
        BY <1>2, <2>1 DEF SocketClose, CloseSession
      <3>4. held' \in [Services -> SUBSET Sids]
        BY <3>0, <3>1 DEF TypeOK
      <3>5. sock' \in [Sids -> {"new", "open", "closing", "closed"}] /\ mgr' \in SUBSET Sids
        BY <1>2, <2>1 DEF SocketClose, TypeOK
      <3> QED BY <1>2, <3>3, <3>4, <3>5 DEF SocketClose, TypeOK, workerVars
    <2>2. CASE ~(s \in mgr /\ current[s] # NoService /\ s \in held[current[s]])
      BY <1>2, <2>2 DEF SocketClose, CloseSession, TypeOK, workerVars
    <2> QED BY <2>1, <2>2
  <1>3. ASSUME NEW s \in Sids, ClientMessage(s) PROVE TypeOK'
    <2> PICK c \in {"login", "change"}, t \in World \cup {NoService} :
          Packet(s, c, t) /\ (current[s] \in World => c = "change" /\ t \in World)
      BY <1>3, RoutingAssumption DEF ClientMessage, Services
    <2> DEFINE m == [cmd |-> c, sid |-> s, to |-> t, n |-> sent[s] + 1]
    <2>1. current[s] \in Services /\ sent[s] + 1 \in 0..MaxMsgs
      BY RoutingAssumption DEF Packet, TypeOK
    <2>2. m \in Msg /\ (current[s] \in World => m \in WorldMsg)
      BY <2>1 DEF Msg, WorldMsg, Services
    <2>3. Post(current[s], m)
      BY DEF Packet
    <2>4. /\ toWorker' \in [Services -> Seq(Msg)]
          /\ \A v \in World : toWorker'[v] \in Seq(WorldMsg)
      BY <2>1, <2>2, <2>3, PostTyped
    <2> QED BY <2>1, <2>4 DEF Packet, TypeOK, mainVars, workerVars
  <1>4. ASSUME NEW w \in Services, OnChangeService(w) PROVE TypeOK'
    <2> DEFINE s == Head(toMain[w]).sid
    <2>1. toMain' \in [Services -> Seq(Reply)] /\ s \in Sids
      BY <1>4, ReceiveTyped DEF OnChangeService, Reply
    <2>2. CASE s \in held[w]
      <3>1. Post(w, M2W("rmv_session", s))
        BY <1>4, <2>2 DEF OnChangeService, RemoveSession
      <3>2. /\ toWorker' \in [Services -> Seq(Msg)]
            /\ \A v \in World : toWorker'[v] \in Seq(WorldMsg)
        BY <2>1, <3>1, Built, PostTyped
      <3>0. /\ held' = [held EXCEPT ![w] = @ \ {s}]
            /\ changing' = [changing EXCEPT ![w] = @ \cup {s}]
        BY <1>4, <2>2 DEF OnChangeService, RemoveSession
      <3>3. held' \in [Services -> SUBSET Sids] /\ changing' \in [Services -> SUBSET Sids]
        BY <2>1, <3>0 DEF TypeOK
      <3>4. current' \in [Sids -> Services \cup {NoService}]
        BY <1>4, <2>1, <2>2 DEF OnChangeService, RemoveSession, TypeOK
      <3>5. UNCHANGED <<sock, mgr, workerVars, sent>>
        BY <1>4, <2>2 DEF OnChangeService
      <3> QED BY <2>1, <3>2, <3>3, <3>4, <3>5 DEF TypeOK, workerVars
    <2>3. CASE s \notin held[w]
      BY <1>4, <2>1, <2>3 DEF OnChangeService, Disconnect, TypeOK, workerVars
    <2> QED BY <2>2, <2>3
  <1>5. ASSUME NEW w \in Services, OnSessionRemoved(w) PROVE TypeOK'
    <2> DEFINE s == Head(toMain[w]).sid
               t == Head(toMain[w]).to
    <2>0. /\ toMain' \in [Services -> Seq(Reply)]
          /\ Head(toMain[w]) \in Reply
          /\ Head(toMain[w]).cmd = "changeservice_sesrmved"
      BY <1>5, ReceiveTyped DEF OnSessionRemoved
    <2>1. toMain' \in [Services -> Seq(Reply)] /\ s \in Sids /\ t \in Services
      BY <2>0 DEF Reply, Services
    <2>2. CASE s \in changing[w]
      <3>1. AddSession(t, s)
        BY <1>5, <2>2 DEF OnSessionRemoved
      <3>2. /\ current' \in [Sids -> Services \cup {NoService}]
            /\ held' \in [Services -> SUBSET Sids]
            /\ toWorker' \in [Services -> Seq(Msg)]
            /\ \A v \in World : toWorker'[v] \in Seq(WorldMsg)
        BY <2>1, <3>1, AddSessionTyped
      <3>0. changing' = [changing EXCEPT ![w] = @ \ {s}]
        BY <1>5, <2>2 DEF OnSessionRemoved
      <3>3. changing' \in [Services -> SUBSET Sids]
        BY <3>0 DEF TypeOK
      <3>4. UNCHANGED <<sock, mgr, workerVars, sent>>
        BY <1>5, <2>2 DEF OnSessionRemoved
      <3> QED BY <2>1, <3>2, <3>3, <3>4 DEF TypeOK, workerVars
    <2>3. CASE s \notin changing[w]
      BY <1>5, <2>1, <2>3 DEF OnSessionRemoved, Disconnect, TypeOK, workerVars
    <2> QED BY <2>2, <2>3
  <1>6. ASSUME NEW w \in Services, OnKickPlayer(w) PROVE TypeOK'
    <2>1. toMain' \in [Services -> Seq(Reply)]
      BY <1>6, ReceiveTyped DEF OnKickPlayer
    <2> QED BY <1>6, <2>1 DEF OnKickPlayer, Disconnect, TypeOK, workerVars
  <1> QED BY <1>1, <1>2, <1>3, <1>4, <1>5, <1>6 DEF MainStep

\* Every step of a worker keeps the types.
LEMMA WorkerTyped ==
    ASSUME TypeOK, NEW w \in Services,
           WorkerStep(w) \/ \E s \in Sids : Continuation(w, s)
    PROVE  TypeOK'
  <1>0. ASSUME NEW c, Dispatch(w, c)
        PROVE  /\ toWorker' \in [Services -> Seq(Msg)]
               /\ \A v \in World : toWorker'[v] \in Seq(WorldMsg)
               /\ Head(toWorker[w]) \in Msg /\ Head(toWorker[w]).sid \in Sids
    BY <1>0, DispatchTyped DEF Msg
  <1>1. ASSUME OnAddSession(w) PROVE TypeOK'
    <2> DEFINE s == Head(toWorker[w]).sid
    <2>1. Dispatch(w, "add_session")
      BY <1>1 DEF OnAddSession
    <2>2. Handler("create", s) \in Task
      BY <1>0, <2>1, Built
    <2>3. running' \in [Services -> SUBSET Task]
      BY <1>1, <2>2, AwaitTyped DEF OnAddSession, TypeOK
    <2>4. sessions' \in [Services -> SUBSET Sids]
      BY <1>0, <1>1, <2>1 DEF OnAddSession, TypeOK
    <2> QED BY <1>0, <1>1, <2>1, <2>3, <2>4 DEF OnAddSession, TypeOK, mainVars
  <1>2. ASSUME OnLogin(w) PROVE TypeOK'
    <2> DEFINE m == Head(toWorker[w])
    <2>1. Dispatch(w, "login")
      BY <1>2 DEF OnLogin
    <2>2. [stage |-> "login", sid |-> m.sid, n |-> m.n] \in Task
      BY <1>0, <2>1 DEF Msg, Task
    <2>3. running' \in [Services -> SUBSET Task]
      BY <1>2, <2>2, AwaitTyped DEF OnLogin, TypeOK
    <2> QED BY <1>0, <1>2, <2>1, <2>3 DEF OnLogin, TypeOK, mainVars
  <1>3. ASSUME OnChange(w) PROVE TypeOK'
    <2> DEFINE m == Head(toWorker[w])
               t == IF w \in OutGame THEN Home[m.sid] ELSE m.to
    <2>1. m \in Msg /\ (w \in World => m \in WorldMsg) /\ m.cmd = "change"
      BY <1>3, DispatchTyped DEF OnChange
    <2>2. m.sid \in Sids /\ t \in World
      BY <2>1, RoutingAssumption DEF Msg, WorldMsg, Services
    <2>3. CASE UNCHANGED <<marks, toMain>>
      BY <1>3, <2>3, DispatchTyped DEF OnChange, TypeOK, mainVars
    <2>4. CASE /\ marks' = [marks EXCEPT ![w][m.sid] = t]
               /\ Notify(w, Reply2Main("changeservice", m.sid, t))
      <3>1. toMain' \in [Services -> Seq(Reply)]
        BY <2>2, <2>4, Built, NotifyTyped
      <3> QED BY <1>3, <2>2, <2>4, <3>1, DispatchTyped DEF OnChange, TypeOK, mainVars
    <2> QED BY <1>3, <2>3, <2>4 DEF OnChange
  <1>4. ASSUME OnRemoveSession(w) PROVE TypeOK'
    <2> DEFINE s == Head(toWorker[w]).sid
    <2>1. Dispatch(w, "rmv_session")
      BY <1>4 DEF OnRemoveSession
    <2>2. s \in Sids /\ Handler("remove", s) \in Task
      BY <1>0, <2>1, Built
    <2>3. CASE s \in players[w]
      <3>1. running' \in [Services -> SUBSET Task]
        BY <1>4, <2>2, <2>3, AwaitTyped DEF OnRemoveSession
      <3>0. onmap' = [onmap EXCEPT ![w] = @ \ {s}]
        BY <1>4, <2>3 DEF OnRemoveSession
      <3>2. onmap' \in [Services -> SUBSET Sids]
        BY <3>0 DEF TypeOK
      <3> QED BY <1>0, <1>4, <2>1, <2>3, <3>1, <3>2 DEF OnRemoveSession, TypeOK, mainVars
    <2>4. CASE s \notin players[w]
      <3>1. /\ marks' \in [Services -> [Sids -> World \cup {NoService}]]
            /\ toMain' \in [Services -> Seq(Reply)]
        BY <1>4, <2>2, <2>4, NotifyRemovedTyped DEF OnRemoveSession
      <3>0. sessions' = [sessions EXCEPT ![w] = @ \ {s}]
        BY <1>4, <2>4 DEF OnRemoveSession
      <3>2. sessions' \in [Services -> SUBSET Sids]
        BY <3>0 DEF TypeOK
      <3> QED BY <1>0, <1>4, <2>1, <2>4, <3>1, <3>2 DEF OnRemoveSession, TypeOK, mainVars
    <2> QED BY <2>3, <2>4
  <1>5. ASSUME OnSessionClose(w) PROVE TypeOK'
    <2> DEFINE s == Head(toWorker[w]).sid
    <2>1. Dispatch(w, "close_session")
      BY <1>5 DEF OnSessionClose
    <2>2. s \in Sids /\ Handler("close", s) \in Task
      BY <1>0, <2>1, Built
    <2>3. running' \in [Services -> SUBSET Task]
      BY <1>5, <2>2, AwaitTyped DEF OnSessionClose, TypeOK
    <2>4. CASE s \in players[w]
      <3>1. onmap' = [onmap EXCEPT ![w] = @ \ {s}] /\ sessions' = sessions
        BY <1>5, <2>4 DEF OnSessionClose
      <3>2. onmap' \in [Services -> SUBSET Sids]
        BY <3>1 DEF TypeOK
      <3> QED BY <1>0, <1>5, <2>1, <2>3, <3>1, <3>2 DEF OnSessionClose, TypeOK, mainVars
    <2>5. CASE s \notin players[w]
      <3>1. sessions' = [sessions EXCEPT ![w] = @ \ {s}] /\ onmap' = onmap
        BY <1>5, <2>5 DEF OnSessionClose
      <3>2. sessions' \in [Services -> SUBSET Sids]
        BY <3>1 DEF TypeOK
      <3> QED BY <1>0, <1>5, <2>1, <2>3, <3>1, <3>2 DEF OnSessionClose, TypeOK, mainVars
    <2> QED BY <2>4, <2>5
  <1>6. ASSUME NEW s \in Sids, PlayerCreated(w, s) PROVE TypeOK'
    <2>1. Handler("firstin", s) \in Task /\ Reply2Main("kickplayer", s, NoService) \in Reply
      BY Built
    <2>2. toMain' \in [Services -> Seq(Reply)]
      BY <1>6, <2>1, NotifyTyped DEF PlayerCreated, TypeOK
    <2>3. running' \in [Services -> SUBSET Task]
      <3>1. CASE Resume(w, Handler("create", s))
        BY <3>1, ResumeTyped
      <3>2. CASE running' = [running EXCEPT ![w] =
                               (@ \ {Handler("create", s)}) \cup {Handler("firstin", s)}]
        BY <2>1, <3>2 DEF TypeOK
      <3> QED BY <1>6, <3>1, <3>2 DEF PlayerCreated
    <2>4. onmap' \in [Services -> SUBSET Sids]
      <3>1. CASE onmap' = [onmap EXCEPT ![w] = @ \cup {s}]
        BY <3>1 DEF TypeOK
      <3>2. CASE onmap' = onmap
        BY <3>2 DEF TypeOK
      <3> QED BY <1>6, <3>1, <3>2 DEF PlayerCreated
    <2>6. players' = [players EXCEPT ![w] = @ \cup {s}]
      BY <1>6 DEF PlayerCreated
    <2>7. players' \in [Services -> SUBSET Sids]
      BY <2>6 DEF TypeOK
    <2>5. firstin' \in SUBSET Sids
      BY <1>6 DEF PlayerCreated, TypeOK
    <2> QED BY <1>6, <2>2, <2>3, <2>4, <2>5, <2>7 DEF PlayerCreated, TypeOK, mainVars
  <1>7. ASSUME NEW s \in Sids, FirstinFlushed(w, s) PROVE TypeOK'
    BY <1>7 DEF FirstinFlushed, Resume, TypeOK, mainVars
  <1>8. ASSUME NEW s \in Sids, NEW n \in 1..MaxMsgs, LoginDone(w, s, n) PROVE TypeOK'
    <2>1. running' \in [Services -> SUBSET Task]
      BY <1>8, ResumeTyped DEF LoginDone
    <2>2. players' \in [Services -> SUBSET Sids]
      <3>1. CASE players' = [players EXCEPT ![w] = @ \cup {s}]
        BY <3>1 DEF TypeOK
      <3>2. CASE players' = players
        BY <3>2 DEF TypeOK
      <3> QED BY <1>8, <3>1, <3>2 DEF LoginDone
    <2> QED BY <1>8, <2>1, <2>2 DEF LoginDone, TypeOK, mainVars
  <1>9. ASSUME NEW s \in Sids, SessionRemoved(w, s) PROVE TypeOK'
    BY <1>9, NotifyRemovedTyped DEF SessionRemoved, Resume, TypeOK, mainVars
  <1>10. ASSUME NEW s \in Sids, SessionClosed(w, s) PROVE TypeOK'
    BY <1>10 DEF SessionClosed, Resume, TypeOK, mainVars
  <1> QED BY <1>1, <1>2, <1>3, <1>4, <1>5, <1>6, <1>7, <1>8, <1>9, <1>10
          DEF WorkerStep, Continuation

\* All variables keep their types for ever.
THEOREM TypeCorrect == Spec => []TypeOK
  <1>1. Init => TypeOK
    BY RoutingAssumption DEF Init, TypeOK, Services
  <1>2. TypeOK /\ [Next]_vars => TypeOK'
    <2>1. ASSUME TypeOK, UNCHANGED vars PROVE TypeOK'
      BY <2>1 DEF TypeOK, vars, mainVars, workerVars
    <2> QED BY <2>1, MainTyped, WorkerTyped DEF Next
  <1> QED BY <1>1, <1>2, PTL DEF Spec

-----------------------------------------------------------------------------
\* What serviceworker.add_session does to main's tables when the session is
\* held nowhere: exactly the named proxy holds it afterwards.
LEMMA AddSessionRoutes ==
    ASSUME TypeOK, NEW w \in Services, NEW s \in Sids, AddSession(w, s),
           \A v \in Services : s \notin held[v]
    PROVE  /\ current' = [current EXCEPT ![s] = w]
           /\ held' = [held EXCEPT ![w] = @ \cup {s}]
  BY DEF AddSession

\* The initial state, and every step, keeps the routing tables consistent.
LEMMA InitIInv == Init => IInv
  BY RoutingAssumption DEF Init, IInv, TypeOK, RoutedOnce, NewIsUnknown, Services

LEMMA NextIInv == IInv /\ [Next]_vars => IInv'
  <1> SUFFICES ASSUME IInv, [Next]_vars, TypeOK' PROVE RoutedOnce' /\ NewIsUnknown'
    <2>1. TypeOK /\ [Next]_vars => TypeOK'
      <3>1. ASSUME TypeOK, UNCHANGED vars PROVE TypeOK'
        BY <3>1 DEF TypeOK, vars, mainVars, workerVars
      <3> QED BY <3>1, MainTyped, WorkerTyped DEF Next
    <2> QED BY <2>1 DEF IInv
  <1> USE DEF IInv
  <1>1. ASSUME UNCHANGED mainVars PROVE RoutedOnce' /\ NewIsUnknown'
    BY <1>1 DEF mainVars, RoutedOnce, NewIsUnknown
  <1>2. ASSUME NEW s \in Sids, Connect(s) PROVE RoutedOnce' /\ NewIsUnknown'
    <2>1. s \notin mgr /\ Entry[s] \in Services /\ Entry[s] # NoService
      BY <1>2, RoutingAssumption DEF Connect, NewIsUnknown, Services
    <2>2. \A v \in Services : s \notin held[v] /\ s \notin changing[v]
      BY <2>1 DEF RoutedOnce
    <2>3. /\ current' = [current EXCEPT ![s] = Entry[s]]
          /\ held' = [held EXCEPT ![Entry[s]] = @ \cup {s}]
      BY <1>2, <2>1, <2>2, AddSessionRoutes DEF Connect
    <2>4. /\ sock' = [sock EXCEPT ![s] = "open"] /\ mgr' = mgr \cup {s}
          /\ changing' = changing
      BY <1>2 DEF Connect
    <2> QED BY <2>1, <2>2, <2>3, <2>4 DEF RoutedOnce, NewIsUnknown, TypeOK
  <1>3. ASSUME NEW s \in Sids, SocketClose(s) PROVE RoutedOnce' /\ NewIsUnknown'
    <2>1. sock' = [sock EXCEPT ![s] = "closed"] /\ UNCHANGED <<current, changing>>
      BY <1>3 DEF SocketClose
    <2>2. CASE s \in mgr /\ current[s] # NoService
      <3>1. current[s] \in Services /\ s \in held[current[s]]
        BY <2>2 DEF TypeOK, RoutedOnce
      <3>2. held' = [held EXCEPT ![current[s]] = @ \ {s}] /\ mgr' = mgr \ {s}
        BY <1>3, <2>2, <3>1 DEF SocketClose, CloseSession
      <3> QED BY <2>1, <2>2, <3>1, <3>2 DEF RoutedOnce, NewIsUnknown, TypeOK
    <2>3. CASE ~(s \in mgr /\ current[s] # NoService)
      <3>1. UNCHANGED <<held, mgr>>
        BY <1>3, <2>3 DEF SocketClose
      <3> QED BY <2>1, <3>1 DEF RoutedOnce, NewIsUnknown, TypeOK
    <2> QED BY <2>2, <2>3
  <1>4. ASSUME NEW w \in Services, OnChangeService(w) PROVE RoutedOnce' /\ NewIsUnknown'
    <2> DEFINE s == Head(toMain[w]).sid
    <2>1. s \in Sids /\ mgr' = mgr
      BY <1>4, ReceiveTyped DEF OnChangeService, Reply
    <2>2. CASE s \in held[w]
      <3>1. /\ held' = [held EXCEPT ![w] = @ \ {s}]
            /\ current' = [current EXCEPT ![s] = NoService]
            /\ changing' = [changing EXCEPT ![w] = @ \cup {s}]
            /\ sock' = sock
        BY <1>4, <2>2 DEF OnChangeService, RemoveSession
      <3>2. s \in mgr /\ current[s] = w /\ w # NoService
        BY <2>1, <2>2, RoutingAssumption DEF RoutedOnce
      <3> HIDE DEF s
      <3>3. \A v \in Services : v # NoService /\ s \notin changing[v]
        BY <2>1, <3>2, RoutingAssumption DEF RoutedOnce
      <3>4. ASSUME NEW r \in Sids, r # s
            PROVE  /\ current'[r] = current[r]
                   /\ \A v \in Services : /\ r \in held'[v] <=> r \in held[v]
                                          /\ r \in changing'[v] <=> r \in changing[v]
        BY <2>1, <3>1, <3>4 DEF TypeOK
      <3>5. /\ current'[s] = NoService
            /\ \A v \in Services : /\ s \notin held'[v]
                                   /\ s \in changing'[v] <=> v = w
        BY <2>1, <3>1, <3>2, <3>3 DEF TypeOK, RoutedOnce
      <3>6. RoutedOnce'
        <4>1. \A r \in Sids, v \in Services : r \in held'[v] <=> r \in mgr' /\ current'[r] = v
          <5> SUFFICES ASSUME NEW r \in Sids, NEW v \in Services
                       PROVE  r \in held'[v] <=> r \in mgr' /\ current'[r] = v
            OBVIOUS
          <5>1. CASE r = s  BY <2>1, <3>3, <3>5, <5>1
          <5>2. CASE r # s  BY <2>1, <3>4, <5>2 DEF RoutedOnce
          <5> QED BY <5>1, <5>2
        <4>2. ASSUME NEW r \in mgr', current'[r] = NoService
              PROVE  \E v \in Services : r \in changing'[v]
          <5>1. CASE r = s  BY <3>5, <5>1
          <5>2. CASE r # s  BY <2>1, <3>4, <4>2, <5>2 DEF RoutedOnce, TypeOK
          <5> QED BY <5>1, <5>2
        <4>3. ASSUME NEW r \in Sids, NEW v \in Services, r \in changing'[v]
              PROVE  /\ r \in mgr' /\ current'[r] = NoService
                     /\ \A u \in Services : r \in changing'[u] => u = v
          <5>1. CASE r = s  BY <2>1, <3>2, <3>5, <4>3, <5>1
          <5>2. CASE r # s  BY <2>1, <3>4, <4>3, <5>2 DEF RoutedOnce
          <5> QED BY <5>1, <5>2
        <4> QED BY <4>1, <4>2, <4>3 DEF RoutedOnce
      <3> QED BY <2>1, <3>1, <3>6 DEF NewIsUnknown
    <2>3. CASE s \notin held[w]
      <3>1. Disconnect(s) /\ UNCHANGED <<held, current, changing>>
        BY <1>4, <2>3 DEF OnChangeService
      <3> QED BY <2>1, <3>1 DEF Disconnect, RoutedOnce, NewIsUnknown, TypeOK
    <2> QED BY <2>2, <2>3
  <1>5. ASSUME NEW w \in Services, OnSessionRemoved(w) PROVE RoutedOnce' /\ NewIsUnknown'
    <2> DEFINE s == Head(toMain[w]).sid
               t == Head(toMain[w]).to
    <2>1. /\ Head(toMain[w]) \in Reply
          /\ Head(toMain[w]).cmd = "changeservice_sesrmved"
          /\ mgr' = mgr
      BY <1>5, ReceiveTyped DEF OnSessionRemoved
    <2>2. s \in Sids /\ t \in Services /\ t # NoService
      BY <2>1, RoutingAssumption DEF Reply, Services
    <2>3. CASE s \in changing[w]
      <3>1. AddSession(t, s) /\ changing' = [changing EXCEPT ![w] = @ \ {s}] /\ sock' = sock
        BY <1>5, <2>3 DEF OnSessionRemoved
      <3>2. s \in mgr /\ current[s] = NoService /\ \A v \in Services : s \notin held[v]
        BY <2>2, <2>3, RoutingAssumption DEF RoutedOnce
      <3>3. /\ current' = [current EXCEPT ![s] = t]
            /\ held' = [held EXCEPT ![t] = @ \cup {s}]
        BY <2>2, <3>1, <3>2, AddSessionRoutes
      <3> HIDE DEF s, t
      <3>4. ASSUME NEW r \in Sids, r # s
            PROVE  /\ current'[r] = current[r]
                   /\ \A v \in Services : /\ r \in held'[v] <=> r \in held[v]
                                          /\ r \in changing'[v] <=> r \in changing[v]
        BY <2>2, <3>1, <3>3, <3>4 DEF TypeOK
      <3>5. /\ current'[s] = t
            /\ \A v \in Services : /\ s \in held'[v] <=> v = t
                                   /\ s \notin changing'[v]
        BY <2>2, <2>3, <3>1, <3>2, <3>3 DEF TypeOK, RoutedOnce
      <3>6. RoutedOnce'
        <4>1. \A r \in Sids, v \in Services : r \in held'[v] <=> r \in mgr' /\ current'[r] = v
          <5> SUFFICES ASSUME NEW r \in Sids, NEW v \in Services
                       PROVE  r \in held'[v] <=> r \in mgr' /\ current'[r] = v
            OBVIOUS
          <5>1. CASE r = s  BY <2>1, <3>2, <3>5, <5>1
          <5>2. CASE r # s  BY <2>1, <3>4, <5>2 DEF RoutedOnce
          <5> QED BY <5>1, <5>2
        <4>2. ASSUME NEW r \in mgr', current'[r] = NoService
              PROVE  \E v \in Services : r \in changing'[v]
          <5>1. r # s  BY <2>2, <3>5, <4>2
          <5> QED BY <2>1, <3>4, <4>2, <5>1 DEF RoutedOnce, TypeOK
        <4>3. ASSUME NEW r \in Sids, NEW v \in Services, r \in changing'[v]
              PROVE  /\ r \in mgr' /\ current'[r] = NoService
                     /\ \A u \in Services : r \in changing'[u] => u = v
          <5>1. r # s  BY <3>5, <4>3
          <5> QED BY <2>1, <3>4, <4>3, <5>1 DEF RoutedOnce
        <4> QED BY <4>1, <4>2, <4>3 DEF RoutedOnce
      <3> QED BY <2>1, <3>1, <3>6 DEF NewIsUnknown
    <2>4. CASE s \notin changing[w]
      <3>1. Disconnect(s) /\ UNCHANGED <<held, current, changing>>
        BY <1>5, <2>4 DEF OnSessionRemoved
      <3> QED BY <2>1, <2>2, <3>1 DEF Disconnect, RoutedOnce, NewIsUnknown, TypeOK
    <2> QED BY <2>3, <2>4
  <1>6. ASSUME NEW w \in Services, OnKickPlayer(w) PROVE RoutedOnce' /\ NewIsUnknown'
    BY <1>6 DEF OnKickPlayer, Disconnect, RoutedOnce, NewIsUnknown, TypeOK
  <1>7. ASSUME NEW s \in Sids, ClientMessage(s) PROVE UNCHANGED mainVars
    BY <1>7 DEF ClientMessage, Packet
  <1>8. ASSUME NEW w \in Services, WorkerStep(w) PROVE UNCHANGED mainVars
    BY <1>8 DEF WorkerStep, OnAddSession, OnLogin, OnChange, OnRemoveSession, OnSessionClose
  <1>9. ASSUME NEW w \in Services, NEW s \in Sids, Continuation(w, s) PROVE UNCHANGED mainVars
    BY <1>9 DEF Continuation, PlayerCreated, FirstinFlushed, SessionRemoved, SessionClosed, LoginDone
  <1>10. UNCHANGED vars => UNCHANGED mainVars
    BY DEF vars
  <1> QED BY <1>1, <1>2, <1>3, <1>4, <1>5, <1>6, <1>7, <1>8, <1>9, <1>10 DEF Next, MainStep

\* Main never routes one session to two workers and never loses track of one:
\* serviceworker_nodeimpl's tables and session.current_service always agree.
THEOREM Routing == Spec => []RoutedOnce
  <1>1. IInv => RoutedOnce
    BY DEF IInv
  <1> QED BY InitIInv, NextIInv, <1>1, PTL DEF Spec

-----------------------------------------------------------------------------
\* What an invariant of the travelling session reads of the ports and tables.
Has(q, c, s)     == \E i \in DOMAIN q : q[i].cmd = c /\ q[i].sid = s
Once(q, c, s)    == \A i, j \in DOMAIN q :
                      q[i].cmd = c /\ q[i].sid = s /\ q[j].cmd = c /\ q[j].sid = s => i = j
Before(q, c, d, s) == \A i, j \in DOMAIN q :
                      q[i].cmd = c /\ q[i].sid = s /\ q[j].cmd = d /\ q[j].sid = s => i < j

Add(w, s)  == Has(toWorker[w], "add_session", s)
Rmv(w, s)  == Has(toWorker[w], "rmv_session", s)
Cls(w, s)  == Has(toWorker[w], "close_session", s)
Chg(w, s)  == Has(toMain[w], "changeservice", s)
Rmd(w, s)  == Has(toMain[w], "changeservice_sesrmved", s)
Creating(w, s) == Handler("create", s) \in running[w]
Entering(w, s) == Handler("firstin", s) \in running[w]
Removing(w, s) == Handler("remove", s) \in running[w]
Closing(w, s)  == Handler("close", s) \in running[w]
In(w, s)     == s \in sessions[w]
Plays(w, s)  == s \in players[w]
OnMap(w, s)  == s \in onmap[w]
Marked(w, s) == marks[w][s] # NoService
Held(w, s)   == s \in held[w]
Moving(w, s) == s \in changing[w]

\* The worker has the session, will have it, or (a world) has its player or makes it.
At(w, s) == \/ Add(w, s) \/ In(w, s) \/ Creating(w, s) \/ Entering(w, s)
            \/ w \in World /\ Plays(w, s)

\* The session is there and complete: what a worker's change or removal finds.
Settled(w, s) ==
    /\ In(w, s) /\ Marked(w, s)
    /\ ~Add(w, s) /\ ~Creating(w, s) /\ ~Entering(w, s)
    /\ w \in World => Plays(w, s)

\* Unknown before it is connected.
Fresh(s) == sock[s] = "new" => \A w \in Services :
    ~At(w, s) /\ ~OnMap(w, s) /\ ~Chg(w, s) /\ ~Rmd(w, s)
\* In one place, which main knows.
OnePlace(s) == \A v, w \in Services :
    At(w, s) /\ (At(v, s) \/ Held(v, s) \/ Moving(v, s)) => v = w
\* On its way in: told, being created, entering, on a map, in this order.
Arriving(w, s) ==
    /\ Add(w, s) => ~In(w, s) /\ ~Creating(w, s) /\ ~Entering(w, s) /\ ~OnMap(w, s)
    /\ Creating(w, s) => ~Entering(w, s) /\ ~OnMap(w, s)
    /\ Entering(w, s) => ~OnMap(w, s)
    /\ s \in mgr /\ (Entering(w, s) \/ OnMap(w, s)) => Plays(w, s)
\* Staying.
Staying(w, s) ==
    /\ Held(w, s) => /\ ~Rmv(w, s) /\ ~Cls(w, s) /\ ~Removing(w, s) /\ ~Closing(w, s)
                     /\ In(w, s) \/ Add(w, s)
                     /\ Chg(w, s) => Settled(w, s)
    /\ In(w, s) \/ Add(w, s) =>
         Held(w, s) \/ Moving(w, s) \/ Cls(w, s) \/ Closing(w, s)
    /\ s \in mgr /\ Chg(w, s) => Held(w, s) \/ Moving(w, s)
\* On its way out: told, being flushed, answered, in this order.
Leaving(w, s) ==
    /\ Moving(w, s) => Rmv(w, s) \/ Removing(w, s) \/ Rmd(w, s)
    /\ Rmv(w, s) => Moving(w, s) /\ Settled(w, s) /\ ~Removing(w, s) /\ ~Rmd(w, s)
    /\ Removing(w, s) => Moving(w, s) /\ Settled(w, s) /\ ~OnMap(w, s) /\ ~Rmd(w, s)
    /\ Rmd(w, s) => Moving(w, s) /\ ~At(w, s)
\* Dropped.
Dropped(w, s) ==
    /\ Cls(w, s) \/ Closing(w, s) => s \notin mgr /\ sock[s] # "new"
    /\ Cls(w, s) => (In(w, s) \/ Add(w, s)) /\ ~Closing(w, s)
    /\ Closing(w, s) => In(w, s) /\ ~Add(w, s)
\* The order of the ports.
PortIn(w, s) ==
    /\ Once(toWorker[w], "add_session", s)
    /\ Once(toWorker[w], "rmv_session", s)
    /\ Once(toWorker[w], "close_session", s)
    /\ Before(toWorker[w], "add_session", "close_session", s)
PortOut(w, s) ==
    /\ Once(toMain[w], "changeservice_sesrmved", s)
    /\ Before(toMain[w], "changeservice", "changeservice_sesrmved", s)
\* Logins are for outgame workers, entries for worlds.
Kinds(w) ==
    /\ \A i \in DOMAIN toWorker[w] : toWorker[w][i].cmd = "login" => w \notin World
    /\ \A h \in running[w] : /\ h.stage = "login" => w \notin World
                             /\ h.stage \in {"create", "firstin"} => w \in World

Local(w, s) == /\ Arriving(w, s) /\ Staying(w, s) /\ Leaving(w, s) /\ Dropped(w, s)
               /\ PortIn(w, s) /\ PortOut(w, s)
\* The way of a session through the ports and tables: in one place at a time, and
\* at each worker in, there, and out, in this order.
Travels(s) == Fresh(s) /\ OnePlace(s) /\ \A w \in Services : Local(w, s)
TInv == /\ \A s \in Sids : Travels(s)
        /\ \A w \in Services : Kinds(w)

-----------------------------------------------------------------------------
\* Ports are queues: what posting and taking the head do to what is in them.
LEMMA AppendHas ==
    ASSUME NEW S, NEW q \in Seq(S), NEW m \in S, NEW c, NEW s
    PROVE  Has(Append(q, m), c, s) <=> Has(q, c, s) \/ (m.cmd = c /\ m.sid = s)
  <1>1. /\ Len(Append(q, m)) = Len(q) + 1 /\ Len(q) \in Nat
        /\ \A i \in 1..Len(q) : Append(q, m)[i] = q[i]
        /\ Append(q, m)[Len(q) + 1] = m
        /\ DOMAIN q = 1..Len(q) /\ DOMAIN Append(q, m) = 1..(Len(q) + 1)
    BY AppendProperties, LenProperties
  <1> QED BY <1>1 DEF Has

LEMMA AppendOnce ==
    ASSUME NEW S, NEW q \in Seq(S), NEW m \in S, NEW c, NEW s,
           Once(q, c, s), Has(q, c, s) => ~(m.cmd = c /\ m.sid = s)
    PROVE  Once(Append(q, m), c, s)
  <1>1. /\ Len(Append(q, m)) = Len(q) + 1 /\ Len(q) \in Nat
        /\ \A i \in 1..Len(q) : Append(q, m)[i] = q[i]
        /\ Append(q, m)[Len(q) + 1] = m
        /\ DOMAIN q = 1..Len(q) /\ DOMAIN Append(q, m) = 1..(Len(q) + 1)
    BY AppendProperties, LenProperties
  <1> QED BY <1>1 DEF Has, Once

LEMMA AppendBefore ==
    ASSUME NEW S, NEW q \in Seq(S), NEW m \in S, NEW c, NEW d, NEW s, c # d,
           Before(q, c, d, s), Has(q, d, s) => ~(m.cmd = c /\ m.sid = s)
    PROVE  Before(Append(q, m), c, d, s)
  <1>1. /\ Len(Append(q, m)) = Len(q) + 1 /\ Len(q) \in Nat
        /\ \A i \in 1..Len(q) : Append(q, m)[i] = q[i]
        /\ Append(q, m)[Len(q) + 1] = m
        /\ DOMAIN q = 1..Len(q) /\ DOMAIN Append(q, m) = 1..(Len(q) + 1)
    BY AppendProperties, LenProperties
  <1> QED BY <1>1 DEF Has, Before

LEMMA TailShape ==
    ASSUME NEW S, NEW q \in Seq(S), q # <<>>
    PROVE  /\ Len(q) \in Nat \ {0} /\ DOMAIN q = 1..Len(q)
           /\ DOMAIN Tail(q) = 1..(Len(q) - 1)
           /\ \A i \in 1..(Len(q) - 1) : Tail(q)[i] = q[i + 1]
           /\ Head(q) = q[1]
  <1>1. Len(q) \in Nat \ {0} /\ DOMAIN q = 1..Len(q)
    BY EmptySeq, LenProperties
  <1>2. Tail(q) \in Seq(S) /\ Len(Tail(q)) = Len(q) - 1
    BY <1>1, HeadTailProperties
  <1>3. DOMAIN Tail(q) = 1..(Len(q) - 1)
    BY <1>1, <1>2, LenProperties
  <1>4. \A i \in 1..(Len(q) - 1) : Tail(q)[i] = q[i + 1]
    BY <1>1, <1>2, HeadTailProperties
  <1>5. Head(q) = q[1]
    OBVIOUS
  <1> QED BY <1>1, <1>3, <1>4, <1>5

LEMMA TailHas ==
    ASSUME NEW S, NEW q \in Seq(S), q # <<>>, NEW c, NEW s
    PROVE  /\ Has(Tail(q), c, s) => Has(q, c, s)
           /\ Has(q, c, s) => Has(Tail(q), c, s) \/ (Head(q).cmd = c /\ Head(q).sid = s)
           /\ Head(q).cmd = c /\ Head(q).sid = s => Has(q, c, s)
           /\ Head(q).cmd = c /\ Head(q).sid = s /\ Once(q, c, s) => ~Has(Tail(q), c, s)
  <1> USE TailShape
  <1>1. Has(Tail(q), c, s) => Has(q, c, s)
    BY DEF Has
  <1>2. Has(q, c, s) => Has(Tail(q), c, s) \/ (Head(q).cmd = c /\ Head(q).sid = s)
    <2>1. ASSUME NEW i \in DOMAIN q, q[i].cmd = c, q[i].sid = s, i # 1
          PROVE  Has(Tail(q), c, s)
      <3>1. i - 1 \in DOMAIN Tail(q) /\ Tail(q)[i - 1] = q[i]
        BY <2>1
      <3> QED BY <2>1, <3>1 DEF Has
    <2> QED BY <2>1 DEF Has
  <1>3. Head(q).cmd = c /\ Head(q).sid = s => Has(q, c, s)
    BY DEF Has
  <1>4. Head(q).cmd = c /\ Head(q).sid = s /\ Once(q, c, s) => ~Has(Tail(q), c, s)
    BY DEF Has, Once
  <1> QED BY <1>1, <1>2, <1>3, <1>4

LEMMA TailOrder ==
    ASSUME NEW S, NEW q \in Seq(S), q # <<>>, NEW c, NEW d, NEW s
    PROVE  /\ Once(q, c, s) => Once(Tail(q), c, s)
           /\ Before(q, c, d, s) => Before(Tail(q), c, d, s)
           /\ Before(q, c, d, s) /\ Head(q).cmd = d /\ Head(q).sid = s => ~Has(q, c, s)
  <1> USE TailShape
  <1>1. Once(q, c, s) => Once(Tail(q), c, s)
    BY DEF Once
  <1>2. Before(q, c, d, s) => Before(Tail(q), c, d, s)
    BY DEF Before
  <1>3. Before(q, c, d, s) /\ Head(q).cmd = d /\ Head(q).sid = s => ~Has(q, c, s)
    BY DEF Before, Has
  <1> QED BY <1>1, <1>2, <1>3

-----------------------------------------------------------------------------
\* What one step does to one session at one worker, and what it leaves alone.
SameIn(w, s) ==
    /\ Add(w, s)' <=> Add(w, s)
    /\ Rmv(w, s)' <=> Rmv(w, s)
    /\ Cls(w, s)' <=> Cls(w, s)
    /\ PortIn(w, s) => PortIn(w, s)'
SameOut(w, s) ==
    /\ Chg(w, s)' => Chg(w, s)
    /\ Rmd(w, s)' <=> Rmd(w, s)
    /\ PortOut(w, s) => PortOut(w, s)'

LEMMA PostEffect ==
    ASSUME TypeOK, NEW w \in Services, NEW m \in Msg, Post(w, m),
           NEW v \in Services, NEW r \in Sids
    PROVE  /\ v # w \/ r # m.sid => SameIn(v, r)
           /\ m.cmd \notin {"add_session", "rmv_session", "close_session"} => SameIn(v, r)
           /\ r = m.sid =>
                /\ Add(w, r)' <=> Add(w, r) \/ m.cmd = "add_session"
                /\ Rmv(w, r)' <=> Rmv(w, r) \/ m.cmd = "rmv_session"
                /\ Cls(w, r)' <=> Cls(w, r) \/ m.cmd = "close_session"
                /\ /\ PortIn(w, r)
                   /\ m.cmd = "add_session" => ~Add(w, r) /\ ~Cls(w, r)
                   /\ m.cmd = "rmv_session" => ~Rmv(w, r)
                   /\ m.cmd = "close_session" => ~Cls(w, r)
                   => PortIn(w, r)'
  <1>1. toWorker[w] \in Seq(Msg) /\ toWorker'[w] = Append(toWorker[w], m)
    BY DEF TypeOK, Post
  <1>2. v # w => toWorker'[v] = toWorker[v]
    BY DEF TypeOK, Post
  <1>3. \A c : Has(toWorker'[w], c, r) <=> Has(toWorker[w], c, r) \/ (m.cmd = c /\ m.sid = r)
    BY <1>1, AppendHas
  <1>4. /\ Add(w, r)' <=> Add(w, r) \/ (m.cmd = "add_session" /\ m.sid = r)
        /\ Rmv(w, r)' <=> Rmv(w, r) \/ (m.cmd = "rmv_session" /\ m.sid = r)
        /\ Cls(w, r)' <=> Cls(w, r) \/ (m.cmd = "close_session" /\ m.sid = r)
    BY <1>3 DEF Add, Rmv, Cls
  <1>5. ASSUME PortIn(w, r),
               m.cmd = "add_session" /\ m.sid = r => ~Add(w, r) /\ ~Cls(w, r),
               m.cmd = "rmv_session" /\ m.sid = r => ~Rmv(w, r),
               m.cmd = "close_session" /\ m.sid = r => ~Cls(w, r)
        PROVE  PortIn(w, r)'
    <2>1. Once(toWorker'[w], "add_session", r)
      BY <1>1, <1>5, AppendOnce DEF PortIn, Add
    <2>2. Once(toWorker'[w], "rmv_session", r)
      BY <1>1, <1>5, AppendOnce DEF PortIn, Rmv
    <2>3. Once(toWorker'[w], "close_session", r)
      BY <1>1, <1>5, AppendOnce DEF PortIn, Cls
    <2>4. Before(toWorker'[w], "add_session", "close_session", r)
      BY <1>1, <1>5, AppendBefore DEF PortIn, Cls
    <2> QED BY <2>1, <2>2, <2>3, <2>4 DEF PortIn
  <1>6. v # w => SameIn(v, r)
    BY <1>2 DEF SameIn, Add, Rmv, Cls, PortIn
  <1>7. /\ r # m.sid => SameIn(w, r)
        /\ m.cmd \notin {"add_session", "rmv_session", "close_session"} => SameIn(w, r)
    BY <1>4, <1>5 DEF SameIn
  <1> QED BY <1>4, <1>5, <1>6, <1>7

LEMMA DispatchEffect ==
    ASSUME TypeOK, NEW w \in Services, NEW c, Dispatch(w, c),
           NEW v \in Services, NEW r \in Sids
    PROVE  LET s == Head(toWorker[w]).sid IN
           /\ v # w \/ r # s => SameIn(v, r)
           /\ c \notin {"add_session", "rmv_session", "close_session"} => SameIn(v, r)
           /\ r = s =>
                /\ PortIn(w, r) => PortIn(w, r)'
                /\ c # "add_session" => (Add(w, r)' <=> Add(w, r))
                /\ c # "rmv_session" => (Rmv(w, r)' <=> Rmv(w, r))
                /\ c # "close_session" => (Cls(w, r)' <=> Cls(w, r))
                /\ c = "add_session" => Add(w, r) /\ (PortIn(w, r) => ~Add(w, r)')
                /\ c = "rmv_session" => Rmv(w, r) /\ (PortIn(w, r) => ~Rmv(w, r)')
                /\ c = "close_session" => /\ Cls(w, r)
                                          /\ PortIn(w, r) => ~Cls(w, r)' /\ ~Add(w, r)
  <1> DEFINE s == Head(toWorker[w]).sid
             q == toWorker[w]
  <1>1. /\ q \in Seq(Msg) /\ q # <<>> /\ toWorker'[w] = Tail(q) /\ Head(q).cmd = c
    BY DEF TypeOK, Dispatch
  <1>2. v # w => toWorker'[v] = toWorker[v]
    BY DEF TypeOK, Dispatch
  <1>3. v # w => SameIn(v, r)
    BY <1>2 DEF SameIn, Add, Rmv, Cls, PortIn
  <1> HIDE DEF q, s
  <1>5. \A d : /\ Has(Tail(q), d, r) => Has(q, d, r)
               /\ Has(q, d, r) => Has(Tail(q), d, r) \/ (c = d /\ s = r)
               /\ c = d /\ s = r => Has(q, d, r)
               /\ c = d /\ s = r /\ Once(q, d, r) => ~Has(Tail(q), d, r)
    BY <1>1, TailHas DEF s, q
  <1>6. /\ Add(w, r)' <=> Has(Tail(q), "add_session", r)
        /\ Rmv(w, r)' <=> Has(Tail(q), "rmv_session", r)
        /\ Cls(w, r)' <=> Has(Tail(q), "close_session", r)
        /\ Add(w, r) <=> Has(q, "add_session", r)
        /\ Rmv(w, r) <=> Has(q, "rmv_session", r)
        /\ Cls(w, r) <=> Has(q, "close_session", r)
    BY <1>1 DEF Add, Rmv, Cls, q
  <1>7. PortIn(w, r) => PortIn(w, r)'
    BY <1>1, TailOrder DEF PortIn, q
  <1>8. PortIn(w, r) => /\ Once(q, "add_session", r)
                        /\ Once(q, "rmv_session", r)
                        /\ Once(q, "close_session", r)
                        /\ c = "close_session" /\ s = r => ~Has(q, "add_session", r)
    BY <1>1, TailOrder DEF PortIn, q, s
  <1>9. c # "add_session" \/ r # s => (Add(w, r)' <=> Add(w, r))
    BY <1>5, <1>6
  <1>10. c # "rmv_session" \/ r # s => (Rmv(w, r)' <=> Rmv(w, r))
    BY <1>5, <1>6
  <1>11. c # "close_session" \/ r # s => (Cls(w, r)' <=> Cls(w, r))
    BY <1>5, <1>6
  <1>12. r = s =>
           /\ c = "add_session" => Add(w, r) /\ (PortIn(w, r) => ~Add(w, r)')
           /\ c = "rmv_session" => Rmv(w, r) /\ (PortIn(w, r) => ~Rmv(w, r)')
           /\ c = "close_session" => /\ Cls(w, r)
                                     /\ PortIn(w, r) => ~Cls(w, r)' /\ ~Add(w, r)
    BY <1>5, <1>6, <1>8
  <1>13. r # s \/ c \notin {"add_session", "rmv_session", "close_session"} => SameIn(w, r)
    BY <1>7, <1>9, <1>10, <1>11 DEF SameIn
  <1> QED BY <1>3, <1>7, <1>9, <1>10, <1>11, <1>12, <1>13 DEF s

LEMMA NotifyEffect ==
    ASSUME TypeOK, NEW w \in Services, NEW m \in Reply, Notify(w, m),
           NEW v \in Services, NEW r \in Sids
    PROVE  /\ v # w \/ r # m.sid => SameOut(v, r)
           /\ m.cmd \notin {"changeservice", "changeservice_sesrmved"} => SameOut(v, r)
           /\ r = m.sid =>
                /\ Chg(w, r)' <=> Chg(w, r) \/ m.cmd = "changeservice"
                /\ Rmd(w, r)' <=> Rmd(w, r) \/ m.cmd = "changeservice_sesrmved"
                /\ PortOut(w, r) /\ ~Rmd(w, r) => PortOut(w, r)'
  <1>1. toMain[w] \in Seq(Reply) /\ toMain'[w] = Append(toMain[w], m)
    BY DEF TypeOK, Notify
  <1>2. v # w => toMain'[v] = toMain[v]
    BY DEF TypeOK, Notify
  <1>3. \A c : Has(toMain'[w], c, r) <=> Has(toMain[w], c, r) \/ (m.cmd = c /\ m.sid = r)
    BY <1>1, AppendHas
  <1>4. /\ Chg(w, r)' <=> Chg(w, r) \/ (m.cmd = "changeservice" /\ m.sid = r)
        /\ Rmd(w, r)' <=> Rmd(w, r) \/ (m.cmd = "changeservice_sesrmved" /\ m.sid = r)
    BY <1>3 DEF Chg, Rmd
  <1>5. ASSUME PortOut(w, r),
               \/ ~Rmd(w, r)
               \/ ~(m.cmd \in {"changeservice", "changeservice_sesrmved"} /\ m.sid = r)
        PROVE  PortOut(w, r)'
    <2>1. Once(toMain'[w], "changeservice_sesrmved", r)
      BY <1>1, <1>5, AppendOnce DEF PortOut, Rmd
    <2>2. Before(toMain'[w], "changeservice", "changeservice_sesrmved", r)
      BY <1>1, <1>5, AppendBefore DEF PortOut, Rmd
    <2> QED BY <2>1, <2>2 DEF PortOut
  <1>6. v # w => SameOut(v, r)
    BY <1>2 DEF SameOut, Chg, Rmd, PortOut
  <1>7. /\ r # m.sid => SameOut(w, r)
        /\ m.cmd \notin {"changeservice", "changeservice_sesrmved"} => SameOut(w, r)
    BY <1>4, <1>5 DEF SameOut
  <1> QED BY <1>4, <1>5, <1>6, <1>7

LEMMA ReceiveEffect ==
    ASSUME TypeOK, NEW w \in Services, NEW c, Arrived(w, c), Receive(w),
           NEW v \in Services, NEW r \in Sids
    PROVE  LET s == Head(toMain[w]).sid IN
           /\ v # w \/ r # s => SameOut(v, r)
           /\ c # "changeservice_sesrmved" => SameOut(v, r)
           /\ r = s =>
                /\ PortOut(w, r) => PortOut(w, r)'
                /\ Chg(w, r)' => Chg(w, r)
                /\ c = "changeservice" => Chg(w, r)
                /\ c = "changeservice_sesrmved" =>
                     /\ Rmd(w, r)
                     /\ PortOut(w, r) => ~Rmd(w, r)' /\ ~Chg(w, r)
  <1> DEFINE s == Head(toMain[w]).sid
             q == toMain[w]
  <1>1. /\ q \in Seq(Reply) /\ q # <<>> /\ toMain'[w] = Tail(q) /\ Head(q).cmd = c
    BY DEF TypeOK, Arrived, Receive
  <1>2. v # w => toMain'[v] = toMain[v]
    BY DEF TypeOK, Receive
  <1>3. v # w => SameOut(v, r)
    BY <1>2 DEF SameOut, Chg, Rmd, PortOut
  <1> HIDE DEF q, s
  <1>5. \A d : /\ Has(Tail(q), d, r) => Has(q, d, r)
               /\ Has(q, d, r) => Has(Tail(q), d, r) \/ (c = d /\ s = r)
               /\ c = d /\ s = r => Has(q, d, r)
               /\ c = d /\ s = r /\ Once(q, d, r) => ~Has(Tail(q), d, r)
    BY <1>1, TailHas DEF s, q
  <1>6. /\ Chg(w, r)' <=> Has(Tail(q), "changeservice", r)
        /\ Rmd(w, r)' <=> Has(Tail(q), "changeservice_sesrmved", r)
        /\ Chg(w, r) <=> Has(q, "changeservice", r)
        /\ Rmd(w, r) <=> Has(q, "changeservice_sesrmved", r)
    BY <1>1 DEF Chg, Rmd, q
  <1>7. PortOut(w, r) => PortOut(w, r)'
    BY <1>1, TailOrder DEF PortOut, q
  <1>8. PortOut(w, r) => /\ Once(q, "changeservice_sesrmved", r)
                         /\ c = "changeservice_sesrmved" /\ s = r => ~Has(q, "changeservice", r)
    BY <1>1, TailOrder DEF PortOut, q, s
  <1>10. c # "changeservice_sesrmved" \/ r # s => (Rmd(w, r)' <=> Rmd(w, r))
    BY <1>5, <1>6
  <1>11. Chg(w, r)' => Chg(w, r)
    BY <1>5, <1>6
  <1>12. r = s =>
           /\ c = "changeservice" => Chg(w, r)
           /\ c = "changeservice_sesrmved" => /\ Rmd(w, r)
                                              /\ PortOut(w, r) => ~Rmd(w, r)' /\ ~Chg(w, r)
    BY <1>5, <1>6, <1>8
  <1>13. r # s \/ c # "changeservice_sesrmved" => SameOut(w, r)
    BY <1>7, <1>10, <1>11 DEF SameOut
  <1> QED BY <1>3, <1>7, <1>11, <1>12, <1>13 DEF s

-----------------------------------------------------------------------------
SameDesk(w, s) ==
    /\ In(w, s)' <=> In(w, s)
    /\ Plays(w, s)' <=> Plays(w, s)
    /\ OnMap(w, s)' <=> OnMap(w, s)
    /\ Marked(w, s)' <=> Marked(w, s)
    /\ Creating(w, s)' <=> Creating(w, s)
    /\ Entering(w, s)' <=> Entering(w, s)
    /\ Removing(w, s)' <=> Removing(w, s)
    /\ Closing(w, s)' <=> Closing(w, s)
SameMain(w, s) ==
    /\ Held(w, s)' <=> Held(w, s)
    /\ Moving(w, s)' <=> Moving(w, s)
Same(w, s) == SameIn(w, s) /\ SameOut(w, s) /\ SameDesk(w, s) /\ SameMain(w, s)
SameTop(s) == /\ (s \in mgr)' => s \in mgr
              /\ (sock[s] = "new")' => sock[s] = "new"

\* A worker keeps what a step leaves alone.
LEMMA LocalKept ==
    ASSUME NEW w \in Services, NEW s \in Sids, SameTop(s), Same(w, s), Local(w, s)
    PROVE  Local(w, s)'
  <1>1. At(w, s)' <=> At(w, s)
    BY DEF Same, SameIn, SameDesk, At
  <1>2. Settled(w, s)' <=> Settled(w, s)
    BY DEF Same, SameIn, SameDesk, Settled
  <1>3. Arriving(w, s)'
    BY DEF Local, Same, SameTop, SameIn, SameDesk, Arriving
  <1>4. Staying(w, s)'
    BY <1>2 DEF Local, Same, SameTop, SameIn, SameOut, SameDesk, SameMain, Staying
  <1>5. Leaving(w, s)'
    BY <1>1, <1>2 DEF Local, Same, SameIn, SameOut, SameDesk, SameMain, Leaving
  <1>6. Dropped(w, s)'
    BY DEF Local, Same, SameTop, SameIn, SameDesk, Dropped
  <1> QED BY <1>3, <1>4, <1>5, <1>6 DEF Local, Same, SameIn, SameOut

\* A session a step leaves alone everywhere travels on.
LEMMA Untouched ==
    ASSUME NEW s \in Sids, Travels(s), SameTop(s), \A v \in Services : Same(v, s)
    PROVE  Travels(s)'
  <1>1. \A v \in Services : Local(v, s)'
    BY LocalKept DEF Travels
  <1>2. \A v \in Services : /\ At(v, s)' <=> At(v, s)
                            /\ OnMap(v, s)' <=> OnMap(v, s)
                            /\ Chg(v, s)' => Chg(v, s)
                            /\ Rmd(v, s)' <=> Rmd(v, s)
                            /\ Held(v, s)' <=> Held(v, s)
                            /\ Moving(v, s)' <=> Moving(v, s)
    BY DEF Same, SameIn, SameOut, SameDesk, SameMain, At
  <1>3. Fresh(s)'
    BY <1>2 DEF Travels, Fresh, SameTop
  <1>4. OnePlace(s)'
    BY <1>2 DEF Travels, OnePlace
  <1> QED BY <1>1, <1>3, <1>4 DEF Travels

\* So does one that a step moves at one worker, along its way.
LEMMA OneTouched ==
    ASSUME NEW s \in Sids, NEW w \in Services, Travels(s), SameTop(s),
           \A v \in Services : v # w => Same(v, s),
           At(w, s)' => At(w, s),
           Held(w, s)' \/ Moving(w, s)' => Held(w, s) \/ Moving(w, s),
           sock[s] = "new" => ~OnMap(w, s)' /\ ~Chg(w, s)' /\ ~Rmd(w, s)',
           Local(w, s)'
    PROVE  Travels(s)'
  <1>1. \A v \in Services : Local(v, s)'
    BY LocalKept DEF Travels
  <1>2. \A v \in Services : v # w => /\ At(v, s)' <=> At(v, s)
                                     /\ OnMap(v, s)' <=> OnMap(v, s)
                                     /\ Chg(v, s)' => Chg(v, s)
                                     /\ Rmd(v, s)' <=> Rmd(v, s)
                                     /\ Held(v, s)' <=> Held(v, s)
                                     /\ Moving(v, s)' <=> Moving(v, s)
    BY DEF Same, SameIn, SameOut, SameDesk, SameMain, At
  <1>3. Fresh(s)'
    BY <1>2 DEF Travels, Fresh, SameTop
  <1>4. \A v \in Services : /\ At(v, s)' => At(v, s)
                            /\ Held(v, s)' \/ Moving(v, s)' => Held(v, s) \/ Moving(v, s)
    BY <1>2
  <1>5. OnePlace(s)'
    BY <1>4 DEF Travels, OnePlace
  <1> QED BY <1>1, <1>3, <1>5 DEF Travels

\* Handlers of different stages or sessions are different.
LEMMA HandlersDiffer ==
    ASSUME NEW g, NEW h, NEW r, NEW s
    PROVE  /\ Handler(g, r) = Handler(h, s) <=> g = h /\ r = s
           /\ \A n : g # "login" => Handler(g, r) # [stage |-> "login", sid |-> s, n |-> n]
  BY DEF Handler

LEMMA RunAdd ==
    ASSUME TypeOK, NEW w \in Services, NEW g, NEW s \in Sids,
           Await(w, Handler(g, s)), NEW v \in Services, NEW r \in Sids
    PROVE  /\ Creating(v, r)' <=> Creating(v, r) \/ (v = w /\ g = "create" /\ r = s)
           /\ Entering(v, r)' <=> Entering(v, r) \/ (v = w /\ g = "firstin" /\ r = s)
           /\ Removing(v, r)' <=> Removing(v, r) \/ (v = w /\ g = "remove" /\ r = s)
           /\ Closing(v, r)' <=> Closing(v, r) \/ (v = w /\ g = "close" /\ r = s)
  <1>1. \A t : t \in running'[v] <=> t \in running[v] \/ (v = w /\ t = Handler(g, s))
    BY DEF Await, TypeOK
  <1> QED BY <1>1, HandlersDiffer DEF Creating, Entering, Removing, Closing

LEMMA RunEnd ==
    ASSUME TypeOK, NEW w \in Services, NEW g, NEW s \in Sids,
           Resume(w, Handler(g, s)), NEW v \in Services, NEW r \in Sids
    PROVE  /\ Creating(v, r)' <=> Creating(v, r) /\ ~(v = w /\ g = "create" /\ r = s)
           /\ Entering(v, r)' <=> Entering(v, r) /\ ~(v = w /\ g = "firstin" /\ r = s)
           /\ Removing(v, r)' <=> Removing(v, r) /\ ~(v = w /\ g = "remove" /\ r = s)
           /\ Closing(v, r)' <=> Closing(v, r) /\ ~(v = w /\ g = "close" /\ r = s)
  <1>1. \A t : t \in running'[v] <=> t \in running[v] /\ ~(v = w /\ t = Handler(g, s))
    BY DEF Resume, TypeOK
  <1> QED BY <1>1, HandlersDiffer DEF Creating, Entering, Removing, Closing

LEMMA RunLogin ==
    ASSUME TypeOK, NEW w \in Services, NEW s, NEW n, NEW h,
           h = [stage |-> "login", sid |-> s, n |-> n], Await(w, h) \/ Resume(w, h),
           NEW v \in Services, NEW r \in Sids
    PROVE  /\ Creating(v, r)' <=> Creating(v, r)
           /\ Entering(v, r)' <=> Entering(v, r)
           /\ Removing(v, r)' <=> Removing(v, r)
           /\ Closing(v, r)' <=> Closing(v, r)
  <1>1. \A t : t # h => (t \in running'[v] <=> t \in running[v])
    <2>1. CASE Await(w, h)   BY <2>1 DEF Await, TypeOK
    <2>2. CASE Resume(w, h)  BY <2>2 DEF Resume, TypeOK
    <2> QED BY <2>1, <2>2
  <1>2. \A g : g # "login" => Handler(g, r) # h
    BY HandlersDiffer
  <1> QED BY <1>1, <1>2 DEF Creating, Entering, Removing, Closing

\* Variables a step does not change leave their part alone.
LEMMA Kept ==
    ASSUME NEW w \in Services, NEW s \in Sids
    PROVE  /\ UNCHANGED toWorker => SameIn(w, s)
           /\ UNCHANGED toMain => SameOut(w, s)
           /\ UNCHANGED workerVars => SameDesk(w, s)
           /\ UNCHANGED mainVars => SameMain(w, s) /\ SameTop(s)
           /\ UNCHANGED running => /\ Creating(w, s)' <=> Creating(w, s)
                                   /\ Entering(w, s)' <=> Entering(w, s)
                                   /\ Removing(w, s)' <=> Removing(w, s)
                                   /\ Closing(w, s)' <=> Closing(w, s)
  <1>1. UNCHANGED toWorker => SameIn(w, s)
    BY DEF SameIn, Add, Rmv, Cls, PortIn
  <1>2. UNCHANGED toMain => SameOut(w, s)
    BY DEF SameOut, Chg, Rmd, PortOut
  <1>3. UNCHANGED workerVars => SameDesk(w, s)
    BY DEF workerVars, SameDesk, In, Plays, OnMap, Marked, Creating, Entering, Removing, Closing
  <1>4. UNCHANGED mainVars => SameMain(w, s) /\ SameTop(s)
    BY DEF mainVars, SameMain, SameTop, Held, Moving
  <1>5. UNCHANGED running => /\ Creating(w, s)' <=> Creating(w, s)
                             /\ Entering(w, s)' <=> Entering(w, s)
                             /\ Removing(w, s)' <=> Removing(w, s)
                             /\ Closing(w, s)' <=> Closing(w, s)
    BY DEF Creating, Entering, Removing, Closing
  <1> QED BY <1>1, <1>2, <1>3, <1>4, <1>5

-----------------------------------------------------------------------------
\* The worker's steps.  Each touches one session at one worker, and each moves
\* it along its way.
LEMMA AddSessionTravels ==
    ASSUME TypeOK, TInv, NEW w \in Services, OnAddSession(w), NEW r \in Sids
    PROVE  Travels(r)'
  <1> PICK s \in Sids : s = Head(toWorker[w]).sid
    BY DispatchTyped DEF OnAddSession, Msg
  <1>1. Dispatch(w, "add_session")
    BY DEF OnAddSession
  <1>2. /\ sessions' = [sessions EXCEPT ![w] = @ \cup {s}]
        /\ UNCHANGED <<mainVars, toMain, players, onmap, marks>>
        /\ IF w \in World THEN Await(w, Handler("create", s)) ELSE UNCHANGED running
    BY DEF OnAddSession
  <1>3. /\ \A v \in Services, t \in Sids : v # w \/ t # s => SameIn(v, t)
        /\ Add(w, s) /\ (PortIn(w, s) => ~Add(w, s)' /\ PortIn(w, s)')
        /\ Rmv(w, s)' <=> Rmv(w, s)
        /\ Cls(w, s)' <=> Cls(w, s)
    BY <1>1, DispatchEffect
  <1>4. \A v \in Services, t \in Sids :
          /\ In(v, t)' <=> In(v, t) \/ (v = w /\ t = s)
          /\ Plays(v, t)' <=> Plays(v, t)
          /\ OnMap(v, t)' <=> OnMap(v, t)
          /\ Marked(v, t)' <=> Marked(v, t)
    BY <1>1, <1>2 DEF In, Plays, OnMap, Marked, TypeOK
  <1>5. \A v \in Services, t \in Sids :
          /\ Creating(v, t)' <=> Creating(v, t) \/ (v = w /\ w \in World /\ t = s)
          /\ Entering(v, t)' <=> Entering(v, t)
          /\ Removing(v, t)' <=> Removing(v, t)
          /\ Closing(v, t)' <=> Closing(v, t)
    <2>1. CASE w \in World      BY <1>1, <1>2, <2>1, RunAdd
    <2>2. CASE w \notin World   BY <1>2, <2>2, Kept
    <2> QED BY <2>1, <2>2
  <1>6. \A v \in Services, t \in Sids : SameOut(v, t) /\ SameMain(v, t) /\ SameTop(t)
    BY <1>2, Kept
  <1>7. \A v \in Services, t \in Sids : v # w \/ t # s => Same(v, t)
    BY <1>3, <1>4, <1>5, <1>6 DEF Same, SameDesk
  <1>8. CASE r # s
    BY <1>6, <1>7, <1>8, Untouched DEF TInv
  <1>9. CASE r = s
    <2>1. Travels(s) /\ Local(w, s) /\ At(w, s) /\ ~Settled(w, s) /\ sock[s] # "new"
      BY <1>1, <1>3 DEF TInv, Travels, Fresh, At, Settled
    <2>2. /\ ~Add(w, s)' /\ In(w, s)' /\ ~Entering(w, s)' /\ ~OnMap(w, s)'
          /\ ~Rmv(w, s) /\ ~Removing(w, s) /\ ~Rmd(w, s) /\ ~Moving(w, s)
          /\ ~Closing(w, s)
      BY <1>1, <1>3, <1>4, <1>5, <2>1 DEF Local, Arriving, Leaving, Dropped
    <2>3. Arriving(w, s)'
      BY <2>2 DEF Arriving
    <2>4. Staying(w, s)'
      BY <1>1, <1>3, <1>4, <1>5, <1>6, <2>1, <2>2
         DEF Local, Staying, SameOut, SameMain, SameTop
    <2>5. Leaving(w, s)'
      BY <1>1, <1>3, <1>5, <1>6, <2>2 DEF Leaving, SameOut, SameMain
    <2>6. Dropped(w, s)'
      BY <1>1, <1>3, <1>5, <1>6, <2>1, <2>2 DEF Local, Dropped, SameTop
    <2>7. Local(w, s)'
      BY <1>1, <1>3, <1>6, <2>1, <2>3, <2>4, <2>5, <2>6 DEF Local, SameOut
    <2> QED BY <1>1, <1>6, <1>7, <1>9, <2>1, <2>7, OneTouched DEF SameMain
  <1> QED BY <1>8, <1>9

\* A session the routing knows is in sessionmgr, and one proxy has it.
LEMMA Known ==
    ASSUME IInv, NEW w \in Services, NEW s \in Sids
    PROVE  /\ Held(w, s) \/ Moving(w, s) => s \in mgr /\ sock[s] # "new"
           /\ ~(Held(w, s) /\ Moving(w, s))
           /\ s \in mgr => \E v \in Services : Held(v, s) \/ Moving(v, s)
           /\ \A v \in Services : (Held(v, s) \/ Moving(v, s)) /\ (Held(w, s) \/ Moving(w, s))
                => v = w
  <1> USE DEF IInv, Held, Moving
  <1>1. \A v \in Services : v # NoService
    BY RoutingAssumption
  <1>2. \A v \in Services : /\ Held(v, s) => s \in mgr /\ current[s] = v
                            /\ Moving(v, s) => s \in mgr /\ current[s] = NoService
    BY DEF RoutedOnce
  <1>3. s \in mgr => \E v \in Services : Held(v, s) \/ Moving(v, s)
    <2>1. ASSUME s \in mgr, current[s] # NoService PROVE Held(current[s], s) /\ current[s] \in Services
      BY <2>1 DEF RoutedOnce, TypeOK
    <2>2. ASSUME s \in mgr, current[s] = NoService PROVE \E v \in Services : Moving(v, s)
      BY <2>2 DEF RoutedOnce
    <2> QED BY <2>1, <2>2
  <1>4. \A v \in Services : Moving(v, s) /\ Moving(w, s) => v = w
    BY DEF RoutedOnce
  <1>5. s \in mgr => sock[s] # "new"
    BY DEF NewIsUnknown
  <1> QED BY <1>1, <1>2, <1>3, <1>4, <1>5

LEMMA LoginTravels ==
    ASSUME TypeOK, TInv, NEW w \in Services, OnLogin(w), NEW r \in Sids
    PROVE  Travels(r)'
  <1>1. \A v \in Services : SameIn(v, r)
    BY DispatchEffect DEF OnLogin
  <1>2. \A v \in Services : SameOut(v, r) /\ SameMain(v, r) /\ SameTop(r)
    BY Kept DEF OnLogin
  <1>3. \A v \in Services : /\ Creating(v, r)' <=> Creating(v, r)
                            /\ Entering(v, r)' <=> Entering(v, r)
                            /\ Removing(v, r)' <=> Removing(v, r)
                            /\ Closing(v, r)' <=> Closing(v, r)
    BY RunLogin, Kept DEF OnLogin
  <1>4. \A v \in Services : SameDesk(v, r)
    BY <1>3 DEF OnLogin, SameDesk, In, Plays, OnMap, Marked
  <1> QED BY <1>1, <1>2, <1>4, Untouched DEF Same, TInv

LEMMA LoginDoneTravels ==
    ASSUME TypeOK, TInv, NEW w \in Services, NEW s \in Sids, NEW n \in 1..MaxMsgs,
           LoginDone(w, s, n), NEW r \in Sids
    PROVE  Travels(r)'
  <1>1. w \notin World
    BY DEF TInv, Kinds, LoginDone, Resume
  <1>2. \A v \in Services, t \in Sids : SameIn(v, t) /\ SameOut(v, t) /\ SameMain(v, t) /\ SameTop(t)
    BY Kept DEF LoginDone
  <1>3. \A v \in Services, t \in Sids : /\ Creating(v, t)' <=> Creating(v, t)
                                        /\ Entering(v, t)' <=> Entering(v, t)
                                        /\ Removing(v, t)' <=> Removing(v, t)
                                        /\ Closing(v, t)' <=> Closing(v, t)
    BY RunLogin DEF LoginDone
  <1>4. \A v \in Services, t \in Sids : /\ In(v, t)' <=> In(v, t)
                                        /\ OnMap(v, t)' <=> OnMap(v, t)
                                        /\ Marked(v, t)' <=> Marked(v, t)
                                        /\ v # w \/ t # s => (Plays(v, t)' <=> Plays(v, t))
                                        /\ Plays(v, t) => Plays(v, t)'
    BY DEF LoginDone, In, OnMap, Marked, Plays, TypeOK
  <1>5. \A v \in Services, t \in Sids : v # w \/ t # s => Same(v, t)
    BY <1>2, <1>3, <1>4 DEF Same, SameDesk
  <1>6. CASE r # s
    BY <1>2, <1>5, <1>6, Untouched DEF TInv
  <1>7. CASE r = s
    <2>1. Travels(s) /\ Local(w, s)
      BY DEF TInv, Travels
    <2>2. At(w, s)' <=> At(w, s)
      BY <1>1, <1>2, <1>3, <1>4 DEF At, SameIn
    <2>3. Settled(w, s)' <=> Settled(w, s)
      BY <1>1, <1>2, <1>3, <1>4 DEF Settled, SameIn
    <2>4. Arriving(w, s)'
      BY <1>2, <1>3, <1>4, <2>1 DEF Local, Arriving, SameIn, SameTop
    <2>5. Staying(w, s)'
      BY <1>2, <1>3, <1>4, <2>1, <2>3 DEF Local, Staying, SameIn, SameOut, SameMain, SameTop
    <2>6. Leaving(w, s)'
      BY <1>2, <1>3, <1>4, <2>1, <2>2, <2>3 DEF Local, Leaving, SameIn, SameOut, SameMain
    <2>7. Dropped(w, s)'
      BY <1>2, <1>3, <1>4, <2>1 DEF Local, Dropped, SameIn, SameTop
    <2>8. Local(w, s)'
      BY <1>2, <2>1, <2>4, <2>5, <2>6, <2>7 DEF Local, SameIn, SameOut
    <2>9. sock[s] = "new" => ~OnMap(w, s)' /\ ~Chg(w, s)' /\ ~Rmd(w, s)'
      BY <1>2, <1>4, <2>1 DEF Travels, Fresh, SameOut
    <2> QED BY <1>2, <1>5, <1>7, <2>1, <2>2, <2>8, <2>9, OneTouched DEF SameMain
  <1> QED BY <1>6, <1>7

LEMMA ChangeTravels ==
    ASSUME IInv, TInv, NEW w \in Services, OnChange(w), NEW r \in Sids
    PROVE  Travels(r)'
  <1> USE DEF IInv
  <1> PICK m \in Msg : m = Head(toWorker[w]) /\ (w \in World => m \in WorldMsg) /\ m.cmd = "change"
    BY DispatchTyped DEF OnChange
  <1> PICK s \in Sids, x \in World : s = m.sid /\ x = (IF w \in OutGame THEN Home[s] ELSE m.to)
    BY RoutingAssumption DEF Msg, WorldMsg, Services
  <1>1. \A v \in Services, t \in Sids : SameIn(v, t)
    BY DispatchEffect DEF OnChange
  <1>2. \A v \in Services, t \in Sids :
          /\ SameMain(v, t) /\ SameTop(t)
          /\ Creating(v, t)' <=> Creating(v, t)
          /\ Entering(v, t)' <=> Entering(v, t)
          /\ Removing(v, t)' <=> Removing(v, t)
          /\ Closing(v, t)' <=> Closing(v, t)
    BY Kept DEF OnChange
  <1>3. \A v \in Services, t \in Sids : /\ In(v, t)' <=> In(v, t)
                                        /\ Plays(v, t)' <=> Plays(v, t)
                                        /\ OnMap(v, t)' <=> OnMap(v, t)
    BY DEF OnChange, In, Plays, OnMap
  <1>4. CASE UNCHANGED <<marks, toMain>>
    <2>1. \A v \in Services : SameOut(v, r) /\ (Marked(v, r)' <=> Marked(v, r))
      BY <1>4, Kept DEF Marked
    <2> QED BY <1>1, <1>2, <1>3, <2>1, Untouched DEF TInv, Same, SameDesk
  <1>5. CASE /\ In(w, s) /\ Plays(w, s) /\ (w \in World => OnMap(w, s))
             /\ marks' = [marks EXCEPT ![w][s] = x]
             /\ Notify(w, Reply2Main("changeservice", s, x))
    <2>1. \A v \in Services, t \in Sids : v # w \/ t # s => (Marked(v, t)' <=> Marked(v, t))
      BY <1>5 DEF Marked, TypeOK
    <2>2. Marked(w, s)'
      BY <1>5, RoutingAssumption DEF Marked, TypeOK, Services
    <2>3. /\ \A v \in Services, t \in Sids : v # w \/ t # s => SameOut(v, t)
          /\ Rmd(w, s)' <=> Rmd(w, s)
          /\ PortOut(w, s) /\ ~Rmd(w, s) => PortOut(w, s)'
      <3>1. Reply2Main("changeservice", s, x) \in Reply
        BY Built
      <3>2. /\ Reply2Main("changeservice", s, x).cmd = "changeservice"
            /\ Reply2Main("changeservice", s, x).sid = s
        BY DEF Reply2Main
      <3> QED BY <1>5, <3>1, <3>2, NotifyEffect
    <2>4. \A v \in Services, t \in Sids : v # w \/ t # s => Same(v, t)
      BY <1>1, <1>2, <1>3, <2>1, <2>3 DEF Same, SameDesk
    <2>5. CASE r # s
      BY <1>2, <2>4, <2>5, Untouched DEF TInv
    <2>6. CASE r = s
      <3>1. Travels(s) /\ Local(w, s) /\ At(w, s) /\ ~Rmd(w, s) /\ sock[s] # "new"
        BY <1>5 DEF TInv, Travels, Fresh, At, Local, Leaving
      <3>2. s \in mgr => Held(w, s) \/ Moving(w, s)
        BY <3>1, Known DEF Travels, OnePlace
      <3>3. ~Add(w, s) /\ ~Creating(w, s) /\ ~Entering(w, s)
        <4>1. CASE w \in World
          BY <1>5, <3>1, <4>1 DEF Local, Arriving
        <4>2. CASE w \notin World
          <5>1. ~Creating(w, s) /\ ~Entering(w, s)
            BY <4>2 DEF TInv, Kinds, Creating, Entering, Handler
          <5> QED BY <1>5, <3>1, <5>1 DEF Local, Arriving
        <4> QED BY <4>1, <4>2
      <3>4. Settled(w, s)'
        BY <1>1, <1>2, <1>3, <1>5, <2>2, <3>3 DEF Settled, SameIn
      <3>5. Arriving(w, s)'
        BY <1>1, <1>2, <1>3, <3>1 DEF Local, Arriving, SameIn, SameTop
      <3>6. Staying(w, s)'
        BY <1>1, <1>2, <1>3, <3>1, <3>2, <3>4 DEF Local, Staying, SameIn, SameMain, SameTop
      <3>7. Leaving(w, s)'
        BY <1>1, <1>2, <1>3, <2>3, <3>1, <3>4 DEF Local, Leaving, SameIn, SameMain
      <3>8. Dropped(w, s)'
        BY <1>1, <1>2, <1>3, <3>1 DEF Local, Dropped, SameIn, SameTop
      <3>9. Local(w, s)'
        BY <1>1, <2>3, <3>1, <3>5, <3>6, <3>7, <3>8 DEF Local, SameIn
      <3>10. At(w, s)' => At(w, s)
        BY <3>1
      <3> QED BY <1>2, <2>4, <2>6, <3>1, <3>9, <3>10, OneTouched DEF SameMain
    <2> QED BY <2>5, <2>6
  <1> QED BY <1>4, <1>5 DEF OnChange, In, Plays, OnMap

LEMMA CreatedTravels ==
    ASSUME TypeOK, TInv, NEW w \in Services, NEW s \in Sids, PlayerCreated(w, s),
           NEW r \in Sids
    PROVE  Travels(r)'
  <1>1. Creating(w, s)
    BY DEF PlayerCreated, Creating
  <1>2. \A v \in Services, t \in Sids :
          /\ SameIn(v, t) /\ SameMain(v, t) /\ SameTop(t)
          /\ In(v, t)' <=> In(v, t)
          /\ Marked(v, t)' <=> Marked(v, t)
          /\ Plays(v, t)' <=> Plays(v, t) \/ (v = w /\ t = s)
    <2>1. \A v \in Services, t \in Sids : SameIn(v, t) /\ SameMain(v, t) /\ SameTop(t)
      BY Kept DEF PlayerCreated
    <2>2. \A v \in Services, t \in Sids : /\ In(v, t)' <=> In(v, t)
                                          /\ Marked(v, t)' <=> Marked(v, t)
      BY DEF PlayerCreated, In, Marked
    <2>3. players' = [players EXCEPT ![w] = @ \cup {s}]
      BY DEF PlayerCreated
    <2>4. \A v \in Services, t \in Sids : Plays(v, t)' <=> Plays(v, t) \/ (v = w /\ t = s)
      BY <2>3 DEF Plays, TypeOK
    <2> QED BY <2>1, <2>2, <2>4
  <1>3. \A v \in Services, t \in Sids : SameOut(v, t)
    <2>1. CASE UNCHANGED toMain
      BY <2>1, Kept
    <2>2. CASE Notify(w, Reply2Main("kickplayer", s, NoService))
      <3>1. /\ Reply2Main("kickplayer", s, NoService) \in Reply
            /\ Reply2Main("kickplayer", s, NoService).cmd = "kickplayer"
        BY Built DEF Reply2Main
      <3> QED BY <2>2, <3>1, NotifyEffect
    <2> QED BY <2>1, <2>2 DEF PlayerCreated
  <1>4. PICK e \in BOOLEAN, p \in BOOLEAN : ~(e /\ p) /\ \A v \in Services, t \in Sids :
          /\ Creating(v, t)' <=> Creating(v, t) /\ ~(v = w /\ t = s)
          /\ Entering(v, t)' <=> Entering(v, t) \/ (e /\ v = w /\ t = s)
          /\ Removing(v, t)' <=> Removing(v, t)
          /\ Closing(v, t)' <=> Closing(v, t)
          /\ OnMap(v, t)' <=> OnMap(v, t) \/ (p /\ v = w /\ t = s)
    <2>1. CASE Resume(w, Handler("create", s)) /\ UNCHANGED onmap
      <3>1. \A v \in Services, t \in Sids :
              /\ Creating(v, t)' <=> Creating(v, t) /\ ~(v = w /\ t = s)
              /\ Entering(v, t)' <=> Entering(v, t)
              /\ Removing(v, t)' <=> Removing(v, t)
              /\ Closing(v, t)' <=> Closing(v, t)
        BY <2>1, RunEnd
      <3> QED BY <2>1, <3>1 DEF OnMap
    <2>2. CASE /\ Resume(w, Handler("create", s))
               /\ onmap' = [onmap EXCEPT ![w] = @ \cup {s}]
      <3>1. \A v \in Services, t \in Sids :
              /\ Creating(v, t)' <=> Creating(v, t) /\ ~(v = w /\ t = s)
              /\ Entering(v, t)' <=> Entering(v, t)
              /\ Removing(v, t)' <=> Removing(v, t)
              /\ Closing(v, t)' <=> Closing(v, t)
        BY <2>2, RunEnd
      <3>2. \A v \in Services, t \in Sids : OnMap(v, t)' <=> OnMap(v, t) \/ (v = w /\ t = s)
        BY <2>2 DEF OnMap, TypeOK
      <3> QED BY <3>1, <3>2
    <2>3. CASE /\ running' = [running EXCEPT ![w] =
                    (@ \ {Handler("create", s)}) \cup {Handler("firstin", s)}]
               /\ UNCHANGED onmap
      <3>1. \A v \in Services : \A h : h \in running'[v] <=>
              \/ h \in running[v] /\ ~(v = w /\ h = Handler("create", s))
              \/ v = w /\ h = Handler("firstin", s)
        BY <2>3 DEF TypeOK
      <3>2. \A v \in Services, t \in Sids :
              /\ Creating(v, t)' <=> Creating(v, t) /\ ~(v = w /\ t = s)
              /\ Entering(v, t)' <=> Entering(v, t) \/ (v = w /\ t = s)
              /\ Removing(v, t)' <=> Removing(v, t)
              /\ Closing(v, t)' <=> Closing(v, t)
        BY <3>1, HandlersDiffer DEF Creating, Entering, Removing, Closing
      <3> QED BY <2>3, <3>2 DEF OnMap
    <2> QED BY <2>1, <2>2, <2>3 DEF PlayerCreated
  <1>5. \A v \in Services, t \in Sids : v # w \/ t # s => Same(v, t)
    BY <1>2, <1>3, <1>4 DEF Same, SameDesk
  <1>6. CASE r # s
    BY <1>2, <1>5, <1>6, Untouched DEF TInv
  <1>7. CASE r = s
    <2>1. Travels(s) /\ Local(w, s) /\ At(w, s) /\ ~Settled(w, s) /\ sock[s] # "new"
      BY <1>1 DEF TInv, Travels, Fresh, At, Settled
    <2>2. /\ ~Add(w, s) /\ ~Entering(w, s) /\ ~OnMap(w, s)
          /\ ~Rmv(w, s) /\ ~Removing(w, s) /\ ~Rmd(w, s) /\ ~Moving(w, s)
          /\ ~(Chg(w, s) /\ Held(w, s))
      BY <1>1, <2>1 DEF Local, Arriving, Staying, Leaving
    <2>3. Arriving(w, s)'
      BY <1>2, <1>4, <2>2 DEF Arriving, SameIn
    <2>4. Staying(w, s)'
      BY <1>2, <1>3, <1>4, <2>1, <2>2 DEF Local, Staying, SameIn, SameOut, SameMain, SameTop
    <2>5. Leaving(w, s)'
      BY <1>2, <1>3, <1>4, <2>2 DEF Leaving, SameIn, SameOut, SameMain
    <2>6. Dropped(w, s)'
      BY <1>2, <1>4, <2>1 DEF Local, Dropped, SameIn, SameTop
    <2>7. Local(w, s)'
      BY <1>2, <1>3, <2>1, <2>3, <2>4, <2>5, <2>6 DEF Local, SameIn, SameOut
    <2> QED BY <1>2, <1>5, <1>7, <2>1, <2>7, OneTouched DEF SameMain
  <1> QED BY <1>6, <1>7

LEMMA FirstinTravels ==
    ASSUME TypeOK, TInv, NEW w \in Services, NEW s \in Sids, FirstinFlushed(w, s),
           NEW r \in Sids
    PROVE  Travels(r)'
  <1>1. Entering(w, s)
    BY DEF FirstinFlushed, Resume, Entering
  <1>2. \A v \in Services, t \in Sids :
          SameIn(v, t) /\ SameOut(v, t) /\ SameMain(v, t) /\ SameTop(t)
    BY Kept DEF FirstinFlushed
  <1>3. \A v \in Services, t \in Sids : /\ In(v, t)' <=> In(v, t)
                                        /\ Plays(v, t)' <=> Plays(v, t)
                                        /\ Marked(v, t)' <=> Marked(v, t)
    BY DEF FirstinFlushed, In, Plays, Marked
  <1>4. \A v \in Services, t \in Sids : OnMap(v, t)' <=> OnMap(v, t) \/ (v = w /\ t = s)
    BY DEF FirstinFlushed, OnMap, TypeOK
  <1>5. \A v \in Services, t \in Sids :
          /\ Creating(v, t)' <=> Creating(v, t)
          /\ Entering(v, t)' <=> Entering(v, t) /\ ~(v = w /\ t = s)
          /\ Removing(v, t)' <=> Removing(v, t)
          /\ Closing(v, t)' <=> Closing(v, t)
    BY RunEnd DEF FirstinFlushed
  <1>6. \A v \in Services, t \in Sids : v # w \/ t # s => Same(v, t)
    BY <1>2, <1>3, <1>4, <1>5 DEF Same, SameDesk
  <1>7. CASE r # s
    BY <1>2, <1>6, <1>7, Untouched DEF TInv
  <1>8. CASE r = s
    <2>1. Travels(s) /\ Local(w, s) /\ At(w, s) /\ ~Settled(w, s) /\ sock[s] # "new"
      BY <1>1 DEF TInv, Travels, Fresh, At, Settled
    <2>2. /\ ~Add(w, s) /\ ~Creating(w, s) /\ ~OnMap(w, s)
          /\ s \in mgr => Plays(w, s)
          /\ ~Rmv(w, s) /\ ~Removing(w, s) /\ ~Rmd(w, s) /\ ~Moving(w, s)
          /\ ~(Chg(w, s) /\ Held(w, s))
      BY <1>1, <2>1 DEF Local, Arriving, Staying, Leaving
    <2>3. Arriving(w, s)'
      BY <1>2, <1>3, <1>5, <2>2 DEF Arriving, SameIn, SameTop
    <2>4. Staying(w, s)'
      BY <1>2, <1>3, <1>5, <2>1, <2>2 DEF Local, Staying, SameIn, SameOut, SameMain, SameTop
    <2>5. Leaving(w, s)'
      BY <1>2, <1>5, <2>2 DEF Leaving, SameIn, SameOut, SameMain
    <2>6. Dropped(w, s)'
      BY <1>2, <1>3, <1>5, <2>1 DEF Local, Dropped, SameIn, SameTop
    <2>7. Local(w, s)'
      BY <1>2, <2>1, <2>3, <2>4, <2>5, <2>6 DEF Local, SameIn, SameOut
    <2> QED BY <1>2, <1>6, <1>8, <2>1, <2>7, OneTouched DEF SameMain
  <1> QED BY <1>7, <1>8

\* The answer about a removed session: it clears the mark there is.
LEMMA NotifyRemovedEffect ==
    ASSUME TypeOK, NEW w \in Services, NEW s \in Sids, NotifyRemoved(w, s), Marked(w, s),
           NEW v \in Services, NEW t \in Sids
    PROVE  /\ v # w \/ t # s => SameOut(v, t) /\ (Marked(v, t)' <=> Marked(v, t))
           /\ Rmd(w, s)'
           /\ Chg(w, s)' => Chg(w, s)
           /\ PortOut(w, s) /\ ~Rmd(w, s) => PortOut(w, s)'
  <1>1. /\ marks' = [marks EXCEPT ![w][s] = NoService]
        /\ Notify(w, Reply2Main("changeservice_sesrmved", s, marks[w][s]))
    BY DEF NotifyRemoved, Marked
  <1>2. marks[w][s] \in World
    BY DEF Marked, TypeOK
  <1>3. /\ Reply2Main("changeservice_sesrmved", s, marks[w][s]) \in Reply
        /\ Reply2Main("changeservice_sesrmved", s, marks[w][s]).cmd = "changeservice_sesrmved"
        /\ Reply2Main("changeservice_sesrmved", s, marks[w][s]).sid = s
    BY <1>2, Built DEF Reply2Main
  <1>4. v # w \/ t # s => (Marked(v, t)' <=> Marked(v, t))
    BY <1>1 DEF Marked, TypeOK
  <1> QED BY <1>1, <1>3, <1>4, NotifyEffect

\* A session that has left a worker for another is answered, and gone from there.
LEMMA LeftLocal ==
    ASSUME IInv, NEW w \in Services, NEW s \in Sids, Local(w, s), Moving(w, s),
           SameTop(s), SameMain(w, s),
           ~In(w, s)', ~Add(w, s)', ~Creating(w, s)', ~Entering(w, s)',
           w \in World => ~Plays(w, s)',
           s \in mgr => (OnMap(w, s)' => Plays(w, s)'),
           ~Rmv(w, s)', ~Removing(w, s)', Cls(w, s)' => Cls(w, s), Closing(w, s)' => Closing(w, s),
           Rmd(w, s)', PortIn(w, s)', PortOut(w, s)'
    PROVE  Local(w, s)' /\ ~At(w, s)'
  <1>1. s \in mgr /\ ~Cls(w, s)' /\ ~Closing(w, s)' /\ Moving(w, s)' /\ ~Held(w, s)'
    BY Known DEF Local, Dropped, SameMain
  <1>2. ~At(w, s)'
    BY DEF At
  <1>3. Arriving(w, s)' /\ Dropped(w, s)'
    BY <1>1 DEF Arriving, Dropped
  <1>4. Staying(w, s)'
    BY <1>1 DEF Staying
  <1>5. Leaving(w, s)'
    BY <1>1, <1>2 DEF Leaving
  <1> QED BY <1>2, <1>3, <1>4, <1>5 DEF Local

LEMMA RemoveTravels ==
    ASSUME IInv, TInv, NEW w \in Services, OnRemoveSession(w), NEW r \in Sids
    PROVE  Travels(r)'
  <1> USE DEF IInv
  <1> PICK s \in Sids : s = Head(toWorker[w]).sid
    BY DispatchTyped DEF OnRemoveSession, Msg
  <1>1. Dispatch(w, "rmv_session")
    BY DEF OnRemoveSession
  <1>2. /\ \A v \in Services, t \in Sids : v # w \/ t # s => SameIn(v, t)
        /\ Rmv(w, s) /\ (PortIn(w, s) => ~Rmv(w, s)' /\ PortIn(w, s)')
        /\ Add(w, s)' <=> Add(w, s)
        /\ Cls(w, s)' <=> Cls(w, s)
    BY <1>1, DispatchEffect
  <1>3. \A v \in Services, t \in Sids :
          SameMain(v, t) /\ SameTop(t) /\ (Plays(v, t)' <=> Plays(v, t))
    BY Kept DEF OnRemoveSession, Plays
  <1>4. /\ Travels(s) /\ Local(w, s)
        /\ Settled(w, s) /\ Moving(w, s) /\ ~Removing(w, s) /\ ~Rmd(w, s)
        /\ At(w, s) /\ sock[s] # "new"
    <2>1. Travels(s) /\ Local(w, s)
      BY DEF TInv, Travels
    <2>2. Settled(w, s) /\ Moving(w, s) /\ ~Removing(w, s) /\ ~Rmd(w, s)
      BY <1>2, <2>1 DEF Local, Leaving
    <2> QED BY <2>1, <2>2 DEF Travels, Fresh, Settled, At
  <1>5. CASE Plays(w, s)
    <2>1. /\ onmap' = [onmap EXCEPT ![w] = @ \ {s}]
          /\ Await(w, Handler("remove", s))
          /\ UNCHANGED <<toMain, sessions, marks>>
      BY <1>5 DEF OnRemoveSession, Plays
    <2>2. \A v \in Services, t \in Sids :
            /\ SameOut(v, t)
            /\ In(v, t)' <=> In(v, t)
            /\ Marked(v, t)' <=> Marked(v, t)
            /\ OnMap(v, t)' <=> OnMap(v, t) /\ ~(v = w /\ t = s)
      BY <2>1, Kept DEF In, Marked, OnMap, TypeOK
    <2>3. \A v \in Services, t \in Sids :
            /\ Creating(v, t)' <=> Creating(v, t)
            /\ Entering(v, t)' <=> Entering(v, t)
            /\ Removing(v, t)' <=> Removing(v, t) \/ (v = w /\ t = s)
            /\ Closing(v, t)' <=> Closing(v, t)
      BY <2>1, RunAdd
    <2>4. \A v \in Services, t \in Sids : v # w \/ t # s => Same(v, t)
      BY <1>2, <1>3, <2>2, <2>3 DEF Same, SameDesk
    <2>5. CASE r # s
      BY <1>3, <2>4, <2>5, Untouched DEF TInv
    <2>6. CASE r = s
      <3>1. Settled(w, s)'
        BY <1>2, <1>3, <1>4, <2>2, <2>3 DEF Settled
      <3>2. Arriving(w, s)'
        BY <1>2, <1>3, <1>4, <2>2, <2>3 DEF Settled, Arriving
      <3>3. Staying(w, s)'
        BY <1>2, <1>3, <1>4, <2>2, Known, <3>1 DEF Staying, SameMain
      <3>4. Leaving(w, s)'
        BY <1>2, <1>3, <1>4, <2>2, <2>3, <3>1 DEF Local, Leaving, SameOut, SameMain
      <3>5. Dropped(w, s)'
        BY <1>2, <1>3, <1>4, <2>2, <2>3 DEF Local, Dropped, SameTop
      <3>6. Local(w, s)'
        BY <1>2, <1>4, <2>2, <3>2, <3>3, <3>4, <3>5 DEF Local, SameOut
      <3> QED BY <1>3, <1>4, <2>4, <2>6, <3>6, OneTouched DEF SameMain
    <2> QED BY <2>5, <2>6
  <1>6. CASE ~Plays(w, s)
    <2>1. /\ sessions' = [sessions EXCEPT ![w] = @ \ {s}]
          /\ NotifyRemoved(w, s)
          /\ UNCHANGED <<onmap, running>>
      BY <1>6 DEF OnRemoveSession, Plays
    <2>2. \A v \in Services, t \in Sids :
            /\ In(v, t)' <=> In(v, t) /\ ~(v = w /\ t = s)
            /\ OnMap(v, t)' <=> OnMap(v, t)
            /\ Creating(v, t)' <=> Creating(v, t)
            /\ Entering(v, t)' <=> Entering(v, t)
            /\ Removing(v, t)' <=> Removing(v, t)
            /\ Closing(v, t)' <=> Closing(v, t)
      BY <2>1, Kept DEF In, OnMap, TypeOK
    <2>3. Marked(w, s)
      BY <1>4 DEF Settled
    <2>4. /\ \A v \in Services, t \in Sids : v # w \/ t # s =>
               SameOut(v, t) /\ (Marked(v, t)' <=> Marked(v, t))
          /\ Rmd(w, s)'
          /\ Chg(w, s)' => Chg(w, s)
          /\ PortOut(w, s) /\ ~Rmd(w, s) => PortOut(w, s)'
      BY <2>1, <2>3, NotifyRemovedEffect
    <2>5. \A v \in Services, t \in Sids : v # w \/ t # s => Same(v, t)
      BY <1>2, <1>3, <2>2, <2>4 DEF Same, SameDesk
    <2>6. CASE r # s
      BY <1>3, <2>5, <2>6, Untouched DEF TInv
    <2>7. CASE r = s
      <3>1. w \notin World /\ ~Add(w, s) /\ ~Creating(w, s) /\ ~Entering(w, s)
        BY <1>4, <1>6 DEF Settled
      <3>2. PortIn(w, s) /\ PortOut(w, s) /\ (s \in mgr /\ OnMap(w, s) => Plays(w, s))
        BY <1>4 DEF Local, Arriving
      <3>3. Local(w, s)' /\ ~At(w, s)'
        BY <1>2, <1>3, <1>4, <2>2, <2>4, <3>1, <3>2, LeftLocal
      <3> QED BY <1>3, <1>4, <2>5, <2>7, <3>3, OneTouched DEF SameMain
    <2> QED BY <2>6, <2>7
  <1> QED BY <1>5, <1>6

LEMMA RemovedTravels ==
    ASSUME IInv, TInv, NEW w \in Services, NEW s \in Sids, SessionRemoved(w, s),
           NEW r \in Sids
    PROVE  Travels(r)'
  <1> USE DEF IInv
  <1>1. /\ Resume(w, Handler("remove", s)) /\ Removing(w, s)
        /\ players' = [players EXCEPT ![w] = @ \ {s}]
        /\ sessions' = [sessions EXCEPT ![w] = @ \ {s}]
        /\ NotifyRemoved(w, s)
        /\ UNCHANGED <<mainVars, toWorker, onmap>>
    BY DEF SessionRemoved, Resume, Removing
  <1>2. /\ Travels(s) /\ Local(w, s)
        /\ Settled(w, s) /\ Moving(w, s) /\ ~OnMap(w, s) /\ ~Rmd(w, s) /\ ~Rmv(w, s)
        /\ At(w, s) /\ sock[s] # "new"
    <2>1. Travels(s) /\ Local(w, s)
      BY DEF TInv, Travels
    <2>2. Settled(w, s) /\ Moving(w, s) /\ ~OnMap(w, s) /\ ~Rmd(w, s) /\ ~Rmv(w, s)
      BY <1>1, <2>1 DEF Local, Leaving
    <2> QED BY <2>1, <2>2 DEF Travels, Fresh, Settled, At
  <1>3. \A v \in Services, t \in Sids :
          /\ SameIn(v, t) /\ SameMain(v, t) /\ SameTop(t)
          /\ OnMap(v, t)' <=> OnMap(v, t)
    BY <1>1, Kept DEF OnMap
  <1>4. \A v \in Services, t \in Sids :
          /\ In(v, t)' <=> In(v, t) /\ ~(v = w /\ t = s)
          /\ Plays(v, t)' <=> Plays(v, t) /\ ~(v = w /\ t = s)
    BY <1>1 DEF In, Plays, TypeOK
  <1>5. \A v \in Services, t \in Sids :
          /\ Creating(v, t)' <=> Creating(v, t)
          /\ Entering(v, t)' <=> Entering(v, t)
          /\ Removing(v, t)' <=> Removing(v, t) /\ ~(v = w /\ t = s)
          /\ Closing(v, t)' <=> Closing(v, t)
    BY <1>1, RunEnd
  <1>6. /\ \A v \in Services, t \in Sids : v # w \/ t # s =>
             SameOut(v, t) /\ (Marked(v, t)' <=> Marked(v, t))
        /\ Rmd(w, s)'
        /\ PortOut(w, s) /\ ~Rmd(w, s) => PortOut(w, s)'
    <2>1. Marked(w, s)
      BY <1>2 DEF Settled
    <2> QED BY <1>1, <2>1, NotifyRemovedEffect
  <1>7. \A v \in Services, t \in Sids : v # w \/ t # s => Same(v, t)
    BY <1>3, <1>4, <1>5, <1>6 DEF Same, SameDesk
  <1>8. CASE r # s
    BY <1>3, <1>7, <1>8, Untouched DEF TInv
  <1>9. CASE r = s
    <2>1. ~Add(w, s) /\ ~Creating(w, s) /\ ~Entering(w, s) /\ PortIn(w, s) /\ PortOut(w, s)
      BY <1>2 DEF Settled, Local
    <2>2. Local(w, s)' /\ ~At(w, s)'
      BY <1>2, <1>3, <1>4, <1>5, <1>6, <2>1, LeftLocal DEF SameIn
    <2> QED BY <1>2, <1>3, <1>7, <1>9, <2>2, OneTouched DEF SameMain
  <1> QED BY <1>8, <1>9

\* What is dropped is nowhere in main's tables.
LEMMA DroppedLocal ==
    ASSUME IInv, NEW w \in Services, NEW s \in Sids, Local(w, s),
           Cls(w, s) \/ Closing(w, s)
    PROVE  /\ s \notin mgr /\ sock[s] # "new"
           /\ ~Held(w, s) /\ ~Moving(w, s)
           /\ ~Rmv(w, s) /\ ~Removing(w, s) /\ ~Rmd(w, s)
  BY Known DEF Local, Dropped, Leaving

LEMMA CloseTravels ==
    ASSUME IInv, TInv, NEW w \in Services, OnSessionClose(w), NEW r \in Sids
    PROVE  Travels(r)'
  <1> USE DEF IInv
  <1> PICK s \in Sids : s = Head(toWorker[w]).sid
    BY DispatchTyped DEF OnSessionClose, Msg
  <1>1. Dispatch(w, "close_session")
    BY DEF OnSessionClose
  <1>2. /\ \A v \in Services, t \in Sids : v # w \/ t # s => SameIn(v, t)
        /\ Cls(w, s) /\ (PortIn(w, s) => ~Cls(w, s)' /\ ~Add(w, s) /\ PortIn(w, s)')
        /\ Add(w, s)' <=> Add(w, s)
        /\ Rmv(w, s)' <=> Rmv(w, s)
    BY <1>1, DispatchEffect
  <1>3. \A v \in Services, t \in Sids :
          /\ SameOut(v, t) /\ SameMain(v, t) /\ SameTop(t)
          /\ Plays(v, t)' <=> Plays(v, t)
          /\ Marked(v, t)' <=> Marked(v, t)
    BY Kept DEF OnSessionClose, Plays, Marked
  <1>4. /\ Travels(s) /\ Local(w, s) /\ PortIn(w, s)
        /\ In(w, s) /\ ~Add(w, s) /\ ~Closing(w, s)
        /\ s \notin mgr /\ sock[s] # "new"
        /\ ~Held(w, s) /\ ~Moving(w, s)
        /\ ~Rmv(w, s) /\ ~Removing(w, s) /\ ~Rmd(w, s)
    <2>1. Travels(s) /\ Local(w, s) /\ PortIn(w, s)
      BY DEF TInv, Travels, Local
    <2>2. In(w, s) /\ ~Add(w, s) /\ ~Closing(w, s)
      BY <1>2, <2>1 DEF Local, Dropped
    <2> QED BY <1>2, <2>1, <2>2, DroppedLocal
  <1>5. CASE Plays(w, s)
    <2>1. /\ onmap' = [onmap EXCEPT ![w] = @ \ {s}]
          /\ Await(w, Handler("close", s))
          /\ UNCHANGED sessions
      BY <1>5 DEF OnSessionClose, Plays
    <2>2. \A v \in Services, t \in Sids :
            /\ In(v, t)' <=> In(v, t)
            /\ OnMap(v, t)' <=> OnMap(v, t) /\ ~(v = w /\ t = s)
      BY <2>1 DEF In, OnMap, TypeOK
    <2>3. \A v \in Services, t \in Sids :
            /\ Creating(v, t)' <=> Creating(v, t)
            /\ Entering(v, t)' <=> Entering(v, t)
            /\ Removing(v, t)' <=> Removing(v, t)
            /\ Closing(v, t)' <=> Closing(v, t) \/ (v = w /\ t = s)
      BY <2>1, RunAdd
    <2>4. \A v \in Services, t \in Sids : v # w \/ t # s => Same(v, t)
      BY <1>2, <1>3, <2>2, <2>3 DEF Same, SameDesk
    <2>5. CASE r # s
      BY <1>3, <2>4, <2>5, Untouched DEF TInv
    <2>6. CASE r = s
      <3>1. Arriving(w, s)'
        BY <1>2, <1>3, <1>4, <2>2, <2>3 DEF Local, Arriving, SameTop
      <3>2. Staying(w, s)' /\ Leaving(w, s)' /\ Dropped(w, s)'
        BY <1>2, <1>3, <1>4, <2>2, <2>3 DEF Staying, Leaving, Dropped, SameOut, SameMain, SameTop
      <3>3. Local(w, s)'
        BY <1>2, <1>3, <1>4, <3>1, <3>2 DEF Local, SameOut
      <3>4. At(w, s)
        BY <1>4 DEF At
      <3> QED BY <1>3, <1>4, <2>4, <2>6, <3>3, <3>4, OneTouched DEF SameMain
    <2> QED BY <2>5, <2>6
  <1>6. CASE ~Plays(w, s)
    <2>1. /\ sessions' = [sessions EXCEPT ![w] = @ \ {s}]
          /\ UNCHANGED <<onmap, running>>
      BY <1>6 DEF OnSessionClose, Plays
    <2>2. \A v \in Services, t \in Sids :
            /\ In(v, t)' <=> In(v, t) /\ ~(v = w /\ t = s)
            /\ OnMap(v, t)' <=> OnMap(v, t)
            /\ Creating(v, t)' <=> Creating(v, t)
            /\ Entering(v, t)' <=> Entering(v, t)
            /\ Removing(v, t)' <=> Removing(v, t)
            /\ Closing(v, t)' <=> Closing(v, t)
      BY <2>1, Kept DEF In, OnMap, TypeOK
    <2>3. \A v \in Services, t \in Sids : v # w \/ t # s => Same(v, t)
      BY <1>2, <1>3, <2>2 DEF Same, SameDesk
    <2>4. CASE r # s
      BY <1>3, <2>3, <2>4, Untouched DEF TInv
    <2>5. CASE r = s
      <3>1. Arriving(w, s)'
        BY <1>2, <1>3, <1>4, <2>2 DEF Local, Arriving, SameTop
      <3>2. Staying(w, s)' /\ Leaving(w, s)' /\ Dropped(w, s)'
        BY <1>2, <1>3, <1>4, <2>2 DEF Staying, Leaving, Dropped, SameOut, SameMain, SameTop
      <3>3. Local(w, s)'
        BY <1>2, <1>3, <1>4, <3>1, <3>2 DEF Local, SameOut
      <3>4. At(w, s)
        BY <1>4 DEF At
      <3> QED BY <1>3, <1>4, <2>3, <2>5, <3>3, <3>4, OneTouched DEF SameMain
    <2> QED BY <2>4, <2>5
  <1> QED BY <1>5, <1>6

LEMMA ClosedTravels ==
    ASSUME IInv, TInv, NEW w \in Services, NEW s \in Sids, SessionClosed(w, s),
           NEW r \in Sids
    PROVE  Travels(r)'
  <1> USE DEF IInv
  <1>1. /\ Resume(w, Handler("close", s)) /\ Closing(w, s)
        /\ players' = [players EXCEPT ![w] = @ \ {s}]
        /\ sessions' = [sessions EXCEPT ![w] = @ \ {s}]
        /\ UNCHANGED <<mainVars, toWorker, toMain, onmap, marks>>
    BY DEF SessionClosed, Resume, Closing
  <1>2. /\ Travels(s) /\ Local(w, s)
        /\ In(w, s) /\ ~Add(w, s) /\ ~Cls(w, s)
        /\ s \notin mgr /\ sock[s] # "new"
        /\ ~Held(w, s) /\ ~Moving(w, s)
        /\ ~Rmv(w, s) /\ ~Removing(w, s) /\ ~Rmd(w, s)
    <2>1. Travels(s) /\ Local(w, s)
      BY DEF TInv, Travels
    <2>2. In(w, s) /\ ~Add(w, s) /\ ~Cls(w, s)
      BY <1>1, <2>1 DEF Local, Dropped
    <2> QED BY <1>1, <2>1, <2>2, DroppedLocal
  <1>3. \A v \in Services, t \in Sids :
          /\ SameIn(v, t) /\ SameOut(v, t) /\ SameMain(v, t) /\ SameTop(t)
          /\ OnMap(v, t)' <=> OnMap(v, t)
          /\ Marked(v, t)' <=> Marked(v, t)
    BY <1>1, Kept DEF OnMap, Marked
  <1>4. \A v \in Services, t \in Sids :
          /\ In(v, t)' <=> In(v, t) /\ ~(v = w /\ t = s)
          /\ Plays(v, t)' <=> Plays(v, t) /\ ~(v = w /\ t = s)
    BY <1>1 DEF In, Plays, TypeOK
  <1>5. \A v \in Services, t \in Sids :
          /\ Creating(v, t)' <=> Creating(v, t)
          /\ Entering(v, t)' <=> Entering(v, t)
          /\ Removing(v, t)' <=> Removing(v, t)
          /\ Closing(v, t)' <=> Closing(v, t) /\ ~(v = w /\ t = s)
    BY <1>1, RunEnd
  <1>6. \A v \in Services, t \in Sids : v # w \/ t # s => Same(v, t)
    BY <1>3, <1>4, <1>5 DEF Same, SameDesk
  <1>7. CASE r # s
    BY <1>3, <1>6, <1>7, Untouched DEF TInv
  <1>8. CASE r = s
    <2>1. Arriving(w, s)'
      BY <1>2, <1>3, <1>4, <1>5 DEF Local, Arriving, SameIn, SameTop
    <2>2. Staying(w, s)' /\ Leaving(w, s)' /\ Dropped(w, s)'
      BY <1>2, <1>3, <1>4, <1>5
         DEF Staying, Leaving, Dropped, SameIn, SameOut, SameMain, SameTop
    <2>3. Local(w, s)'
      BY <1>2, <1>3, <2>1, <2>2 DEF Local, SameIn, SameOut
    <2>4. At(w, s)
      BY <1>2 DEF At
    <2> QED BY <1>2, <1>3, <1>6, <1>8, <2>3, <2>4, OneTouched DEF SameMain
  <1> QED BY <1>7, <1>8

-----------------------------------------------------------------------------
\* The main thread's steps.

\* A session that is assigned: nobody has it but the queue of its new worker.
LEMMA Assigned ==
    ASSUME NEW s \in Sids, NEW t \in Services, (s \in mgr)', (sock[s] # "new")',
           ~OnMap(t, s)',
           \A v \in Services :
             /\ Add(v, s)' <=> v = t
             /\ Held(v, s)' <=> v = t
             /\ ~In(v, s)' /\ ~Creating(v, s)' /\ ~Entering(v, s)'
             /\ v \in World => ~Plays(v, s)'
             /\ OnMap(v, s)' => Plays(v, s)'
             /\ ~Moving(v, s)' /\ ~Chg(v, s)' /\ ~Rmd(v, s)'
             /\ ~Rmv(v, s)' /\ ~Removing(v, s)' /\ ~Cls(v, s)' /\ ~Closing(v, s)'
             /\ PortIn(v, s)' /\ PortOut(v, s)'
    PROVE  Travels(s)'
  <1>1. \A v \in Services : At(v, s)' <=> v = t
    BY DEF At
  <1>2. Fresh(s)' /\ OnePlace(s)'
    BY <1>1 DEF Fresh, OnePlace
  <1>3. ASSUME NEW v \in Services PROVE Local(v, s)'
    <2>1. Arriving(v, s)' /\ Staying(v, s)' /\ Leaving(v, s)' /\ Dropped(v, s)'
      BY DEF Arriving, Staying, Leaving, Dropped
    <2> QED BY <2>1 DEF Local
  <1> QED BY <1>2, <1>3 DEF Travels

\* Adding a session nobody has to a proxy, as far as the ports are concerned.
LEMMA AddSessionPosts ==
    ASSUME TypeOK, NEW t \in Services, NEW s \in Sids, AddSession(t, s), ~Held(t, s),
           NEW v \in Services, NEW r \in Sids
    PROVE  /\ v # t \/ r # s => SameIn(v, r)
           /\ Add(t, s)'
           /\ Rmv(t, s)' <=> Rmv(t, s)
           /\ Cls(t, s)' <=> Cls(t, s)
           /\ PortIn(t, s) /\ ~Add(t, s) /\ ~Cls(t, s) => PortIn(t, s)'
  <1>1. Post(t, M2W("add_session", s)) /\ M2W("add_session", s) \in Msg
    BY Built DEF AddSession, Held
  <1>2. M2W("add_session", s).cmd = "add_session" /\ M2W("add_session", s).sid = s
    BY DEF M2W
  <1> QED BY <1>1, <1>2, PostEffect

LEMMA ConnectTravels ==
    ASSUME IInv, TInv, NEW s \in Sids, Connect(s), NEW r \in Sids
    PROVE  Travels(r)'
  <1> USE DEF IInv
  <1> PICK t \in Services : t = Entry[s]
    BY RoutingAssumption DEF Services
  <1>1. /\ sock[s] = "new" /\ s \notin mgr
        /\ sock' = [sock EXCEPT ![s] = "open"] /\ mgr' = mgr \cup {s}
        /\ AddSession(t, s)
        /\ UNCHANGED <<changing, toMain, workerVars>>
    BY DEF Connect, NewIsUnknown
  <1>2. \A v \in Services : ~Held(v, s) /\ ~Moving(v, s)
    BY <1>1, Known
  <1>3. held' = [held EXCEPT ![t] = @ \cup {s}]
    BY <1>1, <1>2, AddSessionRoutes DEF Held
  <1>4. \A v \in Services, x \in Sids :
          /\ Held(v, x)' <=> Held(v, x) \/ (v = t /\ x = s)
          /\ Moving(v, x)' <=> Moving(v, x)
    BY <1>1, <1>3 DEF Held, Moving, TypeOK
  <1>5. /\ \A v \in Services, x \in Sids : v # t \/ x # s => SameIn(v, x)
        /\ Add(t, s)'
        /\ Rmv(t, s)' <=> Rmv(t, s)
        /\ Cls(t, s)' <=> Cls(t, s)
        /\ PortIn(t, s) /\ ~Add(t, s) /\ ~Cls(t, s) => PortIn(t, s)'
    BY <1>1, <1>2, AddSessionPosts
  <1>6. \A v \in Services, x \in Sids : SameOut(v, x) /\ SameDesk(v, x)
    BY <1>1, Kept
  <1>7. CASE r # s
    <2>1. SameTop(r)
      BY <1>1, <1>7 DEF SameTop, TypeOK
    <2>2. \A v \in Services : Same(v, r)
      BY <1>4, <1>5, <1>6, <1>7 DEF Same, SameMain
    <2> QED BY <2>1, <2>2, Untouched DEF TInv
  <1>8. CASE r = s
    <2>1. Travels(s) /\ \A v \in Services : Local(v, s)
      BY DEF TInv, Travels
    <2>2. \A v \in Services : ~At(v, s) /\ ~OnMap(v, s) /\ ~Chg(v, s) /\ ~Rmd(v, s)
      BY <1>1, <2>1 DEF Travels, Fresh
    <2>3. \A v \in Services : ~Rmv(v, s) /\ ~Removing(v, s) /\ ~Cls(v, s) /\ ~Closing(v, s)
      BY <1>1, <1>2, <2>1 DEF Local, Leaving, Dropped
    <2>4. ASSUME NEW v \in Services
          PROVE  /\ Add(v, s)' <=> v = t
                 /\ Held(v, s)' <=> v = t
                 /\ ~In(v, s)' /\ ~Creating(v, s)' /\ ~Entering(v, s)'
                 /\ v \in World => ~Plays(v, s)'
                 /\ ~OnMap(v, s)'
                 /\ ~Moving(v, s)' /\ ~Chg(v, s)' /\ ~Rmd(v, s)'
                 /\ ~Rmv(v, s)' /\ ~Removing(v, s)' /\ ~Cls(v, s)' /\ ~Closing(v, s)'
                 /\ PortIn(v, s)' /\ PortOut(v, s)'
      <3>1. PortIn(v, s) /\ PortOut(v, s)
        BY <2>1 DEF Local
      <3>2. ~Add(v, s) /\ ~In(v, s) /\ ~Creating(v, s) /\ ~Entering(v, s)
        BY <2>2 DEF At
      <3>3. v \in World => ~Plays(v, s)
        BY <2>2 DEF At
      <3>4. /\ Add(v, s)' <=> v = t
            /\ ~Rmv(v, s)' /\ ~Cls(v, s)' /\ PortIn(v, s)'
        BY <1>5, <2>3, <3>1, <3>2 DEF SameIn
      <3> QED BY <1>2, <1>4, <1>6, <2>2, <2>3, <3>1, <3>2, <3>3, <3>4 DEF SameOut, SameDesk
    <2>5. (s \in mgr)' /\ (sock[s] # "new")'
      BY <1>1 DEF TypeOK
    <2> QED BY <1>8, <2>4, <2>5, Assigned
  <1> QED BY <1>7, <1>8

LEMMA SocketCloseTravels ==
    ASSUME IInv, TInv, NEW s \in Sids, SocketClose(s), NEW r \in Sids
    PROVE  Travels(r)'
  <1> USE DEF IInv
  <1>1. /\ sock' = [sock EXCEPT ![s] = "closed"] /\ UNCHANGED <<changing, toMain, workerVars>>
        /\ mgr' \subseteq mgr /\ \A x \in Sids : x # s => (x \in mgr' <=> x \in mgr)
    BY DEF SocketClose
  <1>2. \A x \in Sids : SameTop(x)
    BY <1>1 DEF SameTop, TypeOK
  <1>3. \A v \in Services, x \in Sids :
          SameOut(v, x) /\ SameDesk(v, x) /\ (Moving(v, x)' <=> Moving(v, x))
    BY <1>1, Kept DEF Moving
  <1>4. CASE s \in mgr /\ current[s] # NoService
    <2> PICK w \in Services : w = current[s]
      BY <1>4 DEF TypeOK
    <2>1. Held(w, s)
      BY <1>4 DEF RoutedOnce, Held
    <2>2. /\ held' = [held EXCEPT ![w] = @ \ {s}]
          /\ Post(w, M2W("close_session", s))
          /\ mgr' = mgr \ {s}
      BY <1>4, <2>1 DEF SocketClose, CloseSession, Held
    <2>3. \A v \in Services, x \in Sids : Held(v, x)' <=> Held(v, x) /\ ~(v = w /\ x = s)
      BY <2>2 DEF Held, TypeOK
    <2>4. /\ \A v \in Services, x \in Sids : v # w \/ x # s => SameIn(v, x)
          /\ Add(w, s)' <=> Add(w, s)
          /\ Rmv(w, s)' <=> Rmv(w, s)
          /\ Cls(w, s)'
          /\ PortIn(w, s) /\ ~Cls(w, s) => PortIn(w, s)'
      <3>1. /\ M2W("close_session", s) \in Msg
            /\ M2W("close_session", s).cmd = "close_session"
            /\ M2W("close_session", s).sid = s
        BY Built DEF M2W
      <3> QED BY <2>2, <3>1, PostEffect
    <2>5. \A v \in Services, x \in Sids : v # w \/ x # s => Same(v, x)
      BY <1>3, <2>3, <2>4 DEF Same, SameMain
    <2>6. CASE r # s
      BY <1>2, <2>5, <2>6, Untouched DEF TInv
    <2>7. CASE r = s
      <3>1. Travels(s) /\ Local(w, s)
        BY DEF TInv, Travels
      <3>2. /\ ~Moving(w, s) /\ ~Rmv(w, s) /\ ~Removing(w, s) /\ ~Rmd(w, s)
            /\ ~Cls(w, s) /\ ~Closing(w, s) /\ (In(w, s) \/ Add(w, s))
            /\ sock[s] # "new"
        BY <2>1, <3>1, Known DEF Local, Staying, Leaving
      <3>3. (s \notin mgr)' /\ (sock[s] # "new")' /\ ~Held(w, s)'
        BY <1>2, <2>2, <2>3, <3>2 DEF SameTop
      <3>4. Arriving(w, s)'
        BY <1>3, <2>4, <3>1, <3>3 DEF Local, Arriving, SameDesk
      <3>5. Staying(w, s)' /\ Leaving(w, s)' /\ Dropped(w, s)'
        BY <1>3, <2>4, <3>2, <3>3 DEF Staying, Leaving, Dropped, SameOut, SameDesk
      <3>6. Local(w, s)'
        BY <1>3, <2>4, <3>1, <3>2, <3>4, <3>5 DEF Local, SameOut
      <3>7. At(w, s)
        BY <3>2 DEF At
      <3> QED BY <1>2, <2>1, <2>5, <2>7, <3>1, <3>2, <3>6, <3>7, OneTouched
    <2> QED BY <2>6, <2>7
  <1>5. CASE ~(s \in mgr /\ current[s] # NoService)
    <2>1. UNCHANGED <<held, toWorker>>
      BY <1>5 DEF SocketClose
    <2>2. \A v \in Services : Same(v, r)
      BY <1>3, <2>1, Kept DEF Same, SameMain, Held
    <2> QED BY <1>2, <2>2, Untouched DEF TInv
  <1> QED BY <1>4, <1>5

LEMMA MessageTravels ==
    ASSUME TypeOK, TInv, NEW s \in Sids, ClientMessage(s), NEW r \in Sids
    PROVE  Travels(r)'
  <1> PICK c \in {"login", "change"}, t \in World \cup {NoService} : Packet(s, c, t)
    BY DEF ClientMessage
  <1> PICK w \in Services, n \in 0..MaxMsgs : w = current[s] /\ n = sent[s] + 1
    BY RoutingAssumption DEF Packet, TypeOK
  <1> PICK m \in Msg : m = [cmd |-> c, sid |-> s, to |-> t, n |-> n]
    BY DEF Msg, Services
  <1>1. Post(w, m)
    BY DEF Packet
  <1>2. m.cmd \notin {"add_session", "rmv_session", "close_session"}
    OBVIOUS
  <1>3. \A v \in Services : SameIn(v, r)
    BY <1>1, <1>2, PostEffect
  <1>4. \A v \in Services : SameOut(v, r) /\ SameDesk(v, r) /\ SameMain(v, r) /\ SameTop(r)
    BY Kept DEF Packet
  <1> QED BY <1>3, <1>4, Untouched DEF TInv, Same

\* Closing a socket changes nothing a travelling session is about.
LEMMA DisconnectKeeps ==
    ASSUME TypeOK, NEW s \in Sids, Disconnect(s), mgr' = mgr, NEW r \in Sids
    PROVE  SameTop(r)
  BY DEF Disconnect, SameTop, TypeOK

LEMMA ChangeServiceTravels ==
    ASSUME IInv, TInv, NEW w \in Services, OnChangeService(w), NEW r \in Sids
    PROVE  Travels(r)'
  <1> USE DEF IInv
  <1> PICK s \in Sids : s = Head(toMain[w]).sid
    BY ReceiveTyped DEF OnChangeService, Reply
  <1>1. Arrived(w, "changeservice") /\ Receive(w) /\ UNCHANGED <<mgr, workerVars>>
    BY DEF OnChangeService
  <1>2. \A v \in Services, x \in Sids : SameOut(v, x) /\ SameDesk(v, x)
    BY <1>1, ReceiveEffect, Kept
  <1>3. Chg(w, s)
    BY <1>1, ReceiveEffect
  <1>4. CASE Held(w, s)
    <2>1. /\ held' = [held EXCEPT ![w] = @ \ {s}]
          /\ changing' = [changing EXCEPT ![w] = @ \cup {s}]
          /\ Post(w, M2W("rmv_session", s))
          /\ UNCHANGED sock
      BY <1>4 DEF OnChangeService, RemoveSession, Held
    <2>2. \A v \in Services, x \in Sids :
            /\ SameTop(x)
            /\ Held(v, x)' <=> Held(v, x) /\ ~(v = w /\ x = s)
            /\ Moving(v, x)' <=> Moving(v, x) \/ (v = w /\ x = s)
      BY <1>1, <2>1 DEF SameTop, Held, Moving, TypeOK
    <2>3. /\ \A v \in Services, x \in Sids : v # w \/ x # s => SameIn(v, x)
          /\ Add(w, s)' <=> Add(w, s)
          /\ Cls(w, s)' <=> Cls(w, s)
          /\ Rmv(w, s)'
          /\ PortIn(w, s) /\ ~Rmv(w, s) => PortIn(w, s)'
      <3>1. /\ M2W("rmv_session", s) \in Msg
            /\ M2W("rmv_session", s).cmd = "rmv_session"
            /\ M2W("rmv_session", s).sid = s
        BY Built DEF M2W
      <3> QED BY <2>1, <3>1, PostEffect
    <2>4. \A v \in Services, x \in Sids : v # w \/ x # s => Same(v, x)
      BY <1>2, <2>2, <2>3 DEF Same, SameMain
    <2>5. CASE r # s
      BY <2>2, <2>4, <2>5, Untouched DEF TInv
    <2>6. CASE r = s
      <3>1. Travels(s) /\ Local(w, s)
        BY DEF TInv, Travels
      <3>2. /\ Settled(w, s) /\ In(w, s) /\ ~Add(w, s)
            /\ ~Rmv(w, s) /\ ~Removing(w, s) /\ ~Rmd(w, s) /\ ~Cls(w, s) /\ ~Closing(w, s)
            /\ sock[s] # "new"
        BY <1>3, <1>4, <3>1, Known DEF Local, Staying, Leaving, Settled
      <3>3. Settled(w, s)'
        BY <1>2, <2>3, <3>2 DEF Settled, SameDesk
      <3>4. Arriving(w, s)'
        BY <1>2, <2>2, <2>3, <3>1 DEF Local, Arriving, SameDesk, SameTop
      <3>5. Staying(w, s)' /\ Leaving(w, s)' /\ Dropped(w, s)'
        BY <1>2, <2>2, <2>3, <3>2, <3>3 DEF Staying, Leaving, Dropped, SameOut, SameDesk
      <3>6. Local(w, s)'
        BY <1>2, <2>3, <3>1, <3>2, <3>4, <3>5 DEF Local, SameOut
      <3>7. At(w, s)
        BY <3>2 DEF At
      <3> QED BY <1>4, <2>2, <2>4, <2>6, <3>1, <3>2, <3>6, <3>7, OneTouched
    <2> QED BY <2>5, <2>6
  <1>5. CASE ~Held(w, s)
    <2>1. Disconnect(s) /\ UNCHANGED <<held, changing, toWorker>>
      BY <1>5 DEF OnChangeService, Held
    <2>2. SameTop(r) /\ \A v \in Services : Same(v, r)
      BY <1>1, <1>2, <2>1, DisconnectKeeps, Kept DEF Same, SameMain, Held, Moving
    <2> QED BY <2>2, Untouched DEF TInv
  <1> QED BY <1>4, <1>5

LEMMA SessionRemovedTravels ==
    ASSUME IInv, TInv, NEW w \in Services, OnSessionRemoved(w), NEW r \in Sids
    PROVE  Travels(r)'
  <1> USE DEF IInv
  <1> PICK s \in Sids, t \in World : s = Head(toMain[w]).sid /\ t = Head(toMain[w]).to
    BY ReceiveTyped DEF OnSessionRemoved, Reply
  <1>1. /\ Arrived(w, "changeservice_sesrmved") /\ Receive(w)
        /\ UNCHANGED <<mgr, workerVars>> /\ t \in Services
    BY DEF OnSessionRemoved, Services
  <1>2. /\ \A v \in Services, x \in Sids : v # w \/ x # s => SameOut(v, x)
        /\ Rmd(w, s) /\ (Chg(w, s)' => Chg(w, s))
        /\ PortOut(w, s) => PortOut(w, s)' /\ ~Rmd(w, s)' /\ ~Chg(w, s)
    BY <1>1, ReceiveEffect
  <1>3. /\ Travels(s) /\ \A v \in Services : Local(v, s)
        /\ Moving(w, s) /\ ~At(w, s) /\ ~Rmv(w, s) /\ ~Removing(w, s)
    <2>1. Travels(s) /\ \A v \in Services : Local(v, s)
      BY DEF TInv, Travels
    <2>2. Local(w, s)
      BY <2>1
    <2> QED BY <1>2, <2>1, <2>2 DEF Local, Leaving
  <1>4. /\ s \in mgr /\ sock[s] # "new"
        /\ \A v \in Services : ~Held(v, s) /\ (Moving(v, s) => v = w)
    BY <1>3, Known
  <1>5. /\ AddSession(t, s)
        /\ changing' = [changing EXCEPT ![w] = @ \ {s}] /\ UNCHANGED sock
    BY <1>3 DEF OnSessionRemoved, Moving
  <1>6. held' = [held EXCEPT ![t] = @ \cup {s}]
    BY <1>1, <1>4, <1>5, AddSessionRoutes DEF Held
  <1>7. \A v \in Services, x \in Sids :
          /\ SameTop(x) /\ SameDesk(v, x)
          /\ Held(v, x)' <=> Held(v, x) \/ (v = t /\ x = s)
          /\ Moving(v, x)' <=> Moving(v, x) /\ ~(v = w /\ x = s)
    BY <1>1, <1>5, <1>6, Kept DEF SameTop, Held, Moving, TypeOK
  <1>8. /\ \A v \in Services, x \in Sids : v # t \/ x # s => SameIn(v, x)
        /\ Add(t, s)'
        /\ Rmv(t, s)' <=> Rmv(t, s)
        /\ Cls(t, s)' <=> Cls(t, s)
        /\ PortIn(t, s) /\ ~Add(t, s) /\ ~Cls(t, s) => PortIn(t, s)'
    BY <1>1, <1>4, <1>5, AddSessionPosts
  <1>9. CASE r # s
    <2>1. \A v \in Services : Same(v, r)
      BY <1>2, <1>7, <1>8, <1>9 DEF Same, SameMain
    <2> QED BY <1>7, <2>1, Untouched DEF TInv
  <1>10. CASE r = s
    <2>1. \A v \in Services : ~At(v, s)
      BY <1>3 DEF Travels, OnePlace
    <2>2. ASSUME NEW v \in Services
          PROVE  /\ ~Rmv(v, s) /\ ~Removing(v, s) /\ ~Cls(v, s) /\ ~Closing(v, s)
                 /\ v # w => ~Rmd(v, s) /\ ~Chg(v, s)
                 /\ OnMap(v, s) => Plays(v, s)
                 /\ PortIn(v, s) /\ PortOut(v, s)
      BY <1>3, <1>4 DEF Local, Arriving, Staying, Leaving, Dropped
    <2>3. ASSUME NEW v \in Services
          PROVE  /\ Add(v, s)' <=> v = t
                 /\ Held(v, s)' <=> v = t
                 /\ ~In(v, s)' /\ ~Creating(v, s)' /\ ~Entering(v, s)'
                 /\ v \in World => ~Plays(v, s)'
                 /\ OnMap(v, s)' => Plays(v, s)'
                 /\ ~Moving(v, s)' /\ ~Chg(v, s)' /\ ~Rmd(v, s)'
                 /\ ~Rmv(v, s)' /\ ~Removing(v, s)' /\ ~Cls(v, s)' /\ ~Closing(v, s)'
                 /\ PortIn(v, s)' /\ PortOut(v, s)'
      <3>1. /\ ~Add(v, s) /\ ~In(v, s) /\ ~Creating(v, s) /\ ~Entering(v, s)
            /\ v \in World => ~Plays(v, s)
        BY <2>1 DEF At
      <3>2. /\ Add(v, s)' <=> v = t
            /\ ~Rmv(v, s)' /\ ~Cls(v, s)' /\ PortIn(v, s)'
        BY <1>8, <2>2, <3>1 DEF SameIn
      <3>3. ~Chg(v, s)' /\ ~Rmd(v, s)' /\ PortOut(v, s)'
        BY <1>2, <2>2 DEF SameOut
      <3>4. /\ Held(v, s)' <=> v = t
            /\ ~Moving(v, s)'
        BY <1>4, <1>7
      <3> QED BY <1>7, <2>2, <3>1, <3>2, <3>3, <3>4 DEF SameDesk
    <2>4. (s \in mgr)' /\ (sock[s] # "new")'
      BY <1>1, <1>4, <1>5
    <2>5. ~OnMap(t, s)'
      BY <2>3, <1>1
    <2> QED BY <1>1, <1>10, <2>3, <2>4, <2>5, Assigned
  <1> QED BY <1>9, <1>10

LEMMA KickTravels ==
    ASSUME TypeOK, TInv, NEW w \in Services, OnKickPlayer(w), NEW r \in Sids
    PROVE  Travels(r)'
  <1>1. Head(toMain[w]).sid \in Sids
    BY ReceiveTyped DEF OnKickPlayer, Reply
  <1>2. SameTop(r)
    BY <1>1, DisconnectKeeps DEF OnKickPlayer
  <1>3. \A v \in Services : SameOut(v, r)
    BY ReceiveEffect DEF OnKickPlayer
  <1>4. \A v \in Services : SameIn(v, r) /\ SameDesk(v, r) /\ SameMain(v, r)
    BY Kept DEF OnKickPlayer, SameMain, Held, Moving
  <1> QED BY <1>2, <1>3, <1>4, Untouched DEF TInv, Same

-----------------------------------------------------------------------------
\* Ports and handlers keep to the kind of their worker.
LEMMA PostKinds ==
    ASSUME TypeOK, NEW w \in Services, NEW m \in Msg, Post(w, m), m.cmd # "login" \/ w \notin World,
           UNCHANGED running, NEW v \in Services, Kinds(v)
    PROVE  Kinds(v)'
  <1>1. toWorker[w] \in Seq(Msg) /\ toWorker'[w] = Append(toWorker[w], m)
    BY DEF TypeOK, Post
  <1>2. v # w => toWorker'[v] = toWorker[v]
    BY DEF TypeOK, Post
  <1>3. /\ Len(toWorker[w]) \in Nat /\ DOMAIN toWorker[w] = 1..Len(toWorker[w])
        /\ DOMAIN toWorker'[w] = 1..(Len(toWorker[w]) + 1)
        /\ \A i \in 1..Len(toWorker[w]) : toWorker'[w][i] = toWorker[w][i]
        /\ toWorker'[w][Len(toWorker[w]) + 1] = m
    BY <1>1, AppendProperties, LenProperties
  <1>4. \A i \in DOMAIN toWorker'[v] : toWorker'[v][i].cmd = "login" => v \notin World
    <2>1. CASE v # w
      BY <1>2, <2>1 DEF Kinds
    <2>2. CASE v = w
      <3>1. ASSUME NEW i \in DOMAIN toWorker'[w], toWorker'[w][i].cmd = "login"
            PROVE  w \notin World
        <4>1. CASE i = Len(toWorker[w]) + 1
          BY <1>3, <3>1, <4>1
        <4>2. CASE i \in 1..Len(toWorker[w])
          BY <1>3, <2>2, <3>1, <4>2 DEF Kinds
        <4> QED BY <1>3, <4>1, <4>2
      <3> QED BY <2>2, <3>1
    <2> QED BY <2>1, <2>2
  <1> QED BY <1>4 DEF Kinds

LEMMA DispatchKinds ==
    ASSUME TypeOK, NEW w \in Services, NEW c, Dispatch(w, c), NEW v \in Services, Kinds(v)
    PROVE  /\ \A i \in DOMAIN toWorker'[v] : toWorker'[v][i].cmd = "login" => v \notin World
           /\ v = w /\ c = "login" => w \notin World
  <1>1. toWorker[w] \in Seq(Msg) /\ toWorker[w] # <<>> /\ toWorker'[w] = Tail(toWorker[w])
    BY DEF TypeOK, Dispatch
  <1>2. v # w => toWorker'[v] = toWorker[v]
    BY DEF TypeOK, Dispatch
  <1>3. /\ Len(toWorker[w]) \in Nat \ {0} /\ DOMAIN toWorker[w] = 1..Len(toWorker[w])
        /\ DOMAIN toWorker'[w] = 1..(Len(toWorker[w]) - 1)
        /\ \A i \in 1..(Len(toWorker[w]) - 1) : toWorker'[w][i] = toWorker[w][i + 1]
        /\ Head(toWorker[w]) = toWorker[w][1]
    BY <1>1, TailShape
  <1>4. v = w => \A i \in DOMAIN toWorker'[w] : toWorker'[w][i].cmd = "login" => w \notin World
    <2>1. ASSUME v = w, NEW i \in DOMAIN toWorker'[w], toWorker'[w][i].cmd = "login"
          PROVE  w \notin World
      <3>1. i + 1 \in DOMAIN toWorker[w] /\ toWorker'[w][i] = toWorker[w][i + 1]
        BY <1>3
      <3> QED BY <2>1, <3>1 DEF Kinds
    <2> QED BY <2>1
  <1>5. v = w /\ c = "login" => w \notin World
    <2>1. 1 \in DOMAIN toWorker[w] /\ toWorker[w][1].cmd = c
      BY <1>3 DEF Dispatch
    <2> QED BY <2>1 DEF Kinds
  <1> QED BY <1>2, <1>4, <1>5 DEF Kinds

\* ... and what a step adds to the running handlers keeps to it too.
LEMMA RunKinds ==
    ASSUME NEW v \in Services, Kinds(v),
           \A h \in running'[v] : \/ h \in running[v]
                                  \/ h.stage \in {"remove", "close"}
                                  \/ h.stage = "login" /\ v \notin World
                                  \/ h.stage \in {"create", "firstin"} /\ v \in World,
           \A i \in DOMAIN toWorker'[v] : toWorker'[v][i].cmd = "login" => v \notin World
    PROVE  Kinds(v)'
  BY DEF Kinds

LEMMA NextKinds ==
    ASSUME IInv, TInv, [Next]_vars, NEW v \in Services
    PROVE  Kinds(v)'
  <1> USE DEF IInv
  <1>0. Kinds(v)
    BY DEF TInv
  <1>1. ASSUME UNCHANGED <<toWorker, running>> PROVE Kinds(v)'
    BY <1>0, <1>1 DEF Kinds
  <1>2. ASSUME NEW w \in Services, NEW s \in Sids,
               NEW c \in {"add_session", "rmv_session", "close_session"},
               Post(w, M2W(c, s)), UNCHANGED running
        PROVE  Kinds(v)'
    <2>1. M2W(c, s) \in Msg /\ M2W(c, s).cmd # "login"
      BY Built DEF M2W
    <2> QED BY <1>0, <1>2, <2>1, PostKinds
  <1>3. ASSUME NEW s \in Sids, Connect(s) PROVE Kinds(v)'
    <2>1. Entry[s] \in Services
      BY RoutingAssumption DEF Services
    <2> QED BY <1>1, <1>2, <1>3, <2>1 DEF Connect, AddSession, workerVars
  <1>4. ASSUME NEW s \in Sids, SocketClose(s) PROVE Kinds(v)'
    <2>1. s \in mgr /\ current[s] # NoService => current[s] \in Services
      BY DEF TypeOK
    <2> QED BY <1>1, <1>2, <1>4, <2>1 DEF SocketClose, CloseSession, workerVars
  <1>5. ASSUME NEW s \in Sids, ClientMessage(s) PROVE Kinds(v)'
    <2> PICK c \in {"login", "change"}, t \in World \cup {NoService} :
          Packet(s, c, t) /\ (c = "login" => current[s] \in OutGame)
      BY <1>5 DEF ClientMessage
    <2> PICK w \in Services, n \in 0..MaxMsgs : w = current[s] /\ n = sent[s] + 1
      BY RoutingAssumption DEF Packet, TypeOK
    <2> PICK m \in Msg : m = [cmd |-> c, sid |-> s, to |-> t, n |-> n]
      BY DEF Msg, Services
    <2>1. Post(w, m) /\ UNCHANGED running
      BY DEF Packet, workerVars
    <2>2. m.cmd # "login" \/ w \notin World
      BY RoutingAssumption
    <2> QED BY <1>0, <2>1, <2>2, PostKinds
  <1>6. ASSUME NEW w \in Services, MainStep(w) PROVE Kinds(v)'
    <2>1. CASE OnChangeService(w)
      <3> PICK s \in Sids : s = Head(toMain[w]).sid
        BY <2>1, ReceiveTyped DEF OnChangeService, Reply
      <3> QED BY <1>1, <1>2, <2>1 DEF OnChangeService, RemoveSession, workerVars
    <2>2. CASE OnSessionRemoved(w)
      <3> PICK s \in Sids, t \in World : s = Head(toMain[w]).sid /\ t = Head(toMain[w]).to
        BY <2>2, ReceiveTyped DEF OnSessionRemoved, Reply
      <3>1. t \in Services
        BY DEF Services
      <3> QED BY <1>1, <1>2, <2>2, <3>1 DEF OnSessionRemoved, AddSession, workerVars
    <2>3. CASE OnKickPlayer(w)
      BY <1>1, <2>3 DEF OnKickPlayer, workerVars
    <2> QED BY <1>6, <2>1, <2>2, <2>3 DEF MainStep
  <1>7. ASSUME NEW w \in Services, NEW c, Dispatch(w, c),
               \/ UNCHANGED running
               \/ \E h : /\ Await(w, h)
                         /\ \/ h.stage \in {"remove", "close"}
                            \/ h.stage = "login" /\ c = "login"
                            \/ h.stage = "create" /\ w \in World
        PROVE  Kinds(v)'
    <2>1. /\ \A i \in DOMAIN toWorker'[v] : toWorker'[v][i].cmd = "login" => v \notin World
          /\ v = w /\ c = "login" => w \notin World
      BY <1>0, <1>7, DispatchKinds
    <2>2. \A h \in running'[v] : \/ h \in running[v]
                                 \/ h.stage \in {"remove", "close"}
                                 \/ h.stage = "login" /\ v \notin World
                                 \/ h.stage \in {"create", "firstin"} /\ v \in World
      <3>1. CASE UNCHANGED running
        BY <3>1
      <3>2. ASSUME NEW h, Await(w, h),
                   \/ h.stage \in {"remove", "close"}
                   \/ h.stage = "login" /\ c = "login"
                   \/ h.stage = "create" /\ w \in World
            PROVE  \A g \in running'[v] : \/ g \in running[v]
                                          \/ g.stage \in {"remove", "close"}
                                          \/ g.stage = "login" /\ v \notin World
                                          \/ g.stage \in {"create", "firstin"} /\ v \in World
        <4>1. \A g : g \in running'[v] => g \in running[v] \/ (v = w /\ g = h)
          BY <3>2 DEF Await, TypeOK
        <4> QED BY <2>1, <3>2, <4>1
      <3> QED BY <1>7, <3>1, <3>2
    <2> QED BY <1>0, <2>1, <2>2, RunKinds
  <1>8. ASSUME NEW w \in Services, WorkerStep(w) PROVE Kinds(v)'
    <2>1. CASE OnAddSession(w)
      BY <1>7, <2>1 DEF OnAddSession, Handler
    <2>2. CASE OnLogin(w)
      BY <1>7, <2>2 DEF OnLogin
    <2>3. CASE OnChange(w)
      BY <1>7, <2>3 DEF OnChange
    <2>4. CASE OnRemoveSession(w)
      BY <1>7, <2>4 DEF OnRemoveSession, Handler
    <2>5. CASE OnSessionClose(w)
      BY <1>7, <2>5 DEF OnSessionClose, Handler
    <2> QED BY <1>8, <2>1, <2>2, <2>3, <2>4, <2>5 DEF WorkerStep
  <1>9. ASSUME NEW w \in Services, NEW h, UNCHANGED toWorker, Resume(w, h) PROVE Kinds(v)'
    <2>1. \A g : g \in running'[v] => g \in running[v]
      BY <1>9 DEF Resume, TypeOK
    <2> QED BY <1>0, <1>9, <2>1 DEF Kinds
  <1>10. ASSUME NEW w \in Services, NEW s \in Sids, Continuation(w, s) PROVE Kinds(v)'
    <2>1. CASE PlayerCreated(w, s)
      <3>1. CASE Resume(w, Handler("create", s))
        BY <1>9, <2>1, <3>1 DEF PlayerCreated
      <3>2. CASE running' = [running EXCEPT ![w] =
                               (@ \ {Handler("create", s)}) \cup {Handler("firstin", s)}]
        <4>1. Kinds(w) /\ Handler("create", s) \in running[w]
          BY <2>1 DEF PlayerCreated, TInv
        <4>2. w \in World
          BY <4>1 DEF Kinds, Handler
        <4>3. \A g : g \in running'[v] =>
                g \in running[v] \/ (v = w /\ g = Handler("firstin", s))
          BY <3>2 DEF TypeOK
        <4>4. Handler("firstin", s).stage = "firstin"
          BY DEF Handler
        <4>5. toWorker' = toWorker
          BY <2>1 DEF PlayerCreated
        <4> QED BY <1>0, <4>2, <4>3, <4>4, <4>5 DEF Kinds
      <3> QED BY <2>1, <3>1, <3>2 DEF PlayerCreated
    <2>2. CASE FirstinFlushed(w, s)
      BY <1>9, <2>2 DEF FirstinFlushed
    <2>3. CASE SessionRemoved(w, s)
      BY <1>9, <2>3 DEF SessionRemoved
    <2>4. CASE SessionClosed(w, s)
      BY <1>9, <2>4 DEF SessionClosed
    <2>5. ASSUME NEW n \in 1..MaxMsgs, LoginDone(w, s, n) PROVE Kinds(v)'
      BY <1>9, <2>5 DEF LoginDone
    <2> QED BY <1>10, <2>1, <2>2, <2>3, <2>4, <2>5 DEF Continuation
  <1> QED BY <1>1, <1>3, <1>4, <1>5, <1>6, <1>8, <1>10 DEF Next, vars, workerVars

-----------------------------------------------------------------------------
\* The way of a session is an invariant.
LEMMA InitTravels == Init => TInv
  <1> SUFFICES ASSUME Init PROVE TInv
    OBVIOUS
  <1>1. ASSUME NEW w \in Services, NEW s \in Sids
        PROVE  /\ ~Add(w, s) /\ ~Rmv(w, s) /\ ~Cls(w, s) /\ ~Chg(w, s) /\ ~Rmd(w, s)
               /\ PortIn(w, s) /\ PortOut(w, s)
               /\ ~Creating(w, s) /\ ~Entering(w, s) /\ ~Removing(w, s) /\ ~Closing(w, s)
               /\ ~In(w, s) /\ ~Plays(w, s) /\ ~OnMap(w, s) /\ ~Held(w, s) /\ ~Moving(w, s)
               /\ Kinds(w)
    <2>1. toWorker[w] = <<>> /\ toMain[w] = <<>>
      BY DEF Init
    <2>2. DOMAIN toWorker[w] = {} /\ DOMAIN toMain[w] = {}
      BY <2>1
    <2>3. /\ ~Add(w, s) /\ ~Rmv(w, s) /\ ~Cls(w, s) /\ ~Chg(w, s) /\ ~Rmd(w, s)
          /\ PortIn(w, s) /\ PortOut(w, s)
      BY <2>2 DEF Add, Rmv, Cls, Chg, Rmd, Has, PortIn, PortOut, Once, Before
    <2>4. /\ ~Creating(w, s) /\ ~Entering(w, s) /\ ~Removing(w, s) /\ ~Closing(w, s)
          /\ ~In(w, s) /\ ~Plays(w, s) /\ ~OnMap(w, s) /\ ~Held(w, s) /\ ~Moving(w, s)
          /\ Kinds(w)
      BY <2>2 DEF Init, Creating, Entering, Removing, Closing, In, Plays, OnMap, Held, Moving, Kinds
    <2> QED BY <2>3, <2>4
  <1>2. ASSUME NEW w \in Services, NEW s \in Sids PROVE ~At(w, s) /\ Local(w, s)
    BY <1>1 DEF At, Local, Arriving, Staying, Leaving, Dropped
  <1>3. ASSUME NEW s \in Sids PROVE Travels(s)
    BY <1>1, <1>2 DEF Travels, Fresh, OnePlace
  <1>4. ASSUME NEW w \in Services PROVE Kinds(w)
    <2>1. running[w] = {} /\ toWorker[w] = <<>>
      BY DEF Init
    <2> QED BY <2>1 DEF Kinds
  <1> QED BY <1>3, <1>4 DEF TInv

LEMMA NextTravels == IInv /\ TInv /\ [Next]_vars => TInv'
  <1> SUFFICES ASSUME IInv, TInv, [Next]_vars PROVE TInv'
    OBVIOUS
  <1>0. TypeOK
    BY DEF IInv
  <1>1. ASSUME NEW r \in Sids PROVE Travels(r)'
    <2>1. ASSUME UNCHANGED vars PROVE Travels(r)'
      <3>1. \A v \in Services : Same(v, r) /\ SameTop(r)
        BY <2>1, Kept DEF Same, vars
      <3> QED BY <2>1, <3>1, Untouched DEF TInv, SameTop, vars, mainVars
    <2>2. ASSUME NEW s \in Sids, Connect(s) \/ SocketClose(s) \/ ClientMessage(s)
          PROVE  Travels(r)'
      BY <1>0, <2>2, ConnectTravels, SocketCloseTravels, MessageTravels
    <2>3. ASSUME NEW w \in Services, MainStep(w) PROVE Travels(r)'
      BY <1>0, <2>3, ChangeServiceTravels, SessionRemovedTravels, KickTravels DEF MainStep
    <2>4. ASSUME NEW w \in Services, WorkerStep(w) PROVE Travels(r)'
      BY <1>0, <2>4, AddSessionTravels, LoginTravels, ChangeTravels, RemoveTravels, CloseTravels
         DEF WorkerStep
    <2>5. ASSUME NEW w \in Services, NEW s \in Sids, Continuation(w, s) PROVE Travels(r)'
      BY <1>0, <2>5, CreatedTravels, FirstinTravels, RemovedTravels, ClosedTravels, LoginDoneTravels
         DEF Continuation
    <2> QED BY <2>1, <2>2, <2>3, <2>4, <2>5 DEF Next
  <1> QED BY <1>1, NextKinds DEF TInv

LEMMA Way == Spec => [](IInv /\ TInv)
  <1> QED BY InitIInv, NextIInv, InitTravels, NextTravels, PTL DEF Spec

\* "wait remove finish": a worker takes a session in only when the worker it left
\* has flushed and forgotten it, so no two workers hold it or its player.
THEOREM OneWorkerHasIt == Spec => []WaitRemoveFinish
  <1>1. TInv => WaitRemoveFinish
    BY DEF TInv, Travels, OnePlace, At, In, Plays, WaitRemoveFinish
  <1> QED BY Way, <1>1, PTL

\* The ports deliver what main decided in its order, and when they are empty and
\* no handler runs, main and the workers agree who has which session.
THEOREM PortsAgree == Spec => []Agreement
  <1>1. ASSUME IInv, TInv PROVE Agreement
    <2>0. TypeOK
      BY <1>1 DEF IInv
    <2>1. ASSUME NEW w \in Services, toWorker[w] # <<>>
          PROVE  LET m == Head(toWorker[w]) IN
                 /\ m.cmd \in {"rmv_session", "close_session"} => m.sid \in sessions[w]
                 /\ m.cmd = "add_session" => m.sid \notin sessions[w]
      <3> PICK m \in Msg : m = Head(toWorker[w])
        BY <2>0, <2>1, HeadTail DEF TypeOK
      <3> PICK s \in Sids : s = m.sid
        BY DEF Msg
      <3>1. Local(w, s)
        BY <1>1 DEF TInv, Travels
      <3>2. /\ m.cmd = "rmv_session" => Rmv(w, s)
            /\ m.cmd = "add_session" => Add(w, s)
            /\ m.cmd = "close_session" => Cls(w, s) /\ ~Add(w, s)
        <4>1. toWorker[w] \in Seq(Msg)
          BY <2>0 DEF TypeOK
        <4>2. \A c : m.cmd = c => Has(toWorker[w], c, s)
          BY <2>1, <4>1, TailHas
        <4>3. m.cmd = "close_session" => ~Has(toWorker[w], "add_session", s)
          BY <2>1, <3>1, <4>1, TailOrder DEF Local, PortIn
        <4> QED BY <4>2, <4>3 DEF Rmv, Add, Cls
      <3> QED BY <3>1, <3>2 DEF Local, Arriving, Leaving, Dropped, Settled, In
    <2>2. ASSUME NEW w \in Services, Arrived(w, "changeservice_sesrmved")
          PROVE  Head(toMain[w]).sid \in changing[w]
      <3>1. toMain[w] \in Seq(Reply) /\ toMain[w] # <<>> /\ Head(toMain[w]) \in Reply
        BY <2>0, <2>2, HeadTail DEF TypeOK, Arrived
      <3> PICK s \in Sids : s = Head(toMain[w]).sid
        BY <3>1 DEF Reply
      <3>2. Rmd(w, s)
        BY <2>2, <3>1, TailHas DEF Rmd, Arrived
      <3> QED BY <1>1, <3>2 DEF TInv, Travels, Local, Leaving, Moving
    <2>3. ASSUME \A w \in Services : toWorker[w] = <<>> /\ toMain[w] = <<>> /\ running[w] = {}
          PROVE  \A w \in Services : sessions[w] = held[w] /\ changing[w] = {}
      <3> SUFFICES ASSUME NEW w \in Services, NEW s \in Sids
                   PROVE  (In(w, s) <=> Held(w, s)) /\ ~Moving(w, s)
        BY <2>0 DEF TypeOK, In, Held, Moving
      <3>1. DOMAIN toWorker[w] = {} /\ DOMAIN toMain[w] = {} /\ running[w] = {}
        BY <2>3
      <3>2. /\ ~Add(w, s) /\ ~Rmv(w, s) /\ ~Cls(w, s) /\ ~Rmd(w, s)
            /\ ~Removing(w, s) /\ ~Closing(w, s)
        BY <3>1 DEF Add, Rmv, Cls, Rmd, Has, Removing, Closing
      <3>3. Local(w, s)
        BY <1>1 DEF TInv, Travels
      <3> QED BY <3>2, <3>3 DEF Local, Staying, Leaving
    <2> QED BY <2>1, <2>2, <2>3 DEF Agreement
  <1> QED BY Way, <1>1, PTL

-----------------------------------------------------------------------------
\* The custody of SessionCustody.tla, one session at a time.
Rt(s) == IF s \notin mgr THEN IF sock[s] = "new" THEN "new" ELSE "gone"
         ELSE IF current[s] = NoService THEN "moving" ELSE current[s]
Pd(s) == One({w \in Services : Queued(w, s)})
Hm(s) == One({w \in Services : s \in sessions[w]})

LEMMA OneIs ==
    ASSUME NEW S
    PROVE  /\ S = {} => One(S) = NoService
           /\ \A w : S = {w} => One(S) = w
  BY DEF One

\* Who is pending and who is at home, read off the ports and tables ...
LEMMA Places ==
    ASSUME NEW s \in Sids
    PROVE  /\ (\A v \in Services : ~Add(v, s)) => Pd(s) = NoService
           /\ \A w \in Services : (\A v \in Services : Add(v, s) <=> v = w) => Pd(s) = w
           /\ (\A v \in Services : ~In(v, s)) => Hm(s) = NoService
           /\ \A w \in Services : (\A v \in Services : In(v, s) <=> v = w) => Hm(s) = w
  <1> DEFINE A == {v \in Services : Queued(v, s)}
             H == {v \in Services : s \in sessions[v]}
  <1>1. /\ \A v : v \in A <=> v \in Services /\ Add(v, s)
        /\ \A v : v \in H <=> v \in Services /\ In(v, s)
    BY DEF Queued, Add, Has, In
  <1>2. Pd(s) = One(A) /\ Hm(s) = One(H)
    BY DEF Pd, Hm
  <1> HIDE DEF A, H
  <1>3. (\A v \in Services : ~Add(v, s)) => A = {}
    BY <1>1
  <1>4. \A w \in Services : (\A v \in Services : Add(v, s) <=> v = w) => A = {w}
    BY <1>1
  <1>5. (\A v \in Services : ~In(v, s)) => H = {}
    BY <1>1
  <1>6. \A w \in Services : (\A v \in Services : In(v, s) <=> v = w) => H = {w}
    BY <1>1
  <1> QED BY <1>2, <1>3, <1>4, <1>5, <1>6, OneIs

\* ... before and after a step.
LEMMA PlacesAfter ==
    ASSUME NEW s \in Sids
    PROVE  /\ (\A v \in Services : ~Add(v, s)') => Pd(s)' = NoService
           /\ \A w \in Services : (\A v \in Services : Add(v, s)' <=> v = w) => Pd(s)' = w
           /\ (\A v \in Services : ~In(v, s)') => Hm(s)' = NoService
           /\ \A w \in Services : (\A v \in Services : In(v, s)' <=> v = w) => Hm(s)' = w
  <1> DEFINE A == {v \in Services : Queued(v, s)'}
             H == {v \in Services : (s \in sessions[v])'}
  <1>1. /\ \A v : v \in A <=> v \in Services /\ Add(v, s)'
        /\ \A v : v \in H <=> v \in Services /\ In(v, s)'
    BY DEF Queued, Add, Has, In
  <1>2. Pd(s)' = One(A) /\ Hm(s)' = One(H)
    BY DEF Pd, Hm
  <1> HIDE DEF A, H
  <1>3. (\A v \in Services : ~Add(v, s)') => A = {}
    BY <1>1
  <1>4. \A w \in Services : (\A v \in Services : Add(v, s)' <=> v = w) => A = {w}
    BY <1>1
  <1>5. (\A v \in Services : ~In(v, s)') => H = {}
    BY <1>1
  <1>6. \A w \in Services : (\A v \in Services : In(v, s)' <=> v = w) => H = {w}
    BY <1>1
  <1> QED BY <1>2, <1>3, <1>4, <1>5, <1>6, OneIs

\* A step that leaves a session's queues and tables leaves its custody.
LEMMA PlacesKept ==
    ASSUME NEW s \in Sids
    PROVE  /\ (\A v \in Services : Add(v, s)' <=> Add(v, s)) => Pd(s)' = Pd(s)
           /\ (\A v \in Services : In(v, s)' <=> In(v, s)) => Hm(s)' = Hm(s)
  <1>1. ASSUME \A v \in Services : Add(v, s)' <=> Add(v, s) PROVE Pd(s)' = Pd(s)
    <2>1. {v \in Services : Queued(v, s)'} = {v \in Services : Queued(v, s)}
      BY <1>1 DEF Queued, Add, Has
    <2> QED BY <2>1 DEF Pd
  <1>2. ASSUME \A v \in Services : In(v, s)' <=> In(v, s) PROVE Hm(s)' = Hm(s)
    <2>1. {v \in Services : (s \in sessions[v])'} = {v \in Services : s \in sessions[v]}
      BY <1>2 DEF In
    <2> QED BY <2>1 DEF Hm
  <1> QED BY <1>1, <1>2

\* One session's custody: a step of SessionCustody.tla, or nothing.
Keeps(s) == Rt(s)' = Rt(s) /\ Pd(s)' = Pd(s) /\ Hm(s)' = Hm(s)
MayAssign(s) == \E w \in Services :
    /\ Rt(s) \in {"new", "moving"} /\ Hm(s) = NoService
    /\ Rt(s)' = w /\ Pd(s)' = w /\ Hm(s)' = Hm(s)
MayTakeIn(s) ==
    /\ Pd(s) # NoService /\ Hm(s) = NoService
    /\ Rt(s)' = Rt(s) /\ Pd(s)' = NoService /\ Hm(s)' = Pd(s)
MayTakeOff(s) ==
    /\ Rt(s) \in Services /\ Hm(s) = Rt(s)
    /\ Rt(s)' = "moving" /\ Pd(s)' = Pd(s) /\ Hm(s)' = Hm(s)
MayDrop(s) ==
    /\ Rt(s) \in Services
    /\ Rt(s)' = "gone" /\ Pd(s)' = Pd(s) /\ Hm(s)' = Hm(s)
MayLetGo(s) ==
    /\ Hm(s) # NoService /\ Rt(s) \in {"moving", "gone"}
    /\ Rt(s)' = Rt(s) /\ Pd(s)' = Pd(s) /\ Hm(s)' = NoService
Custodial(s) == MayAssign(s) \/ MayTakeIn(s) \/ MayTakeOff(s) \/ MayDrop(s) \/ MayLetGo(s)

\* One session's step, the others left alone, is a step of the custody.
LEMMA Lift ==
    ASSUME NEW s \in Sids, Custodial(s) \/ Keeps(s), \A x \in Sids : x # s => Keeps(x)
    PROVE  [Custody!Next]_(Custody!vars)
  <1> DEFINE R == [x \in Sids |-> Rt(x)]
             P == [x \in Sids |-> Pd(x)]
             H == [x \in Sids |-> Hm(x)]
  <1>1. ASSUME \A x \in Sids : Keeps(x) PROVE UNCHANGED Custody!vars
    <2>1. R' = R /\ P' = P /\ H' = H
      BY <1>1 DEF Keeps
    <2> QED BY <2>1 DEF Custody!vars, Rt, Pd, Hm
  <1>2. ASSUME Custodial(s) PROVE Custody!Next
    <2>1. /\ R' = [R EXCEPT ![s] = Rt(s)'] /\ P' = [P EXCEPT ![s] = Pd(s)']
          /\ H' = [H EXCEPT ![s] = Hm(s)']
      BY DEF Keeps
    <2>2. /\ R[s] = Rt(s) /\ P[s] = Pd(s) /\ H[s] = Hm(s)
          /\ Rt(s)' = Rt(s) => R' = R
          /\ Pd(s)' = Pd(s) => P' = P
          /\ Hm(s)' = Hm(s) => H' = H
      BY <2>1
    <2>3. CASE MayAssign(s)
      <3>1. PICK w \in Services : /\ Rt(s) \in {"new", "moving"} /\ Hm(s) = NoService
                                  /\ Rt(s)' = w /\ Pd(s)' = w /\ Hm(s)' = Hm(s)
        BY <2>3 DEF MayAssign
      <3>2. /\ R[s] \in {"new", "moving"} /\ H[s] = NoService
            /\ R' = [R EXCEPT ![s] = w] /\ P' = [P EXCEPT ![s] = w] /\ H' = H
        BY <2>1, <2>2, <3>1
      <3>3. Custody!Assign(s, w)
        BY <3>2 DEF Custody!Assign, Rt, Pd, Hm
      <3> QED BY <3>3 DEF Custody!Next
    <2>4. CASE MayTakeIn(s)
      <3>1. /\ P[s] # NoService /\ H[s] = NoService
            /\ H' = [H EXCEPT ![s] = P[s]] /\ P' = [P EXCEPT ![s] = NoService] /\ R' = R
        BY <2>1, <2>2, <2>4 DEF MayTakeIn
      <3>2. Custody!TakeIn(s)
        BY <3>1 DEF Custody!TakeIn, Rt, Pd, Hm
      <3> QED BY <3>2 DEF Custody!Next
    <2>5. CASE MayTakeOff(s)
      <3>1. /\ R[s] \in Services /\ H[s] = R[s]
            /\ R' = [R EXCEPT ![s] = "moving"] /\ P' = P /\ H' = H
        BY <2>1, <2>2, <2>5 DEF MayTakeOff
      <3>2. Custody!TakeOff(s)
        BY <3>1 DEF Custody!TakeOff, Rt, Pd, Hm
      <3> QED BY <3>2 DEF Custody!Next
    <2>6. CASE MayDrop(s)
      <3>1. R[s] \in Services /\ R' = [R EXCEPT ![s] = "gone"] /\ P' = P /\ H' = H
        BY <2>1, <2>2, <2>6 DEF MayDrop
      <3>2. Custody!Drop(s)
        BY <3>1 DEF Custody!Drop, Rt, Pd, Hm
      <3> QED BY <3>2 DEF Custody!Next
    <2>7. CASE MayLetGo(s)
      <3>1. /\ H[s] # NoService /\ R[s] \in {"moving", "gone"}
            /\ H' = [H EXCEPT ![s] = NoService] /\ R' = R /\ P' = P
        BY <2>1, <2>2, <2>7 DEF MayLetGo
      <3>2. Custody!LetGo(s)
        BY <3>1 DEF Custody!LetGo, Rt, Pd, Hm
      <3> QED BY <3>2 DEF Custody!Next
    <2> QED BY <1>2, <2>3, <2>4, <2>5, <2>6, <2>7 DEF Custodial
  <1> QED BY <1>1, <1>2

\* A step that leaves main's tables, the assignments on the ports and the
\* workers' session tables alone is none of the custody's business.
LEMMA Aside ==
    ASSUME NEW s \in Sids, UNCHANGED mainVars,
           \A v \in Services, x \in Sids : /\ Add(v, x)' <=> Add(v, x)
                                           /\ In(v, x)' <=> In(v, x)
    PROVE  [Custody!Next]_(Custody!vars)
  <1>1. \A x \in Sids : Keeps(x)
    BY PlacesKept DEF Keeps, Rt, mainVars
  <1> QED BY <1>1, Lift

LEMMA LetsGo ==
    ASSUME IInv, TInv, NEW w \in Services, NEW s \in Sids, In(w, s), UNCHANGED mainVars,
           Moving(w, s) \/ (s \notin mgr /\ sock[s] # "new"),
           \A v \in Services, x \in Sids :
             /\ Add(v, x)' <=> Add(v, x)
             /\ In(v, x)' <=> In(v, x) /\ ~(v = w /\ x = s)
    PROVE  [Custody!Next]_(Custody!vars)
  <1>1. \A x \in Sids : Rt(x)' = Rt(x) /\ Pd(x)' = Pd(x)
    BY PlacesKept DEF Rt, mainVars
  <1>2. \A x \in Sids : x # s => Keeps(x)
    BY <1>1, PlacesKept DEF Keeps
  <1>3. \A v \in Services : In(v, s) <=> v = w
    BY DEF TInv, Travels, OnePlace, At
  <1>4. Hm(s) = w /\ Hm(s)' = NoService /\ w # NoService
    BY <1>3, Places, PlacesAfter, RoutingAssumption
  <1>5. Rt(s) \in {"moving", "gone"}
    BY Known DEF Rt, IInv, RoutedOnce, Moving
  <1>6. MayLetGo(s)
    BY <1>1, <1>4, <1>5 DEF MayLetGo
  <1> QED BY <1>2, <1>6, Lift DEF Custodial

LEMMA WorkerCustody ==
    ASSUME IInv, TInv, NEW w \in Services, WorkerStep(w)
    PROVE  [Custody!Next]_(Custody!vars)
  <1>0. TypeOK
    BY DEF IInv
  <1>1. ASSUME NEW c, Dispatch(w, c), c # "add_session", NEW v \in Services, NEW x \in Sids
        PROVE  Add(v, x)' <=> Add(v, x)
    BY <1>0, <1>1, DispatchEffect DEF SameIn
  <1>2. CASE OnAddSession(w)
    <2> PICK s \in Sids : s = Head(toWorker[w]).sid
      BY <1>0, <1>2, DispatchTyped DEF OnAddSession, Msg
    <2>1. /\ \A v \in Services, t \in Sids : v # w \/ t # s => (Add(v, t)' <=> Add(v, t))
          /\ Add(w, s) /\ (PortIn(w, s) => ~Add(w, s)')
      BY <1>0, <1>2, DispatchEffect DEF OnAddSession, SameIn
    <2>2. Travels(s) /\ Local(w, s)
      BY DEF TInv, Travels
    <2>3. At(w, s) /\ ~In(w, s) /\ ~Add(w, s)'
      BY <2>1, <2>2 DEF At, Local, Arriving
    <2>4. \A v \in Services : (Add(v, s) <=> v = w) /\ ~In(v, s)
      BY <2>1, <2>2, <2>3 DEF Travels, OnePlace, At
    <2>5. \A v \in Services, t \in Sids : In(v, t)' <=> In(v, t) \/ (v = w /\ t = s)
      BY <1>0, <1>2 DEF OnAddSession, In, TypeOK
    <2>6. \A v \in Services : ~Add(v, s)' /\ (In(v, s)' <=> v = w)
      BY <2>1, <2>3, <2>4, <2>5
    <2>7. \A x \in Sids : Rt(x)' = Rt(x)
      BY <1>2 DEF OnAddSession, mainVars, Rt
    <2>8. \A x \in Sids : x # s => Keeps(x)
      BY <2>1, <2>5, <2>7, PlacesKept DEF Keeps
    <2>9. /\ Pd(s) = w /\ Hm(s) = NoService
          /\ Pd(s)' = NoService /\ Hm(s)' = w /\ w # NoService
      BY <2>4, <2>6, Places, PlacesAfter, RoutingAssumption
    <2>10. MayTakeIn(s)
      BY <2>7, <2>9 DEF MayTakeIn
    <2> QED BY <2>8, <2>10, Lift DEF Custodial
  <1>3. CASE OnLogin(w)
    <2>1. /\ \E s \in Sids : TRUE
          /\ UNCHANGED <<mainVars, sessions>> /\ Dispatch(w, "login")
      BY <1>0, <1>3, DispatchTyped DEF OnLogin, Msg
    <2> QED BY <1>1, <2>1, Aside DEF In
  <1>4. CASE OnChange(w)
    <2>1. /\ \E s \in Sids : TRUE
          /\ UNCHANGED <<mainVars, sessions>> /\ Dispatch(w, "change")
      BY <1>0, <1>4, DispatchTyped DEF OnChange, Msg
    <2> QED BY <1>1, <2>1, Aside DEF In
  <1>5. CASE OnRemoveSession(w)
    <2> PICK s \in Sids : s = Head(toWorker[w]).sid
      BY <1>0, <1>5, DispatchTyped DEF OnRemoveSession, Msg
    <2>1. Dispatch(w, "rmv_session") /\ UNCHANGED mainVars
      BY <1>5 DEF OnRemoveSession
    <2>2. CASE UNCHANGED sessions
      BY <1>1, <2>1, <2>2, Aside DEF In
    <2>3. CASE sessions' = [sessions EXCEPT ![w] = @ \ {s}]
      <3>1. Rmv(w, s)
        BY <1>0, <2>1, DispatchEffect
      <3>2. Local(w, s)
        BY DEF TInv, Travels
      <3>3. In(w, s) /\ Moving(w, s)
        BY <3>1, <3>2 DEF Local, Leaving, Settled
      <3>4. \A v \in Services, x \in Sids : In(v, x)' <=> In(v, x) /\ ~(v = w /\ x = s)
        BY <1>0, <2>3 DEF In, TypeOK
      <3> QED BY <1>1, <2>1, <3>3, <3>4, LetsGo
    <2> QED BY <1>5, <2>2, <2>3 DEF OnRemoveSession
  <1>6. CASE OnSessionClose(w)
    <2> PICK s \in Sids : s = Head(toWorker[w]).sid
      BY <1>0, <1>6, DispatchTyped DEF OnSessionClose, Msg
    <2>1. Dispatch(w, "close_session") /\ UNCHANGED mainVars
      BY <1>6 DEF OnSessionClose
    <2>2. CASE UNCHANGED sessions
      BY <1>1, <2>1, <2>2, Aside DEF In
    <2>3. CASE sessions' = [sessions EXCEPT ![w] = @ \ {s}]
      <3>1. Local(w, s)
        BY DEF TInv, Travels
      <3>2. Cls(w, s) /\ ~Add(w, s)
        BY <1>0, <2>1, <3>1, DispatchEffect DEF Local
      <3>3. In(w, s) /\ s \notin mgr /\ sock[s] # "new"
        BY <3>1, <3>2 DEF Local, Dropped
      <3>4. \A v \in Services, x \in Sids : In(v, x)' <=> In(v, x) /\ ~(v = w /\ x = s)
        BY <1>0, <2>3 DEF In, TypeOK
      <3> QED BY <1>1, <2>1, <3>3, <3>4, LetsGo
    <2> QED BY <1>6, <2>2, <2>3 DEF OnSessionClose
  <1> QED BY <1>2, <1>3, <1>4, <1>5, <1>6 DEF WorkerStep

LEMMA ContinuationCustody ==
    ASSUME IInv, TInv, NEW w \in Services, NEW s \in Sids, Continuation(w, s)
    PROVE  [Custody!Next]_(Custody!vars)
  <1>0. TypeOK /\ Local(w, s)
    BY DEF IInv, TInv, Travels
  <1>1. UNCHANGED toWorker => \A v \in Services, x \in Sids : Add(v, x)' <=> Add(v, x)
    BY DEF Add
  <1>2. CASE UNCHANGED <<mainVars, toWorker, sessions>>
    BY <1>1, <1>2, Aside DEF In
  <1>3. CASE SessionRemoved(w, s)
    <2>1. /\ UNCHANGED <<mainVars, toWorker>> /\ Removing(w, s)
          /\ sessions' = [sessions EXCEPT ![w] = @ \ {s}]
      BY <1>3 DEF SessionRemoved, Resume, Removing
    <2>2. In(w, s) /\ Moving(w, s)
      BY <1>0, <2>1 DEF Local, Leaving, Settled
    <2>3. \A v \in Services, x \in Sids : In(v, x)' <=> In(v, x) /\ ~(v = w /\ x = s)
      BY <1>0, <2>1 DEF In, TypeOK
    <2> QED BY <1>1, <2>1, <2>2, <2>3, LetsGo
  <1>4. CASE SessionClosed(w, s)
    <2>1. /\ UNCHANGED <<mainVars, toWorker>> /\ Closing(w, s)
          /\ sessions' = [sessions EXCEPT ![w] = @ \ {s}]
      BY <1>4 DEF SessionClosed, Resume, Closing
    <2>2. In(w, s) /\ s \notin mgr /\ sock[s] # "new"
      BY <1>0, <2>1 DEF Local, Dropped
    <2>3. \A v \in Services, x \in Sids : In(v, x)' <=> In(v, x) /\ ~(v = w /\ x = s)
      BY <1>0, <2>1 DEF In, TypeOK
    <2> QED BY <1>1, <2>1, <2>2, <2>3, LetsGo
  <1> QED BY <1>2, <1>3, <1>4 DEF Continuation, PlayerCreated, FirstinFlushed, LoginDone

\* A session nobody has goes to the worker main adds it to.
LEMMA Assigns ==
    ASSUME IInv, TInv, NEW s \in Sids, NEW t \in Services, AddSession(t, s), ~Held(t, s),
           \A v \in Services : ~At(v, s),
           Rt(s) \in {"new", "moving"}, (s \in mgr)', UNCHANGED sessions,
           \A x \in Sids : x # s => Rt(x)' = Rt(x)
    PROVE  [Custody!Next]_(Custody!vars)
  <1>1. TypeOK
    BY DEF IInv
  <1>2. Rt(s)' = t
    BY <1>1, RoutingAssumption DEF AddSession, Held, Rt, TypeOK
  <1>3. \A v \in Services, x \in Sids : Add(v, x)' <=> Add(v, x) \/ (v = t /\ x = s)
    BY <1>1, AddSessionPosts DEF SameIn
  <1>4. \A v \in Services, x \in Sids : In(v, x)' <=> In(v, x)
    BY DEF In
  <1>5. \A x \in Sids : x # s => Keeps(x)
    BY <1>3, <1>4, PlacesKept DEF Keeps
  <1>6. \A v \in Services : ~Add(v, s) /\ ~In(v, s)
    BY DEF At
  <1>7. Hm(s) = NoService /\ Hm(s)' = Hm(s) /\ Pd(s)' = t
    BY <1>3, <1>4, <1>6, Places, PlacesAfter, PlacesKept
  <1>8. MayAssign(s)
    BY <1>2, <1>7 DEF MayAssign
  <1> QED BY <1>5, <1>8, Lift DEF Custodial

LEMMA MainCustody ==
    ASSUME IInv, TInv,
           \/ \E s \in Sids : Connect(s) \/ SocketClose(s) \/ ClientMessage(s)
           \/ \E w \in Services : MainStep(w)
    PROVE  [Custody!Next]_(Custody!vars)
  <1>0. TypeOK
    BY DEF IInv
  <1>1. UNCHANGED sessions => \A v \in Services, x \in Sids : In(v, x)' <=> In(v, x)
    BY DEF In
  <1>2. ASSUME NEW w \in Services, NEW s \in Sids, NEW c \in {"rmv_session", "close_session"},
               Post(w, M2W(c, s)), NEW v \in Services, NEW x \in Sids
        PROVE  Add(v, x)' <=> Add(v, x)
    <2>1. M2W(c, s) \in Msg /\ M2W(c, s).cmd = c /\ M2W(c, s).sid = s
      BY Built DEF M2W
    <2> QED BY <1>0, <1>2, <2>1, PostEffect DEF SameIn
  <1>3. ASSUME NEW s \in Sids, UNCHANGED <<mgr, current, sessions, toWorker>>,
               \A x \in Sids : (sock[x] = "new")' <=> sock[x] = "new"
        PROVE  [Custody!Next]_(Custody!vars)
    <2>1. \A x \in Sids : Keeps(x)
      BY <1>1, <1>3, PlacesKept DEF Keeps, Rt, Add
    <2> QED BY <2>1, Lift
  <1>4. ASSUME NEW s \in Sids, Connect(s) PROVE [Custody!Next]_(Custody!vars)
    <2> PICK t \in Services : t = Entry[s]
      BY RoutingAssumption DEF Services
    <2>1. /\ sock[s] = "new" /\ s \notin mgr
          /\ sock' = [sock EXCEPT ![s] = "open"] /\ mgr' = mgr \cup {s}
          /\ AddSession(t, s) /\ UNCHANGED sessions
      BY <1>4 DEF Connect, IInv, NewIsUnknown, workerVars
    <2>2. ~Held(t, s)
      BY <2>1, Known
    <2>3. \A v \in Services : ~At(v, s)
      BY <2>1 DEF TInv, Travels, Fresh
    <2>4. \A x \in Sids : x # s => Rt(x)' = Rt(x)
      BY <1>0, <2>1, <2>2 DEF Rt, AddSession, Held, TypeOK
    <2>5. Rt(s) \in {"new", "moving"} /\ (s \in mgr)'
      BY <2>1 DEF Rt
    <2> QED BY <2>1, <2>2, <2>3, <2>4, <2>5, Assigns
  <1>5. ASSUME NEW s \in Sids, SocketClose(s) PROVE [Custody!Next]_(Custody!vars)
    <2>1. /\ sock[s] # "new" /\ sock' = [sock EXCEPT ![s] = "closed"]
          /\ UNCHANGED <<current, sessions>>
      BY <1>5 DEF SocketClose, workerVars
    <2>2. \A x \in Sids : (sock[x] = "new")' <=> sock[x] = "new"
      BY <1>0, <2>1 DEF TypeOK
    <2>3. CASE s \in mgr /\ current[s] # NoService
      <3> PICK w \in Services : w = current[s]
        BY <1>0, <2>3 DEF TypeOK
      <3>1. s \in held[w]
        BY <2>3 DEF IInv, RoutedOnce
      <3>2. Post(w, M2W("close_session", s)) /\ mgr' = mgr \ {s}
        BY <1>5, <2>3, <3>1 DEF SocketClose, CloseSession
      <3>3. \A x \in Sids : Pd(x)' = Pd(x) /\ Hm(x)' = Hm(x)
        BY <1>1, <1>2, <2>1, <3>2, PlacesKept
      <3>4. \A x \in Sids : x # s => Keeps(x)
        BY <2>1, <2>2, <3>2, <3>3 DEF Keeps, Rt
      <3>5. Rt(s) = w /\ Rt(s)' = "gone"
        BY <2>1, <2>2, <2>3, <3>2 DEF Rt
      <3>6. MayDrop(s)
        BY <3>3, <3>5 DEF MayDrop
      <3> QED BY <3>4, <3>6, Lift DEF Custodial
    <2>4. CASE ~(s \in mgr /\ current[s] # NoService)
      <3>1. UNCHANGED <<mgr, toWorker>>
        BY <1>5, <2>4 DEF SocketClose
      <3> QED BY <1>3, <2>1, <2>2, <3>1
    <2> QED BY <2>3, <2>4
  <1>6. ASSUME NEW s \in Sids, ClientMessage(s) PROVE [Custody!Next]_(Custody!vars)
    <2> PICK c \in {"login", "change"}, t \in World \cup {NoService} : Packet(s, c, t)
      BY <1>6 DEF ClientMessage
    <2> PICK w \in Services, n \in 0..MaxMsgs : w = current[s] /\ n = sent[s] + 1
      BY <1>0, RoutingAssumption DEF Packet, TypeOK
    <2> PICK m \in Msg : m = [cmd |-> c, sid |-> s, to |-> t, n |-> n]
      BY DEF Msg, Services
    <2>1. Post(w, m) /\ UNCHANGED <<mainVars, sessions>>
      BY DEF Packet, workerVars
    <2>2. m.cmd \notin {"add_session", "rmv_session", "close_session"}
      OBVIOUS
    <2>3. \A v \in Services, x \in Sids : Add(v, x)' <=> Add(v, x)
      BY <1>0, <2>1, <2>2, PostEffect DEF SameIn
    <2> QED BY <1>1, <2>1, <2>3, Aside
  <1>7. ASSUME NEW w \in Services, OnChangeService(w) PROVE [Custody!Next]_(Custody!vars)
    <2> PICK s \in Sids : s = Head(toMain[w]).sid
      BY <1>0, <1>7, ReceiveTyped DEF OnChangeService, Reply
    <2>1. Chg(w, s)
      BY <1>0, <1>7, ReceiveEffect DEF OnChangeService
    <2>2. Travels(s) /\ Local(w, s)
      BY DEF TInv, Travels
    <2>3. CASE Held(w, s)
      <3>1. /\ Post(w, M2W("rmv_session", s)) /\ current' = [current EXCEPT ![s] = NoService]
            /\ UNCHANGED <<sock, mgr, sessions>>
        BY <1>7, <2>3 DEF OnChangeService, RemoveSession, Held, workerVars
      <3>2. \A x \in Sids : Pd(x)' = Pd(x) /\ Hm(x)' = Hm(x)
        BY <1>1, <1>2, <3>1, PlacesKept
      <3>3. \A x \in Sids : x # s => Keeps(x)
        BY <1>0, <3>1, <3>2 DEF Keeps, Rt, TypeOK
      <3>4. s \in mgr /\ current[s] = w /\ w # NoService
        BY <2>3, RoutingAssumption DEF IInv, RoutedOnce, Held
      <3>5. Rt(s) = w /\ Rt(s)' = "moving"
        BY <1>0, <3>1, <3>4 DEF Rt, TypeOK
      <3>6. In(w, s) /\ At(w, s)
        BY <2>1, <2>2, <2>3 DEF Local, Staying, Settled, At
      <3>7. \A v \in Services : In(v, s) <=> v = w
        BY <2>2, <3>6 DEF Travels, OnePlace, At
      <3>8. Hm(s) = w
        BY <3>7, Places
      <3>9. MayTakeOff(s)
        BY <3>2, <3>5, <3>8 DEF MayTakeOff
      <3> QED BY <3>3, <3>9, Lift DEF Custodial
    <2>4. CASE ~Held(w, s)
      <3>1. Disconnect(s) /\ UNCHANGED <<mgr, current, sessions, toWorker>>
        BY <1>7, <2>4 DEF OnChangeService, Held, workerVars
      <3>2. \A x \in Sids : (sock[x] = "new")' <=> sock[x] = "new"
        BY <1>0, <3>1 DEF Disconnect, TypeOK
      <3> QED BY <1>3, <3>1, <3>2
    <2> QED BY <2>3, <2>4
  <1>8. ASSUME NEW w \in Services, OnSessionRemoved(w) PROVE [Custody!Next]_(Custody!vars)
    <2> PICK s \in Sids, t \in World : s = Head(toMain[w]).sid /\ t = Head(toMain[w]).to
      BY <1>0, <1>8, ReceiveTyped DEF OnSessionRemoved, Reply
    <2>1. Rmd(w, s)
      BY <1>0, <1>8, ReceiveEffect DEF OnSessionRemoved
    <2>2. Travels(s) /\ Local(w, s) /\ t \in Services
      BY DEF TInv, Travels, Services
    <2>3. Moving(w, s) /\ ~At(w, s)
      BY <2>1, <2>2 DEF Local, Leaving
    <2>4. \A v \in Services : ~At(v, s) /\ ~Held(v, s)
      BY <2>2, <2>3, Known DEF Travels, OnePlace
    <2>5. AddSession(t, s) /\ UNCHANGED <<sock, mgr, sessions>>
      BY <1>8, <2>3 DEF OnSessionRemoved, Moving, workerVars
    <2>6. s \in mgr /\ current[s] = NoService
      BY <2>3 DEF IInv, RoutedOnce, Moving
    <2>7. Rt(s) \in {"new", "moving"} /\ (s \in mgr)'
      BY <2>5, <2>6 DEF Rt
    <2>8. \A x \in Sids : x # s => Rt(x)' = Rt(x)
      BY <1>0, <2>2, <2>4, <2>5 DEF Rt, AddSession, Held, TypeOK
    <2> QED BY <2>2, <2>4, <2>5, <2>7, <2>8, Assigns
  <1>9. ASSUME NEW w \in Services, OnKickPlayer(w) PROVE [Custody!Next]_(Custody!vars)
    <2> PICK s \in Sids : s = Head(toMain[w]).sid
      BY <1>0, <1>9, ReceiveTyped DEF OnKickPlayer, Reply
    <2>1. Disconnect(s) /\ UNCHANGED <<mgr, current, sessions, toWorker>>
      BY <1>9 DEF OnKickPlayer, workerVars
    <2>2. \A x \in Sids : (sock[x] = "new")' <=> sock[x] = "new"
      BY <1>0, <2>1 DEF Disconnect, TypeOK
    <2> QED BY <1>3, <2>1, <2>2
  <1> QED BY <1>4, <1>5, <1>6, <1>7, <1>8, <1>9 DEF MainStep

\* The ports, tables and marks implement the custody: every step of the threads is
\* a step of SessionCustody.tla, or changes nothing of it.
THEOREM ImplementsCustody == Spec => KeepsCustody
  <1>1. Init => Custody!Init
    <2> SUFFICES ASSUME Init PROVE Custody!Init
      OBVIOUS
    <2>1. ASSUME NEW s \in Sids
          PROVE  Rt(s) = "new" /\ Pd(s) = NoService /\ Hm(s) = NoService
      <3>1. \A v \in Services : toWorker[v] = <<>> /\ sessions[v] = {}
        BY DEF Init
      <3>2. \A v \in Services : DOMAIN toWorker[v] = {}
        BY <3>1
      <3>3. \A v \in Services : ~Add(v, s) /\ ~In(v, s)
        BY <3>1, <3>2 DEF Add, Has, In
      <3> QED BY <3>3, Places DEF Init, Rt
    <2> QED BY <2>1 DEF Custody!Init, Rt, Pd, Hm
  <1>2. IInv /\ TInv /\ [Next]_vars => [Custody!Next]_(Custody!vars)
    <2> SUFFICES ASSUME IInv, TInv, [Next]_vars PROVE [Custody!Next]_(Custody!vars)
      OBVIOUS
    <2>1. CASE UNCHANGED vars
      BY <2>1 DEF vars, mainVars, workerVars, Custody!vars, Queued
    <2> QED BY <2>1, MainCustody, WorkerCustody, ContinuationCustody DEF Next
  <1> QED BY <1>1, <1>2, Way, PTL DEF Spec, KeepsCustody, Custody!Spec
=============================================================================
