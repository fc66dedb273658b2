--------------------------- MODULE UserLogin_proofs ---------------------------
(***************************************************************************)
(* UserLogin, for any sessions, any users and clients that wait for        *)
(* nothing: the types, that a session acts only as a user whose token it   *)
(* has presented, and that no two users' players share an id.  For clients *)
(* that wait for their answers: that who plays is bound where it plays.    *)
(***************************************************************************)
EXTENDS UserLogin, TLAPS

Handlers == [at : Stages, sid : Sids, uid : Uids \cup {Nobody}, n : Nat, k : Nat]
Players == [uid : Uids \cup {Nobody}, pid : Nat, ses : BOOLEAN]
MayBeNobody == {"create_base", "enter_base", "clear_base"}
BeforeToken == {"login_base", "login_bind", "login_user"}

\* What a handler that has its user from the session, or has seen its token,
\* carries through its awaits.
Carried(h) == h.at \notin BeforeToken /\ h.uid # Nobody => h.uid \in proven[h.sid]
CarriedAll == \A h \in running : Carried(h)

AInv == TypeOK /\ Authenticated /\ CarriedAll

\* A handler that moves on: the record is a handler, with the fields it is given.
LEMMA NextHandler ==
    ASSUME NEW stage \in Stages, NEW s \in Sids, NEW u \in Uids \cup {Nobody},
           NEW n \in Nat, NEW k \in Nat
    PROVE  /\ H(stage, s, u, n, k) \in Handlers
           /\ H(stage, s, u, n, k).at = stage
           /\ H(stage, s, u, n, k).sid = s
           /\ H(stage, s, u, n, k).uid = u
BY DEF H, Handlers

\* Replacing or adding one handler keeps the set's type.
LEMMA RunningType ==
    ASSUME running \subseteq Handlers,
           \A h \in running : h.at \notin MayBeNobody => h.uid \in Uids,
           NEW new, new \in Handlers, new.at \notin MayBeNobody => new.uid \in Uids,
           running' \subseteq running \cup {new}
    PROVE  /\ running' \subseteq Handlers
           /\ \A h \in running' : h.at \notin MayBeNobody => h.uid \in Uids
OBVIOUS

\* A handler is carried over a step that forgets nothing presented.
LEMMA CarriedStep ==
    ASSUME CarriedAll, NEW new,
           running' \subseteq running \cup {new},
           \A h \in running : h.sid \in Sids,
           \A s \in Sids : proven[s] \subseteq proven'[s],
           new.at \notin BeforeToken /\ new.uid # Nobody => new.uid \in proven'[new.sid]
    PROVE  CarriedAll'
<1> SUFFICES ASSUME NEW h \in running'
             PROVE  h.at \notin BeforeToken /\ h.uid # Nobody => h.uid \in proven'[h.sid]
    BY DEF CarriedAll, Carried
<1>1. CASE h \in running
    BY <1>1 DEF CarriedAll, Carried
<1>2. CASE h = new
    BY <1>2
<1> QED BY <1>1, <1>2

LEMMA InitInv == Init => AInv
<1> SUFFICES ASSUME Init PROVE AInv
    OBVIOUS
<1> USE LoginAssumption
<1>1. NoPlayer \in Players /\ NoPlayer.uid = Nobody
    BY DEF NoPlayer, Players
<1>2. TypeOK
    <2>1. gen \in [Uids -> Nat]
        BY DEF Init
    <2>2. player \in [Sids -> Players] /\ \A s \in Sids : player[s] = NoPlayer
        BY <1>1 DEF Init
    <2>3. calls \in [Sids -> Nat] /\ \A s \in Sids : calls[s] <= MaxCalls[s]
        BY DEF Init
    <2> QED BY <2>1, <2>2, <2>3 DEF Init, TypeOK, Players
<1>3. Authenticated
    BY DEF Init, Authenticated
<1>4. CarriedAll
    BY DEF Init, CarriedAll
<1> QED BY <1>2, <1>3, <1>4 DEF AInv

-----------------------------------------------------------------------------
\* The parts of a step's successor that make AInv': the tables on one side, the
\* handlers on the other.
Tables ==
    /\ where \in [Sids -> {"out", "moving", "world", "closed"}]
    /\ player \in [Sids -> Players]
    /\ \A s \in Sids : player[s] # NoPlayer => player[s].uid \in Uids
    /\ base \in [Sids -> Uids \cup {Nobody}]
    /\ bind \in [Uids -> Sids \cup {NoSid}]
    /\ gen \in [Uids -> Nat]
    /\ lastid \in Nat
    /\ calls \in [Sids -> Nat]
    /\ \A s \in Sids : calls[s] <= MaxCalls[s]
    /\ proven \in [Sids -> SUBSET Uids]
    /\ Authenticated

HandlersOK ==
    /\ running \subseteq Handlers
    /\ \A h \in running : h.at \notin MayBeNobody => h.uid \in Uids
    /\ CarriedAll

LEMMA Split == AInv <=> Tables /\ HandlersOK
BY DEF AInv, TypeOK, Tables, HandlersOK, Handlers, Players, MayBeNobody
LEMMA Join == Tables' /\ HandlersOK' => AInv'
BY DEF AInv, TypeOK, Tables, HandlersOK, Handlers, Players, MayBeNobody

\* What a running handler is known to carry.
LEMMA RunningHandler ==
    ASSUME HandlersOK, NEW h \in running
    PROVE  /\ h.at \in Stages /\ h.sid \in Sids /\ h.uid \in Uids \cup {Nobody}
           /\ h.n \in Nat /\ h.k \in Nat
           /\ h.at \notin MayBeNobody => h.uid \in Uids
           /\ h.at \notin BeforeToken /\ h.uid # Nobody => h.uid \in proven[h.sid]
BY DEF HandlersOK, Handlers, CarriedAll, Carried

\* A request, or a message of main, starts a handler.
LEMMA StartOK ==
    ASSUME HandlersOK, NEW stage \in Stages, NEW s \in Sids, NEW u \in Uids \cup {Nobody},
           NEW k \in Nat, NEW n \in Nat, Start(H(stage, s, u, n, k)),
           stage \notin MayBeNobody => u \in Uids,
           \A t \in Sids : proven[t] \subseteq proven'[t],
           stage \notin BeforeToken /\ u # Nobody => u \in proven'[s]
    PROVE  HandlersOK'
<1> DEFINE new == H(stage, s, u, n, k)
<1>1. new \in Handlers /\ new.at = stage /\ new.sid = s /\ new.uid = u
    BY NextHandler
<1>2. running' \subseteq running \cup {new}
    BY DEF Start
<1>3. \A h \in running : h.sid \in Sids
    BY RunningHandler
<1> HIDE DEF new
<1>4. running' \subseteq Handlers /\ \A h \in running' : h.at \notin MayBeNobody => h.uid \in Uids
    BY <1>1, <1>2, RunningType DEF HandlersOK
<1>5. CarriedAll'
    BY <1>1, <1>2, <1>3, CarriedStep DEF HandlersOK
<1> QED BY <1>4, <1>5 DEF HandlersOK

\* A handler issues its next command.
LEMMA GoOK ==
    ASSUME HandlersOK, NEW h \in running, NEW stage \in Stages, NEW u \in Uids \cup {Nobody},
           NEW n \in Nat, Go(h, stage, u, n),
           stage \notin MayBeNobody => u \in Uids,
           \A t \in Sids : proven[t] \subseteq proven'[t],
           stage \notin BeforeToken /\ u # Nobody => u \in proven'[h.sid]
    PROVE  HandlersOK'
<1> DEFINE new == H(stage, h.sid, u, n, h.k)
<1>0. h.sid \in Sids /\ h.k \in Nat
    BY RunningHandler
<1>1. new \in Handlers /\ new.at = stage /\ new.sid = h.sid /\ new.uid = u
    BY <1>0 DEF H, Handlers
<1>2. running' \subseteq running \cup {new}
    BY DEF Go
<1>3. \A g \in running : g.sid \in Sids
    BY RunningHandler
<1> HIDE DEF new
<1>4. running' \subseteq Handlers /\ \A g \in running' : g.at \notin MayBeNobody => g.uid \in Uids
    BY <1>1, <1>2, RunningType DEF HandlersOK
<1>5. CarriedAll'
    BY <1>1, <1>2, <1>3, CarriedStep DEF HandlersOK
<1> QED BY <1>4, <1>5 DEF HandlersOK

\* A handler ends.
LEMMA EndOK ==
    ASSUME HandlersOK, NEW h, End(h), proven' = proven
    PROVE  HandlersOK'
BY DEF HandlersOK, End, CarriedAll, Carried

\* Tables that a step leaves alone stay as they are.
LEMMA SameTables ==
    ASSUME Tables, UNCHANGED <<where, player, base, bind, gen, lastid, calls, proven>>
    PROVE  Tables'
BY DEF Tables, Authenticated

\* A new request is counted within its bound.
LEMMA RequestOK ==
    ASSUME Tables, NEW s \in Sids, Request(s),
           UNCHANGED <<where, player, base, bind, gen, lastid, proven>>
    PROVE  Tables' /\ calls'[s] \in Nat
<1>1. calls' \in [Sids -> Nat] /\ calls'[s] \in Nat
    BY DEF Request, Tables
<1>2. ASSUME NEW t \in Sids PROVE calls'[t] <= MaxCalls[t]
    <2>1. /\ calls[s] \in Nat /\ MaxCalls[s] \in Nat /\ calls[t] <= MaxCalls[t]
          /\ calls[s] < MaxCalls[s] /\ calls' = [calls EXCEPT ![s] = calls[s] + 1]
        BY LoginAssumption DEF Request, Tables
    <2>2. CASE t = s
        <3>1. calls'[t] = calls[s] + 1
            BY <2>1, <2>2 DEF Tables
        <3> QED BY <2>1, <2>2, <3>1
    <2>3. CASE t # s
        BY <2>1, <2>3 DEF Tables
    <2> QED BY <2>2, <2>3
<1> QED BY <1>1, <1>2 DEF Tables, Authenticated

\* An entry of the players' table that was earned is set.
LEMMA SetPlayerOK ==
    ASSUME Tables, NEW s \in Sids, NEW service, NEW p \in Players, SetPlayer(s, service, p),
           p.uid \in Uids, p.uid \in proven[s],
           UNCHANGED <<where, bind, gen, lastid, calls, proven>>,
           base' \in [Sids -> Uids \cup {Nobody}],
           \A t \in Sids : base'[t] # Nobody => base'[t] \in proven[t]
    PROVE  Tables'
<1>1. player' \in [Sids -> Players]
    BY DEF SetPlayer, Tables
<1>2. \A t \in Sids : player'[t] # NoPlayer => player'[t].uid \in Uids /\ player'[t].uid \in proven[t]
    BY DEF SetPlayer, Tables, Authenticated
<1> QED BY <1>1, <1>2 DEF Tables, Authenticated

\* A session's base data is set to a user it showed the token of, or removed.
LEMMA SetBase ==
    ASSUME Tables, NEW s \in Sids, NEW u \in Uids \cup {Nobody},
           u # Nobody => u \in proven'[s],
           \A t \in Sids : proven[t] \subseteq proven'[t],
           base' = [base EXCEPT ![s] = u]
    PROVE  /\ base' \in [Sids -> Uids \cup {Nobody}]
           /\ \A t \in Sids : base'[t] # Nobody => base'[t] \in proven'[t]
BY DEF Tables, Authenticated

\* flush_data_to_dbobj of a player.
LEMMA FlushOK ==
    ASSUME Tables, NEW s \in Sids, player[s] # NoPlayer, Flush(s),
           UNCHANGED <<player, bind, lastid, calls, proven>>,
           where' \in [Sids -> {"out", "moving", "world", "closed"}]
    PROVE  Tables'
<1>1. player[s].uid \in Uids /\ player[s].pid \in Nat /\ player[s].uid \in proven[s]
    BY DEF Tables, Players, Authenticated
<1>2. gen' \in [Uids -> Nat]
    BY <1>1 DEF Flush, Tables
<1>3. /\ base' \in [Sids -> Uids \cup {Nobody}]
      /\ \A t \in Sids : base'[t] # Nobody => base'[t] \in proven[t]
    BY <1>1, SetBase DEF Flush, Tables, Authenticated
<1> QED BY <1>2, <1>3 DEF Tables, Authenticated

-----------------------------------------------------------------------------
LEMMA RequestsInv ==
    ASSUME AInv, NEW s \in Sids,
           (\E u \in Uids : Login(s, u)) \/ CreatePlayer(s)
    PROVE  AInv'
<1>1. Tables /\ HandlersOK /\ base[s] \in Uids \cup {Nobody}
    BY Split DEF Tables
<1>2. ASSUME NEW u \in Uids, Login(s, u) PROVE AInv'
    <2>1. Tables' /\ calls'[s] \in Nat
        BY <1>1, <1>2, RequestOK DEF Login
    <2>2. HandlersOK'
        <3>1. "login_base" \in Stages /\ "login_base" \notin MayBeNobody /\ "login_base" \in BeforeToken
            BY DEF Stages, MayBeNobody, BeforeToken
        <3>2. Start(H("login_base", s, u, Found(base[s] # Nobody), calls'[s])) /\ proven' = proven
            BY <1>2 DEF Login
        <3>3. Found(base[s] # Nobody) \in Nat
            BY DEF Found
        <3> QED BY <1>1, <2>1, <3>1, <3>2, <3>3, StartOK
    <2> QED BY <2>1, <2>2, Join
<1>3. CASE CreatePlayer(s)
    <2>1. Tables' /\ calls'[s] \in Nat
        BY <1>1, <1>3, RequestOK DEF CreatePlayer
    <2>2. HandlersOK'
        <3>1. "create_base" \in Stages /\ "create_base" \in MayBeNobody
            BY DEF Stages, MayBeNobody
        <3>2. Start(H("create_base", s, base[s], 0, calls'[s])) /\ proven' = proven
            BY <1>3 DEF CreatePlayer
        <3>3. base[s] # Nobody => base[s] \in proven[s]
            BY <1>1 DEF Tables, Authenticated
        <3> QED BY <1>1, <2>1, <3>1, <3>2, <3>3, StartOK
    <2> QED BY <2>1, <2>2, Join
<1> QED BY <1>2, <1>3

LEMMA MovesInv ==
    ASSUME AInv, NEW s \in Sids, EnterGame(s) \/ CloseSession(s)
    PROVE  AInv'
<1>1. Tables /\ HandlersOK /\ base[s] \in Uids \cup {Nobody}
    BY Split DEF Tables
<1>2. /\ player[s] # NoPlayer => player[s].uid \in Uids /\ player[s].uid \in proven[s]
      /\ base[s] # Nobody => base[s] \in proven[s]
    BY <1>1 DEF Tables, Authenticated
<1>3. CASE EnterGame(s)
    <2>1. player[s] # NoPlayer /\ Flush(s) /\ proven' = proven
        BY <1>3 DEF EnterGame
    <2>2. where' \in [Sids -> {"out", "moving", "world", "closed"}]
        BY <1>1, <1>3 DEF EnterGame, Tables
    <2>3. Tables'
        BY <1>1, <1>3, <2>1, <2>2, FlushOK DEF EnterGame
    <2>4. HandlersOK'
        <3>1. "leave_flush" \in Stages
            BY DEF Stages
        <3>2. Start(H("leave_flush", s, player[s].uid, 0, 0))
            BY <1>3 DEF EnterGame
        <3> QED BY <1>1, <1>2, <2>1, <3>1, <3>2, StartOK
    <2> QED BY <2>3, <2>4, Join
<1>4. CASE CloseSession(s)
    <2>1. where' \in [Sids -> {"out", "moving", "world", "closed"}] /\ proven' = proven
        BY <1>1, <1>4 DEF CloseSession, Tables
    <2>2. CASE player[s] # NoPlayer
        <3>1. Flush(s) /\ Start(H("close_flush", s, player[s].uid, 0, 0))
            BY <1>4, <2>2 DEF CloseSession
        <3>2. Tables'
            BY <1>1, <1>4, <2>1, <2>2, <3>1, FlushOK DEF CloseSession
        <3>3. "close_flush" \in Stages
            BY DEF Stages
        <3>4. HandlersOK'
            BY <1>1, <1>2, <2>1, <2>2, <3>1, <3>3, StartOK
        <3> QED BY <3>2, <3>4, Join
    <2>3. CASE player[s] = NoPlayer
        <3>1. Start(H("clear_base", s, base[s], 0, 0)) /\ UNCHANGED <<player, base, bind, gen, lastid, calls, proven>>
            BY <1>4, <2>3 DEF CloseSession
        <3>2. Tables'
            BY <1>1, <2>1, <3>1 DEF Tables, Authenticated
        <3>3. "clear_base" \in Stages /\ "clear_base" \in MayBeNobody
            BY DEF Stages, MayBeNobody
        <3>4. HandlersOK'
            BY <1>1, <1>2, <2>1, <3>1, <3>3, StartOK
        <3> QED BY <3>2, <3>4, Join
    <2> QED BY <2>2, <2>3
<1> QED BY <1>3, <1>4

-----------------------------------------------------------------------------
LEMMA LoginInv ==
    ASSUME AInv, NEW h \in running,
           \/ LoginBase(h) \/ LoginBind(h) \/ LoginUser(h)
           \/ LoginSetBase(h) \/ LoginSetBind(h) \/ LoginGen(h)
    PROVE  AInv'
<1>1. Tables /\ HandlersOK
    BY Split
<1>2. /\ h.sid \in Sids /\ h.uid \in Uids \cup {Nobody} /\ h.n \in Nat
      /\ h.at \notin MayBeNobody => h.uid \in Uids
      /\ h.at \notin BeforeToken /\ h.uid # Nobody => h.uid \in proven[h.sid]
    BY <1>1, RunningHandler
<1>3. Nobody \notin Uids
    BY LoginAssumption
<1>4. CASE LoginBase(h)
    <2>1. Tables' /\ proven' = proven
        BY <1>1, <1>4, SameTables DEF LoginBase
    <2>2. CASE h.n = 0
        <3>1. Go(h, "login_bind", h.uid, Found(bind[h.uid] # NoSid))
            BY <1>4, <2>2 DEF LoginBase
        <3>2. "login_bind" \in Stages /\ "login_bind" \in BeforeToken /\ h.uid \in Uids
            BY <1>2, <1>4 DEF Stages, BeforeToken, MayBeNobody, LoginBase
        <3>3. Found(bind[h.uid] # NoSid) \in Nat
            BY DEF Found
        <3>4. HandlersOK'
            BY <1>1, <1>2, <2>1, <3>1, <3>2, <3>3, GoOK
        <3> QED BY <2>1, <3>4, Join
    <2>3. CASE h.n # 0
        BY <1>1, <1>4, <2>1, <2>3, EndOK, Join DEF LoginBase
    <2> QED BY <2>2, <2>3
<1>5. CASE LoginBind(h)
    <2>1. Tables' /\ proven' = proven
        BY <1>1, <1>5, SameTables DEF LoginBind
    <2>2. CASE h.n = 0
        <3>1. Go(h, "login_user", h.uid, 0)
            BY <1>5, <2>2 DEF LoginBind
        <3>2. "login_user" \in Stages /\ "login_user" \in BeforeToken /\ h.uid \in Uids
            BY <1>2, <1>5 DEF Stages, BeforeToken, MayBeNobody, LoginBind
        <3>3. HandlersOK'
            BY <1>1, <1>2, <2>1, <3>1, <3>2, GoOK
        <3> QED BY <2>1, <3>3, Join
    <2>3. CASE h.n # 0
        BY <1>1, <1>5, <2>1, <2>3, EndOK, Join DEF LoginBind
    <2> QED BY <2>2, <2>3
<1>6. CASE LoginUser(h)
    <2>1. h.at = "login_user" /\ h.uid \in Uids
          /\ UNCHANGED <<where, player, bind, gen, lastid, calls>>
        BY <1>2, <1>6 DEF LoginUser, MayBeNobody
    <2>2. CASE End(h) /\ UNCHANGED <<proven, base>>
        <3>1. Tables'
            BY <1>1, <2>1, <2>2, SameTables
        <3> QED BY <1>1, <2>2, <3>1, EndOK, Join
    <2>3. CASE /\ proven' = [proven EXCEPT ![h.sid] = @ \cup {h.uid}]
               /\ base' = [base EXCEPT ![h.sid] = h.uid]
               /\ Go(h, "login_setbase", h.uid, 0)
        <3>1. /\ proven' \in [Sids -> SUBSET Uids] /\ h.uid \in proven'[h.sid]
              /\ \A t \in Sids : proven[t] \subseteq proven'[t]
            BY <1>1, <1>2, <2>1, <2>3 DEF Tables
        <3>2. /\ base' \in [Sids -> Uids \cup {Nobody}]
              /\ \A t \in Sids : base'[t] # Nobody => base'[t] \in proven'[t]
            BY <1>1, <1>2, <2>1, <2>3, <3>1, SetBase
        <3>3. /\ \A t \in Sids : player[t] # NoPlayer => player[t].uid \in proven'[t]
              /\ \A u \in Uids : bind[u] # NoSid => u \in proven'[bind[u]]
            BY <1>1, <3>1 DEF Tables, Authenticated
        <3>4. Tables'
            BY <1>1, <2>1, <3>1, <3>2, <3>3 DEF Tables, Authenticated
        <3>5. "login_setbase" \in Stages
            BY DEF Stages
        <3>6. HandlersOK'
            BY <1>1, <1>2, <2>1, <2>3, <3>1, <3>5, GoOK
        <3> QED BY <3>4, <3>6, Join
    <2> QED BY <1>6, <2>2, <2>3 DEF LoginUser
<1>7. CASE LoginSetBase(h)
    <2>1. /\ h.uid \in Uids /\ h.uid \in proven[h.sid] /\ proven' = proven
          /\ bind' = [bind EXCEPT ![h.uid] = h.sid]
          /\ Go(h, "login_setbind", h.uid, 0)
        BY <1>2, <1>3, <1>7 DEF LoginSetBase, MayBeNobody, BeforeToken
    <2>2. /\ bind' \in [Uids -> Sids \cup {NoSid}]
          /\ \A u \in Uids : bind'[u] # NoSid => u \in proven[bind'[u]]
        BY <1>1, <1>2, <2>1 DEF Tables, Authenticated
    <2>3. Tables'
        BY <1>1, <1>7, <2>2 DEF Tables, Authenticated, LoginSetBase
    <2>4. "login_setbind" \in Stages
        BY DEF Stages
    <2>5. HandlersOK'
        BY <1>1, <1>2, <2>1, <2>4, GoOK
    <2> QED BY <2>3, <2>5, Join
<1>8. CASE LoginSetBind(h)
    <2>1. /\ h.uid \in Uids /\ h.uid \in proven[h.sid] /\ proven' = proven
          /\ Go(h, "login_gen", h.uid, gen[h.uid])
        BY <1>2, <1>3, <1>8 DEF LoginSetBind, MayBeNobody, BeforeToken
    <2>2. Tables'
        BY <1>1, <1>8, SameTables DEF LoginSetBind
    <2>3. "login_gen" \in Stages /\ gen[h.uid] \in Nat
        BY <1>1, <2>1 DEF Stages, Tables
    <2>4. HandlersOK'
        BY <1>1, <1>2, <2>1, <2>3, GoOK
    <2> QED BY <2>2, <2>4, Join
<1>9. CASE LoginGen(h)
    <2>1. h.uid \in Uids /\ h.uid \in proven[h.sid] /\ End(h) /\ proven' = proven
        BY <1>2, <1>3, <1>9 DEF LoginGen, MayBeNobody, BeforeToken
    <2>2. HandlersOK'
        BY <1>1, <2>1, EndOK
    <2>3. CASE h.n = 0
        BY <1>1, <1>9, <2>2, <2>3, SameTables, Join DEF LoginGen
    <2>4. CASE h.n # 0
        <3> DEFINE p == [uid |-> h.uid, pid |-> h.n, ses |-> TRUE]
        <3>1. p \in Players /\ p.uid = h.uid
            BY <1>2 DEF Players
        <3>2. SetPlayer(h.sid, "out", p) /\ UNCHANGED <<where, base, bind, gen, lastid, calls, proven>>
            BY <1>9, <2>4 DEF LoginGen
        <3> HIDE DEF p
        <3>3. /\ base' \in [Sids -> Uids \cup {Nobody}]
              /\ \A t \in Sids : base'[t] # Nobody => base'[t] \in proven[t]
            BY <1>1, <3>2 DEF Tables, Authenticated
        <3>4. Tables'
            BY <1>1, <1>2, <2>1, <3>1, <3>2, <3>3, SetPlayerOK
        <3> QED BY <2>2, <3>4, Join
    <2> QED BY <2>3, <2>4
<1> QED BY <1>4, <1>5, <1>6, <1>7, <1>8, <1>9

-----------------------------------------------------------------------------
LEMMA CreateInv ==
    ASSUME AInv, NEW h \in running,
           CreateBase(h) \/ CreateGen(h) \/ CreateId(h) \/ CreateSet(h)
    PROVE  AInv'
<1>1. Tables /\ HandlersOK
    BY Split
<1>2. /\ h.sid \in Sids /\ h.uid \in Uids \cup {Nobody} /\ h.n \in Nat
      /\ h.at \notin MayBeNobody => h.uid \in Uids
      /\ h.at \notin BeforeToken /\ h.uid # Nobody => h.uid \in proven[h.sid]
    BY <1>1, RunningHandler
<1>3. Nobody \notin Uids
    BY LoginAssumption
<1>4. base[h.sid] \in Uids \cup {Nobody} /\ (base[h.sid] # Nobody => base[h.sid] \in proven[h.sid])
    BY <1>1, <1>2 DEF Tables, Authenticated
<1>5. CASE CreateBase(h)
    <2>1. Tables' /\ proven' = proven
        BY <1>1, <1>5, SameTables DEF CreateBase
    <2>2. CASE h.uid # Nobody
        <3>1. /\ Go(h, "create_gen", h.uid, gen[h.uid]) /\ h.uid \in Uids
              /\ h.uid \in proven[h.sid]
            BY <1>2, <1>5, <2>2 DEF CreateBase, BeforeToken
        <3>2. "create_gen" \in Stages /\ gen[h.uid] \in Nat
            BY <1>1, <3>1 DEF Stages, Tables
        <3>3. HandlersOK'
            BY <1>1, <1>2, <2>1, <3>1, <3>2, GoOK
        <3> QED BY <2>1, <3>3, Join
    <2>3. CASE h.uid = Nobody
        BY <1>1, <1>5, <2>1, <2>3, EndOK, Join DEF CreateBase
    <2> QED BY <2>2, <2>3
<1>6. CASE CreateGen(h)
    <2>1. /\ h.uid \in Uids /\ h.uid \in proven[h.sid]
          /\ UNCHANGED <<where, player, base, bind, gen, calls, proven>>
        BY <1>2, <1>3, <1>6 DEF CreateGen, MayBeNobody, BeforeToken
    <2>2. CASE h.n = 0
        <3>1. lastid' = lastid + 1 /\ lastid' \in Nat /\ Go(h, "create_id", h.uid, lastid')
            BY <1>1, <1>6, <2>2 DEF CreateGen, Tables
        <3>2. Tables'
            BY <1>1, <2>1, <3>1 DEF Tables, Authenticated
        <3>3. "create_id" \in Stages
            BY DEF Stages
        <3>4. HandlersOK'
            BY <1>1, <1>2, <2>1, <3>1, <3>3, GoOK
        <3> QED BY <3>2, <3>4, Join
    <2>3. CASE h.n # 0
        <3>1. End(h) /\ lastid' = lastid
            BY <1>6, <2>3 DEF CreateGen
        <3>2. Tables'
            BY <1>1, <2>1, <3>1, SameTables
        <3> QED BY <1>1, <2>1, <3>1, <3>2, EndOK, Join
    <2> QED BY <2>2, <2>3
<1>7. CASE CreateId(h)
    <2>1. /\ h.uid \in Uids /\ h.uid \in proven[h.sid] /\ proven' = proven
          /\ gen' = [gen EXCEPT ![h.uid] = h.n]
          /\ Go(h, "create_set", h.uid, h.n)
        BY <1>2, <1>3, <1>7 DEF CreateId, MayBeNobody, BeforeToken
    <2>2. gen' \in [Uids -> Nat]
        BY <1>1, <1>2, <2>1 DEF Tables
    <2>3. Tables'
        BY <1>1, <1>7, <2>2 DEF Tables, Authenticated, CreateId
    <2>4. "create_set" \in Stages
        BY DEF Stages
    <2>5. HandlersOK'
        BY <1>1, <1>2, <2>1, <2>4, GoOK
    <2> QED BY <2>3, <2>5, Join
<1>8. CASE CreateSet(h)
    <2> DEFINE p == [uid |-> h.uid, pid |-> h.n, ses |-> FALSE]
    <2>1. h.uid \in Uids /\ h.uid \in proven[h.sid]
        BY <1>2, <1>3, <1>8 DEF CreateSet, MayBeNobody, BeforeToken
    <2>2. p \in Players /\ p.uid = h.uid
        BY <1>2 DEF Players
    <2>3. /\ SetPlayer(h.sid, "out", p) /\ End(h)
          /\ UNCHANGED <<where, base, bind, gen, lastid, calls, proven>>
        BY <1>8 DEF CreateSet
    <2> HIDE DEF p
    <2>4. /\ base' \in [Sids -> Uids \cup {Nobody}]
          /\ \A t \in Sids : base'[t] # Nobody => base'[t] \in proven[t]
        BY <1>1, <2>3 DEF Tables, Authenticated
    <2>5. Tables'
        BY <1>1, <1>2, <2>1, <2>2, <2>3, <2>4, SetPlayerOK
    <2> QED BY <1>1, <2>3, <2>5, EndOK, Join
<1> QED BY <1>5, <1>6, <1>7, <1>8

-----------------------------------------------------------------------------
LEMMA EnterInv ==
    ASSUME AInv, NEW h \in running,
           LeaveFlush(h) \/ EnterBase(h) \/ EnterFirstin(h) \/ CloseFlush(h)
    PROVE  AInv'
<1>1. Tables /\ HandlersOK
    BY Split
<1>2. /\ h.sid \in Sids /\ h.uid \in Uids \cup {Nobody} /\ h.n \in Nat
      /\ h.at \notin MayBeNobody => h.uid \in Uids
      /\ h.at \notin BeforeToken /\ h.uid # Nobody => h.uid \in proven[h.sid]
    BY <1>1, RunningHandler
<1>3. Nobody \notin Uids
    BY LoginAssumption
<1>4. base[h.sid] \in Uids \cup {Nobody} /\ (base[h.sid] # Nobody => base[h.sid] \in proven[h.sid])
    BY <1>1, <1>2 DEF Tables, Authenticated
<1>5. NoPlayer \in Players
    BY DEF NoPlayer, Players
<1>6. CASE LeaveFlush(h)
    <2>1. /\ where' \in [Sids -> {"out", "moving", "world", "closed"}]
          /\ player' \in [Sids -> Players] /\ proven' = proven
          /\ \A t \in Sids : player'[t] # NoPlayer => player'[t] = player[t]
          /\ Go(h, "enter_base", base[h.sid], 0)
        BY <1>1, <1>2, <1>5, <1>6 DEF LeaveFlush, Tables
    <2>2. Tables'
        BY <1>1, <1>6, <2>1 DEF Tables, Authenticated, LeaveFlush
    <2>3. "enter_base" \in Stages /\ "enter_base" \in MayBeNobody
        BY DEF Stages, MayBeNobody
    <2>4. HandlersOK'
        BY <1>1, <1>2, <1>4, <2>1, <2>3, GoOK
    <2> QED BY <2>2, <2>4, Join
<1>7. CASE EnterBase(h)
    <2>1. CASE h.uid # Nobody
        <3> DEFINE p == [uid |-> h.uid, pid |-> gen[h.uid], ses |-> TRUE]
        <3>1. h.uid \in Uids /\ h.uid \in proven[h.sid]
            BY <1>2, <1>7, <2>1 DEF EnterBase, BeforeToken
        <3>2. p \in Players /\ p.uid = h.uid
            BY <1>1, <3>1 DEF Players, Tables
        <3>3. /\ SetPlayer(h.sid, "world", p)
              /\ base' = [base EXCEPT ![h.sid] = h.uid]
              /\ Go(h, "enter_firstin", h.uid, 0)
              /\ UNCHANGED <<where, bind, gen, lastid, calls, proven>>
            BY <1>7, <2>1 DEF EnterBase
        <3> HIDE DEF p
        <3>4. /\ base' \in [Sids -> Uids \cup {Nobody}]
              /\ \A t \in Sids : base'[t] # Nobody => base'[t] \in proven[t]
            BY <1>1, <1>2, <3>1, <3>3, SetBase
        <3>5. Tables'
            BY <1>1, <1>2, <3>1, <3>2, <3>3, <3>4, SetPlayerOK
        <3>6. "enter_firstin" \in Stages
            BY DEF Stages
        <3>7. HandlersOK'
            BY <1>1, <1>2, <3>1, <3>3, <3>6, GoOK
        <3> QED BY <3>5, <3>7, Join
    <2>2. CASE h.uid = Nobody
        BY <1>1, <1>7, <2>2, SameTables, EndOK, Join DEF EnterBase
    <2> QED BY <2>1, <2>2
<1>8. CASE EnterFirstin(h)
    BY <1>1, <1>8, SameTables, EndOK, Join DEF EnterFirstin
<1>9. CASE CloseFlush(h)
    <2>1. /\ player' \in [Sids -> Players] /\ proven' = proven
          /\ \A t \in Sids : player'[t] # NoPlayer => player'[t] = player[t]
          /\ Go(h, "clear_base", base[h.sid], 0)
        BY <1>1, <1>2, <1>5, <1>9 DEF CloseFlush, Tables
    <2>2. Tables'
        BY <1>1, <1>9, <2>1 DEF Tables, Authenticated, CloseFlush
    <2>3. "clear_base" \in Stages /\ "clear_base" \in MayBeNobody
        BY DEF Stages, MayBeNobody
    <2>4. HandlersOK'
        BY <1>1, <1>2, <1>4, <2>1, <2>3, GoOK
    <2> QED BY <2>2, <2>4, Join
<1> QED BY <1>6, <1>7, <1>8, <1>9

LEMMA ClearInv ==
    ASSUME AInv, NEW h \in running, ClearBase(h) \/ ClearBind(h)
    PROVE  AInv'
<1>1. Tables /\ HandlersOK
    BY Split
<1>2. /\ h.sid \in Sids /\ h.uid \in Uids \cup {Nobody} /\ h.n \in Nat
      /\ h.at \notin MayBeNobody => h.uid \in Uids
      /\ h.at \notin BeforeToken /\ h.uid # Nobody => h.uid \in proven[h.sid]
    BY <1>1, RunningHandler
<1>3. Nobody \notin Uids
    BY LoginAssumption
<1>4. base[h.sid] \in Uids \cup {Nobody} /\ (base[h.sid] # Nobody => base[h.sid] \in proven[h.sid])
    BY <1>1, <1>2 DEF Tables, Authenticated
<1>5. ASSUME base' = [base EXCEPT ![h.sid] = Nobody], End(h),
             UNCHANGED <<where, player, bind, gen, lastid, calls, proven>>
      PROVE  AInv'
    <2>1. /\ base' \in [Sids -> Uids \cup {Nobody}]
          /\ \A t \in Sids : base'[t] # Nobody => base'[t] \in proven[t]
        BY <1>1, <1>2, <1>5 DEF Tables, Authenticated
    <2>2. Tables'
        BY <1>1, <1>5, <2>1 DEF Tables, Authenticated
    <2> QED BY <1>1, <1>5, <2>2, EndOK, Join
<1>6. CASE ClearBase(h) /\ h.uid # Nobody
    <2>1. /\ h.uid \in Uids /\ h.uid \in proven[h.sid] /\ proven' = proven
          /\ bind' = [bind EXCEPT ![h.uid] = NoSid]
          /\ Go(h, "clear_bind", h.uid, 0)
        BY <1>2, <1>6 DEF ClearBase, BeforeToken
    <2>2. /\ bind' \in [Uids -> Sids \cup {NoSid}]
          /\ \A u \in Uids : bind'[u] # NoSid => u \in proven[bind'[u]]
        BY <1>1, <2>1 DEF Tables, Authenticated
    <2>3. Tables'
        BY <1>1, <1>6, <2>2 DEF Tables, Authenticated, ClearBase
    <2>4. "clear_bind" \in Stages
        BY DEF Stages
    <2>5. HandlersOK'
        BY <1>1, <1>2, <2>1, <2>4, GoOK
    <2> QED BY <2>3, <2>5, Join
<1>7. CASE ClearBase(h) /\ h.uid = Nobody
    BY <1>5, <1>7 DEF ClearBase
<1>8. CASE ClearBind(h)
    BY <1>5, <1>8 DEF ClearBind
<1> QED BY <1>6, <1>7, <1>8

-----------------------------------------------------------------------------
LEMMA NextInv == AInv /\ [Next]_vars => AInv'
<1> SUFFICES ASSUME AInv, [Next]_vars PROVE AInv'
    OBVIOUS
<1>1. ASSUME NEW s \in Sids, NEW u \in Uids, Login(s, u) PROVE AInv'
    BY <1>1, RequestsInv
<1>2. ASSUME NEW s \in Sids, CreatePlayer(s) \/ EnterGame(s) \/ CloseSession(s) PROVE AInv'
    BY <1>2, RequestsInv, MovesInv
<1>3. ASSUME NEW h \in running, Step(h) PROVE AInv'
    BY <1>3, LoginInv, CreateInv, EnterInv, ClearInv DEF Step
<1>4. CASE UNCHANGED vars
    <2>1. Tables'
        BY <1>4, Split, SameTables DEF vars
    <2>2. HandlersOK'
        BY <1>4, Split DEF vars, HandlersOK, CarriedAll, Carried
    <2> QED BY <2>1, <2>2, Join
<1> QED BY <1>1, <1>2, <1>3, <1>4 DEF Next

LEMMA Invariant == Spec => []AInv
BY InitInv, NextInv, PTL DEF Spec

\* Every table and every handler of user_msgs.ts and servicebase keeps its type:
\* a handler past its checks always has a user, so none stores a player under
\* none (user_msgs.ts:117).
THEOREM TypeCorrect == Spec => []TypeOK
<1>1. AInv => TypeOK
    BY DEF AInv
<1> QED BY <1>1, Invariant, PTL

\* Whatever requests are under way at once, and in whatever order the replies of
\* Redis come, a session plays, is recorded and is bound only as a user whose
\* token it has presented (user_msgs.ts:69).
THEOREM Authentication == Spec => []Authenticated
<1>1. AInv => Authenticated
    BY DEF AInv
<1> QED BY <1>1, Invariant, PTL

-----------------------------------------------------------------------------
\* Player ids name players.

\* User u has the player id i: stored, in a player object, or in the hands of a
\* handler that is about to make one.
Has(u, i) ==
    /\ i # 0
    /\ \/ gen[u] = i
       \/ \E s \in Sids : player[s].uid = u /\ player[s].pid = i
       \/ \E h \in running : h.at \in {"login_gen", "create_set"} /\ h.uid = u /\ h.n = i

\* An id just drawn is nobody's.
Fresh(h) ==
    /\ h.n # 0 /\ h.n <= lastid
    /\ \A u \in Uids : ~Has(u, h.n)
    /\ \A g \in running : g.at = "create_id" /\ g.n = h.n => g = h

IdInv ==
    /\ \A u, v \in Uids, i \in Nat : Has(u, i) /\ Has(v, i) => u = v
    /\ \A u \in Uids, i \in Nat : Has(u, i) => i <= lastid
    /\ \A h \in running : h.at = "create_id" => Fresh(h)

\* A step that gives nobody an id and draws none.
LEMMA KeepsIds ==
    ASSUME AInv, IdInv, lastid' = lastid,
           \A u \in Uids, i \in Nat : Has(u, i)' => Has(u, i),
           \A h \in running' : h.at = "create_id" => h \in running
    PROVE  IdInv'
<1>1. ASSUME NEW h \in running', h.at = "create_id"
      PROVE  Fresh(h)'
  <2>1. h \in running /\ Fresh(h) /\ h.n \in Nat
    BY <1>1 DEF IdInv, AInv, TypeOK
  <2>. QED
    BY <2>1, <1>1 DEF Fresh
<1>. QED
  BY <1>1 DEF IdInv

\* What a step of a handler does to the handlers.
LEMMA GoShape ==
    ASSUME NEW h \in running, NEW stage, NEW u, NEW n, Go(h, stage, u, n),
           NEW g \in running'
    PROVE  g \in running \/ (g.at = stage /\ g.uid = u /\ g.n = n)
  BY DEF Go, H

LEMMA StartShape ==
    ASSUME NEW stage, NEW s, NEW u, NEW n, NEW k, Start(H(stage, s, u, n, k)),
           NEW g \in running'
    PROVE  g \in running \/ (g.at = stage /\ g.uid = u /\ g.n = n)
  BY DEF Start, H

\* A step that leaves players and stored ids alone, and whose handler goes on
\* with no id of its own.
LEMMA PlainIds ==
    ASSUME AInv, IdInv, UNCHANGED <<player, gen, lastid>>,
           \A g \in running' : g \in running \/
               /\ g.at # "create_id"
               /\ g.at \in {"login_gen", "create_set"} => g.n = gen[g.uid]
    PROVE  IdInv'
<1>1. \A u \in Uids, i \in Nat : Has(u, i)' => Has(u, i)
  BY DEF Has
<1>. QED
  BY <1>1, KeepsIds

\* A step after which each session's player has an id its user had before.
LEMMA PlayerIds ==
    ASSUME AInv, IdInv, UNCHANGED lastid,
           \A s \in Sids : player'[s] = player[s] \/
               \A u \in Uids, i \in Nat :
                   player'[s].uid = u /\ player'[s].pid = i /\ i # 0 => Has(u, i),
           \A u \in Uids : gen'[u] = gen[u] \/ (gen'[u] # 0 => Has(u, gen'[u])),
           \A g \in running' : g \in running \/ g.at \notin {"login_gen", "create_id", "create_set"}
    PROVE  IdInv'
<1>1. ASSUME NEW u \in Uids, NEW i \in Nat, Has(u, i)'
      PROVE  Has(u, i)
  <2>1. i # 0
    BY <1>1 DEF Has
  <2>2. CASE gen'[u] = i
    BY <2>1, <2>2 DEF Has
  <2>3. CASE \E s \in Sids : player'[s].uid = u /\ player'[s].pid = i
    BY <2>1, <2>3 DEF Has
  <2>4. CASE \E g \in running' :
                g.at \in {"login_gen", "create_set"} /\ g.uid = u /\ g.n = i
    BY <2>1, <2>4 DEF Has
  <2>. QED
    BY <1>1, <2>2, <2>3, <2>4 DEF Has
<1>. QED
  BY <1>1, KeepsIds

LEMMA SetPlayerShape ==
    ASSUME AInv, NEW s \in Sids, NEW service, NEW p, SetPlayer(s, service, p)
    PROVE  \A t \in Sids : player'[t] = player[t] \/ (t = s /\ player'[t] = p)
  BY DEF SetPlayer, AInv, TypeOK

LEMMA RequestIds ==
    ASSUME AInv, IdInv, NEW s \in Sids, (\E u \in Uids : Login(s, u)) \/ CreatePlayer(s)
    PROVE  IdInv'
  BY PlainIds, StartShape DEF Login, CreatePlayer

LEMMA FlushIds ==
    ASSUME AInv, IdInv, NEW s \in Sids, player[s] # NoPlayer, Flush(s),
           UNCHANGED <<player, lastid>>,
           \A g \in running' : g \in running \/ g.at \notin {"login_gen", "create_id", "create_set"}
    PROVE  IdInv'
<1>1. player[s].uid \in Uids /\ gen \in [Uids -> Nat] /\ player[s].pid \in Nat
  BY DEF AInv, TypeOK
<1>2. \A u \in Uids : gen'[u] = gen[u] \/ (u = player[s].uid /\ gen'[u] = player[s].pid)
  BY <1>1 DEF Flush
<1>. QED
  BY <1>2, PlayerIds DEF Has

LEMMA MovesIds ==
    ASSUME AInv, IdInv, NEW s \in Sids, EnterGame(s) \/ CloseSession(s)
    PROVE  IdInv'
<1>1. CASE EnterGame(s)
  <2>1. /\ Start(H("leave_flush", s, player[s].uid, 0, 0)) /\ Flush(s)
        /\ player[s] # NoPlayer /\ UNCHANGED <<player, lastid>>
    BY <1>1 DEF EnterGame
  <2>. QED
    BY <2>1, StartShape, FlushIds
<1>2. CASE CloseSession(s) /\ player[s] # NoPlayer
  <2>1. /\ Start(H("close_flush", s, player[s].uid, 0, 0)) /\ Flush(s)
        /\ UNCHANGED <<player, lastid>>
    BY <1>2 DEF CloseSession
  <2>. QED
    BY <1>2, <2>1, StartShape, FlushIds
<1>3. CASE CloseSession(s) /\ player[s] = NoPlayer
  <2>1. /\ Start(H("clear_base", s, base[s], 0, 0))
        /\ UNCHANGED <<player, gen, lastid>>
    BY <1>3 DEF CloseSession
  <2>. QED
    BY <2>1, StartShape, PlainIds
<1>. QED
  BY <1>1, <1>2, <1>3

\* Handlers that move on with nothing but a user, and those that end.
LEMMA PlainStepIds ==
    ASSUME AInv, IdInv, NEW h \in running,
           \/ LoginBase(h) \/ LoginBind(h) \/ LoginUser(h) \/ LoginSetBase(h)
           \/ LoginSetBind(h) \/ CreateBase(h)
           \/ EnterFirstin(h) \/ ClearBase(h) \/ ClearBind(h)
    PROVE  IdInv'
<1>1. UNCHANGED <<player, gen, lastid>>
  BY DEF LoginBase, LoginBind, LoginUser, LoginSetBase, LoginSetBind, CreateBase,
         EnterFirstin, ClearBase, ClearBind
<1>2. CASE End(h)
  BY <1>1, <1>2, PlainIds DEF End
<1>3. ASSUME NEW stage, NEW u, NEW n, Go(h, stage, u, n),
             stage \notin {"create_id", "create_set"}, stage = "login_gen" => n = gen[u]
      PROVE  IdInv'
  <2>1. \A g \in running' : g \in running \/ (g.at = stage /\ g.uid = u /\ g.n = n)
    BY <1>3, GoShape
  <2>. QED
    BY <1>1, <1>3, <2>1, PlainIds
<1>4. CASE LoginBase(h) \/ LoginBind(h) \/ LoginUser(h) \/ LoginSetBase(h)
  BY <1>2, <1>3, <1>4 DEF LoginBase, LoginBind, LoginUser, LoginSetBase
<1>5. CASE LoginSetBind(h) \/ CreateBase(h)
  BY <1>2, <1>3, <1>5 DEF LoginSetBind, CreateBase
<1>6. CASE EnterFirstin(h) \/ ClearBase(h) \/ ClearBind(h)
  BY <1>2, <1>3, <1>6 DEF EnterFirstin, ClearBase, ClearBind
<1>. QED
  BY <1>4, <1>5, <1>6

LEMMA PlayerStepIds ==
    ASSUME AInv, IdInv, NEW h \in running,
           \/ LoginGen(h) \/ CreateSet(h) \/ LeaveFlush(h) \/ CloseFlush(h) \/ EnterBase(h)
    PROVE  IdInv'
<1>1. h.sid \in Sids /\ h.n \in Nat /\ player \in [Sids -> Players] /\ Nobody \notin Uids
  BY LoginAssumption DEF AInv, TypeOK, Players
<1>2. CASE LoginGen(h)
  <2>1. \A t \in Sids : player'[t] = player[t] \/ (player'[t].uid = h.uid /\ player'[t].pid = h.n)
    BY <1>1, <1>2, SetPlayerShape DEF LoginGen
  <2>. QED
    BY <1>2, <2>1, PlayerIds DEF LoginGen, End, Has
<1>3. CASE CreateSet(h)
  <2>1. \A t \in Sids : player'[t] = player[t] \/ (player'[t].uid = h.uid /\ player'[t].pid = h.n)
    BY <1>1, <1>3, SetPlayerShape DEF CreateSet
  <2>. QED
    BY <1>3, <2>1, PlayerIds DEF CreateSet, End, Has
<1>4. CASE LeaveFlush(h) \/ CloseFlush(h)
  <2>1. \A t \in Sids : player'[t] = player[t] \/ player'[t].uid = Nobody
    BY <1>1, <1>4 DEF LeaveFlush, CloseFlush, NoPlayer
  <2>2. \A g \in running' : g \in running \/ g.at \in {"enter_base", "clear_base"}
    BY <1>4, GoShape DEF LeaveFlush, CloseFlush
  <2>3. UNCHANGED <<gen, lastid>>
    BY <1>4 DEF LeaveFlush, CloseFlush
  <2>. QED
    BY <1>1, <2>1, <2>2, <2>3, PlayerIds
<1>5. CASE EnterBase(h)
  <2>1. \A t \in Sids : player'[t] = player[t] \/
            (player'[t].uid = h.uid /\ player'[t].pid = gen[h.uid])
    BY <1>1, <1>5, SetPlayerShape DEF EnterBase
  <2>2. \A g \in running' : g \in running \/ g.at = "enter_firstin"
    BY <1>5, GoShape DEF EnterBase, End
  <2>3. UNCHANGED <<gen, lastid>>
    BY <1>5 DEF EnterBase
  <2>. QED
    BY <2>1, <2>2, <2>3, PlayerIds DEF Has
<1>. QED
  BY <1>2, <1>3, <1>4, <1>5

\* autoinc_playerid: a new id is nobody's.
LEMMA CreateGenIds ==
    ASSUME AInv, IdInv, NEW h \in running, CreateGen(h)
    PROVE  IdInv'
<1>1. lastid \in Nat /\ UNCHANGED <<player, gen>>
  BY DEF AInv, TypeOK, CreateGen
<1>2. CASE h.n # 0
  <2>1. End(h) /\ UNCHANGED lastid
    BY <1>2 DEF CreateGen
  <2>. QED
    BY <1>1, <2>1, PlainIds DEF End
<1>3. CASE h.n = 0
  <2>1. lastid' = lastid + 1 /\ Go(h, "create_id", h.uid, lastid')
    BY <1>3 DEF CreateGen
  <2>2. PICK new \in running' :
            /\ new.at = "create_id" /\ new.n = lastid + 1
            /\ \A g \in running' : g = new \/ g \in running
    BY <2>1 DEF Go, H
  <2>3. \A u \in Uids, i \in Nat : Has(u, i)' => Has(u, i)
    BY <1>1, <2>2 DEF Has
  <2>4. \A u \in Uids, i \in Nat : Has(u, i) => i <= lastid
    BY DEF IdInv
  <2>5. Fresh(new)'
    <3>1. new.n # 0 /\ new.n <= lastid' /\ new.n \in Nat
      BY <1>1, <2>1, <2>2
    <3>2. \A u \in Uids : ~Has(u, new.n)'
      BY <1>1, <2>2, <2>3, <2>4, <3>1
    <3>3. \A g \in running : g.at = "create_id" => g.n <= lastid /\ g.n \in Nat
      BY DEF IdInv, Fresh, AInv, TypeOK
    <3>4. \A g \in running' : g.at = "create_id" /\ g.n = new.n => g = new
      BY <1>1, <2>2, <3>3
    <3>. QED
      BY <3>1, <3>2, <3>4 DEF Fresh
  <2>6. ASSUME NEW g \in running', g.at = "create_id", g # new
        PROVE  Fresh(g)'
    <3>1. g \in running /\ Fresh(g) /\ g.n \in Nat
      BY <2>2, <2>6 DEF IdInv, AInv, TypeOK
    <3>2. g.n # 0 /\ g.n <= lastid' /\ g.n # new.n
      BY <1>1, <2>1, <2>2, <3>1 DEF Fresh
    <3>3. \A u \in Uids : ~Has(u, g.n)'
      BY <2>3, <3>1 DEF Fresh
    <3>4. \A f \in running' : f.at = "create_id" /\ f.n = g.n => f = g
      BY <2>2, <3>1, <3>2 DEF Fresh
    <3>. QED
      BY <3>2, <3>3, <3>4 DEF Fresh
  <2>7. \A u \in Uids, i \in Nat : Has(u, i)' => i <= lastid'
    BY <1>1, <2>1, <2>3, <2>4
  <2>. QED
    BY <2>3, <2>5, <2>6, <2>7 DEF IdInv
<1>. QED
  BY <1>2, <1>3

\* The id drawn becomes the user's.
LEMMA CreateIdIds ==
    ASSUME AInv, IdInv, NEW h \in running, CreateId(h)
    PROVE  IdInv'
<1>1. /\ h.at = "create_id" /\ UNCHANGED <<player, lastid>>
      /\ gen' = [gen EXCEPT ![h.uid] = h.n] /\ Go(h, "create_set", h.uid, h.n)
  BY DEF CreateId
<1>2. h.uid \in Uids /\ h.n \in Nat /\ gen \in [Uids -> Nat] /\ Fresh(h)
  BY <1>1 DEF AInv, TypeOK, IdInv
<1>. DEFINE new == H("create_set", h.sid, h.uid, h.n, h.k)
<1>3. /\ running' = (running \ {h}) \cup {new}
      /\ new.at = "create_set" /\ new.uid = h.uid /\ new.n = h.n
  BY <1>1 DEF Go, H
<1>. HIDE DEF new
<1>4. \A u \in Uids, i \in Nat : Has(u, i)' => Has(u, i) \/ (u = h.uid /\ i = h.n)
  BY <1>1, <1>2, <1>3 DEF Has
<1>5. \A u, v \in Uids, i \in Nat : Has(u, i)' /\ Has(v, i)' => u = v
  BY <1>2, <1>4 DEF IdInv, Fresh
<1>6. \A u \in Uids, i \in Nat : Has(u, i)' => i <= lastid'
  BY <1>1, <1>2, <1>4 DEF IdInv, Fresh
<1>7. ASSUME NEW g \in running', g.at = "create_id"
      PROVE  Fresh(g)'
  <2>1. g \in running /\ g # h /\ Fresh(g) /\ g.n \in Nat
    BY <1>1, <1>3, <1>7 DEF IdInv, AInv, TypeOK
  <2>2. g.n # h.n
    BY <1>1, <2>1 DEF Fresh
  <2>3. \A u \in Uids : ~Has(u, g.n)'
    BY <1>4, <2>1, <2>2 DEF Fresh
  <2>4. \A f \in running' : f.at = "create_id" /\ f.n = g.n => f = g
    BY <1>3, <2>1 DEF Fresh
  <2>. QED
    BY <1>1, <2>1, <2>3, <2>4 DEF Fresh
<1>. QED
  BY <1>5, <1>6, <1>7 DEF IdInv

LEMMA InitIds == Init => IdInv
<1>. SUFFICES ASSUME Init PROVE IdInv
  OBVIOUS
<1>1. \A u \in Uids, i \in Nat : Has(u, i) => i # 0 /\ Stored[u] = i
  BY LoginAssumption DEF Init, Has, NoPlayer
<1>2. \A u, v \in Uids : u # v /\ Stored[u] # 0 => Stored[u] # Stored[v]
  BY LoginAssumption
<1>3. \A u \in Uids : Stored[u] <= LastId
  BY LoginAssumption
<1>. QED
  BY <1>1, <1>2, <1>3 DEF Init, IdInv

LEMMA NextIds == AInv /\ IdInv /\ [Next]_vars => IdInv'
<1>. SUFFICES ASSUME AInv, IdInv, [Next]_vars PROVE IdInv'
  OBVIOUS
<1>1. ASSUME NEW s \in Sids, NEW u \in Uids, Login(s, u) PROVE IdInv'
  BY <1>1, RequestIds
<1>2. ASSUME NEW s \in Sids, CreatePlayer(s) \/ EnterGame(s) \/ CloseSession(s) PROVE IdInv'
  BY <1>2, RequestIds, MovesIds
<1>3. ASSUME NEW h \in running, Step(h) PROVE IdInv'
  BY <1>3, PlainStepIds, PlayerStepIds, CreateGenIds, CreateIdIds DEF Step
<1>4. CASE UNCHANGED vars
  BY <1>4, PlainIds DEF vars
<1>. QED
  BY <1>1, <1>2, <1>3, <1>4 DEF Next

\* Player ids name players (user_msgs.ts:139): no two users' stored players have
\* the same id, and an id that is about to be stored is no player's, however
\* creations and logins overlap.
THEOREM UniqueIds == Spec => []UniquePlayerId
<1>1. AInv /\ IdInv => UniquePlayerId
  BY DEF AInv, TypeOK, IdInv, Has, Fresh, UniquePlayerId
<1>2. AInv /\ IdInv /\ [Next]_vars => (AInv /\ IdInv)'
  BY NextInv, NextIds
<1>. QED
  BY <1>1, <1>2, InitInv, InitIds, PTL DEF Spec
-----------------------------------------------------------------------------
(***************************************************************************)
(* Clients that wait for their answers: a session has one handler at most, *)
(* and so has a user, but for those that close; a session that is recorded *)
(* as a user is bound to it, but for a moment at login and at the close.   *)
(***************************************************************************)
Closing == {"close_flush", "clear_base", "clear_bind"}
Bound(s, u) == base[s] = u /\ bind[u] = s

OnePerSession == \A g, h \in running : g.sid = h.sid => g = h
OnePerUser == \A g, h \in running :
    g.uid = h.uid /\ g.uid # Nobody /\ g.at \notin Closing /\ h.at \notin Closing => g = h

\* What each stage knows of its session and user.
AtLogin(h) ==
    /\ h.at = "login_base" /\ h.n = 0 => base[h.sid] = Nobody
    /\ h.at = "login_base" /\ base[h.sid] # Nobody => Bound(h.sid, base[h.sid])
    /\ h.at \in {"login_bind", "login_user"} => base[h.sid] = Nobody
    /\ h.at = "login_setbase" => base[h.sid] = h.uid
    /\ h.at = "login_bind" /\ h.n = 0 => bind[h.uid] = NoSid
    /\ h.at \in {"login_user", "login_setbase"} => bind[h.uid] = NoSid
AsBound(h) ==
    /\ h.at \in {"login_setbind", "login_gen", "create_gen", "create_id", "create_set",
                 "leave_flush", "enter_firstin", "close_flush"} => Bound(h.sid, h.uid)
    /\ h.at \in MayBeNobody => base[h.sid] = h.uid
    /\ h.at \in MayBeNobody /\ h.uid # Nobody => Bound(h.sid, h.uid)
AtClose(h) ==
    /\ h.at = "clear_bind" => base[h.sid] = h.uid /\ bind[h.uid] # h.sid
    /\ h.at \in {"clear_base", "clear_bind"} => player[h.sid] = NoPlayer
    /\ h.at \in Closing <=> where[h.sid] = "closed"
Knows(h) == AtLogin(h) /\ AsBound(h) /\ AtClose(h)

\* The tables: who is bound is recorded, who plays is both, who is recorded and
\* awaits nothing is both, who is closed and done is neither.
InTables ==
    /\ \A u \in Uids, s \in Sids : bind[u] = s => base[s] = u
    /\ \A s \in Sids : player[s] # NoPlayer => Bound(s, player[s].uid)
    /\ \A s \in Sids : Idle(s) /\ base[s] # Nobody => Bound(s, base[s])
    /\ \A s \in Sids : Idle(s) /\ where[s] = "closed" => base[s] = Nobody

PInv == OnePerSession /\ OnePerUser /\ InTables /\ \A h \in running : Knows(h)

\* A step of session s: what is another's stays, and a user is bound to s only if
\* nobody was, by the handler that may, and freed only of s.
Touches(s) ==
    /\ \A t \in Sids : t # s =>
          where'[t] = where[t] /\ player'[t] = player[t] /\ base'[t] = base[t]
    /\ \A u \in Uids :
          \/ bind'[u] = bind[u]
          \/ bind[u] = s /\ bind'[u] = NoSid
          \/ /\ bind[u] = NoSid /\ bind'[u] = s
             /\ \E h \in running : h.sid = s /\ h.uid = u /\ h.at = "login_setbase"
Others(s) == {g \in running : g.sid # s}
Alone(g) == g.uid # Nobody /\ g.at \notin Closing =>
                \A f \in Others(g.sid) : f.uid = g.uid => f.at \in Closing

LEMMA OthersKnow ==
    ASSUME TypeOK, PInv, NEW s \in Sids, Touches(s), NEW g \in running, g.sid # s
    PROVE  Knows(g)'
<1>1. /\ g.sid \in Sids /\ g.uid \in Uids \cup {Nobody}
      /\ g.at \notin MayBeNobody => g.uid \in Uids
    BY DEF TypeOK, MayBeNobody
<1>2. Knows(g)
    BY DEF PInv
<1>3. UNCHANGED <<where[g.sid], player[g.sid], base[g.sid]>>
    BY <1>1 DEF Touches
<1>4. NoSid # g.sid /\ NoSid # s
    BY <1>1, LoginAssumption
<1>5. ASSUME g.uid \in Uids
      PROVE  /\ bind[g.uid] = g.sid <=> bind'[g.uid] = g.sid
             /\ bind[g.uid] = NoSid /\ g.at \in {"login_bind", "login_user", "login_setbase"}
                => bind'[g.uid] = NoSid
    <2>1. CASE bind'[g.uid] = bind[g.uid]
        BY <2>1
    <2>2. CASE bind[g.uid] = s /\ bind'[g.uid] = NoSid
        BY <1>4, <2>2
    <2>3. CASE /\ bind[g.uid] = NoSid /\ bind'[g.uid] = s
               /\ \E h \in running : h.sid = s /\ h.uid = g.uid /\ h.at = "login_setbase"
        <3>1. g.at \notin {"login_bind", "login_user", "login_setbase"}
            BY <1>5, <2>3, LoginAssumption DEF PInv, OnePerUser, Closing
        <3> QED BY <1>4, <2>3, <3>1
    <2> QED BY <1>5, <2>1, <2>2, <2>3 DEF Touches
<1>6. AtLogin(g)'
    <2>1. ASSUME base[g.sid] # Nobody, Bound(g.sid, base[g.sid])
          PROVE  Bound(g.sid, base[g.sid])'
        <3>1. base[g.sid] \in Uids
            BY <1>1, <2>1 DEF TypeOK
        <3> QED BY <1>1, <1>3, <1>4, <2>1, <3>1 DEF Touches, Bound
    <2> QED BY <1>1, <1>2, <1>3, <1>5, <2>1 DEF Knows, AtLogin, MayBeNobody
<1>7. AsBound(g)'
    BY <1>1, <1>2, <1>3, <1>5 DEF Knows, AsBound, MayBeNobody, Bound
<1>8. AtClose(g)'
    BY <1>1, <1>2, <1>3, <1>5 DEF Knows, AtClose, MayBeNobody
<1> QED BY <1>6, <1>7, <1>8 DEF Knows

\* What is left to show of a step of session s.
LEMMA StepOfOne ==
    ASSUME TypeOK, PInv, NEW s \in Sids, Touches(s),
           {g \in running' : g.sid # s} = Others(s),
           \A f, g \in running' : f.sid = s /\ g.sid = s => f = g,
           \A g \in running' : g.sid = s => Knows(g)' /\ Alone(g),
           \A u \in Uids : bind'[u] = s => base'[s] = u,
           player'[s] # NoPlayer => Bound(s, player[s].uid)',
           Idle(s)' /\ base'[s] # Nobody => Bound(s, base[s])',
           Idle(s)' /\ where'[s] = "closed" => base'[s] = Nobody
    PROVE  PInv'
<1>1. \A g \in running' : g.sid # s => g \in running
    BY DEF Others
<1>2. OnePerSession'
    BY <1>1 DEF OnePerSession, PInv
<1>3. OnePerUser'
    <2> SUFFICES ASSUME NEW g \in running', NEW h \in running', g.uid = h.uid, g.uid # Nobody,
                        g.at \notin Closing, h.at \notin Closing
                 PROVE  g = h
        BY DEF OnePerUser
    <2>1. CASE g.sid # s /\ h.sid # s
        BY <1>1, <2>1 DEF PInv, OnePerUser
    <2>2. CASE g.sid = s /\ h.sid # s
        BY <2>2 DEF Alone, Others
    <2>3. CASE g.sid # s /\ h.sid = s
        BY <2>3 DEF Alone, Others
    <2> QED BY <2>1, <2>2, <2>3
<1>4. \A h \in running' : Knows(h)'
    BY <1>1, OthersKnow
<1>5. InTables'
    <2>1. NoSid \notin Sids
        BY LoginAssumption
    <2>2. ASSUME NEW u \in Uids, NEW t \in Sids, t # s
          PROVE  bind'[u] = t <=> bind[u] = t
        BY <2>1, <2>2 DEF Touches
    <2>3. ASSUME NEW t \in Sids, t # s PROVE UNCHANGED <<where[t], player[t], base[t]>>
        BY <2>3 DEF Touches
    <2>4. \A u \in Uids, t \in Sids : bind'[u] = t => base'[t] = u
        BY <2>2, <2>3 DEF PInv, InTables
    <2>5. ASSUME NEW t \in Sids, t # s, player'[t] # NoPlayer PROVE Bound(t, player[t].uid)'
        <3>1. player[t].uid \in Uids /\ Bound(t, player[t].uid)
            BY <2>3, <2>5 DEF TypeOK, PInv, InTables
        <3> QED BY <2>2, <2>3, <2>5, <3>1 DEF Bound
    <2>6. ASSUME NEW t \in Sids, t # s, where'[t] = "closed", Idle(t)' PROVE base'[t] = Nobody
        <3>1. Idle(t)
            BY <2>6 DEF Idle, Others
        <3> QED BY <2>3, <2>6, <3>1 DEF PInv, InTables
    <2>7. \A t \in Sids : player'[t] # NoPlayer => Bound(t, player[t].uid)'
        BY <2>5
    <2>8. \A t \in Sids : Idle(t)' /\ where'[t] = "closed" => base'[t] = Nobody
        BY <2>6
    <2>9. ASSUME NEW t \in Sids, t # s, Idle(t)', base'[t] # Nobody PROVE Bound(t, base[t])'
        <3>1. Idle(t) /\ base[t] \in Uids /\ base'[t] = base[t]
            BY <2>3, <2>9 DEF Idle, Others, TypeOK
        <3> QED BY <2>2, <2>9, <3>1 DEF PInv, InTables, Bound
    <2>10. \A t \in Sids : Idle(t)' /\ base'[t] # Nobody => Bound(t, base[t])'
        BY <2>9
    <2> QED BY <2>4, <2>7, <2>8, <2>10 DEF InTables
<1> QED BY <1>2, <1>3, <1>4, <1>5 DEF PInv

\* The handlers after one goes on, ends or starts.
LEMMA GoesOn ==
    ASSUME TypeOK, PInv, NEW h \in running, NEW stage, NEW u, NEW n, Go(h, stage, u, n)
    PROVE  /\ {g \in running' : g.sid # h.sid} = Others(h.sid)
           /\ \A f, g \in running' : f.sid = h.sid /\ g.sid = h.sid => f = g
           /\ \A g \in running' : g.sid = h.sid => g.at = stage /\ g.uid = u /\ g.n = n
           /\ ~Idle(h.sid)'
           /\ u = h.uid /\ h.at \notin Closing => \A g \in running' : g.sid = h.sid => Alone(g)
<1> DEFINE new == H(stage, h.sid, u, n, h.k)
<1>1. new.sid = h.sid /\ new.at = stage /\ new.uid = u /\ new.n = n
    BY DEF H
<1>2. running' = (running \ {h}) \cup {new}
    BY DEF Go
<1> HIDE DEF new
<1>3. \A g \in running : g.sid = h.sid => g = h
    BY DEF PInv, OnePerSession
<1>4. {g \in running' : g.sid # h.sid} = Others(h.sid)
    BY <1>1, <1>2 DEF Others
<1>5. \A g \in running' : g.sid = h.sid => g = new
    BY <1>2, <1>3
<1>6. ~Idle(h.sid)'
    BY <1>1, <1>2 DEF Idle
<1>7. u = h.uid /\ h.at \notin Closing => Alone(new)
    BY <1>1 DEF Alone, Others, PInv, OnePerUser
<1> QED BY <1>1, <1>4, <1>5, <1>6, <1>7

LEMMA Ends ==
    ASSUME TypeOK, PInv, NEW h \in running, End(h)
    PROVE  /\ {g \in running' : g.sid # h.sid} = Others(h.sid)
           /\ \A g \in running' : g.sid # h.sid
           /\ Idle(h.sid)'
<1>1. \A g \in running : g.sid = h.sid => g = h
    BY DEF PInv, OnePerSession
<1>2. \A g \in running' : g.sid # h.sid
    BY <1>1 DEF End
<1> QED BY <1>2 DEF End, Others, Idle

LEMMA Starts ==
    ASSUME NEW s \in Sids, Idle(s), NEW stage, NEW u, NEW n, NEW k, Start(H(stage, s, u, n, k))
    PROVE  /\ {g \in running' : g.sid # s} = Others(s)
           /\ \A f, g \in running' : f.sid = s /\ g.sid = s => f = g
           /\ \A g \in running' : g.sid = s => g.at = stage /\ g.uid = u /\ g.n = n
           /\ ~Idle(s)'
           /\ (\A g \in running : g.uid # u) => \A g \in running' : g.sid = s => Alone(g)
<1> DEFINE new == H(stage, s, u, n, k)
<1>1. new.sid = s /\ new.at = stage /\ new.uid = u /\ new.n = n
    BY DEF H
<1>2. running' = running \cup {new}
    BY DEF Start
<1> HIDE DEF new
<1>3. \A g \in running' : g.sid = s => g = new
    BY <1>2 DEF Idle
<1>4. {g \in running' : g.sid # s} = Others(s)
    BY <1>1, <1>2 DEF Others
<1>5. ~Idle(s)'
    BY <1>1, <1>2 DEF Idle
<1>6. (\A g \in running : g.uid # u) => Alone(new)
    BY <1>1 DEF Alone, Others
<1> QED BY <1>1, <1>3, <1>4, <1>5, <1>6

\* What a handler knows of its own session and user.
LEMMA OwnFacts ==
    ASSUME TypeOK, PInv, NEW h \in running
    PROVE  /\ h.sid \in Sids /\ h.uid \in Uids \cup {Nobody} /\ h.n \in Nat
           /\ h.at \notin MayBeNobody => h.uid \in Uids
           /\ NoSid \notin Sids /\ Nobody \notin Uids
           /\ AtLogin(h) /\ AsBound(h) /\ AtClose(h)
           /\ \A u \in Uids : bind[u] = h.sid => base[h.sid] = u
           /\ player[h.sid] # NoPlayer => Bound(h.sid, player[h.sid].uid)
           /\ player[h.sid] # NoPlayer => player[h.sid].uid \in Uids
BY LoginAssumption DEF TypeOK, MayBeNobody, PInv, Knows, InTables

\* A step that touches no table.
LEMMA Quiet ==
    ASSUME TypeOK, PInv, UNCHANGED <<where, player, base, bind>>, NEW s \in Sids
    PROVE  /\ Touches(s)
           /\ \A u \in Uids : bind'[u] = s => base'[s] = u
           /\ player'[s] # NoPlayer => Bound(s, player[s].uid)'
<1>1. Touches(s)
    BY DEF Touches
<1>2. \A u \in Uids : bind'[u] = s => base'[s] = u
    BY DEF PInv, InTables
<1>3. player'[s] # NoPlayer => Bound(s, player[s].uid)'
    BY DEF PInv, InTables, Bound
<1> QED BY <1>1, <1>2, <1>3

LEMMA QuietEnd ==
    ASSUME TypeOK, PInv, NEW h \in running, End(h), UNCHANGED <<where, player, base, bind>>,
           base[h.sid] # Nobody => where[h.sid] # "closed" /\ Bound(h.sid, base[h.sid])
    PROVE  PInv'
<1>1. base'[h.sid] # Nobody => Bound(h.sid, base[h.sid])'
    BY DEF Bound
<1> QED BY <1>1, OwnFacts, Ends, Quiet, StepOfOne

LEMMA QuietGo ==
    ASSUME TypeOK, PInv, NEW h \in running, NEW stage, NEW n, Go(h, stage, h.uid, n),
           UNCHANGED <<where, player, base, bind>>, h.at \notin Closing,
           \A g : g.sid = h.sid /\ g.at = stage /\ g.uid = h.uid /\ g.n = n => Knows(g)
    PROVE  PInv'
<1>1. \A g \in running' : g.sid = h.sid => Knows(g)
    BY GoesOn
<1>2. \A g \in running' : g.sid = h.sid => Knows(g)'
    BY <1>1 DEF Knows, AtLogin, AsBound, AtClose, Bound
<1> QED BY <1>2, OwnFacts, GoesOn, Quiet, StepOfOne

-----------------------------------------------------------------------------
LEMMA LoginBound ==
    ASSUME TypeOK, PInv, NEW h \in running,
           \/ LoginBase(h) \/ LoginBind(h) \/ LoginUser(h)
           \/ LoginSetBase(h) \/ LoginSetBind(h) \/ LoginGen(h)
    PROVE  PInv'
<1>0. /\ h.sid \in Sids /\ h.uid \in Uids \cup {Nobody} /\ h.n \in Nat
      /\ h.at \notin MayBeNobody => h.uid \in Uids
      /\ NoSid \notin Sids /\ Nobody \notin Uids
      /\ AtLogin(h) /\ AsBound(h) /\ AtClose(h)
      /\ \A u \in Uids : bind[u] = h.sid => base[h.sid] = u
      /\ player[h.sid] # NoPlayer => Bound(h.sid, player[h.sid].uid)
      /\ player[h.sid] # NoPlayer => player[h.sid].uid \in Uids
    BY OwnFacts
<1>1. h.at \notin Closing /\ h.at \notin MayBeNobody /\ where[h.sid] # "closed" /\ h.uid \in Uids
    BY <1>0 DEF LoginBase, LoginBind, LoginUser, LoginSetBase, LoginSetBind, LoginGen,
                Closing, MayBeNobody, AtClose
<1>2. CASE LoginBase(h)
    <2>1. CASE h.n = 0
        <3>1. Go(h, "login_bind", h.uid, Found(bind[h.uid] # NoSid)) /\ base[h.sid] = Nobody
            BY <1>0, <1>2, <2>1 DEF LoginBase, AtLogin
        <3>2. ASSUME NEW g, g.sid = h.sid, g.at = "login_bind", g.uid = h.uid,
                     g.n = Found(bind[h.uid] # NoSid)
              PROVE  Knows(g)
            BY <1>1, <3>1, <3>2 DEF Knows, AtLogin, AsBound, AtClose, Closing, MayBeNobody, Found
        <3> QED BY <1>1, <1>2, <3>1, <3>2, QuietGo DEF LoginBase
    <2>2. CASE h.n # 0
        BY <1>0, <1>1, <1>2, <2>2, QuietEnd DEF LoginBase, AtLogin
    <2> QED BY <2>1, <2>2
<1>3. CASE LoginBind(h)
    <2>1. CASE h.n = 0
        <3>1. Go(h, "login_user", h.uid, 0) /\ base[h.sid] = Nobody /\ bind[h.uid] = NoSid
            BY <1>0, <1>3, <2>1 DEF LoginBind, AtLogin
        <3>2. ASSUME NEW g, g.sid = h.sid, g.at = "login_user", g.uid = h.uid, g.n = 0
              PROVE  Knows(g)
            BY <1>1, <3>1, <3>2 DEF Knows, AtLogin, AsBound, AtClose, Closing, MayBeNobody
        <3> QED BY <1>1, <1>3, <3>1, <3>2, QuietGo DEF LoginBind
    <2>2. CASE h.n # 0
        BY <1>0, <1>1, <1>3, <2>2, QuietEnd DEF LoginBind, AtLogin
    <2> QED BY <2>1, <2>2
<1>4. CASE LoginUser(h)
    <2>1. base[h.sid] = Nobody /\ bind[h.uid] = NoSid /\ UNCHANGED <<where, player, bind>>
        BY <1>0, <1>4 DEF LoginUser, AtLogin
    <2>2. player[h.sid] = NoPlayer /\ \A u \in Uids : bind[u] # h.sid
        BY <1>0, <2>1 DEF Bound
    <2>3. CASE base' = [base EXCEPT ![h.sid] = h.uid] /\ Go(h, "login_setbase", h.uid, 0)
        <3>1. base'[h.sid] = h.uid
            BY <1>0, <2>3 DEF TypeOK
        <3>2. Touches(h.sid)
            BY <2>1, <2>3 DEF Touches, TypeOK
        <3>3. ASSUME NEW g \in running', g.sid = h.sid PROVE Knows(g)'
            <4>1. g.at = "login_setbase" /\ g.uid = h.uid
                BY <2>3, <3>3, GoesOn
            <4> QED BY <1>1, <2>1, <3>1, <3>3, <4>1
                    DEF Knows, AtLogin, AsBound, AtClose, Closing, MayBeNobody
        <3> QED BY <1>0, <1>1, <2>1, <2>2, <2>3, <3>2, <3>3, GoesOn, StepOfOne
    <2>4. CASE End(h) /\ UNCHANGED base
        BY <1>1, <2>1, <2>4, QuietEnd
    <2> QED BY <1>4, <2>3, <2>4 DEF LoginUser
<1>5. CASE LoginSetBase(h)
    <2>1. /\ base[h.sid] = h.uid /\ bind[h.uid] = NoSid /\ UNCHANGED <<where, player, base>>
          /\ bind' = [bind EXCEPT ![h.uid] = h.sid] /\ Go(h, "login_setbind", h.uid, 0)
        BY <1>0, <1>5 DEF LoginSetBase, AtLogin
    <2>2. bind'[h.uid] = h.sid /\ \A u \in Uids : u # h.uid => bind'[u] = bind[u]
        BY <1>1, <2>1 DEF TypeOK
    <2>3. Touches(h.sid)
        BY <1>5, <2>1, <2>2 DEF Touches, LoginSetBase
    <2>4. ASSUME NEW g \in running', g.sid = h.sid PROVE Knows(g)'
        <3>1. g.at = "login_setbind" /\ g.uid = h.uid
            BY <2>1, <2>4, GoesOn
        <3> QED BY <1>1, <2>1, <2>2, <2>4, <3>1
                DEF Knows, AtLogin, AsBound, AtClose, Closing, MayBeNobody, Bound
    <2>5. \A u \in Uids : bind'[u] = h.sid => base'[h.sid] = u
        BY <1>0, <2>1, <2>2
    <2>6. player'[h.sid] # NoPlayer => Bound(h.sid, player[h.sid].uid)'
        <3>1. player[h.sid] # NoPlayer => player[h.sid].uid = h.uid
            BY <1>0, <2>1 DEF Bound
        <3> QED BY <2>1, <2>2, <3>1 DEF Bound
    <2> QED BY <1>0, <1>1, <2>1, <2>3, <2>4, <2>5, <2>6, GoesOn, StepOfOne
<1>6. CASE LoginSetBind(h)
    <2>1. Go(h, "login_gen", h.uid, gen[h.uid]) /\ Bound(h.sid, h.uid)
        BY <1>0, <1>6 DEF LoginSetBind, AsBound
    <2>2. ASSUME NEW g, g.sid = h.sid, g.at = "login_gen", g.uid = h.uid, g.n = gen[h.uid]
          PROVE  Knows(g)
        BY <1>1, <2>1, <2>2 DEF Knows, AtLogin, AsBound, AtClose, Closing, MayBeNobody
    <2> QED BY <1>1, <1>6, <2>1, <2>2, QuietGo DEF LoginSetBind
<1>7. CASE LoginGen(h)
    <2>1. Bound(h.sid, h.uid) /\ End(h) /\ UNCHANGED <<where, base, bind>>
        BY <1>0, <1>7 DEF LoginGen, AsBound
    <2>2. \A t \in Sids : player'[t] = player[t] \/ (t = h.sid /\ player'[t].uid = h.uid)
        BY <1>7 DEF LoginGen, SetPlayer, TypeOK
    <2>3. Touches(h.sid)
        BY <2>1, <2>2 DEF Touches
    <2>4. player'[h.sid] # NoPlayer => Bound(h.sid, player[h.sid].uid)'
        BY <1>0, <2>1, <2>2 DEF Bound
    <2>5. base'[h.sid] = h.uid /\ Bound(h.sid, h.uid)'
        BY <2>1 DEF Bound
    <2> QED BY <1>0, <1>1, <2>1, <2>3, <2>4, <2>5, Ends, StepOfOne
<1> QED BY <1>2, <1>3, <1>4, <1>5, <1>6, <1>7

LEMMA CreateBound ==
    ASSUME TypeOK, PInv, NEW h \in running,
           CreateBase(h) \/ CreateGen(h) \/ CreateId(h) \/ CreateSet(h)
    PROVE  PInv'
<1>0. /\ h.sid \in Sids /\ h.uid \in Uids \cup {Nobody} /\ h.n \in Nat
      /\ h.at \notin MayBeNobody => h.uid \in Uids
      /\ NoSid \notin Sids /\ Nobody \notin Uids
      /\ AtLogin(h) /\ AsBound(h) /\ AtClose(h)
      /\ \A u \in Uids : bind[u] = h.sid => base[h.sid] = u
      /\ player[h.sid] # NoPlayer => Bound(h.sid, player[h.sid].uid)
      /\ player[h.sid] # NoPlayer => player[h.sid].uid \in Uids
    BY OwnFacts
<1>1. h.at \notin Closing /\ where[h.sid] # "closed"
    BY <1>0 DEF CreateBase, CreateGen, CreateId, CreateSet, Closing, AtClose
<1>2. h.uid # Nobody => Bound(h.sid, h.uid)
    BY <1>0 DEF CreateBase, CreateGen, CreateId, CreateSet, AsBound, MayBeNobody
\* One of the stages of a user who is bound.
<1>3. ASSUME NEW stage \in {"create_gen", "create_id", "create_set"}, NEW n,
             Go(h, stage, h.uid, n), UNCHANGED <<where, player, base, bind>>, h.uid # Nobody
      PROVE  PInv'
    <2>1. ASSUME NEW g, g.sid = h.sid, g.at = stage, g.uid = h.uid, g.n = n PROVE Knows(g)
        BY <1>1, <1>2, <1>3, <2>1 DEF Knows, AtLogin, AsBound, AtClose, Closing, MayBeNobody
    <2> QED BY <1>1, <1>3, <2>1, QuietGo
<1>4. CASE CreateBase(h)
    <2>1. CASE h.uid # Nobody
        <3>1. Go(h, "create_gen", h.uid, gen[h.uid]) /\ UNCHANGED <<where, player, base, bind>>
            BY <1>4, <2>1 DEF CreateBase
        <3> QED BY <1>3, <2>1, <3>1
    <2>2. CASE h.uid = Nobody
        BY <1>0, <1>1, <1>4, <2>2, QuietEnd DEF CreateBase, AsBound, MayBeNobody
    <2> QED BY <2>1, <2>2
<1>5. CASE CreateGen(h)
    <2>1. h.uid # Nobody /\ UNCHANGED <<where, player, base, bind>>
        BY <1>0, <1>5 DEF CreateGen, MayBeNobody
    <2>2. CASE h.n = 0
        <3>1. PICK i : i = lastid' /\ Go(h, "create_id", h.uid, i)
            BY <1>5, <2>2 DEF CreateGen
        <3> QED BY <1>3, <2>1, <3>1
    <2>3. CASE h.n # 0
        BY <1>1, <1>2, <1>5, <2>1, <2>3, QuietEnd DEF CreateGen, Bound
    <2> QED BY <2>2, <2>3
<1>6. CASE CreateId(h)
    <2>1. /\ h.uid # Nobody /\ UNCHANGED <<where, player, base, bind>>
          /\ Go(h, "create_set", h.uid, h.n)
        BY <1>0, <1>6 DEF CreateId, MayBeNobody
    <2> QED BY <1>3, <2>1
<1>7. CASE CreateSet(h)
    <2>1. h.uid # Nobody /\ Bound(h.sid, h.uid) /\ End(h) /\ UNCHANGED <<where, base, bind>>
        BY <1>0, <1>2, <1>7 DEF CreateSet, MayBeNobody
    <2>2. \A t \in Sids : player'[t] = player[t] \/ (t = h.sid /\ player'[t].uid = h.uid)
        BY <1>7 DEF CreateSet, SetPlayer, TypeOK
    <2>3. Touches(h.sid)
        BY <2>1, <2>2 DEF Touches
    <2>4. player'[h.sid] # NoPlayer => Bound(h.sid, player[h.sid].uid)'
        BY <1>0, <2>1, <2>2 DEF Bound
    <2>5. base'[h.sid] = h.uid /\ Bound(h.sid, h.uid)'
        BY <2>1 DEF Bound
    <2> QED BY <1>0, <1>1, <2>1, <2>3, <2>4, <2>5, Ends, StepOfOne
<1> QED BY <1>4, <1>5, <1>6, <1>7

LEMMA EnterBound ==
    ASSUME TypeOK, PInv, NEW h \in running,
           LeaveFlush(h) \/ EnterBase(h) \/ EnterFirstin(h)
    PROVE  PInv'
<1>0. /\ h.sid \in Sids /\ h.uid \in Uids \cup {Nobody} /\ h.n \in Nat
      /\ h.at \notin MayBeNobody => h.uid \in Uids
      /\ NoSid \notin Sids /\ Nobody \notin Uids
      /\ AtLogin(h) /\ AsBound(h) /\ AtClose(h)
      /\ \A u \in Uids : bind[u] = h.sid => base[h.sid] = u
      /\ player[h.sid] # NoPlayer => Bound(h.sid, player[h.sid].uid)
      /\ player[h.sid] # NoPlayer => player[h.sid].uid \in Uids
    BY OwnFacts
<1>1. h.at \notin Closing /\ where[h.sid] # "closed"
    BY <1>0 DEF LeaveFlush, EnterBase, EnterFirstin, Closing, AtClose
<1>2. CASE LeaveFlush(h)
    <2>1. /\ Bound(h.sid, h.uid) /\ UNCHANGED <<base, bind>>
          /\ Go(h, "enter_base", h.uid, 0)
        BY <1>0, <1>2 DEF LeaveFlush, AsBound, Bound
    <2>2. /\ where' = [where EXCEPT ![h.sid] = "world"]
          /\ player' = [player EXCEPT ![h.sid] = NoPlayer]
        BY <1>2 DEF LeaveFlush
    <2>3. where'[h.sid] = "world" /\ player'[h.sid] = NoPlayer
        BY <1>0, <2>2 DEF TypeOK
    <2>4. Touches(h.sid)
        BY <2>1, <2>2 DEF Touches, TypeOK
    <2>5. ASSUME NEW g \in running', g.sid = h.sid PROVE Knows(g)'
        <3>1. g.at = "enter_base" /\ g.uid = h.uid
            BY <2>1, <2>5, GoesOn
        <3> QED BY <2>1, <2>3, <2>5, <3>1
                DEF Knows, AtLogin, AsBound, AtClose, Closing, MayBeNobody, Bound
    <2> QED BY <1>0, <1>1, <2>1, <2>3, <2>4, <2>5, GoesOn, StepOfOne
<1>3. CASE EnterBase(h)
    <2>1. CASE h.uid # Nobody
        <3>1. /\ Bound(h.sid, h.uid) /\ UNCHANGED <<where, bind>>
              /\ Go(h, "enter_firstin", h.uid, 0)
              /\ SetPlayer(h.sid, "world", [uid |-> h.uid, pid |-> gen[h.uid], ses |-> TRUE])
            BY <1>0, <1>3, <2>1 DEF EnterBase, AsBound, MayBeNobody
        <3>2. base' = base
            BY <1>0, <1>3, <2>1, <3>1 DEF EnterBase, Bound, TypeOK
        <3>3. \A t \in Sids : player'[t] = player[t] \/ (t = h.sid /\ player'[t].uid = h.uid)
            BY <3>1 DEF SetPlayer, TypeOK
        <3>4. Touches(h.sid)
            BY <3>1, <3>2, <3>3 DEF Touches
        <3>5. player'[h.sid] # NoPlayer => Bound(h.sid, player[h.sid].uid)'
            BY <1>0, <3>1, <3>2, <3>3 DEF Bound
        <3>6. ASSUME NEW g \in running', g.sid = h.sid PROVE Knows(g)'
            <4>1. g.at = "enter_firstin" /\ g.uid = h.uid
                BY <3>1, <3>6, GoesOn
            <4> QED BY <1>1, <3>1, <3>2, <3>6, <4>1
                    DEF Knows, AtLogin, AsBound, AtClose, Closing, MayBeNobody, Bound
        <3> QED BY <1>0, <1>1, <3>1, <3>2, <3>4, <3>5, <3>6, GoesOn, StepOfOne
    <2>2. CASE h.uid = Nobody
        BY <1>0, <1>1, <1>3, <2>2, QuietEnd DEF EnterBase, AsBound, MayBeNobody
    <2> QED BY <2>1, <2>2
<1>4. CASE EnterFirstin(h)
    BY <1>0, <1>1, <1>4, QuietEnd DEF EnterFirstin, AsBound, Bound
<1> QED BY <1>2, <1>3, <1>4

LEMMA ClearBound ==
    ASSUME TypeOK, PInv, NEW h \in running, CloseFlush(h) \/ ClearBase(h) \/ ClearBind(h)
    PROVE  PInv'
<1>0. /\ h.sid \in Sids /\ h.uid \in Uids \cup {Nobody} /\ h.n \in Nat
      /\ h.at \notin MayBeNobody => h.uid \in Uids
      /\ NoSid \notin Sids /\ Nobody \notin Uids
      /\ AtLogin(h) /\ AsBound(h) /\ AtClose(h)
      /\ \A u \in Uids : bind[u] = h.sid => base[h.sid] = u
      /\ player[h.sid] # NoPlayer => Bound(h.sid, player[h.sid].uid)
      /\ player[h.sid] # NoPlayer => player[h.sid].uid \in Uids
    BY OwnFacts
<1>1. where[h.sid] = "closed"
    BY <1>0 DEF CloseFlush, ClearBase, ClearBind, Closing, AtClose
\* A handler of a close is nobody's rival.
<1>2. ASSUME NEW stage \in Closing, NEW u, NEW n, Go(h, stage, u, n)
      PROVE  \A g \in running' : g.sid = h.sid => Alone(g)
    BY <1>2, GoesOn DEF Alone
<1>3. CASE CloseFlush(h)
    <2>1. /\ Bound(h.sid, h.uid) /\ UNCHANGED <<where, base, bind>>
          /\ Go(h, "clear_base", base[h.sid], 0)
          /\ player' = [player EXCEPT ![h.sid] = NoPlayer]
        BY <1>0, <1>3 DEF CloseFlush, AsBound
    <2>2. player'[h.sid] = NoPlayer /\ base[h.sid] = h.uid
        BY <1>0, <2>1 DEF TypeOK, Bound
    <2>3. Touches(h.sid)
        BY <2>1 DEF Touches, TypeOK
    <2>4. ASSUME NEW g \in running', g.sid = h.sid PROVE Knows(g)'
        <3>1. g.at = "clear_base" /\ g.uid = h.uid
            BY <2>1, <2>2, <2>4, GoesOn
        <3> QED BY <1>1, <2>1, <2>2, <2>4, <3>1
                DEF Knows, AtLogin, AsBound, AtClose, Closing, MayBeNobody, Bound
    <2>5. "clear_base" \in Closing
        BY DEF Closing
    <2> QED BY <1>0, <1>1, <1>2, <2>1, <2>2, <2>3, <2>4, <2>5, GoesOn, StepOfOne
<1>4. CASE ClearBase(h)
    <2>0. base[h.sid] = h.uid /\ player[h.sid] = NoPlayer /\ UNCHANGED <<where, player>>
        BY <1>0, <1>4 DEF ClearBase, AtClose, AsBound, MayBeNobody
    <2>1. CASE h.uid # Nobody
        <3>1. /\ Bound(h.sid, h.uid) /\ UNCHANGED base /\ h.uid \in Uids
              /\ Go(h, "clear_bind", h.uid, 0) /\ bind' = [bind EXCEPT ![h.uid] = NoSid]
            BY <1>0, <1>4, <2>1 DEF ClearBase, AsBound, MayBeNobody
        <3>2. bind'[h.uid] = NoSid /\ \A u \in Uids : u # h.uid => bind'[u] = bind[u]
            BY <3>1 DEF TypeOK
        <3>3. Touches(h.sid)
            BY <2>0, <3>1, <3>2 DEF Touches, Bound
        <3>4. ASSUME NEW g \in running', g.sid = h.sid PROVE Knows(g)'
            <4>1. g.at = "clear_bind" /\ g.uid = h.uid
                BY <3>1, <3>4, GoesOn
            <4> QED BY <1>0, <1>1, <2>0, <3>1, <3>2, <3>4, <4>1
                    DEF Knows, AtLogin, AsBound, AtClose, Closing, MayBeNobody
        <3>5. "clear_bind" \in Closing
            BY DEF Closing
        <3>6. \A u \in Uids : bind'[u] = h.sid => base'[h.sid] = u
            BY <1>0, <3>1, <3>2
        <3> QED BY <1>0, <1>2, <2>0, <3>1, <3>3, <3>4, <3>5, <3>6, GoesOn, StepOfOne
    <2>2. CASE h.uid = Nobody
        <3>1. base' = base
            BY <1>0, <1>4, <2>0, <2>2 DEF ClearBase, TypeOK
        <3> QED BY <1>4, <2>0, <2>2, <3>1, QuietEnd DEF ClearBase
    <2> QED BY <2>1, <2>2
<1>5. CASE ClearBind(h)
    <2>1. /\ base[h.sid] = h.uid /\ bind[h.uid] # h.sid /\ player[h.sid] = NoPlayer
          /\ End(h) /\ UNCHANGED <<where, player, bind>>
          /\ base' = [base EXCEPT ![h.sid] = Nobody]
        BY <1>0, <1>5 DEF ClearBind, AtClose
    <2>2. base'[h.sid] = Nobody
        BY <1>0, <2>1 DEF TypeOK
    <2>3. Touches(h.sid)
        BY <2>1 DEF Touches, TypeOK
    <2>4. \A u \in Uids : bind'[u] # h.sid
        BY <1>0, <2>1
    <2> QED BY <1>0, <2>1, <2>2, <2>3, <2>4, Ends, StepOfOne
<1> QED BY <1>3, <1>4, <1>5

-----------------------------------------------------------------------------
\* Requests: a patient client's session has no handler, nor has its user.
LEMMA RequestBound ==
    ASSUME Patient, TypeOK, PInv, NEW s \in Sids, (\E u \in Uids : Login(s, u)) \/ CreatePlayer(s)
    PROVE  PInv'
<1>0. UNCHANGED <<where, player, base, bind>> /\ where[s] = "out"
    BY DEF Login, CreatePlayer, Request
<1>1. ASSUME NEW stage, NEW u, NEW n, NEW k, Start(H(stage, s, u, n, k)), MayAct(s, u),
             \A g : g.sid = s /\ g.at = stage /\ g.uid = u /\ g.n = n => Knows(g)
      PROVE  PInv'
    <2>1. Idle(s) /\ \A g \in running : g.uid # u
        BY <1>1 DEF MayAct, Idle
    <2>2. \A g \in running' : g.sid = s => Knows(g)
        BY <1>1, <2>1, Starts
    <2>3. \A g \in running' : g.sid = s => Knows(g)'
        BY <1>0, <2>2 DEF Knows, AtLogin, AsBound, AtClose, Bound
    <2> QED BY <1>0, <1>1, <2>1, <2>3, Starts, Quiet, StepOfOne
<1>4. ASSUME NEW u, MayAct(s, u), base[s] # Nobody PROVE Bound(s, base[s])
    BY <1>4 DEF MayAct, Idle, PInv, InTables
<1>2. ASSUME NEW u \in Uids, Login(s, u) PROVE PInv'
    <2>1. PICK k : Start(H("login_base", s, u, Found(base[s] # Nobody), k)) /\ MayAct(s, u)
        BY <1>2 DEF Login
    <2>2. base[s] # Nobody => Bound(s, base[s])
        BY <1>4, <2>1
    <2>3. ASSUME NEW g, g.sid = s, g.at = "login_base", g.uid = u, g.n = Found(base[s] # Nobody)
          PROVE  Knows(g)
        BY <1>0, <2>2, <2>3 DEF Knows, AtLogin, AsBound, AtClose, Closing, MayBeNobody, Found
    <2> QED BY <1>1, <2>1, <2>3
<1>3. CASE CreatePlayer(s)
    <2>1. PICK k : Start(H("create_base", s, base[s], 0, k)) /\ MayAct(s, base[s])
        BY <1>3 DEF CreatePlayer
    <2>2. base[s] # Nobody => Bound(s, base[s])
        BY <1>4, <2>1
    <2>3. ASSUME NEW g, g.sid = s, g.at = "create_base", g.uid = base[s], g.n = 0
          PROVE  Knows(g)
        BY <1>0, <2>2, <2>3 DEF Knows, AtLogin, AsBound, AtClose, Closing, MayBeNobody
    <2> QED BY <1>1, <2>1, <2>3
<1> QED BY <1>2, <1>3

\* flush_data_to_dbobj writes what the session's data say already.
LEMMA FlushBound ==
    ASSUME TypeOK, PInv, NEW s \in Sids, player[s] # NoPlayer, Flush(s)
    PROVE  Bound(s, player[s].uid) /\ player[s].uid \in Uids /\ UNCHANGED base
<1>1. Bound(s, player[s].uid) /\ player[s].uid \in Uids
    BY DEF PInv, InTables, TypeOK
<1>2. base[s] = player[s].uid
    BY <1>1 DEF Bound
<1> QED BY <1>1, <1>2 DEF Flush, TypeOK

LEMMA MoveBound ==
    ASSUME Patient, TypeOK, PInv, NEW s \in Sids, EnterGame(s) \/ CloseSession(s)
    PROVE  PInv'
<1>1. Idle(s)
    BY DEF EnterGame, CloseSession, MayAct, Idle
<1>2. ASSUME where' = [where EXCEPT ![s] = "moving"] \/ where' = [where EXCEPT ![s] = "closed"],
             UNCHANGED <<player, base, bind>>
      PROVE  /\ Touches(s)
             /\ \A u \in Uids : bind'[u] = s => base'[s] = u
             /\ player'[s] # NoPlayer => Bound(s, player[s].uid)'
    BY <1>2 DEF Touches, TypeOK, PInv, InTables, Bound
<1>3. CASE EnterGame(s)
    <2>1. Bound(s, player[s].uid) /\ player[s].uid \in Uids /\ UNCHANGED <<player, base, bind>>
        BY <1>3, FlushBound DEF EnterGame
    <2>2. where' = [where EXCEPT ![s] = "moving"] /\ where'[s] = "moving"
        BY <1>3 DEF EnterGame, TypeOK
    <2>3. Start(H("leave_flush", s, player[s].uid, 0, 0)) /\ \A g \in running : g.uid # player[s].uid
        BY <1>3 DEF EnterGame, MayAct
    <2>4. ASSUME NEW g \in running', g.sid = s PROVE Knows(g)' /\ Alone(g)
        <3>1. g.at = "leave_flush" /\ g.uid = player[s].uid /\ Alone(g)
            BY <1>1, <2>3, <2>4, Starts
        <3> QED BY <2>1, <2>2, <2>4, <3>1
                DEF Knows, AtLogin, AsBound, AtClose, Closing, MayBeNobody, Bound
    <2> QED BY <1>1, <1>2, <2>1, <2>2, <2>3, <2>4, Starts, StepOfOne
<1>4. CASE CloseSession(s)
    <2>1. where' = [where EXCEPT ![s] = "closed"] /\ where'[s] = "closed" /\ UNCHANGED <<player, bind>>
        BY <1>4 DEF CloseSession, TypeOK
    <2>2. CASE player[s] # NoPlayer
        <3>1. Bound(s, player[s].uid) /\ UNCHANGED base
            BY <1>4, <2>2, FlushBound DEF CloseSession
        <3>2. Start(H("close_flush", s, player[s].uid, 0, 0))
            BY <1>4, <2>2 DEF CloseSession
        <3>3. ASSUME NEW g \in running', g.sid = s PROVE Knows(g)' /\ Alone(g)
            <4>1. g.at = "close_flush" /\ g.uid = player[s].uid
                BY <1>1, <3>2, <3>3, Starts
            <4> QED BY <2>1, <3>1, <3>3, <4>1
                    DEF Knows, AtLogin, AsBound, AtClose, Closing, MayBeNobody, Bound, Alone
        <3> QED BY <1>1, <1>2, <2>1, <3>1, <3>2, <3>3, Starts, StepOfOne
    <2>3. CASE player[s] = NoPlayer
        <3>1. Start(H("clear_base", s, base[s], 0, 0)) /\ UNCHANGED base
            BY <1>4, <2>3 DEF CloseSession
        <3>2. base[s] # Nobody => Bound(s, base[s])
            BY <1>1 DEF PInv, InTables
        <3>3. ASSUME NEW g \in running', g.sid = s PROVE Knows(g)' /\ Alone(g)
            <4>1. g.at = "clear_base" /\ g.uid = base[s]
                BY <1>1, <3>1, <3>3, Starts
            <4> QED BY <2>1, <2>3, <3>1, <3>2, <3>3, <4>1
                    DEF Knows, AtLogin, AsBound, AtClose, Closing, MayBeNobody, Bound, Alone
        <3> QED BY <1>1, <1>2, <2>1, <3>1, <3>3, Starts, StepOfOne
    <2> QED BY <2>2, <2>3
<1> QED BY <1>3, <1>4

LEMMA InitBound == Init => PInv
<1> SUFFICES ASSUME Init PROVE PInv
    OBVIOUS
<1>1. \A s \in Sids : base[s] = Nobody /\ player[s] = NoPlayer
    BY DEF Init
<1>2. \A u \in Uids : bind[u] \notin Sids
    BY LoginAssumption DEF Init
<1> QED BY <1>1, <1>2 DEF Init, PInv, OnePerSession, OnePerUser, InTables

LEMMA NextBound == ASSUME Patient PROVE TypeOK /\ PInv /\ [Next]_vars => PInv'
<1> SUFFICES ASSUME TypeOK, PInv, [Next]_vars PROVE PInv'
    OBVIOUS
<1>1. ASSUME NEW s \in Sids, NEW u \in Uids, Login(s, u) PROVE PInv'
    BY <1>1, RequestBound
<1>2. ASSUME NEW s \in Sids, CreatePlayer(s) \/ EnterGame(s) \/ CloseSession(s) PROVE PInv'
    BY <1>2, RequestBound, MoveBound
<1>3. ASSUME NEW h \in running, Step(h) PROVE PInv'
    BY <1>3, LoginBound, CreateBound, EnterBound, ClearBound DEF Step
<1>4. CASE UNCHANGED vars
    BY <1>4 DEF vars, PInv, OnePerSession, OnePerUser, InTables, Knows, AtLogin, AsBound, AtClose,
                Bound, Idle
<1> QED BY <1>1, <1>2, <1>3, <1>4 DEF Next

\* Clients that wait for their answers: who plays is bound and recorded, so that a
\* user plays in one session at a time (user_msgs.ts:42), and a closed session
\* gives its user back when its handlers are done (servicebase.ts:150).
THEOREM OneSessionAUser == ASSUME Patient PROVE Spec => []BoundWhilePlaying
<1>1. PInv => BoundWhilePlaying
    <2> SUFFICES ASSUME PInv, NEW s \in Sids
                 PROVE  /\ player[s] # NoPlayer => bind[player[s].uid] = s /\ base[s] = player[s].uid
                        /\ ~Online(s) /\ Idle(s) => base[s] = Nobody /\ \A u \in Uids : bind[u] # s
        BY DEF BoundWhilePlaying
    <2>1. player[s] # NoPlayer => bind[player[s].uid] = s /\ base[s] = player[s].uid
        BY DEF PInv, InTables, Bound
    <2>2. ASSUME ~Online(s), Idle(s) PROVE base[s] = Nobody /\ \A u \in Uids : bind[u] # s
        BY <2>2, LoginAssumption DEF PInv, InTables, Online
    <2> QED BY <2>1, <2>2
<1>2. AInv => TypeOK
    BY DEF AInv
<1>3. AInv /\ PInv /\ [Next]_vars => (AInv /\ PInv)'
    BY <1>2, NextInv, NextBound
<1> QED BY <1>1, <1>3, InitInv, InitBound, PTL DEF Spec
=============================================================================
