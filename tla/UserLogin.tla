------------------------------ MODULE UserLogin ------------------------------
(***************************************************************************)
(* Logging in, creating a character and logging out, over Redis.           *)
(*                                                                         *)
(* The handlers of user_msgs.ts and of servicebase read and write three    *)
(* tables of Redis one command at a time: the base data of a session, the  *)
(* session a user is bound to, and the generic data of the user's player.  *)
(* A worker's commands leave on one connection per database, in order; a   *)
(* step of a handler therefore takes the reply it awaited, runs to its     *)
(* next await and issues that command, which takes effect in the step.     *)
(* Between two steps every other handler may run.                          *)
(***************************************************************************)
EXTENDS Naturals

CONSTANTS
    Sids,      \* sessions, accepted by an outgame worker
    Uids,      \* users known to the database
    Nobody,    \* no user
    NoSid,     \* no session
    Stored,    \* Stored[u]: player id in the database at start, 0 if none
    LastId,    \* the last player id given away at start
    Patient,   \* clients wait for every answer before they go on
    MaxCalls   \* bound: MaxCalls[s] requests of session s

ASSUME LoginAssumption ==
    /\ Nobody \notin Uids
    /\ NoSid \notin Sids
    /\ LastId \in Nat
    /\ Stored \in [Uids -> 0..LastId]
    /\ \A u, v \in Uids : u # v /\ Stored[u] # 0 => Stored[u] # Stored[v]
    /\ Patient \in BOOLEAN
    /\ MaxCalls \in [Sids -> Nat]

VARIABLES
    where,    \* "out", "moving", "world" or "closed"
    player,   \* player object of a session in the service it is in
    base,     \* Redis session db: base_<sid>, the user logged in
    bind,     \* Redis session db: __bindsid_<uid>
    gen,      \* Redis player db: generic_<uid>, its player id
    lastid,   \* Redis uniquename db: autoinc_playerid
    running,  \* handlers that await a reply
    calls,    \* requests of a session so far
    proven    \* history: users a session has shown the token of

vars == <<where, player, base, bind, gen, lastid, running, calls, proven>>

NoPlayer == [uid |-> Nobody, pid |-> 0, ses |-> FALSE]

\* A handler awaits the command its stage names; n is what that one returned,
\* and k tells the requests of a session apart (0: not a client's request).
Stages == {"login_base", "login_bind", "login_user", "login_setbase", "login_setbind",
           "login_gen", "create_base", "create_gen", "create_id", "create_set",
           "leave_flush", "enter_base", "enter_firstin",
           "close_flush", "clear_base", "clear_bind"}
H(stage, s, u, n, k) == [at |-> stage, sid |-> s, uid |-> u, n |-> n, k |-> k]
Found(b) == IF b THEN 1 ELSE 0

Start(h) == running' = running \cup {h}
Go(h, stage, u, n) == running' = (running \ {h}) \cup {H(stage, h.sid, u, n, h.k)}
End(h) == running' = running \ {h}

\* game.create_player and _players.set; in a service the session has left, the
\* entry is one nobody reads again
SetPlayer(s, service, p) ==
    player' = IF where[s] = service THEN [player EXCEPT ![s] = p] ELSE player

\* player.flush_data_to_dbobj: the generic data, and the session's base data
\* if the player carries it
Flush(s) ==
    /\ gen' = [gen EXCEPT ![player[s].uid] = player[s].pid]
    /\ base' = IF player[s].ses THEN [base EXCEPT ![s] = player[s].uid] ELSE base

-----------------------------------------------------------------------------
Init ==
    /\ where = [s \in Sids |-> "out"]
    /\ player = [s \in Sids |-> NoPlayer]
    /\ base = [s \in Sids |-> Nobody]
    /\ bind = [u \in Uids |-> NoSid]
    /\ gen = Stored
    /\ lastid = LastId
    /\ running = {}
    /\ calls = [s \in Sids |-> 0]
    /\ proven = [s \in Sids |-> {}]

\* What a patient client waits for: the answers to its session's requests, and
\* to the requests made elsewhere as the same user.
MayAct(s, u) == Patient => \A h \in running : h.sid # s /\ h.uid # u

\* on_session_message: dispatched to a session that has no player yet
Request(s) ==
    /\ where[s] = "out"
    /\ player[s] = NoPlayer
    /\ calls[s] < MaxCalls[s]
    /\ calls' = [calls EXCEPT ![s] = @ + 1]

-----------------------------------------------------------------------------
\* user_login
Login(s, u) ==
    /\ Request(s)
    /\ MayAct(s, u)
    /\ Start(H("login_base", s, u, Found(base[s] # Nobody), calls'[s]))
    /\ UNCHANGED <<where, player, base, bind, gen, lastid, proven>>

LoginBase(h) ==
    /\ h.at = "login_base"
    /\ IF h.n = 0 THEN Go(h, "login_bind", h.uid, Found(bind[h.uid] # NoSid)) ELSE End(h)
    /\ UNCHANGED <<where, player, base, bind, gen, lastid, calls, proven>>

LoginBind(h) ==
    /\ h.at = "login_bind"
    /\ IF h.n = 0 THEN Go(h, "login_user", h.uid, 0) ELSE End(h)
    /\ UNCHANGED <<where, player, base, bind, gen, lastid, calls, proven>>

\* the user's data is there: its token is the one presented, or the login ends
LoginUser(h) ==
    /\ h.at = "login_user"
    /\ \/ /\ proven' = [proven EXCEPT ![h.sid] = @ \cup {h.uid}]
          /\ base' = [base EXCEPT ![h.sid] = h.uid]
          /\ Go(h, "login_setbase", h.uid, 0)
       \/ /\ End(h)
          /\ UNCHANGED <<proven, base>>
    /\ UNCHANGED <<where, player, bind, gen, lastid, calls>>

LoginSetBase(h) ==
    /\ h.at = "login_setbase"
    /\ bind' = [bind EXCEPT ![h.uid] = h.sid]
    /\ Go(h, "login_setbind", h.uid, 0)
    /\ UNCHANGED <<where, player, base, gen, lastid, calls, proven>>

LoginSetBind(h) ==
    /\ h.at = "login_setbind"
    /\ Go(h, "login_gen", h.uid, gen[h.uid])
    /\ UNCHANGED <<where, player, base, bind, gen, lastid, calls, proven>>

LoginGen(h) ==
    /\ h.at = "login_gen"
    /\ IF h.n # 0
       THEN SetPlayer(h.sid, "out", [uid |-> h.uid, pid |-> h.n, ses |-> TRUE])
       ELSE UNCHANGED player
    /\ End(h)
    /\ UNCHANGED <<where, base, bind, gen, lastid, calls, proven>>

-----------------------------------------------------------------------------
\* Mutant of CreatePlayer: the message names the user.
CreatePlayer_FromMessage(s) ==
    /\ Request(s)
    /\ \E u \in Uids : MayAct(s, u) /\ Start(H("create_base", s, u, 0, calls'[s]))
    /\ UNCHANGED <<where, player, base, bind, gen, lastid, proven>>

\* user_createplayer
CreatePlayer(s) ==
    /\ Request(s)
    /\ MayAct(s, base[s])
    /\ Start(H("create_base", s, base[s], 0, calls'[s]))
    /\ UNCHANGED <<where, player, base, bind, gen, lastid, proven>>

CreateBase(h) ==
    /\ h.at = "create_base"
    /\ IF h.uid # Nobody THEN Go(h, "create_gen", h.uid, gen[h.uid]) ELSE End(h)
    /\ UNCHANGED <<where, player, base, bind, gen, lastid, calls, proven>>

\* Mutant of CreateGen: the last id is read and not counted on.
CreateGen_NoIncr(h) ==
    /\ h.at = "create_gen"
    /\ IF h.n = 0 THEN Go(h, "create_id", h.uid, lastid) ELSE End(h)
    /\ UNCHANGED <<where, player, base, bind, gen, lastid, calls, proven>>

CreateGen(h) ==
    /\ h.at = "create_gen"
    /\ IF h.n = 0
       THEN /\ lastid' = lastid + 1
            /\ Go(h, "create_id", h.uid, lastid')
       ELSE /\ End(h)
            /\ UNCHANGED lastid
    /\ UNCHANGED <<where, player, base, bind, gen, calls, proven>>

CreateId(h) ==
    /\ h.at = "create_id"
    /\ gen' = [gen EXCEPT ![h.uid] = h.n]
    /\ Go(h, "create_set", h.uid, h.n)
    /\ UNCHANGED <<where, player, base, bind, lastid, calls, proven>>

CreateSet(h) ==
    /\ h.at = "create_set"
    /\ SetPlayer(h.sid, "out", [uid |-> h.uid, pid |-> h.n, ses |-> FALSE])
    /\ End(h)
    /\ UNCHANGED <<where, base, bind, gen, lastid, calls, proven>>

-----------------------------------------------------------------------------
\* enter_game: on_remove_session in the outgame worker flushes ...
EnterGame(s) ==
    /\ where[s] = "out"
    /\ player[s] # NoPlayer
    /\ MayAct(s, player[s].uid)
    /\ where' = [where EXCEPT ![s] = "moving"]
    /\ Flush(s)
    /\ Start(H("leave_flush", s, player[s].uid, 0, 0))
    /\ UNCHANGED <<player, bind, lastid, calls, proven>>

\* ... and the world worker reads the session's base data
LeaveFlush(h) ==
    /\ h.at = "leave_flush"
    /\ where' = [where EXCEPT ![h.sid] = "world"]
    /\ player' = [player EXCEPT ![h.sid] = NoPlayer]
    /\ Go(h, "enter_base", base[h.sid], 0)
    /\ UNCHANGED <<base, bind, gen, lastid, calls, proven>>

\* ... creates the player from it, and flushes firstin
EnterBase(h) ==
    /\ h.at = "enter_base"
    /\ IF h.uid # Nobody
       THEN /\ SetPlayer(h.sid, "world", [uid |-> h.uid, pid |-> gen[h.uid], ses |-> TRUE])
            /\ base' = [base EXCEPT ![h.sid] = h.uid]
            /\ Go(h, "enter_firstin", h.uid, 0)
       ELSE /\ End(h)
            /\ UNCHANGED <<player, base>>
    /\ UNCHANGED <<where, bind, gen, lastid, calls, proven>>

EnterFirstin(h) ==
    /\ h.at = "enter_firstin"
    /\ End(h)
    /\ UNCHANGED <<where, player, base, bind, gen, lastid, calls, proven>>

-----------------------------------------------------------------------------
\* on_session_close, and _do_clear_session, which nobody awaits.  A session
\* between two services has no service to close it.
CloseSession(s) ==
    /\ where[s] \in {"out", "world"}
    /\ Patient => \A h \in running : h.sid # s
    /\ where' = [where EXCEPT ![s] = "closed"]
    /\ IF player[s] # NoPlayer
       THEN /\ Flush(s)
            /\ Start(H("close_flush", s, player[s].uid, 0, 0))
       ELSE /\ Start(H("clear_base", s, base[s], 0, 0))
            /\ UNCHANGED <<gen, base>>
    /\ UNCHANGED <<player, bind, lastid, calls, proven>>

CloseFlush(h) ==
    /\ h.at = "close_flush"
    /\ player' = [player EXCEPT ![h.sid] = NoPlayer]
    /\ Go(h, "clear_base", base[h.sid], 0)
    /\ UNCHANGED <<where, base, bind, gen, lastid, calls, proven>>

\* Mutant of ClearBase: the binding of the user is left.
ClearBase_Bound(h) ==
    /\ h.at = "clear_base"
    /\ base' = [base EXCEPT ![h.sid] = Nobody]
    /\ End(h)
    /\ UNCHANGED <<where, player, bind, gen, lastid, calls, proven>>

ClearBase(h) ==
    /\ h.at = "clear_base"
    /\ IF h.uid # Nobody
       THEN /\ bind' = [bind EXCEPT ![h.uid] = NoSid]
            /\ Go(h, "clear_bind", h.uid, 0)
            /\ UNCHANGED base
       ELSE /\ base' = [base EXCEPT ![h.sid] = Nobody]
            /\ End(h)
            /\ UNCHANGED bind
    /\ UNCHANGED <<where, player, gen, lastid, calls, proven>>

ClearBind(h) ==
    /\ h.at = "clear_bind"
    /\ base' = [base EXCEPT ![h.sid] = Nobody]
    /\ End(h)
    /\ UNCHANGED <<where, player, bind, gen, lastid, calls, proven>>

-----------------------------------------------------------------------------
Step(h) ==
    \/ LoginBase(h) \/ LoginBind(h) \/ LoginUser(h)
    \/ LoginSetBase(h) \/ LoginSetBind(h) \/ LoginGen(h)
    \/ CreateBase(h) \/ CreateGen(h) \/ CreateId(h) \/ CreateSet(h)
    \/ LeaveFlush(h) \/ EnterBase(h) \/ EnterFirstin(h)
    \/ CloseFlush(h) \/ ClearBase(h) \/ ClearBind(h)

Next ==
    \/ \E s \in Sids, u \in Uids : Login(s, u)
    \/ \E s \in Sids : CreatePlayer(s) \/ EnterGame(s) \/ CloseSession(s)
    \/ \E h \in running : Step(h)

Spec == Init /\ [][Next]_vars

-----------------------------------------------------------------------------
TypeOK ==
    /\ where \in [Sids -> {"out", "moving", "world", "closed"}]
    /\ player \in [Sids -> [uid : Uids \cup {Nobody}, pid : Nat, ses : BOOLEAN]]
    /\ \A s \in Sids : player[s] # NoPlayer => player[s].uid \in Uids
    /\ base \in [Sids -> Uids \cup {Nobody}]
    /\ bind \in [Uids -> Sids \cup {NoSid}]
    /\ gen \in [Uids -> Nat]
    /\ lastid \in Nat
    /\ running \subseteq [at : Stages, sid : Sids, uid : Uids \cup {Nobody},
                    n : Nat, k : Nat]
    /\ \A h \in running :
          h.at \notin {"create_base", "enter_base", "clear_base"} => h.uid \in Uids
    /\ calls \in [Sids -> Nat]
    /\ \A s \in Sids : calls[s] <= MaxCalls[s]
    /\ proven \in [Sids -> SUBSET Uids]

Idle(s) == \A h \in running : h.sid # s
Online(s) == where[s] # "closed"

\* Whatever the order of the replies, a session plays, is recorded and is bound
\* only as a user whose token it has presented (user_msgs.ts:69).
Authenticated ==
    /\ \A s \in Sids : player[s] # NoPlayer => player[s].uid \in proven[s]
    /\ \A s \in Sids : base[s] # Nobody => base[s] \in proven[s]
    /\ \A u \in Uids : bind[u] # NoSid => u \in proven[bind[u]]

\* Player ids name players: no two users' stored players, and no two handlers
\* that are about to store one, have the same id.
UniquePlayerId ==
    /\ \A u, v \in Uids : u # v /\ gen[u] # 0 => gen[u] # gen[v]
    /\ \A h \in running : h.at = "create_id" => \A u \in Uids : gen[u] # h.n

\* Who plays is bound: its user cannot pass the check of user_login elsewhere, so it
\* plays in one session at a time (ResUserLoginedByOther, user_msgs.ts:42).
\* A closed session gives its user back (servicebase.ts:150, "clear nat.datas
\* session cache"): once its handlers are done nobody is bound to it.
BoundWhilePlaying ==
    \A s \in Sids :
        /\ player[s] # NoPlayer => bind[player[s].uid] = s /\ base[s] = player[s].uid
        /\ ~Online(s) /\ Idle(s) => base[s] = Nobody /\ \A u \in Uids : bind[u] # s
=============================================================================
