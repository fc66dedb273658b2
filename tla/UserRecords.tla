----------------------------- MODULE UserRecords -----------------------------
(***************************************************************************)
(* A user's records in Redis and the four that write them: the sign-in     *)
(* handler of the main thread, which gives a wallet its user and a token;  *)
(* the chain watcher's handlers, which note minted warrants; and the       *)
(* outgame and world workers, which read a user's documents when it comes  *)
(* and write their copies back, at times and when it leaves.               *)
(*                                                                         *)
(* A handler stops at every command it awaits.  The main thread's commands *)
(* for warrants share a connection with writes that nobody awaits: they    *)
(* are carried out in the order they were sent.                            *)
(***************************************************************************)
EXTENDS Integers, Sequences, FiniteSets

CONSTANTS
    Wallets,
    LastMint,     \* mints of warrants are numbered in the order of the chain
    To,           \* To[t]: the wallet that mint t names
    NoWallet,     \* of a call that has not come yet
    NoBase,       \* a base document that is not there
    MaxAsks,      \* bound: sign-ins
    Posts,        \* bound: handlers of the watcher at work at once
    MaxEnds       \* bound: ends of the process

ASSUME RecordsAssumption ==
    /\ LastMint \in Nat \ {0} /\ To \in [1..LastMint -> Wallets]
    /\ MaxAsks \in Nat /\ MaxEnds \in Nat

Mints == 1..LastMint
Asks == 1..MaxAsks
Uids == Asks

Base == [wallet : Wallets, token : Asks]
Warrants == SUBSET Mints
Answers == [wallet : Wallets, uid : Uids, token : Asks]

ASSUME NothingAssumption ==
    NoBase \notin Base /\ NoWallet \notin Wallets

VARIABLES
    lastuid,    \* Redis: autoinc_userid
    bound,      \* Redis: __wu_<wallet>, 0 if none
    base,       \* Redis: the base document of a user
    warrant,    \* Redis: the mints in the warrant document of a user, {} if it is not there
    recorded,   \* Redis: tx_<hash> of a mint is there
    asks,       \* on_verify_sign calls; a call's number is the token it makes
    wrote,      \* answers on their way, of calls whose document is written
    posts,      \* the watcher's _on_event_cb calls
    queue,      \* commands on the way to the player database
    place,      \* which worker has the user's player, with which documents
    ends,
    \* what happened, for the properties
    answered,   \* answers of sign-ins
    promised,   \* the token last answered for a user, until another is written
    met,        \* wallets that asked again before their first call bound a user
    shadowed,   \* users whose last token came while a worker had their document
    missed      \* wallets that had no user when a mint of theirs was posted

redis == <<lastuid, bound, base, warrant, recorded>>
calls == <<asks, wrote, answered, promised, met, shadowed>>
watcher == <<posts, queue, missed>>
vars == <<redis, calls, watcher, place, ends>>

NoAsk == [at |-> "new", wallet |-> NoWallet, uid |-> 0]
Done == [NoAsk EXCEPT !.at = "done"]
First == [at |-> "check", n |-> 1, uid |-> 0, got |-> {}]
Off == [at |-> "off", base |-> NoBase, warrant |-> {}]

Init ==
    /\ lastuid = 0
    /\ bound = [w \in Wallets |-> 0]
    /\ base = [u \in Uids |-> NoBase]
    /\ warrant = [u \in Uids |-> {}]
    /\ recorded = {}
    /\ asks = [a \in Asks |-> NoAsk]
    /\ wrote = <<>>
    /\ posts = [i \in Posts |-> First]
    /\ queue = <<>>
    /\ place = [u \in Uids |-> Off]
    /\ ends = 0
    /\ answered = {}
    /\ promised = [u \in Uids |-> 0]
    /\ met = {}
    /\ shadowed = {}
    /\ missed = {}

-----------------------------------------------------------------------------
\* on_verify_sign
AtWork(w) == {a \in Asks : asks[a].at \notin {"new", "done"} /\ asks[a].wallet = w}
Sets(a, at, uid) == asks' = [asks EXCEPT ![a].at = at, ![a].uid = uid]

Begins(a, w, at, uid) ==
    /\ asks[a].at = "new" /\ \A b \in 1..(a - 1) : asks[b].at # "new"
    /\ asks' = [asks EXCEPT ![a] = [at |-> at, wallet |-> w, uid |-> uid]]
    /\ met' = IF bound[w] = 0 /\ AtWork(w) # {} THEN met \cup {w} ELSE met
    /\ UNCHANGED <<redis, wrote, answered, promised, shadowed, watcher, place, ends>>

\* Mutant of Ask: every call makes a user.
Ask_Blind(a, w) == Begins(a, w, "number", 0)

\* up to get_wallet_userid
Ask(a, w) == Begins(a, w, IF bound[w] = 0 THEN "number" ELSE "write", bound[w])

\* Mutant of Number: the counter is read, and set when the wallet is bound.
Number_Late(a) ==
    /\ asks[a].at = "number"
    /\ lastuid' = Cardinality({w \in Wallets : bound[w] # 0})
    /\ Sets(a, "bind", lastuid' + 1)
    /\ UNCHANGED <<bound, base, warrant, recorded, wrote, answered, promised, met, shadowed,
                   watcher, place, ends>>

\* generate_autoinc_id: one command
Number(a) ==
    /\ asks[a].at = "number" /\ lastuid < MaxAsks
    /\ lastuid' = lastuid + 1
    /\ Sets(a, "bind", lastuid + 1)
    /\ UNCHANGED <<bound, base, warrant, recorded, wrote, answered, promised, met, shadowed,
                   watcher, place, ends>>

\* set_wallet_userid
Bind(a) ==
    /\ asks[a].at = "bind"
    /\ bound' = [bound EXCEPT ![asks[a].wallet] = asks[a].uid]
    /\ Sets(a, "write", asks[a].uid)
    /\ UNCHANGED <<lastuid, base, warrant, recorded, wrote, answered, promised, met, shadowed,
                   watcher, place, ends>>

\* Mutant of NewBase: a user's document is made once.
NewBase_Once(a) ==
    IF base[asks[a].uid] = NoBase THEN [wallet |-> asks[a].wallet, token |-> a]
                                 ELSE base[asks[a].uid]

NewBase(a) == [wallet |-> asks[a].wallet, token |-> a]

\* insert_data for a new user, update_data for another: the whole document
Write(a) ==
    LET u == asks[a].uid IN
    /\ asks[a].at = "write"
    /\ base' = [base EXCEPT ![u] = NewBase(a)]
    /\ wrote' = Append(wrote, [wallet |-> asks[a].wallet, uid |-> u, token |-> a])
    /\ promised' = [promised EXCEPT ![u] = 0]
    /\ shadowed' = IF place[u].base = NoBase THEN shadowed \ {u} ELSE shadowed \cup {u}
    /\ Sets(a, "answer", u)
    /\ UNCHANGED <<lastuid, bound, warrant, recorded, answered, met, watcher, place, ends>>

\* The replies come in the order of the writes.
Answer ==
    /\ wrote # <<>>
    /\ LET ans == Head(wrote) IN
          /\ answered' = answered \cup {ans}
          /\ promised' = IF \A k \in 2..Len(wrote) : wrote[k].uid # ans.uid
                         THEN [promised EXCEPT ![ans.uid] = ans.token] ELSE promised
          /\ asks' = [asks EXCEPT ![ans.token] = Done]
    /\ wrote' = Tail(wrote)
    /\ UNCHANGED <<redis, met, shadowed, watcher, place, ends>>

-----------------------------------------------------------------------------
\* _on_event_cb and _warrant_mint, for one mint after the other.  A handler that
\* is done is followed by one that begins: mints are posted again.
Goes(i, p) == posts' = [posts EXCEPT ![i] = p]
GoOn(i) == LET n == posts[i].n + 1
           IN  Goes(i, [First EXCEPT !.n = IF n \in Mints THEN n ELSE 1])

Check(i) ==
    /\ posts[i].at = "check"
    /\ IF posts[i].n \in recorded THEN GoOn(i) ELSE Goes(i, [posts[i] EXCEPT !.at = "find"])
    /\ UNCHANGED <<redis, calls, queue, missed, place, ends>>

\* A wallet without a user: the event is left out, and recorded.
Find(i) ==
    LET u == bound[To[posts[i].n]] IN
    /\ posts[i].at = "find"
    /\ IF u = 0
       THEN /\ missed' = missed \cup {To[posts[i].n]}
            /\ Goes(i, [posts[i] EXCEPT !.at = "record"])
            /\ UNCHANGED queue
       ELSE /\ Goes(i, [posts[i] EXCEPT !.at = "read", !.uid = u])
            /\ queue' = Append(queue, [op |-> "read", by |-> i, uid |-> u, doc |-> {}])
            /\ UNCHANGED missed
    /\ UNCHANGED <<redis, calls, place, ends>>

\* Redis carries out the next command of the connection.
Carry ==
    /\ queue # <<>>
    /\ LET c == Head(queue) IN
          \/ /\ c.op = "read" /\ posts[c.by].at = "read"
             /\ Goes(c.by, [posts[c.by] EXCEPT !.at = "got", !.got = warrant[c.uid]])
             /\ UNCHANGED warrant
          \/ /\ c.op = "write"
             /\ warrant' = [warrant EXCEPT ![c.uid] = c.doc]
             /\ UNCHANGED posts
    /\ queue' = Tail(queue)
    /\ UNCHANGED <<lastuid, bound, base, recorded, calls, missed, place, ends>>

Sends(i, doc) ==
    queue' = Append(queue, [op |-> "write", by |-> i, uid |-> posts[i].uid, doc |-> doc])

\* direct_mod of a user without warrants: the write is not awaited.  The session
\* looked up next is never found: Redis returns its number as text.
Grant(i) ==
    /\ posts[i].at = "got" /\ posts[i].got = {}
    /\ Sends(i, {posts[i].n})
    /\ Goes(i, [posts[i] EXCEPT !.at = "record"])
    /\ UNCHANGED <<redis, calls, missed, place, ends>>

Record(i) ==
    /\ posts[i].at = "record"
    /\ recorded' = recorded \cup {posts[i].n}
    /\ GoOn(i)
    /\ UNCHANGED <<lastuid, bound, base, warrant, calls, queue, missed, place, ends>>

-----------------------------------------------------------------------------
\* The workers.  A session of a user logs in with the token of an answer ...
LogIn(ans) ==
    LET u == ans.uid IN
    /\ place[u] = Off
    /\ base[u] # NoBase /\ base[u].token = ans.token
    /\ place' = [place EXCEPT ![u] = [at |-> "out", base |-> base[u], warrant |-> {}]]
    /\ UNCHANGED <<redis, calls, watcher, ends>>

\* ... the player's documents are written back, those that it has ...
Flushes(u) ==
    /\ base' = [base EXCEPT ![u] = place[u].base]
    /\ warrant' = IF place[u].warrant = {} THEN warrant
                  ELSE [warrant EXCEPT ![u] = place[u].warrant]
    /\ UNCHANGED <<lastuid, bound, recorded, calls, watcher, ends>>

Flush(u) ==
    /\ place[u].at \in {"out", "world"}
    /\ Flushes(u)
    /\ UNCHANGED place

\* ... also when it leaves the outgame worker, and when it logs out,
Leave(u) ==
    /\ place[u].at \in {"out", "world"}
    /\ Flushes(u)
    /\ \/ place[u].at = "out" /\ place' = [place EXCEPT ![u] = [Off EXCEPT !.at = "moving"]]
       \/ place' = [place EXCEPT ![u] = Off]

\* and read again in the world worker, unless the session closes before that.
Enter(u) ==
    /\ place[u].at = "moving"
    /\ \/ place' = [place EXCEPT ![u] =
                       [at |-> "world", base |-> base[u], warrant |-> warrant[u]]]
       \/ place' = [place EXCEPT ![u] = Off]
    /\ UNCHANGED <<redis, calls, watcher, ends>>

-----------------------------------------------------------------------------
\* Commands that were sent before the process ended are carried out, and of the
\* writes to one document the last one stays.
Written(u) == {k \in DOMAIN queue : queue[k].op = "write" /\ queue[k].uid = u}
Stays(u, k) ==
    IF Written(u) = {} THEN k = 0 ELSE k \in Written(u) /\ \A j \in Written(u) : j <= k

ProcessEnds ==
    /\ ends < MaxEnds
    /\ ends' = ends + 1
    /\ \E last \in [Uids -> 0..Len(queue)] :
          /\ \A u \in Uids : Stays(u, last[u])
          /\ warrant' = [u \in Uids |-> IF last[u] = 0 THEN warrant[u] ELSE queue[last[u]].doc]
    /\ asks' = [a \in Asks |-> IF asks[a].at = "new" THEN NoAsk ELSE Done]
    /\ wrote' = <<>>
    /\ posts' = [i \in Posts |-> First]
    /\ queue' = <<>>
    /\ place' = [u \in Uids |-> Off]
    /\ UNCHANGED <<lastuid, bound, base, recorded, answered, promised, met, shadowed, missed>>

\* Mutant of Add: the push works.
Add_Pushes(i) ==
    /\ posts[i].at = "got" /\ posts[i].got # {}
    /\ Sends(i, posts[i].got \cup {posts[i].n})
    /\ Goes(i, [posts[i] EXCEPT !.at = "record"])
    /\ UNCHANGED <<redis, calls, missed, place, ends>>

\* A user that has a warrant: _add pushes to what an array does not have, and
\* nobody handles the rejection.
Add(i) ==
    /\ posts[i].at = "got" /\ posts[i].got # {}
    /\ ProcessEnds

\* or a restart at any moment
Next ==
    \/ \E a \in Asks :
          \/ \E w \in Wallets : Ask(a, w)
          \/ Number(a) \/ Bind(a) \/ Write(a)
    \/ Answer
    \/ \E i \in Posts : Check(i) \/ Find(i) \/ Grant(i) \/ Record(i) \/ Add(i)
    \/ Carry
    \/ \E ans \in answered : LogIn(ans)
    \/ \E u \in Uids : Flush(u) \/ Leave(u) \/ Enter(u)
    \/ ProcessEnds

Spec == Init /\ [][Next]_vars
-----------------------------------------------------------------------------
AskAt == {"new", "number", "bind", "write", "answer", "done"}
PostAt == {"check", "find", "read", "got", "record"}
Numbers == 0..MaxAsks

TypeOK ==
    /\ lastuid \in Numbers
    /\ bound \in [Wallets -> Numbers]
    /\ base \in [Uids -> Base \cup {NoBase}]
    /\ warrant \in [Uids -> Warrants]
    /\ recorded \subseteq Mints
    /\ asks \in [Asks -> [at : AskAt, wallet : Wallets \cup {NoWallet}, uid : Numbers]]
    /\ wrote \in Seq(Answers)
    /\ posts \in [Posts -> [at : PostAt, n : Mints, uid : Numbers, got : Warrants]]
    /\ queue \in Seq([op : {"read", "write"}, by : Posts, uid : Uids,
                      doc : Warrants])
    /\ place \in [Uids -> [at : {"off", "out", "moving", "world"},
                           base : Base \cup {NoBase}, warrant : Warrants]]
    /\ ends \in 0..MaxEnds
    /\ answered \subseteq Answers
    /\ promised \in [Uids -> Numbers]
    /\ met \subseteq Wallets
    /\ shadowed \subseteq Uids
    /\ missed \subseteq Wallets

\* A user belongs to one wallet, however sign-ins overlap and wherever the process
\* ends: in the bindings, in the answers and in its documents, and the warrants
\* noted for it are those of its wallet (httpmsgs.ts:53, globaldata.ts:24).
Owned ==
    /\ \A v, w \in Wallets : v # w /\ bound[v] # 0 => bound[v] # bound[w]
    /\ \A a, b \in answered : a.uid = b.uid => a.wallet = b.wallet
    /\ \A u \in Uids, t \in Mints : t \in warrant[u] =>
          /\ \A w \in Wallets : bound[w] = u => w = To[t]
          /\ base[u] # NoBase => base[u].wallet = To[t]

\* Who was answered can log in: its document is there, with its wallet, and with
\* the token of the last answer until another sign-in writes, as long as that
\* answer's document was not written under the copy of a worker, which is written
\* back over it ("token from verify result", c2s_user.proto:10).
SignedIn ==
    /\ \A a \in answered : base[a.uid] # NoBase /\ base[a.uid].wallet = a.wallet
    /\ \A u \in Uids : promised[u] # 0 /\ u \notin shadowed => base[u].token = promised[u]

\* A wallet is the same user in every answer, unless it asked again while its first
\* call was still at work, whatever is cut short by an end of the process.
SameUser ==
    \A a, b \in answered : a.wallet = b.wallet /\ a.wallet \notin met => a.uid = b.uid

\* A recorded mint is in a user's document or on its way there, and stays, whatever
\* workers write back and however often it is posted, if its wallet had a user
\* whenever the watcher looked (_chainwatcher_impl.ts:66), and never two.
Minted ==
    \A t \in recorded : To[t] \notin missed \cup met =>
        \/ \E u \in Uids : t \in warrant[u]
        \/ \E k \in DOMAIN queue : t \in queue[k].doc
=============================================================================
