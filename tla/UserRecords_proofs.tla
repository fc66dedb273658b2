-------------------------- MODULE UserRecords_proofs --------------------------
(***************************************************************************)
(* UserRecords, for any wallets, mints and handlers, any number of         *)
(* sign-ins and of ends of the process: the types, that a user belongs to  *)
(* one wallet, that an answered token logs in, that a wallet is one user,  *)
(* and that a recorded mint is noted for its user and stays.               *)
(***************************************************************************)
EXTENDS UserRecords, TLAPS

AskRec == [at : AskAt, wallet : Wallets \cup {NoWallet}, uid : Numbers]
PostRec == [at : PostAt, n : Mints, uid : Numbers, got : Warrants]
Cmd == [op : {"read", "write"}, by : Posts, uid : Uids, doc : Warrants]
Place == [at : {"off", "out", "moving", "world"}, base : Base \cup {NoBase}, warrant : Warrants]

\* A call knows its wallet, and its user once it has one.
AskOK(r) ==
    /\ r.at \in {"number", "bind", "write"} => r.wallet \in Wallets
    /\ r.at \in {"bind", "write"} => r.uid \in Uids
PostOK(p) == p.at \in {"read", "got"} => p.uid \in Uids

\* The types in four parts, by who changes them.
BaseOK ==
    /\ lastuid \in Numbers /\ bound \in [Wallets -> Numbers]
    /\ base \in [Uids -> Base \cup {NoBase}]
    /\ warrant \in [Uids -> Warrants] /\ recorded \subseteq Mints
AsksOK ==
    /\ asks \in [Asks -> AskRec] /\ \A a \in Asks : AskOK(asks[a])
    /\ wrote \in Seq(Answers) /\ answered \subseteq Answers
    /\ promised \in [Uids -> Numbers] /\ met \subseteq Wallets /\ shadowed \subseteq Uids
PostsOK ==
    /\ posts \in [Posts -> PostRec] /\ \A i \in Posts : PostOK(posts[i])
    /\ queue \in Seq(Cmd) /\ missed \subseteq Wallets
RestOK == place \in [Uids -> Place] /\ ends \in 0..MaxEnds

TInv == BaseOK /\ AsksOK /\ PostsOK /\ RestOK

LEMMA TypesOf == TInv => TypeOK
BY DEF TInv, BaseOK, AsksOK, PostsOK, RestOK, TypeOK, AskRec, PostRec, Cmd, Place

LEMMA Facts ==
    /\ MaxAsks \in Nat /\ MaxEnds \in Nat /\ LastMint \in Nat \ {0}
    /\ Uids = Asks /\ Asks = 1..MaxAsks /\ Numbers = 0..MaxAsks /\ Uids \subseteq Numbers
    /\ 0 \in Numbers /\ 0 \notin Uids /\ 1 \in Mints /\ {} \in Warrants
    /\ To \in [Mints -> Wallets] /\ NoBase \notin Base /\ NoWallet \notin Wallets
BY RecordsAssumption, NothingAssumption DEF Uids, Asks, Numbers, Mints, Warrants

LEMMA Blanks ==
    /\ NoAsk \in AskRec /\ AskOK(NoAsk) /\ NoAsk.at = "new"
    /\ Done \in AskRec /\ AskOK(Done) /\ Done.at = "done"
    /\ First \in PostRec /\ PostOK(First) /\ First.at = "check"
    /\ Off \in Place /\ Off.at = "off" /\ Off.base = NoBase /\ Off.warrant = {}
<1>1. NoAsk \in AskRec /\ AskOK(NoAsk) /\ NoAsk.at = "new"
    BY Facts DEF NoAsk, AskRec, AskOK, AskAt
<1>2. Done = [at |-> "done", wallet |-> NoWallet, uid |-> 0]
    BY DEF Done, NoAsk
<1>3. Done \in AskRec /\ AskOK(Done) /\ Done.at = "done"
    BY <1>2, Facts DEF AskRec, AskOK, AskAt
<1>4. First \in PostRec /\ PostOK(First) /\ First.at = "check"
    BY Facts DEF First, PostRec, PostOK, PostAt
<1>5. Off \in Place /\ Off.at = "off" /\ Off.base = NoBase /\ Off.warrant = {}
    BY Facts DEF Off, Place
<1> QED BY <1>1, <1>3, <1>4, <1>5

LEMMA InitTypes == Init => TInv
BY Facts, Blanks DEF Init, TInv, BaseOK, AsksOK, PostsOK, RestOK

-----------------------------------------------------------------------------
\* One call that goes on to another stage.
LEMMA OneAsk ==
    ASSUME AsksOK, NEW a \in Asks, NEW at \in AskAt, NEW u \in Numbers, Sets(a, at, u),
           at \in {"number", "bind", "write"} => asks[a].wallet \in Wallets,
           at \in {"bind", "write"} => u \in Uids
    PROVE  /\ asks' \in [Asks -> AskRec] /\ \A b \in Asks : AskOK(asks'[b])
           /\ asks'[a] = [at |-> at, wallet |-> asks[a].wallet, uid |-> u]
           /\ \A b \in Asks \ {a} : asks'[b] = asks[b]
<1> DEFINE r == [at |-> at, wallet |-> asks[a].wallet, uid |-> u]
<1>1. [[asks EXCEPT ![a].at = at] EXCEPT ![a].uid = u][a] = r
    BY DEF AsksOK, AskRec
<1>2. asks'[a] = r /\ asks' \in [Asks -> [at : AskAt, wallet : Wallets \cup {NoWallet}, uid : Numbers]]
    BY <1>1 DEF AsksOK, AskRec, Sets
<1>3. \A b \in Asks \ {a} : asks'[b] = asks[b]
    BY DEF AsksOK, Sets
<1>4. AskOK(r)
    BY DEF AskOK
<1> HIDE DEF r
<1>5. \A b \in Asks : AskOK(asks'[b])
    BY <1>2, <1>3, <1>4 DEF AsksOK
<1> QED BY <1>2, <1>3, <1>5 DEF AskRec, r

\* One handler of the watcher that goes on.
LEMMA OnePost ==
    ASSUME PostsOK, NEW i \in Posts, NEW p \in PostRec, PostOK(p), Goes(i, p)
    PROVE  /\ posts' \in [Posts -> PostRec] /\ \A j \in Posts : PostOK(posts'[j])
           /\ posts'[i] = p /\ \A j \in Posts \ {i} : posts'[j] = posts[j]
BY DEF PostsOK, Goes

\* A handler that is done with a mint, or begins again.
LEMMA OneOn ==
    ASSUME PostsOK, NEW i \in Posts, GoOn(i)
    PROVE  /\ posts' \in [Posts -> PostRec] /\ \A j \in Posts : PostOK(posts'[j])
           /\ posts'[i].at = "check" /\ \A j \in Posts \ {i} : posts'[j] = posts[j]
<1> DEFINE n == posts[i].n + 1
           p == [First EXCEPT !.n = IF n \in Mints THEN n ELSE 1]
<1>1. p = [at |-> "check", n |-> IF n \in Mints THEN n ELSE 1, uid |-> 0, got |-> {}]
    BY DEF First
<1>2. p \in PostRec /\ PostOK(p) /\ p.at = "check"
    BY <1>1, Facts DEF PostRec, PostOK, PostAt
<1>3. Goes(i, p)
    BY DEF GoOn
<1> HIDE DEF p
<1> QED BY <1>2, <1>3, OnePost

-----------------------------------------------------------------------------
\* The types, action by action.
LEMMA AskTypes ==
    ASSUME TInv, NEW a \in Asks, NEW w \in Wallets, Ask(a, w)
    PROVE  TInv'
<1> DEFINE r == [at |-> IF bound[w] = 0 THEN "number" ELSE "write", wallet |-> w, uid |-> bound[w]]
<1>1. asks' = [asks EXCEPT ![a] = r] /\ met' \subseteq Wallets
    BY DEF Ask, Begins, TInv, AsksOK
<1>2. r \in AskRec /\ AskOK(r)
    BY Facts DEF AskRec, AskOK, AskAt, TInv, BaseOK
<1> HIDE DEF r
<1>3. asks' \in [Asks -> AskRec] /\ \A b \in Asks : AskOK(asks'[b])
    BY <1>1, <1>2 DEF TInv, AsksOK
<1> QED
    BY <1>1, <1>3 DEF Ask, Begins, redis, watcher, TInv, BaseOK, AsksOK, PostsOK, RestOK

LEMMA NumberTypes ==
    ASSUME TInv, NEW a \in Asks, Number(a)
    PROVE  TInv'
<1>1. lastuid' \in Uids /\ lastuid' = lastuid + 1 /\ lastuid' \in Numbers
    BY Facts DEF Number, TInv, BaseOK
<1>2. Sets(a, "bind", lastuid') /\ asks[a].wallet \in Wallets
    BY <1>1 DEF Number, TInv, AsksOK, AskOK
<1>3. asks' \in [Asks -> AskRec] /\ \A b \in Asks : AskOK(asks'[b])
    BY <1>1, <1>2, OneAsk DEF AskAt, TInv
<1> QED
    BY <1>1, <1>3 DEF Number, watcher, TInv, BaseOK, AsksOK, PostsOK, RestOK

LEMMA BindTypes ==
    ASSUME TInv, NEW a \in Asks, Bind(a)
    PROVE  TInv'
<1>1. asks[a].uid \in Uids /\ asks[a].wallet \in Wallets /\ asks[a].uid \in Numbers
    BY Facts DEF Bind, TInv, AsksOK, AskOK
<1>2. asks' \in [Asks -> AskRec] /\ \A b \in Asks : AskOK(asks'[b])
    BY <1>1, OneAsk DEF AskAt, TInv, Bind
<1> QED
    BY <1>1, <1>2 DEF Bind, watcher, TInv, BaseOK, AsksOK, PostsOK, RestOK

LEMMA WriteTypes ==
    ASSUME TInv, NEW a \in Asks, Write(a)
    PROVE  TInv'
<1> DEFINE u == asks[a].uid
           ans == [wallet |-> asks[a].wallet, uid |-> u, token |-> a]
<1>1. u \in Uids /\ asks[a].wallet \in Wallets /\ u \in Numbers
    BY Facts DEF Write, TInv, AsksOK, AskOK
<1>2. asks' \in [Asks -> AskRec] /\ \A b \in Asks : AskOK(asks'[b])
    BY <1>1, OneAsk DEF AskAt, TInv, Write
<1>3. NewBase(a) \in Base /\ ans \in Answers
    BY <1>1 DEF NewBase, Base, Answers
<1>4. base' = [base EXCEPT ![u] = NewBase(a)] /\ wrote' = Append(wrote, ans)
      /\ promised' = [promised EXCEPT ![u] = 0] /\ shadowed' \subseteq shadowed \cup {u}
    BY DEF Write
<1> HIDE DEF u, ans
<1>5. wrote' \in Seq(Answers)
    BY <1>3, <1>4 DEF TInv, AsksOK
<1>6. base' \in [Uids -> Base \cup {NoBase}] /\ promised' \in [Uids -> Numbers]
      /\ shadowed' \subseteq Uids
    BY <1>1, <1>3, <1>4, Facts DEF TInv, BaseOK, AsksOK
<1> QED
    BY <1>2, <1>5, <1>6 DEF Write, watcher, TInv, BaseOK, AsksOK, PostsOK, RestOK

LEMMA AnswerTypes ==
    ASSUME TInv, Answer
    PROVE  /\ TInv'
           /\ Head(wrote) \in Answers /\ asks' = [asks EXCEPT ![Head(wrote).token] = Done]
           /\ answered' = answered \cup {Head(wrote)} /\ wrote' = Tail(wrote) /\ wrote # <<>>
<1>1. wrote # <<>> /\ Head(wrote) \in Answers /\ Tail(wrote) \in Seq(Answers)
    BY DEF Answer, TInv, AsksOK
<1>2. /\ answered' = answered \cup {Head(wrote)} /\ wrote' = Tail(wrote)
      /\ asks' = [asks EXCEPT ![Head(wrote).token] = Done]
      /\ promised' \in {promised, [promised EXCEPT ![Head(wrote).uid] = Head(wrote).token]}
    BY DEF Answer
<1>3. Head(wrote).token \in Asks /\ Head(wrote).token \in Numbers /\ Head(wrote).uid \in Uids
    BY <1>1, Facts DEF Answers
<1>4. asks' \in [Asks -> AskRec] /\ \A b \in Asks : AskOK(asks'[b])
    BY <1>2, <1>3, Blanks DEF TInv, AsksOK
<1>5. promised' \in [Uids -> Numbers]
    BY <1>2, <1>3 DEF TInv, AsksOK
<1>6. TInv'
    BY <1>1, <1>2, <1>4, <1>5 DEF Answer, redis, watcher, TInv, BaseOK, AsksOK, PostsOK, RestOK
<1> QED BY <1>1, <1>2, <1>6

LEMMA CheckTypes ==
    ASSUME TInv, NEW i \in Posts, Check(i)
    PROVE  TInv'
<1>1. [posts[i] EXCEPT !.at = "find"] \in PostRec /\ PostOK([posts[i] EXCEPT !.at = "find"])
    BY DEF TInv, PostsOK, PostRec, PostAt, PostOK
<1>2. posts' \in [Posts -> PostRec] /\ \A j \in Posts : PostOK(posts'[j])
    BY <1>1, OnePost, OneOn DEF Check, TInv
<1> QED
    BY <1>2 DEF Check, redis, calls, TInv, BaseOK, AsksOK, PostsOK, RestOK

LEMMA FindTypes ==
    ASSUME TInv, NEW i \in Posts, Find(i)
    PROVE  TInv'
<1> DEFINE w == To[posts[i].n]
           u == bound[w]
           p == [posts[i] EXCEPT !.at = "read", !.uid = u]
           c == [op |-> "read", by |-> i, uid |-> u, doc |-> {}]
<1>1. w \in Wallets /\ u \in Numbers
    BY Facts DEF TInv, PostsOK, PostRec, BaseOK
<1>2. CASE u = 0
    <2>1. [posts[i] EXCEPT !.at = "record"] \in PostRec /\ PostOK([posts[i] EXCEPT !.at = "record"])
        BY DEF TInv, PostsOK, PostRec, PostAt, PostOK
    <2>2. posts' \in [Posts -> PostRec] /\ \A j \in Posts : PostOK(posts'[j])
        BY <1>2, <2>1, OnePost DEF Find, TInv
    <2> QED
        BY <1>1, <1>2, <2>2 DEF Find, redis, calls, TInv, BaseOK, AsksOK, PostsOK, RestOK
<1>3. CASE u # 0
    <2>1. u \in Uids
        BY <1>1, <1>3, Facts
    <2>2. posts[i] \in PostRec
        BY DEF TInv, PostsOK
    <2>3. p \in PostRec /\ PostOK(p)
        <3> DEFINE q == [posts[i] EXCEPT !.at = "read"]
        <3>1. q \in PostRec /\ q.at = "read"
            BY <2>2 DEF PostRec, PostAt
        <3>2. p = [q EXCEPT !.uid = u]
            OBVIOUS
        <3> HIDE DEF q, p, u
        <3>3. p \in PostRec /\ p.uid = u
            BY <1>1, <3>1, <3>2 DEF PostRec
        <3> QED BY <2>1, <3>3 DEF PostOK
    <2>4. Goes(i, p) /\ queue' = Append(queue, c) /\ missed' = missed
        BY <1>3 DEF Find
    <2>5. c \in Cmd
        BY <2>1, Facts DEF Cmd
    <2> HIDE DEF p, c
    <2>6. posts' \in [Posts -> PostRec] /\ \A j \in Posts : PostOK(posts'[j])
        BY <2>3, <2>4, OnePost DEF TInv
    <2>7. queue' \in Seq(Cmd)
        BY <2>4, <2>5 DEF TInv, PostsOK
    <2> QED
        BY <2>4, <2>6, <2>7 DEF Find, redis, calls, TInv, BaseOK, AsksOK, PostsOK, RestOK
<1> QED BY <1>2, <1>3

\* What Redis carries out: the head of the queue, a read or a write.
LEMMA CarryTypes ==
    ASSUME TInv, Carry
    PROVE  /\ TInv'
           /\ queue # <<>> /\ Head(queue) \in Cmd /\ queue' = Tail(queue)
           /\ \/ /\ Head(queue).op = "read" /\ posts[Head(queue).by].at = "read"
                 /\ posts'[Head(queue).by].at = "got"
                 /\ posts'[Head(queue).by].uid = posts[Head(queue).by].uid
                 /\ posts'[Head(queue).by].n = posts[Head(queue).by].n
                 /\ \A j \in Posts \ {Head(queue).by} : posts'[j] = posts[j]
                 /\ warrant' = warrant
              \/ /\ Head(queue).op = "write"
                 /\ warrant' = [warrant EXCEPT ![Head(queue).uid] = Head(queue).doc]
                 /\ posts' = posts
<1> DEFINE c == Head(queue)
           i == c.by
           q == [posts[i] EXCEPT !.at = "got"]
           p == [posts[i] EXCEPT !.at = "got", !.got = warrant[c.uid]]
<1>1. queue # <<>> /\ c \in Cmd /\ queue' = Tail(queue) /\ queue' \in Seq(Cmd)
    BY DEF Carry, TInv, PostsOK
<1>2. i \in Posts /\ c.uid \in Uids /\ c.doc \in Warrants
    BY <1>1 DEF Cmd
<1>3. CASE c.op = "read"
    <2>1. posts[i].at = "read" /\ Goes(i, p) /\ warrant' = warrant
        BY <1>3 DEF Carry
    <2>2. posts[i] \in PostRec /\ PostOK(posts[i]) /\ warrant[c.uid] \in Warrants
        BY <1>2 DEF TInv, PostsOK, BaseOK
    <2>3. q \in PostRec /\ q.at = "got" /\ q.uid = posts[i].uid /\ q.n = posts[i].n
        BY <2>2 DEF PostRec, PostAt
    <2>4. p = [q EXCEPT !.got = warrant[c.uid]]
        OBVIOUS
    <2> HIDE DEF p, q, c
    <2>5. p \in PostRec /\ p.at = "got" /\ p.uid = posts[i].uid /\ p.n = posts[i].n
        BY <2>2, <2>3, <2>4 DEF PostRec
    <2>6. PostOK(p)
        BY <2>1, <2>2, <2>5 DEF PostOK
    <2>7. /\ posts' \in [Posts -> PostRec] /\ \A j \in Posts : PostOK(posts'[j])
          /\ posts'[i] = p /\ \A j \in Posts \ {i} : posts'[j] = posts[j]
        BY <1>2, <2>1, <2>5, <2>6, OnePost DEF TInv
    <2>8. TInv'
        BY <1>1, <2>1, <2>7 DEF Carry, calls, TInv, BaseOK, AsksOK, PostsOK, RestOK
    <2> USE DEF c
    <2> QED BY <1>1, <1>3, <2>1, <2>5, <2>7, <2>8
<1>4. CASE c.op = "write"
    <2>1. warrant' = [warrant EXCEPT ![c.uid] = c.doc] /\ posts' = posts
        BY <1>4 DEF Carry
    <2>2. warrant' \in [Uids -> Warrants]
        BY <1>2, <2>1 DEF TInv, BaseOK
    <2>3. TInv'
        BY <1>1, <2>1, <2>2 DEF Carry, calls, TInv, BaseOK, AsksOK, PostsOK, RestOK
    <2> QED BY <1>1, <1>4, <2>1, <2>3
<1> QED BY <1>1, <1>3, <1>4 DEF Cmd

LEMMA GrantTypes ==
    ASSUME TInv, NEW i \in Posts, Grant(i)
    PROVE  /\ TInv'
           /\ posts[i].at = "got" /\ posts[i].n \in Mints /\ posts[i].uid \in Uids
           /\ queue' = Append(queue, [op |-> "write", by |-> i, uid |-> posts[i].uid,
                                      doc |-> {posts[i].n}])
           /\ posts'[i].at = "record" /\ \A j \in Posts \ {i} : posts'[j] = posts[j]
<1> DEFINE p == [posts[i] EXCEPT !.at = "record"]
           c == [op |-> "write", by |-> i, uid |-> posts[i].uid, doc |-> {posts[i].n}]
<1>1. posts[i].at = "got" /\ posts[i].n \in Mints /\ posts[i].uid \in Uids
    BY DEF Grant, TInv, PostsOK, PostRec, PostOK
<1>2. queue' = Append(queue, c) /\ Goes(i, p)
    BY DEF Grant, Sends
<1>3. p \in PostRec /\ PostOK(p) /\ p.at = "record"
    BY DEF TInv, PostsOK, PostRec, PostAt, PostOK
<1>4. c \in Cmd
    BY <1>1 DEF Cmd, Warrants
<1> HIDE DEF p
<1>5. /\ posts' \in [Posts -> PostRec] /\ \A j \in Posts : PostOK(posts'[j])
      /\ posts'[i] = p /\ \A j \in Posts \ {i} : posts'[j] = posts[j]
    BY <1>2, <1>3, OnePost DEF TInv
<1> HIDE DEF c
<1>6. queue' \in Seq(Cmd)
    BY <1>2, <1>4 DEF TInv, PostsOK
<1>7. TInv'
    BY <1>5, <1>6 DEF Grant, redis, calls, TInv, BaseOK, AsksOK, PostsOK, RestOK
<1> QED BY <1>1, <1>2, <1>3, <1>5, <1>7 DEF c

LEMMA RecordTypes ==
    ASSUME TInv, NEW i \in Posts, Record(i)
    PROVE  TInv'
<1>1. posts[i].n \in Mints /\ GoOn(i)
    BY DEF Record, TInv, PostsOK, PostRec
<1>2. posts' \in [Posts -> PostRec] /\ \A j \in Posts : PostOK(posts'[j])
    BY <1>1, OneOn DEF TInv
<1> QED
    BY <1>1, <1>2 DEF Record, calls, TInv, BaseOK, AsksOK, PostsOK, RestOK

-----------------------------------------------------------------------------
LEMMA LogInTypes ==
    ASSUME TInv, NEW ans \in answered, LogIn(ans)
    PROVE  /\ TInv' /\ ans.uid \in Uids
           /\ place' = [place EXCEPT ![ans.uid] =
                           [at |-> "out", base |-> base[ans.uid], warrant |-> {}]]
<1>1. ans.uid \in Uids
    BY DEF TInv, AsksOK, Answers
<1> DEFINE p == [at |-> "out", base |-> base[ans.uid], warrant |-> {}]
<1>2. p \in Place
    BY <1>1, Facts DEF Place, TInv, BaseOK
<1>3. place' = [place EXCEPT ![ans.uid] = p]
    BY DEF LogIn
<1> HIDE DEF p
<1>4. place' \in [Uids -> Place]
    BY <1>1, <1>2, <1>3 DEF TInv, RestOK
<1>5. TInv'
    BY <1>4 DEF LogIn, redis, calls, watcher, TInv, BaseOK, AsksOK, PostsOK, RestOK
<1> QED BY <1>1, <1>3, <1>5 DEF p

LEMMA FlushesTypes ==
    ASSUME TInv, NEW u \in Uids, Flushes(u)
    PROVE  base' \in [Uids -> Base \cup {NoBase}] /\ warrant' \in [Uids -> Warrants]
<1>1. place[u].base \in Base \cup {NoBase} /\ place[u].warrant \in Warrants
    BY DEF TInv, RestOK, Place
<1> QED
    BY <1>1 DEF Flushes, TInv, BaseOK

LEMMA FlushTypes ==
    ASSUME TInv, NEW u \in Uids, Flush(u)
    PROVE  TInv'
BY FlushesTypes DEF Flush, Flushes, calls, watcher, TInv, BaseOK, AsksOK, PostsOK, RestOK

LEMMA LeaveTypes ==
    ASSUME TInv, NEW u \in Uids, Leave(u)
    PROVE  /\ TInv'
           /\ place' = [place EXCEPT ![u] = Off]
              \/ place' = [place EXCEPT ![u] = [Off EXCEPT !.at = "moving"]]
<1>1. [Off EXCEPT !.at = "moving"] \in Place
    BY Facts DEF Off, Place
<1>2. /\ Flushes(u)
      /\ place' = [place EXCEPT ![u] = Off]
         \/ place' = [place EXCEPT ![u] = [Off EXCEPT !.at = "moving"]]
    BY DEF Leave
<1>3. place' \in [Uids -> Place]
    BY <1>1, <1>2, Blanks DEF TInv, RestOK
<1>4. TInv'
    BY <1>2, <1>3, FlushesTypes
    DEF Flushes, calls, watcher, TInv, BaseOK, AsksOK, PostsOK, RestOK
<1> QED BY <1>2, <1>4

LEMMA EnterTypes ==
    ASSUME TInv, NEW u \in Uids, Enter(u)
    PROVE  TInv'
<1>1. [at |-> "world", base |-> base[u], warrant |-> warrant[u]] \in Place
    BY DEF TInv, BaseOK, Place
<1>2. place' \in [Uids -> Place]
    BY <1>1, Blanks DEF Enter, TInv, RestOK
<1> QED
    BY <1>2 DEF Enter, redis, calls, watcher, TInv, BaseOK, AsksOK, PostsOK, RestOK

\* The process ends: a document that is on its way may take the place of the one
\* in Redis.
LEMMA EndTypes ==
    ASSUME TInv, ProcessEnds
    PROVE  /\ TInv'
           /\ \A u \in Uids : \/ warrant'[u] = warrant[u]
                              \/ \E k \in DOMAIN queue : queue[k].uid = u /\ warrant'[u] = queue[k].doc
<1>1. PICK last \in [Uids -> 0..Len(queue)] :
          /\ \A u \in Uids : Stays(u, last[u])
          /\ warrant' = [u \in Uids |-> IF last[u] = 0 THEN warrant[u] ELSE queue[last[u]].doc]
    BY DEF ProcessEnds
<1>2. ASSUME NEW u \in Uids
      PROVE  \/ warrant'[u] = warrant[u]
             \/ \E k \in DOMAIN queue : queue[k].uid = u /\ warrant'[u] = queue[k].doc
    <2>1. CASE last[u] = 0
        BY <1>1, <2>1
    <2>2. CASE last[u] # 0
        <3>1. last[u] \in Written(u) /\ warrant'[u] = queue[last[u]].doc
            BY <1>1, <2>2 DEF Stays
        <3> QED BY <3>1 DEF Written
    <2> QED BY <2>1, <2>2
<1>3. warrant' \in [Uids -> Warrants]
    <2>1. \A k \in DOMAIN queue : queue[k].doc \in Warrants
        <3>1. \A k \in DOMAIN queue : queue[k] \in Cmd
            BY DEF TInv, PostsOK
        <3> QED BY <3>1 DEF Cmd
    <2>2. \A u \in Uids : warrant'[u] \in Warrants
        BY <1>2, <2>1 DEF TInv, BaseOK
    <2> QED BY <1>1, <2>2
<1>4. asks' \in [Asks -> AskRec] /\ \A a \in Asks : AskOK(asks'[a])
    BY Blanks DEF ProcessEnds
<1>5. /\ posts' \in [Posts -> PostRec] /\ \A i \in Posts : PostOK(posts'[i])
      /\ place' \in [Uids -> Place]
    BY Blanks DEF ProcessEnds
<1>6. ends' \in 0..MaxEnds /\ wrote' \in Seq(Answers) /\ queue' \in Seq(Cmd)
    BY Facts DEF ProcessEnds, TInv, RestOK
<1>7. TInv'
    BY <1>3, <1>4, <1>5, <1>6 DEF ProcessEnds, TInv, BaseOK, AsksOK, PostsOK, RestOK
<1> QED BY <1>2, <1>7

LEMMA NextTypes == TInv /\ [Next]_vars => TInv'
<1> SUFFICES ASSUME TInv, [Next]_vars PROVE TInv'
    OBVIOUS
<1>1. CASE \E a \in Asks : (\E w \in Wallets : Ask(a, w)) \/ Number(a) \/ Bind(a) \/ Write(a)
    BY <1>1, AskTypes, NumberTypes, BindTypes, WriteTypes
<1>2. CASE Answer \/ Carry \/ ProcessEnds
    BY <1>2, AnswerTypes, CarryTypes, EndTypes
<1>3. CASE \E i \in Posts : Check(i) \/ Find(i) \/ Grant(i) \/ Record(i) \/ Add(i)
    BY <1>3, CheckTypes, FindTypes, GrantTypes, RecordTypes, EndTypes DEF Add
<1>4. CASE \E ans \in answered : LogIn(ans)
    BY <1>4, LogInTypes
<1>5. CASE \E u \in Uids : Flush(u) \/ Leave(u) \/ Enter(u)
    BY <1>5, FlushTypes, LeaveTypes, EnterTypes
<1>6. CASE UNCHANGED vars
    BY <1>6 DEF vars, redis, calls, watcher, TInv, BaseOK, AsksOK, PostsOK, RestOK
<1> QED BY <1>1, <1>2, <1>3, <1>4, <1>5, <1>6 DEF Next

\* Every variable keeps its type: documents, calls, commands and what workers keep.
THEOREM TypeCorrect == Spec => []TypeOK
<1>1. TInv /\ [Next]_vars => TInv'
    BY NextTypes
<1> QED BY <1>1, InitTypes, TypesOf, PTL DEF Spec

-----------------------------------------------------------------------------
\* Where a user is said to be a wallet's.
Asking(w, u) == \E a \in Asks :
    asks[a].at \in {"bind", "write"} /\ asks[a].wallet = w /\ asks[a].uid = u
Writing(w, u) == \E k \in DOMAIN wrote : wrote[k].wallet = w /\ wrote[k].uid = u
Told(w, u) == \E a \in answered : a.wallet = w /\ a.uid = u
InBase(w, u) ==
    \/ base[u] # NoBase /\ base[u].wallet = w
    \/ place[u].base # NoBase /\ place[u].base.wallet = w
InWarrant(w, u) == \E t \in Mints : (t \in warrant[u] \/ t \in place[u].warrant) /\ To[t] = w
Posting(w, u) == \E i \in Posts :
    posts[i].at \in {"read", "got"} /\ posts[i].uid = u /\ To[posts[i].n] = w
OnTheWay(w, u) == \E k \in DOMAIN queue :
    queue[k].uid = u /\ \E t \in queue[k].doc : To[t] = w

Known(w, u) ==
    \/ bound[w] = u
    \/ Asking(w, u) \/ Writing(w, u) \/ Told(w, u)
    \/ InBase(w, u) \/ InWarrant(w, u) \/ Posting(w, u) \/ OnTheWay(w, u)

OneWallet ==
    /\ \A u \in Uids : \A v, w \in Wallets : Known(v, u) /\ Known(w, u) => v = w
    /\ \A u \in Uids, w \in Wallets : Known(w, u) => u <= lastuid

OInv == TInv /\ OneWallet

LEMMA OneWalletOwned == OInv => Owned
<1> SUFFICES ASSUME OInv PROVE Owned
    OBVIOUS
<1>1. ASSUME NEW v \in Wallets, NEW w \in Wallets, v # w, bound[v] # 0
      PROVE  bound[v] # bound[w]
    BY <1>1, Facts DEF OInv, TInv, BaseOK, OneWallet, Known
<1>2. ASSUME NEW a \in answered, NEW b \in answered, a.uid = b.uid
      PROVE  a.wallet = b.wallet
    <2>1. a.uid \in Uids /\ a.wallet \in Wallets /\ b.wallet \in Wallets
        BY DEF OInv, TInv, AsksOK, Answers
    <2>2. Known(a.wallet, a.uid) /\ Known(b.wallet, a.uid)
        BY <1>2 DEF Known, Told
    <2> QED BY <2>1, <2>2 DEF OInv, OneWallet
<1>3. ASSUME NEW u \in Uids, NEW t \in Mints, t \in warrant[u]
      PROVE  /\ \A w \in Wallets : bound[w] = u => w = To[t]
             /\ base[u] # NoBase => base[u].wallet = To[t]
    <2>1. Known(To[t], u) /\ To[t] \in Wallets
        BY <1>3, Facts DEF Known, InWarrant
    <2>2. base[u] # NoBase => base[u].wallet \in Wallets /\ Known(base[u].wallet, u)
        BY DEF OInv, TInv, BaseOK, Base, Known, InBase
    <2>3. \A w \in Wallets : bound[w] = u => Known(w, u)
        BY DEF Known
    <2> QED BY <2>1, <2>2, <2>3 DEF OInv, OneWallet
<1> QED BY <1>1, <1>2, <1>3 DEF Owned

\* A step after which nothing is known that was not before.
LEMMA NothingNew ==
    ASSUME OInv, TInv', lastuid' = lastuid,
           \A u \in Uids, w \in Wallets : Known(w, u)' => Known(w, u)
    PROVE  OInv'
BY DEF OInv, OneWallet

LEMMA InitOwned == Init => OInv
<1> SUFFICES ASSUME Init PROVE OInv
    OBVIOUS
<1>1. \A u \in Uids, w \in Wallets : ~Known(w, u)
    BY Facts, Blanks
    DEF Init, Known, Asking, Writing, Told, InBase, InWarrant, Posting, OnTheWay
<1> QED BY <1>1, InitTypes DEF OInv, OneWallet

-----------------------------------------------------------------------------
\* What is known after a step, action by action.
LEMMA AskOwned ==
    ASSUME OInv, NEW a \in Asks, NEW v \in Wallets, Ask(a, v)
    PROVE  OInv'
<1>1. TInv' /\ lastuid' = lastuid
    BY AskTypes DEF OInv, Ask, Begins, redis
<1>2. ASSUME NEW u \in Uids, NEW w \in Wallets, Known(w, u)'
      PROVE  Known(w, u)
    <2> DEFINE r == [at |-> IF bound[v] = 0 THEN "number" ELSE "write", wallet |-> v,
                     uid |-> bound[v]]
    <2>1. asks' = [asks EXCEPT ![a] = r]
        BY DEF Ask, Begins
    <2>2. Asking(w, u)' => Asking(w, u) \/ bound[w] = u
        <3> SUFFICES ASSUME NEW b \in Asks, asks'[b].at \in {"bind", "write"},
                            asks'[b].wallet = w, asks'[b].uid = u
                     PROVE  Asking(w, u) \/ bound[w] = u
            BY DEF Asking
        <3>1. CASE b = a
            <4>1. asks'[b] = r
                BY <2>1, <3>1 DEF OInv, TInv, AsksOK
            <4> QED BY <4>1
        <3>2. CASE b # a
            <4>1. asks'[b] = asks[b]
                BY <2>1, <3>2 DEF OInv, TInv, AsksOK
            <4> QED BY <4>1 DEF Asking
        <3> QED BY <3>1, <3>2
    <2>3. /\ bound' = bound
          /\ Writing(w, u)' => Writing(w, u)
          /\ Told(w, u)' => Told(w, u)
          /\ InBase(w, u)' => InBase(w, u)
          /\ InWarrant(w, u)' => InWarrant(w, u)
          /\ Posting(w, u)' => Posting(w, u)
          /\ OnTheWay(w, u)' => OnTheWay(w, u)
        BY DEF Ask, Begins, redis, watcher, Writing, Told, InBase, InWarrant, Posting, OnTheWay
    <2> QED BY <1>2, <2>2, <2>3 DEF Known
<1> QED BY <1>1, <1>2, NothingNew

LEMMA NumberOwned ==
    ASSUME OInv, NEW a \in Asks, Number(a)
    PROVE  OInv'
<1> DEFINE n == lastuid + 1
           v == asks[a].wallet
<1>1. TInv' /\ lastuid' = n /\ lastuid \in Nat /\ n \in Uids
    BY NumberTypes, Facts DEF OInv, Number, TInv, BaseOK
<1>2. v \in Wallets
    BY DEF OInv, TInv, AsksOK, AskOK, Number
<1>3. ASSUME NEW u \in Uids, NEW w \in Wallets, Known(w, u)'
      PROVE  Known(w, u) \/ (u = n /\ w = v)
    <2>1. /\ asks'[a] = [at |-> "bind", wallet |-> v, uid |-> n]
          /\ \A b \in Asks \ {a} : asks'[b] = asks[b]
        <3>1. Sets(a, "bind", n) /\ n \in Numbers
            BY <1>1, Facts DEF Number
        <3> QED BY <1>1, <1>2, <3>1, OneAsk DEF OInv, TInv, AskAt
    <2>2. Asking(w, u)' => Asking(w, u) \/ (u = n /\ w = v)
        BY <2>1 DEF Asking
    <2>3. /\ bound' = bound
          /\ Writing(w, u)' => Writing(w, u)
          /\ Told(w, u)' => Told(w, u)
          /\ InBase(w, u)' => InBase(w, u)
          /\ InWarrant(w, u)' => InWarrant(w, u)
          /\ Posting(w, u)' => Posting(w, u)
          /\ OnTheWay(w, u)' => OnTheWay(w, u)
        BY DEF Number, watcher, Writing, Told, InBase, InWarrant, Posting, OnTheWay
    <2> QED BY <1>3, <2>2, <2>3 DEF Known
<1>4. \A u \in Uids, w \in Wallets : Known(w, u)' => u <= n /\ (u = n => w = v)
    BY <1>1, <1>3, Facts DEF OInv, OneWallet
<1>5. \A u \in Uids : \A w, x \in Wallets : Known(w, u)' /\ Known(x, u)' => w = x
    BY <1>1, <1>3, <1>4, Facts DEF OInv, OneWallet
<1> HIDE DEF n, v
<1> QED BY <1>1, <1>4, <1>5 DEF OInv, OneWallet

LEMMA BindOwned ==
    ASSUME OInv, NEW a \in Asks, Bind(a)
    PROVE  OInv'
<1> DEFINE v == asks[a].wallet
           x == asks[a].uid
<1>1. TInv' /\ lastuid' = lastuid
    BY BindTypes DEF OInv, Bind
<1>2. v \in Wallets /\ x \in Uids /\ x \in Numbers /\ asks[a].at = "bind"
    BY Facts DEF OInv, TInv, AsksOK, AskOK, Bind
<1>3. ASSUME NEW u \in Uids, NEW w \in Wallets, Known(w, u)'
      PROVE  Known(w, u)
    <2>1. /\ asks'[a] = [at |-> "write", wallet |-> v, uid |-> x]
          /\ \A b \in Asks \ {a} : asks'[b] = asks[b]
        <3>1. Sets(a, "write", x)
            BY DEF Bind
        <3> QED BY <1>2, <3>1, OneAsk DEF OInv, TInv, AskAt
    <2>2. Asking(w, u)' => Asking(w, u)
        BY <1>2, <2>1 DEF Asking
    <2>3. bound'[w] = u => bound[w] = u \/ Asking(w, u)
        BY <1>2 DEF Bind, OInv, TInv, BaseOK, Asking
    <2>4. /\ Writing(w, u)' => Writing(w, u)
          /\ Told(w, u)' => Told(w, u)
          /\ InBase(w, u)' => InBase(w, u)
          /\ InWarrant(w, u)' => InWarrant(w, u)
          /\ Posting(w, u)' => Posting(w, u)
          /\ OnTheWay(w, u)' => OnTheWay(w, u)
        BY DEF Bind, watcher, Writing, Told, InBase, InWarrant, Posting, OnTheWay
    <2> QED BY <1>3, <2>2, <2>3, <2>4 DEF Known
<1> QED BY <1>1, <1>3, NothingNew

LEMMA WriteOwned ==
    ASSUME OInv, NEW a \in Asks, Write(a)
    PROVE  OInv'
<1> DEFINE v == asks[a].wallet
           x == asks[a].uid
           ans == [wallet |-> v, uid |-> x, token |-> a]
<1>1. TInv' /\ lastuid' = lastuid
    BY WriteTypes DEF OInv, Write
<1>2. v \in Wallets /\ x \in Uids /\ x \in Numbers /\ asks[a].at = "write"
    BY Facts DEF OInv, TInv, AsksOK, AskOK, Write
<1>3. ASSUME NEW u \in Uids, NEW w \in Wallets, Known(w, u)'
      PROVE  Known(w, u)
    <2>1. /\ asks'[a] = [at |-> "answer", wallet |-> v, uid |-> x]
          /\ \A b \in Asks \ {a} : asks'[b] = asks[b]
        <3>1. Sets(a, "answer", x)
            BY DEF Write
        <3> QED BY <1>2, <3>1, OneAsk DEF OInv, TInv, AskAt
    <2>2. Asking(w, u)' => Asking(w, u)
        BY <2>1 DEF Asking
    <2>3. w = v /\ u = x => Asking(w, u)
        BY <1>2 DEF Asking
    <2>4. Writing(w, u)' => Writing(w, u) \/ (w = v /\ u = x)
        <3>1. wrote' = Append(wrote, ans) /\ wrote \in Seq(Answers) /\ ans \in Answers
            BY <1>2 DEF Write, OInv, TInv, AsksOK, Answers
        <3>2. /\ DOMAIN wrote' = 1..(Len(wrote) + 1) /\ DOMAIN wrote = 1..Len(wrote)
              /\ Len(wrote) \in Nat
              /\ \A k \in 1..Len(wrote) : wrote'[k] = wrote[k]
              /\ wrote'[Len(wrote) + 1] = ans
            BY <3>1
        <3> HIDE DEF ans
        <3>3. \A k \in DOMAIN wrote' : (k \in DOMAIN wrote /\ wrote'[k] = wrote[k]) \/ wrote'[k] = ans
            BY <3>2
        <3> QED BY <3>3 DEF Writing, ans
    <2>5. InBase(w, u)' => InBase(w, u) \/ (w = v /\ u = x)
        <3>1. base' = [base EXCEPT ![x] = NewBase(a)] /\ NewBase(a).wallet = v /\ place' = place
            BY DEF Write, NewBase
        <3> HIDE DEF x, v
        <3> QED BY <3>1 DEF InBase, OInv, TInv, BaseOK
    <2>6. /\ bound' = bound
          /\ Told(w, u)' => Told(w, u)
          /\ InWarrant(w, u)' => InWarrant(w, u)
          /\ Posting(w, u)' => Posting(w, u)
          /\ OnTheWay(w, u)' => OnTheWay(w, u)
        BY DEF Write, watcher, Told, InWarrant, Posting, OnTheWay
    <2> QED BY <1>3, <2>2, <2>3, <2>4, <2>5, <2>6 DEF Known
<1> QED BY <1>1, <1>3, NothingNew

LEMMA AnswerOwned ==
    ASSUME OInv, Answer
    PROVE  OInv'
<1>1. TInv' /\ lastuid' = lastuid
    BY AnswerTypes DEF OInv, Answer, redis
<1>2. ASSUME NEW u \in Uids, NEW w \in Wallets, Known(w, u)'
      PROVE  Known(w, u)
    <2>1. /\ Head(wrote) \in Answers /\ asks' = [asks EXCEPT ![Head(wrote).token] = Done]
          /\ answered' = answered \cup {Head(wrote)} /\ wrote' = Tail(wrote) /\ wrote # <<>>
        BY AnswerTypes DEF OInv
    <2>2. Asking(w, u)' => Asking(w, u)
        BY <2>1, Blanks DEF Asking, OInv, TInv, AsksOK
    <2>3. wrote \in Seq(Answers)
        BY DEF OInv, TInv, AsksOK
    <2>4. Writing(w, u)' => Writing(w, u)
        <3>1. \A k \in DOMAIN wrote' : k + 1 \in DOMAIN wrote /\ wrote'[k] = wrote[k + 1]
            BY <2>1, <2>3
        <3> QED BY <3>1 DEF Writing
    <2>5. Told(w, u)' => Told(w, u) \/ Writing(w, u)
        <3>1. 1 \in DOMAIN wrote /\ Head(wrote) = wrote[1]
            BY <2>1, <2>3
        <3> QED BY <2>1, <3>1 DEF Told, Writing
    <2>6. /\ bound' = bound
          /\ InBase(w, u)' => InBase(w, u)
          /\ InWarrant(w, u)' => InWarrant(w, u)
          /\ Posting(w, u)' => Posting(w, u)
          /\ OnTheWay(w, u)' => OnTheWay(w, u)
        BY DEF Answer, redis, watcher, InBase, InWarrant, Posting, OnTheWay
    <2> QED BY <1>2, <2>2, <2>4, <2>5, <2>6 DEF Known
<1> QED BY <1>1, <1>2, NothingNew

\* The watcher's steps change its handlers, the queue and the warrants.
LEMMA WatcherKnows ==
    ASSUME OInv, TInv', UNCHANGED <<lastuid, bound, base, asks, wrote, answered, place>>,
           \A u \in Uids, w \in Wallets :
              /\ Posting(w, u)' => Posting(w, u) \/ bound[w] = u
              /\ OnTheWay(w, u)' => OnTheWay(w, u) \/ Posting(w, u)
              /\ InWarrant(w, u)' => InWarrant(w, u) \/ OnTheWay(w, u)
    PROVE  OInv'
<1>1. ASSUME NEW u \in Uids, NEW w \in Wallets, Known(w, u)'
      PROVE  Known(w, u)
    <2>1. /\ Asking(w, u)' => Asking(w, u)
          /\ Writing(w, u)' => Writing(w, u)
          /\ Told(w, u)' => Told(w, u)
          /\ InBase(w, u)' => InBase(w, u)
        BY DEF Asking, Writing, Told, InBase
    <2> QED BY <1>1, <2>1 DEF Known
<1> QED BY <1>1, NothingNew

LEMMA CheckOwned ==
    ASSUME OInv, NEW i \in Posts, Check(i)
    PROVE  OInv'
<1>1. TInv'
    BY CheckTypes DEF OInv
<1>2. posts'[i].at \notin {"read", "got"} /\ \A j \in Posts \ {i} : posts'[j] = posts[j]
    <2>1. CASE GoOn(i)
        BY <2>1, OneOn DEF OInv, TInv
    <2>2. CASE Goes(i, [posts[i] EXCEPT !.at = "find"])
        <3>1. [posts[i] EXCEPT !.at = "find"].at = "find"
            BY DEF OInv, TInv, PostsOK, PostRec
        <3> QED BY <2>2, <3>1 DEF Goes, OInv, TInv, PostsOK
    <2> QED BY <2>1, <2>2 DEF Check
<1>3. ASSUME NEW u \in Uids, NEW w \in Wallets
      PROVE  /\ Posting(w, u)' => Posting(w, u)
             /\ OnTheWay(w, u)' => OnTheWay(w, u)
             /\ InWarrant(w, u)' => InWarrant(w, u)
    <2>1. Posting(w, u)' => Posting(w, u)
        BY <1>2 DEF Posting
    <2> QED BY <2>1 DEF Check, redis, OnTheWay, InWarrant
<1> QED BY <1>1, <1>3, WatcherKnows DEF Check, redis, calls

LEMMA FindOwned ==
    ASSUME OInv, NEW i \in Posts, Find(i)
    PROVE  OInv'
<1> DEFINE v == To[posts[i].n]
           x == bound[v]
           c == [op |-> "read", by |-> i, uid |-> x, doc |-> {}]
<1>1. TInv'
    BY FindTypes DEF OInv
<1>2. ASSUME NEW u \in Uids, NEW w \in Wallets
      PROVE  Posting(w, u)' => Posting(w, u) \/ bound[w] = u
    <2>1. posts[i] \in PostRec
        BY DEF OInv, TInv, PostsOK
    <2>2. /\ \A j \in Posts \ {i} : posts'[j] = posts[j]
          /\ posts'[i].n = posts[i].n
          /\ posts'[i].at = "record" \/ (posts'[i].at = "read" /\ posts'[i].uid = x)
        <3>1. CASE x = 0
            <4>1. [posts[i] EXCEPT !.at = "record"].at = "record"
                  /\ [posts[i] EXCEPT !.at = "record"].n = posts[i].n
                BY <2>1 DEF PostRec
            <4>2. Goes(i, [posts[i] EXCEPT !.at = "record"])
                BY <3>1 DEF Find
            <4> QED BY <4>1, <4>2 DEF Goes, OInv, TInv, PostsOK
        <3>2. CASE x # 0
            <4> DEFINE q == [posts[i] EXCEPT !.at = "read"]
            <4>1. q \in PostRec /\ q.at = "read" /\ q.n = posts[i].n
                BY <2>1 DEF PostRec, PostAt
            <4>2. Goes(i, [q EXCEPT !.uid = x])
                BY <3>2 DEF Find
            <4> HIDE DEF q, x
            <4>3. [q EXCEPT !.uid = x].at = "read" /\ [q EXCEPT !.uid = x].uid = x
                  /\ [q EXCEPT !.uid = x].n = posts[i].n
                BY <4>1 DEF PostRec
            <4> QED BY <4>2, <4>3 DEF Goes, OInv, TInv, PostsOK
        <3> QED BY <3>1, <3>2
    <2> HIDE DEF x
    <2>3. SUFFICES ASSUME NEW j \in Posts, posts'[j].at \in {"read", "got"},
                          posts'[j].uid = u, To[posts'[j].n] = w
                   PROVE  Posting(w, u) \/ bound[w] = u
        BY DEF Posting
    <2>4. CASE j = i
        BY <2>2, <2>3, <2>4 DEF x
    <2>5. CASE j # i
        BY <2>2, <2>3, <2>5 DEF Posting
    <2> QED BY <2>4, <2>5
<1>3. ASSUME NEW u \in Uids, NEW w \in Wallets
      PROVE  /\ OnTheWay(w, u)' => OnTheWay(w, u)
             /\ InWarrant(w, u)' => InWarrant(w, u)
    <2>1. queue' = queue \/ queue' = Append(queue, c)
        BY DEF Find
    <2>2. \A k \in DOMAIN queue' : (k \in DOMAIN queue /\ queue'[k] = queue[k]) \/ queue'[k] = c
        <3> HIDE DEF c
        <3> QED BY <2>1 DEF OInv, TInv, PostsOK
    <2>3. c.doc = {}
        OBVIOUS
    <2> HIDE DEF c
    <2>4. OnTheWay(w, u)' => OnTheWay(w, u)
        BY <2>2, <2>3 DEF OnTheWay
    <2> QED BY <2>4 DEF Find, redis, InWarrant
<1> QED BY <1>1, <1>2, <1>3, WatcherKnows DEF Find, redis, calls

LEMMA CarryOwned ==
    ASSUME OInv, Carry
    PROVE  OInv'
<1> DEFINE c == Head(queue)
<1>1. /\ TInv' /\ queue # <<>> /\ c \in Cmd /\ queue' = Tail(queue)
      /\ \/ /\ c.op = "read" /\ posts[c.by].at = "read" /\ posts'[c.by].uid = posts[c.by].uid
            /\ posts'[c.by].n = posts[c.by].n
            /\ \A j \in Posts \ {c.by} : posts'[j] = posts[j]
            /\ warrant' = warrant
         \/ warrant' = [warrant EXCEPT ![c.uid] = c.doc] /\ posts' = posts
    BY CarryTypes DEF OInv
<1>2. /\ \A k \in DOMAIN queue' : k + 1 \in DOMAIN queue /\ queue'[k] = queue[k + 1]
      /\ 1 \in DOMAIN queue /\ c = queue[1]
    BY <1>1 DEF OInv, TInv, PostsOK
<1> HIDE DEF c
<1>3. ASSUME NEW u \in Uids, NEW w \in Wallets
      PROVE  /\ Posting(w, u)' => Posting(w, u)
             /\ OnTheWay(w, u)' => OnTheWay(w, u)
             /\ InWarrant(w, u)' => InWarrant(w, u) \/ OnTheWay(w, u)
    <2>1. Posting(w, u)' => Posting(w, u)
        BY <1>1 DEF Posting
    <2>2. OnTheWay(w, u)' => OnTheWay(w, u)
        BY <1>2 DEF OnTheWay
    <2>3. c.uid = u => \A t \in c.doc : OnTheWay(To[t], u)
        BY <1>2 DEF OnTheWay
    <2>4. warrant'[u] = warrant[u] \/ (c.uid = u /\ warrant'[u] = c.doc)
        BY <1>1 DEF OInv, TInv, BaseOK
    <2>5. place' = place
        BY DEF Carry
    <2> QED BY <2>1, <2>2, <2>3, <2>4, <2>5 DEF InWarrant
<1> QED BY <1>1, <1>3, WatcherKnows DEF Carry, calls

LEMMA GrantOwned ==
    ASSUME OInv, NEW i \in Posts, Grant(i)
    PROVE  OInv'
<1> DEFINE c == [op |-> "write", by |-> i, uid |-> posts[i].uid, doc |-> {posts[i].n}]
<1>1. /\ TInv' /\ posts[i].at = "got" /\ queue' = Append(queue, c)
      /\ posts'[i].at = "record" /\ \A j \in Posts \ {i} : posts'[j] = posts[j]
    BY GrantTypes DEF OInv
<1>2. \A k \in DOMAIN queue' : (k \in DOMAIN queue /\ queue'[k] = queue[k]) \/ queue'[k] = c
    <2> HIDE DEF c
    <2> QED BY <1>1 DEF OInv, TInv, PostsOK
<1>3. c.uid = posts[i].uid /\ c.doc = {posts[i].n}
    OBVIOUS
<1> HIDE DEF c
<1>4. ASSUME NEW u \in Uids, NEW w \in Wallets
      PROVE  /\ Posting(w, u)' => Posting(w, u)
             /\ OnTheWay(w, u)' => OnTheWay(w, u) \/ Posting(w, u)
             /\ InWarrant(w, u)' => InWarrant(w, u)
    <2>1. Posting(w, u)' => Posting(w, u)
        BY <1>1 DEF Posting
    <2>2. OnTheWay(w, u)' => OnTheWay(w, u) \/ Posting(w, u)
        BY <1>1, <1>2, <1>3 DEF OnTheWay, Posting
    <2> QED BY <2>1, <2>2 DEF Grant, redis, InWarrant
<1> QED BY <1>1, <1>4, WatcherKnows DEF Grant, redis, calls

LEMMA RecordOwned ==
    ASSUME OInv, NEW i \in Posts, Record(i)
    PROVE  OInv'
<1>1. TInv' /\ GoOn(i)
    BY RecordTypes DEF OInv, Record
<1>2. posts'[i].at = "check" /\ \A j \in Posts \ {i} : posts'[j] = posts[j]
    BY <1>1, OneOn DEF OInv, TInv
<1>3. ASSUME NEW u \in Uids, NEW w \in Wallets
      PROVE  /\ Posting(w, u)' => Posting(w, u)
             /\ OnTheWay(w, u)' => OnTheWay(w, u)
             /\ InWarrant(w, u)' => InWarrant(w, u)
    <2>1. Posting(w, u)' => Posting(w, u)
        BY <1>2 DEF Posting
    <2> QED BY <2>1 DEF Record, OnTheWay, InWarrant
<1> QED BY <1>1, <1>3, WatcherKnows DEF Record, calls

-----------------------------------------------------------------------------
\* The workers move documents of a user between Redis and their copies.
LEMMA WorkerKnows ==
    ASSUME OInv, TInv',
           UNCHANGED <<lastuid, bound, asks, wrote, answered, posts, queue>>,
           \A u \in Uids : /\ base'[u] \in {base[u], place[u].base, NoBase}
                           /\ place'[u].base \in {base[u], place[u].base, NoBase}
                           /\ warrant'[u] \in {warrant[u], place[u].warrant, {}}
                           /\ place'[u].warrant \in {warrant[u], place[u].warrant, {}}
    PROVE  OInv'
<1>1. ASSUME NEW u \in Uids, NEW w \in Wallets, Known(w, u)'
      PROVE  Known(w, u)
    <2>1. InBase(w, u)' => InBase(w, u)
        BY DEF InBase
    <2>2. InWarrant(w, u)' => InWarrant(w, u)
        BY DEF InWarrant
    <2>3. /\ Asking(w, u)' => Asking(w, u)
          /\ Writing(w, u)' => Writing(w, u)
          /\ Told(w, u)' => Told(w, u)
          /\ Posting(w, u)' => Posting(w, u)
          /\ OnTheWay(w, u)' => OnTheWay(w, u)
        BY DEF Asking, Writing, Told, Posting, OnTheWay
    <2> QED BY <1>1, <2>1, <2>2, <2>3 DEF Known
<1> QED BY <1>1, NothingNew

LEMMA WorkersOwned ==
    ASSUME OInv, \/ \E ans \in answered : LogIn(ans)
                 \/ \E u \in Uids : Flush(u) \/ Leave(u) \/ Enter(u)
    PROVE  OInv'
<1>1. TInv /\ base \in [Uids -> Base \cup {NoBase}] /\ warrant \in [Uids -> Warrants]
      /\ place \in [Uids -> Place]
    BY DEF OInv, TInv, BaseOK, RestOK
<1>2. CASE \E ans \in answered : LogIn(ans)
    <2>1. PICK ans \in answered : LogIn(ans)
        BY <1>2
    <2>2. TInv' /\ ans.uid \in Uids
          /\ place' = [place EXCEPT ![ans.uid] =
                          [at |-> "out", base |-> base[ans.uid], warrant |-> {}]]
        BY <1>1, <2>1, LogInTypes
    <2>3. UNCHANGED <<lastuid, bound, base, warrant, asks, wrote, answered, posts, queue>>
        BY <2>1 DEF LogIn, redis, calls, watcher
    <2>4. \A u \in Uids : /\ place'[u].base \in {base[u], place[u].base}
                          /\ place'[u].warrant \in {place[u].warrant, {}}
        BY <1>1, <2>2
    <2> QED BY <2>2, <2>3, <2>4, WorkerKnows
<1>3. ASSUME NEW x \in Uids, Flushes(x)
      PROVE  /\ UNCHANGED <<lastuid, bound, asks, wrote, answered, posts, queue>>
             /\ \A u \in Uids : base'[u] \in {base[u], place[u].base}
                                /\ warrant'[u] \in {warrant[u], place[u].warrant}
    BY <1>1, <1>3 DEF Flushes, calls, watcher
<1>4. CASE \E u \in Uids : Flush(u)
    <2>1. PICK u \in Uids : Flush(u)
        BY <1>4
    <2>2. TInv' /\ Flushes(u) /\ place' = place
        BY <1>1, <2>1, FlushTypes DEF Flush
    <2> QED BY <1>3, <2>2, WorkerKnows
<1>5. CASE \E u \in Uids : Leave(u)
    <2>1. PICK u \in Uids : Leave(u)
        BY <1>5
    <2>2. TInv' /\ Flushes(u)
          /\ \/ place' = [place EXCEPT ![u] = Off]
             \/ place' = [place EXCEPT ![u] = [Off EXCEPT !.at = "moving"]]
        BY <1>1, <2>1, LeaveTypes DEF Leave
    <2>3. [Off EXCEPT !.at = "moving"].base = NoBase /\ [Off EXCEPT !.at = "moving"].warrant = {}
        BY DEF Off
    <2>4. \A v \in Uids : /\ place'[v].base \in {place[v].base, NoBase}
                          /\ place'[v].warrant \in {place[v].warrant, {}}
        BY <1>1, <2>2, <2>3, Blanks
    <2> QED BY <1>3, <2>2, <2>4, WorkerKnows
<1>6. CASE \E u \in Uids : Enter(u)
    <2>1. PICK u \in Uids : Enter(u)
        BY <1>6
    <2>2. TInv' /\ UNCHANGED <<lastuid, bound, base, warrant, asks, wrote, answered, posts, queue>>
        BY <1>1, <2>1, EnterTypes DEF Enter, redis, calls, watcher
    <2>3. \/ place' = [place EXCEPT ![u] = Off]
          \/ place' = [place EXCEPT ![u] =
                         [at |-> "world", base |-> base[u], warrant |-> warrant[u]]]
        BY <2>1 DEF Enter
    <2>4. \A v \in Uids : /\ place'[v].base \in {base[v], place[v].base, NoBase}
                          /\ place'[v].warrant \in {warrant[v], place[v].warrant, {}}
        BY <1>1, <2>3, Blanks
    <2> QED BY <2>2, <2>4, WorkerKnows
<1> QED BY <1>2, <1>4, <1>5, <1>6

LEMMA EndOwned ==
    ASSUME OInv, ProcessEnds
    PROVE  OInv'
<1>1. TInv' /\ lastuid' = lastuid
    BY EndTypes DEF OInv, ProcessEnds
<1>2. ASSUME NEW u \in Uids, NEW w \in Wallets, Known(w, u)'
      PROVE  Known(w, u)
    <2>1. ~Asking(w, u)' /\ ~Writing(w, u)' /\ ~Posting(w, u)' /\ ~OnTheWay(w, u)'
        BY Blanks DEF ProcessEnds, Asking, Writing, Posting, OnTheWay
    <2>2. InBase(w, u)' => InBase(w, u)
        BY Blanks DEF ProcessEnds, InBase
    <2>3. InWarrant(w, u)' => InWarrant(w, u) \/ OnTheWay(w, u)
        <3>1. \/ warrant'[u] = warrant[u]
              \/ \E k \in DOMAIN queue : queue[k].uid = u /\ warrant'[u] = queue[k].doc
            BY EndTypes DEF OInv
        <3>2. place'[u].warrant = {}
            BY Blanks DEF ProcessEnds
        <3> QED BY <3>1, <3>2 DEF InWarrant, OnTheWay
    <2>4. bound' = bound /\ (Told(w, u)' => Told(w, u))
        BY DEF ProcessEnds, Told
    <2> QED BY <1>2, <2>1, <2>2, <2>3, <2>4 DEF Known
<1> QED BY <1>1, <1>2, NothingNew

LEMMA NextOwned == OInv /\ [Next]_vars => OInv'
<1> SUFFICES ASSUME OInv, [Next]_vars PROVE OInv'
    OBVIOUS
<1>1. CASE \E a \in Asks : (\E w \in Wallets : Ask(a, w)) \/ Number(a) \/ Bind(a) \/ Write(a)
    BY <1>1, AskOwned, NumberOwned, BindOwned, WriteOwned
<1>2. CASE Answer \/ Carry \/ ProcessEnds
    BY <1>2, AnswerOwned, CarryOwned, EndOwned
<1>3. CASE \E i \in Posts : Check(i) \/ Find(i) \/ Grant(i) \/ Record(i) \/ Add(i)
    BY <1>3, CheckOwned, FindOwned, GrantOwned, RecordOwned, EndOwned DEF Add
<1>4. CASE \/ \E ans \in answered : LogIn(ans)
           \/ \E u \in Uids : Flush(u) \/ Leave(u) \/ Enter(u)
    BY <1>4, WorkersOwned
<1>5. CASE UNCHANGED vars
    <2>1. TInv'
        BY <1>5, NextTypes DEF OInv
    <2>2. \A u \in Uids, w \in Wallets : Known(w, u)' => Known(w, u)
        BY <1>5 DEF vars, redis, calls, watcher, Known, Asking, Writing, Told, InBase,
                    InWarrant, Posting, OnTheWay
    <2> QED BY <1>5, <2>1, <2>2, NothingNew DEF vars, redis
<1> QED BY <1>1, <1>2, <1>3, <1>4, <1>5 DEF Next

\* A user belongs to one wallet, wherever it is named, for any number of sign-ins,
\* mints, handlers and ends of the process.
THEOREM UserIsOwned == Spec => []Owned
<1>1. OInv /\ [Next]_vars => OInv'
    BY NextOwned
<1> QED BY <1>1, InitOwned, OneWalletOwned, PTL DEF Spec

-----------------------------------------------------------------------------
\* The documents of who was answered, in Redis and in the workers.
There ==
    /\ \A a \in answered : base[a.uid] # NoBase
    /\ \A k \in DOMAIN wrote : base[wrote[k].uid] # NoBase
    /\ \A u \in Uids : /\ place[u].at \in {"out", "world"} => place[u].base # NoBase
                       /\ place[u].at = "moving" => base[u] # NoBase
Same == \A u \in Uids \ shadowed : place[u].base # NoBase => place[u].base = base[u]
LastWrite(k) == \A j \in DOMAIN wrote : j > k => wrote[j].uid # wrote[k].uid
Fresh == \A k \in DOMAIN wrote :
    LastWrite(k) /\ wrote[k].uid \notin shadowed => base[wrote[k].uid].token = wrote[k].token
Kept == \A u \in Uids \ shadowed : promised[u] # 0 => base[u].token = promised[u]

SInv == There /\ Same /\ Fresh /\ Kept

LEMMA SignedInHolds == OInv /\ SInv => SignedIn
<1> SUFFICES ASSUME OInv, SInv PROVE SignedIn
    OBVIOUS
<1>1. ASSUME NEW a \in answered
      PROVE  base[a.uid] # NoBase /\ base[a.uid].wallet = a.wallet
    <2>1. a.uid \in Uids /\ a.wallet \in Wallets
        BY DEF OInv, TInv, AsksOK, Answers
    <2>2. base[a.uid] # NoBase
        BY DEF SInv, There
    <2>3. base[a.uid].wallet \in Wallets
        BY <2>1, <2>2 DEF OInv, TInv, BaseOK, Base
    <2>4. Known(a.wallet, a.uid) /\ Known(base[a.uid].wallet, a.uid)
        BY <2>2 DEF Known, Told, InBase
    <2> QED BY <2>1, <2>2, <2>3, <2>4 DEF OInv, OneWallet
<1> QED BY <1>1 DEF SignedIn, SInv, Kept

LEMMA InitSigned == Init => SInv
BY Blanks DEF Init, SInv, There, Same, Fresh, Kept

\* Steps that leave documents, answers and copies alone.
LEMMA SignedStays ==
    ASSUME SInv, UNCHANGED <<base, wrote, answered, promised, shadowed, place>>
    PROVE  SInv'
BY DEF SInv, There, Same, Fresh, Kept, LastWrite

LEMMA WriteSigned ==
    ASSUME OInv, SInv, NEW a \in Asks, Write(a)
    PROVE  SInv'
<1> DEFINE x == asks[a].uid
           ans == [wallet |-> asks[a].wallet, uid |-> x, token |-> a]
           b == NewBase(a)
<1>1. x \in Uids /\ asks[a].wallet \in Wallets
    BY Facts DEF OInv, TInv, AsksOK, AskOK, Write
<1>2. b \in Base /\ b # NoBase /\ b.token = a /\ ans.uid = x /\ ans.token = a /\ ans \in Answers
    BY <1>1, Facts DEF NewBase, Base, Answers
<1>3. /\ base' = [base EXCEPT ![x] = b] /\ wrote' = Append(wrote, ans)
      /\ promised' = [promised EXCEPT ![x] = 0]
      /\ shadowed' = IF place[x].base = NoBase THEN shadowed \ {x} ELSE shadowed \cup {x}
      /\ answered' = answered /\ place' = place
    BY DEF Write
<1> HIDE DEF x, ans, b
<1>4. /\ base'[x] = b /\ \A u \in Uids \ {x} : base'[u] = base[u]
      /\ promised'[x] = 0 /\ \A u \in Uids \ {x} : promised'[u] = promised[u]
      /\ \A u \in Uids \ {x} : u \in shadowed' <=> u \in shadowed
    BY <1>1, <1>3 DEF OInv, TInv, BaseOK, AsksOK
<1>5. /\ Len(wrote) \in Nat /\ DOMAIN wrote = 1..Len(wrote)
      /\ DOMAIN wrote' = 1..(Len(wrote) + 1)
      /\ \A k \in DOMAIN wrote : wrote'[k] = wrote[k] /\ wrote[k].uid \in Uids
      /\ wrote'[Len(wrote) + 1] = ans
    <2>1. wrote \in Seq(Answers)
        BY DEF OInv, TInv, AsksOK
    <2>2. \A k \in DOMAIN wrote : wrote[k] \in Answers
        BY <2>1
    <2> QED BY <1>2, <1>3, <2>1, <2>2 DEF Answers
<1>6. There'
    <2>1. \A u \in Uids : base[u] # NoBase => base'[u] # NoBase
        BY <1>2, <1>4
    <2>2. \A c \in answered : c.uid \in Uids
        BY DEF OInv, TInv, AsksOK, Answers
    <2>3. \A k \in DOMAIN wrote' : base'[wrote'[k].uid] # NoBase
        BY <1>2, <1>4, <1>5, <2>1 DEF SInv, There
    <2> QED BY <1>3, <2>1, <2>2, <2>3 DEF SInv, There
<1>7. Same'
    BY <1>3, <1>4 DEF SInv, Same
<1>8. Fresh'
    <2> SUFFICES ASSUME NEW k \in DOMAIN wrote', LastWrite(k)', wrote'[k].uid \notin shadowed'
                 PROVE  base'[wrote'[k].uid].token = wrote'[k].token
        BY DEF Fresh
    <2>1. CASE k = Len(wrote) + 1
        BY <1>2, <1>4, <1>5, <2>1
    <2>2. CASE k \in DOMAIN wrote
        <3>1. wrote[k].uid # x
            BY <1>2, <1>5, <2>2 DEF LastWrite
        <3>2. LastWrite(k)
            BY <1>5, <2>2 DEF LastWrite
        <3> QED BY <1>4, <1>5, <2>2, <3>1, <3>2 DEF SInv, Fresh
    <2> QED BY <1>5, <2>1, <2>2
<1>9. Kept'
    BY <1>4 DEF SInv, Kept
<1> QED BY <1>6, <1>7, <1>8, <1>9 DEF SInv

LEMMA AnswerSigned ==
    ASSUME OInv, SInv, Answer
    PROVE  SInv'
<1> DEFINE h == Head(wrote)
<1>1. /\ h \in Answers /\ wrote # <<>> /\ wrote' = Tail(wrote) /\ answered' = answered \cup {h}
      /\ UNCHANGED <<base, shadowed, place>>
    BY AnswerTypes DEF OInv, Answer, redis
<1>2. /\ DOMAIN wrote = 1..Len(wrote) /\ Len(wrote) \in Nat \ {0} /\ h = wrote[1]
      /\ DOMAIN wrote' = 1..(Len(wrote) - 1)
      /\ \A k \in DOMAIN wrote' : wrote'[k] = wrote[k + 1]
    BY <1>1 DEF OInv, TInv, AsksOK
<1>3. \/ promised' = promised
      \/ /\ promised' = [promised EXCEPT ![h.uid] = h.token]
         /\ \A k \in 2..Len(wrote) : wrote[k].uid # h.uid
    BY DEF Answer
<1> HIDE DEF h
<1>4. There'
    <2>1. base[h.uid] # NoBase
        BY <1>2 DEF SInv, There
    <2>2. \A k \in DOMAIN wrote' : base[wrote'[k].uid] # NoBase
        BY <1>2 DEF SInv, There
    <2> QED BY <1>1, <2>1, <2>2 DEF SInv, There
<1>5. Fresh'
    <2> SUFFICES ASSUME NEW k \in DOMAIN wrote', LastWrite(k)', wrote'[k].uid \notin shadowed
                 PROVE  base[wrote'[k].uid].token = wrote'[k].token
        BY <1>1 DEF Fresh
    <2>1. k + 1 \in DOMAIN wrote /\ LastWrite(k + 1)
        <3> SUFFICES ASSUME NEW j \in DOMAIN wrote, j > k + 1
                     PROVE  wrote[j].uid # wrote[k + 1].uid
            BY <1>2 DEF LastWrite
        <3>1. j - 1 \in DOMAIN wrote' /\ j - 1 > k /\ wrote'[j - 1] = wrote[j]
            BY <1>2
        <3> QED BY <1>2, <3>1 DEF LastWrite
    <2> QED BY <1>2, <2>1 DEF SInv, Fresh
<1>6. Kept'
    <2>1. CASE promised' = promised
        BY <1>1, <2>1 DEF SInv, Kept
    <2>2. CASE /\ promised' = [promised EXCEPT ![h.uid] = h.token]
               /\ \A k \in 2..Len(wrote) : wrote[k].uid # h.uid
        <3>1. 1 \in DOMAIN wrote /\ LastWrite(1)
            BY <1>2, <2>2 DEF LastWrite
        <3>2. h.uid \notin shadowed => base[h.uid].token = h.token
            BY <1>2, <3>1 DEF SInv, Fresh
        <3> QED BY <1>1, <2>2, <3>2 DEF SInv, Kept, OInv, TInv, AsksOK
    <2> QED BY <1>3, <2>1, <2>2
<1> QED BY <1>1, <1>4, <1>5, <1>6 DEF SInv, Same

\* A worker reads a document that is there, and puts back the same unless the user
\* has got another token meanwhile.
LEMMA PlaceSigned ==
    ASSUME OInv, SInv, NEW u \in Uids, NEW p \in Place, UNCHANGED <<wrote, answered, promised, shadowed>>,
           place' = [place EXCEPT ![u] = p],
           base' = base \/ (base' = [base EXCEPT ![u] = place[u].base] /\ place[u].base # NoBase),
           p.at \in {"out", "world"} => p.base # NoBase,
           p.at = "moving" => base'[u] # NoBase,
           p.base # NoBase => p.base = base'[u] \/ (p = place[u] /\ base' # base)
    PROVE  SInv'
<1>1. /\ place \in [Uids -> Place] /\ base \in [Uids -> Base \cup {NoBase}]
      /\ \A a \in answered : a.uid \in Uids
    BY DEF OInv, TInv, BaseOK, RestOK, AsksOK, Answers
<1>2. \A k \in DOMAIN wrote : wrote[k].uid \in Uids
    <2>1. \A k \in DOMAIN wrote : wrote[k] \in Answers
        BY DEF OInv, TInv, AsksOK
    <2> QED BY <2>1 DEF Answers
<1>3. /\ place'[u] = p /\ \A v \in Uids \ {u} : place'[v] = place[v] /\ base'[v] = base[v]
      /\ base'[u] = base[u] \/ (base'[u] = place[u].base /\ place[u].base # NoBase)
      /\ base' # base => base'[u] = place[u].base
    BY <1>1
<1>4. u \notin shadowed => base'[u] = base[u]
    BY <1>3 DEF SInv, Same
<1>5. \A v \in Uids : (base[v] # NoBase => base'[v] # NoBase) /\ (v \notin shadowed => base'[v] = base[v])
    BY <1>3, <1>4
<1>6. There'
    BY <1>1, <1>2, <1>3, <1>5 DEF SInv, There
<1>7. Same'
    BY <1>3, <1>4 DEF SInv, Same
<1>8. Fresh'
    BY <1>2, <1>5 DEF SInv, Fresh, LastWrite
<1>9. Kept'
    BY <1>5 DEF SInv, Kept
<1> QED BY <1>6, <1>7, <1>8, <1>9 DEF SInv

LEMMA WorkersSigned ==
    ASSUME OInv, SInv, \/ \E ans \in answered : LogIn(ans)
                       \/ \E u \in Uids : Flush(u) \/ Leave(u) \/ Enter(u)
    PROVE  SInv'
<1>1. TInv /\ place \in [Uids -> Place] /\ base \in [Uids -> Base \cup {NoBase}]
      /\ warrant \in [Uids -> Warrants]
    BY DEF OInv, TInv, RestOK, BaseOK
<1>2. CASE \E ans \in answered : LogIn(ans)
    <2>1. PICK ans \in answered : LogIn(ans)
        BY <1>2
    <2> DEFINE p == [at |-> "out", base |-> base[ans.uid], warrant |-> {}]
    <2>2. ans.uid \in Uids /\ place' = [place EXCEPT ![ans.uid] = p]
        BY <1>1, <2>1, LogInTypes
    <2>3. p \in Place /\ p.at = "out" /\ p.base = base[ans.uid]
        BY <1>1, <2>2, Facts DEF Place
    <2>4. base[ans.uid] # NoBase /\ UNCHANGED <<base, wrote, answered, promised, shadowed>>
        BY <2>1 DEF LogIn, redis, calls
    <2> HIDE DEF p
    <2> QED BY <2>2, <2>3, <2>4, PlaceSigned
<1>3. ASSUME NEW u \in Uids, Flushes(u), place[u].at \in {"out", "world"}
      PROVE  /\ UNCHANGED <<wrote, answered, promised, shadowed>>
             /\ base' = [base EXCEPT ![u] = place[u].base] /\ place[u].base # NoBase
             /\ base'[u] = place[u].base
    BY <1>1, <1>3 DEF Flushes, calls, SInv, There
<1>4. CASE \E u \in Uids : Flush(u)
    <2>1. PICK u \in Uids : Flush(u)
        BY <1>4
    <2>2. Flushes(u) /\ place[u].at \in {"out", "world"} /\ place' = place
        BY <2>1 DEF Flush
    <2>3. place' = [place EXCEPT ![u] = place[u]] /\ place[u] \in Place
        BY <1>1, <2>2
    <2> QED BY <1>3, <2>2, <2>3, PlaceSigned
<1>5. CASE \E u \in Uids : Leave(u)
    <2>1. PICK u \in Uids : Leave(u)
        BY <1>5
    <2> DEFINE q == [Off EXCEPT !.at = "moving"]
    <2>2. Flushes(u) /\ place[u].at \in {"out", "world"}
          /\ (place' = [place EXCEPT ![u] = Off] \/ place' = [place EXCEPT ![u] = q])
        BY <2>1 DEF Leave
    <2>3. q \in Place /\ q.at = "moving" /\ q.base = NoBase
        BY Facts DEF Off, Place
    <2> HIDE DEF q
    <2> QED BY <1>3, <2>2, <2>3, Blanks, PlaceSigned
<1>6. CASE \E u \in Uids : Enter(u)
    <2>1. PICK u \in Uids : Enter(u)
        BY <1>6
    <2> DEFINE p == [at |-> "world", base |-> base[u], warrant |-> warrant[u]]
    <2>2. /\ place[u].at = "moving"
          /\ place' = [place EXCEPT ![u] = p] \/ place' = [place EXCEPT ![u] = Off]
          /\ UNCHANGED <<base, wrote, answered, promised, shadowed>>
        BY <2>1 DEF Enter, redis, calls
    <2>3. p \in Place /\ p.at = "world" /\ p.base = base[u] /\ base[u] # NoBase
        BY <1>1, <2>2 DEF Place, SInv, There
    <2> HIDE DEF p
    <2> QED BY <2>2, <2>3, Blanks, PlaceSigned
<1> QED BY <1>2, <1>4, <1>5, <1>6

LEMMA EndSigned ==
    ASSUME SInv, ProcessEnds
    PROVE  SInv'
<1>1. /\ wrote' = <<>> /\ UNCHANGED <<base, answered, promised, shadowed>>
      /\ place' = [u \in Uids |-> Off]
    BY DEF ProcessEnds
<1> QED BY <1>1, Blanks DEF SInv, There, Same, Fresh, Kept

LEMMA NextSigned == OInv /\ SInv /\ [Next]_vars => SInv'
<1> SUFFICES ASSUME OInv, SInv, [Next]_vars PROVE SInv'
    OBVIOUS
<1>1. CASE \E a \in Asks : (\E w \in Wallets : Ask(a, w)) \/ Number(a) \/ Bind(a)
    BY <1>1, SignedStays DEF Ask, Begins, Number, Bind, redis
<1>2. CASE \E a \in Asks : Write(a)
    BY <1>2, WriteSigned
<1>3. CASE Answer \/ ProcessEnds
    BY <1>3, AnswerSigned, EndSigned
<1>4. CASE Carry
    BY <1>4, SignedStays DEF Carry, calls
<1>5. CASE \E i \in Posts : Check(i) \/ Find(i) \/ Grant(i) \/ Record(i) \/ Add(i)
    BY <1>5, SignedStays, EndSigned DEF Check, Find, Grant, Record, Add, redis, calls
<1>6. CASE \/ \E ans \in answered : LogIn(ans)
           \/ \E u \in Uids : Flush(u) \/ Leave(u) \/ Enter(u)
    BY <1>6, WorkersSigned
<1>7. CASE UNCHANGED vars
    BY <1>7, SignedStays DEF vars, redis, calls
<1> QED BY <1>1, <1>2, <1>3, <1>4, <1>5, <1>6, <1>7 DEF Next

\* Who was answered has its document, of its wallet, and its token logs in, unless it
\* was written under the copy of a worker.
THEOREM AnsweredIsSignedIn == Spec => []SignedIn
<1>1. OInv /\ SInv /\ [Next]_vars => OInv' /\ SInv'
    BY NextOwned, NextSigned
<1> QED BY <1>1, InitOwned, InitSigned, SignedInHolds, PTL DEF Spec

-----------------------------------------------------------------------------
\* The user of a wallet that never asked twice at once.
Alone(a) == \A b \in Asks \ {a} : b \notin AtWork(asks[a].wallet)

MInv == \A w \in Wallets \ met :
    /\ \A a \in answered : a.wallet = w => a.uid = bound[w]
    /\ \A k \in DOMAIN wrote : wrote[k].wallet = w => wrote[k].uid = bound[w]
    /\ \A a \in Asks : asks[a].wallet = w =>
          /\ asks[a].at = "write" => asks[a].uid = bound[w]
          /\ asks[a].at \in {"number", "bind"} => bound[w] = 0 /\ Alone(a)

LEMMA SameUserHolds == OInv /\ MInv => SameUser
<1> SUFFICES ASSUME OInv, MInv, NEW a \in answered, NEW b \in answered,
                    a.wallet = b.wallet, a.wallet \notin met
             PROVE  a.uid = b.uid
    BY DEF SameUser
<1>1. a.wallet \in Wallets \ met
    BY DEF OInv, TInv, AsksOK, Answers
<1> QED BY <1>1 DEF MInv

LEMMA InitSame == Init => MInv
BY Blanks DEF Init, MInv

LEMMA SameStays ==
    ASSUME MInv, UNCHANGED <<asks, wrote, answered, met, bound>>
    PROVE  MInv'
BY DEF MInv, Alone, AtWork

LEMMA AskSame ==
    ASSUME OInv, MInv, NEW a \in Asks, NEW v \in Wallets, Ask(a, v)
    PROVE  MInv'
<1> DEFINE r == [at |-> IF bound[v] = 0 THEN "number" ELSE "write", wallet |-> v, uid |-> bound[v]]
<1>1. /\ asks[a].at = "new" /\ asks' = [asks EXCEPT ![a] = r]
      /\ met' = IF bound[v] = 0 /\ AtWork(v) # {} THEN met \cup {v} ELSE met
      /\ UNCHANGED <<wrote, answered, bound>>
    BY DEF Ask, Begins, redis
<1>2. r.at = (IF bound[v] = 0 THEN "number" ELSE "write") /\ r.wallet = v /\ r.uid = bound[v]
    OBVIOUS
<1> HIDE DEF r
<1>3. asks'[a] = r /\ \A b \in Asks \ {a} : asks'[b] = asks[b]
    BY <1>1 DEF OInv, TInv, AsksOK
<1> SUFFICES ASSUME NEW w \in Wallets, w \notin met', NEW b \in Asks, asks'[b].wallet = w
             PROVE  /\ asks'[b].at = "write" => asks'[b].uid = bound[w]
                    /\ asks'[b].at \in {"number", "bind"} => bound[w] = 0 /\ Alone(b)'
    BY <1>1 DEF MInv
<1>4. CASE b = a
    <2>1. bound[v] = 0 => AtWork(v) = {}
        BY <1>1, <1>2, <1>3, <1>4
    <2>2. bound[v] = 0 => Alone(a)'
        BY <1>2, <1>3, <2>1 DEF Alone, AtWork
    <2> QED BY <1>2, <1>3, <1>4, <2>2
<1>5. CASE b # a
    <2>1. asks'[b] = asks[b] /\ w \in Wallets \ met
        BY <1>1, <1>3, <1>5
    <2>2. asks[b].at \in {"number", "bind"} => w # v
        <3> SUFFICES ASSUME asks[b].at \in {"number", "bind"}, w = v PROVE FALSE
            OBVIOUS
        <3>1. bound[v] = 0
            BY <2>1 DEF MInv
        <3>2. b \in AtWork(v)
            BY <2>1 DEF AtWork
        <3> QED BY <1>1, <3>1, <3>2
    <2>3. asks[b].at \in {"number", "bind"} => Alone(b)'
        BY <1>2, <1>3, <2>1, <2>2 DEF MInv, Alone, AtWork
    <2> QED BY <2>1, <2>3 DEF MInv
<1> QED BY <1>4, <1>5

\* One call that goes on: the others see nothing of it but that it is at work or not.
LEMMA GoesOnSame ==
    ASSUME OInv, MInv, NEW a \in Asks, NEW r, r.wallet = asks[a].wallet,
           asks[a].at \in {"number", "bind", "write"}, asks'[a] = r,
           \A b \in Asks \ {a} : asks'[b] = asks[b],
           r.at = "write" => \A w \in Wallets \ met : r.wallet = w => r.uid = bound'[w],
           r.at \in {"number", "bind"} => asks[a].at = "number" /\ bound' = bound,
           \/ bound' = bound
           \/ /\ asks[a].at = "bind"
              /\ \A w \in Wallets \ {r.wallet} : bound'[w] = bound[w],
           UNCHANGED <<answered, met>>,
           \A k \in DOMAIN wrote' : (k \in DOMAIN wrote /\ wrote'[k] = wrote[k])
                \/ (wrote'[k].wallet = r.wallet /\ wrote'[k].uid = asks[a].uid
                       /\ asks[a].at = "write" /\ bound' = bound)
    PROVE  MInv'
<1> SUFFICES ASSUME NEW w \in Wallets \ met
             PROVE  /\ \A c \in answered : c.wallet = w => c.uid = bound'[w]
                    /\ \A k \in DOMAIN wrote' : wrote'[k].wallet = w => wrote'[k].uid = bound'[w]
                    /\ \A b \in Asks : asks'[b].wallet = w =>
                          /\ asks'[b].at = "write" => asks'[b].uid = bound'[w]
                          /\ asks'[b].at \in {"number", "bind"} => bound'[w] = 0 /\ Alone(b)'
    BY DEF MInv
<1>1. \A b \in Asks : Alone(b) /\ asks'[b].wallet = asks[b].wallet => Alone(b)'
    BY DEF Alone, AtWork
<1>2. CASE bound'[w] = bound[w]
    <2>1. \A c \in answered : c.wallet = w => c.uid = bound'[w]
        BY <1>2 DEF MInv
    <2>2. asks[a].wallet = w /\ asks[a].at = "write" => asks[a].uid = bound[w]
        BY DEF MInv
    <2>3. \A k \in DOMAIN wrote' : wrote'[k].wallet = w => wrote'[k].uid = bound'[w]
        BY <1>2, <2>2 DEF MInv
    <2>4. ASSUME NEW b \in Asks, asks'[b].wallet = w
          PROVE  /\ asks'[b].at = "write" => asks'[b].uid = bound'[w]
                 /\ asks'[b].at \in {"number", "bind"} => bound'[w] = 0 /\ Alone(b)'
        <3>1. CASE b = a
            <4>1. asks[a].wallet = w
                BY <2>4, <3>1
            <4>2. asks[a].at = "number" => bound[w] = 0 /\ Alone(a)
                BY <4>1 DEF MInv
            <4> QED BY <1>1, <1>2, <2>4, <3>1, <4>1, <4>2
        <3>2. CASE b # a
            <4>1. asks'[b] = asks[b]
                BY <3>2
            <4> QED BY <1>1, <1>2, <2>4, <4>1 DEF MInv
        <3> QED BY <3>1, <3>2
    <2> QED BY <2>1, <2>3, <2>4
<1>3. CASE bound'[w] # bound[w]
    <2>1. asks[a].at = "bind" /\ asks[a].wallet = w
        BY <1>3
    <2>2. bound[w] = 0 /\ Alone(a)
        BY <2>1 DEF MInv
    <2>3. \A c \in answered : c.wallet # w
        <3>1. \A c \in answered : c.uid \in Uids
            BY DEF OInv, TInv, AsksOK, Answers
        <3> QED BY <2>2, <3>1, Facts DEF MInv
    <2>4. \A k \in DOMAIN wrote : wrote[k].wallet # w
        <3>1. \A k \in DOMAIN wrote : wrote[k] \in Answers
            BY DEF OInv, TInv, AsksOK
        <3>2. \A k \in DOMAIN wrote : wrote[k].uid \in Uids
            BY <3>1 DEF Answers
        <3> QED BY <2>2, <3>2, Facts DEF MInv
    <2>5. \A b \in Asks \ {a} : asks[b].wallet = w => asks[b].at \in {"new", "done"}
        BY <2>1, <2>2 DEF Alone, AtWork
    <2>6. \A k \in DOMAIN wrote' : k \in DOMAIN wrote /\ wrote'[k] = wrote[k]
        BY <2>1
    <2> QED BY <1>3, <2>1, <2>3, <2>4, <2>5, <2>6
<1> QED BY <1>2, <1>3

LEMMA CallsSame ==
    ASSUME OInv, MInv, NEW a \in Asks, Number(a) \/ Bind(a) \/ Write(a)
    PROVE  MInv'
<1> DEFINE v == asks[a].wallet
           x == asks[a].uid
<1>1. TInv /\ v \in Wallets /\ asks[a].at \in {"number", "bind", "write"}
      /\ UNCHANGED <<answered, met>>
    BY DEF OInv, TInv, AsksOK, AskOK, Number, Bind, Write
<1>2. CASE Number(a)
    <2>1. lastuid + 1 \in Uids /\ lastuid + 1 \in Numbers
        BY <1>2, Facts DEF Number, OInv, TInv, BaseOK
    <2> DEFINE r == [at |-> "bind", wallet |-> v, uid |-> lastuid + 1]
    <2>2. asks'[a] = r /\ \A b \in Asks \ {a} : asks'[b] = asks[b]
        BY <1>1, <1>2, <2>1, OneAsk DEF Number, TInv, AskAt
    <2>3. r.at = "bind" /\ r.wallet = v
        OBVIOUS
    <2>4. asks[a].at = "number" /\ bound' = bound /\ wrote' = wrote
        BY <1>2 DEF Number
    <2> HIDE DEF r
    <2> QED BY <1>1, <2>2, <2>3, <2>4, GoesOnSame
<1>3. CASE Bind(a)
    <2>1. x \in Uids /\ x \in Numbers
        BY <1>3, Facts DEF Bind, OInv, TInv, AsksOK, AskOK
    <2> DEFINE r == [at |-> "write", wallet |-> v, uid |-> x]
    <2>2. asks'[a] = r /\ \A b \in Asks \ {a} : asks'[b] = asks[b]
        BY <1>1, <1>3, <2>1, OneAsk DEF Bind, TInv, AskAt
    <2>3. r.at = "write" /\ r.wallet = v /\ r.uid = x
        OBVIOUS
    <2>4. /\ asks[a].at = "bind" /\ wrote' = wrote
          /\ bound'[v] = x /\ \A w \in Wallets \ {v} : bound'[w] = bound[w]
        BY <1>1, <1>3 DEF Bind, TInv, BaseOK
    <2> HIDE DEF r
    <2> QED BY <1>1, <2>2, <2>3, <2>4, GoesOnSame
<1>4. CASE Write(a)
    <2>1. x \in Uids /\ x \in Numbers
        BY <1>4, Facts DEF Write, OInv, TInv, AsksOK, AskOK
    <2> DEFINE r == [at |-> "answer", wallet |-> v, uid |-> x]
               ans == [wallet |-> v, uid |-> x, token |-> a]
    <2>2. asks'[a] = r /\ \A b \in Asks \ {a} : asks'[b] = asks[b]
        BY <1>1, <1>4, <2>1, OneAsk DEF Write, TInv, AskAt
    <2>3. r.at = "answer" /\ r.wallet = v /\ ans.wallet = v /\ ans.uid = x
        OBVIOUS
    <2>4. asks[a].at = "write" /\ bound' = bound /\ wrote' = Append(wrote, ans)
        BY <1>4 DEF Write
    <2> HIDE DEF r, ans
    <2>5. \A k \in DOMAIN wrote' : (k \in DOMAIN wrote /\ wrote'[k] = wrote[k]) \/ wrote'[k] = ans
        BY <1>1, <2>4 DEF TInv, AsksOK
    <2> QED BY <1>1, <2>2, <2>3, <2>4, <2>5, GoesOnSame
<1> QED BY <1>2, <1>3, <1>4

LEMMA AnswerSame ==
    ASSUME OInv, MInv, Answer
    PROVE  MInv'
<1> DEFINE h == Head(wrote)
<1>1. /\ asks' = [asks EXCEPT ![h.token] = Done] /\ h \in Answers
      /\ answered' = answered \cup {h} /\ wrote' = Tail(wrote) /\ wrote # <<>>
      /\ bound' = bound /\ met' = met
    BY AnswerTypes DEF OInv, Answer, redis
<1>2. /\ \A k \in DOMAIN wrote' : k + 1 \in DOMAIN wrote /\ wrote'[k] = wrote[k + 1]
      /\ 1 \in DOMAIN wrote /\ h = wrote[1]
    BY <1>1 DEF OInv, TInv, AsksOK
<1> HIDE DEF h
<1>3. \A b \in Asks : asks'[b] = asks[b] \/ asks'[b].at = "done"
    BY <1>1, Blanks DEF OInv, TInv, AsksOK
<1>4. \A b \in Asks : Alone(b) /\ asks'[b] = asks[b] => Alone(b)'
    BY <1>3 DEF Alone, AtWork
<1> QED BY <1>1, <1>2, <1>3, <1>4 DEF MInv

LEMMA EndSame ==
    ASSUME MInv, ProcessEnds
    PROVE  MInv'
<1>1. \A a \in Asks : asks'[a].at \in {"new", "done"}
    BY Blanks DEF ProcessEnds
<1>2. wrote' = <<>> /\ UNCHANGED <<answered, bound, met>>
    BY DEF ProcessEnds
<1> QED BY <1>1, <1>2 DEF MInv

LEMMA NextSame == OInv /\ MInv /\ [Next]_vars => MInv'
<1> SUFFICES ASSUME OInv, MInv, [Next]_vars PROVE MInv'
    OBVIOUS
<1>1. CASE \E a \in Asks : (\E w \in Wallets : Ask(a, w)) \/ Number(a) \/ Bind(a) \/ Write(a)
    BY <1>1, AskSame, CallsSame
<1>2. CASE Answer \/ ProcessEnds
    BY <1>2, AnswerSame, EndSame
<1>3. CASE Carry \/ \E i \in Posts : Check(i) \/ Find(i) \/ Grant(i) \/ Record(i) \/ Add(i)
    BY <1>3, SameStays, EndSame DEF Carry, Check, Find, Grant, Record, Add, redis, calls
<1>4. CASE \/ \E ans \in answered : LogIn(ans)
           \/ \E u \in Uids : Flush(u) \/ Leave(u) \/ Enter(u)
    BY <1>4, SameStays DEF LogIn, Flush, Flushes, Leave, Enter, redis, calls
<1>5. CASE UNCHANGED vars
    BY <1>5, SameStays DEF vars, redis, calls
<1> QED BY <1>1, <1>2, <1>3, <1>4, <1>5 DEF Next

\* A wallet is one user in all its answers, unless it asked again while its first call
\* was at work.
THEOREM WalletIsOneUser == Spec => []SameUser
<1>1. OInv /\ MInv /\ [Next]_vars => OInv' /\ MInv'
    BY NextOwned, NextSame
<1> QED BY <1>1, InitOwned, InitSame, SameUserHolds, PTL DEF Spec
-----------------------------------------------------------------------------
\* The mints of wallets that never asked twice at once and had a user whenever the
\* watcher looked.
Counts(t) == To[t] \notin missed \cup met
Earliest(t) == \A m \in Mints : m < t => To[m] # To[t]

\* Where a mint is noted for a user, on its way, and before a place in the queue.
WriteOf(k, u) == k \in DOMAIN queue /\ queue[k].op = "write" /\ queue[k].uid = u
Has(u, t) == t \in warrant[u] \/ \E k \in DOMAIN queue : WriteOf(k, u) /\ t \in queue[k].doc
HasAt(u, t, k) ==
    t \in warrant[u] \/ \E j \in DOMAIN queue : j < k /\ WriteOf(j, u) /\ t \in queue[j].doc

\* A user's documents hold, of such a wallet, its first mint only; a write is of some.
FirstOnly == \A u \in Uids, t \in Mints :
    (Has(u, t) \/ t \in place[u].warrant) /\ Counts(t) => Earliest(t)
WritesSome == \A k \in DOMAIN queue : queue[k].op = "write" => queue[k].doc # {}

\* What a mint has that is recorded, or about to be.
Noted(t) == Earliest(t) /\ bound[To[t]] \in Uids /\ Has(bound[To[t]], t)
RecordedNoted == \A t \in recorded : Counts(t) => Noted(t)

\* A handler has recorded what it has passed, and its read comes after the writes of
\* that: who then reads nothing is at its wallet's first mint.
Reads(k, i) == k \in DOMAIN queue /\ queue[k].op = "read" /\ queue[k].by = i
ReadOK(k) ==
    LET i == queue[k].by
        n == posts[i].n
        u == queue[k].uid IN
    /\ posts[i].at = "read" /\ posts[i].uid = u
    /\ \A j \in DOMAIN queue : Reads(j, i) => j = k
    /\ Counts(n) => \A m \in Mints : m < n /\ To[m] = To[n] => HasAt(u, m, k)
PostKnows(i) ==
    LET n == posts[i].n IN
    /\ \A m \in Mints : m < n => m \in recorded
    /\ Counts(n) =>
          /\ posts[i].at \in {"read", "got"} => posts[i].uid = bound[To[n]]
          /\ posts[i].at = "got" /\ posts[i].got = {} => Earliest(n)
          /\ posts[i].at = "record" => Noted(n)

GInv ==
    /\ FirstOnly /\ WritesSome /\ RecordedNoted
    /\ \A k \in DOMAIN queue : queue[k].op = "read" => ReadOK(k)
    /\ \A i \in Posts : PostKnows(i)

LEMMA MintedHolds == GInv => Minted
<1> SUFFICES ASSUME GInv, NEW t \in recorded, Counts(t)
             PROVE  \/ \E u \in Uids : t \in warrant[u]
                    \/ \E k \in DOMAIN queue : t \in queue[k].doc
    BY DEF Minted, Counts
<1>1. bound[To[t]] \in Uids /\ Has(bound[To[t]], t)
    BY DEF GInv, RecordedNoted, Noted
<1> QED BY <1>1 DEF Has

LEMMA InitMinted == Init => GInv
<1> SUFFICES ASSUME Init PROVE GInv
    OBVIOUS
<1>1. queue = <<>> /\ recorded = {} /\ \A u \in Uids : warrant[u] = {} /\ place[u].warrant = {}
    BY Blanks DEF Init
<1>2. \A i \in Posts : PostKnows(i)
    <2>1. \A i \in Posts : posts[i].at = "check" /\ posts[i].n = 1
        BY DEF Init, First
    <2>2. \A m \in Mints : ~(m < 1)
        BY Facts DEF Mints
    <2> QED BY <2>1, <2>2 DEF PostKnows
<1>3. FirstOnly /\ WritesSome /\ RecordedNoted
    BY <1>1 DEF FirstOnly, WritesSome, RecordedNoted, Has
<1> QED BY <1>1, <1>2, <1>3 DEF GInv

\* What a user's documents hold is one mint, if it counts.
LEMMA OneMint ==
    ASSUME OInv, FirstOnly, NEW u \in Uids, NEW s \in Mints, NEW t \in Mints, Counts(t),
           Has(u, s) \/ s \in place[u].warrant, Has(u, t) \/ t \in place[u].warrant
    PROVE  s = t
<1>1. To[s] \in Wallets /\ To[t] \in Wallets /\ s \in Int /\ t \in Int
    BY Facts DEF Mints
<1>2. Known(To[s], u) /\ Known(To[t], u)
    BY DEF Known, InWarrant, OnTheWay, Has, WriteOf
<1>3. To[s] = To[t]
    BY <1>1, <1>2 DEF OInv, OneWallet
<1>4. Earliest(s) /\ Earliest(t)
    BY <1>3 DEF FirstOnly, Counts
<1> QED BY <1>1, <1>3, <1>4 DEF Earliest

\* The queue's commands, and the queue with one more.
LEMMA Queued ==
    ASSUME TInv
    PROVE  /\ Len(queue) \in Nat /\ DOMAIN queue = 1..Len(queue)
           /\ \A k \in DOMAIN queue : queue[k] \in Cmd /\ queue[k].uid \in Uids /\ queue[k].by \in Posts
                                      /\ queue[k].doc \subseteq Mints /\ queue[k].op \in {"read", "write"}
           /\ \A c : queue' = Append(queue, c) =>
                 /\ DOMAIN queue' = 1..(Len(queue) + 1)
                 /\ \A k \in DOMAIN queue : queue'[k] = queue[k]
                 /\ queue'[Len(queue) + 1] = c
<1>1. queue \in Seq(Cmd)
    BY DEF TInv, PostsOK
<1>2. \A k \in DOMAIN queue : queue[k] \in Cmd
    BY <1>1
<1>3. \A k \in DOMAIN queue : queue[k].uid \in Uids /\ queue[k].by \in Posts
                             /\ queue[k].doc \subseteq Mints /\ queue[k].op \in {"read", "write"}
    BY <1>2 DEF Cmd, Warrants
<1>4. ASSUME NEW c, queue' = Append(queue, c)
      PROVE  /\ DOMAIN queue' = 1..(Len(queue) + 1)
             /\ \A k \in DOMAIN queue : queue'[k] = queue[k]
             /\ queue'[Len(queue) + 1] = c
    <2> HIDE DEF Cmd
    <2> QED BY <1>1, <1>4
<1> QED BY <1>1, <1>2, <1>3, <1>4

\* Steps of sign-ins and of workers, who write back only what they have.
LEMMA MintedStays ==
    ASSUME OInv, GInv, UNCHANGED <<recorded, posts, queue, missed>>, met \subseteq met',
           \A u \in Uids : /\ \/ warrant'[u] = warrant[u]
                              \/ warrant'[u] = place[u].warrant /\ place[u].warrant # {}
                           /\ place'[u].warrant \in {warrant[u], place[u].warrant, {}},
           \A w \in Wallets \ met : bound[w] # 0 => bound'[w] = bound[w]
    PROVE  GInv'
<1>1. /\ \A u \in Uids : warrant[u] \subseteq Mints /\ place[u].warrant \subseteq Mints
      /\ \A t \in Mints : To[t] \in Wallets
      /\ \A i \in Posts : posts[i].n \in Mints
      /\ recorded \subseteq Mints
    BY Facts DEF OInv, TInv, BaseOK, RestOK, PostsOK, PostRec, Place, Warrants
<1>2. \A t : Counts(t)' => Counts(t)
    BY DEF Counts
<1>3. ASSUME NEW u \in Uids, NEW t \in Mints, Counts(t)
      PROVE  t \in warrant[u] => t \in warrant'[u]
    <2>1. CASE warrant'[u] = warrant[u]
        BY <2>1
    <2>2. CASE warrant'[u] = place[u].warrant /\ place[u].warrant # {}
        <3>1. PICK s \in Mints : s \in place[u].warrant
            BY <1>1, <2>2
        <3>2. t \in warrant[u] => s = t
            BY <1>3, <3>1, OneMint DEF GInv, Has
        <3> QED BY <2>2, <3>1, <3>2
    <2> QED BY <2>1, <2>2
<1>4. ASSUME NEW u \in Uids, NEW t \in Mints, Counts(t)
      PROVE  /\ Has(u, t) => Has(u, t)'
             /\ \A k : HasAt(u, t, k) => HasAt(u, t, k)'
    BY <1>3, <1>4 DEF Has, HasAt, WriteOf
<1>5. ASSUME NEW t \in Mints, Counts(t)', bound[To[t]] \in Uids
      PROVE  bound'[To[t]] = bound[To[t]]
    BY <1>1, <1>2, <1>5, Facts DEF Counts
<1>6. ASSUME NEW t \in Mints, Counts(t)', Noted(t) PROVE Noted(t)'
    BY <1>2, <1>4, <1>5, <1>6 DEF Noted, Earliest
<1>7. FirstOnly'
    <2> SUFFICES ASSUME NEW u \in Uids, NEW t \in Mints, Has(u, t)' \/ t \in place'[u].warrant,
                        Counts(t)'
                 PROVE  Earliest(t)
        BY DEF FirstOnly, Earliest
    <2>1. Has(u, t) \/ t \in place[u].warrant
        BY DEF Has, WriteOf
    <2> QED BY <1>2, <2>1 DEF GInv, FirstOnly
<1>8. WritesSome' /\ RecordedNoted'
    BY <1>1, <1>2, <1>6 DEF GInv, WritesSome, RecordedNoted
<1>9. ASSUME NEW k \in DOMAIN queue, queue[k].op = "read" PROVE ReadOK(k)'
    <2> DEFINE n == posts[queue[k].by].n
    <2>1. ReadOK(k) /\ n \in Mints /\ queue[k].uid \in Uids
        BY <1>1, <1>9, Queued DEF GInv, OInv
    <2>2. Counts(n)' => \A m \in Mints : m < n /\ To[m] = To[n] =>
                            Counts(m) /\ HasAt(queue[k].uid, m, k)
        BY <1>2, <2>1 DEF ReadOK, Counts
    <2>3. Counts(n)' => \A m \in Mints : m < n /\ To[m] = To[n] => HasAt(queue[k].uid, m, k)'
        BY <1>4, <2>1, <2>2
    <2> QED BY <2>1, <2>3 DEF ReadOK, Reads
<1>10. ASSUME NEW i \in Posts PROVE PostKnows(i)'
    <2>1. PostKnows(i) /\ posts[i].n \in Mints
          /\ (posts[i].at \in {"read", "got"} => posts[i].uid \in Uids)
        BY <1>1 DEF GInv, OInv, TInv, PostsOK, PostOK
    <2>2. Counts(posts[i].n)' /\ posts[i].at \in {"read", "got"} => posts[i].uid = bound'[To[posts[i].n]]
        BY <1>2, <1>5, <2>1 DEF PostKnows
    <2>3. Counts(posts[i].n)' /\ posts[i].at = "record" => Noted(posts[i].n)'
        BY <1>2, <1>6, <2>1 DEF PostKnows
    <2> QED BY <1>2, <2>1, <2>2, <2>3 DEF PostKnows, Earliest
<1> QED BY <1>7, <1>8, <1>9, <1>10 DEF GInv

LEMMA CallsMinted ==
    ASSUME OInv, MInv, GInv,
           \/ \E a \in Asks : (\E w \in Wallets : Ask(a, w)) \/ Number(a) \/ Bind(a) \/ Write(a)
           \/ Answer
    PROVE  GInv'
<1>1. CASE \E a \in Asks : (\E w \in Wallets : Ask(a, w)) \/ Number(a) \/ Write(a)
    <2>1. UNCHANGED <<recorded, posts, queue, missed, warrant, place, bound>> /\ met \subseteq met'
        BY <1>1 DEF Ask, Begins, Number, Write, redis, watcher
    <2> QED BY <2>1, MintedStays
<1>2. CASE Answer
    <2>1. UNCHANGED <<recorded, posts, queue, missed, warrant, place, bound, met>>
        BY <1>2 DEF Answer, redis, watcher
    <2> QED BY <2>1, MintedStays
<1>3. ASSUME NEW a \in Asks, Bind(a) PROVE GInv'
    <2>1. /\ UNCHANGED <<recorded, posts, queue, missed, warrant, place, met>>
          /\ asks[a].at = "bind" /\ bound' = [bound EXCEPT ![asks[a].wallet] = asks[a].uid]
        BY <1>3 DEF Bind, watcher
    <2>2. \A w \in Wallets \ met : bound[w] # 0 => bound'[w] = bound[w]
        BY <2>1 DEF MInv, OInv, TInv, BaseOK
    <2> QED BY <2>1, <2>2, MintedStays
<1> QED BY <1>1, <1>2, <1>3

LEMMA WorkersMinted ==
    ASSUME OInv, GInv, \/ \E ans \in answered : LogIn(ans)
                       \/ \E u \in Uids : Flush(u) \/ Leave(u) \/ Enter(u)
    PROVE  GInv'
<1>1. /\ place \in [Uids -> Place] /\ warrant \in [Uids -> Warrants]
      /\ \A ans \in answered : ans.uid \in Uids
    BY DEF OInv, TInv, BaseOK, RestOK, AsksOK, Answers
<1>2. UNCHANGED <<recorded, posts, queue, missed, bound, met>>
    BY DEF LogIn, Flush, Leave, Flushes, Enter, redis, calls, watcher
<1>3. CASE \E ans \in answered : LogIn(ans)
    <2>1. PICK ans \in answered : LogIn(ans)
        BY <1>3
    <2>2. place' = [place EXCEPT ![ans.uid] = [at |-> "out", base |-> base[ans.uid], warrant |-> {}]]
          /\ warrant' = warrant
        BY <2>1 DEF LogIn, redis
    <2>3. \A u \in Uids : place'[u].warrant \in {place[u].warrant, {}}
        BY <1>1, <2>2
    <2> QED BY <1>2, <2>2, <2>3, MintedStays
<1>4. CASE \E u \in Uids : Flush(u) \/ Leave(u)
    <2>1. PICK u \in Uids : Flush(u) \/ Leave(u)
        BY <1>4
    <2> DEFINE q == [Off EXCEPT !.at = "moving"]
    <2>2. Flushes(u) /\ (place' = place \/ place' = [place EXCEPT ![u] = Off]
                                        \/ place' = [place EXCEPT ![u] = q])
        BY <2>1 DEF Flush, Leave
    <2>3. q.warrant = {}
        BY DEF Off
    <2> HIDE DEF q
    <2>4. \A v \in Uids : place'[v].warrant \in {place[v].warrant, {}}
        BY <1>1, <2>2, <2>3, Blanks
    <2>5. \A v \in Uids : \/ warrant'[v] = warrant[v]
                          \/ warrant'[v] = place[v].warrant /\ place[v].warrant # {}
        BY <1>1, <2>2 DEF Flushes
    <2> QED BY <1>2, <2>4, <2>5, MintedStays
<1>5. CASE \E u \in Uids : Enter(u)
    <2>1. PICK u \in Uids : Enter(u)
        BY <1>5
    <2>2. /\ warrant' = warrant
          /\ \/ place' = [place EXCEPT ![u] = Off]
             \/ place' = [place EXCEPT ![u] =
                            [at |-> "world", base |-> base[u], warrant |-> warrant[u]]]
        BY <2>1 DEF Enter, redis
    <2>3. \A v \in Uids : place'[v].warrant \in {warrant[v], place[v].warrant, {}}
        BY <1>1, <2>2, Blanks
    <2> QED BY <1>2, <2>2, <2>3, MintedStays
<1> QED BY <1>3, <1>4, <1>5

-----------------------------------------------------------------------------
\* A handler that goes on, and may send a command: what it passes is recorded, what it
\* records is noted, what it writes is a first mint, and it has one read on its way.
LEMMA PostMinted ==
    ASSUME OInv, GInv, TInv', NEW i \in Posts, NEW c,
           UNCHANGED <<bound, warrant, met, place>>, missed \subseteq missed',
           posts[i].at # "read", \A j \in Posts \ {i} : posts'[j] = posts[j],
           queue' = queue \/ queue' = Append(queue, c),
           queue' = queue => posts'[i].at # "read",
           queue' # queue =>
               \/ /\ c.op = "write" /\ c.uid \in Uids /\ c.doc # {}
                  /\ \A t \in c.doc : t \in Mints /\ (Counts(t) => Earliest(t))
               \/ /\ c.op = "read" /\ c.by = i /\ posts'[i].at = "read" /\ posts'[i].uid = c.uid
                  /\ posts'[i].n = posts[i].n
                  /\ Counts(posts[i].n) =>
                        \A m \in Mints : m < posts[i].n /\ To[m] = To[posts[i].n] => Has(c.uid, m),
           recorded \subseteq recorded',
           \A t \in recorded' \ recorded : t \in Mints /\ (Counts(t) => Noted(t)),
           PostKnows(i)'
    PROVE  GInv'
<1>1. /\ Len(queue) \in Nat /\ DOMAIN queue = 1..Len(queue)
      /\ \A k \in DOMAIN queue : queue[k].by \in Posts
      /\ \A k \in DOMAIN queue : queue'[k] = queue[k] /\ k \in DOMAIN queue'
      /\ \A k \in DOMAIN queue' : k \in DOMAIN queue
                                  \/ (k = Len(queue) + 1 /\ queue'[k] = c /\ queue' # queue)
    BY Queued DEF OInv
<1>2. \A t : Counts(t)' => Counts(t)
    BY DEF Counts
<1>3. \A u, t : /\ Has(u, t) => Has(u, t)'
                /\ \A k \in DOMAIN queue : HasAt(u, t, k) => HasAt(u, t, k)'
    BY <1>1 DEF Has, HasAt, WriteOf
<1>4. \A t : Noted(t) => Noted(t)'
    BY <1>3 DEF Noted, Earliest
<1>5. \A j \in Posts : PostKnows(j)'
    <2> SUFFICES ASSUME NEW j \in Posts, j # i PROVE PostKnows(j)'
        OBVIOUS
    <2>1. PostKnows(j) /\ posts'[j] = posts[j]
        BY DEF GInv
    <2> QED BY <1>2, <1>4, <2>1 DEF PostKnows, Earliest
<1>6. RecordedNoted'
    BY <1>2, <1>4 DEF GInv, RecordedNoted
<1>7. WritesSome'
    BY <1>1 DEF GInv, WritesSome
<1>8. FirstOnly'
    <2> SUFFICES ASSUME NEW u \in Uids, NEW t \in Mints, Has(u, t)' \/ t \in place'[u].warrant,
                        Counts(t)'
                 PROVE  Earliest(t)
        BY DEF FirstOnly, Earliest
    <2>1. Has(u, t) \/ t \in place[u].warrant \/ (queue' # queue /\ c.op = "write" /\ t \in c.doc)
        BY <1>1 DEF Has, WriteOf
    <2> QED BY <1>2, <2>1 DEF GInv, FirstOnly
<1>9. ASSUME NEW k \in DOMAIN queue, queue[k].op = "read" PROVE ReadOK(k)'
    <2>1. PICK j \in Posts, u \in Uids : j = queue[k].by /\ u = queue[k].uid
        BY Queued DEF OInv
    <2>2. PICK n \in Mints : n = posts[j].n
        BY DEF OInv, TInv, PostsOK, PostRec
    <2>3. ReadOK(k) /\ posts[j].at = "read" /\ posts[j].uid = u
        BY <1>9, <2>1 DEF GInv, ReadOK
    <2>4. posts'[j] = posts[j] /\ j # i
        BY <2>3
    <2>5. \A l \in DOMAIN queue' : Reads(l, j)' => l = k
        BY <1>1, <2>1, <2>3, <2>4 DEF Reads, ReadOK
    <2>6. Counts(n)' => \A m \in Mints : m < n /\ To[m] = To[n] => HasAt(u, m, k)
        BY <1>2, <2>1, <2>2, <2>3 DEF ReadOK
    <2>7. queue'[k] = queue[k] /\ k \in DOMAIN queue'
        BY <1>1
    <2>8. Counts(n)' => \A m \in Mints : m < n /\ To[m] = To[n] => HasAt(u, m, k)'
        BY <1>3, <2>6
    <2> QED BY <2>1, <2>2, <2>3, <2>4, <2>5, <2>7, <2>8 DEF ReadOK, Counts
<1>10. ASSUME NEW k \in DOMAIN queue', k \notin DOMAIN queue, c.op = "read" PROVE ReadOK(k)'
    <2>1. /\ k = Len(queue) + 1 /\ queue'[k] = c /\ c.by = i
          /\ posts'[i].at = "read" /\ posts'[i].uid = c.uid
        BY <1>1, <1>10
    <2>2. \A l \in DOMAIN queue : ~Reads(l, i)
        BY DEF Reads, GInv, ReadOK
    <2>3. \A l \in DOMAIN queue' : Reads(l, i)' => l = k
        BY <1>1, <2>1, <2>2 DEF Reads
    <2>4. \A u, t : Has(u, t) => HasAt(u, t, k)'
        BY <1>1, <2>1 DEF Has, HasAt, WriteOf
    <2>5. PICK n : n = posts[i].n /\ n = posts'[i].n
        BY <1>1, <1>10
    <2>6. Counts(n)' => \A m \in Mints : m < n /\ To[m] = To[n] => HasAt(c.uid, m, k)'
        BY <1>1, <1>2, <1>10, <2>4, <2>5
    <2> QED BY <2>1, <2>3, <2>5, <2>6 DEF ReadOK, Counts
<1>11. \A k \in DOMAIN queue' : queue'[k].op = "read" => ReadOK(k)'
    BY <1>1, <1>9, <1>10
<1> QED BY <1>5, <1>6, <1>7, <1>8, <1>11 DEF GInv

\* The handler that goes to the next mint, or begins again.
LEMMA GoesOn ==
    ASSUME TInv, NEW i \in Posts, GoOn(i)
    PROVE  /\ posts'[i].at = "check" /\ \A j \in Posts \ {i} : posts'[j] = posts[j]
           /\ \A m \in Mints : m < posts'[i].n => m <= posts[i].n
<1> DEFINE n == posts[i].n + 1
           x == IF n \in Mints THEN n ELSE 1
<1>1. posts'[i] = [First EXCEPT !.n = x] /\ posts[i].n \in Mints
    BY DEF GoOn, Goes, TInv, PostsOK, PostRec
<1>2. posts'[i].n = x
    BY <1>1 DEF First
<1>3. \A m \in Mints : m < x => m <= posts[i].n
    BY <1>1, Facts DEF Mints
<1> QED BY <1>2, <1>3, OneOn DEF TInv

LEMMA CheckMinted ==
    ASSUME OInv, GInv, NEW i \in Posts, Check(i)
    PROVE  GInv'
<1>1. /\ TInv' /\ posts[i].at = "check" /\ posts[i].n \in Mints /\ recorded' = recorded
      /\ UNCHANGED <<bound, warrant, met, place, missed, queue>>
    BY CheckTypes DEF Check, redis, calls, OInv, TInv, PostsOK, PostRec
<1>2. CASE posts[i].n \in recorded /\ GoOn(i)
    <2>1. /\ posts'[i].at = "check" /\ \A j \in Posts \ {i} : posts'[j] = posts[j]
          /\ \A m \in Mints : m < posts'[i].n => m <= posts[i].n
        BY <1>2, GoesOn DEF OInv
    <2>2. \A m \in Mints : m <= posts[i].n => m = posts[i].n \/ m < posts[i].n
        BY <1>1, Facts DEF Mints
    <2>3. PostKnows(i)'
        BY <1>1, <1>2, <2>1, <2>2 DEF GInv, PostKnows
    <2> QED BY <1>1, <2>1, <2>3, PostMinted
<1>3. CASE Goes(i, [posts[i] EXCEPT !.at = "find"])
    <2>1. [posts[i] EXCEPT !.at = "find"].at = "find" /\ [posts[i] EXCEPT !.at = "find"].n = posts[i].n
        BY DEF OInv, TInv, PostsOK, PostRec
    <2>2. posts'[i].at = "find" /\ posts'[i].n = posts[i].n /\ \A j \in Posts \ {i} : posts'[j] = posts[j]
        BY <1>3, <2>1 DEF Goes, OInv, TInv, PostsOK
    <2>3. PostKnows(i)'
        BY <1>1, <2>2 DEF GInv, PostKnows
    <2> QED BY <1>1, <2>2, <2>3, PostMinted
<1> QED BY <1>2, <1>3 DEF Check

LEMMA FindMinted ==
    ASSUME OInv, GInv, NEW i \in Posts, Find(i)
    PROVE  GInv'
<1>0. PICK n \in Mints : n = posts[i].n
    BY DEF OInv, TInv, PostsOK, PostRec
<1> DEFINE x == bound[To[n]]
           c == [op |-> "read", by |-> i, uid |-> x, doc |-> {}]
<1>1. /\ TInv' /\ posts[i].at = "find" /\ n \in Mints /\ UNCHANGED <<recorded, bound, warrant, met, place>>
      /\ posts[i] \in PostRec /\ x \in Numbers /\ recorded \subseteq Mints
    BY <1>0, FindTypes, Facts DEF Find, redis, calls, OInv, TInv, BaseOK, PostsOK, PostRec
<1>2. \A m \in Mints : m < n => m \in recorded
    BY <1>0 DEF GInv, PostKnows
<1>3. CASE x = 0
    <2>1. missed' = missed \cup {To[n]} /\ queue' = queue
          /\ Goes(i, [posts[i] EXCEPT !.at = "record"])
        BY <1>0, <1>3 DEF Find
    <2>2. [posts[i] EXCEPT !.at = "record"].at = "record" /\ [posts[i] EXCEPT !.at = "record"].n = n
        BY <1>0, <1>1 DEF PostRec
    <2>3. posts'[i].at = "record" /\ posts'[i].n = n /\ \A j \in Posts \ {i} : posts'[j] = posts[j]
        BY <2>1, <2>2 DEF Goes, OInv, TInv, PostsOK
    <2>4. ~Counts(n)'
        BY <2>1 DEF Counts
    <2>5. PostKnows(i)'
        BY <1>1, <1>2, <2>3, <2>4 DEF PostKnows, Counts
    <2> QED BY <1>1, <2>1, <2>3, <2>5, PostMinted
<1>4. CASE x # 0
    <2> DEFINE p == [posts[i] EXCEPT !.at = "read", !.uid = x]
               q == [posts[i] EXCEPT !.at = "read"]
    <2>1. Goes(i, p) /\ queue' = Append(queue, c) /\ missed' = missed
        BY <1>0, <1>4 DEF Find
    <2>2. q \in PostRec /\ q.at = "read" /\ q.n = n
        BY <1>0, <1>1 DEF PostRec, PostAt
    <2>3. p = [q EXCEPT !.uid = x]
        OBVIOUS
    <2>4. c.op = "read" /\ c.by = i /\ c.uid = x
        OBVIOUS
    <2> HIDE DEF q, x, p, c
    <2>5. p.at = "read" /\ p.n = n /\ p.uid = x
        BY <2>2, <2>3 DEF PostRec
    <2>6. posts'[i] = p /\ \A j \in Posts \ {i} : posts'[j] = posts[j]
        BY <2>1 DEF Goes, OInv, TInv, PostsOK
    <2>7. Counts(n) => \A m \in Mints : m < n /\ To[m] = To[n] => Has(x, m)
        <3>0. SUFFICES ASSUME Counts(n), NEW m \in Mints, m < n, To[m] = To[n] PROVE Has(x, m)
            OBVIOUS
        <3>1. Counts(m) /\ m \in recorded
            BY <1>2, <3>0 DEF Counts
        <3> QED BY <3>0, <3>1 DEF x, GInv, RecordedNoted, Noted
    <2>8. PostKnows(i)'
        BY <1>1, <1>2, <2>5, <2>6 DEF PostKnows, x
    <2>9. queue' # queue /\ x \in Uids
        <3>1. x \in Uids
            BY <1>1, <1>4, Facts DEF x
        <3>2. DOMAIN queue' = 1..(Len(queue) + 1) /\ DOMAIN queue = 1..Len(queue) /\ Len(queue) \in Nat
            BY <2>1, Queued DEF OInv
        <3>3. Len(queue) + 1 \in DOMAIN queue' /\ Len(queue) + 1 \notin DOMAIN queue
            BY <3>2
        <3> QED BY <3>1, <3>3
    <2> QED BY <1>0, <1>1, <2>1, <2>4, <2>5, <2>6, <2>7, <2>8, <2>9, PostMinted
<1> QED BY <1>3, <1>4

LEMMA GrantMinted ==
    ASSUME OInv, GInv, NEW i \in Posts, Grant(i)
    PROVE  GInv'
<1>0. PICK n \in Mints, u \in Uids : n = posts[i].n /\ u = posts[i].uid
    BY GrantTypes DEF OInv
<1> DEFINE c == [op |-> "write", by |-> i, uid |-> u, doc |-> {n}]
<1>1. /\ TInv' /\ posts[i].at = "got" /\ posts[i].got = {} /\ n \in Mints /\ u \in Uids
      /\ queue' = Append(queue, c)
      /\ posts'[i].at = "record" /\ \A j \in Posts \ {i} : posts'[j] = posts[j]
      /\ UNCHANGED <<recorded, bound, warrant, met, place, missed>>
    BY <1>0, GrantTypes DEF OInv, Grant, redis, calls
<1>2. posts'[i].n = n
    <2>1. [posts[i] EXCEPT !.at = "record"].n = n
        BY <1>0 DEF OInv, TInv, PostsOK, PostRec
    <2> QED BY <2>1 DEF Grant, Goes, OInv, TInv, PostsOK
<1>3. c.op = "write" /\ c.uid = u /\ c.doc = {n}
    OBVIOUS
<1> HIDE DEF c
<1>4. PostKnows(i)
    BY DEF GInv
<1>5. Counts(n) => Earliest(n) /\ u = bound[To[n]]
    BY <1>0, <1>1, <1>4 DEF PostKnows, Counts
<1>6. Has(u, n)'
    <2>1. Len(queue) + 1 \in DOMAIN queue' /\ queue'[Len(queue) + 1] = c
        BY <1>1, Queued DEF OInv
    <2> QED BY <1>3, <2>1 DEF Has, WriteOf
<1>7. Counts(n)' => Noted(n)'
    BY <1>1, <1>5, <1>6 DEF Noted, Earliest, Counts
<1>8. PostKnows(i)'
    BY <1>0, <1>1, <1>2, <1>4, <1>7 DEF PostKnows, Counts, Noted, Earliest
<1> QED BY <1>1, <1>3, <1>5, <1>8, PostMinted

LEMMA RecordMinted ==
    ASSUME OInv, GInv, NEW i \in Posts, Record(i)
    PROVE  GInv'
<1>0. PICK n \in Mints : n = posts[i].n
    BY DEF OInv, TInv, PostsOK, PostRec
<1>1. /\ TInv' /\ posts[i].at = "record" /\ n \in Mints /\ GoOn(i) /\ recorded' = recorded \cup {n}
      /\ UNCHANGED <<bound, warrant, met, place, missed, queue>>
    BY <1>0, RecordTypes DEF Record, calls, OInv, TInv, PostsOK, PostRec
<1>2. /\ posts'[i].at = "check" /\ \A j \in Posts \ {i} : posts'[j] = posts[j]
      /\ \A m \in Mints : m < posts'[i].n => m <= n
    BY <1>0, <1>1, GoesOn DEF OInv
<1>3. \A m \in Mints : m <= n => m = n \/ m < n
    BY <1>1, Facts DEF Mints
<1>4. PostKnows(i)
    BY DEF GInv
<1>5. PostKnows(i)'
    BY <1>0, <1>1, <1>2, <1>3, <1>4 DEF PostKnows
<1>6. Counts(n) => Noted(n)
    BY <1>0, <1>1, <1>4 DEF PostKnows
<1> QED BY <1>1, <1>2, <1>5, <1>6, PostMinted

-----------------------------------------------------------------------------
\* Redis carries out the head of the queue: a read finds what was written before it, a
\* write leaves the mint where it was.
LEMMA CarryMinted ==
    ASSUME OInv, GInv, Carry
    PROVE  GInv'
<1> DEFINE c == Head(queue)
<1>1. /\ TInv' /\ queue # <<>> /\ queue' = Tail(queue) /\ c = queue[1]
      /\ UNCHANGED <<recorded, bound, met, missed, place>>
    BY CarryTypes DEF Carry, calls, OInv, TInv, PostsOK
<1>2. /\ DOMAIN queue = 1..Len(queue) /\ 1 \in DOMAIN queue
      /\ \A k \in DOMAIN queue' : k \in Nat \ {0} /\ k + 1 \in DOMAIN queue /\ queue'[k] = queue[k + 1]
      /\ \A k \in DOMAIN queue : k \in Int /\ (k # 1 => k - 1 \in DOMAIN queue' /\ queue'[k - 1] = queue[k])
    BY <1>1 DEF OInv, TInv, PostsOK
<1>3. /\ c.uid \in Uids /\ c.by \in Posts /\ c.doc \subseteq Mints /\ c.op \in {"read", "write"}
    BY <1>1, <1>2, Queued DEF OInv
<1>4. \/ /\ c.op = "read" /\ posts[c.by].at = "read" /\ warrant' = warrant
         /\ Goes(c.by, [posts[c.by] EXCEPT !.at = "got", !.got = warrant[c.uid]])
      \/ /\ c.op = "write" /\ posts' = posts /\ warrant' = [warrant EXCEPT ![c.uid] = c.doc]
    BY DEF Carry
<1> HIDE DEF c
<1>5. ASSUME NEW u \in Uids, NEW t \in Mints, Counts(t)
      PROVE  /\ Has(u, t) => Has(u, t)'
             /\ \A k \in DOMAIN queue' : HasAt(u, t, k + 1) => HasAt(u, t, k)'
             /\ Has(u, t)' => Has(u, t)
    <2>1. Has(u, t)' => Has(u, t)
        <3>1. t \in warrant'[u] => t \in warrant[u] \/ (WriteOf(1, u) /\ t \in queue[1].doc)
            BY <1>1, <1>2, <1>3, <1>4 DEF OInv, TInv, BaseOK, WriteOf
        <3>2. \A k \in DOMAIN queue' : WriteOf(k, u)' => WriteOf(k + 1, u) /\ queue'[k] = queue[k + 1]
            BY <1>2 DEF WriteOf
        <3> QED BY <1>2, <3>1, <3>2 DEF Has
    <2>2. t \in warrant[u] => t \in warrant'[u]
        <3>1. CASE warrant'[u] = warrant[u]
            BY <3>1
        <3>2. CASE c.op = "write" /\ c.uid = u /\ warrant'[u] = c.doc
            <4>1. PICK s \in Mints : s \in c.doc
                BY <1>1, <1>2, <1>3, <3>2 DEF GInv, WritesSome
            <4>2. Has(u, s)
                BY <1>1, <1>2, <3>2, <4>1 DEF Has, WriteOf
            <4>3. t \in warrant[u] => s = t
                BY <1>5, <4>2, OneMint DEF GInv, Has
            <4> QED BY <3>2, <4>1, <4>3
        <3> QED BY <1>3, <1>4, <3>1, <3>2 DEF OInv, TInv, BaseOK
    <2>3. ASSUME NEW k \in DOMAIN queue, WriteOf(k, u), t \in queue[k].doc
          PROVE  t \in warrant'[u] \/ (k # 1 /\ WriteOf(k - 1, u)' /\ t \in queue'[k - 1].doc)
        <3>1. CASE k = 1
            <4>1. c.op = "write" /\ c.uid = u
                BY <1>1, <2>3, <3>1 DEF WriteOf
            <4>2. warrant'[u] = c.doc
                BY <1>3, <1>4, <4>1 DEF OInv, TInv, BaseOK
            <4> QED BY <1>1, <2>3, <3>1, <4>2
        <3>2. CASE k # 1
            BY <1>2, <2>3, <3>2 DEF WriteOf
        <3> QED BY <3>1, <3>2
    <2>4. Has(u, t) => Has(u, t)'
        BY <2>2, <2>3 DEF Has, WriteOf
    <2>5. ASSUME NEW k \in DOMAIN queue', HasAt(u, t, k + 1) PROVE HasAt(u, t, k)'
        <3>1. CASE t \in warrant[u]
            BY <2>2, <3>1 DEF HasAt
        <3>2. ASSUME NEW j \in DOMAIN queue, j < k + 1, WriteOf(j, u), t \in queue[j].doc
              PROVE  HasAt(u, t, k)'
            <4>1. j - 1 < k /\ (j # 1 => j - 1 \in DOMAIN queue')
                BY <1>2, <3>2
            <4>2. t \in warrant'[u] \/ (j # 1 /\ WriteOf(j - 1, u)' /\ t \in queue'[j - 1].doc)
                BY <2>3, <3>2
            <4> QED BY <4>1, <4>2 DEF HasAt
        <3> QED BY <2>5, <3>1, <3>2 DEF HasAt
    <2> QED BY <2>1, <2>4, <2>5
<1>6. \A t : Counts(t)' <=> Counts(t)
    BY <1>1 DEF Counts
<1>7. ASSUME NEW t \in Mints, Counts(t), Noted(t) PROVE Noted(t)'
    BY <1>1, <1>5, <1>7 DEF Noted, Earliest
<1>8. FirstOnly'
    <2> SUFFICES ASSUME NEW u \in Uids, NEW t \in Mints, Has(u, t)' \/ t \in place'[u].warrant,
                        Counts(t)'
                 PROVE  Earliest(t)
        BY DEF FirstOnly, Earliest
    <2> QED BY <1>1, <1>5, <1>6 DEF GInv, FirstOnly
<1>9. WritesSome' /\ RecordedNoted'
    <2>1. recorded \subseteq Mints
        BY DEF OInv, TInv, BaseOK
    <2>2. RecordedNoted'
        BY <1>1, <1>6, <1>7, <2>1 DEF GInv, RecordedNoted
    <2>3. WritesSome'
        BY <1>2 DEF GInv, WritesSome
    <2> QED BY <2>2, <2>3
<1>10. ASSUME NEW k \in DOMAIN queue', queue'[k].op = "read" PROVE ReadOK(k)'
    <2>0. PICK j, u : j = queue[k + 1].by /\ u = queue[k + 1].uid
        OBVIOUS
    <2>1. k + 1 \in DOMAIN queue /\ queue'[k] = queue[k + 1] /\ k + 1 # 1 /\ k + 1 - 1 = k
        BY <1>2
    <2>2. ReadOK(k + 1) /\ queue[k + 1].op = "read" /\ j \in Posts /\ u \in Uids
        BY <1>10, <2>0, <2>1, Queued DEF GInv, OInv
    <2>3. posts'[j] = posts[j]
        <3>1. CASE posts' = posts
            BY <3>1
        <3>2. CASE c.op = "read" /\ Goes(c.by, [posts[c.by] EXCEPT !.at = "got", !.got = warrant[c.uid]])
            <4>1. c.by # j
                BY <1>1, <1>2, <2>0, <2>1, <2>2, <3>2 DEF ReadOK, Reads
            <4> QED BY <2>2, <3>2, <4>1 DEF Goes, OInv, TInv, PostsOK
        <3> QED BY <1>4, <3>1, <3>2
    <2>4. \A l \in DOMAIN queue' : Reads(l, j)' => l = k
        <3> SUFFICES ASSUME NEW l \in DOMAIN queue', Reads(l, j)' PROVE l = k
            OBVIOUS
        <3>1. Reads(l + 1, j)
            BY <1>2 DEF Reads
        <3>2. l + 1 = k + 1
            BY <2>0, <2>2, <3>1 DEF ReadOK, Reads
        <3> QED BY <1>2, <3>2
    <2>5. PICK n \in Mints : n = posts[j].n
        BY <2>2 DEF OInv, TInv, PostsOK, PostRec
    <2>6. Counts(n) => \A m \in Mints : m < n /\ To[m] = To[n] => Counts(m) /\ HasAt(u, m, k + 1)
        BY <2>0, <2>2, <2>5 DEF ReadOK, Counts
    <2>7. Counts(n) => \A m \in Mints : m < n /\ To[m] = To[n] => HasAt(u, m, k)'
        BY <1>5, <2>2, <2>6
    <2>8. posts'[j].at = "read" /\ posts'[j].uid = u /\ posts'[j].n = n
        BY <2>0, <2>2, <2>3, <2>5 DEF ReadOK
    <2> QED BY <1>6, <2>0, <2>1, <2>4, <2>7, <2>8 DEF ReadOK, Counts
<1>11. ASSUME NEW i \in Posts PROVE PostKnows(i)'
    <2>1. PICK n \in Mints : n = posts[i].n
        BY DEF OInv, TInv, PostsOK, PostRec
    <2>2. PostKnows(i)
        BY DEF GInv
    <2>3. CASE posts'[i] = posts[i]
        BY <1>1, <1>6, <1>7, <2>1, <2>2, <2>3 DEF PostKnows, Counts, Noted, Earliest
    <2>4. CASE /\ i = c.by /\ c.op = "read" /\ posts[i].at = "read"
               /\ Goes(i, [posts[i] EXCEPT !.at = "got", !.got = warrant[c.uid]])
        <3> DEFINE q == [posts[i] EXCEPT !.at = "got"]
                   p == [posts[i] EXCEPT !.at = "got", !.got = warrant[c.uid]]
        <3>1. q \in PostRec /\ q.at = "got" /\ q.uid = posts[i].uid /\ q.n = n
            BY <2>1 DEF OInv, TInv, PostsOK, PostRec, PostAt
        <3>2. p = [q EXCEPT !.got = warrant[c.uid]]
            OBVIOUS
        <3>3. Goes(i, p)
            BY <2>4
        <3> HIDE DEF p, q
        <3>4. p.at = "got" /\ p.uid = posts[i].uid /\ p.n = n /\ p.got = warrant[c.uid]
            BY <3>1, <3>2 DEF PostRec
        <3>5. posts'[i] = p
            BY <3>3 DEF Goes, OInv, TInv, PostsOK
        <3>6. ReadOK(1) /\ queue[1] = c
            BY <1>1, <1>2, <2>4 DEF GInv
        <3>7. Counts(n) /\ warrant[c.uid] = {} => Earliest(n)
            <4> SUFFICES ASSUME Counts(n), warrant[c.uid] = {}, NEW m \in Mints, m < n, To[m] = To[n]
                         PROVE  FALSE
                BY DEF Earliest
            <4>1. HasAt(c.uid, m, 1)
                BY <2>1, <2>4, <3>6 DEF ReadOK
            <4> QED BY <1>2, <4>1 DEF HasAt
        <3>8. \A m \in Mints : m < n => m \in recorded
            BY <2>1, <2>2 DEF PostKnows
        <3>9. Counts(n) => posts[i].uid = bound[To[n]]
            BY <2>1, <2>2, <2>4 DEF PostKnows
        <3> QED BY <1>1, <1>6, <3>4, <3>5, <3>7, <3>8, <3>9 DEF PostKnows, Counts, Earliest
    <2> QED BY <1>3, <1>4, <2>3, <2>4 DEF Goes, OInv, TInv, PostsOK
<1> QED BY <1>8, <1>9, <1>10, <1>11 DEF GInv

\* At an end of the process what is on its way is written, and every handler begins
\* again.
LEMMA EndMinted ==
    ASSUME OInv, GInv, ProcessEnds
    PROVE  GInv'
<1>1. PICK last \in [Uids -> 0..Len(queue)] :
          /\ \A u \in Uids : Stays(u, last[u])
          /\ warrant' = [u \in Uids |-> IF last[u] = 0 THEN warrant[u] ELSE queue[last[u]].doc]
    BY DEF ProcessEnds
<1>2. /\ queue' = <<>> /\ UNCHANGED <<recorded, bound, met, missed>>
      /\ \A i \in Posts : posts'[i].at = "check" /\ posts'[i].n = 1
      /\ \A u \in Uids : place'[u].warrant = {}
    BY Blanks DEF ProcessEnds, First
<1>3. \A k \in DOMAIN queue : queue[k].doc \subseteq Mints
    BY Queued DEF OInv
<1>4. ASSUME NEW u \in Uids
      PROVE  \/ warrant'[u] = warrant[u] /\ \A k \in DOMAIN queue : ~WriteOf(k, u)
             \/ \E k \in DOMAIN queue : WriteOf(k, u) /\ warrant'[u] = queue[k].doc
    <2>1. CASE Written(u) = {}
        <3>1. last[u] = 0
            BY <1>1, <2>1 DEF Stays
        <3> QED BY <1>1, <2>1, <3>1 DEF Written, WriteOf
    <2>2. CASE Written(u) # {}
        <3>1. last[u] \in Written(u)
            BY <1>1, <2>2 DEF Stays
        <3>2. last[u] \in DOMAIN queue /\ last[u] # 0
            BY <3>1, Queued DEF Written, OInv
        <3> QED BY <1>1, <3>1, <3>2 DEF Written, WriteOf
    <2> QED BY <2>1, <2>2
<1>5. ASSUME NEW u \in Uids, NEW t \in Mints
      PROVE  /\ Has(u, t)' <=> t \in warrant'[u]
             /\ Has(u, t)' => Has(u, t)
    BY <1>2, <1>4 DEF Has
<1>6. ASSUME NEW u \in Uids, NEW t \in Mints, Counts(t), Has(u, t)
      PROVE  Has(u, t)'
    <2>1. CASE warrant'[u] = warrant[u] /\ \A k \in DOMAIN queue : ~WriteOf(k, u)
        BY <1>5, <1>6, <2>1 DEF Has
    <2>2. ASSUME NEW k \in DOMAIN queue, WriteOf(k, u), warrant'[u] = queue[k].doc
          PROVE  Has(u, t)'
        <3>1. PICK s \in Mints : s \in queue[k].doc
            BY <1>3, <2>2 DEF GInv, WritesSome, WriteOf
        <3>2. s = t
            BY <1>6, <2>2, <3>1, OneMint DEF GInv, Has
        <3> QED BY <1>5, <2>2, <3>1, <3>2
    <2> QED BY <1>4, <2>1, <2>2
<1>7. FirstOnly'
    <2> SUFFICES ASSUME NEW u \in Uids, NEW t \in Mints, Has(u, t)' \/ t \in place'[u].warrant,
                        Counts(t)'
                 PROVE  Earliest(t)
        BY DEF FirstOnly, Earliest
    <2> QED BY <1>2, <1>5 DEF GInv, FirstOnly, Counts
<1>8. RecordedNoted'
    <2> SUFFICES ASSUME NEW t \in recorded', Counts(t)' PROVE Noted(t)'
        BY DEF RecordedNoted
    <2>1. t \in recorded /\ Counts(t) /\ t \in Mints
        BY <1>2 DEF Counts, OInv, TInv, BaseOK
    <2>2. Noted(t)
        BY <2>1 DEF GInv, RecordedNoted
    <2> QED BY <1>2, <1>6, <2>1, <2>2 DEF Noted, Earliest
<1>9. \A i \in Posts : PostKnows(i)'
    <2>1. \A m \in Mints : ~(m < 1)
        BY Facts DEF Mints
    <2> QED BY <1>2, <2>1 DEF PostKnows
<1>10. WritesSome' /\ \A k \in DOMAIN queue' : queue'[k].op = "read" => ReadOK(k)'
    BY <1>2 DEF WritesSome
<1> QED BY <1>7, <1>8, <1>9, <1>10 DEF GInv

LEMMA NextMinted == OInv /\ MInv /\ GInv /\ [Next]_vars => GInv'
<1> SUFFICES ASSUME OInv, MInv, GInv, [Next]_vars PROVE GInv'
    OBVIOUS
<1>1. CASE \/ \E a \in Asks : (\E w \in Wallets : Ask(a, w)) \/ Number(a) \/ Bind(a) \/ Write(a)
           \/ Answer
    BY <1>1, CallsMinted
<1>2. CASE Carry \/ ProcessEnds
    BY <1>2, CarryMinted, EndMinted
<1>3. CASE \E i \in Posts : Check(i) \/ Find(i) \/ Grant(i) \/ Record(i) \/ Add(i)
    BY <1>3, CheckMinted, FindMinted, GrantMinted, RecordMinted, EndMinted DEF Add
<1>4. CASE \/ \E ans \in answered : LogIn(ans)
           \/ \E u \in Uids : Flush(u) \/ Leave(u) \/ Enter(u)
    BY <1>4, WorkersMinted
<1>5. CASE UNCHANGED vars
    <2>1. UNCHANGED <<recorded, posts, queue, missed, warrant, place, bound, met>>
        BY <1>5 DEF vars, redis, calls, watcher
    <2> QED BY <2>1, MintedStays
<1> QED BY <1>1, <1>2, <1>3, <1>4, <1>5 DEF Next

\* A recorded mint is in its user's document or in a write on its way there, and no
\* worker's copy and no later write takes it away, unless its wallet asked twice at
\* once or had no user when the watcher looked.
THEOREM RecordedIsMinted == Spec => []Minted
<1>1. OInv /\ MInv /\ GInv /\ [Next]_vars => OInv' /\ MInv' /\ GInv'
    BY NextOwned, NextSame, NextMinted
<1> QED BY <1>1, InitOwned, InitSame, InitMinted, MintedHolds, PTL DEF Spec
=============================================================================
