----------------------------- MODULE ForumProofs -----------------------------
(* Theorems about Forum, for any accounts, any posts and any finite number   *)
(* of requests at a time.                                                    *)
EXTENDS Forum, Integers, FiniteSetTheorems, TLAPS

(* There is an address and a post to speak of. *)
SomeOfEach == Users # {} /\ Posts # {}

-----------------------------------------------------------------------------
(* Type correctness *)

(* A slot that holds no request has the type of one. *)
LEMMA IdleType ==
  ASSUME SomeOfEach
  PROVE  Idle \in RequestStates
<1>1. (CHOOSE u \in Users : TRUE) \in Users /\ (CHOOSE p \in Posts : TRUE) \in Posts
  BY DEF SomeOfEach
<1> QED BY <1>1 DEF Idle, RequestStates, Ops, NoPost, Rows, Flags, Asked

(* The slots keep their type when a request begins, goes on and ends. *)
LEMMA SlotTypes ==
  ASSUME SomeOfEach, TypeOK, NEW r \in Requests
  PROVE  /\ req[r] \in RequestStates
         /\ Finish(r) => req' \in [Requests -> RequestStates]
         /\ \A step \in {"user", "post", "write"} :
              Goto(r, step) => req' \in [Requests -> RequestStates]
         /\ \A request \in RequestStates :
              Begin(r, request) => req' \in [Requests -> RequestStates]
BY IdleType DEF TypeOK, Finish, Goto, Begin, RequestStates

(* The requests that members begin. *)
LEMMA BegunTypes ==
  ASSUME SomeOfEach, NEW u \in Users, NEW p \in Posts, NEW special \in BOOLEAN
  PROVE  /\ [Idle EXCEPT !.op = "register", !.user = u] \in RequestStates
         /\ [Idle EXCEPT !.op = "post", !.user = u, !.post = p, !.special = special]
              \in RequestStates
         /\ [Idle EXCEPT !.op = "comment", !.user = u, !.post = p] \in RequestStates
BY IdleType DEF RequestStates, Ops

(* The requests that operators begin. *)
LEMMA BegunByOperators ==
  ASSUME SomeOfEach, NEW p \in Posts, NEW pin \in Asked, NEW lock \in Asked
  PROVE  /\ [Idle EXCEPT !.op = "moderate", !.step = "post", !.post = p,
                         !.pin = pin, !.lock = lock] \in RequestStates
         /\ [Idle EXCEPT !.op = "delete", !.step = "post", !.post = p] \in RequestStates
BY IdleType DEF RequestStates, Ops

(* Counting one more keeps the counters natural numbers. *)
LEMMA CountedType ==
  ASSUME NEW S, NEW since \in [S -> Nat], NEW x \in S, NEW held
  PROVE  Counted(since, x, held) \in [S -> Nat]
BY DEF Counted

(* Accounts: registrations, sessions and bars. *)
LEMMA AccountsKeepTypes ==
  ASSUME SomeOfEach, TypeOK,
         \/ \E r \in Requests : \/ \E u \in Users : Register(r, u)
                                \/ FindAccount(r) \/ CreateAccount(r)
         \/ \E u \in Users : \/ LogIn(u) \/ EndSession(u)
                             \/ \E canPost \in BOOLEAN : SetCanPost(u, canPost)
  PROVE  TypeOK'
<1>1. CASE \E r \in Requests, u \in Users : Register(r, u)
  <2>1. PICK r \in Requests, u \in Users : Register(r, u)
    BY <1>1
  <2>2. req' \in [Requests -> RequestStates]
    <3>1. \E p \in Posts : TRUE
      BY DEF SomeOfEach
    <3> QED BY <2>1, <3>1, SlotTypes, BegunTypes DEF Register
  <2> QED BY <2>1, <2>2 DEF Register, TypeOK
<1>2. CASE \E r \in Requests : FindAccount(r)
  BY <1>2, SlotTypes DEF FindAccount, TypeOK
<1>3. CASE \E r \in Requests : CreateAccount(r)
  <2>1. PICK r \in Requests : CreateAccount(r)
    BY <1>3
  <2>2. req[r].user \in Users
    BY SlotTypes DEF RequestStates
  <2> QED BY <2>1, <2>2, SlotTypes DEF CreateAccount, SignsIn, TypeOK
<1>4. CASE \E u \in Users : LogIn(u) \/ EndSession(u)
  BY <1>4 DEF LogIn, EndSession, SignsIn, SignsOut, TypeOK
<1>5. CASE \E u \in Users, canPost \in BOOLEAN : SetCanPost(u, canPost)
  <2>1. PICK u \in Users, canPost \in BOOLEAN : SetCanPost(u, canPost)
    BY <1>5
  <2>2. user' \in [Users -> {"none", "canPost", "barred"}]
    BY <2>1 DEF SetCanPost, TypeOK
  <2>3. sinceBar' \in [Users -> Nat]
    BY <2>1 DEF SetCanPost, TypeOK
  <2> QED BY <2>1, <2>2, <2>3 DEF SetCanPost, TypeOK
<1> QED BY <1>1, <1>2, <1>3, <1>4, <1>5

(* Posts and comments. *)
LEMMA ContributionsKeepTypes ==
  ASSUME SomeOfEach, TypeOK, NEW r \in Requests,
         \/ \E u \in Users, p \in Posts :
              \/ \E special \in BOOLEAN : StartPost(r, u, p, special)
              \/ StartComment(r, u, p)
         \/ RequireUser(r) \/ FindPost(r) \/ CreatePost(r) \/ CreateComment(r)
  PROVE  TypeOK'
<1>1. req[r].user \in Users /\ req[r].post \in Posts
  BY SlotTypes DEF RequestStates
<1>2. CASE \E u \in Users, p \in Posts, special \in BOOLEAN : StartPost(r, u, p, special)
  BY <1>2, SlotTypes, BegunTypes DEF StartPost, TypeOK
<1>3. CASE \E u \in Users, p \in Posts : StartComment(r, u, p)
  BY <1>3, SlotTypes, BegunTypes DEF StartComment, TypeOK
<1>4. CASE RequireUser(r) \/ FindPost(r)
  BY <1>4, SlotTypes DEF RequireUser, FindPost, TypeOK
<1>5. CASE CreatePost(r)
  <2>1. post' \in [Posts -> Rows]
    BY <1>1, <1>5 DEF CreatePost, TypeOK, Rows
  <2>2. sinceBar' \in [Users -> Nat]
    BY <1>1, <1>5, CountedType DEF CreatePost, TypeOK
  <2> QED BY <1>5, <2>1, <2>2, SlotTypes DEF CreatePost, TypeOK
<1>6. CASE CreateComment(r)
  <2>1. sinceBar' \in [Users -> Nat] /\ sinceLock' \in [Posts -> Nat]
    BY <1>1, <1>6, CountedType DEF CreateComment, TypeOK
  <2> QED BY <1>6, <2>1, SlotTypes DEF CreateComment, TypeOK
<1> QED BY <1>2, <1>3, <1>4, <1>5, <1>6

(* A moderated row is a row. *)
LEMMA ModeratedType ==
  ASSUME SomeOfEach, TypeOK, NEW r \in Requests, NEW row \in Rows
  PROVE  Moderated(r, row) \in Rows
<1>1. req[r].pin \in Asked /\ req[r].lock \in Asked
  BY SlotTypes DEF RequestStates
<1>2. AskedOr(req[r].pin, row.pinned) \in Flags /\ AskedOr(req[r].lock, row.locked) \in Flags
  BY <1>1 DEF AskedOr, Asked, Rows
<1> QED BY <1>2 DEF Moderated, Rows

(* What operators do to posts. *)
LEMMA ModerationKeepsTypes ==
  ASSUME SomeOfEach, TypeOK, NEW r \in Requests,
         \/ \E p \in Posts : \/ \E pin \in Asked, lock \in Asked : Moderate(r, p, pin, lock)
                             \/ Delete(r, p)
         \/ FindModerated(r) \/ UpdatePost(r) \/ DeletePost(r)
  PROVE  TypeOK'
<1>1. req[r].post \in Posts
  BY SlotTypes DEF RequestStates
<1>2. CASE \E p \in Posts, pin \in Asked, lock \in Asked : Moderate(r, p, pin, lock)
  BY <1>2, SlotTypes, BegunByOperators DEF Moderate, TypeOK
<1>3. CASE \E p \in Posts : Delete(r, p)
  <2>1. "keep" \in Asked
    BY DEF Asked
  <2> QED BY <1>3, <2>1, SlotTypes, BegunByOperators DEF Delete, TypeOK
<1>4. CASE FindModerated(r)
  <2> DEFINE request == [req[r] EXCEPT !.step = "write", !.found = post[req[r].post]]
  <2>1. request \in RequestStates
    BY <1>1, SlotTypes DEF TypeOK, RequestStates
  <2>2. req' = [req EXCEPT ![r] = request] \/ Finish(r)
    BY <1>4 DEF FindModerated
  <2> HIDE DEF request
  <2> QED BY <1>4, <2>1, <2>2, SlotTypes DEF FindModerated, TypeOK
<1>5. CASE UpdatePost(r)
  <2>1. post' \in [Posts -> Rows]
    BY <1>1, <1>5, ModeratedType DEF UpdatePost, TypeOK
  <2>2. sinceLock' \in [Posts -> Nat]
    BY <1>1, <1>5 DEF UpdatePost, TypeOK
  <2> QED BY <1>5, <2>1, <2>2, SlotTypes DEF UpdatePost, TypeOK
<1>6. CASE DeletePost(r)
  <2>1. [NoPost EXCEPT !.there = "gone"] \in Rows
    BY DEF NoPost, Rows, Flags
  <2> QED BY <1>1, <1>6, <2>1, SlotTypes DEF DeletePost, TypeOK
<1> QED BY <1>2, <1>3, <1>4, <1>5, <1>6

(* Every step keeps the types. *)
LEMMA TypesAreKept ==
  ASSUME SomeOfEach, TypeOK, [Next]_vars
  PROVE  TypeOK'
<1>1. CASE UNCHANGED vars
  BY <1>1 DEF vars, TypeOK
<1> QED BY <1>1, AccountsKeepTypes, ContributionsKeepTypes, ModerationKeepsTypes DEF Next

(* The initial state has them. *)
LEMMA InitialTypes ==
  ASSUME SomeOfEach, Init
  PROVE  TypeOK
<1>1. NoPost \in Rows
  BY DEF NoPost, Rows, Flags
<1> QED BY <1>1, IdleType DEF Init, TypeOK

(* The variables of the forum keep their types. *)
THEOREM TypeCorrect ==
  ASSUME SomeOfEach
  PROVE  Spec => []TypeOK
<1>1. Init => TypeOK
  BY InitialTypes
<1>2. TypeOK /\ [Next]_vars => TypeOK'
  BY TypesAreKept
<1> QED BY <1>1, <1>2, PTL DEF Spec

-----------------------------------------------------------------------------
(* Flags *)

(* A flag that changes was asked for. *)
LEMMA ChangedAsAsked ==
  ASSUME NEW asked, NEW flag, AskedOr(asked, flag) # flag
  PROVE  AskedOr(asked, flag) = asked
BY DEF AskedOr

(* Whatever requests of two operators interleave, a flag changes only to what
   the request that is carried out asks for. *)
THEOREM FlagsAreHeld ==
  ASSUME SomeOfEach
  PROVE  Spec => FlagsHold
<1> DEFINE Asks(r, p) == At(r, "moderate", "write") /\ req[r].post = p
           Held(p) ==
             /\ post'[p].locked # post[p].locked =>
                  \E r \in Requests : Asks(r, p) /\ req[r].lock = post'[p].locked
             /\ post'[p].pinned # post[p].pinned =>
                  \E r \in Requests : Asks(r, p) /\ req[r].pin = post'[p].pinned
<1>1. ASSUME TypeOK, Next, NEW p \in Posts, post[p].there = "up", post'[p].there = "up"
      PROVE  Held(p)
  <2>1. CASE UNCHANGED post
    BY <2>1
  <2>2. CASE \E r \in Requests : CreatePost(r)
    <3>1. PICK r \in Requests : CreatePost(r)
      BY <2>2
    <3>2. CASE UNCHANGED post
      BY <3>2
    <3>3. CASE post' = [post EXCEPT ![req[r].post].there = "up"]
      <4>1. post'[p].locked = post[p].locked /\ post'[p].pinned = post[p].pinned
        BY <1>1, <3>3 DEF TypeOK, Rows
      <4> QED BY <4>1
    <3> QED BY <3>1, <3>2, <3>3 DEF CreatePost
  <2>3. CASE \E r \in Requests : UpdatePost(r)
    <3>1. PICK r \in Requests : UpdatePost(r)
      BY <2>3
    <3>2. CASE req[r].post # p
      <4>1. post'[p] = post[p]
        BY <1>1, <3>1, <3>2 DEF UpdatePost, TypeOK
      <4> QED BY <4>1
    <3>3. CASE req[r].post = p
      <4>1. post'[p] = Moderated(r, post[p]) /\ Asks(r, p)
        BY <1>1, <3>1, <3>3 DEF UpdatePost, TypeOK
      <4>2. /\ post'[p].pinned = AskedOr(req[r].pin, post[p].pinned)
            /\ post'[p].locked = AskedOr(req[r].lock, post[p].locked)
        BY <1>1, <4>1 DEF Moderated, TypeOK, Rows
      <4> QED BY <4>1, <4>2, ChangedAsAsked
    <3> QED BY <3>2, <3>3
  <2>4. CASE \E r \in Requests : DeletePost(r)
    <3>1. PICK r \in Requests : DeletePost(r)
      BY <2>4
    <3>2. req[r].post # p
      BY <1>1, <3>1 DEF DeletePost, TypeOK, NoPost
    <3>3. post'[p] = post[p]
      BY <1>1, <3>1, <3>2 DEF DeletePost, TypeOK
    <3> QED BY <3>3
  <2> QED BY <1>1, <2>1, <2>2, <2>3, <2>4
        DEF Next, Register, FindAccount, CreateAccount, StartPost, StartComment,
            RequireUser, FindPost, CreateComment, Moderate, Delete, FindModerated,
            LogIn, EndSession, SetCanPost
<1>2. TypeOK /\ [Next]_vars =>
        [\A p \in Posts : post[p].there = "up" /\ post'[p].there = "up" => Held(p)]_vars
  BY <1>1
<1>3. Spec => []TypeOK
  BY TypeCorrect
<1> QED BY <1>2, <1>3, PTL DEF Spec, FlagsHold

-----------------------------------------------------------------------------
(* Bars and locks *)

(* The counters run while a bar or a lock lasts, and are 0 otherwise. *)
CountersStart ==
  /\ \A u \in Users : sinceBar[u] # 0 => user[u] = "barred"
  /\ \A p \in Posts : sinceLock[p] # 0 => post[p].locked = "on"

BarInv == TypeOK /\ CountersStart /\ BarsTakeHold

(* A step adds no request to those past a bar, and if it counts a
   contribution it takes the one that made it away. *)
Dwindles(count, next, past, left) ==
  \/ next = 0
  \/ next = count /\ left \subseteq past
  \/ next = count + 1 /\ \E r \in past : left \subseteq past \ {r}

(* Counted and still under way, they stay within the number of requests. *)
LEMMA DwindlingStays ==
  ASSUME IsFiniteSet(Requests),
         NEW count \in Nat, NEW next \in Nat,
         NEW past \in SUBSET Requests, NEW left \in SUBSET Requests,
         Dwindles(count, next, past, left),
         count # 0 => count + Cardinality(past) =< Cardinality(Requests)
  PROVE  next + Cardinality(left) =< Cardinality(Requests)
<1>1. /\ IsFiniteSet(past) /\ IsFiniteSet(left)
      /\ Cardinality(past) =< Cardinality(Requests)
      /\ Cardinality(left) =< Cardinality(Requests)
  BY FS_Subset
<1>2. /\ Cardinality(past) \in Nat /\ Cardinality(left) \in Nat
      /\ Cardinality(Requests) \in Nat
  BY <1>1, FS_CardinalityType
<1>3. count + Cardinality(past) =< Cardinality(Requests)
  BY <1>1, <1>2
<1>4. CASE next = 0
  BY <1>1, <1>2, <1>4
<1>5. CASE next = count /\ left \subseteq past
  <2>1. Cardinality(left) =< Cardinality(past)
    BY <1>1, <1>5, FS_Subset
  <2> QED BY <1>2, <1>3, <1>5, <2>1
<1>6. CASE next = count + 1 /\ \E r \in past : left \subseteq past \ {r}
  <2>1. PICK r \in past : left \subseteq past \ {r}
    BY <1>6
  <2>2. IsFiniteSet(past \ {r}) /\ Cardinality(past \ {r}) = Cardinality(past) - 1
    BY <1>1, FS_RemoveElement
  <2>3. Cardinality(left) =< Cardinality(past \ {r})
    BY <2>1, <2>2, FS_Subset
  <2> QED BY <1>2, <1>3, <1>6, <2>2, <2>3
<1> QED BY <1>4, <1>5, <1>6 DEF Dwindles

(* The request in a slot is past the bar on u, or past the look at p's lock. *)
PassedBar(slot, u) == slot.user = u /\ slot.op \in {"post", "comment"} /\ slot.step # "user"
PassedLock(slot, p) == slot.op = "comment" /\ slot.step = "write" /\ slot.post = p

(* What a step that changes one slot makes of the requests that have passed. *)
LEMMA OneSlotChanges ==
  ASSUME TypeOK, NEW r \in Requests, NEW slot, req' = [req EXCEPT ![r] = slot],
         NEW u, NEW p
  PROVE  /\ (PassedBar(slot, u) => PassedBar(req[r], u))
              => PastBar(u)' \subseteq PastBar(u)
         /\ ~PassedBar(slot, u) => PastBar(u)' \subseteq PastBar(u) \ {r}
         /\ ~PassedLock(slot, p) => PastLock(p)' \subseteq PastLock(p) \ {r}
BY DEF TypeOK, PassedBar, PassedLock, PastBar, PastLock, At

(* An idle slot has passed nothing. *)
LEMMA IdlePassedNothing ==
  ASSUME NEW u, NEW p
  PROVE  ~PassedBar(Idle, u) /\ ~PassedLock(Idle, p)
BY DEF Idle, PassedBar, PassedLock

(* When a request ends, it is no longer among those that have passed. *)
LEMMA FinishedIsOut ==
  ASSUME TypeOK, NEW r \in Requests, Finish(r), NEW u, NEW p
  PROVE  PastBar(u)' \subseteq PastBar(u) \ {r} /\ PastLock(p)' \subseteq PastLock(p) \ {r}
BY OneSlotChanges, IdlePassedNothing DEF Finish

(* A request that begins has passed nothing yet. *)
LEMMA BegunIsOut ==
  ASSUME TypeOK, NEW r \in Requests, NEW request, Begin(r, request), NEW u, NEW p,
         request.op \in {"post", "comment"} => request.step = "user"
  PROVE  PastBar(u)' \subseteq PastBar(u) /\ PastLock(p)' \subseteq PastLock(p)
<1>1. ~PassedBar(request, u) /\ ~PassedLock(request, p)
  BY DEF PassedBar, PassedLock
<1> QED BY <1>1, OneSlotChanges DEF Begin

(* The requests that begin: none has passed a bar or the look at a lock. *)
LEMMA BeginningsAddNothing ==
  ASSUME TypeOK, NEW r \in Requests, NEW u, NEW p,
         \/ \E v \in Users : Register(r, v)
         \/ \E v \in Users, q \in Posts :
              \/ \E special \in BOOLEAN : StartPost(r, v, q, special)
              \/ StartComment(r, v, q)
         \/ \E q \in Posts : \/ \E pin \in Asked, lock \in Asked : Moderate(r, q, pin, lock)
                             \/ Delete(r, q)
  PROVE  PastBar(u)' \subseteq PastBar(u) /\ PastLock(p)' \subseteq PastLock(p)
<1>1. CASE \E v \in Users : Register(r, v)
  <2>1. PICK v \in Users : Register(r, v)
    BY <1>1
  <2> DEFINE request == [Idle EXCEPT !.op = "register", !.user = v]
  <2>2. Begin(r, request)
    BY <2>1 DEF Register
  <2>3. request.step = "user"
    BY DEF Idle
  <2> HIDE DEF request
  <2> QED BY <2>2, <2>3, BegunIsOut
<1>2. CASE \E v \in Users, q \in Posts, special \in BOOLEAN : StartPost(r, v, q, special)
  <2>1. PICK v \in Users, q \in Posts, special \in BOOLEAN : StartPost(r, v, q, special)
    BY <1>2
  <2> DEFINE request == [Idle EXCEPT !.op = "post", !.user = v, !.post = q, !.special = special]
  <2>2. Begin(r, request)
    BY <2>1 DEF StartPost
  <2>3. request.step = "user"
    BY DEF Idle
  <2> HIDE DEF request
  <2> QED BY <2>2, <2>3, BegunIsOut
<1>3. CASE \E v \in Users, q \in Posts : StartComment(r, v, q)
  <2>1. PICK v \in Users, q \in Posts : StartComment(r, v, q)
    BY <1>3
  <2> DEFINE request == [Idle EXCEPT !.op = "comment", !.user = v, !.post = q]
  <2>2. Begin(r, request)
    BY <2>1 DEF StartComment
  <2>3. request.step = "user"
    BY DEF Idle
  <2> HIDE DEF request
  <2> QED BY <2>2, <2>3, BegunIsOut
<1>4. CASE \E q \in Posts, pin \in Asked, lock \in Asked : Moderate(r, q, pin, lock)
  <2>1. PICK q \in Posts, pin \in Asked, lock \in Asked : Moderate(r, q, pin, lock)
    BY <1>4
  <2> DEFINE request == [Idle EXCEPT !.op = "moderate", !.step = "post", !.post = q,
                                  !.pin = pin, !.lock = lock]
  <2>2. Begin(r, request)
    BY <2>1 DEF Moderate
  <2>3. request.op \notin {"post", "comment"}
    BY DEF Idle
  <2> HIDE DEF request
  <2> QED BY <2>2, <2>3, BegunIsOut
<1>5. CASE \E q \in Posts : Delete(r, q)
  <2>1. PICK q \in Posts : Delete(r, q)
    BY <1>5
  <2> DEFINE request == [Idle EXCEPT !.op = "delete", !.step = "post", !.post = q]
  <2>2. Begin(r, request)
    BY <2>1 DEF Delete
  <2>3. request.op \notin {"post", "comment"}
    BY DEF Idle
  <2> HIDE DEF request
  <2> QED BY <2>2, <2>3, BegunIsOut
<1> QED BY <1>1, <1>2, <1>3, <1>4, <1>5

(* The requests that go on from one step to the next: none goes past the bar
   of a barred account, nor past the lock of a locked post. *)
LEMMA GoingOnAddsNothing ==
  ASSUME TypeOK, NEW r \in Requests, NEW u, NEW p,
         FindAccount(r) \/ RequireUser(r) \/ FindPost(r) \/ FindModerated(r)
  PROVE  /\ user[u] = "barred" => PastBar(u)' \subseteq PastBar(u)
         /\ post[p].locked = "on" => PastLock(p)' \subseteq PastLock(p)
<1>1. CASE Finish(r)
  BY <1>1, FinishedIsOut
<1>2. ASSUME NEW step, Goto(r, step),
             user[u] = "barred" =>
               (PassedBar([req[r] EXCEPT !.step = step], u) => PassedBar(req[r], u)),
             post[p].locked = "on" => ~PassedLock([req[r] EXCEPT !.step = step], p)
      PROVE  /\ user[u] = "barred" => PastBar(u)' \subseteq PastBar(u)
             /\ post[p].locked = "on" => PastLock(p)' \subseteq PastLock(p)
  <2> DEFINE slot == [req[r] EXCEPT !.step = step]
  <2>1. req' = [req EXCEPT ![r] = slot]
    BY <1>2 DEF Goto
  <2> HIDE DEF slot
  <2>2. /\ user[u] = "barred" => (PassedBar(slot, u) => PassedBar(req[r], u))
        /\ post[p].locked = "on" => ~PassedLock(slot, p)
    BY <1>2 DEF slot
  <2> QED BY <2>1, <2>2, OneSlotChanges
<1>3. \A step : LET slot == [req[r] EXCEPT !.step = step]
                IN slot.user = req[r].user /\ slot.op = req[r].op /\ slot.post = req[r].post
                   /\ slot.step = step
  BY DEF TypeOK, RequestStates
<1>4. CASE FindAccount(r)
  <2>1. Goto(r, "write") \/ Finish(r)
    BY <1>4 DEF FindAccount
  <2>2. req[r].op = "register"
    BY <1>4 DEF FindAccount, At
  <2> QED BY <1>1, <1>2, <1>3, <2>1, <2>2 DEF PassedBar, PassedLock
<1>5. CASE RequireUser(r) /\ ~Finish(r)
  <2>1. user[req[r].user] = "canPost"
    BY <1>5 DEF RequireUser, MayContribute
  <2>2. \/ Goto(r, "write") /\ req[r].op = "post"
        \/ Goto(r, "post") /\ req[r].op = "comment"
    BY <1>5 DEF RequireUser
  <2>3. user[u] = "barred" => req[r].user # u
    BY <2>1
  <2> QED BY <1>2, <1>3, <2>2, <2>3 DEF PassedBar, PassedLock
<1>6. CASE FindPost(r) /\ ~Finish(r)
  <2>1. Goto(r, "write") /\ req[r].op = "comment" /\ req[r].step = "post"
        /\ post[req[r].post].locked = "off"
    BY <1>6 DEF FindPost, At
  <2>2. post[p].locked = "on" => req[r].post # p
    BY <2>1
  <2> QED BY <1>2, <1>3, <2>1, <2>2 DEF PassedBar, PassedLock
<1>7. CASE FindModerated(r) /\ ~Finish(r)
  <2> DEFINE slot == [req[r] EXCEPT !.step = "write", !.found = post[req[r].post]]
  <2>1. req' = [req EXCEPT ![r] = slot] /\ req[r].op \in {"moderate", "delete"}
    BY <1>7 DEF FindModerated, At
  <2>2. slot.op = req[r].op
    BY DEF TypeOK, RequestStates
  <2> HIDE DEF slot
  <2>3. ~PassedBar(slot, u) /\ ~PassedLock(slot, p)
    BY <2>1, <2>2 DEF PassedBar, PassedLock
  <2> QED BY <2>1, <2>3, OneSlotChanges
<1> QED BY <1>1, <1>4, <1>5, <1>6, <1>7

(* What is counted of an account. *)
LEMMA BarDwindles ==
  ASSUME TypeOK, CountersStart, Next, NEW u \in Users
  PROVE  /\ user'[u] = "barred" =>
              Dwindles(sinceBar[u], sinceBar'[u], PastBar(u), PastBar(u)')
         /\ sinceBar'[u] # 0 => user'[u] = "barred"
<1> DEFINE Goal ==
      /\ user'[u] = "barred" =>
           Dwindles(sinceBar[u], sinceBar'[u], PastBar(u), PastBar(u)')
      /\ sinceBar'[u] # 0 => user'[u] = "barred"
<1>1. ASSUME UNCHANGED <<user, sinceBar>>,
             user[u] = "barred" => PastBar(u)' \subseteq PastBar(u)
      PROVE  Goal
  BY <1>1 DEF Dwindles, CountersStart
<1>2. ASSUME NEW r \in Requests, CreateAccount(r) PROVE Goal
  <2>1. user'[u] = user[u] \/ user[u] = "none"
    BY <1>2 DEF CreateAccount, TypeOK
  <2>2. PastBar(u)' \subseteq PastBar(u) /\ sinceBar' = sinceBar
    BY <1>2, FinishedIsOut DEF CreateAccount
  <2> QED BY <2>1, <2>2 DEF Dwindles, CountersStart
<1>3. ASSUME NEW v \in Users, NEW canPost \in BOOLEAN, SetCanPost(v, canPost) PROVE Goal
  <2>1. PastBar(u)' = PastBar(u)
    BY <1>3 DEF SetCanPost, PastBar
  <2>2. CASE v # u
    <3>1. user'[u] = user[u] /\ sinceBar'[u] = sinceBar[u]
      BY <1>3, <2>2 DEF SetCanPost, TypeOK
    <3> QED BY <2>1, <3>1 DEF Dwindles, CountersStart
  <2>3. CASE v = u /\ canPost
    <3>1. user'[u] = "canPost" /\ sinceBar'[u] = 0
      BY <1>3, <2>3 DEF SetCanPost, TypeOK
    <3> QED BY <3>1
  <2>4. CASE v = u /\ ~canPost
    <3>1. user'[u] = "barred" /\ sinceBar'[u] = sinceBar[u]
      BY <1>3, <2>4 DEF SetCanPost, TypeOK
    <3> QED BY <2>1, <3>1 DEF Dwindles
  <2> QED BY <2>2, <2>3, <2>4
<1>4. ASSUME NEW r \in Requests, Finish(r), UNCHANGED user, PassedBar(req[r], req[r].user),
             NEW held, sinceBar' = Counted(sinceBar, req[r].user, held),
             held => user[req[r].user] = "barred"
      PROVE  Goal
  <2>1. PastBar(u)' \subseteq PastBar(u) \ {r}
    BY <1>4, FinishedIsOut
  <2>2. CASE sinceBar'[u] = sinceBar[u]
    BY <1>4, <2>1, <2>2 DEF Dwindles, CountersStart
  <2>3. CASE sinceBar'[u] # sinceBar[u]
    <3>1. req[r].user = u /\ held /\ sinceBar'[u] = sinceBar[u] + 1
      BY <1>4, <2>3 DEF Counted, TypeOK
    <3>2. r \in PastBar(u)
      BY <1>4, <3>1 DEF PassedBar, PastBar
    <3> QED BY <1>4, <2>1, <3>1, <3>2 DEF Dwindles
  <2> QED BY <2>2, <2>3
<1>5. ASSUME NEW r \in Requests, CreatePost(r) PROVE Goal
  <2>1. Finish(r) /\ UNCHANGED user /\ PassedBar(req[r], req[r].user)
    BY <1>5 DEF CreatePost, At, PassedBar
  <2>2. \/ sinceBar' = Counted(sinceBar, req[r].user, user[req[r].user] = "barred")
        \/ sinceBar' = Counted(sinceBar, req[r].user, FALSE)
    BY <1>5 DEF CreatePost, Counted
  <2> QED BY <1>4, <2>1, <2>2
<1>6. ASSUME NEW r \in Requests, CreateComment(r) PROVE Goal
  <2> DEFINE held == post[req[r].post].there = "up" /\ user[req[r].user] = "barred"
  <2>1. Finish(r) /\ UNCHANGED user /\ PassedBar(req[r], req[r].user)
        /\ sinceBar' = Counted(sinceBar, req[r].user, held)
    BY <1>6 DEF CreateComment, At, PassedBar
  <2>2. held => user[req[r].user] = "barred"
    OBVIOUS
  <2> HIDE DEF held
  <2> QED BY <1>4, <2>1, <2>2
<1>7. ASSUME NEW r \in Requests, UpdatePost(r) \/ DeletePost(r) PROVE Goal
  BY <1>1, <1>7, FinishedIsOut DEF UpdatePost, DeletePost
<1>8. ASSUME NEW v \in Users, LogIn(v) \/ EndSession(v) PROVE Goal
  BY <1>1, <1>8 DEF LogIn, EndSession, PastBar
<1>9. ASSUME NEW r \in Requests,
             FindAccount(r) \/ RequireUser(r) \/ FindPost(r) \/ FindModerated(r)
      PROVE  Goal
  <2>1. UNCHANGED <<user, sinceBar>>
    BY <1>9 DEF FindAccount, RequireUser, FindPost, FindModerated
  <2> QED BY <1>1, <1>9, <2>1, GoingOnAddsNothing
<1>10. ASSUME NEW r \in Requests,
         \/ \E v \in Users : Register(r, v)
         \/ \E v \in Users, q \in Posts :
              \/ \E special \in BOOLEAN : StartPost(r, v, q, special)
              \/ StartComment(r, v, q)
         \/ \E q \in Posts : \/ \E pin \in Asked, lock \in Asked : Moderate(r, q, pin, lock)
                             \/ Delete(r, q)
       PROVE Goal
  <2>1. UNCHANGED <<user, sinceBar>>
    BY <1>10 DEF Register, StartPost, StartComment, Moderate, Delete
  <2> QED BY <1>1, <1>10, <2>1, BeginningsAddNothing
<1> QED BY <1>2, <1>3, <1>5, <1>6, <1>7, <1>8, <1>9, <1>10 DEF Next

(* What is counted of a post. *)
LEMMA LockDwindles ==
  ASSUME SomeOfEach, TypeOK, CountersStart, Next, NEW p \in Posts
  PROVE  /\ post'[p].locked = "on" =>
              Dwindles(sinceLock[p], sinceLock'[p], PastLock(p), PastLock(p)')
         /\ sinceLock'[p] # 0 => post'[p].locked = "on"
<1> DEFINE Goal ==
      /\ post'[p].locked = "on" =>
           Dwindles(sinceLock[p], sinceLock'[p], PastLock(p), PastLock(p)')
      /\ sinceLock'[p] # 0 => post'[p].locked = "on"
<1>1. ASSUME post'[p].locked = post[p].locked, sinceLock'[p] = sinceLock[p],
             post[p].locked = "on" => PastLock(p)' \subseteq PastLock(p)
      PROVE  Goal
  BY <1>1 DEF Dwindles, CountersStart
<1>2. ASSUME UNCHANGED <<post, sinceLock>>,
             post[p].locked = "on" => PastLock(p)' \subseteq PastLock(p)
      PROVE  Goal
  BY <1>1, <1>2
<1>3. ASSUME NEW r \in Requests, UpdatePost(r) PROVE Goal
  <2>1. PastLock(p)' \subseteq PastLock(p)
    BY <1>3, FinishedIsOut DEF UpdatePost
  <2>2. CASE post'[p] = post[p] /\ sinceLock'[p] = sinceLock[p]
    BY <1>1, <2>1, <2>2
  <2>3. CASE req[r].post = p /\ post[p].there = "up"
    <3> DEFINE row == Moderated(r, post[p])
    <3>1. post'[p] = row /\ sinceLock'[p] = IF row.locked = "off" THEN 0 ELSE sinceLock[p]
      BY <1>3, <2>3 DEF UpdatePost, TypeOK
    <3>2. row.locked \in {"on", "off"}
      BY ModeratedType DEF TypeOK, Rows, Flags
    <3> HIDE DEF row
    <3> QED BY <2>1, <3>1, <3>2 DEF Dwindles
  <2>4. \/ post'[p] = post[p] /\ sinceLock'[p] = sinceLock[p]
        \/ req[r].post = p /\ post[p].there = "up"
    BY <1>3 DEF UpdatePost, TypeOK
  <2> QED BY <2>2, <2>3, <2>4
<1>4. ASSUME NEW r \in Requests, DeletePost(r) PROVE Goal
  <2>1. PastLock(p)' \subseteq PastLock(p)
    BY <1>4, FinishedIsOut DEF DeletePost
  <2>2. CASE req[r].post = p
    <3>1. sinceLock'[p] = 0 /\ post'[p].locked = "off"
      BY <1>4, <2>2 DEF DeletePost, TypeOK, NoPost
    <3> QED BY <3>1
  <2>3. CASE req[r].post # p
    <3>1. sinceLock'[p] = sinceLock[p] /\ post'[p] = post[p]
      BY <1>4, <2>3 DEF DeletePost, TypeOK
    <3> QED BY <1>1, <2>1, <3>1
  <2> QED BY <2>2, <2>3
<1>5. ASSUME NEW r \in Requests, CreatePost(r) PROVE Goal
  <2>1. PastLock(p)' \subseteq PastLock(p) /\ sinceLock' = sinceLock
    BY <1>5, FinishedIsOut DEF CreatePost
  <2>2. post' = post \/ post' = [post EXCEPT ![req[r].post].there = "up"]
    BY <1>5 DEF CreatePost
  <2>3. post'[p].locked = post[p].locked
    BY <2>2 DEF TypeOK, Rows
  <2> QED BY <1>1, <2>1, <2>3
<1>6. ASSUME NEW r \in Requests, CreateComment(r) PROVE Goal
  <2> DEFINE held == post[req[r].post].there = "up" /\ post[req[r].post].locked = "on"
  <2>1. Finish(r) /\ UNCHANGED post /\ sinceLock' = Counted(sinceLock, req[r].post, held)
        /\ req[r].op = "comment" /\ req[r].step = "write"
    BY <1>6 DEF CreateComment, At
  <2>2. held => post[req[r].post].locked = "on"
    OBVIOUS
  <2> HIDE DEF held
  <2>3. PastLock(p)' \subseteq PastLock(p) \ {r}
    BY <2>1, FinishedIsOut
  <2>4. CASE sinceLock'[p] = sinceLock[p]
    BY <1>1, <2>1, <2>3, <2>4
  <2>5. CASE sinceLock'[p] # sinceLock[p]
    <3>1. req[r].post = p /\ held /\ sinceLock'[p] = sinceLock[p] + 1
      BY <2>1, <2>5 DEF Counted, TypeOK
    <3>2. r \in PastLock(p)
      BY <2>1, <3>1 DEF PastLock, At
    <3> QED BY <2>1, <2>2, <2>3, <3>1, <3>2 DEF Dwindles
  <2> QED BY <2>4, <2>5
<1>7. ASSUME NEW r \in Requests, CreateAccount(r) PROVE Goal
  BY <1>2, <1>7, FinishedIsOut DEF CreateAccount
<1>8. ASSUME NEW v \in Users,
             LogIn(v) \/ EndSession(v) \/ \E canPost \in BOOLEAN : SetCanPost(v, canPost)
      PROVE  Goal
  BY <1>2, <1>8 DEF LogIn, EndSession, SetCanPost, PastLock, At
<1>9. ASSUME NEW r \in Requests,
             FindAccount(r) \/ RequireUser(r) \/ FindPost(r) \/ FindModerated(r)
      PROVE  Goal
  <2>1. UNCHANGED <<post, sinceLock>>
    BY <1>9 DEF FindAccount, RequireUser, FindPost, FindModerated
  <2> QED BY <1>2, <1>9, <2>1, GoingOnAddsNothing
<1>10. ASSUME NEW r \in Requests,
         \/ \E v \in Users : Register(r, v)
         \/ \E v \in Users, q \in Posts :
              \/ \E special \in BOOLEAN : StartPost(r, v, q, special)
              \/ StartComment(r, v, q)
         \/ \E q \in Posts : \/ \E pin \in Asked, lock \in Asked : Moderate(r, q, pin, lock)
                             \/ Delete(r, q)
       PROVE Goal
  <2>1. UNCHANGED <<post, sinceLock>>
    BY <1>10 DEF Register, StartPost, StartComment, Moderate, Delete
  <2> QED BY <1>2, <1>10, <2>1, BeginningsAddNothing
<1> QED BY <1>3, <1>4, <1>5, <1>6, <1>7, <1>8, <1>9, <1>10 DEF Next

(* Every step keeps the inductive invariant. *)
LEMMA BarInvKept ==
  ASSUME SomeOfEach, IsFiniteSet(Requests), BarInv, [Next]_vars
  PROVE  BarInv'
<1> USE DEF BarInv
<1>1. TypeOK'
  BY TypesAreKept
<1>2. CASE UNCHANGED vars
  BY <1>1, <1>2 DEF vars, CountersStart, BarsTakeHold, PastBar, PastLock, At
<1>3. CASE Next
  <2>1. CountersStart'
    BY <1>3, BarDwindles, LockDwindles DEF CountersStart
  <2>2. ASSUME NEW u \in Users, user'[u] = "barred"
        PROVE  sinceBar'[u] + Cardinality(PastBar(u)') =< Cardinality(Requests)
    <3>1. Dwindles(sinceBar[u], sinceBar'[u], PastBar(u), PastBar(u)')
      BY <1>3, <2>2, BarDwindles
    <3>2. sinceBar[u] # 0 => sinceBar[u] + Cardinality(PastBar(u)) =< Cardinality(Requests)
      BY DEF CountersStart, BarsTakeHold
    <3>3. /\ sinceBar[u] \in Nat /\ sinceBar'[u] \in Nat
          /\ PastBar(u) \in SUBSET Requests /\ PastBar(u)' \in SUBSET Requests
      BY <1>1 DEF TypeOK, PastBar
    <3> QED BY <3>1, <3>2, <3>3, DwindlingStays
  <2>3. ASSUME NEW p \in Posts, post'[p].locked = "on"
        PROVE  sinceLock'[p] + Cardinality(PastLock(p)') =< Cardinality(Requests)
    <3>1. Dwindles(sinceLock[p], sinceLock'[p], PastLock(p), PastLock(p)')
      BY <1>3, <2>3, LockDwindles
    <3>2. sinceLock[p] # 0 => sinceLock[p] + Cardinality(PastLock(p)) =< Cardinality(Requests)
      BY DEF CountersStart, BarsTakeHold
    <3>3. /\ sinceLock[p] \in Nat /\ sinceLock'[p] \in Nat
          /\ PastLock(p) \in SUBSET Requests /\ PastLock(p)' \in SUBSET Requests
      BY <1>1 DEF TypeOK, PastLock
    <3> QED BY <3>1, <3>2, <3>3, DwindlingStays
  <2>4. BarsTakeHold'
    BY <2>2, <2>3 DEF BarsTakeHold
  <2> QED BY <1>1, <2>1, <2>4
<1> QED BY <1>2, <1>3

(* Sessions outlive a bar and pages a lock, but what is added afterwards had
   passed the look at the row before. *)
THEOREM BarsHold ==
  ASSUME SomeOfEach, IsFiniteSet(Requests)
  PROVE  Spec => []BarsTakeHold
<1>1. ASSUME Init PROVE BarInv
  <2>1. TypeOK
    BY <1>1, InitialTypes
  <2>2. CountersStart
    BY <1>1 DEF Init, CountersStart
  <2>3. BarsTakeHold
    BY <1>1 DEF Init, BarsTakeHold, NoPost
  <2> QED BY <2>1, <2>2, <2>3 DEF BarInv
<1>2. BarInv /\ [Next]_vars => BarInv'
  BY BarInvKept
<1>3. BarInv => BarsTakeHold
  BY DEF BarInv
<1> QED BY <1>1, <1>2, <1>3, PTL DEF Spec
=============================================================================
