-------------------------------- MODULE Forum --------------------------------
(***************************************************************************)
(* The community forum: accounts, posts and comments                       *)
(* (src/services/communityAuthService.ts, communitySession.ts,             *)
(* forumService.ts, through the JSON routes and the pages alike), and the  *)
(* operator who bars accounts and pins, locks and deletes posts while      *)
(* requests are in flight.                                                 *)
(*                                                                         *)
(* Every awaited query is a step.  No code under src/ deletes an account   *)
(* or changes a role, so the JSON routes' extra look at the account of a   *)
(* session always finds it.                                                *)
(***************************************************************************)
EXTENDS Naturals, FiniteSets

CONSTANTS
  Users,      \* e-mail addresses
  Members,    \* those whose role is MEMBER; the others' is not
  Posts,      \* the posts that may come to be
  Requests    \* slots for concurrent requests

VARIABLES
  user,     \* CommunityUser by address: "none", "canPost" or "barred"
  session,  \* the addresses whose browser has a valid session cookie
  post,     \* CommunityPost
  req,
  sinceBar, \* history: an account's contributions since it was barred
  sinceLock \* history: a post's comments since it was locked

vars == <<user, session, post, req, sinceBar, sinceLock>>

Flags == {"on", "off"}
Asked == Flags \cup {"keep"}     \* a flag of the operator's, or undefined
Rows == [there : {"none", "up", "gone"}, pinned : Flags, locked : Flags]
NoPost == [there |-> "none", pinned |-> "off", locked |-> "off"]

Ops == {"none", "register", "login", "post", "comment", "moderate", "delete", "canPost"}

(* found: the post as it was read, of which only its presence matters;       *)
(* pin, lock: what the operator asks for; special: the post is of a type     *)
(* other than DISCUSSION.                                                    *)
RequestStates ==
  [op : Ops, step : {"user", "post", "write"}, user : Users, post : Posts,
   found : Rows, pin : Asked, lock : Asked, special : BOOLEAN]

Idle ==
  [op |-> "none", step |-> "user", user |-> CHOOSE u \in Users : TRUE,
   post |-> CHOOSE p \in Posts : TRUE, found |-> NoPost,
   pin |-> "keep", lock |-> "keep", special |-> FALSE]

At(r, op, step) == req[r].op = op /\ req[r].step = step
Goto(r, step) == req' = [req EXCEPT ![r].step = step]
Finish(r) == req' = [req EXCEPT ![r] = Idle]
Begin(r, request) == req[r].op = "none" /\ req' = [req EXCEPT ![r] = request]

Init ==
  /\ user = [u \in Users |-> "none"]
  /\ session = {}
  /\ post = [p \in Posts |-> NoPost]
  /\ req = [r \in Requests |-> Idle]
  /\ sinceBar = [u \in Users |-> 0]
  /\ sinceLock = [p \in Posts |-> 0]

(* The requests of u that have passed requireUser, and the comments on p     *)
(* that have passed the look at its lock.                                    *)
PastBar(u) ==
  {r \in Requests : /\ req[r].user = u /\ req[r].op \in {"post", "comment"}
                    /\ req[r].step # "user"}
PastLock(p) == {r \in Requests : At(r, "comment", "write") /\ req[r].post = p}

-----------------------------------------------------------------------------
(* Accounts and sessions *)

(* A signed token in a cookie, good for thirty days; the server keeps none.  *)
HasSession(u) == u \in session
SignsIn(u) == session' = session \cup {u}
SignsOut(u) == session' = session \ {u}

Register(r, u) ==
  /\ Begin(r, [Idle EXCEPT !.op = "register", !.user = u])
  /\ UNCHANGED <<user, session, post, sinceBar, sinceLock>>

(* findUnique: 409 for an address that is known. *)
FindAccount(r) ==
  /\ At(r, "register", "user")
  /\ IF user[req[r].user] = "none" THEN Goto(r, "write") ELSE Finish(r)
  /\ UNCHANGED <<user, session, post, sinceBar, sinceLock>>

(* The address is unique: who comes second fails, and has no session. *)
CreateAccount(r) ==
  LET u == req[r].user
  IN /\ At(r, "register", "write")
     /\ IF user[u] = "none"
          THEN user' = [user EXCEPT ![u] = "canPost"] /\ SignsIn(u)
          ELSE UNCHANGED <<user, session>>
     /\ Finish(r)
     /\ UNCHANGED <<post, sinceBar, sinceLock>>

(* Also an account that may not post logs in. *)
LogIn(u) ==
  /\ user[u] # "none"
  /\ SignsIn(u)
  /\ UNCHANGED <<user, post, req, sinceBar, sinceLock>>

(* Logging out, or thirty days. *)
EndSession(u) ==
  /\ SignsOut(u)
  /\ UNCHANGED <<user, post, req, sinceBar, sinceLock>>

-----------------------------------------------------------------------------
(* Contributions *)

StartPost(r, u, p, special) ==
  /\ HasSession(u)
  /\ post[p].there = "none"
  /\ Begin(r, [Idle EXCEPT !.op = "post", !.user = u, !.post = p, !.special = special])
  /\ UNCHANGED <<user, session, post, sinceBar, sinceLock>>

StartComment(r, u, p) ==
  /\ HasSession(u)
  /\ Begin(r, [Idle EXCEPT !.op = "comment", !.user = u, !.post = p])
  /\ UNCHANGED <<user, session, post, sinceBar, sinceLock>>

(* Mutant: whoever has a session may contribute. *)
MayContributeBySession(r) == TRUE

(* requireUser, and the types a member may not use *)
MayContribute(r) ==
  /\ user[req[r].user] = "canPost"
  /\ ~(req[r].special /\ req[r].user \in Members)

RequireUser(r) ==
  /\ req[r].op \in {"post", "comment"} /\ req[r].step = "user"
  /\ IF ~MayContribute(r) THEN Finish(r)
     ELSE Goto(r, IF req[r].op = "post" THEN "write" ELSE "post")
  /\ UNCHANGED <<user, session, post, sinceBar, sinceLock>>

FindPost(r) ==
  LET row == post[req[r].post]
  IN /\ At(r, "comment", "post")
     /\ IF row.there = "up" /\ row.locked = "off" THEN Goto(r, "write") ELSE Finish(r)
     /\ UNCHANGED <<user, session, post, sinceBar, sinceLock>>

Counted(since, x, held) == IF held THEN [since EXCEPT ![x] = @ + 1] ELSE since

(* Slugs are random: two posts of one title do not collide. *)
CreatePost(r) ==
  LET u == req[r].user
  IN /\ At(r, "post", "write")
     /\ IF post[req[r].post].there = "none"
          THEN /\ post' = [post EXCEPT ![req[r].post].there = "up"]
               /\ sinceBar' = Counted(sinceBar, u, user[u] = "barred")
          ELSE UNCHANGED <<post, sinceBar>>   \* the model has no other post left
     /\ Finish(r)
     /\ UNCHANGED <<user, session, sinceLock>>

(* Refused by the foreign key when the post is gone. *)
CreateComment(r) ==
  LET u == req[r].user
      p == req[r].post
      up == post[p].there = "up"
  IN /\ At(r, "comment", "write")
     /\ sinceBar' = Counted(sinceBar, u, up /\ user[u] = "barred")
     /\ sinceLock' = Counted(sinceLock, p, up /\ post[p].locked = "on")
     /\ Finish(r)
     /\ UNCHANGED <<user, session, post>>

-----------------------------------------------------------------------------
(* The operator *)

Moderate(r, p, pin, lock) ==
  /\ post[p].there # "none"
  /\ Begin(r, [Idle EXCEPT !.op = "moderate", !.step = "post", !.post = p,
                           !.pin = pin, !.lock = lock])
  /\ UNCHANGED <<user, session, post, sinceBar, sinceLock>>

Delete(r, p) ==
  /\ post[p].there # "none"
  /\ Begin(r, [Idle EXCEPT !.op = "delete", !.step = "post", !.post = p])
  /\ UNCHANGED <<user, session, post, sinceBar, sinceLock>>

(* 404 for a post that is gone *)
FindModerated(r) ==
  /\ At(r, "moderate", "post") \/ At(r, "delete", "post")
  /\ IF post[req[r].post].there = "up"
       THEN req' = [req EXCEPT ![r].step = "write", ![r].found = post[req[r].post]]
       ELSE Finish(r)
  /\ UNCHANGED <<user, session, post, sinceBar, sinceLock>>

AskedOr(asked, flag) == IF asked = "keep" THEN flag ELSE asked

(* Mutant: both flags are written, as they were found unless asked for. *)
ModeratedAsFound(r, row) ==
  [row EXCEPT !.pinned = AskedOr(req[r].pin, req[r].found.pinned),
              !.locked = AskedOr(req[r].lock, req[r].found.locked)]

(* Prisma leaves a column alone whose value is undefined. *)
Moderated(r, row) ==
  [row EXCEPT !.pinned = AskedOr(req[r].pin, @), !.locked = AskedOr(req[r].lock, @)]

(* Nothing is updated when the post has gone since (P2025). *)
UpdatePost(r) ==
  LET p == req[r].post
      row == Moderated(r, post[p])
  IN /\ At(r, "moderate", "write")
     /\ IF post[p].there = "up"
          THEN /\ post' = [post EXCEPT ![p] = row]
               /\ sinceLock' = [sinceLock EXCEPT ![p] =
                                  IF row.locked = "off" THEN 0 ELSE @]
          ELSE UNCHANGED <<post, sinceLock>>
     /\ Finish(r)
     /\ UNCHANGED <<user, session, sinceBar>>

(* The comments go with the post. *)
DeletePost(r) ==
  LET p == req[r].post
  IN /\ At(r, "delete", "write")
     /\ post' = [post EXCEPT ![p] = [NoPost EXCEPT !.there = "gone"]]
     /\ sinceLock' = [sinceLock EXCEPT ![p] = 0]
     /\ Finish(r)
     /\ UNCHANGED <<user, session, sinceBar>>

(* setUserCanPost: accounts stay, so its find and its update are one step. *)
SetCanPost(u, canPost) ==
  /\ user[u] # "none"
  /\ user' = [user EXCEPT ![u] = IF canPost THEN "canPost" ELSE "barred"]
  /\ sinceBar' = [sinceBar EXCEPT ![u] = IF canPost THEN 0 ELSE @]
  /\ UNCHANGED <<session, post, req, sinceLock>>

Next ==
  \/ \E r \in Requests :
       \/ \E u \in Users : Register(r, u)
       \/ FindAccount(r) \/ CreateAccount(r)
       \/ \E u \in Users, p \in Posts :
            \/ \E special \in BOOLEAN : StartPost(r, u, p, special)
            \/ StartComment(r, u, p)
       \/ RequireUser(r) \/ FindPost(r) \/ CreatePost(r) \/ CreateComment(r)
       \/ \E p \in Posts :
            \/ \E pin \in Asked, lock \in Asked : Moderate(r, p, pin, lock)
            \/ Delete(r, p)
       \/ FindModerated(r) \/ UpdatePost(r) \/ DeletePost(r)
  \/ \E u \in Users :
       \/ LogIn(u) \/ EndSession(u)
       \/ \E canPost \in BOOLEAN : SetCanPost(u, canPost)

Spec == Init /\ [][Next]_vars

-----------------------------------------------------------------------------
(* Properties *)

TypeOK ==
  /\ user \in [Users -> {"none", "canPost", "barred"}]
  /\ session \subseteq Users
  /\ post \in [Posts -> Rows]
  /\ req \in [Requests -> RequestStates]
  /\ sinceBar \in [Users -> Nat] /\ sinceLock \in [Posts -> Nat]

(* A session outlives the bar on its account, and a page the lock of its     *)
(* post; still, what a barred account adds and what is said on a locked post *)
(* is only what had passed the look at the row before: no more than the      *)
(* requests in flight, for as long as the bar or the lock lasts              *)
(* (forumService.ts:26-31, 85-98).                                           *)
BarsTakeHold ==
  /\ \A u \in Users :
       user[u] = "barred" =>
         sinceBar[u] + Cardinality(PastBar(u)) =< Cardinality(Requests)
  /\ \A p \in Posts :
       post[p].locked = "on" =>
         sinceLock[p] + Cardinality(PastLock(p)) =< Cardinality(Requests)

(* Two operators moderate one post at once: neither undoes a flag the other  *)
(* has set and he did not ask to change (forumService.ts:100-104).           *)
FlagsHold ==
  [][\A p \in Posts : post[p].there = "up" /\ post'[p].there = "up" =>
       LET Asks(r) == At(r, "moderate", "write") /\ req[r].post = p
       IN /\ post'[p].locked # post[p].locked =>
               \E r \in Requests : Asks(r) /\ req[r].lock = post'[p].locked
          /\ post'[p].pinned # post[p].pinned =>
               \E r \in Requests : Asks(r) /\ req[r].pin = post'[p].pinned]_vars
=============================================================================
