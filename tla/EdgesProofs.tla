----------------------------- MODULE EdgesProofs ------------------------------
(***************************************************************************)
(* Theorems about the parts of Edges, for every value of its constants: a  *)
(* step of Edges is a step of one part, or leaves it alone.                *)
(***************************************************************************)
EXTENDS Edges, FiniteSets, FiniteSetTheorems, TLAPS

(* The parts count with the Cardinality of the library. *)
LEMMA PartsCount ==
  \A S : PC!Cardinality(S) = Cardinality(S) /\ RL!Cardinality(S) = Cardinality(S)
BY DEF PC!Cardinality, RL!Cardinality, Cardinality

-----------------------------------------------------------------------------
(* Startup: the seeds of the forum *)

(* A step of Edges is a step of the start of servers, or none. *)
LEMMA StartupSteps == [Next]_vars => [ST!Next]_startVars
BY DEF Next, vars, startVars

SeedTypes ==
  /\ at \in [Servers -> ST!Stages]
  /\ seed \in [Servers -> ST!SeedStages]
  /\ item \in [Servers -> SUBSET ST!Titles]
  /\ posts \in SUBSET ST!Titles
  /\ team \in BOOLEAN /\ others \in BOOLEAN /\ broken \in BOOLEAN

(* Titles are created from the first on. *)
FromTheFirst(S) == \A i \in S, j \in ST!Titles : j =< i => j \in S

(* A seed runs while its server starts or listens; what it has created is
   there, and needed the team's account. *)
SeedIsInOrder(p) ==
  /\ at[p] \notin {"seed", "listening"} => seed[p] = "idle"
  /\ seed[p] = "post" => team
  /\ seed[p] # "post" => item[p] = {}
  /\ item[p] \subseteq posts
  /\ FromTheFirst(item[p])

ForumIsInOrder ==
  /\ FromTheFirst(posts)
  /\ posts # {} => team
  /\ ~broken /\ (others \/ \E p \in Servers : at[p] = "listening") => team

(* Of the seeds in progress one has created all the posts there are, and
   goes on. *)
SomeSeedLeads ==
  ~broken /\ team =>
    posts = ST!Titles \/ \E p \in Servers : seed[p] = "post" /\ item[p] = posts

SeedInv ==
  /\ SeedTypes
  /\ \A p \in Servers : SeedIsInOrder(p)
  /\ ForumIsInOrder
  /\ SomeSeedLeads

(* Where seeds are in progress, whoever is not touched keeps its part of the
   invariant while posts are added and the team's account stays. *)
LEMMA OthersStayInOrder ==
  ASSUME NEW q \in Servers, SeedIsInOrder(q),
         at'[q] = at[q], seed'[q] = seed[q], item'[q] = item[q],
         posts \subseteq posts', team => team'
  PROVE  SeedIsInOrder(q)'
BY DEF SeedIsInOrder, FromTheFirst, ST!Titles

(* The start of a server ends with it, and takes its seed along. *)
LEMMA EndsKeepsSeedInv ==
  ASSUME SeedInv, NEW p \in Servers, ST!Ends(p),
         UNCHANGED <<team, posts, others>>
  PROVE  SeedInv'
<1> USE DEF SeedInv, ST!Ends, ST!Stage
<1>1. SeedTypes'
  BY DEF SeedTypes, ST!Stages, ST!SeedStages
<1>2. ASSUME NEW q \in Servers PROVE SeedIsInOrder(q)'
  <2>1. CASE q = p
    BY <2>1 DEF SeedTypes, SeedIsInOrder, FromTheFirst
  <2>2. CASE q # p
    BY <2>2, OthersStayInOrder DEF SeedTypes
  <2> QED BY <2>1, <2>2
<1>3. ForumIsInOrder'
  BY DEF ForumIsInOrder, FromTheFirst, SeedTypes, ST!Titles
<1>4. SomeSeedLeads'
  BY DEF SomeSeedLeads, SeedTypes
<1> QED BY <1>1, <1>2, <1>3, <1>4

(* A seed that begins, when none is in progress in its server. *)
LEMMA BeginKeepsSeedInv ==
  ASSUME SeedInv, NEW p \in Servers, seed[p] = "idle", ST!BeginsSeed(p),
         \/ ST!Stage(p, "seed")
         \/ at[p] = "listening" /\ UNCHANGED at,
         UNCHANGED <<team, posts, others, broken>>
  PROVE  SeedInv'
<1> USE DEF SeedInv, ST!BeginsSeed, ST!Stage
<1>1. SeedTypes'
  BY DEF SeedTypes, ST!Stages, ST!SeedStages
<1>2. ASSUME NEW q \in Servers PROVE SeedIsInOrder(q)'
  <2>1. CASE q = p
    BY <2>1 DEF SeedTypes, SeedIsInOrder, FromTheFirst
  <2>2. CASE q # p
    BY <2>2, OthersStayInOrder DEF SeedTypes
  <2> QED BY <2>1, <2>2
<1>3. ForumIsInOrder'
  BY DEF ForumIsInOrder, FromTheFirst, SeedTypes, ST!Titles
<1>4. SomeSeedLeads'
  BY DEF SomeSeedLeads, SeedTypes
<1> QED BY <1>1, <1>2, <1>3, <1>4

(* A seed that returns leaves the lead to another, or a complete forum. *)
LEMMA ReturnKeepsSeedInv ==
  ASSUME SeedInv, NEW p \in Servers, ST!SeedReturns(p),
         \/ broken'
         \/ team /\ ~(seed[p] = "post" /\ item[p] = posts)
         \/ team /\ posts = ST!Titles,
         broken => broken',
         UNCHANGED <<team, posts, others>>, broken' \in BOOLEAN
  PROVE  SeedInv'
<1> USE DEF SeedInv, ST!SeedReturns
<1>1. SeedTypes'
  BY DEF SeedTypes, ST!Stages, ST!SeedStages
<1>2. ASSUME NEW q \in Servers PROVE SeedIsInOrder(q)'
  <2>1. CASE q = p
    BY <2>1 DEF SeedTypes, SeedIsInOrder, FromTheFirst
  <2>2. CASE q # p
    BY <2>2, OthersStayInOrder DEF SeedTypes
  <2> QED BY <2>1, <2>2
<1>3. ForumIsInOrder'
  BY DEF ForumIsInOrder, FromTheFirst, SeedTypes, ST!Titles
<1>4. SomeSeedLeads'
  BY DEF SomeSeedLeads, SeedTypes
<1> QED BY <1>1, <1>2, <1>3, <1>4

(* The account of the team: created once, whoever comes first. *)
LEMMA CreateTeamKeepsSeedInv ==
  ASSUME SeedInv, NEW p \in Servers, ST!CreateTeam(p)
  PROVE  SeedInv'
<1> USE DEF SeedInv, ST!CreateTeam, ST!ending, ST!SeedGoes
<1>1. CASE team
  BY <1>1, ReturnKeepsSeedInv DEF SeedTypes
<1>2. CASE ~team
  <2>1. SeedTypes'
    BY <1>2 DEF SeedTypes, ST!SeedStages
  <2>2. posts = {} /\ item[p] = {}
    BY <1>2 DEF ForumIsInOrder, SeedIsInOrder, SeedTypes
  <2>3. ASSUME NEW q \in Servers PROVE SeedIsInOrder(q)'
    <3>1. CASE q = p
      BY <1>2, <2>2, <3>1 DEF SeedTypes, SeedIsInOrder, FromTheFirst
    <3>2. CASE q # p
      BY <1>2, <3>2, OthersStayInOrder DEF SeedTypes
    <3> QED BY <3>1, <3>2
  <2>4. ForumIsInOrder'
    BY <1>2, <2>2 DEF ForumIsInOrder, FromTheFirst
  <2>5. SomeSeedLeads'
    BY <1>2, <2>2 DEF SomeSeedLeads, SeedTypes
  <2> QED BY <2>1, <2>3, <2>4, <2>5
<1> QED BY <1>1, <1>2 DEF SeedTypes

(* A post: who finds its next title taken was not in the lead, and who does
   not was, and goes on. *)
LEMMA CreatePostKeepsSeedInv ==
  ASSUME SeedInv, NEW p \in Servers, NEW i \in ST!Titles, ST!CreatePost(p, i)
  PROVE  SeedInv'
<1> USE DEF SeedInv, ST!CreatePost, ST!ending
<1>0. /\ i \notin item[p] /\ \A j \in ST!Titles \ item[p] : i =< j
      /\ seed[p] = "post" /\ team
  BY DEF ST!NextTitles, SeedIsInOrder
<1>1. CASE i \in posts
  <2>1. posts' = posts
    BY <1>1 DEF SeedTypes
  <2> QED BY <1>0, <1>1, <2>1, ReturnKeepsSeedInv DEF SeedTypes
<1>2. CASE i \notin posts
  <2>1. item[p] = posts
    <3>1. ASSUME NEW j \in posts PROVE j \in item[p]
      <4>1. j \notin item[p] => i =< j
        BY <1>0 DEF SeedTypes
      <4> QED BY <1>2, <4>1 DEF ForumIsInOrder, FromTheFirst
    <3> QED BY <3>1 DEF SeedIsInOrder
  <2> DEFINE more == posts \cup {i}
  <2>2. FromTheFirst(more)
    <3>1. ASSUME NEW j \in ST!Titles, j =< i PROVE j \in more
      <4>1. CASE j \in item[p]
        BY <2>1, <4>1
      <4>2. CASE j \notin item[p]
        <5>1. i =< j /\ i \in Int /\ j \in Int
          BY <1>0, <4>2, TitlesAssumption DEF ST!Titles
        <5> QED BY <3>1, <5>1
      <4> QED BY <4>1, <4>2
    <3> QED BY <3>1 DEF ForumIsInOrder, FromTheFirst
  <2>3. posts' = more /\ team' = team /\ others' = others /\ broken' = broken
    OBVIOUS
  <2>4. CASE more = ST!Titles
    <3>1. ST!SeedReturns(p)
      BY <2>1, <2>4
    <3>2. SeedTypes'
      BY <2>3, <2>4, <3>1 DEF SeedTypes, ST!SeedReturns, ST!Stages, ST!SeedStages
    <3>3. ASSUME NEW q \in Servers PROVE SeedIsInOrder(q)'
      <4>1. CASE q = p
        BY <3>1, <4>1 DEF SeedTypes, SeedIsInOrder, FromTheFirst, ST!SeedReturns
      <4>2. CASE q # p
        BY <2>3, <3>1, <4>2, OthersStayInOrder DEF SeedTypes, ST!SeedReturns
      <4> QED BY <4>1, <4>2
    <3>4. ForumIsInOrder'
      BY <1>0, <2>2, <2>3 DEF ForumIsInOrder, FromTheFirst, ST!Titles
    <3>5. SomeSeedLeads'
      BY <2>3, <2>4 DEF SomeSeedLeads, ST!Titles
    <3> QED BY <3>2, <3>3, <3>4, <3>5
  <2>5. CASE more # ST!Titles
    <3>1. item' = [item EXCEPT ![p] = more] /\ UNCHANGED <<at, seed>>
      BY <1>2, <2>1, <2>5
    <3>2. SeedTypes'
      BY <2>3, <3>1 DEF SeedTypes
    <3>3. ASSUME NEW q \in Servers PROVE SeedIsInOrder(q)'
      <4>1. CASE q = p
        BY <1>0, <2>2, <2>3, <3>1, <4>1 DEF SeedTypes, SeedIsInOrder, FromTheFirst, ST!Titles
      <4>2. CASE q # p
        BY <2>3, <3>1, <4>2, OthersStayInOrder DEF SeedTypes
      <4> QED BY <4>1, <4>2
    <3>4. ForumIsInOrder'
      BY <1>0, <2>2, <2>3 DEF ForumIsInOrder, FromTheFirst, ST!Titles
    <3>5. SomeSeedLeads'
      BY <1>0, <2>3, <3>1 DEF SomeSeedLeads, SeedTypes
    <3> QED BY <3>2, <3>3, <3>4, <3>5
  <2> QED BY <2>4, <2>5
<1> QED BY <1>1, <1>2

(* Every step of the start of servers keeps the invariant. *)
LEMMA SeedInvKept == SeedInv /\ [Next]_vars => SeedInv'
<1> SUFFICES ASSUME SeedInv, [ST!Next]_startVars PROVE SeedInv'
  BY StartupSteps
<1> USE DEF SeedInv
<1>1. ASSUME UNCHANGED <<seed, item, team, posts>>,
             others' \in BOOLEAN, broken' = broken,
             others' => others \/ \E p \in Servers : at[p] = "listening",
             \/ UNCHANGED at
             \/ \E p \in Servers, s \in {"probe", "import"} :
                  ST!Stage(p, s) /\ seed[p] = "idle"
      PROVE  SeedInv'
  <2>1. SeedTypes'
    BY <1>1 DEF SeedTypes, ST!Stage, ST!Stages
  <2>2. ASSUME NEW q \in Servers PROVE SeedIsInOrder(q)'
    BY <1>1 DEF SeedTypes, SeedIsInOrder, FromTheFirst, ST!Titles, ST!Stage
  <2>3. ForumIsInOrder'
    BY <1>1 DEF ForumIsInOrder, FromTheFirst, SeedTypes, ST!Stage, ST!Titles
  <2>4. SomeSeedLeads'
    BY <1>1 DEF SomeSeedLeads, ST!Titles
  <2> QED BY <2>1, <2>2, <2>3, <2>4
<1>2. ASSUME NEW p \in Servers, ST!Start(p) \/ ST!Probe(p) PROVE SeedInv'
  <2>1. seed[p] = "idle"
    BY <1>2 DEF ST!Start, ST!Probe, SeedIsInOrder
  <2> QED BY <1>1, <1>2, <2>1, EndsKeepsSeedInv DEF ST!Start, ST!Probe, ST!ending, ST!world, SeedTypes
<1>3. ASSUME NEW p \in Servers, ST!ImportBilling(p) PROVE SeedInv'
  <2>1. seed[p] = "idle"
    BY <1>3 DEF ST!ImportBilling, SeedIsInOrder
  <2> QED BY <1>3, <2>1, BeginKeepsSeedInv
        DEF ST!ImportBilling, ST!FailedImport, ST!ending, ST!world
<1>4. ASSUME NEW p \in Servers, ST!Seeds(p) PROVE SeedInv'
  <2>1. CASE ST!CountPosts(p) /\ (posts # {} \/ others)
    <3>1. broken \/ (team /\ seed[p] # "post")
      BY <2>1 DEF ST!CountPosts, ForumIsInOrder, SeedTypes
    <3>2. ST!SeedReturns(p) /\ UNCHANGED <<team, posts, others, broken>>
      BY <2>1 DEF ST!CountPosts, ST!ending, ST!world
    <3> QED BY <3>1, <3>2, ReturnKeepsSeedInv DEF SeedTypes
  <2>2. CASE \E s \in {"findUser", "createUser", "post"} :
               /\ ST!SeedGoes(p, s) /\ seed[p] \in {"count", "findUser"}
               /\ s = "post" => team
               /\ UNCHANGED <<team, posts, others, broken>>
    <3>1. PICK s \in {"findUser", "createUser", "post"} :
               /\ ST!SeedGoes(p, s) /\ seed[p] \in {"count", "findUser"}
               /\ s = "post" => team
               /\ UNCHANGED <<team, posts, others, broken>>
      BY <2>2
    <3>2. SeedTypes'
      BY <3>1 DEF SeedTypes, ST!SeedGoes, ST!SeedStages
    <3>3. ASSUME NEW q \in Servers PROVE SeedIsInOrder(q)'
      <4>1. CASE q = p
        BY <3>1, <4>1 DEF SeedTypes, SeedIsInOrder, FromTheFirst, ST!SeedGoes
      <4>2. CASE q # p
        BY <3>1, <4>2, OthersStayInOrder DEF SeedTypes, ST!SeedGoes
      <4> QED BY <4>1, <4>2
    <3>4. ForumIsInOrder'
      BY <3>1 DEF ForumIsInOrder, FromTheFirst, SeedTypes, ST!SeedGoes, ST!Titles
    <3>5. SomeSeedLeads'
      BY <3>1 DEF SomeSeedLeads, SeedTypes, ST!SeedGoes, ST!Titles
    <3> QED BY <3>2, <3>3, <3>4, <3>5
  <2>3. CASE ST!SeedFails(p)
    BY <2>3, ReturnKeepsSeedInv DEF ST!SeedFails, ST!world
  <2> QED BY <1>4, <2>1, <2>2, <2>3, CreateTeamKeepsSeedInv, CreatePostKeepsSeedInv
        DEF ST!Seeds, ST!CountPosts, ST!FindTeam, ST!ending, ST!world
<1>5. ASSUME NEW p \in Servers, ST!RequestSeed(p) PROVE SeedInv'
  BY <1>5, BeginKeepsSeedInv DEF ST!RequestSeed, ST!ending, ST!world
<1>6. ASSUME NEW p \in Servers, ST!Kill(p) PROVE SeedInv'
  BY <1>6, EndsKeepsSeedInv DEF ST!Kill, ST!world
<1>7. CASE ST!MemberPosts \/ ST!Outage \/ ST!Recovery \/ UNCHANGED startVars
  <2>1. /\ UNCHANGED <<at, seed, item, team, posts, broken>>
        /\ \/ UNCHANGED others
           \/ others' = TRUE /\ \E p \in Servers : at[p] = "listening"
    BY <1>7 DEF ST!MemberPosts, ST!Outage, ST!Recovery, startVars, ST!ending
  <2>2. others \in BOOLEAN
    BY DEF SeedTypes
  <2>3. others' \in BOOLEAN /\ (others' => others \/ \E p \in Servers : at[p] = "listening")
    <3>1. CASE others' = others
      BY <2>2, <3>1
    <3>2. CASE others' = TRUE /\ \E p \in Servers : at[p] = "listening"
      BY <3>2
    <3> QED BY <2>1, <3>1, <3>2
  <2>4. UNCHANGED <<seed, item, team, posts>> /\ broken' = broken /\ UNCHANGED at
    BY <2>1
  <2> QED BY <1>1, <2>3, <2>4, Zenon
<1> QED BY <1>2, <1>3, <1>4, <1>5, <1>6, <1>7
      DEF ST!Next, ST!Progress

(* However many servers seed the forum at once, and whatever their operators
   ask for meanwhile: when all are done and no failure broke one off, all
   posts are there. *)
THEOREM SeedsAreComplete == Spec => []SeedsComplete
<1>1. Init => SeedInv
  <2> SUFFICES ASSUME ST!Init PROVE SeedInv
    BY DEF Init
  <2> USE DEF ST!Init
  <2>1. SeedTypes
    BY DEF SeedTypes, ST!Stages, ST!SeedStages
  <2>2. ASSUME NEW p \in Servers PROVE SeedIsInOrder(p)
    BY DEF SeedIsInOrder, FromTheFirst
  <2>3. ForumIsInOrder /\ SomeSeedLeads
    BY DEF ForumIsInOrder, SomeSeedLeads, FromTheFirst
  <2> QED BY <2>1, <2>2, <2>3 DEF SeedInv
<1>2. SeedInv => SeedsComplete
  BY DEF SeedInv, SeedsComplete, ST!SeedsComplete, ForumIsInOrder, SomeSeedLeads, SeedTypes
<1> QED BY <1>1, <1>2, SeedInvKept, PTL DEF Spec

-----------------------------------------------------------------------------
(* PluginCache: the lock of the refresh *)

(* A step of Edges is a step of the plugin's processes, or none. *)
LEMMA CacheSteps == [Next]_vars => [PC!Next]_pluginVars
BY DEF Next, vars, pluginVars

CacheTypes ==
  /\ ad \in SUBSET PC!Records
  /\ proc \in [Procs -> [pc : PC!States, cron : BOOLEAN, found : SUBSET PC!Records]]
  /\ disorder \in BOOLEAN

(* As long as no lock was outlived, who refreshes is alone and holds the
   lock, nobody is about to delete it, and it is within its lifetime. *)
LockIsHeld ==
  /\ \A p, q \in Procs : PC!Refreshing(p) /\ PC!Refreshing(q) => p = q
  /\ \A p \in Procs : PC!Refreshing(p) => lock # {}
  /\ \A p \in Procs : proc[p].pc \notin {"delete", "reinsert"}
  /\ lock \subseteq 0 .. LockTTL
LockInv == CacheTypes /\ (~disorder => LockIsHeld)

(* Time leaves records records. *)
LEMMA OlderType == \A r \in PC!Records : PC!Older(r) \in PC!Records
<1> SUFFICES ASSUME NEW r \in PC!Records PROVE PC!Older(r) \in PC!Records
  OBVIOUS
<1> USE CacheAssumption
<1>1. /\ r.age \in 0 .. StaleTTL /\ r.left \in SUBSET Nat /\ r.wait \in Nat
  BY DEF PC!Records, PC!Ages
<1>2. (IF r.age < StaleTTL THEN r.age + 1 ELSE r.age) \in 0 .. StaleTTL
  BY <1>1
<1>3. {IF n = 0 THEN 0 ELSE n - 1 : n \in r.left} \in SUBSET Nat
  <2>1. \A n \in r.left : (IF n = 0 THEN 0 ELSE n - 1) \in Nat
    BY <1>1
  <2> QED BY <2>1
<1>4. (IF r.wait = 0 THEN 0 ELSE r.wait - 1) \in Nat
  BY <1>1
<1> QED BY <1>2, <1>3, <1>4 DEF PC!Older, PC!Records, PC!Ages

(* Every step keeps the types. *)
LEMMA CacheTypesKept ==
  ASSUME CacheTypes, [PC!Next]_pluginVars
  PROVE  CacheTypes'
<1> USE DEF CacheTypes
<1> DEFINE States == [pc : PC!States, cron : BOOLEAN, found : SUBSET PC!Records]
<1>1. PC!Idle \in States
  BY DEF PC!Idle, PC!States
<1>2. PC!Found \in SUBSET PC!Records
  BY DEF PC!Found
<1>3. ASSUME NEW p \in Procs, NEW slot \in States, proc' = [proc EXCEPT ![p] = slot]
      PROVE  proc' \in [Procs -> States]
  BY <1>3
<1>4. ASSUME NEW p \in Procs, NEW pc \in PC!States, PC!Goto(p, pc)
      PROVE  proc' \in [Procs -> States]
  <2>1. [proc[p] EXCEPT !.pc = pc] \in States
    OBVIOUS
  <2> QED BY <1>3, <1>4, <2>1 DEF PC!Goto
<1>5. ASSUME NEW p \in Procs, proc' = PC!Answered(p)
      PROVE  proc' \in [Procs -> States]
  <2>1. [proc[p] EXCEPT !.pc = "release"] \in States
    BY DEF PC!States
  <2> QED BY <1>1, <1>5, <2>1 DEF PC!Answered
<1>6. ASSUME PC!Settle PROVE disorder' \in BOOLEAN
  BY <1>6 DEF PC!Settle
<1>7. ASSUME NEW p \in Procs, PC!VisitStale(p) \/ PC!Cron(p) PROVE CacheTypes'
  <2>1. /\ [PC!Idle EXCEPT !.pc = "insert", !.found = PC!Found] \in States
        /\ [pc |-> "insert", cron |-> TRUE, found |-> PC!Found] \in States
    BY <1>1, <1>2 DEF PC!States
  <2> QED BY <1>3, <1>7, <2>1 DEF PC!VisitStale, PC!Cron
<1>8. ASSUME NEW p \in Procs, PC!VisitCold(p) PROVE CacheTypes'
  BY <1>4, <1>8 DEF PC!VisitCold, PC!States
<1>9. ASSUME NEW p \in Procs,
             \/ PC!Insert(p) \/ PC!LookAtLock(p) \/ PC!DeleteLock(p) \/ PC!Reinsert(p)
             \/ PC!Defer(p) \/ PC!Finish(p) \/ PC!Leave(p) \/ PC!Die(p)
      PROVE  CacheTypes'
  <2>1. PC!Settle /\ UNCHANGED ad
    BY <1>9 DEF PC!Insert, PC!LookAtLock, PC!DeleteLock, PC!Reinsert,
      PC!Defer, PC!Finish, PC!Leave, PC!Die, PC!Release
  <2>2. \/ \E pc \in PC!States : PC!Goto(p, pc)
        \/ proc' = [proc EXCEPT ![p] = PC!Idle]
        \/ proc' = [proc EXCEPT ![p] = IF PC!Outlived THEN [@ EXCEPT !.pc = "delete"]
                                                       ELSE PC!Idle]
    BY <1>9 DEF PC!Insert, PC!LookAtLock, PC!DeleteLock, PC!Reinsert, PC!Take,
      PC!Defer, PC!Finish, PC!Leave, PC!Die, PC!Release, PC!States
  <2>3. [proc[p] EXCEPT !.pc = "delete"] \in States
    BY DEF PC!States
  <2> QED BY <1>1, <1>3, <1>4, <1>6, <2>1, <2>2, <2>3
<1>10. ASSUME NEW p \in Procs, PC!Refresh(p) PROVE CacheTypes'
  <2>1. [proc[p] EXCEPT !.pc = "ask", !.found = {r \in @ : PC!Readable(r)}] \in States
    BY DEF PC!States
  <2> QED BY <1>3, <1>10, <2>1 DEF PC!Refresh
<1>11. ASSUME NEW p \in Procs, PC!Serve(p) \/ PC!NothingToServe(p) \/ PC!Fail(p)
       PROVE  CacheTypes'
  <2>1. UNCHANGED disorder /\ proc' = PC!Answered(p)
    BY <1>11 DEF PC!Serve, PC!NothingToServe, PC!Fail
  <2>2. \A left \in NotAfters : {[age |-> 0, left |-> left, wait |-> 0]} \in SUBSET PC!Records
    BY CacheAssumption DEF PC!Records, PC!Ages
  <2>3. \A r \in PC!Records, wait \in Waits : {[r EXCEPT !.wait = wait]} \in SUBSET PC!Records
    BY CacheAssumption DEF PC!Records
  <2>4. ad' \in SUBSET PC!Records
    BY <1>11, <2>2, <2>3 DEF PC!Serve, PC!NothingToServe, PC!Fail
  <2> QED BY <1>5, <2>1, <2>4
<1>12. CASE PC!Tick
  <2>1. ad' \in SUBSET PC!Records
    BY <1>12, OlderType DEF PC!Tick
  <2>2. \A p \in Procs : [proc[p] EXCEPT !.found = {PC!Older(r) : r \in @}] \in States
    BY OlderType
  <2>3. proc' \in [Procs -> States]
    BY <1>12, <2>2 DEF PC!Tick
  <2>4. disorder' \in BOOLEAN
    BY <1>12 DEF PC!Tick
  <2> QED BY <2>1, <2>3, <2>4
<1>13. CASE UNCHANGED pluginVars
  BY <1>13 DEF pluginVars
<1> QED BY <1>7, <1>8, <1>9, <1>10, <1>11, <1>12, <1>13 DEF PC!Next, PC!Step

(* A process that goes anywhere but to the lock, and leaves it alone. *)
LEMMA GoingKeepsLock ==
  ASSUME CacheTypes, LockIsHeld, UNCHANGED lock, NEW p \in Procs, NEW slot,
         proc' = [proc EXCEPT ![p] = slot],
         \/ slot.pc \in {"idle", "insert", "look", "cold"}
         \/ slot.pc \in {"held", "ask", "release"} /\ PC!Refreshing(p)
  PROVE  LockIsHeld'
<1>1. \A q \in Procs : proc'[q].pc = IF q = p THEN slot.pc ELSE proc[q].pc
  BY DEF CacheTypes
<1> QED BY <1>1 DEF LockIsHeld, PC!Refreshing

(* Who takes the lock finds it free, so nobody else is refreshing. *)
LEMMA TakingKeepsLock ==
  ASSUME CacheTypes, LockIsHeld, NEW p \in Procs, PC!Take(p)
  PROVE  LockIsHeld'
<1>1. \A q \in Procs : proc'[q].pc = IF q = p THEN "held" ELSE proc[q].pc
  BY DEF CacheTypes, PC!Take, PC!Goto
<1>2. {0} \subseteq 0 .. LockTTL
  BY CacheAssumption
<1> QED BY <1>1, <1>2 DEF LockIsHeld, PC!Refreshing, PC!Take

(* Who releases it was refreshing, alone. *)
LEMMA ReleasingKeepsLock ==
  ASSUME CacheTypes, LockIsHeld, NEW p \in Procs, PC!Refreshing(p), PC!Release(p)
  PROVE  LockIsHeld'
<1>1. \A q \in Procs : proc'[q].pc = IF q = p THEN "idle" ELSE proc[q].pc
  BY DEF CacheTypes, PC!Release, PC!Idle
<1>2. lock' = {}
  BY DEF PC!Release
<1> QED BY <1>1, <1>2 DEF LockIsHeld, PC!Refreshing

(* A lock that grows older within its lifetime is not lost. *)
LEMMA TimeKeepsLock ==
  ASSUME CacheTypes, LockIsHeld, PC!Tick, LockTTL \notin lock
  PROVE  LockIsHeld'
<1>1. \A q \in Procs : proc'[q].pc = proc[q].pc
  BY DEF CacheTypes, PC!Tick
<1>2. \A age \in lock : age \in Nat /\ age < LockTTL
  BY CacheAssumption DEF LockIsHeld
<1>3. lock' = {age + 1 : age \in lock}
  BY <1>2, CacheAssumption DEF PC!Tick
<1>4. lock' \subseteq 0 .. LockTTL
  BY <1>2, <1>3, CacheAssumption
<1>5. lock # {} => lock' # {}
  BY <1>3
<1> QED BY <1>1, <1>4, <1>5 DEF LockIsHeld, PC!Refreshing

(* Once a lock was outlived, the disorder ends when there is no lock, and
   nobody is about to act on one. *)
LEMMA DisorderEnds ==
  ASSUME CacheTypes, CacheTypes', disorder, PC!Settle, ~disorder'
  PROVE  LockIsHeld'
<1>1. lock' = {} /\ \A p \in Procs : ~PC!Locking(proc'[p])
  BY DEF PC!Settle
<1> QED BY <1>1 DEF LockIsHeld, PC!Refreshing, PC!Locking

(* Every step keeps the invariant. *)
LEMMA LockInvKept == LockInv /\ [Next]_vars => LockInv'
<1> SUFFICES ASSUME LockInv, [PC!Next]_pluginVars, ~disorder' PROVE LockIsHeld'
  BY CacheSteps, CacheTypesKept DEF LockInv
<1>1. CacheTypes /\ CacheTypes' /\ (~disorder => LockIsHeld)
  BY CacheTypesKept DEF LockInv
<1>2. CASE disorder
  <2>1. CASE PC!Settle
    BY <1>1, <1>2, <2>1, DisorderEnds
  <2>2. CASE UNCHANGED disorder \/ PC!Tick
    BY <1>1, <1>2, <2>2 DEF PC!Tick, CacheTypes
  <2> QED BY <2>1, <2>2 DEF PC!Next, PC!Step, PC!VisitStale, PC!VisitCold, PC!Cron,
        PC!Insert, PC!LookAtLock, PC!DeleteLock, PC!Reinsert, PC!Refresh, PC!Defer,
        PC!Serve, PC!NothingToServe, PC!Fail, PC!Finish, PC!Leave, PC!Die, PC!Release,
        pluginVars
<1>3. CASE ~disorder
  <2>1. LockIsHeld
    BY <1>1, <1>3
  <2>2. ASSUME NEW p \in Procs, PC!VisitStale(p) \/ PC!VisitCold(p) \/ PC!Cron(p)
        PROVE  LockIsHeld'
    <3>1. /\ [PC!Idle EXCEPT !.pc = "insert", !.found = PC!Found].pc = "insert"
          /\ [pc |-> "insert", cron |-> TRUE, found |-> PC!Found].pc = "insert"
          /\ [proc[p] EXCEPT !.pc = "cold"].pc = "cold"
      BY <1>1 DEF CacheTypes, PC!Idle
    <3> QED BY <1>1, <2>1, <2>2, <3>1, GoingKeepsLock
          DEF PC!VisitStale, PC!VisitCold, PC!Cron, PC!Goto
  <2>3. ASSUME NEW p \in Procs, PC!Insert(p) PROVE LockIsHeld'
    <3>1. PC!Idle.pc = "idle" /\ [proc[p] EXCEPT !.pc = "look"].pc = "look"
      BY <1>1 DEF CacheTypes, PC!Idle
    <3> QED BY <1>1, <2>1, <2>3, <3>1, GoingKeepsLock, TakingKeepsLock
          DEF PC!Insert, PC!Goto
  <2>4. ASSUME NEW p \in Procs, PC!LookAtLock(p) PROVE LockIsHeld'
    <3>1. ~PC!Outlived
      <4>1. \A age \in lock : ~(age > LockTTL)
        BY <2>1, CacheAssumption DEF LockIsHeld
      <4> QED BY <4>1 DEF PC!Outlived
    <3>2. proc' = [proc EXCEPT ![p] = PC!Idle] /\ UNCHANGED lock
      BY <2>4, <3>1 DEF PC!LookAtLock
    <3> QED BY <1>1, <2>1, <3>2, GoingKeepsLock DEF PC!Idle
  <2>5. ASSUME NEW p \in Procs, PC!DeleteLock(p) \/ PC!Reinsert(p) PROVE FALSE
    BY <2>1, <2>5 DEF LockIsHeld, PC!DeleteLock, PC!Reinsert
  <2>6. ASSUME NEW p \in Procs, PC!Refresh(p) PROVE LockIsHeld'
    <3> DEFINE slot == [proc[p] EXCEPT !.pc = "ask", !.found = {r \in @ : PC!Readable(r)}]
    <3>1. slot.pc = "ask"
      BY <1>1 DEF CacheTypes
    <3>2. PC!Refreshing(p)
      BY <2>6 DEF PC!Refresh, PC!Refreshing
    <3>3. proc' = [proc EXCEPT ![p] = slot] /\ UNCHANGED lock
      BY <2>6 DEF PC!Refresh
    <3> HIDE DEF slot
    <3> QED BY <1>1, <2>1, <3>1, <3>2, <3>3, GoingKeepsLock
  <2>7. ASSUME NEW p \in Procs, PC!Defer(p) \/ PC!Finish(p) PROVE LockIsHeld'
    BY <1>1, <2>1, <2>7, ReleasingKeepsLock DEF PC!Defer, PC!Finish, PC!Refreshing
  <2>8. ASSUME NEW p \in Procs, PC!Leave(p) \/ PC!Die(p) PROVE LockIsHeld'
    BY <1>1, <2>1, <2>8, GoingKeepsLock DEF PC!Leave, PC!Die, PC!Idle
  <2>9. ASSUME NEW p \in Procs, PC!Serve(p) \/ PC!NothingToServe(p) \/ PC!Fail(p)
        PROVE  LockIsHeld'
    <3>1. /\ PC!Idle.pc = "idle"
          /\ [proc[p] EXCEPT !.pc = "release"].pc = "release"
          /\ proc[p].pc = "ask" => PC!Refreshing(p)
      BY <1>1 DEF CacheTypes, PC!Idle, PC!Refreshing
    <3>2. UNCHANGED lock /\ proc' = PC!Answered(p)
      BY <2>9 DEF PC!Serve, PC!NothingToServe, PC!Fail
    <3>3. \/ /\ proc' = [proc EXCEPT ![p] = [proc[p] EXCEPT !.pc = "release"]]
             /\ proc[p].pc = "ask"
          \/ proc' = [proc EXCEPT ![p] = PC!Idle]
      BY <3>2 DEF PC!Answered
    <3> QED BY <1>1, <2>1, <3>1, <3>2, <3>3, GoingKeepsLock
  <2>10. CASE PC!Tick
    BY <1>1, <2>1, <2>10, TimeKeepsLock DEF PC!Tick, CacheTypes
  <2>11. CASE UNCHANGED pluginVars
    BY <2>1, <2>11 DEF pluginVars, LockIsHeld, PC!Refreshing
  <2> QED BY <2>2, <2>3, <2>4, <2>5, <2>6, <2>7, <2>8, <2>9, <2>10, <2>11
        DEF PC!Next, PC!Step
<1> QED BY <1>1, <1>2, <1>3 DEF CacheTypes

(* One process at a time refreshes the ad, whoever dies, defers its work or
   finds the lock stale, until a lock is outlived; and again once those who
   met that lock are done. *)
THEOREM RefreshersAreAlone == Spec => []OneRefresher
<1>1. Init => LockInv
  <2> SUFFICES ASSUME PC!Init PROVE LockInv
    BY DEF Init
  <2>1. PC!Idle \in [pc : PC!States, cron : BOOLEAN, found : SUBSET PC!Records]
    BY DEF PC!Idle, PC!States
  <2>2. CacheTypes
    BY <2>1 DEF PC!Init, CacheTypes
  <2>3. LockIsHeld
    BY DEF PC!Init, LockIsHeld, PC!Idle, PC!Refreshing
  <2> QED BY <2>2, <2>3 DEF LockInv
<1>2. LockInv => OneRefresher
  <2> SUFFICES ASSUME LockIsHeld
               PROVE  Cardinality({p \in Procs : PC!Refreshing(p)}) =< 1
    BY PartsCount DEF LockInv, OneRefresher, PC!OneRefresher
  <2>1. CASE \A p \in Procs : ~PC!Refreshing(p)
    <3>1. {p \in Procs : PC!Refreshing(p)} = {}
      BY <2>1
    <3> QED BY <3>1, FS_EmptySet
  <2>2. CASE \E p \in Procs : PC!Refreshing(p)
    <3>1. PICK p \in Procs : PC!Refreshing(p)
      BY <2>2
    <3>2. {q \in Procs : PC!Refreshing(q)} = {p}
      BY <3>1 DEF LockIsHeld
    <3> QED BY <3>2, FS_Singleton
  <2> QED BY <2>1, <2>2
<1> QED BY <1>1, <1>2, LockInvKept, PTL DEF Spec

-----------------------------------------------------------------------------
(* RateLimit: what passes in the time of one window *)

(* A step of Edges is a step of the rate limiter, or none. *)
LEMMA RateSteps == [Next]_vars => [RL!Next]_rateVars
BY DEF Next, vars, rateVars

RateTypes ==
  /\ DOMAIN buckets \subseteq Keys
  /\ \A k \in DOMAIN buckets : buckets[k] \in RL!Buckets
  /\ passed \in [Keys -> SUBSET (RL!Ages \X Nat)]

(* The age of the window that counts, at least that of every request let
   through where none is open; the requests let through since it was opened,
   and those before. *)
Since(k) == IF RL!Tracked(k) THEN Window - buckets[k].left ELSE Window
Recent(k) == {x \in passed[k] : x[1] =< Since(k)}
Earlier(k) == {x \in passed[k] : x[1] > Since(k)}

(* The open window counts its own requests, and at most one earlier window
   reaches into the time that is looked at. *)
WindowsCount(k) ==
  /\ IsFiniteSet(passed[k])
  /\ Cardinality(Recent(k)) =< Limit
  /\ Cardinality(Earlier(k)) =< Limit
  /\ RL!Open(k) => Cardinality(Recent(k)) =< buckets[k].count
  /\ ~RL!Open(k) => \A x \in passed[k] : x[1] # 0
BurstInv == RateTypes /\ \A k \in Keys : WindowsCount(k)

(* The lesser of two numbers. *)
LEMMA MinOfTwo ==
  ASSUME NEW a \in Int, NEW b \in Int
  PROVE  RL!Min({a, b}) = IF a =< b THEN a ELSE b
<1> DEFINE m == IF a =< b THEN a ELSE b
<1>1. m \in {a, b} /\ \A y \in {a, b} : m =< y
  OBVIOUS
<1>2. \A x \in {a, b} : (\A y \in {a, b} : x =< y) => x = m
  OBVIOUS
<1> HIDE DEF m
<1> QED BY <1>1, <1>2 DEF RL!Min, m

(* The bucket of a request. *)
LEMMA CountedBucket ==
  ASSUME RateTypes, NEW k \in Keys
  PROVE  /\ RL!Counted(k) \in RL!Buckets
         /\ RL!Open(k) => /\ buckets[k] \in RL!Buckets
                          /\ RL!Counted(k).left = buckets[k].left
                          /\ RL!Counted(k).count =
                               IF buckets[k].count =< Limit THEN buckets[k].count + 1
                               ELSE Limit + 1
         /\ ~RL!Open(k) => RL!Counted(k) = [count |-> 1, left |-> Window]
<1> USE RateAssumption
<1>1. CASE RL!Open(k)
  <2>1. buckets[k] \in RL!Buckets
    BY <1>1 DEF RL!Open, RL!Tracked, RateTypes
  <2>2. buckets[k].count \in 1 .. Limit + 1 /\ buckets[k].left \in -1 .. Window
    BY <2>1 DEF RL!Buckets
  <2> DEFINE c == RL!Min({buckets[k].count + 1, Limit + 1})
  <2>3. c = IF buckets[k].count =< Limit THEN buckets[k].count + 1 ELSE Limit + 1
    BY <2>2, MinOfTwo
  <2>4. c \in 1 .. Limit + 1
    BY <2>2, <2>3
  <2> HIDE DEF c
  <2>5. RL!Counted(k) = [buckets[k] EXCEPT !.count = c]
    BY <1>1 DEF RL!Counted, c
  <2> QED BY <1>1, <2>1, <2>3, <2>4, <2>5 DEF RL!Buckets
<1>2. CASE ~RL!Open(k)
  BY <1>2 DEF RL!Counted, RL!Buckets
<1> QED BY <1>1, <1>2

(* Where no window is open, all requests let through are those of the last
   one. *)
LEMMA ClosedCountsAll ==
  ASSUME RateTypes, NEW k \in Keys, ~RL!Open(k)
  PROVE  Recent(k) = passed[k] /\ Earlier(k) = {}
<1> USE RateAssumption
<1>1. Since(k) \in Int /\ Since(k) >= Window
  BY DEF Since, RL!Open, RL!Tracked, RateTypes, RL!Buckets
<1>2. \A x \in passed[k] : x[1] \in Int /\ x[1] < Window
  BY DEF RateTypes, RL!Ages
<1> QED BY <1>1, <1>2 DEF Recent, Earlier

(* A key whose bucket and history stay keeps its part of the invariant. *)
LEMMA KeyStays ==
  ASSUME NEW k \in Keys, WindowsCount(k), passed'[k] = passed[k],
         RL!Tracked(k)' <=> RL!Tracked(k), RL!Tracked(k) => buckets'[k] = buckets[k]
  PROVE  WindowsCount(k)'
BY DEF WindowsCount, Recent, Earlier, Since, RL!Open

(* The key of a request that is let through. *)
LEMMA PassCounts ==
  ASSUME BurstInv, NEW k \in Keys, RL!Pass(k)
  PROVE  WindowsCount(k)'
<1> USE RateAssumption
<1> DEFINE new == <<0, RL!Cardinality(RL!PassedNow(k))>>
<1>1. RateTypes /\ WindowsCount(k)
  BY DEF BurstInv
<1>2. /\ RL!Tracked(k)' /\ buckets'[k] = RL!Counted(k)
      /\ passed'[k] = passed[k] \cup {new}
      /\ RL!Counted(k).count =< Limit
  <2>1. ~(RL!Counted(k).count > Limit) /\ RL!Counted(k).count \in Int
    BY <1>1, CountedBucket DEF RL!Pass, RL!Refused, RL!Buckets
  <2> QED BY <1>1, <2>1 DEF RL!Pass, RL!Put, RL!Tracked, RateTypes
<1>3. \A x \in passed[k] : x[1] \in Int /\ 0 =< x[1]
  BY <1>1 DEF RateTypes, RL!Ages
<1>4. new[1] = 0
  OBVIOUS
<1> HIDE DEF new
<1>5. IsFiniteSet(passed'[k])
  BY <1>1, <1>2, FS_AddElement DEF WindowsCount
<1>6. CASE RL!Open(k)
  <2>1. Since(k)' = Since(k) /\ Since(k) \in Int /\ Since(k) >= 0 /\ RL!Open(k)'
    BY <1>1, <1>2, <1>6, CountedBucket DEF Since, RL!Open, RL!Tracked, RL!Buckets
  <2>2. Recent(k)' = Recent(k) \cup {new} /\ Earlier(k)' = Earlier(k)
    BY <1>2, <1>3, <1>4, <2>1 DEF Recent, Earlier
  <2>3. IsFiniteSet(Recent(k)) /\ Cardinality(Recent(k)) \in Nat
    BY <1>1, FS_Subset, FS_CardinalityType DEF WindowsCount, Recent
  <2>4. Cardinality(Recent(k)') =< Cardinality(Recent(k)) + 1 /\ Cardinality(Recent(k)') \in Nat
    <3> DEFINE more == Recent(k) \cup {new}
    <3>1. /\ IsFiniteSet(more)
          /\ Cardinality(more) = Cardinality(Recent(k)) \/
             Cardinality(more) = Cardinality(Recent(k)) + 1
      BY <2>3, FS_AddElement
    <3> HIDE DEF more
    <3>2. Cardinality(more) =< Cardinality(Recent(k)) + 1 /\ Cardinality(more) \in Nat
      BY <2>3, <3>1
    <3> QED BY <2>2, <3>2 DEF more
  <2>5. Cardinality(Recent(k)') =< buckets'[k].count
    <3>1. buckets[k].count \in 1 .. Limit + 1
      BY <1>1, <1>6, CountedBucket DEF RL!Buckets
    <3>2. buckets'[k].count = buckets[k].count + 1
      BY <1>1, <1>2, <1>6, <3>1, CountedBucket
    <3> QED BY <1>1, <1>6, <2>3, <2>4, <3>1, <3>2 DEF WindowsCount
  <2>6. Cardinality(Recent(k)') =< Limit
    <3>1. buckets'[k].count \in Int /\ buckets'[k].count =< Limit
      BY <1>1, <1>2, CountedBucket DEF RL!Buckets
    <3> QED BY <2>4, <2>5, <3>1
  <2> QED BY <1>1, <1>5, <2>1, <2>2, <2>5, <2>6 DEF WindowsCount
<1>7. CASE ~RL!Open(k)
  <2>1. buckets'[k] = [count |-> 1, left |-> Window] /\ 1 =< Limit
    BY <1>1, <1>2, <1>7, CountedBucket
  <2>2. Since(k)' = 0 /\ RL!Open(k)'
    BY <1>2, <2>1 DEF Since, RL!Open
  <2>3. Recent(k)' = {new} /\ Earlier(k)' = passed[k]
    BY <1>1, <1>2, <1>3, <1>4, <1>7, <2>2 DEF Recent, Earlier, WindowsCount
  <2>4. Cardinality(passed[k]) =< Limit
    BY <1>1, <1>7, ClosedCountsAll DEF WindowsCount
  <2>5. Cardinality(Recent(k)') = 1
    BY <2>3, FS_Singleton
  <2> QED BY <1>5, <2>1, <2>2, <2>3, <2>4, <2>5 DEF WindowsCount
<1> QED BY <1>6, <1>7

(* The key of a request that is refused. *)
LEMMA RefuseCounts ==
  ASSUME BurstInv, NEW k \in Keys, RL!Refuse(k)
  PROVE  WindowsCount(k)'
<1> USE RateAssumption
<1>1. RateTypes /\ WindowsCount(k)
  BY DEF BurstInv
<1>2. passed' = passed
  BY DEF RL!Refuse
<1>3. CASE RL!Crowded(k)
  BY <1>1, <1>2, <1>3, KeyStays DEF RL!Refuse, RL!Tracked
<1>4. CASE ~RL!Crowded(k)
  <2>1. RL!Tracked(k)' /\ buckets'[k] = RL!Counted(k)
    BY <1>4 DEF RL!Refuse, RL!Put, RL!Tracked
  <2>2. CASE RL!Open(k)
    <3>1. Since(k)' = Since(k) /\ RL!Open(k)'
      BY <1>1, <2>1, <2>2, CountedBucket DEF Since, RL!Open, RL!Tracked, RL!Buckets
    <3>2. Recent(k)' = Recent(k) /\ Earlier(k)' = Earlier(k)
      BY <1>2, <3>1 DEF Recent, Earlier
    <3>3. Cardinality(Recent(k)) \in Nat
      BY <1>1, FS_Subset, FS_CardinalityType DEF WindowsCount, Recent
    <3>4. /\ buckets[k].count \in 1 .. Limit + 1 /\ buckets'[k].count \in Int
          /\ buckets[k].count =< buckets'[k].count
      <4>1. buckets[k].count \in 1 .. Limit + 1
        BY <1>1, <2>2, CountedBucket DEF RL!Buckets
      <4> QED BY <1>1, <2>1, <2>2, <4>1, CountedBucket
    <3>5. Cardinality(Recent(k)) =< buckets'[k].count
      BY <1>1, <2>2, <3>3, <3>4 DEF WindowsCount
    <3> QED BY <1>1, <1>2, <3>1, <3>2, <3>5 DEF WindowsCount
  <2>3. CASE ~RL!Open(k)
    <3>1. buckets'[k] = [count |-> 1, left |-> Window]
      BY <1>1, <2>1, <2>3, CountedBucket
    <3>2. Since(k)' = 0 /\ RL!Open(k)'
      BY <2>1, <3>1 DEF Since, RL!Open
    <3>3. \A x \in passed[k] : x[1] \in Int /\ 0 < x[1]
      BY <1>1, <2>3 DEF RateTypes, RL!Ages, WindowsCount
    <3>4. Recent(k)' = {} /\ Earlier(k)' = passed[k]
      BY <1>2, <3>2, <3>3 DEF Recent, Earlier
    <3>5. Cardinality(passed[k]) =< Limit
      BY <1>1, <2>3, ClosedCountsAll DEF WindowsCount
    <3>6. Cardinality(Recent(k)') = 0
      BY <3>4, FS_EmptySet
    <3> QED BY <1>1, <1>2, <3>1, <3>2, <3>4, <3>5, <3>6 DEF WindowsCount
  <2> QED BY <2>2, <2>3
<1> QED BY <1>3, <1>4

(* The sweep drops windows that are over. *)
LEMMA SweepCounts ==
  ASSUME BurstInv, NEW k \in Keys, RL!Sweep
  PROVE  WindowsCount(k)'
<1> USE RateAssumption
<1>1. RateTypes /\ WindowsCount(k)
  BY DEF BurstInv
<1>2. passed' = passed /\ buckets' = [j \in RL!Swept |-> buckets[j]]
  BY DEF RL!Sweep
<1>3. CASE k \in RL!Swept \/ ~RL!Tracked(k)
  BY <1>1, <1>2, <1>3, KeyStays DEF RL!Tracked, RL!Swept
<1>4. CASE k \notin RL!Swept /\ RL!Tracked(k)
  <2>1. ~RL!Open(k) /\ ~RL!Tracked(k)' /\ ~RL!Open(k)' /\ Since(k)' = Window
    BY <1>1, <1>2, <1>4 DEF RL!Open, RL!Tracked, RL!Swept, RateTypes, RL!Buckets, Since
  <2>2. \A x \in passed[k] : x[1] \in Int /\ x[1] < Window
    BY <1>1 DEF RateTypes, RL!Ages
  <2>3. Recent(k)' = Recent(k) /\ Earlier(k)' = Earlier(k)
    BY <1>1, <1>2, <2>1, <2>2, ClosedCountsAll DEF Recent, Earlier
  <2> QED BY <1>1, <1>2, <2>1, <2>3 DEF WindowsCount
<1> QED BY <1>3, <1>4

(* What has grown older by one. *)
Aged(S) == {<<x[1] + 1, x[2]>> : x \in S}

(* Growing older adds none. *)
LEMMA AgedCount ==
  ASSUME NEW S, IsFiniteSet(S), NEW T, T \subseteq Aged(S)
  PROVE  IsFiniteSet(T) /\ Cardinality(T) =< Cardinality(S)
<1> DEFINE of == [x \in S |-> <<x[1] + 1, x[2]>>]
<1>1. of \in Surjection(S, Aged(S))
  BY DEF Surjection, Aged
<1> HIDE DEF of
<1>2. IsFiniteSet(Aged(S)) /\ Cardinality(Aged(S)) =< Cardinality(S)
  BY <1>1, FS_Surjection
<1>3. IsFiniteSet(T) /\ Cardinality(T) =< Cardinality(Aged(S))
  BY <1>2, FS_Subset
<1>4. Cardinality(T) \in Nat /\ Cardinality(S) \in Nat /\ Cardinality(Aged(S)) \in Nat
  BY <1>2, <1>3, FS_CardinalityType
<1> QED BY <1>2, <1>3, <1>4

(* As time passes, requests stay on their side of the window's start, or
   fall out of the time that is looked at. *)
LEMMA TickCounts ==
  ASSUME BurstInv, NEW k \in Keys, RL!Tick
  PROVE  WindowsCount(k)'
<1> USE RateAssumption
<1>1. RateTypes /\ WindowsCount(k)
  BY DEF BurstInv
<1>2. /\ passed'[k] = Aged({y \in passed[k] : y[1] + 1 \in RL!Ages})
      /\ RL!Tracked(k)' <=> RL!Tracked(k)
  BY DEF RL!Tick, RL!Tracked, Aged
<1>3. \A x \in passed[k] : x[1] \in 0 .. Window - 1
  BY <1>1 DEF RateTypes, RL!Ages
<1>4. RL!Tracked(k) =>
        /\ buckets[k] \in RL!Buckets /\ buckets'[k].count = buckets[k].count
        /\ buckets'[k].left = IF buckets[k].left >= 0 THEN buckets[k].left - 1
                              ELSE buckets[k].left
  BY <1>1 DEF RL!Tick, RL!Tracked, RateTypes, RL!Buckets
<1>5. /\ Since(k) \in Int /\ Since(k)' \in Int
      /\ Since(k)' = Since(k) + 1 \/ (Since(k) >= Window /\ Since(k)' >= Window)
  BY <1>2, <1>4 DEF Since, RL!Buckets
<1>6. Recent(k)' \subseteq Aged(Recent(k)) /\ Earlier(k)' \subseteq Aged(Earlier(k))
  <2>1. ASSUME NEW x \in passed[k], x[1] + 1 \in RL!Ages
        PROVE  x[1] + 1 =< Since(k)' <=> x[1] =< Since(k)
    BY <1>3, <1>5, <2>1 DEF RL!Ages
  <2>2. ASSUME NEW z \in passed'[k]
        PROVE  \E x \in passed[k] : x[1] + 1 \in RL!Ages /\ z = <<x[1] + 1, x[2]>>
    BY <1>2, <2>2 DEF Aged
  <2>3. ASSUME NEW z \in Recent(k)' PROVE z \in Aged(Recent(k))
    <3>1. PICK x \in passed[k] : x[1] + 1 \in RL!Ages /\ z = <<x[1] + 1, x[2]>>
      BY <2>2, <2>3 DEF Recent
    <3>2. x \in Recent(k)
      BY <2>1, <2>3, <3>1 DEF Recent
    <3> QED BY <3>1, <3>2 DEF Aged
  <2>4. ASSUME NEW z \in Earlier(k)' PROVE z \in Aged(Earlier(k))
    <3>1. PICK x \in passed[k] : x[1] + 1 \in RL!Ages /\ z = <<x[1] + 1, x[2]>>
      BY <2>2, <2>4 DEF Earlier
    <3>2. x[1] > Since(k)
      BY <1>3, <1>5, <2>1, <2>4, <3>1 DEF Earlier
    <3> QED BY <3>1, <3>2 DEF Aged, Earlier
  <2> QED BY <2>3, <2>4
<1>7. /\ IsFiniteSet(Recent(k)) /\ IsFiniteSet(Earlier(k))
      /\ IsFiniteSet({y \in passed[k] : y[1] + 1 \in RL!Ages})
  BY <1>1, FS_Subset DEF WindowsCount, Recent, Earlier
<1>8. /\ Cardinality(Recent(k)') =< Cardinality(Recent(k))
      /\ Cardinality(Earlier(k)') =< Cardinality(Earlier(k))
      /\ IsFiniteSet(passed'[k])
  BY <1>2, <1>6, <1>7, AgedCount
<1>9. /\ Cardinality(Recent(k)) \in Nat /\ Cardinality(Earlier(k)) \in Nat
      /\ Cardinality(Recent(k)') \in Nat /\ Cardinality(Earlier(k)') \in Nat
  <2>1. IsFiniteSet(Recent(k)') /\ IsFiniteSet(Earlier(k)')
    BY <1>8, FS_Subset DEF Recent, Earlier
  <2> QED BY <1>7, <2>1, FS_CardinalityType
<1>10. /\ Cardinality(Recent(k)') =< Limit /\ Cardinality(Earlier(k)') =< Limit
  BY <1>1, <1>8, <1>9 DEF WindowsCount
<1>11. RL!Open(k)' => Cardinality(Recent(k)') =< buckets'[k].count
  <2> SUFFICES ASSUME RL!Open(k)' PROVE Cardinality(Recent(k)') =< buckets'[k].count
    OBVIOUS
  <2>1. RL!Open(k) /\ buckets'[k].count = buckets[k].count /\ buckets[k].count \in Int
    BY <1>2, <1>4 DEF RL!Open, RL!Buckets
  <2> QED BY <1>1, <1>8, <1>9, <2>1 DEF WindowsCount
<1>12. \A x \in passed'[k] : x[1] # 0
  BY <1>2, <1>3 DEF Aged
<1> QED BY <1>8, <1>10, <1>11, <1>12 DEF WindowsCount

(* Every step keeps the types. *)
LEMMA RateTypesKept ==
  ASSUME BurstInv, [RL!Next]_rateVars
  PROVE  RateTypes'
<1> USE RateAssumption
<1>1. RateTypes
  BY DEF BurstInv
<1>2. ASSUME NEW k \in Keys, RL!Put(k, RL!Counted(k))
      PROVE  DOMAIN buckets' \subseteq Keys /\ \A j \in DOMAIN buckets' : buckets'[j] \in RL!Buckets
  BY <1>1, <1>2, CountedBucket DEF RL!Put, RateTypes
<1>3. ASSUME NEW k \in Keys, RL!Pass(k) PROVE RateTypes'
  <2>1. RL!PassedNow(k) \subseteq passed[k]
    BY DEF RL!PassedNow
  <2>2. IsFiniteSet(RL!PassedNow(k))
    BY <2>1, FS_Subset DEF BurstInv, WindowsCount
  <2>3. RL!Cardinality(RL!PassedNow(k)) \in Nat
    BY <2>2, FS_CardinalityType, PartsCount
  <2>4. <<0, RL!Cardinality(RL!PassedNow(k))>> \in RL!Ages \X Nat
    BY <2>3 DEF RL!Ages
  <2>5. passed' \in [Keys -> SUBSET (RL!Ages \X Nat)]
    BY <1>1, <1>3, <2>4 DEF RL!Pass, RateTypes
  <2> QED BY <1>2, <1>3, <2>5 DEF RL!Pass, RateTypes
<1>4. ASSUME NEW k \in Keys, RL!Refuse(k) PROVE RateTypes'
  BY <1>1, <1>2, <1>4 DEF RL!Refuse, RateTypes
<1>5. CASE RL!Sweep
  BY <1>1, <1>5 DEF RL!Sweep, RL!Swept, RateTypes
<1>6. CASE RL!Tick
  <2>1. \A k \in DOMAIN buckets' : buckets'[k] \in RL!Buckets
    BY <1>1, <1>6 DEF RL!Tick, RateTypes, RL!Buckets
  <2>2. passed' \in [Keys -> SUBSET (RL!Ages \X Nat)]
    BY <1>1, <1>6 DEF RL!Tick, RateTypes
  <2> QED BY <1>1, <1>6, <2>1, <2>2 DEF RL!Tick, RateTypes
<1>7. CASE UNCHANGED rateVars
  BY <1>1, <1>7 DEF rateVars, RateTypes
<1> QED BY <1>3, <1>4, <1>5, <1>6, <1>7 DEF RL!Next, RL!Request

(* Every step keeps the invariant. *)
LEMMA BurstInvKept == BurstInv /\ [Next]_vars => BurstInv'
<1> SUFFICES ASSUME BurstInv, [RL!Next]_rateVars, NEW k \in Keys PROVE WindowsCount(k)'
  BY RateSteps, RateTypesKept DEF BurstInv
<1>1. WindowsCount(k)
  BY DEF BurstInv
<1>2. ASSUME NEW j \in Keys, RL!Request(j) PROVE WindowsCount(k)'
  <2>1. CASE j = k
    BY <1>2, <2>1, PassCounts, RefuseCounts DEF RL!Request
  <2>2. CASE j # k
    <3>1. passed'[k] = passed[k]
      BY <1>2, <2>2 DEF RL!Request, RL!Pass, RL!Refuse, BurstInv, RateTypes
    <3>2. UNCHANGED buckets \/ RL!Put(j, RL!Counted(j))
      BY <1>2 DEF RL!Request, RL!Pass, RL!Refuse
    <3>3. /\ RL!Tracked(k)' <=> RL!Tracked(k)
          /\ RL!Tracked(k) => buckets'[k] = buckets[k]
      BY <2>2, <3>2 DEF RL!Tracked, RL!Put
    <3> QED BY <1>1, <3>1, <3>3, KeyStays
  <2> QED BY <2>1, <2>2
<1>3. CASE RL!Sweep \/ RL!Tick
  BY <1>3, SweepCounts, TickCounts
<1>4. CASE UNCHANGED rateVars
  BY <1>1, <1>4, KeyStays DEF rateVars, RL!Tracked
<1> QED BY <1>2, <1>3, <1>4 DEF RL!Next

(* However windows, sweeps and a full map fall together, the time of one
   window sees no more than two windows' worth of a client's requests
   through. *)
THEOREM BurstsStayBounded == Spec => []BurstsAreBounded
<1> USE RateAssumption
<1>1. Init => BurstInv
  <2> SUFFICES ASSUME RL!Init, NEW k \in Keys PROVE RateTypes /\ WindowsCount(k)
    BY DEF Init, BurstInv, RL!Init, RateTypes
  <2>1. /\ DOMAIN buckets = {} /\ passed[k] = {} /\ Recent(k) = {} /\ Earlier(k) = {}
        /\ ~RL!Open(k)
    BY DEF RL!Init, Recent, Earlier, RL!Open, RL!Tracked
  <2>2. RateTypes
    BY <2>1 DEF RL!Init, RateTypes
  <2> QED BY <2>1, <2>2, FS_EmptySet DEF WindowsCount
<1>2. BurstInv => BurstsAreBounded
  <2> SUFFICES ASSUME BurstInv, NEW k \in Keys PROVE Cardinality(passed[k]) =< 2 * Limit
    BY PartsCount DEF BurstsAreBounded, RL!BurstsAreBounded
  <2>1. RateTypes /\ WindowsCount(k)
    BY DEF BurstInv
  <2>2. IsFiniteSet(Recent(k)) /\ IsFiniteSet(Earlier(k))
    BY <2>1, FS_Subset DEF WindowsCount, Recent, Earlier
  <2>3. passed[k] = Recent(k) \cup Earlier(k) /\ Recent(k) \cap Earlier(k) = {}
    <3>1. \A x \in passed[k] : x[1] \in Int
      BY <2>1 DEF RateTypes, RL!Ages
    <3>2. Since(k) \in Int
      BY <2>1 DEF Since, RL!Tracked, RateTypes, RL!Buckets
    <3> QED BY <3>1, <3>2 DEF Recent, Earlier
  <2>4. Cardinality(passed[k]) =
          Cardinality(Recent(k)) + Cardinality(Earlier(k)) - Cardinality(Recent(k) \cap Earlier(k))
    BY <2>2, <2>3, FS_Union
  <2>5. Cardinality(Recent(k) \cap Earlier(k)) = 0
    BY <2>3, FS_EmptySet
  <2>6. Cardinality(Recent(k)) \in Nat /\ Cardinality(Earlier(k)) \in Nat
    BY <2>2, FS_CardinalityType
  <2> QED BY <2>1, <2>4, <2>5, <2>6 DEF WindowsCount
<1> QED BY <1>1, <1>2, BurstInvKept, PTL DEF Spec
=============================================================================
