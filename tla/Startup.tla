------------------------------ MODULE Startup --------------------------------
(***************************************************************************)
(* The start of the ad server (src/server.ts:15-58) by a platform that     *)
(* starts a process again when it fails (railway.json), and the seeding of *)
(* the forum (src/services/forumSeed.ts), which a start and the operator's *)
(* requests run, perhaps at once: a deployment overlaps the old process    *)
(* with the new one, and both serve the operator.                          *)
(*                                                                         *)
(* Every awaited query is a step; a query fails while the database is      *)
(* down.  Importing the billing settings is one step (module Checkout      *)
(* opens it), which may fail for Stripe's sake too.                        *)
(***************************************************************************)
EXTENDS Naturals

CONSTANTS
  Servers,
  NumTitles,    \* the posts to seed, PINNED.length
  Retries,      \* attempts of probeDatabase
  MaxRestarts,  \* restartPolicyMaxRetries
  MaxOutages    \* bound on the outages of the database

VARIABLES
  at,        \* where the start of each server is
  attempt,   \* of probeDatabase
  seed,      \* where the seed in progress in each server is
  item,      \* per server, the titles its seed has created
  ends,      \* how often each server has ended by a failure
  db,        \* does the database answer?
  outages,
  team,      \* has the team's account been created?
  posts,     \* CommunityPost: the seeded titles
  others,    \* CommunityPost: is there a member's post?
  faults,    \* history: the ends of each server by the database or a kill
  broken     \* history: a seed was broken off by a failure of the database
             \* or with its server

vars == <<at, attempt, seed, item, ends, db, outages, team, posts, others, faults, broken>>

Titles == 1 .. NumTitles
Stages == {"off", "probe", "import", "seed", "listening"}
SeedStages == {"idle", "count", "findUser", "createUser", "post"}

TypeOK ==
  /\ at \in [Servers -> Stages]
  /\ attempt \in [Servers -> 1 .. Retries]
  /\ seed \in [Servers -> SeedStages]
  /\ item \in [Servers -> SUBSET Titles]
  /\ ends \in [Servers -> 0 .. MaxRestarts + 1]
  /\ faults \in [Servers -> 0 .. MaxRestarts + 1]
  /\ outages \in 0 .. MaxOutages
  /\ posts \subseteq Titles
  /\ {db, team, others, broken} \subseteq BOOLEAN

Init ==
  /\ at = [p \in Servers |-> "off"]
  /\ attempt = [p \in Servers |-> 1]
  /\ seed = [p \in Servers |-> "idle"]
  /\ item = [p \in Servers |-> {}]
  /\ ends = [p \in Servers |-> 0]
  /\ db = TRUE /\ outages = 0
  /\ team = FALSE /\ posts = {} /\ others = FALSE
  /\ faults = [p \in Servers |-> 0]
  /\ broken = FALSE

world == <<db, outages, team, posts, others>>
ending == <<ends, faults, broken>>

Stage(p, s) == at' = [at EXCEPT ![p] = s]

(* The process ends and takes its seed with it. *)
Ends(p) ==
  /\ Stage(p, "off")
  /\ ends' = [ends EXCEPT ![p] = @ + 1]
  /\ seed' = [seed EXCEPT ![p] = "idle"]
  /\ item' = [item EXCEPT ![p] = {}]
  /\ broken' = (broken \/ seed[p] # "idle")

-----------------------------------------------------------------------------
(* The start of a server *)

Start(p) ==
  /\ at[p] = "off" /\ ends[p] =< MaxRestarts
  /\ Stage(p, "probe")
  /\ attempt' = [attempt EXCEPT ![p] = 1]
  /\ UNCHANGED <<seed, item, ending, world>>

Probe(p) ==
  /\ at[p] = "probe"
  /\ \/ /\ db
        /\ Stage(p, "import")
        /\ UNCHANGED <<attempt, seed, item, ending>>
     \/ /\ ~db /\ attempt[p] < Retries
        /\ attempt' = [attempt EXCEPT ![p] = @ + 1]
        /\ UNCHANGED <<at, seed, item, ending>>
     \/ /\ ~db /\ attempt[p] = Retries
        /\ Ends(p)
        /\ faults' = [faults EXCEPT ![p] = @ + 1]
        /\ UNCHANGED attempt
  /\ UNCHANGED world

BeginsSeed(p) ==
  /\ seed' = [seed EXCEPT ![p] = "count"]
  /\ item' = [item EXCEPT ![p] = {}]

(* Mutant: an error of the import is not caught. *)
FailedImportUncaught(p) ==
  /\ Ends(p)
  /\ UNCHANGED <<attempt, faults>>

(* The error is logged. *)
FailedImport(p) ==
  /\ Stage(p, "seed") /\ BeginsSeed(p)
  /\ UNCHANGED <<attempt, ending>>

ImportBilling(p) ==
  /\ at[p] = "import"
  /\ \/ /\ db
        /\ Stage(p, "seed") /\ BeginsSeed(p)
        /\ UNCHANGED <<attempt, ending>>
     \/ FailedImport(p)
  /\ UNCHANGED world

-----------------------------------------------------------------------------
(* seedForumIfEmpty *)

(* The start goes on to listen; a request is answered.  *)
SeedReturns(p) ==
  /\ seed' = [seed EXCEPT ![p] = "idle"]
  /\ item' = [item EXCEPT ![p] = {}]
  /\ at' = [at EXCEPT ![p] = "listening"]

SeedGoes(p, s) ==
  /\ seed' = [seed EXCEPT ![p] = s]
  /\ UNCHANGED <<at, item>>

CountPosts(p) ==
  /\ seed[p] = "count" /\ db
  /\ IF posts # {} \/ others THEN SeedReturns(p) ELSE SeedGoes(p, "findUser")
  /\ UNCHANGED <<attempt, ending, world>>

FindTeam(p) ==
  /\ seed[p] = "findUser" /\ db
  /\ SeedGoes(p, IF team THEN "post" ELSE "createUser")
  /\ UNCHANGED <<attempt, ending, world>>

(* The address is unique: a second create throws. *)
CreateTeam(p) ==
  /\ seed[p] = "createUser" /\ db
  /\ IF team THEN SeedReturns(p) ELSE SeedGoes(p, "post")
  /\ team' = TRUE
  /\ UNCHANGED <<attempt, ending, db, outages, posts, others>>

(* Mutant: the posts are created side by side, in any order. *)
NextTitlesAtOnce(done) == Titles \ done

(* for (const item of PINNED) *)
NextTitles(done) == {i \in Titles \ done : \A j \in Titles \ done : i =< j}

(* The slugs are fixed and unique: a title that is there throws. *)
CreatePost(p, i) ==
  /\ seed[p] = "post" /\ db
  /\ i \in NextTitles(item[p])
  /\ IF i \in posts \/ item[p] \cup {i} = Titles
       THEN SeedReturns(p)
       ELSE /\ item' = [item EXCEPT ![p] = @ \cup {i}]
            /\ UNCHANGED <<at, seed>>
  /\ posts' = posts \cup {i}
  /\ UNCHANGED <<attempt, ending, db, outages, team, others>>

(* A query fails: logged by the start, 500 to the operator. *)
SeedFails(p) ==
  /\ seed[p] # "idle" /\ ~db
  /\ SeedReturns(p)
  /\ broken' = TRUE
  /\ UNCHANGED <<attempt, ends, faults, world>>

(* POST /admin/forum/seed *)
RequestSeed(p) ==
  /\ at[p] = "listening" /\ seed[p] = "idle"
  /\ BeginsSeed(p)
  /\ UNCHANGED <<at, attempt, ending, world>>

-----------------------------------------------------------------------------
(* The world *)

MemberPosts ==
  /\ \E p \in Servers : at[p] = "listening"
  /\ db
  /\ others' = TRUE
  /\ UNCHANGED <<at, attempt, seed, item, ending, db, outages, team, posts>>

Kill(p) ==
  /\ at[p] # "off"
  /\ Ends(p)
  /\ faults' = [faults EXCEPT ![p] = @ + 1]
  /\ UNCHANGED <<attempt, world>>

Outage ==
  /\ db /\ outages < MaxOutages
  /\ db' = FALSE
  /\ outages' = outages + 1
  /\ UNCHANGED <<at, attempt, seed, item, ending, team, posts, others>>

Recovery ==
  /\ ~db
  /\ db' = TRUE
  /\ UNCHANGED <<at, attempt, seed, item, ending, outages, team, posts, others>>

Seeds(p) ==
  \/ CountPosts(p) \/ FindTeam(p) \/ CreateTeam(p)
  \/ \E i \in Titles : CreatePost(p, i)
  \/ SeedFails(p)

Progress(p) == Start(p) \/ Probe(p) \/ ImportBilling(p) \/ Seeds(p)

Next ==
  \/ \E p \in Servers : Progress(p) \/ RequestSeed(p) \/ Kill(p)
  \/ MemberPosts \/ Outage \/ Recovery

(* Queries are answered or fail, the platform starts what has failed, and    *)
(* outages end.                                                              *)
Fairness == WF_vars(Recovery) /\ \A p \in Servers : WF_vars(Progress(p))

-----------------------------------------------------------------------------
(* Properties *)

(* Servers that seed at once, and operators who ask for it meanwhile, get in *)
(* each other's way without harm: when none is at it any more, and none was  *)
(* broken off by a failure, the forum has every post once                    *)
(* (forumSeed.ts:37-71, server.ts:38-43).                                    *)
SeedsComplete ==
  /\ \E p \in Servers : at[p] = "listening"
  /\ \A p \in Servers : seed[p] = "idle"
  /\ ~broken
  => posts = Titles

(* Whatever becomes of the import and of the seed, a server comes to listen, *)
(* unless the database or kills use up the platform's restarts               *)
(* (server.ts:34-58, railway.json:11-12).                                    *)
ServersListen ==
  \A p \in Servers : <>[](at[p] = "listening" \/ faults[p] > MaxRestarts)
=============================================================================
