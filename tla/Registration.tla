---------------------------- MODULE Registration ----------------------------
(***************************************************************************)
(* Sites come into being (src/services/siteService.ts, and the site a      *)
(* synchronised subscription binds its license to,                         *)
(* stripeEventHandlers.ts) and each keeps one house ad                     *)
(* (src/services/adService.ts), which the operator moderates.              *)
(*                                                                         *)
(* Every awaited query is a step.  The columns siteUrl and siteDomain are  *)
(* unique in the database; no such constraint covers the ads of a site.    *)
(***************************************************************************)
EXTENDS Naturals, Sequences, FiniteSets

CONSTANTS
  Urls,       \* normalised site URLs
  DomainOf,   \* the domain of a URL; two URLs may share one
  Requests,   \* slots for concurrent requests
  MaxAds      \* bound on the ads created

VARIABLES
  sites,      \* CommunitySite: the URL of each row, in the order of creation
  ads,        \* CommunityAd: [site, status], in the order of creation
  blocked,    \* BlockedDomain
  req

vars == <<sites, ads, blocked, req>>

Domains == {DomainOf[u] : u \in Urls}
AdStatuses == {"ACTIVE", "PAUSED", "BLOCKED", "PENDING", "REJECTED"}
AdInputs == {"ACTIVE", "PAUSED"}

(* register: POST /sites/register; bind: a subscription without a license;   *)
(* ad: POST /sites/ad; moderate: POST /admin/ads/:adId/status.  found: the   *)
(* row the request has read (0: none).  A failed request hit a unique key.   *)
Ops == {"none", "register", "bind", "ad", "moderate"}
Idle == [op |-> "none", step |-> "idle", url |-> CHOOSE u \in Urls : TRUE,
         site |-> 0, found |-> 0]

RequestStates ==
  [op : Ops, step : {"idle", "find", "check", "write", "failed"}, url : Urls,
   site : Nat, found : Nat]

PositionsOf(s) == {i \in DOMAIN ads : ads[i].site = s}

At(r, op, step) == req[r].op = op /\ req[r].step = step
Goto(r, step) == req' = [req EXCEPT ![r].step = step]
Finish(r) == req' = [req EXCEPT ![r] = Idle]
Found(r, row) == req' = [req EXCEPT ![r].step = "write", ![r].found = row]

Init ==
  /\ sites = <<>>
  /\ ads = <<>>
  /\ blocked = {}
  /\ req = [r \in Requests |-> Idle]

-----------------------------------------------------------------------------
(* Mutant: the row is looked for by its URL alone. *)
MatchesUrl(i, url) == sites[i] = url

(* OR: [{ siteUrl }, { siteDomain }] *)
Matches(i, url) == sites[i] = url \/ DomainOf[sites[i]] = DomainOf[url]

FirstMatch(url) ==
  IF \E i \in DOMAIN sites : Matches(i, url)
    THEN CHOOSE i \in DOMAIN sites : Matches(i, url) ELSE 0

(* The unique keys stop a new row for the URL. *)
UniqueViolated(url) ==
  \E i \in DOMAIN sites : sites[i] = url \/ DomainOf[sites[i]] = DomainOf[url]

Register(r, url) ==
  /\ req[r].op = "none"
  /\ DomainOf[url] \notin blocked
  /\ req' = [req EXCEPT ![r] = [Idle EXCEPT !.op = "register", !.step = "find", !.url = url]]
  /\ UNCHANGED <<sites, ads, blocked>>

(* The transaction of a subscription whose metadata name a URL. *)
Bind(r, url) ==
  /\ req[r].op = "none"
  /\ req' = [req EXCEPT ![r] = [Idle EXCEPT !.op = "bind", !.step = "find", !.url = url]]
  /\ UNCHANGED <<sites, ads, blocked>>

FindSite(r) ==
  /\ At(r, "register", "find") \/ At(r, "bind", "find")
  /\ Found(r, FirstMatch(req[r].url))
  /\ UNCHANGED <<sites, ads, blocked>>

(* A row that was found takes the URL of the request, unless a subscription  *)
(* only binds to it.  No unique key is in the way: every URL of the domain   *)
(* belongs to the row that has the domain, and a row never changes it.       *)
UpdateSite(r) ==
  LET i == req[r].found
  IN /\ At(r, "register", "write") \/ At(r, "bind", "write")
     /\ i # 0
     /\ sites' = IF req[r].op = "register"
                   THEN [sites EXCEPT ![i] = req[r].url] ELSE sites
     /\ Finish(r)
     /\ UNCHANGED <<ads, blocked>>

CreateSite(r) ==
  /\ At(r, "register", "write") \/ At(r, "bind", "write")
  /\ req[r].found = 0
  /\ IF UniqueViolated(req[r].url)
       THEN Goto(r, "failed") /\ UNCHANGED sites
       ELSE sites' = Append(sites, req[r].url) /\ Finish(r)
  /\ UNCHANGED <<ads, blocked>>

(* 500 to the plugin; Stripe delivers again. *)
AnswerFailure(r) ==
  /\ req[r].step = "failed"
  /\ Finish(r)
  /\ UNCHANGED <<sites, ads, blocked>>

-----------------------------------------------------------------------------
(* The site is entitled (module Entitlements); url is the one whose domain   *)
(* is checked, for the image and the target alike.                           *)
SubmitAd(r, s, url) ==
  /\ req[r].op = "none"
  /\ req' = [req EXCEPT ![r] = [Idle EXCEPT !.op = "ad", !.step = "check",
                                  !.site = s, !.url = url]]
  /\ UNCHANGED <<sites, ads, blocked>>

CheckDomain(r) ==
  /\ At(r, "ad", "check")
  /\ IF DomainOf[req[r].url] \in blocked THEN Finish(r) ELSE Goto(r, "find")
  /\ UNCHANGED <<sites, ads, blocked>>

(* Mutant: an ad that the operator has blocked is not looked at. *)
OldestUnblockedAd(s) ==
  LET kept == {i \in PositionsOf(s) : ads[i].status # "BLOCKED"}
  IN IF kept = {} THEN 0 ELSE CHOOSE i \in kept : \A j \in kept : i =< j

(* orderBy: { createdAt: 'asc' } *)
OldestAd(s) ==
  IF PositionsOf(s) = {} THEN 0
  ELSE CHOOSE i \in PositionsOf(s) : \A j \in PositionsOf(s) : i =< j

FindAd(r) ==
  /\ At(r, "ad", "find")
  /\ Found(r, OldestAd(req[r].site))
  /\ UNCHANGED <<sites, ads, blocked>>

UpsertAd(r, status) ==
  /\ At(r, "ad", "write")
  /\ \/ /\ req[r].found # 0
        /\ ads' = [ads EXCEPT ![req[r].found].status = status]
     \/ /\ req[r].found = 0
        /\ Len(ads) < MaxAds
        /\ ads' = Append(ads, [site |-> req[r].site, status |-> status])
  /\ Finish(r)
  /\ UNCHANGED <<sites, blocked>>

(* setAdStatus *)
Moderate(i, status) ==
  /\ ads' = [ads EXCEPT ![i].status = status]
  /\ UNCHANGED <<sites, blocked, req>>

(* BlockedDomain is edited in the database: no endpoint writes it. *)
BlockDomain(d) ==
  /\ blocked' = blocked \cup {d}
  /\ UNCHANGED <<sites, ads, req>>

Next ==
  \/ \E r \in Requests :
       \/ \E url \in Urls : Register(r, url) \/ Bind(r, url)
       \/ FindSite(r) \/ UpdateSite(r) \/ CreateSite(r) \/ AnswerFailure(r)
       \/ \E s \in DOMAIN sites, url \in Urls : SubmitAd(r, s, url)
       \/ CheckDomain(r) \/ FindAd(r)
       \/ \E status \in AdInputs : UpsertAd(r, status)
  \/ \E i \in DOMAIN ads, status \in AdStatuses : Moderate(i, status)
  \/ \E d \in Domains : BlockDomain(d)

Spec == Init /\ [][Next]_vars

-----------------------------------------------------------------------------
(* Properties *)

TypeOK ==
  /\ sites \in Seq(Urls)
  /\ ads \in Seq([site : DOMAIN sites, status : AdStatuses])
  /\ blocked \subseteq Domains
  /\ req \in [Requests -> RequestStates]

(* A registration fails on a unique key only where a retry finds the row     *)
(* that won, also when two installations share a domain or a subscription    *)
(* creates the site first (siteService.ts:34-36, :66-76).                    *)
LostRacesCanRetry ==
  \A r \in Requests : req[r].step = "failed" => FirstMatch(req[r].url) # 0

(* A site has more than one ad only when requests raced each other: never    *)
(* more ads than requests in flight at once, however long the site lives and *)
(* however the operator moderates (adService.ts:25-43).                      *)
DuplicateAdsAreConcurrent ==
  \A s \in DOMAIN sites : Cardinality(PositionsOf(s)) =< Cardinality(Requests)
=============================================================================
