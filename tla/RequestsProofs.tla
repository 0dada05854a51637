---------------------------- MODULE RequestsProofs ----------------------------
(***************************************************************************)
(* Theorems about the parts of Requests, for every value of its constants: *)
(* a step of Requests is a step of the part that runs, and leaves the      *)
(* others alone.  ForumProofs has those about the forum.                   *)
(***************************************************************************)
EXTENDS Requests, SequenceTheorems, FiniteSetTheorems, TLAPS

-----------------------------------------------------------------------------
(* Checkout: the settings *)

(* A step of Requests is one of checkout, or leaves it alone. *)
LEMMA CheckoutSteps == [PartsNext]_allVars => [Pay!Next]_payVars
BY DEF PartsNext, allVars, payVars

(* Steps other than a save and the import that finds no row leave it alone. *)
LEMMA WhoWritesSettings ==
  ASSUME Pay!Next, row' # row
  PROVE  (\E r \in Requests : Pay!UpsertSaved(r)) \/ row = {}
BY DEF Pay!Next, Pay!Save, Pay!Import, Pay!UpsertSaved, Pay!UpsertImported, Pay!Imported,
       Pay!VerifyPlan, Pay!StripeFails, Pay!StartCheckout, Pay!VerifyPrice,
       Pay!CreateSession, Pay!Tick

(* Whatever a starting server had read, its import undoes no settings an
   operator has saved. *)
THEOREM SettingsStay == PartsSpec => OperatorSettingsStay
<1>1. Pay!Next /\ row # {} /\ row' # row =>
        \E r \in Requests : Pay!At(r, "save", "write") /\ row' = {payReq[r].settings}
  BY WhoWritesSettings DEF Pay!UpsertSaved
<1>2. [PartsNext]_allVars =>
        [row # {} /\ row' # row =>
           \E r \in Requests : Pay!At(r, "save", "write")
                               /\ row' = {payReq[r].settings}]_(Pay!vars)
  BY <1>1, CheckoutSteps DEF payVars, Pay!vars
<1> QED BY <1>2, PTL DEF PartsSpec, OperatorSettingsStay, Pay!OperatorSettingsStay

-----------------------------------------------------------------------------
(* Checkout: the keys *)

(* The parameters of a site's session, from the fields that vary: the return
   pages are the site's, and so is the reference. *)
SentFor(q) ==
  [plan |-> q.plan, price |-> q.price, grace |-> q.grace, email |-> q.email,
   success |-> [host |-> q.url, outcome |-> "success"],
   cancel |-> [host |-> q.url, outcome |-> "canceled"],
   reference |-> q.site, site |-> q.site, url |-> q.url]

(* Each session was opened for a site, with a key that carries the site and
   the hash of the fields that are hashed. *)
KeysInOrder ==
  \A s \in opened :
    /\ s.parameters = SentFor(s.parameters)
    /\ s.key.site = s.parameters.site
    /\ s.key.hash = Pay!ConfigHash(s.parameters)

(* The site and the hashed fields determine what is sent: the e-mail, the
   price, the plan and the grace are hashed, and the URL is in the return
   pages. *)
LEMMA HashDetermines ==
  ASSUME NEW p, NEW q, p = SentFor(p), q = SentFor(q), p.site = q.site,
         Pay!ConfigHash(p) = Pay!ConfigHash(q)
  PROVE  p = q
<1>1. /\ p.price = q.price /\ p.grace = q.grace /\ p.email = q.email
      /\ p.success = q.success /\ p.plan = q.plan
  BY DEF Pay!ConfigHash
<1>2. p.success.host = p.url /\ q.success.host = q.url
  BY DEF SentFor
<1>3. SentFor(p) = SentFor(q)
  BY <1>1, <1>2 DEF SentFor
<1> QED BY <1>3

(* Every step keeps it. *)
LEMMA KeysKept == KeysInOrder /\ [PartsNext]_allVars => KeysInOrder'
<1> SUFFICES ASSUME KeysInOrder, [Pay!Next]_payVars PROVE KeysInOrder'
  BY CheckoutSteps
<1>1. CASE UNCHANGED opened
  BY <1>1 DEF KeysInOrder
<1>2. ASSUME NEW r \in Requests, Pay!CreateSession(r) PROVE KeysInOrder'
  <2>1. CASE payReq[r].customer.site = NoSite
    BY <1>1, <1>2, <2>1 DEF Pay!CreateSession
  <2>2. CASE payReq[r].customer.site # NoSite
    <3> DEFINE q == Pay!Parameters(r)
               made == [key |-> Pay!Key(r), parameters |-> q]
    <3>1. opened' = opened \cup {made}
      BY <1>2, <2>2 DEF Pay!CreateSession
    <3>2. q = SentFor(q) /\ q.site = payReq[r].customer.site
      BY <2>2 DEF Pay!Parameters, Pay!ReturnTo, SentFor
    <3>3. made.key.site = q.site /\ made.key.hash = Pay!ConfigHash(q) /\ made.parameters = q
      BY <3>2 DEF Pay!Key
    <3> HIDE DEF q, made
    <3> QED BY <3>1, <3>2, <3>3 DEF KeysInOrder
  <2> QED BY <2>1, <2>2
<1> QED BY <1>1, <1>2 DEF Pay!Next, Pay!Save, Pay!Import, Pay!UpsertSaved,
      Pay!UpsertImported, Pay!VerifyPlan, Pay!StripeFails, Pay!StartCheckout,
      Pay!VerifyPrice, Pay!Tick, payVars

(* No two sessions were opened with one key and other parameters, whatever
   the operator changed in between, and whatever site, URL and e-mail came. *)
THEOREM KeysAreSafe == PartsSpec => []KeysNameOneRequest
<1>1. PartsInit => KeysInOrder
  BY DEF PartsInit, Pay!Init, KeysInOrder
<1>2. ASSUME KeysInOrder, NEW s \in opened, NEW t \in opened, s.key = t.key
      PROVE  s.parameters = t.parameters
  BY <1>2, HashDetermines DEF KeysInOrder
<1>3. KeysInOrder => KeysNameOneRequest
  BY <1>2 DEF KeysNameOneRequest, Pay!KeysNameOneRequest
<1> QED BY <1>1, <1>3, KeysKept, PTL DEF PartsSpec

-----------------------------------------------------------------------------
(* Registration: lost races *)

(* While registrations run, a step is one of theirs. *)
LEMMA RegistrationSteps ==
  [PartsNext]_allVars /\ part = "registrations" =>
    part' = part /\ [Registrations!Next]_regVars
BY DEF PartsNext, allVars, regVars

RowTypes ==
  /\ sites \in Seq(Urls)
  /\ regReq \in [Requests -> Registrations!RequestStates]
  /\ siteAds = <<>>

(* Is there a row with the domain of the URL? *)
DomainTaken(url) == \E i \in DOMAIN sites : DomainOf[sites[i]] = DomainOf[url]

(* A row that a request has found has its domain, and a request fails only
   where its domain is taken. *)
RegistrationInOrder(q) ==
  /\ q.op \in {"register", "bind"} /\ q.step = "write" /\ q.found # 0 =>
       q.found \in DOMAIN sites /\ DomainOf[sites[q.found]] = DomainOf[q.url]
  /\ q.step = "failed" => DomainTaken(q.url)
RegistrationInv ==
  part = "registrations" => RowTypes /\ \A r \in Requests : RegistrationInOrder(regReq[r])

(* The row found is one that matches; without a match there is none. *)
LEMMA FirstMatchMatches ==
  ASSUME RowTypes, NEW url \in Urls
  PROVE  /\ Registrations!FirstMatch(url) \in Nat
         /\ Registrations!FirstMatch(url) # 0 =>
              /\ Registrations!FirstMatch(url) \in DOMAIN sites
              /\ DomainOf[sites[Registrations!FirstMatch(url)]] = DomainOf[url]
         /\ DomainTaken(url) => Registrations!FirstMatch(url) # 0
<1>1. DOMAIN sites = 1 .. Len(sites) /\ Len(sites) \in Nat
  BY DEF RowTypes
<1>2. \A i \in DOMAIN sites :
        Registrations!Matches(i, url) <=> DomainOf[sites[i]] = DomainOf[url]
  BY DEF Registrations!Matches
<1>3. CASE \E i \in DOMAIN sites : Registrations!Matches(i, url)
  <2>1. Registrations!FirstMatch(url) =
          CHOOSE i \in DOMAIN sites : Registrations!Matches(i, url)
    BY <1>3 DEF Registrations!FirstMatch
  <2>2. /\ Registrations!FirstMatch(url) \in DOMAIN sites
        /\ Registrations!Matches(Registrations!FirstMatch(url), url)
    BY <1>3, <2>1
  <2> QED BY <1>1, <1>2, <2>2
<1>4. CASE ~\E i \in DOMAIN sites : Registrations!Matches(i, url)
  BY <1>2, <1>4 DEF Registrations!FirstMatch, DomainTaken
<1> QED BY <1>3, <1>4

(* A request alone moves on. *)
LEMMA SlotKeepsOrder ==
  ASSUME RowTypes, \A q \in Requests : RegistrationInOrder(regReq[q]), NEW r \in Requests,
         NEW slot \in Registrations!RequestStates, regReq' = [regReq EXCEPT ![r] = slot],
         RegistrationInOrder(slot), UNCHANGED <<sites, siteAds>>
  PROVE  RowTypes' /\ \A q \in Requests : RegistrationInOrder(regReq[q])'
<1>1. RowTypes'
  BY DEF RowTypes
<1>2. ASSUME NEW q \in Requests PROVE RegistrationInOrder(regReq[q])'
  BY DEF RowTypes, RegistrationInOrder, DomainTaken
<1> QED BY <1>1, <1>2

(* A request that is finished is in order. *)
LEMMA IdleInOrder ==
  RegistrationInOrder(Registrations!Idle) /\ Registrations!Idle \in Registrations!RequestStates
<1>1. (CHOOSE u \in Urls : TRUE) \in Urls
  BY UrlsAssumption
<1> QED BY <1>1 DEF RegistrationInOrder, Registrations!Idle, Registrations!RequestStates,
      Registrations!Ops

(* A request finishes, and no row changes its domain. *)
LEMMA FinishKeepsOrder ==
  ASSUME RowTypes, \A q \in Requests : RegistrationInOrder(regReq[q]), NEW r \in Requests,
         regReq' = [regReq EXCEPT ![r] = Registrations!Idle],
         \A i \in DOMAIN sites : /\ i \in DOMAIN sites'
                                 /\ DomainOf[sites'[i]] = DomainOf[sites[i]]
  PROVE  \A q \in Requests : RegistrationInOrder(regReq[q])'
<1> SUFFICES ASSUME NEW q \in Requests PROVE RegistrationInOrder(regReq[q])'
  OBVIOUS
<1>1. \A url : DomainTaken(url) => DomainTaken(url)'
  BY DEF DomainTaken
<1>2. CASE q = r
  <2>1. regReq'[q].op = "none" /\ regReq'[q].step = "idle"
    BY <1>2 DEF RowTypes, Registrations!Idle
  <2> QED BY <2>1 DEF RegistrationInOrder
<1>3. CASE q # r
  <2>1. regReq'[q] = regReq[q]
    BY <1>3 DEF RowTypes
  <2>2. DomainTaken(regReq[q].url) => DomainTaken(regReq[q].url)'
    BY <2>1 DEF DomainTaken
  <2> QED BY <2>1, <2>2 DEF RegistrationInOrder
<1> QED BY <1>2, <1>3

(* Every step keeps the invariant. *)
LEMMA RegistrationInvKept ==
  RegistrationInv /\ [PartsNext]_allVars => RegistrationInv'
<1> DEFINE InOrder == \A q \in Requests : RegistrationInOrder(regReq[q])
<1> SUFFICES ASSUME RowTypes, InOrder, [Registrations!Next]_regVars
             PROVE  RowTypes' /\ InOrder'
  BY RegistrationSteps DEF RegistrationInv, PartsNext, allVars
<1> USE DEF Registrations!RequestStates, Registrations!Ops
<1>1. ASSUME NEW r \in Requests, Registrations!Finish(r), UNCHANGED <<sites, siteAds>>
      PROVE  RowTypes' /\ InOrder'
  BY <1>1, SlotKeepsOrder, IdleInOrder DEF Registrations!Finish
<1>2. ASSUME NEW r \in Requests, NEW url \in Urls,
             Registrations!Register(r, url) \/ Registrations!Bind(r, url)
      PROVE  RowTypes' /\ InOrder'
  <2>1. \A op \in {"register", "bind"} :
          LET slot == [Registrations!Idle EXCEPT !.op = op, !.step = "find", !.url = url]
          IN slot \in Registrations!RequestStates /\ RegistrationInOrder(slot)
    BY IdleInOrder DEF RegistrationInOrder, Registrations!Idle
  <2> QED BY <1>2, <2>1, SlotKeepsOrder DEF Registrations!Register, Registrations!Bind
<1>3. ASSUME NEW r \in Requests, Registrations!FindSite(r) PROVE RowTypes' /\ InOrder'
  <2> DEFINE found == Registrations!FirstMatch(regReq[r].url)
             slot == [regReq[r] EXCEPT !.step = "write", !.found = found]
  <2>1. regReq[r] \in Registrations!RequestStates /\ regReq[r].url \in Urls
    BY DEF RowTypes
  <2>2. /\ found \in Nat
        /\ found # 0 => found \in DOMAIN sites /\ DomainOf[sites[found]] = DomainOf[regReq[r].url]
    BY <2>1, FirstMatchMatches
  <2> HIDE DEF found
  <2>3. slot \in Registrations!RequestStates /\ RegistrationInOrder(slot)
    BY <2>1, <2>2 DEF RegistrationInOrder
  <2>4. regReq' = [regReq EXCEPT ![r] = slot] /\ UNCHANGED <<sites, siteAds>>
    BY <1>3 DEF Registrations!FindSite, Registrations!Found, found
  <2> HIDE DEF slot
  <2> QED BY <2>3, <2>4, SlotKeepsOrder
<1>4. ASSUME NEW r \in Requests, Registrations!UpdateSite(r) PROVE RowTypes' /\ InOrder'
  <2> DEFINE i == regReq[r].found
  <2>1. /\ i \in DOMAIN sites /\ DomainOf[sites[i]] = DomainOf[regReq[r].url]
        /\ regReq[r].url \in Urls
    BY <1>4 DEF RowTypes, RegistrationInOrder, Registrations!UpdateSite, Registrations!At
  <2>2. /\ sites' = sites \/ sites' = [sites EXCEPT ![i] = regReq[r].url]
        /\ regReq' = [regReq EXCEPT ![r] = Registrations!Idle]
        /\ siteAds' = siteAds
    BY <1>4 DEF Registrations!UpdateSite, Registrations!Finish
  <2>3. RowTypes'
    <3>1. sites' \in Seq(Urls)
      <4>1. sites \in Seq(Urls) /\ i \in 1 .. Len(sites) /\ regReq[r].url \in Urls
        BY <2>1 DEF RowTypes
      <4> HIDE DEF i
      <4>2. [sites EXCEPT ![i] = regReq[r].url] \in Seq(Urls)
        BY <4>1, ExceptSeq
      <4> QED BY <2>2, <4>1, <4>2
    <3>2. regReq' \in [Requests -> Registrations!RequestStates]
      BY <2>2, IdleInOrder DEF RowTypes
    <3> QED BY <2>2, <3>1, <3>2 DEF RowTypes
  <2>4. \A j \in DOMAIN sites : j \in DOMAIN sites' /\ DomainOf[sites'[j]] = DomainOf[sites[j]]
    BY <2>1, <2>2 DEF RowTypes
  <2>5. InOrder'
    BY <2>2, <2>4, FinishKeepsOrder
  <2> QED BY <2>3, <2>5
<1>5. ASSUME NEW r \in Requests, Registrations!CreateSite(r) PROVE RowTypes' /\ InOrder'
  <2>1. regReq[r] \in Registrations!RequestStates /\ regReq[r].url \in Urls
    BY DEF RowTypes
  <2>2. CASE Registrations!UniqueViolated(regReq[r].url)
    <3> DEFINE slot == [regReq[r] EXCEPT !.step = "failed"]
    <3>1. DomainTaken(regReq[r].url)
      BY <2>2 DEF Registrations!UniqueViolated, DomainTaken
    <3>2. slot \in Registrations!RequestStates /\ RegistrationInOrder(slot)
      BY <2>1, <3>1 DEF RegistrationInOrder
    <3>3. regReq' = [regReq EXCEPT ![r] = slot] /\ UNCHANGED <<sites, siteAds>>
      BY <1>5, <2>2 DEF Registrations!CreateSite, Registrations!Goto
    <3> HIDE DEF slot
    <3> QED BY <3>2, <3>3, SlotKeepsOrder
  <2>3. CASE ~Registrations!UniqueViolated(regReq[r].url)
    <3>1. /\ sites' = Append(sites, regReq[r].url) /\ siteAds' = siteAds
          /\ regReq' = [regReq EXCEPT ![r] = Registrations!Idle]
      BY <1>5, <2>3 DEF Registrations!CreateSite, Registrations!Finish
    <3>2. RowTypes'
      BY <2>1, <3>1, IdleInOrder DEF RowTypes
    <3>3. \A j \in DOMAIN sites : j \in DOMAIN sites' /\ DomainOf[sites'[j]] = DomainOf[sites[j]]
      BY <2>1, <3>1 DEF RowTypes
    <3>4. InOrder'
      BY <3>1, <3>3, FinishKeepsOrder
    <3> QED BY <3>2, <3>4
  <2> QED BY <2>2, <2>3
<1>6. ASSUME NEW r \in Requests, Registrations!AnswerFailure(r) PROVE RowTypes' /\ InOrder'
  BY <1>1, <1>6 DEF Registrations!AnswerFailure
<1>7. ASSUME NEW r \in Requests, NEW s \in DOMAIN sites, NEW url \in Urls,
             Registrations!SubmitAd(r, s, url)
      PROVE  RowTypes' /\ InOrder'
  <2> DEFINE slot == [Registrations!Idle EXCEPT !.op = "ad", !.step = "check",
                                                !.site = s, !.url = url]
  <2>1. s \in Nat
    BY DEF RowTypes
  <2>2. slot \in Registrations!RequestStates /\ RegistrationInOrder(slot)
    BY <2>1, IdleInOrder DEF RegistrationInOrder, Registrations!Idle
  <2> QED BY <1>7, <2>2, SlotKeepsOrder DEF Registrations!SubmitAd
<1>8. ASSUME NEW r \in Requests, Registrations!CheckDomain(r) PROVE RowTypes' /\ InOrder'
  <2> DEFINE slot == [regReq[r] EXCEPT !.step = "find"]
  <2>1. slot \in Registrations!RequestStates /\ RegistrationInOrder(slot)
    <3>1. regReq[r] \in Registrations!RequestStates
      BY DEF RowTypes
    <3>2. slot \in Registrations!RequestStates /\ slot.step = "find"
      BY <3>1 DEF Registrations!RequestStates
    <3> HIDE DEF slot
    <3> QED BY <3>2 DEF RegistrationInOrder
  <2>2. \/ Registrations!Finish(r)
        \/ regReq' = [regReq EXCEPT ![r] = slot]
    BY <1>8 DEF Registrations!CheckDomain, Registrations!Goto
  <2>3. UNCHANGED <<sites, siteAds>>
    BY <1>8 DEF Registrations!CheckDomain
  <2> HIDE DEF slot
  <2> QED BY <1>1, <2>1, <2>2, <2>3, SlotKeepsOrder
<1>9. ASSUME NEW r \in Requests, Registrations!FindAd(r) PROVE RowTypes' /\ InOrder'
  <2> DEFINE slot == [regReq[r] EXCEPT !.step = "write", !.found = 0]
  <2>1. Registrations!OldestAd(regReq[r].site) = 0
    BY DEF Registrations!OldestAd, Registrations!PositionsOf, RowTypes
  <2>2. slot \in Registrations!RequestStates /\ RegistrationInOrder(slot)
    <3>1. regReq[r] \in Registrations!RequestStates /\ regReq[r].op = "ad"
      BY <1>9 DEF RowTypes, Registrations!FindAd, Registrations!At
    <3> QED BY <3>1 DEF RegistrationInOrder
  <2>3. regReq' = [regReq EXCEPT ![r] = slot] /\ UNCHANGED <<sites, siteAds>>
    BY <1>9, <2>1 DEF Registrations!FindAd, Registrations!Found
  <2> HIDE DEF slot
  <2> QED BY <2>2, <2>3, SlotKeepsOrder
<1>10. ASSUME NEW r \in Requests, NEW status \in Registrations!AdInputs,
              Registrations!UpsertAd(r, status)
       PROVE  RowTypes' /\ InOrder'
  <2>1. siteAds' = siteAds
    BY <1>10 DEF Registrations!UpsertAd, RowTypes
  <2> QED BY <1>1, <1>10, <2>1 DEF Registrations!UpsertAd
<1>11. CASE UNCHANGED <<sites, siteAds, regReq>>
  BY <1>11 DEF RowTypes, RegistrationInOrder, DomainTaken
<1>12. ASSUME NEW i \in DOMAIN siteAds PROVE FALSE
  BY DEF RowTypes
<1> QED BY <1>2, <1>3, <1>4, <1>5, <1>6, <1>7, <1>8, <1>9, <1>10, <1>11, <1>12
      DEF Registrations!Next, Registrations!BlockDomain, regVars

(* A registration fails on a unique key only where a retry finds the row that
   won, also when two installations share a domain or a subscription creates
   the site first. *)
THEOREM RacesCanBeRetried == PartsSpec => []LostRacesCanRetry
<1>1. PartsInit => RegistrationInv
  BY IdleInOrder DEF PartsInit, Registrations!Init, RegistrationInv, RowTypes
<1>2. RegistrationInv => LostRacesCanRetry
  <2> SUFFICES ASSUME RowTypes, NEW r \in Requests, RegistrationInOrder(regReq[r]),
                      regReq[r].step = "failed"
               PROVE  Registrations!FirstMatch(regReq[r].url) # 0
    BY DEF RegistrationInv, LostRacesCanRetry, Registrations!LostRacesCanRetry
  <2>1. regReq[r].url \in Urls
    BY DEF RowTypes, Registrations!RequestStates
  <2> QED BY <2>1, FirstMatchMatches DEF RegistrationInOrder
<1> QED BY <1>1, <1>2, RegistrationInvKept, PTL DEF PartsSpec

-----------------------------------------------------------------------------
(* Ads: duplicates *)

(* The theorems about Entitlements, for the activations of Requests. *)
P == INSTANCE EntitlementsProofs WITH Ops <- ActivationOps, req <- entReq

(* They hold here: Requests assumes what Entitlements does. *)
LEMMA EntitlementsAssumed ==
  P!OpsAssumption /\ P!TimeAssumption /\ P!SetsAssumption /\ P!ActivationsAssumption
BY ActivationsAssumption, SlotsAssumption
   DEF P!OpsAssumption, P!TimeAssumption, P!SetsAssumption, P!ActivationsAssumption,
     P!PluginOps, P!SiteOps, P!OperatorOps, Activations!PluginOps, Activations!SiteOps,
     Activations!OperatorOps, P!IsFiniteSet, IsFiniteSet

(* While ads are submitted, a step is one of theirs. *)
LEMMA AdSteps ==
  [PartsNext]_allVars /\ part = "siteAds" => part' = part /\ [SiteAds!Next]_regVars
BY DEF PartsNext, allVars, regVars

AdRows == [site : Nat, status : SiteAds!AdStatuses]
AdTypes ==
  /\ sites \in Seq(AdUrls)
  /\ siteAds \in Seq(AdRows)
  /\ regReq \in [Requests -> SiteAds!RequestStates]

(* The requests about to add an ad to a site. *)
AddsAd(q, s) == q.op = "ad" /\ q.step = "write" /\ q.found = 0 /\ q.site = s
Writers(s) == {r \in Requests : AddsAd(regReq[r], s)}

(* The inductive invariant: an ad that a request is about to add is counted
   with those of the site.  Who finds none to update sees an empty site, and
   the other requests are all that can add one before it does. *)
AdsAreBounded ==
  \A s \in Nat :
    Cardinality(SiteAds!PositionsOf(s)) + Cardinality(Writers(s)) =< Cardinality(Requests)
AdsInv == part = "siteAds" => AdTypes /\ AdsAreBounded

(* A site without an oldest ad has none. *)
LEMMA OldestIsAnAd ==
  ASSUME AdTypes, NEW s \in Nat
  PROVE  /\ SiteAds!OldestAd(s) \in Nat
         /\ SiteAds!OldestAd(s) = 0 => SiteAds!PositionsOf(s) = {}
<1> DEFINE positions == SiteAds!PositionsOf(s)
<1>1. positions \in SUBSET Nat /\ 0 \notin positions
  BY DEF AdTypes, SiteAds!PositionsOf
<1>2. CASE positions # {}
  <2>1. \E i \in positions : \A j \in positions : i =< j
    <3> HIDE DEF positions
    <3> QED BY <1>1, <1>2, EntitlementsAssumed, P!LeastNatural
  <2>2. SiteAds!OldestAd(s) \in positions
    BY <1>2, <2>1 DEF SiteAds!OldestAd
  <2> QED BY <1>1, <2>2
<1>3. CASE positions = {}
  BY <1>3 DEF SiteAds!OldestAd
<1> QED BY <1>2, <1>3

(* The positions and the writers of a site are finitely many. *)
AdsCount ==
  \A s \in Nat :
    /\ IsFiniteSet(SiteAds!PositionsOf(s)) /\ Cardinality(SiteAds!PositionsOf(s)) \in Nat
    /\ IsFiniteSet(Writers(s)) /\ Cardinality(Writers(s)) \in Nat
    /\ Cardinality(Writers(s)) =< Cardinality(Requests) /\ Cardinality(Requests) \in Nat

(* The ads of a site, and the requests about to add one, can be counted. *)
LEMMA AdsAreFinite == AdTypes => AdsCount
<1> SUFFICES ASSUME AdTypes, NEW s \in Nat
             PROVE  /\ IsFiniteSet(SiteAds!PositionsOf(s)) /\ IsFiniteSet(Writers(s))
                    /\ Cardinality(Writers(s)) =< Cardinality(Requests)
  BY SlotsAssumption, FS_CardinalityType DEF AdsCount
<1>1. SiteAds!PositionsOf(s) \subseteq 1 .. Len(siteAds) /\ Len(siteAds) \in Nat
  BY DEF AdTypes, SiteAds!PositionsOf
<1>2. IsFiniteSet(1 .. Len(siteAds))
  BY <1>1, FS_Interval
<1>3. Writers(s) \subseteq Requests
  BY DEF Writers
<1> QED BY <1>1, <1>2, <1>3, SlotsAssumption, FS_Subset

(* A site whose ads stay where they are, and to which no other request is
   about to add one. *)
LEMMA NoNewWriter ==
  ASSUME AdTypes, AdTypes', AdsAreBounded, NEW s \in Nat,
         SiteAds!PositionsOf(s)' = SiteAds!PositionsOf(s), Writers(s)' \subseteq Writers(s)
  PROVE  Cardinality(SiteAds!PositionsOf(s)') + Cardinality(Writers(s)') =< Cardinality(Requests)
<1>1. AdsCount /\ AdsCount'
  BY AdsAreFinite, PTL
<1>2. Cardinality(Writers(s)') =< Cardinality(Writers(s)) /\ Cardinality(Writers(s)') \in Nat
  BY <1>1, FS_Subset DEF AdsCount
<1> QED BY <1>1, <1>2 DEF AdsAreBounded, AdsCount

(* A request moves on, without coming to add an ad. *)
LEMMA SlotKeepsAds ==
  ASSUME AdTypes, AdsAreBounded, NEW r \in Requests, NEW slot \in SiteAds!RequestStates,
         regReq' = [regReq EXCEPT ![r] = slot], \A s \in Nat : ~AddsAd(slot, s),
         sites' \in Seq(AdUrls), siteAds' \in Seq(AdRows),
         \A s \in Nat : SiteAds!PositionsOf(s)' = SiteAds!PositionsOf(s)
  PROVE  AdTypes' /\ AdsAreBounded'
<1>1. AdTypes'
  BY DEF AdTypes
<1>2. ASSUME NEW s \in Nat PROVE Writers(s)' \subseteq Writers(s)
  BY DEF Writers, AdTypes
<1>3. ASSUME NEW s \in Nat
      PROVE  Cardinality(SiteAds!PositionsOf(s)') + Cardinality(Writers(s)')
               =< Cardinality(Requests)
  BY <1>1, <1>2, NoNewWriter
<1> QED BY <1>1, <1>3 DEF AdsAreBounded

(* The status of an ad has nothing to do with its place. *)
LEMMA StatusKeepsPlaces ==
  ASSUME AdTypes, NEW i, NEW status \in SiteAds!AdStatuses,
         siteAds' = [siteAds EXCEPT ![i].status = status]
  PROVE  /\ siteAds' \in Seq(AdRows)
         /\ \A s \in Nat : SiteAds!PositionsOf(s)' = SiteAds!PositionsOf(s)
<1>1. /\ siteAds \in Seq(AdRows) /\ DOMAIN siteAds = 1 .. Len(siteAds)
      /\ \A j \in 1 .. Len(siteAds) : siteAds[j] \in AdRows
  BY DEF AdTypes
<1>2. CASE i \in 1 .. Len(siteAds)
  <2> DEFINE entry == [siteAds[i] EXCEPT !.status = status]
  <2>1. entry \in AdRows /\ entry.site = siteAds[i].site
    BY <1>1, <1>2 DEF AdRows
  <2>2. siteAds' = [siteAds EXCEPT ![i] = entry]
    OBVIOUS
  <2> HIDE DEF entry
  <2>3. /\ siteAds' \in Seq(AdRows) /\ Len(siteAds') = Len(siteAds)
        /\ \A j \in 1 .. Len(siteAds) : siteAds'[j] = IF j = i THEN entry ELSE siteAds[j]
    BY <1>1, <1>2, <2>1, <2>2, ExceptSeq
  <2>4. DOMAIN siteAds' = 1 .. Len(siteAds)
    BY <2>3
  <2> QED BY <1>1, <2>1, <2>3, <2>4 DEF SiteAds!PositionsOf
<1>3. CASE i \notin 1 .. Len(siteAds)
  <2>1. siteAds' = siteAds
    BY <1>1, <1>3
  <2> QED BY <1>1, <2>1 DEF SiteAds!PositionsOf
<1> QED BY <1>2, <1>3

(* A request that finishes is not about to add an ad. *)
LEMMA IdleAddsNothing ==
  SiteAds!Idle \in SiteAds!RequestStates /\ \A s \in Nat : ~AddsAd(SiteAds!Idle, s)
<1>1. (CHOOSE u \in AdUrls : TRUE) \in AdUrls
  BY UrlsAssumption
<1> QED BY <1>1 DEF AddsAd, SiteAds!Idle, SiteAds!RequestStates, SiteAds!Ops

(* The request that adds an ad is no longer about to add one. *)
LEMMA WriterAdds ==
  ASSUME AdTypes, AdsAreBounded, NEW r \in Requests, NEW s \in Nat, AddsAd(regReq[r], s),
         NEW status \in SiteAds!AdStatuses, UNCHANGED sites,
         regReq' = [regReq EXCEPT ![r] = SiteAds!Idle],
         siteAds' = Append(siteAds, [site |-> s, status |-> status])
  PROVE  AdTypes' /\ AdsAreBounded'
<1> DEFINE entry == [site |-> s, status |-> status]
           last == Len(siteAds) + 1
<1>1. /\ siteAds \in Seq(AdRows) /\ entry \in AdRows
      /\ Len(siteAds) \in Nat /\ DOMAIN siteAds = 1 .. Len(siteAds)
  BY DEF AdTypes, AdRows
<1>2. /\ siteAds' \in Seq(AdRows) /\ DOMAIN siteAds' = 1 .. last
      /\ siteAds'[last] = entry /\ \A i \in DOMAIN siteAds : siteAds'[i] = siteAds[i]
  <2>1. siteAds' = Append(siteAds, entry)
    OBVIOUS
  <2> HIDE DEF entry
  <2> QED BY <1>1, <2>1, AppendProperties
<1>3. AdTypes'
  BY <1>2, IdleAddsNothing DEF AdTypes
<1>4. /\ r \in Writers(s) /\ Writers(s)' \subseteq Writers(s) \ {r}
      /\ \A t \in Nat : Writers(t)' \subseteq Writers(t)
  BY IdleAddsNothing DEF Writers, AdTypes
<1>5. SiteAds!PositionsOf(s)' = SiteAds!PositionsOf(s) \cup {last}
  BY <1>1, <1>2 DEF SiteAds!PositionsOf
<1>6. \A t \in Nat : t # s => SiteAds!PositionsOf(t)' = SiteAds!PositionsOf(t)
  BY <1>1, <1>2 DEF SiteAds!PositionsOf
<1>7. AdsCount
  BY AdsAreFinite
<1>8. Cardinality(SiteAds!PositionsOf(s)') + Cardinality(Writers(s)') =< Cardinality(Requests)
  <2>1. last \notin SiteAds!PositionsOf(s)
    BY <1>1 DEF SiteAds!PositionsOf
  <2>2. Cardinality(SiteAds!PositionsOf(s)') = Cardinality(SiteAds!PositionsOf(s)) + 1
    <3> HIDE DEF last
    <3> QED BY <1>5, <1>7, <2>1, FS_AddElement DEF AdsCount
  <2>3. /\ IsFiniteSet(Writers(s) \ {r})
        /\ Cardinality(Writers(s) \ {r}) = Cardinality(Writers(s)) - 1
    BY <1>4, <1>7, FS_RemoveElement DEF AdsCount
  <2>4. Cardinality(Writers(s)') =< Cardinality(Writers(s)) - 1 /\ Cardinality(Writers(s)') \in Nat
    BY <1>4, <2>3, FS_Subset, FS_CardinalityType
  <2>5. /\ Cardinality(SiteAds!PositionsOf(s)) + Cardinality(Writers(s)) =< Cardinality(Requests)
        /\ Cardinality(SiteAds!PositionsOf(s)) \in Nat /\ Cardinality(Writers(s)) \in Nat
        /\ Cardinality(Requests) \in Nat
    BY <1>7 DEF AdsAreBounded, AdsCount
  <2> QED BY <2>2, <2>4, <2>5
<1>9. ASSUME NEW t \in Nat
      PROVE  Cardinality(SiteAds!PositionsOf(t)') + Cardinality(Writers(t)')
               =< Cardinality(Requests)
  BY <1>3, <1>4, <1>6, <1>8, NoNewWriter
<1> QED BY <1>3, <1>9 DEF AdsAreBounded

(* Every step keeps the invariant. *)
LEMMA AdsInvKept == AdsInv /\ [PartsNext]_allVars => AdsInv'
<1> SUFFICES ASSUME AdTypes, AdsAreBounded, [SiteAds!Next]_regVars
             PROVE  AdTypes' /\ AdsAreBounded'
  BY AdSteps DEF AdsInv, PartsNext, allVars
<1>1. ASSUME NEW r \in Requests, NEW slot \in SiteAds!RequestStates,
             regReq' = [regReq EXCEPT ![r] = slot], \A s \in Nat : ~AddsAd(slot, s),
             sites' \in Seq(AdUrls), UNCHANGED siteAds
      PROVE  AdTypes' /\ AdsAreBounded'
  <2>1. \A s \in Nat : SiteAds!PositionsOf(s)' = SiteAds!PositionsOf(s)
    BY <1>1 DEF SiteAds!PositionsOf
  <2>2. siteAds' \in Seq(AdRows)
    BY <1>1 DEF AdTypes
  <2> QED BY <1>1, <2>1, <2>2, SlotKeepsAds
<1>2. ASSUME NEW r \in Requests, SiteAds!Finish(r), sites' \in Seq(AdUrls), UNCHANGED siteAds
      PROVE  AdTypes' /\ AdsAreBounded'
  BY <1>1, <1>2, IdleAddsNothing DEF SiteAds!Finish
<1>3. sites \in Seq(AdUrls)
  BY DEF AdTypes
<1>4. \A r \in Requests : regReq[r] \in SiteAds!RequestStates /\ regReq[r].url \in AdUrls
  BY DEF AdTypes, SiteAds!RequestStates
<1>5. ASSUME NEW r \in Requests, NEW url \in AdUrls,
             \/ SiteAds!Register(r, url) \/ SiteAds!Bind(r, url)
             \/ \E s \in DOMAIN sites : SiteAds!SubmitAd(r, s, url)
      PROVE  AdTypes' /\ AdsAreBounded'
  <2>1. ASSUME NEW op \in {"register", "bind", "ad"}, NEW step \in {"find", "check"},
               NEW s \in Nat
        PROVE  LET slot == [SiteAds!Idle EXCEPT !.op = op, !.step = step, !.site = s, !.url = url]
               IN  /\ slot \in SiteAds!RequestStates
                   /\ \A t \in Nat : ~AddsAd(slot, t)
    BY IdleAddsNothing DEF AddsAd, SiteAds!Idle, SiteAds!RequestStates, SiteAds!Ops
  <2>2. ASSUME NEW op \in {"register", "bind"}
        PROVE  LET slot == [SiteAds!Idle EXCEPT !.op = op, !.step = "find", !.url = url]
               IN  /\ slot \in SiteAds!RequestStates
                   /\ \A t \in Nat : ~AddsAd(slot, t)
    BY IdleAddsNothing DEF AddsAd, SiteAds!Idle, SiteAds!RequestStates, SiteAds!Ops
  <2>3. CASE SiteAds!Register(r, url) \/ SiteAds!Bind(r, url)
    BY <1>1, <1>3, <2>2, <2>3 DEF SiteAds!Register, SiteAds!Bind
  <2>4. ASSUME NEW s \in DOMAIN sites, SiteAds!SubmitAd(r, s, url)
        PROVE  AdTypes' /\ AdsAreBounded'
    <3>1. s \in Nat
      BY <1>3
    <3> QED BY <1>1, <1>3, <2>1, <2>4, <3>1 DEF SiteAds!SubmitAd
  <2> QED BY <1>5, <2>3, <2>4
<1>6. ASSUME NEW r \in Requests, SiteAds!FindSite(r) PROVE AdTypes' /\ AdsAreBounded'
  <2> DEFINE found == SiteAds!FirstMatch(regReq[r].url)
             slot == [regReq[r] EXCEPT !.step = "write", !.found = found]
  <2>1. found \in Nat
    BY <1>3 DEF SiteAds!FirstMatch
  <2>2. regReq' = [regReq EXCEPT ![r] = slot] /\ UNCHANGED <<sites, siteAds>>
    BY <1>6 DEF SiteAds!FindSite, SiteAds!Found
  <2> HIDE DEF found
  <2>3. slot \in SiteAds!RequestStates /\ slot.op = regReq[r].op
    BY <1>4, <2>1 DEF SiteAds!RequestStates
  <2>4. slot.op # "ad"
    BY <1>6, <2>3 DEF SiteAds!FindSite, SiteAds!At
  <2> HIDE DEF slot
  <2> QED BY <1>1, <1>3, <2>2, <2>3, <2>4 DEF AddsAd
<1>7. ASSUME NEW r \in Requests, SiteAds!UpdateSite(r) PROVE AdTypes' /\ AdsAreBounded'
  <2> DEFINE i == regReq[r].found
             moved == [sites EXCEPT ![i] = regReq[r].url]
  <2>1. moved \in Seq(AdUrls)
    <3>1. CASE i \in 1 .. Len(sites)
      BY <1>3, <1>4, <3>1, ExceptSeq
    <3>2. CASE i \notin 1 .. Len(sites)
      <4>1. moved = sites
        BY <1>3, <3>2
      <4> QED BY <1>3, <4>1
    <3> QED BY <3>1, <3>2
  <2>2. SiteAds!Finish(r) /\ UNCHANGED siteAds /\ (sites' = moved \/ sites' = sites)
    BY <1>7 DEF SiteAds!UpdateSite
  <2> HIDE DEF moved
  <2> QED BY <1>2, <1>3, <2>1, <2>2
<1>8. ASSUME NEW r \in Requests, SiteAds!CreateSite(r) PROVE AdTypes' /\ AdsAreBounded'
  <2> DEFINE slot == [regReq[r] EXCEPT !.step = "failed"]
  <2>1. slot \in SiteAds!RequestStates /\ slot.step = "failed"
    BY <1>4 DEF SiteAds!RequestStates
  <2>2. /\ UNCHANGED siteAds
        /\ \/ regReq' = [regReq EXCEPT ![r] = slot] /\ sites' = sites
           \/ SiteAds!Finish(r) /\ sites' = Append(sites, regReq[r].url)
    BY <1>8 DEF SiteAds!CreateSite, SiteAds!Goto
  <2>3. Append(sites, regReq[r].url) \in Seq(AdUrls)
    BY <1>3, <1>4
  <2> HIDE DEF slot
  <2> QED BY <1>1, <1>2, <1>3, <2>1, <2>2, <2>3 DEF AddsAd
<1>9. ASSUME NEW r \in Requests, SiteAds!AnswerFailure(r) PROVE AdTypes' /\ AdsAreBounded'
  BY <1>2, <1>3, <1>9 DEF SiteAds!AnswerFailure
<1>10. ASSUME NEW r \in Requests, SiteAds!CheckDomain(r) PROVE AdTypes' /\ AdsAreBounded'
  <2> DEFINE slot == [regReq[r] EXCEPT !.step = "find"]
  <2>1. slot \in SiteAds!RequestStates /\ slot.step = "find"
    BY <1>4 DEF SiteAds!RequestStates
  <2>2. /\ UNCHANGED <<sites, siteAds>>
        /\ SiteAds!Finish(r) \/ regReq' = [regReq EXCEPT ![r] = slot]
    BY <1>10 DEF SiteAds!CheckDomain, SiteAds!Goto
  <2> HIDE DEF slot
  <2> QED BY <1>1, <1>2, <1>3, <2>1, <2>2 DEF AddsAd
<1>11. CASE UNCHANGED <<sites, siteAds, regReq>>
  <2>1. AdTypes' /\ \A s \in Nat : /\ SiteAds!PositionsOf(s)' = SiteAds!PositionsOf(s)
                                  /\ Writers(s)' = Writers(s)
    BY <1>11 DEF AdTypes, SiteAds!PositionsOf, Writers
  <2> QED BY <2>1, NoNewWriter DEF AdsAreBounded
<1>12. ASSUME NEW i, NEW status \in SiteAds!AdStatuses,
              siteAds' = [siteAds EXCEPT ![i].status = status], UNCHANGED sites,
              \/ UNCHANGED regReq
              \/ \E r \in Requests : SiteAds!Finish(r)
       PROVE  AdTypes' /\ AdsAreBounded'
  <2>1. /\ siteAds' \in Seq(AdRows)
        /\ \A s \in Nat : SiteAds!PositionsOf(s)' = SiteAds!PositionsOf(s)
    BY <1>12, StatusKeepsPlaces
  <2>2. CASE UNCHANGED regReq
    <3>1. AdTypes' /\ \A s \in Nat : Writers(s)' = Writers(s)
      BY <1>12, <2>1, <2>2 DEF AdTypes, Writers
    <3> QED BY <2>1, <3>1, NoNewWriter DEF AdsAreBounded
  <2>3. CASE \E r \in Requests : SiteAds!Finish(r)
    BY <1>3, <1>12, <2>1, <2>3, SlotKeepsAds, IdleAddsNothing DEF SiteAds!Finish
  <2> QED BY <1>12, <2>2, <2>3
<1>13. ASSUME NEW r \in Requests, SiteAds!FindAd(r) PROVE AdTypes' /\ AdsAreBounded'
  <2> DEFINE s == regReq[r].site
             oldest == SiteAds!OldestAd(s)
             slot == [regReq[r] EXCEPT !.step = "write", !.found = oldest]
  <2>1. s \in Nat
    BY <1>4 DEF SiteAds!RequestStates
  <2>2. /\ oldest \in Nat
        /\ oldest = 0 => SiteAds!PositionsOf(s) = {}
    BY <2>1, OldestIsAnAd
  <2>3. regReq' = [regReq EXCEPT ![r] = slot] /\ UNCHANGED <<sites, siteAds>>
    BY <1>13 DEF SiteAds!FindAd, SiteAds!Found
  <2> HIDE DEF oldest
  <2>4. slot \in SiteAds!RequestStates /\ slot.found = oldest /\ slot.site = s
    BY <1>4, <2>2 DEF SiteAds!RequestStates
  <2> HIDE DEF slot, s
  <2>5. CASE oldest # 0
    BY <1>1, <1>3, <2>3, <2>4, <2>5 DEF AddsAd
  <2>6. CASE oldest = 0
    <3>1. AdTypes'
      BY <2>3, <2>4 DEF AdTypes
    <3>2. AdsCount'
      BY <3>1, AdsAreFinite, PTL
    <3>3. \A t \in Nat : SiteAds!PositionsOf(t)' = SiteAds!PositionsOf(t)
      BY <2>3 DEF SiteAds!PositionsOf
    <3>4. \A t \in Nat : t # s => Writers(t)' \subseteq Writers(t)
      BY <2>3, <2>4 DEF AdTypes, Writers, AddsAd
    <3>5. ASSUME NEW t \in Nat, t = s
          PROVE  Cardinality(SiteAds!PositionsOf(t)') + Cardinality(Writers(t)')
                   =< Cardinality(Requests)
      <4>1. Cardinality(SiteAds!PositionsOf(t)') = 0
        BY <2>2, <2>6, <3>3, <3>5, FS_EmptySet
      <4>2. /\ Cardinality(Writers(t)') =< Cardinality(Requests)
            /\ Cardinality(Writers(t)') \in Nat /\ Cardinality(Requests) \in Nat
        BY <3>2 DEF AdsCount
      <4> QED BY <4>1, <4>2
    <3>6. ASSUME NEW t \in Nat
          PROVE  Cardinality(SiteAds!PositionsOf(t)') + Cardinality(Writers(t)')
                   =< Cardinality(Requests)
      BY <3>1, <3>3, <3>4, <3>5, NoNewWriter
    <3> QED BY <3>1, <3>6 DEF AdsAreBounded
  <2> QED BY <2>5, <2>6
<1>14. ASSUME NEW r \in Requests, NEW status \in SiteAds!AdInputs, SiteAds!UpsertAd(r, status)
       PROVE  AdTypes' /\ AdsAreBounded'
  <2>1. status \in SiteAds!AdStatuses
    BY DEF SiteAds!AdInputs, SiteAds!AdStatuses
  <2>2. regReq[r].site \in Nat
    BY <1>4 DEF SiteAds!RequestStates
  <2>3. CASE regReq[r].found # 0
    BY <1>12, <1>14, <2>1, <2>3 DEF SiteAds!UpsertAd
  <2>4. CASE regReq[r].found = 0
    BY <1>14, <2>1, <2>2, <2>4, WriterAdds
      DEF SiteAds!UpsertAd, SiteAds!At, SiteAds!Finish, AddsAd
  <2> QED BY <2>3, <2>4
<1>15. ASSUME NEW i, NEW status \in SiteAds!AdStatuses, SiteAds!Moderate(i, status)
       PROVE  AdTypes' /\ AdsAreBounded'
  BY <1>12, <1>15 DEF SiteAds!Moderate
<1>16. CASE \E d \in SiteAds!Domains : SiteAds!BlockDomain(d)
  BY <1>11, <1>16 DEF SiteAds!BlockDomain
<1> QED BY <1>5, <1>6, <1>7, <1>8, <1>9, <1>10, <1>11, <1>13, <1>14, <1>15, <1>16
      DEF SiteAds!Next, regVars

(* Whichever requests race each other to add a site's ad, and whatever the
   operator makes of the ads, a site has no more of them than requests raced. *)
THEOREM DuplicatesAreFew == PartsSpec => []DuplicateAdsAreConcurrent
<1>1. PartsInit => AdsInv
  <2> SUFFICES ASSUME PartsInit, part = "siteAds" PROVE AdTypes /\ AdsAreBounded
    BY DEF AdsInv
  <2>1. AdTypes
    BY IdleAddsNothing DEF PartsInit, SiteAds!Init, AdTypes
  <2>2. ASSUME NEW s \in Nat
        PROVE  SiteAds!PositionsOf(s) = {} /\ Writers(s) = {}
    BY IdleAddsNothing DEF PartsInit, SiteAds!Init, SiteAds!PositionsOf, Writers
  <2>3. Cardinality({}) = 0 /\ Cardinality(Requests) \in Nat
    BY SlotsAssumption, FS_EmptySet, FS_CardinalityType
  <2> QED BY <2>1, <2>2, <2>3 DEF AdsAreBounded
<1>2. AdsInv => DuplicateAdsAreConcurrent
  <2> SUFFICES ASSUME AdTypes, AdsAreBounded, NEW s \in DOMAIN sites
               PROVE  SiteAds!Cardinality(SiteAds!PositionsOf(s)) =< SiteAds!Cardinality(Requests)
    BY DEF AdsInv, DuplicateAdsAreConcurrent, SiteAds!DuplicateAdsAreConcurrent
  <2>1. \A S : SiteAds!Cardinality(S) = Cardinality(S)
    BY DEF SiteAds!Cardinality, Cardinality
  <2>2. s \in Nat
    BY DEF AdTypes
  <2>3. AdsCount
    BY AdsAreFinite
  <2>4. /\ Cardinality(SiteAds!PositionsOf(s)) \in Nat /\ Cardinality(Writers(s)) \in Nat
        /\ Cardinality(SiteAds!PositionsOf(s)) + Cardinality(Writers(s)) =< Cardinality(Requests)
        /\ Cardinality(Requests) \in Nat
    BY <2>2, <2>3 DEF AdsCount, AdsAreBounded
  <2> QED BY <2>1, <2>4
<1> QED BY <1>1, <1>2, AdsInvKept, PTL DEF PartsSpec

-----------------------------------------------------------------------------
(* Activations: the limit of a license *)

(* The instance of Requests and the one of the theorems have the same data,
   rules and actions. *)
LEMMA SameRules ==
  /\ Activations!Idle = P!Idle
  /\ \A it, t : /\ Activations!Lapsed(it, t) = P!Lapsed(it, t)
                /\ Activations!Eligible(it, t) = P!Eligible(it, t)
                /\ Activations!Valid(it, t) = P!Valid(it, t)
  /\ \A it : Activations!Expired(it) = P!Expired(it)
  /\ \A it, ends, t : Activations!Synchronised(it, ends, t) = P!Synchronised(it, ends, t)
  /\ Activations!Sanctions = P!Sanctions /\ Activations!Time = P!Time
BY DEF Activations!Idle, P!Idle, Activations!AnySite, P!AnySite, Activations!AnyLicense,
     P!AnyLicense, Activations!NewSite, P!NewSite, Activations!Lapsed, P!Lapsed,
     Activations!Eligible, P!Eligible, Activations!Valid, P!Valid,
     Activations!Expired, P!Expired, Activations!Admitted, P!Admitted,
     Activations!Open, P!Open, Activations!Synchronised, P!Synchronised,
     Activations!Latest, P!Latest, Activations!Sanctions, P!Sanctions,
     Activations!Time, P!Time

(* The writes of the two instances are the same. *)
LEMMA SameWrites ==
  /\ \A r : (Activations!Finish(r) <=> P!Finish(r))
  /\ \A r, step : (Activations!Goto(r, step) <=> P!Goto(r, step))
  /\ \A r, op, step : (Activations!At(r, op, step) <=> P!At(r, op, step))
  /\ \A r, op : (Activations!Ready(r, op) <=> P!Ready(r, op))
  /\ \A s, it : (Activations!WriteSite(s, it) <=> P!WriteSite(s, it))
  /\ \A l : Activations!ActivationsOf(l) = P!ActivationsOf(l)
BY SameRules DEF Activations!Finish, P!Finish, Activations!Goto, P!Goto, Activations!At, P!At,
     Activations!Ready, P!Ready, Activations!WriteSite, P!WriteSite,
     Activations!ActivationsOf, P!ActivationsOf

(* So are the operators they count with. *)
LEMMA SameCounts ==
  /\ \A S : Activations!Cardinality(S) = P!Cardinality(S)
  /\ \A l : (Activations!NoneLeft(l) <=> P!NoneLeft(l))
BY SameWrites DEF Activations!Cardinality, P!Cardinality, Activations!IsFiniteSet, P!IsFiniteSet,
     Activations!NoneLeft, P!NoneLeft

(* So are the steps of a request. *)
LEMMA SameRequestSteps == \A r : Activations!RequestStep(r) <=> P!RequestStep(r)
<1> SUFFICES ASSUME NEW r PROVE Activations!RequestStep(r) <=> P!RequestStep(r)
  OBVIOUS
<1>1. \A op, s : (Activations!Authenticate(r, op, s) <=> P!Authenticate(r, op, s))
  BY SameRules DEF Activations!Authenticate, P!Authenticate, Activations!PluginOps, P!PluginOps,
     Activations!SiteOps, P!SiteOps, Activations!OperatorOps, P!OperatorOps
<1>2. /\ (Activations!MarkExpired(r) <=> P!MarkExpired(r))
      /\ (Activations!Validate(r) <=> P!Validate(r))
      /\ (Activations!AnswerConflict(r) <=> P!AnswerConflict(r))
      /\ (Activations!OptIn(r) <=> P!OptIn(r))
  BY SameRules, SameWrites DEF Activations!MarkExpired, P!MarkExpired, Activations!Validate, P!Validate,
     Activations!AnswerConflict, P!AnswerConflict, Activations!OptIn, P!OptIn
<1>3. (Activations!MayStartTrial(r) <=> P!MayStartTrial(r))
  BY SameRules, SameWrites DEF Activations!MayStartTrial, P!MayStartTrial
<1>4. /\ (Activations!AnswerTrial(r) <=> P!AnswerTrial(r))
      /\ (Activations!TrialConflict(r) <=> P!TrialConflict(r))
      /\ \A until : (Activations!AllocateTrial(r, until) <=> P!AllocateTrial(r, until))
  BY <1>3, SameRules, SameWrites DEF Activations!AnswerTrial, P!AnswerTrial, Activations!TrialConflict,
     P!TrialConflict, Activations!AllocateTrial, P!AllocateTrial,
     Activations!Unchanged, P!Unchanged
<1>5. \A until : /\ (Activations!ExtendTrial(r, until) <=> P!ExtendTrial(r, until))
                 /\ (Activations!GrantPro(r, until) <=> P!GrantPro(r, until))
  BY SameWrites DEF Activations!ExtendTrial, P!ExtendTrial, Activations!GrantPro, P!GrantPro
<1>6. /\ \A l : (Activations!ReadLicense(r, l) <=> P!ReadLicense(r, l))
      /\ (Activations!FindExisting(r) <=> P!FindExisting(r))
      /\ (Activations!CountActivations(r) <=> P!CountActivations(r))
      /\ (Activations!UpsertActivation(r) <=> P!UpsertActivation(r))
      /\ (Activations!AdmitActivated(r) <=> P!AdmitActivated(r))
  BY SameRules, SameWrites, SameCounts
     DEF Activations!ReadLicense, P!ReadLicense, Activations!FindExisting, P!FindExisting,
     Activations!CountActivations, P!CountActivations,
     Activations!UpsertActivation, P!UpsertActivation, Activations!AdmitActivated,
     P!AdmitActivated
<1> QED BY <1>1, <1>2, <1>4, <1>5, <1>6, SameRules DEF Activations!RequestStep, P!RequestStep

(* So are the next-state relations: what EntitlementsProofs shows holds
   here. *)
LEMMA SameNext == Activations!Next <=> P!Next
<1>1. \A s : (Activations!SiteStep(s) <=> P!SiteStep(s))
  <2>1. \A s : /\ (Activations!OptOut(s) <=> P!OptOut(s))
               /\ (Activations!Suspend(s) <=> P!Suspend(s))
               /\ (Activations!Revoke(s) <=> P!Revoke(s))
               /\ (Activations!ResetActivations(s) <=> P!ResetActivations(s))
    BY SameWrites DEF Activations!OptOut, P!OptOut, Activations!Suspend, P!Suspend, Activations!Revoke,
     P!Revoke, Activations!ResetActivations, P!ResetActivations
  <2>2. \A s, status, until :
          (Activations!SeedSite(s, status, until) <=> P!SeedSite(s, status, until))
    BY SameWrites DEF Activations!SeedSite, P!SeedSite
  <2> QED BY <2>1, <2>2, SameRules DEF Activations!SiteStep, P!SiteStep
<1>2. \A l : (Activations!LicenseStep(l) <=> P!LicenseStep(l))
  <2>1. \A l, until : (Activations!Synchronise(l, until) <=> P!Synchronise(l, until))
    <3>1. \A s, ls, until : Activations!Deadlines(s, ls, until) = P!Deadlines(s, ls, until)
      BY SameRules DEF Activations!Deadlines, P!Deadlines
    <3> QED BY <3>1, SameRules, SameWrites DEF Activations!Synchronise, P!Synchronise
  <2>2. \A l, until : (Activations!CreateLicense(l, until) <=> P!CreateLicense(l, until))
    BY DEF Activations!CreateLicense, P!CreateLicense
  <2>3. \A l, status : (Activations!SanctionLicense(l, status) <=> P!SanctionLicense(l, status))
    BY DEF Activations!SanctionLicense, P!SanctionLicense
  <2> QED BY <2>1, <2>2, <2>3, SameRules DEF Activations!LicenseStep, P!LicenseStep
<1>3. /\ (Activations!SweepLicenses <=> P!SweepLicenses)
      /\ (Activations!SweepSites <=> P!SweepSites)
      /\ (Activations!Tick <=> P!Tick)
  BY SameRules DEF Activations!SweepLicenses, P!SweepLicenses, Activations!SweepSites, P!SweepSites,
     Activations!Tick, P!Tick, Activations!Due, P!Due, Activations!Admitted,
     P!Admitted
<1> QED BY <1>1, <1>2, <1>3, SameRequestSteps DEF Activations!Next, P!Next

(* The license's limit, for the activations that Requests runs beside its
   other parts. *)
THEOREM ActivationLimits == PartsSpec => []OverLimitIsConcurrent
<1>1. PartsInit => P!Init
  BY SameRules DEF PartsInit, Activations!Init, P!Init, Activations!NewSite, P!NewSite, Activations!NoLicense,
     P!NoLicense
<1>2. [PartsNext]_allVars => [P!Next]_(P!vars)
  BY SameNext DEF PartsNext, allVars, entVars, P!vars
<1>3. P!Spec => []P!OverLimitIsConcurrent
  BY EntitlementsAssumed, P!LimitsAreKept
<1>4. P!OverLimitIsConcurrent => OverLimitIsConcurrent
  BY SameWrites, SameCounts DEF OverLimitIsConcurrent,
    Activations!OverLimitIsConcurrent, P!OverLimitIsConcurrent
<1> QED BY <1>1, <1>2, <1>3, <1>4, PTL DEF PartsSpec, P!Spec

-----------------------------------------------------------------------------
(* NextAd: recursion over an interval *)

(* Induction, for a set. *)
LEMMA IntervalInduction ==
  ASSUME NEW n \in Nat, NEW T \in SUBSET (0 .. n), 0 \in T,
         \A i \in 1 .. n : i - 1 \in T => i \in T
  PROVE  T = 0 .. n
<1> SUFFICES ASSUME (0 .. n) \ T # {} PROVE FALSE
  OBVIOUS
<1> DEFINE left == (0 .. n) \ T
<1>1. left \in SUBSET Nat /\ left # {}
  OBVIOUS
<1>2. PICK i \in left : \A j \in left : i =< j
  <2> HIDE DEF left
  <2> QED BY <1>1, EntitlementsAssumed, P!LeastNatural
<1>3. i \in 1 .. n /\ i - 1 \in 0 .. n /\ ~(i =< i - 1)
  BY <1>2
<1>4. i - 1 \in T
  BY <1>2, <1>3
<1> QED BY <1>2, <1>3, <1>4

(* There is a function whose values follow from one another, step by step. *)
Follows(f, n, start, step) ==
  f[0] = start /\ \A i \in 1 .. n : f[i] = step[i][f[i - 1]]

(* A recursion over an interval of numbers has a solution. *)
LEMMA Recursion ==
  ASSUME NEW n \in Nat, NEW R, NEW start \in R, NEW step \in [1 .. n -> [R -> R]]
  PROVE  \E f \in [0 .. n -> R] : Follows(f, n, start, step)
<1> USE DEF Follows
<1> DEFINE T == {m \in 0 .. n : \E f \in [0 .. m -> R] : Follows(f, m, start, step)}
<1>1. 0 \in T
  <2> DEFINE f == [i \in 0 .. 0 |-> start]
  <2>1. f \in [0 .. 0 -> R] /\ Follows(f, 0, start, step)
    OBVIOUS
  <2> HIDE DEF f, Follows
  <2> QED BY <2>1
<1>2. ASSUME NEW m \in 1 .. n, m - 1 \in T PROVE m \in T
  <2>1. PICK f \in [0 .. m - 1 -> R] : Follows(f, m - 1, start, step)
    BY <1>2
  <2> DEFINE next == step[m][f[m - 1]]
             g == [i \in 0 .. m |-> IF i = m THEN next ELSE f[i]]
  <2>2. f[m - 1] \in R /\ step[m] \in [R -> R]
    BY <1>2
  <2>3. next \in R
    BY <2>2
  <2>4. g[0] = start /\ g[m] = next /\ \A i \in 0 .. m - 1 : g[i] = f[i]
    BY <2>1
  <2>5. g \in [0 .. m -> R]
    <3> HIDE DEF next
    <3> QED BY <2>3
  <2>6. ASSUME NEW i \in 1 .. m PROVE g[i] = step[i][g[i - 1]]
    <3>1. g[i - 1] = f[i - 1]
      BY <2>4
    <3>2. CASE i = m
      BY <2>4, <3>1, <3>2
    <3>3. CASE i # m
      BY <2>1, <2>4, <3>1, <3>3
    <3> QED BY <3>2, <3>3
  <2>7. Follows(g, m, start, step)
    <3> HIDE DEF g
    <3> QED BY <2>4, <2>6
  <2>8. m \in 0 .. n
    OBVIOUS
  <2> HIDE DEF g, Follows
  <2> QED BY <2>5, <2>7, <2>8
<1>3. T = 0 .. n
  <2> HIDE DEF T
  <2>1. T \in SUBSET (0 .. n)
    BY DEF T
  <2> QED BY <1>1, <1>2, <2>1, IntervalInduction
<1>4. n \in T
  BY <1>3
<1> QED BY <1>4

(* What joining the pieces one by one makes, as SequencesExt defines it. *)
Joined(s, n) ==
  CHOOSE g : g = [i \in 1 .. n |-> IF i = 1 THEN s[i] ELSE g[i - 1] \o s[i]]

(* What is joined piece by piece, when pieces and what is joined of them are *)
(* of one set.                                                               *)
Composable(R, s, n) ==
  (\A i \in 1 .. n : s[i] \in R) /\ \A t \in R, u \in R : t \o u \in R
Runs(flat, s, n) ==
  \A i \in 1 .. n : flat[i] = IF i = 1 THEN s[i] ELSE flat[i - 1] \o s[i]

(* Joined satisfies the recursion that its CHOOSE names. *)
LEMMA JoinedRuns ==
  ASSUME NEW n \in Nat, NEW R, NEW s, Composable(R, s, n + 1)
  PROVE  Runs(Joined(s, n + 1), s, n + 1)
<1>0. (\A i \in 1 .. n + 1 : s[i] \in R) /\ \A t \in R, u \in R : t \o u \in R
  BY DEF Composable
<1> DEFINE Body(g) == [i \in 1 .. n + 1 |-> IF i = 1 THEN s[i] ELSE g[i - 1] \o s[i]]
           flat == Joined(s, n + 1)
           step == [i \in 1 .. n |-> [t \in R |-> t \o s[i + 1]]]
<1>1. step \in [1 .. n -> [R -> R]]
  <2>1. \A i \in 1 .. n : s[i + 1] \in R
    BY <1>0
  <2>2. \A i \in 1 .. n : [t \in R |-> t \o s[i + 1]] \in [R -> R]
    BY <1>0, <2>1
  <2> QED BY <2>2
<1>2. PICK f \in [0 .. n -> R] : f[0] = s[1] /\ \A i \in 1 .. n : f[i] = step[i][f[i - 1]]
  <2> DEFINE start == s[1]
  <2>1. start \in R
    BY <1>0
  <2> HIDE DEF step, start
  <2>2. \E f \in [0 .. n -> R] : Follows(f, n, start, step)
    BY <1>1, <2>1, Recursion
  <2> QED BY <2>2 DEF start, Follows
<1>3. ASSUME NEW i \in 1 .. n PROVE f[i] = f[i - 1] \o s[i + 1]
  <2>1. f[i - 1] \in R
    OBVIOUS
  <2> QED BY <1>2, <2>1
<1>4. \E g : g = Body(g)
  <2> DEFINE g == [i \in 1 .. n + 1 |-> f[i - 1]]
  <2>1. ASSUME NEW i \in 1 .. n + 1
        PROVE  g[i] = IF i = 1 THEN s[i] ELSE g[i - 1] \o s[i]
    <3>1. CASE i = 1
      BY <1>2, <3>1
    <3>2. CASE i # 1
      <4>1. i - 1 \in 1 .. n /\ (i - 1) + 1 = i /\ i - 1 \in 1 .. n + 1
        BY <3>2
      <4>2. f[i - 1] = f[(i - 1) - 1] \o s[(i - 1) + 1]
        BY <1>3, <4>1
      <4> QED BY <3>2, <4>1, <4>2
    <3> QED BY <3>1, <3>2
  <2>2. g = [i \in 1 .. n + 1 |-> g[i]]
    OBVIOUS
  <2> HIDE DEF g
  <2>3. g = Body(g)
    BY <2>1, <2>2
  <2> QED BY <2>3
<1>5. flat = Body(flat)
  <2>1. flat = CHOOSE g : g = Body(g)
    BY DEF Joined
  <2> HIDE DEF Body, flat
  <2> QED BY <1>4, <2>1
<1> HIDE DEF flat
<1>6. ASSUME NEW i \in 1 .. n + 1
      PROVE  flat[i] = IF i = 1 THEN s[i] ELSE flat[i - 1] \o s[i]
  <2>1. flat[i] = Body(flat)[i]
    BY <1>5
  <2> QED BY <2>1
<1> QED BY <1>6 DEF flat, Runs

(* t lists the elements of the first k sequences, in order: from[p] is the   *)
(* sequence and the place in it that position p comes from.                  *)
Lists(S, t, from, seqs, k) ==
  /\ t \in Seq(S) /\ from \in [1 .. Len(t) -> Nat \X Nat]
  /\ \A p \in 1 .. Len(t) :
       /\ from[p][1] \in 1 .. k /\ from[p][2] \in 1 .. Len(seqs[from[p][1]])
       /\ t[p] = seqs[from[p][1]][from[p][2]]
  /\ \A p, q \in 1 .. Len(t) : p < q => Pick!Precedes(from[p], from[q])
  /\ \A i \in 1 .. k : \A c \in 1 .. Len(seqs[i]) : \E p \in 1 .. Len(t) : from[p] = <<i, c>>

(* One more sequence appended is one more sequence listed. *)
LEMMA ListsOneMore ==
  ASSUME NEW S, NEW seqs, NEW k \in Nat, NEW t, NEW from, Lists(S, t, from, seqs, k),
         seqs[k + 1] \in Seq(S)
  PROVE  \E more : Lists(S, t \o seqs[k + 1], more, seqs, k + 1)
<1> DEFINE u == seqs[k + 1]
           m == Len(t)
           n == Len(u)
           more == [p \in 1 .. m + n |-> IF p <= m THEN from[p] ELSE <<k + 1, p - m>>]
           w == t \o u
<1>1. /\ t \in Seq(S) /\ m \in Nat /\ n \in Nat /\ from \in [1 .. m -> Nat \X Nat]
      /\ u \in Seq(S)
  BY DEF Lists
<1>2. /\ w \in Seq(S) /\ Len(w) = m + n
      /\ \A p \in 1 .. m + n : w[p] = IF p <= m THEN t[p] ELSE u[p - m]
  <2> HIDE DEF u
  <2> QED BY <1>1
<1> HIDE DEF w
<1>3. /\ \A p \in 1 .. m : more[p] = from[p]
      /\ \A p \in m + 1 .. m + n : more[p] = <<k + 1, p - m>>
      /\ \A p \in 1 .. m + n : p \in 1 .. m \/ p \in m + 1 .. m + n
  <2> HIDE DEF m, n
  <2> QED BY <1>1
<1>4. more \in [1 .. m + n -> Nat \X Nat]
  <2> HIDE DEF m, n
  <2> QED BY <1>1
<1> HIDE DEF more
<1>5. ASSUME NEW p \in 1 .. m + n
      PROVE  /\ more[p][1] \in 1 .. k + 1 /\ more[p][2] \in 1 .. Len(seqs[more[p][1]])
             /\ w[p] = seqs[more[p][1]][more[p][2]]
  <2>1. CASE p \in 1 .. m
    <3>1. /\ from[p][1] \in 1 .. k /\ from[p][2] \in 1 .. Len(seqs[from[p][1]])
          /\ t[p] = seqs[from[p][1]][from[p][2]]
      BY <2>1 DEF Lists
    <3>2. more[p] = from[p] /\ w[p] = t[p]
      <4>1. more[p] = from[p]
        BY <1>3, <2>1
      <4>2. p <= m
        <5> HIDE DEF m
        <5> QED BY <1>1, <2>1
      <4>3. w[p] = t[p]
        BY <1>2, <4>2
      <4> QED BY <4>1, <4>3
    <3> HIDE DEF m, n, u
    <3> QED BY <3>1, <3>2
  <2>2. CASE p \in m + 1 .. m + n
    <3>1. more[p] = <<k + 1, p - m>> /\ w[p] = u[p - m] /\ p - m \in 1 .. n
      <4> HIDE DEF m, n, u
      <4> QED BY <1>1, <1>2, <1>3, <2>2
    <3> QED BY <3>1
  <2> QED BY <1>3, <2>1, <2>2
<1>6. ASSUME NEW p \in 1 .. m + n, NEW q \in 1 .. m + n, p < q
      PROVE  Pick!Precedes(more[p], more[q])
  <2> HIDE DEF n, u
  <2>1. CASE p \in 1 .. m /\ q \in 1 .. m
    BY <1>3, <1>6, <2>1 DEF Lists
  <2>2. CASE p \in 1 .. m /\ q \in m + 1 .. m + n
    <3>1. from[p][1] \in 1 .. k
      BY <2>2 DEF Lists
    <3> HIDE DEF m
    <3> QED BY <1>3, <2>2, <3>1 DEF Pick!Precedes
  <2>3. CASE p \in m + 1 .. m + n /\ q \in m + 1 .. m + n
    <3> HIDE DEF m
    <3> QED BY <1>1, <1>3, <1>6, <2>3 DEF Pick!Precedes
  <2>4. CASE p \in m + 1 .. m + n /\ q \in 1 .. m
    <3> HIDE DEF m
    <3> QED BY <1>1, <1>6, <2>4
  <2> QED BY <1>3, <2>1, <2>2, <2>3, <2>4
<1>7. ASSUME NEW i \in 1 .. k + 1, NEW c \in 1 .. Len(seqs[i])
      PROVE  \E p \in 1 .. m + n : more[p] = <<i, c>>
  <2>1. CASE i = k + 1
    <3>1. m + c \in m + 1 .. m + n /\ (m + c) - m = c
      <4>1. c \in 1 .. n
        BY <2>1
      <4> HIDE DEF m, n
      <4> QED BY <1>1, <4>1
    <3>2. m + c \in 1 .. m + n
      <4> HIDE DEF m, n
      <4> QED BY <1>1, <3>1
    <3>3. more[m + c] = <<i, c>>
      <4> HIDE DEF m, n
      <4> QED BY <1>3, <2>1, <3>1
    <3> QED BY <3>2, <3>3
  <2>2. CASE i # k + 1
    <3>1. PICK p \in 1 .. m : from[p] = <<i, c>>
      <4>1. i \in 1 .. k
        BY <2>2
      <4> QED BY <4>1 DEF Lists
    <3>2. p \in 1 .. m + n
      <4> HIDE DEF m, n
      <4> QED BY <1>1
    <3> QED BY <1>3, <3>1, <3>2
  <2> QED BY <2>1, <2>2
<1>8. Lists(S, w, more, seqs, k + 1)
  <2> DEFINE l == m + n
  <2>1. Len(w) = l
    BY <1>2
  <2> HIDE DEF m, n, u, l
  <2>2. /\ w \in Seq(S) /\ more \in [1 .. l -> Nat \X Nat]
        /\ \A p \in 1 .. l :
             /\ more[p][1] \in 1 .. k + 1 /\ more[p][2] \in 1 .. Len(seqs[more[p][1]])
             /\ w[p] = seqs[more[p][1]][more[p][2]]
        /\ \A p, q \in 1 .. l : p < q => Pick!Precedes(more[p], more[q])
        /\ \A i \in 1 .. k + 1 : \A c \in 1 .. Len(seqs[i]) :
             \E p \in 1 .. l : more[p] = <<i, c>>
    BY <1>2, <1>4, <1>5, <1>6, <1>7 DEF l
  <2> QED BY <2>1, <2>2 DEF Lists
<1> QED BY <1>8 DEF w

(* Sequences joined list the elements of all of them, in order. *)
LEMMA FlattenedLists ==
  ASSUME NEW S, NEW seqs, NEW n \in Nat, Len(seqs) = n,
         \A i \in 1 .. n : seqs[i] \in Seq(S), n = 0 => seqs = <<>>
  PROVE  \E from : Lists(S, Pick!FlattenSeq(seqs), from, seqs, n)
<1> DEFINE none == [p \in 1 .. 0 |-> <<0, 0>>]
<1>1. Lists(S, <<>>, none, seqs, 0)
  BY DEF Lists
<1> HIDE DEF none
<1>2. CASE n = 0
  BY <1>1, <1>2 DEF Pick!FlattenSeq
<1>3. CASE n # 0
  <2> DEFINE R == Seq(S)
             m == n - 1
             flat == Joined(seqs, m + 1)
             T == {i \in 0 .. m : \E from : Lists(S, flat[i + 1], from, seqs, i + 1)}
  <2>1. m \in Nat /\ m + 1 = n
    BY <1>3
  <2>2. \A t \in R, u \in R : t \o u \in R
    OBVIOUS
  <2>3. \A i \in 1 .. m + 1 : seqs[i] \in R
    BY <2>1
  <2>4. Pick!FlattenSeq(seqs) = flat[m + 1]
    <3>1. Len(seqs) = m + 1 /\ Len(seqs) # 0
      BY <1>3, <2>1
    <3> HIDE DEF m
    <3> QED BY <3>1 DEF Pick!FlattenSeq, Joined
  <2>5. \A i \in 1 .. m + 1 : flat[i] = IF i = 1 THEN seqs[i] ELSE flat[i - 1] \o seqs[i]
    <3>1. Composable(R, seqs, m + 1)
      BY <2>2, <2>3 DEF Composable
    <3>2. Runs(Joined(seqs, m + 1), seqs, m + 1)
      <4> HIDE DEF R, m
      <4> QED BY <2>1, <3>1, JoinedRuns
    <3> QED BY <3>2 DEF Runs
  <2> HIDE DEF flat
  <2>6. 0 \in T /\ T \in SUBSET (0 .. m)
    <3>1. flat[0 + 1] = <<>> \o seqs[0 + 1] /\ seqs[0 + 1] \in Seq(S)
      <4> HIDE DEF m
      <4>1. flat[1] = seqs[1] /\ seqs[1] \in Seq(S)
        BY <2>1, <2>3, <2>5
      <4> QED BY <4>1
    <3>2. \E from : Lists(S, flat[0 + 1], from, seqs, 0 + 1)
      BY <1>1, <3>1, ListsOneMore
    <3> HIDE DEF m
    <3> QED BY <2>1, <3>2
  <2>7. ASSUME NEW i \in 1 .. m, i - 1 \in T PROVE i \in T
    <3> HIDE DEF m
    <3>1. i \in Nat /\ (i - 1) + 1 = i /\ i + 1 \in 1 .. m + 1 /\ i + 1 # 1 /\ (i + 1) - 1 = i
      BY <2>1
    <3>2. PICK from : Lists(S, flat[i], from, seqs, i)
      BY <2>7, <3>1
    <3>3. flat[i + 1] = flat[i] \o seqs[i + 1] /\ seqs[i + 1] \in Seq(S)
      BY <2>3, <2>5, <3>1
    <3>4. \E more : Lists(S, flat[i + 1], more, seqs, i + 1)
      BY <3>1, <3>2, <3>3, ListsOneMore
    <3> QED BY <3>4
  <2>8. T = 0 .. m
    <3> HIDE DEF T, m
    <3> QED BY <2>1, <2>6, <2>7, IntervalInduction
  <2>9. \E from : Lists(S, flat[m + 1], from, seqs, m + 1)
    <3>1. m \in T
      <4> HIDE DEF T, m
      <4> QED BY <2>1, <2>8
    <3> QED BY <3>1
  <2> HIDE DEF m
  <2> QED BY <2>1, <2>4, <2>9
<1> QED BY <1>2, <1>3

(* Sequences joined are a sequence. *)
LEMMA FlattenedSeq ==
  ASSUME NEW S, NEW seqs, NEW n \in Nat, Len(seqs) = n,
         \A i \in 1 .. n : seqs[i] \in Seq(S), n = 0 => seqs = <<>>
  PROVE  Pick!FlattenSeq(seqs) \in Seq(S)
BY FlattenedLists DEF Lists

-----------------------------------------------------------------------------
(* NextAd: the lap of the cursor *)

(* The remainder of a number less than the divisor is the number. *)
LEMMA ModSmall == \A n \in Nat \ {0} : \A a \in 0 .. n - 1 : a % n = a
OBVIOUS

(* The remainder of the next number is the next remainder. *)
LEMMA ModNext ==
  ASSUME NEW a \in Nat, NEW n \in Nat \ {0}
  PROVE  (a + 1) % n = IF a % n = n - 1 THEN 0 ELSE (a % n) + 1
<1> DEFINE q == a \div n
           p == (a + 1) \div n
           r == a % n
           s == (a + 1) % n
<1>1. q \in Int /\ p \in Int /\ r \in 0 .. n - 1 /\ s \in 0 .. n - 1
  OBVIOUS
<1>2. a = n * q + r /\ a + 1 = n * p + s
  OBVIOUS
<1> HIDE DEF q, p, r, s
<1>3. n * (p - q) = 1 + r - s
  BY <1>1, <1>2
<1>4. CASE p =< q
  <2>1. n * (p - q) =< 0
    BY <1>1, <1>4
  <2> QED BY <1>1, <1>3, <2>1 DEF r, s
<1>5. CASE p >= q + 1
  <2>1. n * (p - q) >= n
    BY <1>1, <1>5
  <2> QED BY <1>1, <1>3, <2>1 DEF r, s
<1> QED BY <1>1, <1>4, <1>5

(* The remainder of a sum, at most one lap further. *)
LEMMA ModPlus ==
  ASSUME NEW a \in Nat, NEW n \in Nat \ {0}, NEW i \in 0 .. n
  PROVE  (a + i) % n = IF (a % n) + i < n THEN (a % n) + i ELSE (a % n) + i - n
<1> DEFINE q == a \div n
           p == (a + i) \div n
           r == a % n
           s == (a + i) % n
<1>1. q \in Int /\ p \in Int /\ r \in 0 .. n - 1 /\ s \in 0 .. n - 1
  OBVIOUS
<1>2. a = n * q + r /\ a + i = n * p + s
  OBVIOUS
<1> HIDE DEF q, p, r, s
<1>3. n * (p - q) = r + i - s
  BY <1>1, <1>2
<1>4. CASE p =< q - 1
  <2>1. n * (p - q) =< -n
    BY <1>1, <1>4
  <2> QED BY <1>1, <1>3, <2>1 DEF r, s
<1>5. CASE p = q
  <2>1. n * (p - q) = 0
    BY <1>1, <1>5
  <2> QED BY <1>1, <1>3, <2>1 DEF r, s
<1>6. CASE p = q + 1
  <2>1. n * (p - q) = n
    BY <1>1, <1>6
  <2> QED BY <1>1, <1>3, <2>1 DEF r, s
<1>7. CASE p >= q + 2
  <2>1. n * (p - q) >= n + n
    BY <1>1, <1>7
  <2> QED BY <1>1, <1>3, <2>1 DEF r, s
<1> QED BY <1>1, <1>4, <1>5, <1>6, <1>7

(* How many entries the cursor is before an entry. *)
Ahead(cur, i) ==
  LET k == cur % Len(ads) IN IF k < i THEN i - 1 - k ELSE Len(ads) + i - 1 - k

(* An entry is nearer by one after an attempt at another. *)
LEMMA AheadMoves ==
  ASSUME Len(ads) \in Nat \ {0}, NEW cur \in Nat, NEW i \in 1 .. Len(ads)
  PROVE  /\ Ahead(cur, i) \in 0 .. Len(ads) - 1
         /\ (cur + 1) % Len(ads) \in 0 .. Len(ads) - 1
         /\ (cur % Len(ads)) + 1 # i => Ahead((cur + 1) % Len(ads), i) + 1 = Ahead(cur, i)
<1> DEFINE n == Len(ads)
           k == cur % n
           m == (cur + 1) % n
<1>1. n \in Nat \ {0} /\ k \in 0 .. n - 1 /\ m \in 0 .. n - 1
  <2> HIDE DEF n
  <2>1. n \in Nat \ {0}
    BY DEF n
  <2>2. k \in 0 .. n - 1 /\ m \in 0 .. n - 1
    BY <2>1
  <2> QED BY <2>1, <2>2
<1>2. m = IF k = n - 1 THEN 0 ELSE k + 1
  <2> HIDE DEF n
  <2> QED BY <1>1, ModNext
<1>3. m % n = m
  <2> HIDE DEF n, m
  <2> QED BY <1>1, ModSmall
<1>4. /\ Ahead(cur, i) = IF k < i THEN i - 1 - k ELSE n + i - 1 - k
      /\ Ahead(m, i) = IF m < i THEN i - 1 - m ELSE n + i - 1 - m
  BY <1>3 DEF Ahead
<1>5. /\ Ahead(cur, i) \in 0 .. n - 1
      /\ k + 1 # i => Ahead(m, i) + 1 = Ahead(cur, i)
  <2>1. i \in 1 .. n
    OBVIOUS
  <2> HIDE DEF k, m, n
  <2> QED BY <1>1, <1>2, <1>4, <2>1
<1> QED BY <1>1, <1>5

(* What the loop keeps between attempts. *)
LoopStates == [found : Nat, self : Nat, cursor : Nat]

(* An attempt keeps the state of the loop a state of the loop. *)
LEMMA AttemptType ==
  ASSUME Len(ads) \in Nat \ {0}, NEW src, NEW last \in LoopStates
  PROVE  Pick!Attempt(src, last) \in LoopStates
<1> DEFINE n == Len(ads)
           pos == (last.cursor % n) + 1
           next == (last.cursor + 1) % n
<1>1. last.cursor \in Nat /\ last.found \in Nat /\ last.self \in Nat
  BY DEF LoopStates
<1>2. pos \in Nat /\ next \in Nat
  <2> HIDE DEF n
  <2>1. n \in Nat \ {0}
    BY DEF n
  <2>2. last.cursor % n \in Nat /\ (last.cursor + 1) % n \in Nat
    BY <1>1, <2>1
  <2> QED BY <2>2
<1> HIDE DEF pos, next
<1>3. CASE last.found # 0
  BY <1>3 DEF Pick!Attempt
<1>4. CASE last.found = 0
  <2>1. \E found \in {pos, 0}, self \in {pos, last.self} :
          Pick!Attempt(src, last) = [found |-> found, self |-> self, cursor |-> next]
    BY <1>4 DEF Pick!Attempt, pos, next
  <2> QED BY <1>1, <1>2, <2>1 DEF LoopStates
<1> QED BY <1>3, <1>4

(* The states of the loop, by the number of attempts. *)
LoopStart == [found |-> 0, self |-> 0, cursor |-> cursor]
Loop(src) ==
  CHOOSE try : try = [i \in 0 .. Len(ads) |->
                        IF i = 0 THEN LoopStart ELSE Pick!Attempt(src, try[i - 1])]

(* The loop is a function that its attempts define step by step. *)
LEMMA LoopRuns ==
  ASSUME Len(ads) \in Nat, cursor \in Nat, NEW src
  PROVE  /\ Pick!Attempts(src) = Loop(src)[Len(ads)]
         /\ Loop(src)[0] = LoopStart
         /\ \A i \in 1 .. Len(ads) : Loop(src)[i] = Pick!Attempt(src, Loop(src)[i - 1])
         /\ \A i \in 0 .. Len(ads) : Loop(src)[i] \in LoopStates
<1> DEFINE n == Len(ads)
           loop == Loop(src)
           Body(g) == [i \in 0 .. n |-> IF i = 0 THEN LoopStart ELSE Pick!Attempt(src, g[i - 1])]
           attempt == [last \in LoopStates |-> Pick!Attempt(src, last)]
           step == [i \in 1 .. n |-> attempt]
<1>1. n \in Nat /\ LoopStart \in LoopStates
  BY DEF LoopStart, LoopStates
<1>2. step \in [1 .. n -> [LoopStates -> LoopStates]]
  <2>1. CASE n = 0
    <3> HIDE DEF attempt
    <3> QED BY <2>1
  <2>2. CASE n # 0
    <3>1. \A last \in LoopStates : Pick!Attempt(src, last) \in LoopStates
      BY <2>2, AttemptType
    <3>2. attempt \in [LoopStates -> LoopStates]
      BY <3>1
    <3> HIDE DEF attempt
    <3> QED BY <3>2
  <2> QED BY <2>1, <2>2
<1>3. PICK f \in [0 .. n -> LoopStates] : Follows(f, n, LoopStart, step)
  <2> HIDE DEF n, step
  <2> QED BY <1>1, <1>2, Recursion
<1>4. f[0] = LoopStart /\ \A i \in 1 .. n : f[i] = Pick!Attempt(src, f[i - 1])
  <2>1. f[0] = LoopStart /\ \A i \in 1 .. n : f[i] = step[i][f[i - 1]]
    BY <1>3 DEF Follows
  <2>2. ASSUME NEW i \in 1 .. n PROVE step[i][f[i - 1]] = Pick!Attempt(src, f[i - 1])
    <3>1. f[i - 1] \in LoopStates
      BY <1>1
    <3> QED BY <3>1
  <2> HIDE DEF step
  <2> QED BY <2>1, <2>2
<1>5. f = Body(f)
  <2>1. f = [i \in 0 .. n |-> f[i]]
    OBVIOUS
  <2>2. \A i \in 0 .. n : i # 0 => i \in 1 .. n
    BY <1>1
  <2>3. \A i \in 0 .. n :
          f[i] = IF i = 0 THEN LoopStart ELSE Pick!Attempt(src, f[i - 1])
    BY <1>4, <2>2
  <2> HIDE DEF n
  <2> QED BY <2>1, <2>3
<1>6. loop = Body(loop)
  <2>1. loop = CHOOSE g : g = Body(g)
    BY DEF Loop
  <2> HIDE DEF Body, loop
  <2> QED BY <1>5, <2>1
<1>7. Pick!Attempts(src) = loop[n]
  BY DEF Pick!Attempts, Loop, LoopStart
<1> HIDE DEF loop
<1>8. loop[0] = LoopStart
  BY <1>1, <1>6
<1>9. \A i \in 1 .. n : loop[i] = Pick!Attempt(src, loop[i - 1])
  BY <1>1, <1>6
<1>10. \A i \in 0 .. n : loop[i] \in LoopStates
  <2> DEFINE T == {i \in 0 .. n : loop[i] \in LoopStates}
  <2>1. 0 \in T /\ T \in SUBSET (0 .. n)
    BY <1>1, <1>8
  <2>2. ASSUME NEW i \in 1 .. n, i - 1 \in T PROVE i \in T
    <3>1. loop[i - 1] \in LoopStates /\ n # 0
      BY <2>2
    <3>2. Pick!Attempt(src, loop[i - 1]) \in LoopStates
      BY <3>1, AttemptType
    <3> QED BY <1>9, <3>2
  <2>3. T = 0 .. n
    <3> HIDE DEF T, n
    <3> QED BY <1>1, <2>1, <2>2, IntervalInduction
  <2> QED BY <2>3
<1> QED BY <1>7, <1>8, <1>9, <1>10 DEF loop

(* An entry that may be shown is the one found, or is nearer after the loop.  *)
LEMMA LoopPasses ==
  ASSUME Len(ads) \in Nat, cursor \in Nat, NEW src,
         NEW p \in 1 .. Len(ads), Pick!Showable(p, src)
  PROVE  \/ Pick!Attempts(src).found = p
         \/ Ahead(Pick!Attempts(src).cursor, p) < Ahead(cursor, p)
<1> DEFINE n == Len(ads)
           loop == Loop(src)
           Before(i) == loop[i].found = 0 /\ Ahead(loop[i].cursor, p) + i = Ahead(cursor, p)
           Past(i) == loop[i].found = p \/ (loop[i].found # 0 /\ Ahead(loop[i].cursor, p) < Ahead(cursor, p))
           T == {i \in 0 .. n : Before(i) \/ Past(i)}
<1>1. n \in Nat \ {0} /\ p \in 1 .. n
  OBVIOUS
<1>2. /\ Pick!Attempts(src) = loop[n]
      /\ loop[0] = LoopStart
      /\ \A i \in 1 .. n : loop[i] = Pick!Attempt(src, loop[i - 1])
      /\ \A i \in 0 .. n : loop[i] \in LoopStates
  BY LoopRuns
<1>3. Ahead(cursor, p) \in 0 .. n - 1
  BY <1>1, AheadMoves
<1> HIDE DEF loop
<1>4. 0 \in T /\ T \in SUBSET (0 .. n)
  BY <1>1, <1>2, <1>3 DEF LoopStart
<1>5. ASSUME NEW i \in 1 .. n, i - 1 \in T PROVE i \in T
  <2> DEFINE last == loop[i - 1]
             pos == (last.cursor % n) + 1
  <2>1. loop[i] = Pick!Attempt(src, last) /\ last \in LoopStates
    BY <1>1, <1>2
  <2>2. last.found \in Nat /\ last.cursor \in Nat
    BY <2>1 DEF LoopStates
  <2>3. CASE last.found # 0
    <3>1. loop[i] = last
      BY <2>1, <2>3 DEF Pick!Attempt
    <3>2. Past(i - 1)
      BY <1>5, <2>3
    <3> QED BY <3>1, <3>2
  <2>4. CASE last.found = 0
    <3>1. Ahead(last.cursor, p) + (i - 1) = Ahead(cursor, p)
      BY <1>1, <1>5, <2>4
    <3>2. /\ loop[i].found = IF ads[pos].until > time /\ Pick!SiteAt(pos) # src THEN pos ELSE 0
          /\ loop[i].cursor = (last.cursor + 1) % n
      <4>1. \E self : loop[i] =
              [found |-> IF ads[pos].until > time /\ Pick!SiteAt(pos) # src THEN pos ELSE 0,
               self |-> self, cursor |-> (last.cursor + 1) % n]
        BY <2>1, <2>4 DEF Pick!Attempt
      <4> HIDE DEF pos, last
      <4> QED BY <4>1
    <3>3. CASE pos = p
      <4>1. loop[i].found = p
        BY <3>2, <3>3 DEF Pick!Showable
      <4> QED BY <4>1
    <3>4. CASE pos # p
      <4>1. /\ Ahead(last.cursor, p) \in 0 .. n - 1
            /\ Ahead(loop[i].cursor, p) + 1 = Ahead(last.cursor, p)
        BY <1>1, <2>2, <3>2, <3>4, AheadMoves
      <4>2. Ahead(loop[i].cursor, p) \in Int
        <5>1. loop[i].cursor \in Nat
          BY <1>2 DEF LoopStates
        <5>2. Ahead(loop[i].cursor, p) \in 0 .. n - 1
          BY <1>1, <5>1, AheadMoves
        <5> QED BY <1>1, <5>2
      <4> HIDE DEF last
      <4>3. /\ Ahead(loop[i].cursor, p) + i = Ahead(cursor, p)
            /\ Ahead(loop[i].cursor, p) < Ahead(cursor, p)
        BY <1>3, <3>1, <4>1, <4>2
      <4>4. CASE loop[i].found = 0
        BY <4>3, <4>4
      <4>5. CASE loop[i].found # 0
        BY <4>3, <4>5
      <4> QED BY <4>4, <4>5
    <3> QED BY <3>3, <3>4
  <2> QED BY <2>3, <2>4
<1>6. T = 0 .. n
  <2> HIDE DEF T, n
  <2> QED BY <1>1, <1>4, <1>5, IntervalInduction
<1>7. Before(n) \/ Past(n)
  BY <1>1, <1>6
<1>8. ~ Before(n)
  <2>1. loop[n].cursor \in Nat
    BY <1>1, <1>2 DEF LoopStates
  <2>2. Ahead(loop[n].cursor, p) \in 0 .. n - 1
    BY <1>1, <2>1, AheadMoves
  <2> QED BY <1>1, <1>3, <2>2
<1> QED BY <1>2, <1>7, <1>8

(* What a lap needs: an entry of an uninvolved site that may be shown has been *)
(* missed no more often than the cursor has come nearer to it.               *)
LapTypes ==
  ads \in Seq(Pick!Entries) /\ cursor \in Nat /\ time \in Nat /\ missed \in [DOMAIN ads -> Nat]
EntryWaits(i) ==
  Pick!SiteAt(i) \notin Sources =>
    /\ missed[i] < Len(ads)
    /\ ads[i].until > time => missed[i] + Ahead(cursor, i) < Len(ads)
LapInv == LapTypes /\ \A i \in DOMAIN ads : EntryWaits(i)

(* An array just built or filtered. *)
FreshLap ==
  /\ ads \in Seq(Pick!Entries) /\ cursor \in Nat /\ time \in Nat
  /\ missed = [i \in DOMAIN ads |-> 0]

(* When no entry has been missed, none has been missed for long. *)
LEMMA FreshLapsHold == FreshLap => LapInv
<1> SUFFICES ASSUME FreshLap PROVE LapInv
  OBVIOUS
<1>1. LapTypes
  BY DEF FreshLap, LapTypes
<1>2. ASSUME NEW i \in DOMAIN ads PROVE EntryWaits(i)
  <2> DEFINE n == Len(ads)
  <2>1. n \in Nat \ {0} /\ i \in 1 .. n /\ missed[i] = 0 /\ cursor \in Nat
    BY <1>2 DEF FreshLap
  <2>2. Ahead(cursor, i) \in 0 .. n - 1
    BY <2>1, AheadMoves
  <2> HIDE DEF n
  <2>3. missed[i] < n /\ missed[i] + Ahead(cursor, i) < n
    BY <2>1, <2>2
  <2> QED BY <2>3 DEF EntryWaits, n
<1> QED BY <1>1, <1>2 DEF LapInv

(* After an eviction no entry has been missed. *)
LEMMA EvictIsFresh ==
  ASSUME LapTypes, NEW s, Pick!Evict(s)
  PROVE  FreshLap'
<1> DEFINE S == Pick!Entries
           n == Len(ads)
           seqs == [i \in DOMAIN ads |-> IF Pick!SiteAt(i) # s THEN <<ads[i]>> ELSE <<>>]
<1>1. ads \in Seq(S) /\ n \in Nat /\ DOMAIN ads = 1 .. n
  BY DEF LapTypes
<1>2. ads' = Pick!FlattenSeq(seqs)
  BY DEF Pick!Evict
<1>3. Len(seqs) = n /\ (n = 0 => seqs = <<>>)
  <2> HIDE DEF n, S
  <2> QED BY <1>1
<1>4. \A i \in 1 .. n : seqs[i] \in Seq(S)
  <2> HIDE DEF n, S
  <2> QED BY <1>1
<1>5. ads' \in Seq(S)
  <2> HIDE DEF n, S, seqs
  <2> QED BY <1>1, <1>2, <1>3, <1>4, FlattenedSeq
<1>6. (Pick!Entries)' = S
  BY DEF Pick!Entries, Pick!Time, Pick!Ads
<1>7. cursor' \in Nat /\ time' \in Nat /\ missed' = [i \in DOMAIN ads' |-> 0]
  BY DEF LapTypes, Pick!Evict
<1> QED BY <1>5, <1>6, <1>7 DEF FreshLap

(* After a load no entry has been missed. *)
LEMMA ReloadIsFresh ==
  ASSUME LapTypes, NEW weight \in [Pick!Ads -> Weights], NEW until \in [Pick!Ads -> Pick!Time],
         NEW chosen \in SUBSET Pick!Ads, Pick!Reload(weight, until, chosen)
  PROVE  FreshLap'
<1> DEFINE S == Pick!Entries
           Pieces(a) == [c \in 1 .. Pick!Copies(weight[a]) |-> [ad |-> a, until |-> until[a]]]
           seqs == [a \in Pick!Ads |-> IF a \in chosen THEN Pieces(a) ELSE <<>>]
<1>1. NumAds \in Nat /\ Pick!Ads = 1 .. NumAds
  BY WeightsAssumption DEF Pick!Ads
<1>2. ads' = Pick!FlattenSeq(seqs)
  BY DEF Pick!Reload, Pick!Weighted
<1>3. Len(seqs) = NumAds /\ (NumAds = 0 => seqs = <<>>)
  <2> HIDE DEF Pieces
  <2> QED BY <1>1
<1>4. ASSUME NEW a \in 1 .. NumAds PROVE seqs[a] \in Seq(S)
  <2>1. Pick!Copies(weight[a]) \in Nat
    BY <1>1, WeightsAssumption DEF Pick!Copies
  <2>2. [ad |-> a, until |-> until[a]] \in S
    BY <1>1 DEF Pick!Entries
  <2> DEFINE k == Pick!Copies(weight[a])
             e == [ad |-> a, until |-> until[a]]
  <2>3. [c \in 1 .. k |-> e] \in Seq(S)
    <3> HIDE DEF k, e, S
    <3> QED BY <2>1, <2>2 DEF k, e
  <2> HIDE DEF S
  <2> QED BY <1>1, <2>3
<1>5. ads' \in Seq(S)
  <2> HIDE DEF S, seqs
  <2> QED BY <1>1, <1>2, <1>3, <1>4, FlattenedSeq
<1>6. (Pick!Entries)' = S
  BY DEF Pick!Entries, Pick!Time, Pick!Ads
<1>7. cursor' \in Nat
  <2>1. cursor \in Nat /\ cursor' = IF ads' = <<>> THEN 0 ELSE cursor % Len(ads')
    BY DEF LapTypes, Pick!Reload
  <2>2. ads' # <<>> => Len(ads') \in Nat \ {0}
    <3> HIDE DEF S
    <3> QED BY <1>5
  <2> DEFINE m == Len(ads')
  <2>3. ads' # <<>> => cursor % m \in Nat
    <3> HIDE DEF m
    <3>1. ads' # <<>> => m \in Nat \ {0}
      BY <2>2 DEF m
    <3> QED BY <2>1, <3>1
  <2> QED BY <2>1, <2>3
<1>8. time' \in Nat /\ missed' = [i \in DOMAIN ads' |-> 0]
  BY DEF LapTypes, Pick!Reload
<1> QED BY <1>5, <1>6, <1>7, <1>8 DEF FreshLap

(* A request that misses an entry brings the cursor nearer to it. *)
LEMMA NextAdKeepsLaps ==
  ASSUME LapInv, NEW src \in Sources, Pick!NextAdFor(src)
  PROVE  LapInv'
<1> DEFINE n == Len(ads)
           end == Pick!Attempts(src)
<1>1. /\ n \in Nat /\ DOMAIN ads = 1 .. n /\ cursor \in Nat
      /\ missed \in [DOMAIN ads -> Nat]
  BY DEF LapInv, LapTypes
<1>2. ads' = ads /\ time' = time /\ cursor' = end.cursor /\ missed' = Pick!Missed(src)
  BY DEF Pick!NextAdFor
<1>3. end \in LoopStates
  BY <1>1, LoopRuns
<1>4. cursor' \in Nat
  BY <1>2, <1>3 DEF LoopStates
<1>5. ASSUME NEW i \in DOMAIN ads
      PROVE  /\ Pick!Missed(src)[i] \in Nat
             /\ Pick!Missed(src)[i] =< missed[i] + 1
             /\ ~ Pick!Showable(i, src) => Pick!Missed(src)[i] =< missed[i]
             /\ i = Pick!Result(src) => Pick!Missed(src)[i] = 0
  <2> DEFINE B == NumAds * MaxCopies
  <2>1. B \in Nat /\ missed[i] \in Nat
    BY <1>1, WeightsAssumption
  <2> HIDE DEF B
  <2>2. /\ Pick!AtMost(B, missed[i] + 1) \in Nat
        /\ Pick!AtMost(B, missed[i] + 1) =< missed[i] + 1
    BY <2>1 DEF Pick!AtMost
  <2>3. Pick!Missed(src)[i] =
          IF i = Pick!Result(src) THEN 0
          ELSE IF Pick!Showable(i, src) THEN Pick!AtMost(B, missed[i] + 1)
          ELSE missed[i]
    BY DEF Pick!Missed, B
  <2> QED BY <2>1, <2>2, <2>3
<1>6. LapTypes'
  <2>1. missed' \in [DOMAIN ads' -> Nat]
    BY <1>2, <1>5 DEF Pick!Missed
  <2>2. (Pick!Entries)' = Pick!Entries
    BY DEF Pick!Entries, Pick!Time, Pick!Ads
  <2> QED BY <1>2, <1>4, <2>1, <2>2 DEF LapInv, LapTypes
<1>7. ASSUME NEW i \in DOMAIN ads PROVE EntryWaits(i)'
  <2> SUFFICES ASSUME Pick!SiteAt(i) \notin Sources
               PROVE  /\ missed'[i] < n
                      /\ ads[i].until > time => missed'[i] + Ahead(cursor', i) < n
    BY <1>2 DEF EntryWaits, Pick!SiteAt, Ahead
  <2>1. /\ n \in Nat \ {0} /\ i \in 1 .. n /\ missed[i] \in Nat
        /\ missed[i] < n
        /\ ads[i].until > time => missed[i] + Ahead(cursor, i) < n
    BY <1>1 DEF LapInv, EntryWaits
  <2>2. Ahead(cursor, i) \in 0 .. n - 1 /\ Ahead(cursor', i) \in 0 .. n - 1
    BY <1>1, <1>4, <2>1, AheadMoves
  <2>3. /\ missed'[i] \in Nat /\ missed'[i] =< missed[i] + 1
        /\ ~ Pick!Showable(i, src) => missed'[i] =< missed[i]
        /\ i = Pick!Result(src) => missed'[i] = 0
    BY <1>2, <1>5
  <2>4. CASE ~ (ads[i].until > time)
    <3>1. missed'[i] =< missed[i]
      BY <2>3, <2>4 DEF Pick!Showable
    <3> HIDE DEF n
    <3> QED BY <2>1, <2>3, <2>4, <3>1
  <2>5. CASE ads[i].until > time
    <3>1. Pick!Showable(i, src)
      BY <2>5 DEF Pick!Showable
    <3>2. end.found = i \/ Ahead(end.cursor, i) < Ahead(cursor, i)
      BY <1>1, <2>1, <3>1, LoopPasses
    <3>3. CASE end.found = i
      <4>1. i = Pick!Result(src)
        BY <2>1, <3>3 DEF Pick!Result
      <4> HIDE DEF n, end
      <4> QED BY <2>1, <2>2, <2>3, <4>1
    <3>4. CASE Ahead(cursor', i) < Ahead(cursor, i)
      <4> HIDE DEF n, end
      <4>1. missed[i] + Ahead(cursor, i) < n
        BY <2>1, <2>5
      <4> QED BY <2>1, <2>2, <2>3, <3>4, <4>1
    <3> QED BY <1>2, <3>2, <3>3, <3>4
  <2> QED BY <2>4, <2>5
<1> QED BY <1>2, <1>6, <1>7 DEF LapInv

(* Time does not move the cursor. *)
LEMMA TickKeepsLaps == ASSUME LapInv, Pick!Tick PROVE LapInv'
<1>1. /\ UNCHANGED <<ads, cursor, missed>> /\ time' = time + 1 /\ time \in Nat
      /\ \A i \in DOMAIN ads : ads[i].until > time' => ads[i].until > time
  <2>1. time' = time + 1 /\ UNCHANGED <<ads, cursor, missed>> /\ time \in Nat
    BY DEF Pick!Tick, LapInv, LapTypes
  <2>2. ASSUME NEW i \in DOMAIN ads PROVE ads[i].until \in Nat
    <3>1. ads[i] \in Pick!Entries
      BY DEF LapInv, LapTypes
    <3> QED BY <3>1, WeightsAssumption DEF Pick!Entries, Pick!Time
  <2> QED BY <2>1, <2>2
<1>2. LapTypes'
  <2>1. (Pick!Entries)' = Pick!Entries
    BY DEF Pick!Entries, Pick!Time, Pick!Ads
  <2> QED BY <1>1, <2>1 DEF LapInv, LapTypes
<1>3. ASSUME NEW i \in DOMAIN ads PROVE EntryWaits(i)'
  <2>1. EntryWaits(i)
    BY DEF LapInv
  <2> QED BY <1>1, <2>1 DEF EntryWaits, Pick!SiteAt, Ahead
<1> QED BY <1>1, <1>2, <1>3 DEF LapInv

(* So each step of Requests keeps how long an entry may have been missed. *)
LEMMA LapInvKept == LapInv /\ [PartsNext]_allVars => LapInv'
<1> SUFFICES ASSUME LapInv, [PartsNext]_allVars PROVE LapInv'
  OBVIOUS
<1>1. Pick!Next \/ UNCHANGED adVars
  BY DEF PartsNext, allVars
<1>2. CASE UNCHANGED adVars
  <2>1. (Pick!Entries)' = Pick!Entries
    BY DEF Pick!Entries, Pick!Time, Pick!Ads
  <2>2. LapTypes'
    BY <1>2, <2>1 DEF adVars, LapInv, LapTypes
  <2>3. ASSUME NEW i \in DOMAIN ads PROVE EntryWaits(i)'
    <3>1. EntryWaits(i)
      BY DEF LapInv
    <3> QED BY <1>2, <3>1 DEF adVars, EntryWaits, Pick!SiteAt, Ahead
  <2> QED BY <1>2, <2>2, <2>3 DEF adVars, LapInv
<1>3. CASE Pick!Next
  <2>1. ASSUME NEW src \in Sources, Pick!NextAdFor(src) PROVE LapInv'
    BY <2>1, NextAdKeepsLaps
  <2>2. FreshLap' => LapInv'
    BY FreshLapsHold, PTL
  <2>3. LapTypes
    BY DEF LapInv
  <2>4. ASSUME NEW s \in AdSites, Pick!Evict(s) PROVE LapInv'
    BY <2>2, <2>3, <2>4, EvictIsFresh
  <2>5. ASSUME NEW weight \in [Pick!Ads -> Weights], NEW until \in [Pick!Ads -> Pick!Time],
               NEW chosen \in SUBSET Pick!Ads, Pick!Reload(weight, until, chosen)
        PROVE  LapInv'
    BY <2>2, <2>3, <2>5, ReloadIsFresh
  <2>6. CASE Pick!Tick
    BY <2>6, TickKeepsLaps
  <2> QED BY <1>3, <2>1, <2>4, <2>5, <2>6 DEF Pick!Next
<1> QED BY <1>1, <1>2, <1>3

(* A copy of an ad of a site that does not ask is passed over for less than a  *)
(* lap, in arrays of every length, whatever evictions and reloads come between *)
(* the requests (rotationCache.ts:104-119).                                  *)
THEOREM OutsidersSoonServed == PartsSpec => []OutsidersWaitOneLap
<1>1. PartsInit => LapInv
  <2>1. PartsInit => FreshLap
    BY DEF PartsInit, Pick!Init, FreshLap
  <2> QED BY <2>1, FreshLapsHold
<1>2. LapInv => OutsidersWaitOneLap
  BY DEF LapInv, EntryWaits, OutsidersWaitOneLap, Pick!OutsidersWaitOneLap
<1> QED BY <1>1, <1>2, LapInvKept, PTL DEF PartsSpec

-----------------------------------------------------------------------------
(* NextAd: the array is a rotation *)

(* The entries t are the slots of a rotation in order, at[i] being the slot of *)
(* position i.                                                               *)
InOrder(t, rot, at) ==
  /\ at \in [1 .. Len(t) -> Pick!Slots(rot)]
  /\ \A slot \in Pick!Slots(rot) : \E i \in 1 .. Len(t) : at[i] = slot
  /\ \A i, j \in 1 .. Len(t) : i < j => Pick!Precedes(at[i], at[j])
  /\ \A i \in 1 .. Len(t) : at[i][1] = t[i].ad
OneDeadline(t) ==
  \A i, j \in 1 .. Len(t) : t[i].ad = t[j].ad => t[i].until = t[j].until

(* The rotation that a load takes from the rows. *)
Taken(weight, chosen) ==
  [a \in Pick!Ads |-> IF a \in chosen THEN Pick!Copies(weight[a]) ELSE 0]

(* The ads are the numbers from 1 on. *)
LEMMA AdsAreRanks == Pick!Ads = 1 .. NumAds /\ NumAds \in Nat
BY WeightsAssumption DEF Pick!Ads

(* What a load takes from the rows is a rotation. *)
LEMMA CopiesInRange ==
  ASSUME NEW weight \in [Pick!Ads -> Weights], NEW chosen
  PROVE  /\ \A a \in Pick!Ads : Pick!Copies(weight[a]) \in 1 .. MaxCopies
         /\ Taken(weight, chosen) \in Pick!Rotations
<1>1. \A a \in Pick!Ads : Pick!Copies(weight[a]) \in 1 .. MaxCopies
  <2>1. \A w \in Nat : Pick!Copies(w) \in 1 .. MaxCopies
    BY WeightsAssumption DEF Pick!Copies
  <2> QED BY <2>1, WeightsAssumption
<1>2. \A a \in Pick!Ads : (IF a \in chosen THEN Pick!Copies(weight[a]) ELSE 0) \in 0 .. MaxCopies
  BY <1>1, WeightsAssumption
<1> QED BY <1>1, <1>2 DEF Taken, Pick!Rotations

(* An array that has just been built. *)
LEMMA LoadedInOrder ==
  ASSUME NEW weight \in [Pick!Ads -> Weights], NEW until \in [Pick!Ads -> Pick!Time],
         NEW chosen \in SUBSET Pick!Ads
  PROVE  LET t == Pick!Weighted(weight, until, chosen) IN
         /\ t \in Seq(Pick!Entries) /\ OneDeadline(t)
         /\ \A p \in 1 .. Len(t) : t[p].until = until[t[p].ad]
         /\ \E at : InOrder(t, Taken(weight, chosen), at)
<1> DEFINE S == Pick!Entries
           k(a) == Pick!Copies(weight[a])
           e(a) == [ad |-> a, until |-> until[a]]
           seqs == [a \in Pick!Ads |-> IF a \in chosen THEN [c \in 1 .. k(a) |-> e(a)] ELSE <<>>]
           t == Pick!FlattenSeq(seqs)
           rot == Taken(weight, chosen)
<1>1. /\ Pick!Ads = 1 .. NumAds /\ NumAds \in Nat /\ MaxCopies \in Nat
      /\ rot \in [1 .. NumAds -> 0 .. MaxCopies]
      /\ \A a \in 1 .. NumAds : k(a) \in 1 .. MaxCopies /\ rot[a] = IF a \in chosen THEN k(a) ELSE 0
  BY AdsAreRanks, CopiesInRange, WeightsAssumption DEF Taken, Pick!Rotations
<1>2. Pick!Weighted(weight, until, chosen) = t
  BY DEF Pick!Weighted
<1>3. ASSUME NEW a \in 1 .. NumAds
      PROVE  /\ seqs[a] \in Seq(S) /\ Len(seqs[a]) = rot[a]
             /\ \A c \in 1 .. rot[a] : seqs[a][c] = e(a)
  <2> DEFINE entry == e(a)
             copies == k(a)
  <2>1. entry \in S
    BY <1>1 DEF Pick!Entries
  <2>2. copies \in Nat /\ rot[a] = IF a \in chosen THEN copies ELSE 0
    BY <1>1
  <2>3. seqs[a] = IF a \in chosen THEN [c \in 1 .. copies |-> entry] ELSE <<>>
    BY <1>1
  <2> HIDE DEF seqs, entry, copies, rot, S
  <2>4. CASE a \in chosen
    <3>1. seqs[a] = [c \in 1 .. copies |-> entry] /\ rot[a] = copies
      BY <2>2, <2>3, <2>4
    <3> QED BY <2>1, <2>2, <3>1 DEF entry
  <2>5. CASE a \notin chosen
    BY <2>2, <2>3, <2>5
  <2> QED BY <2>4, <2>5
<1>4. Len(seqs) = NumAds /\ (NumAds = 0 => seqs = <<>>)
  <2> HIDE DEF k, e
  <2> QED BY <1>1
<1> HIDE DEF seqs, rot
<1>5. PICK from : Lists(S, t, from, seqs, NumAds)
  <2> HIDE DEF S
  <2> QED BY <1>1, <1>3, <1>4, FlattenedLists
<1> HIDE DEF t
<1>6. ASSUME NEW p \in 1 .. Len(t)
      PROVE  /\ from[p] \in Nat \X Nat
             /\ from[p][1] \in 1 .. NumAds /\ from[p][2] \in 1 .. rot[from[p][1]]
             /\ t[p].ad = from[p][1] /\ t[p].until = until[from[p][1]]
  <2>1. /\ from[p] \in Nat \X Nat /\ from[p][1] \in 1 .. NumAds
        /\ from[p][2] \in 1 .. Len(seqs[from[p][1]]) /\ t[p] = seqs[from[p][1]][from[p][2]]
    BY <1>5 DEF Lists
  <2> DEFINE a == from[p][1]
  <2>2. from[p][2] \in 1 .. rot[a] /\ t[p] = e(a)
    <3> HIDE DEF e
    <3> QED BY <1>3, <2>1
  <2> HIDE DEF a
  <2>3. t[p].ad = a /\ t[p].until = until[a]
    BY <2>2
  <2> QED BY <2>1, <2>2, <2>3 DEF a
<1> HIDE DEF e
<1>7. InOrder(t, rot, from)
  <2>1. from \in [1 .. Len(t) -> Pick!Slots(rot)]
    <3>1. ASSUME NEW p \in 1 .. Len(t) PROVE from[p] \in Pick!Slots(rot)
      <4>1. from[p][2] \in 1 .. MaxCopies /\ from[p][2] <= rot[from[p][1]]
        <5> DEFINE top == rot[from[p][1]]
                   c == from[p][2]
        <5>1. top \in 0 .. MaxCopies /\ c \in 1 .. top
          BY <1>1, <1>6
        <5> HIDE DEF top, c
        <5>2. c \in 1 .. MaxCopies /\ c <= top
          BY <1>1, <5>1
        <5> QED BY <5>2 DEF top, c
      <4>2. from[p] \in Pick!Ads \X (1 .. MaxCopies)
        BY <1>1, <1>6, <4>1
      <4> QED BY <4>1, <4>2 DEF Pick!Slots
    <3>2. from \in [1 .. Len(t) -> Nat \X Nat]
      BY <1>5 DEF Lists
    <3> QED BY <3>1, <3>2
  <2>2. ASSUME NEW slot \in Pick!Slots(rot) PROVE \E p \in 1 .. Len(t) : from[p] = slot
    <3>1. /\ slot = <<slot[1], slot[2]>> /\ slot[1] \in 1 .. NumAds
          /\ slot[2] \in 1 .. MaxCopies /\ slot[2] <= rot[slot[1]]
      BY <1>1 DEF Pick!Slots
    <3>2. slot[2] \in 1 .. Len(seqs[slot[1]])
      <4> DEFINE top == rot[slot[1]]
                 c == slot[2]
      <4>1. Len(seqs[slot[1]]) = top /\ top \in 0 .. MaxCopies /\ c \in 1 .. MaxCopies /\ c <= top
        BY <1>1, <1>3, <3>1
      <4> HIDE DEF top, c
      <4>2. c \in 1 .. top
        BY <1>1, <4>1
      <4> QED BY <4>1, <4>2 DEF c
    <3>3. \E p \in 1 .. Len(t) : from[p] = <<slot[1], slot[2]>>
      BY <1>5, <3>1, <3>2 DEF Lists
    <3> QED BY <3>1, <3>3
  <2>3. \A p, q \in 1 .. Len(t) : p < q => Pick!Precedes(from[p], from[q])
    BY <1>5 DEF Lists
  <2>4. \A p \in 1 .. Len(t) : from[p][1] = t[p].ad
    BY <1>6
  <2> QED BY <2>1, <2>2, <2>3, <2>4 DEF InOrder
<1>8. /\ t \in Seq(S) /\ OneDeadline(t)
      /\ \A p \in 1 .. Len(t) : t[p].until = until[t[p].ad]
  <2>1. \A p \in 1 .. Len(t) : t[p].until = until[t[p].ad]
    BY <1>6
  <2>2. t \in Seq(S)
    <3> HIDE DEF S
    <3> QED BY <1>5 DEF Lists
  <2> QED BY <2>1, <2>2 DEF OneDeadline
<1> QED BY <1>2, <1>7, <1>8 DEF rot

(* An array from which the ads of a site have been filtered. *)
LEMMA EvictedInOrder ==
  ASSUME NEW r \in Seq(Pick!Entries), NEW rot \in Pick!Rotations, NEW at,
         InOrder(r, rot, at), OneDeadline(r), NEW s
  PROVE  LET t == Pick!FlattenSeq([i \in DOMAIN r |->
                    IF AdOwner[r[i].ad] # s THEN <<r[i]>> ELSE <<>>]) IN
         /\ t \in Seq(Pick!Entries) /\ OneDeadline(t)
         /\ \A p \in 1 .. Len(t) : \E i \in 1 .. Len(r) : t[p] = r[i]
         /\ \E new : InOrder(t, Pick!Without(rot, {s}), new)
<1> DEFINE S == Pick!Entries
           n == Len(r)
           seqs == [i \in DOMAIN r |-> IF AdOwner[r[i].ad] # s THEN <<r[i]>> ELSE <<>>]
           t == Pick!FlattenSeq(seqs)
           m == Len(t)
           rest == Pick!Without(rot, {s})
<1>1. n \in Nat /\ DOMAIN r = 1 .. n /\ \A i \in 1 .. n : r[i] \in S
  OBVIOUS
<1>2. ASSUME NEW i \in 1 .. n
      PROVE  /\ seqs[i] \in Seq(S)
             /\ AdOwner[r[i].ad] # s => Len(seqs[i]) = 1 /\ seqs[i][1] = r[i]
             /\ AdOwner[r[i].ad] = s => Len(seqs[i]) = 0
  <2>1. r[i] \in S /\ seqs[i] = IF AdOwner[r[i].ad] # s THEN <<r[i]>> ELSE <<>>
    BY <1>1
  <2> HIDE DEF S, seqs
  <2> QED BY <2>1
<1>3. Len(seqs) = n /\ (n = 0 => seqs = <<>>)
  <2> HIDE DEF n, S
  <2> QED BY <1>1
<1> HIDE DEF seqs
<1>4. PICK from : Lists(S, t, from, seqs, n)
  <2> HIDE DEF S, n
  <2> QED BY <1>1, <1>2, <1>3, FlattenedLists
<1> HIDE DEF t
<1>5. m \in Nat /\ t \in Seq(S)
  BY <1>4 DEF Lists
<1>6. ASSUME NEW p \in 1 .. m
      PROVE  /\ from[p][1] \in 1 .. n /\ from[p][2] = 1
             /\ AdOwner[r[from[p][1]].ad] # s /\ t[p] = r[from[p][1]]
  <2>1. /\ from[p][1] \in 1 .. n
        /\ from[p][2] \in 1 .. Len(seqs[from[p][1]]) /\ t[p] = seqs[from[p][1]][from[p][2]]
    BY <1>4 DEF Lists
  <2> DEFINE i == from[p][1]
             c == from[p][2]
             l == Len(seqs[i])
  <2>2. i \in 1 .. n /\ c \in 1 .. l /\ t[p] = seqs[i][c]
    BY <2>1
  <2> HIDE DEF n, i, c, l
  <2>3. l # 0 /\ (l = 1 => c = 1)
    BY <2>2
  <2>4. AdOwner[r[i].ad] # s /\ l = 1 /\ seqs[i][1] = r[i]
    BY <1>2, <2>2, <2>3 DEF l
  <2> QED BY <2>2, <2>3, <2>4 DEF i, c
<1>7. \A p, q \in 1 .. m : p < q => from[p][1] < from[q][1]
  <2>1. \A p, q \in 1 .. m : p < q => Pick!Precedes(from[p], from[q])
    BY <1>4 DEF Lists
  <2> QED BY <1>6, <2>1 DEF Pick!Precedes
<1>8. ASSUME NEW i \in 1 .. n, AdOwner[r[i].ad] # s PROVE \E p \in 1 .. m : from[p][1] = i
  <2>1. 1 \in 1 .. Len(seqs[i])
    BY <1>2, <1>8
  <2>2. \E p \in 1 .. m : from[p] = <<i, 1>>
    BY <1>4, <2>1 DEF Lists
  <2> QED BY <2>2
<1> DEFINE new == [p \in 1 .. m |-> at[from[p][1]]]
<1>9. /\ at \in [1 .. n -> Pick!Slots(rot)]
      /\ \A slot \in Pick!Slots(rot) : \E i \in 1 .. n : at[i] = slot
      /\ \A i, j \in 1 .. n : i < j => Pick!Precedes(at[i], at[j])
      /\ \A i \in 1 .. n : at[i][1] = r[i].ad
  BY DEF InOrder
<1>10. \A slot : slot \in Pick!Slots(rest) <=>
                   slot \in Pick!Slots(rot) /\ AdOwner[slot[1]] # s
  <2> SUFFICES ASSUME NEW slot \in Pick!Ads \X (1 .. MaxCopies)
               PROVE  slot[2] <= rest[slot[1]] <=>
                        slot[2] <= rot[slot[1]] /\ AdOwner[slot[1]] # s
    BY DEF Pick!Slots
  <2>1. rest[slot[1]] = IF AdOwner[slot[1]] = s THEN 0 ELSE rot[slot[1]]
    BY DEF Pick!Without
  <2>2. slot[2] \in 1 .. MaxCopies
    OBVIOUS
  <2> HIDE DEF rest
  <2> QED BY <2>1, <2>2, WeightsAssumption
<1> HIDE DEF n, m, rest
<1>11. InOrder(t, rest, new)
  <2>1. ASSUME NEW p \in 1 .. m PROVE new[p] \in Pick!Slots(rest) /\ new[p][1] = t[p].ad
    BY <1>6, <1>9, <1>10
  <2>2. ASSUME NEW slot \in Pick!Slots(rest) PROVE \E p \in 1 .. m : new[p] = slot
    <3>1. PICK i \in 1 .. n : at[i] = slot
      BY <1>9, <1>10
    <3>2. AdOwner[r[i].ad] # s
      BY <1>9, <1>10, <3>1
    <3>3. PICK p \in 1 .. m : from[p][1] = i
      BY <1>8, <3>2
    <3> QED BY <3>1, <3>3
  <2>3. ASSUME NEW p \in 1 .. m, NEW q \in 1 .. m, p < q PROVE Pick!Precedes(new[p], new[q])
    BY <1>6, <1>7, <1>9, <2>3
  <2>4. new \in [1 .. m -> Pick!Slots(rest)]
    BY <2>1
  <2> HIDE DEF new
  <2> QED BY <2>1, <2>2, <2>3, <2>4 DEF InOrder, m
<1>12. \A p \in 1 .. m : \E i \in 1 .. n : t[p] = r[i]
  BY <1>6
<1>13. OneDeadline(t)
  <2> SUFFICES ASSUME NEW p \in 1 .. m, NEW q \in 1 .. m, t[p].ad = t[q].ad
               PROVE  t[p].until = t[q].until
    BY DEF OneDeadline, m
  <2>1. PICK i \in 1 .. n : t[p] = r[i]
    BY <1>12
  <2>2. PICK j \in 1 .. n : t[q] = r[j]
    BY <1>12
  <2> QED BY <2>1, <2>2 DEF OneDeadline, n
<1>14. \A p \in 1 .. Len(t) : \E i \in 1 .. Len(r) : t[p] = r[i]
  BY <1>12 DEF m, n
<1> HIDE DEF new
<1> QED BY <1>5, <1>11, <1>13, <1>14 DEF t, seqs, rest

(* What counting the entries of an ad tells. *)
RotationOf(t) == [a \in Pick!Ads |-> Cardinality({i \in 1 .. Len(t) : t[i].ad = a})]

(* A slot is an ad and the number of one of its copies. *)
LEMMA SlotsArePairs ==
  ASSUME NEW rot \in Pick!Rotations, NEW slot \in Pick!Slots(rot)
  PROVE  /\ slot = <<slot[1], slot[2]>> /\ slot[1] \in Pick!Ads /\ slot[1] \in Nat
         /\ slot[2] \in 1 .. rot[slot[1]] /\ slot[2] \in Nat
<1>1. /\ slot = <<slot[1], slot[2]>> /\ slot[1] \in Pick!Ads /\ slot[2] \in 1 .. MaxCopies
      /\ slot[2] <= rot[slot[1]]
  BY DEF Pick!Slots
<1>2. slot[1] \in Nat
  BY <1>1, AdsAreRanks
<1> DEFINE top == rot[slot[1]]
           c == slot[2]
<1>3. top \in 0 .. MaxCopies /\ c \in 1 .. MaxCopies /\ c <= top
  BY <1>1 DEF Pick!Rotations
<1> HIDE DEF top, c
<1>4. c \in 1 .. top /\ c \in Nat
  BY <1>3, WeightsAssumption
<1> QED BY <1>1, <1>2, <1>4 DEF top, c

(* The order of the slots is the order of the positions. *)
LEMMA OrderOfSlots ==
  ASSUME NEW t \in Seq(Pick!Entries), NEW rot \in Pick!Rotations, NEW at, InOrder(t, rot, at)
  PROVE  \A i, j \in 1 .. Len(t) :
           /\ Pick!Precedes(at[i], at[j]) <=> i < j
           /\ at[i] = at[j] => i = j
<1> SUFFICES ASSUME NEW i \in 1 .. Len(t), NEW j \in 1 .. Len(t)
             PROVE  /\ Pick!Precedes(at[i], at[j]) <=> i < j
                    /\ at[i] = at[j] => i = j
  OBVIOUS
<1> DEFINE x == at[i]
           y == at[j]
           n == Len(t)
<1>1. /\ x[1] \in Nat /\ x[2] \in Nat /\ y[1] \in Nat /\ y[2] \in Nat
      /\ i < j => Pick!Precedes(x, y)
      /\ j < i => Pick!Precedes(y, x)
      /\ i = j => x = y
  <2>1. x \in Pick!Slots(rot) /\ y \in Pick!Slots(rot)
    BY DEF InOrder
  <2>2. x[1] \in Nat /\ x[2] \in Nat /\ y[1] \in Nat /\ y[2] \in Nat
    BY <2>1, SlotsArePairs
  <2> QED BY <2>2 DEF InOrder
<1>2. n \in Nat /\ i \in 1 .. n /\ j \in 1 .. n
  OBVIOUS
<1> HIDE DEF x, y, n
<1>3. (Pick!Precedes(x, y) <=> i < j) /\ (x = y => i = j)
  BY <1>1, <1>2 DEF Pick!Precedes
<1> QED BY <1>3 DEF x, y

(* The positions of the slots of an array tell how many slots there are, how *)
(* many precede one, and how many copies an ad has.                          *)
LEMMA SlotsCounted ==
  ASSUME NEW t \in Seq(Pick!Entries), NEW rot \in Pick!Rotations, NEW at, InOrder(t, rot, at)
  PROVE  /\ Cardinality(Pick!Slots(rot)) = Len(t)
         /\ \A i \in 1 .. Len(t) :
              Cardinality({s \in Pick!Slots(rot) : Pick!Precedes(s, at[i])}) = i - 1
         /\ RotationOf(t) = rot
<1> DEFINE n == Len(t)
           all == Pick!Slots(rot)
<1>1. /\ n \in Nat /\ at \in [1 .. n -> all]
      /\ \A slot \in all : \E i \in 1 .. n : at[i] = slot
      /\ \A i \in 1 .. n : at[i][1] = t[i].ad
  BY DEF InOrder
<1>2. \A i, j \in 1 .. n : (Pick!Precedes(at[i], at[j]) <=> i < j) /\ (at[i] = at[j] => i = j)
  BY OrderOfSlots
<1>3. \A slot \in all : /\ slot = <<slot[1], slot[2]>> /\ slot[1] \in Pick!Ads
                        /\ slot[2] \in 1 .. rot[slot[1]]
  BY SlotsArePairs
<1>4. \A a \in Pick!Ads : /\ rot[a] \in Nat
                          /\ \A c \in 1 .. rot[a] : <<a, c>> \in all
  <2> SUFFICES ASSUME NEW a \in Pick!Ads
               PROVE  rot[a] \in Nat /\ \A c \in 1 .. rot[a] : <<a, c>> \in all
    OBVIOUS
  <2> DEFINE top == rot[a]
  <2>1. top \in 0 .. MaxCopies
    BY DEF Pick!Rotations
  <2>2. top \in Nat /\ \A c \in 1 .. top : c \in 1 .. MaxCopies /\ c <= top
    <3> HIDE DEF top
    <3> QED BY <2>1, WeightsAssumption
  <2> QED BY <2>2 DEF Pick!Slots
<1> HIDE DEF n, all
<1>5. Cardinality(all) = n
  <2>1. ExistsBijection(1 .. n, all)
    BY <1>1, <1>2 DEF ExistsBijection, Bijection, Injection, Surjection, IsInjective
  <2> QED BY <1>1, <2>1, FS_CountingElements
<1>6. ASSUME NEW i \in 1 .. n
      PROVE  Cardinality({s \in all : Pick!Precedes(s, at[i])}) = i - 1
  <2> DEFINE before == {s \in all : Pick!Precedes(s, at[i])}
             f == [k \in 1 .. i - 1 |-> at[k]]
  <2>1. i - 1 \in Nat /\ \A k \in 1 .. i - 1 : k \in 1 .. n /\ k < i
    BY <1>1
  <2>2. f \in [1 .. i - 1 -> before]
    BY <1>1, <1>2, <2>1
  <2>3. \A k, l \in 1 .. i - 1 : f[k] = f[l] => k = l
    BY <1>2, <2>1
  <2>4. ASSUME NEW s \in before PROVE \E k \in 1 .. i - 1 : f[k] = s
    <3>1. PICK k \in 1 .. n : at[k] = s
      BY <1>1
    <3>2. k < i
      BY <1>2, <3>1
    <3>3. k \in 1 .. i - 1
      BY <1>1, <3>2
    <3> QED BY <3>1, <3>3
  <2> HIDE DEF before, f
  <2>5. ExistsBijection(1 .. i - 1, before)
    BY <2>2, <2>3, <2>4 DEF ExistsBijection, Bijection, Injection, Surjection, IsInjective
  <2>6. Cardinality(before) = i - 1
    BY <2>1, <2>5, FS_CountingElements
  <2> QED BY <2>6 DEF before
<1>7. ASSUME NEW a \in Pick!Ads
      PROVE  Cardinality({i \in 1 .. n : t[i].ad = a}) = rot[a]
  <2> DEFINE copies == {i \in 1 .. n : t[i].ad = a}
             f == [c \in 1 .. rot[a] |-> CHOOSE i \in 1 .. n : at[i] = <<a, c>>]
  <2>1. \A c \in 1 .. rot[a] : f[c] \in 1 .. n /\ at[f[c]] = <<a, c>>
    BY <1>1, <1>4
  <2> HIDE DEF f
  <2>2. f \in [1 .. rot[a] -> copies]
    <3>1. \A c \in 1 .. rot[a] : f[c] \in copies
      BY <1>1, <2>1
    <3>2. f = [c \in 1 .. rot[a] |-> f[c]]
      BY DEF f
    <3> HIDE DEF copies
    <3> QED BY <3>1, <3>2
  <2>3. \A c, d \in 1 .. rot[a] : f[c] = f[d] => c = d
    <3> SUFFICES ASSUME NEW c \in 1 .. rot[a], NEW d \in 1 .. rot[a], f[c] = f[d]
                 PROVE  c = d
      OBVIOUS
    <3>1. <<a, c>> = <<a, d>>
      BY <2>1
    <3> QED BY <3>1
  <2>4. ASSUME NEW i \in copies PROVE \E c \in 1 .. rot[a] : f[c] = i
    <3>1. at[i] \in all /\ at[i][1] = a
      BY <1>1
    <3>2. at[i] = <<a, at[i][2]>> /\ at[i][2] \in 1 .. rot[a]
      BY <1>3, <3>1
    <3>3. f[at[i][2]] = i
      BY <1>2, <2>1, <3>2
    <3> QED BY <3>2, <3>3
  <2> HIDE DEF copies
  <2>5. ExistsBijection(1 .. rot[a], copies)
    BY <2>2, <2>3, <2>4 DEF ExistsBijection, Bijection, Injection, Surjection, IsInjective
  <2>6. Cardinality(copies) = rot[a]
    BY <1>4, <2>5, FS_CountingElements
  <2> QED BY <2>6 DEF copies
<1>8. RotationOf(t) = rot
  <2>1. rot = [a \in Pick!Ads |-> rot[a]]
    BY DEF Pick!Rotations
  <2>2. RotationOf(t) = [a \in Pick!Ads |-> rot[a]]
    BY <1>7 DEF RotationOf, n
  <2> QED BY <2>1, <2>2
<1> QED BY <1>5, <1>6, <1>8 DEF n, all

(* The array is a rotation in order, one deadline for each ad. *)
ArrayInv ==
  /\ OneDeadline(ads)
  /\ \E rot \in Pick!Rotations : \E at : InOrder(ads, rot, at)

(* An array that is a rotation in order makes the invariant true. *)
LEMMA ArrayRenewed ==
  ASSUME OneDeadline(ads'), NEW rot \in Pick!Rotations, NEW at, InOrder(ads', rot, at)
  PROVE  ArrayInv'
<1>1. (Pick!Rotations)' = Pick!Rotations
  BY DEF Pick!Rotations, Pick!Ads
<1>2. OneDeadline(ads)'
  BY DEF OneDeadline
<1>3. InOrder(ads, rot, at)'
  BY DEF InOrder, Pick!Slots, Pick!Precedes, Pick!Ads
<1> QED BY <1>1, <1>2, <1>3 DEF ArrayInv

(* An array left alone keeps it. *)
LEMMA ArrayKept == ASSUME ArrayInv, UNCHANGED ads PROVE ArrayInv'
<1>0. PICK rot \in Pick!Rotations : \E at : InOrder(ads, rot, at)
  BY DEF ArrayInv
<1>1. PICK at : InOrder(ads, rot, at)
  BY <1>0
<1>2. InOrder(ads', rot, at) /\ OneDeadline(ads')
  BY <1>1 DEF ArrayInv
<1> QED BY <1>2, ArrayRenewed

(* The array after an eviction is the rotation without the ads of the site. *)
LEMMA EvictedArray ==
  ASSUME LapTypes, OneDeadline(ads), NEW rot \in Pick!Rotations, NEW at,
         InOrder(ads, rot, at), NEW s, Pick!Evict(s)
  PROVE  /\ ads' \in Seq(Pick!Entries) /\ OneDeadline(ads')
         /\ \A p \in 1 .. Len(ads') : \E i \in 1 .. Len(ads) : ads'[p] = ads[i]
         /\ Pick!Without(rot, {s}) \in Pick!Rotations
         /\ \E new : InOrder(ads', Pick!Without(rot, {s}), new)
<1> DEFINE t == Pick!FlattenSeq([i \in DOMAIN ads |->
                  IF AdOwner[ads[i].ad] # s THEN <<ads[i]>> ELSE <<>>])
<1>1. /\ t \in Seq(Pick!Entries) /\ OneDeadline(t)
      /\ \A p \in 1 .. Len(t) : \E i \in 1 .. Len(ads) : t[p] = ads[i]
      /\ \E new : InOrder(t, Pick!Without(rot, {s}), new)
  <2>1. ads \in Seq(Pick!Entries)
    BY DEF LapTypes
  <2> QED BY <2>1, EvictedInOrder
<1>2. ads' = t
  BY DEF Pick!Evict, Pick!SiteAt
<1>3. Pick!Without(rot, {s}) \in Pick!Rotations
  BY WeightsAssumption DEF Pick!Without, Pick!Rotations
<1> HIDE DEF t
<1> QED BY <1>1, <1>2, <1>3

(* Each step of Requests keeps it: those that change the array build or
   filter it. *)
LEMMA ArrayInvKept == LapInv /\ ArrayInv /\ [PartsNext]_allVars => ArrayInv'
<1> SUFFICES ASSUME LapTypes, ArrayInv, [PartsNext]_allVars PROVE ArrayInv'
  BY DEF LapInv
<1>1. ASSUME NEW s, Pick!Evict(s) PROVE ArrayInv'
  <2>0. PICK rot \in Pick!Rotations : \E at : InOrder(ads, rot, at) /\ OneDeadline(ads)
    BY DEF ArrayInv
  <2>1. PICK at : InOrder(ads, rot, at) /\ OneDeadline(ads)
    BY <2>0
  <2>2. /\ OneDeadline(ads') /\ Pick!Without(rot, {s}) \in Pick!Rotations
        /\ \E new : InOrder(ads', Pick!Without(rot, {s}), new)
    BY <1>1, <2>1, EvictedArray
  <2> QED BY <2>2, ArrayRenewed
<1>2. ASSUME NEW weight \in [Pick!Ads -> Weights], NEW until \in [Pick!Ads -> Pick!Time],
             NEW chosen \in SUBSET Pick!Ads, Pick!Reload(weight, until, chosen)
      PROVE  ArrayInv'
  <2>1. ads' = Pick!Weighted(weight, until, chosen)
    BY <1>2 DEF Pick!Reload
  <2>2. OneDeadline(ads') /\ \E at : InOrder(ads', Taken(weight, chosen), at)
    BY <2>1, LoadedInOrder
  <2> QED BY <2>2, CopiesInRange, ArrayRenewed
<1>3. CASE UNCHANGED ads
  BY <1>3, ArrayKept
<1> QED BY <1>1, <1>2, <1>3
      DEF PartsNext, allVars, adVars, Pick!Next, Pick!NextAdFor, Pick!Tick

-----------------------------------------------------------------------------
(* NextAd: the loop does what Rotation says *)

(* How many entries the cursor is before a position, as the loop and as      *)
(* Rotation count.                                                           *)
LEMMA AheadIsDistance ==
  ASSUME Len(ads) \in Nat \ {0}, NEW cur \in Nat, NEW p \in 1 .. Len(ads)
  PROVE  /\ Ahead(cur, p) \in 0 .. Len(ads) - 1
         /\ ((cur + Ahead(cur, p)) % Len(ads)) + 1 = p
         /\ \A i \in 0 .. Len(ads) - 1 : ((cur + i) % Len(ads)) + 1 = p => Ahead(cur, p) = i
         /\ ((p - 1) + Len(ads) - (cur % Len(ads))) % Len(ads) = Ahead(cur, p)
<1> DEFINE n == Len(ads)
           k == cur % n
           d == Ahead(cur, p)
<1>1. /\ n \in Nat \ {0} /\ p \in 1 .. n
      /\ d = IF k < p THEN p - 1 - k ELSE n + p - 1 - k
  BY DEF Ahead
<1> HIDE DEF n, d
<1>2. k \in 0 .. n - 1
  BY <1>1
<1>3. \A i \in 0 .. n : (cur + i) % n = IF k + i < n THEN k + i ELSE k + i - n
  BY <1>1, ModPlus
<1> HIDE DEF k
<1>4. d \in 0 .. n - 1 /\ d \in 0 .. n
  BY <1>1, <1>2
<1>5. ((cur + d) % n) + 1 = p
  <2> DEFINE m == (cur + d) % n
  <2>1. m = IF k + d < n THEN k + d ELSE k + d - n
    BY <1>3, <1>4
  <2> HIDE DEF m
  <2>2. m + 1 = p
    BY <1>1, <1>2, <2>1
  <2> QED BY <2>2 DEF m
<1>6. ASSUME NEW i \in 0 .. n - 1, ((cur + i) % n) + 1 = p PROVE d = i
  <2> DEFINE m == (cur + i) % n
  <2>1. m = IF k + i < n THEN k + i ELSE k + i - n
    BY <1>1, <1>3
  <2>2. m + 1 = p
    BY <1>6
  <2> HIDE DEF m
  <2> QED BY <1>1, <1>2, <2>1, <2>2
<1>7. ((p - 1) + n - k) % n = d
  <2>1. CASE k < p
    <3>1. d \in Nat /\ (p - 1) + n - k = d + n
      BY <1>1, <1>2, <2>1
    <3>2. d % n = d
      BY <1>1, <1>4, ModSmall
    <3>3. (d + n) % n = IF (d % n) + n < n THEN (d % n) + n ELSE (d % n) + n - n
      <4>1. n \in 0 .. n
        BY <1>1
      <4> QED BY <1>1, <3>1, <4>1, ModPlus
    <3> DEFINE m == (d + n) % n
               r == d % n
    <3>4. m = IF r + n < n THEN r + n ELSE r + n - n
      BY <3>3
    <3>5. r = d
      BY <3>2
    <3> HIDE DEF m, r
    <3>6. m = d
      BY <1>1, <3>1, <3>4, <3>5
    <3>7. (d + n) % n = d
      BY <3>6 DEF m
    <3> QED BY <3>1, <3>7
  <2>2. CASE ~(k < p)
    <3>1. (p - 1) + n - k = d
      BY <1>1, <1>2, <2>2
    <3> QED BY <1>1, <1>4, <3>1, ModSmall
  <2> QED BY <2>1, <2>2
<1> QED BY <1>4, <1>5, <1>6, <1>7 DEF n, k, d

(* The entry the loop returns is the first from the cursor on that qualifies. *)
Open(p) == ads[p].until > time
FirstShowable(src, p) ==
  /\ p \in 1 .. Len(ads) /\ Pick!Showable(p, src)
  /\ \A o \in 1 .. Len(ads) : Ahead(cursor, o) < Ahead(cursor, p) => ~ Pick!Showable(o, src)
FirstOpen(p) ==
  /\ p \in 1 .. Len(ads) /\ Open(p)
  /\ \A o \in 1 .. Len(ads) : Ahead(cursor, o) < Ahead(cursor, p) => ~ Open(o)

(* The state of the loop after i attempts. *)
Found(src, it) ==
  /\ FirstShowable(src, it.found)
  /\ it.cursor = (cursor + Ahead(cursor, it.found) + 1) % Len(ads)
NotFound(src, it, i) ==
  /\ it.cursor % Len(ads) = (cursor + i) % Len(ads)
  /\ i # 0 => it.cursor = (cursor + i) % Len(ads)
  /\ \A o \in 1 .. Len(ads) : Ahead(cursor, o) < i => ~ Pick!Showable(o, src)
  /\ it.self = 0 => \A o \in 1 .. Len(ads) : Ahead(cursor, o) < i => ~ Open(o)
  /\ it.self # 0 => FirstOpen(it.self)
Searched(src, it, i) == IF it.found = 0 THEN NotFound(src, it, i) ELSE Found(src, it)

(* An attempt searches one more entry. *)
LEMMA AttemptSearches ==
  ASSUME Len(ads) \in Nat \ {0}, cursor \in Nat, NEW src, NEW i \in 1 .. Len(ads),
         NEW last \in LoopStates, Searched(src, last, i - 1)
  PROVE  Searched(src, Pick!Attempt(src, last), i)
<1> DEFINE n == Len(ads)
           next == Pick!Attempt(src, last)
           pos == (last.cursor % n) + 1
<1>1. CASE last.found # 0
  <2>1. next = last
    BY <1>1 DEF Pick!Attempt
  <2> QED BY <1>1, <2>1 DEF Searched
<1>2. CASE last.found = 0
  <2>1. /\ last.cursor % n = (cursor + (i - 1)) % n
        /\ \A o \in 1 .. n : Ahead(cursor, o) < i - 1 => ~ Pick!Showable(o, src)
        /\ last.self = 0 => \A o \in 1 .. n : Ahead(cursor, o) < i - 1 => ~ Open(o)
        /\ last.self # 0 => FirstOpen(last.self)
    BY <1>2 DEF Searched, NotFound
  <2>2. /\ next.found = IF Pick!Showable(pos, src) THEN pos ELSE 0
        /\ next.self = IF Open(pos) /\ Pick!SiteAt(pos) = src /\ last.self = 0
                         THEN pos ELSE last.self
        /\ next.cursor = (last.cursor + 1) % n
    <3>1. next = [found |-> IF Open(pos) /\ Pick!SiteAt(pos) # src THEN pos ELSE 0,
                  self |-> IF Open(pos) /\ Pick!SiteAt(pos) = src /\ last.self = 0
                             THEN pos ELSE last.self,
                  cursor |-> (last.cursor + 1) % n]
      BY <1>2 DEF Pick!Attempt, Open
    <3> HIDE DEF next, pos, n
    <3> QED BY <3>1 DEF Pick!Showable, Open
  <2>3. n \in Nat \ {0} /\ i \in 1 .. n /\ last.cursor \in Nat
    BY DEF LoopStates
  <2> HIDE DEF n, next
  <2>4. (last.cursor + 1) % n = (cursor + i) % n
    <3> DEFINE b == cursor + (i - 1)
    <3>1. b \in Nat /\ b + 1 = cursor + i
      BY <2>3
    <3> HIDE DEF b
    <3>2. (b + 1) % n = IF b % n = n - 1 THEN 0 ELSE (b % n) + 1
      BY <2>3, <3>1, ModNext
    <3>3. (last.cursor + 1) % n =
            IF last.cursor % n = n - 1 THEN 0 ELSE (last.cursor % n) + 1
      BY <2>3, ModNext
    <3>4. last.cursor % n = b % n
      BY <2>1 DEF b
    <3> QED BY <3>1, <3>2, <3>3, <3>4
  <2>5. next.cursor % n = next.cursor
    <3>1. next.cursor \in 0 .. n - 1
      BY <2>2, <2>3
    <3> QED BY <2>3, <3>1, ModSmall
  <2>6. pos \in 1 .. n /\ Ahead(cursor, pos) = i - 1
    <3>1. pos \in 1 .. n /\ i - 1 \in 0 .. n - 1 /\ ((cursor + (i - 1)) % n) + 1 = pos
      BY <2>1, <2>3
    <3> HIDE DEF pos
    <3> QED BY <2>3, <3>1, AheadIsDistance DEF n
  <2>7. \A o \in 1 .. n : /\ Ahead(cursor, o) \in Nat
                          /\ Ahead(cursor, o) = i - 1 => o = pos
    <3> SUFFICES ASSUME NEW o \in 1 .. n
                 PROVE  Ahead(cursor, o) \in Nat /\ (Ahead(cursor, o) = i - 1 => o = pos)
      OBVIOUS
    <3>1. Ahead(cursor, o) \in 0 .. n - 1 /\ ((cursor + Ahead(cursor, o)) % n) + 1 = o
      BY <2>3, AheadIsDistance DEF n
    <3>2. ASSUME Ahead(cursor, o) = i - 1 PROVE o = pos
      <4>1. ((cursor + (i - 1)) % n) + 1 = o
        BY <3>1, <3>2
      <4> QED BY <2>1, <4>1
    <3> DEFINE d == Ahead(cursor, o)
    <3>3. d \in 0 .. n - 1
      BY <3>1
    <3> HIDE DEF d
    <3>4. d \in Nat
      BY <2>3, <3>3
    <3> QED BY <3>2, <3>4 DEF d
  <2> HIDE DEF pos
  <2>8. \A o \in 1 .. n : Ahead(cursor, o) < i => Ahead(cursor, o) < i - 1 \/ o = pos
    <3> SUFFICES ASSUME NEW o \in 1 .. n
                 PROVE  Ahead(cursor, o) < i => Ahead(cursor, o) < i - 1 \/ o = pos
      OBVIOUS
    <3> DEFINE d == Ahead(cursor, o)
    <3>1. d \in Nat /\ (d = i - 1 => o = pos)
      BY <2>7
    <3>2. i \in Nat
      BY <2>3
    <3> HIDE DEF d
    <3>3. d < i => d < i - 1 \/ d = i - 1
      BY <3>1, <3>2
    <3> QED BY <3>1, <3>3 DEF d
  <2>9. CASE Pick!Showable(pos, src)
    <3>1. next.found = pos /\ pos # 0
      BY <2>2, <2>6, <2>9
    <3>2. FirstShowable(src, pos)
      BY <2>1, <2>6, <2>9 DEF FirstShowable, n
    <3>3. (cursor + Ahead(cursor, pos)) + 1 = cursor + i
      BY <2>3, <2>6
    <3> QED BY <2>2, <2>4, <3>1, <3>2, <3>3 DEF Searched, Found, n, next
  <2>10. CASE ~ Pick!Showable(pos, src)
    <3>1. next.found = 0
      BY <2>2, <2>10
    <3>2. \A o \in 1 .. n : Ahead(cursor, o) < i => ~ Pick!Showable(o, src)
      BY <2>1, <2>8, <2>10
    <3>3. CASE last.self # 0
      BY <2>1, <2>2, <2>4, <2>5, <3>1, <3>2, <3>3 DEF Searched, NotFound, n, next
    <3>4. CASE last.self = 0 /\ Open(pos)
      <4>1. next.self = pos /\ pos # 0
        BY <2>2, <2>6, <2>10, <3>4 DEF Pick!Showable, Open
      <4>2. FirstOpen(pos)
        BY <2>1, <2>6, <3>4 DEF FirstOpen, n
      <4> QED BY <2>2, <2>4, <2>5, <3>1, <3>2, <4>1, <4>2 DEF Searched, NotFound, n, next
    <3>5. CASE last.self = 0 /\ ~ Open(pos)
      <4>1. next.self = 0
        BY <2>2, <3>5
      <4>2. \A o \in 1 .. n : Ahead(cursor, o) < i => ~ Open(o)
        BY <2>1, <2>8, <3>5
      <4> QED BY <2>2, <2>4, <2>5, <3>1, <3>2, <4>1, <4>2 DEF Searched, NotFound, n, next
    <3> QED BY <3>3, <3>4, <3>5
  <2> QED BY <2>9, <2>10
<1> QED BY <1>1, <1>2

(* So the loop searches all of them, unless it finds one. *)
LEMMA LoopSearches ==
  ASSUME Len(ads) \in Nat \ {0}, cursor \in Nat, NEW src
  PROVE  Searched(src, Pick!Attempts(src), Len(ads))
<1> DEFINE n == Len(ads)
           loop == Loop(src)
           T == {i \in 0 .. n : Searched(src, loop[i], i)}
<1>1. /\ n \in Nat \ {0}
      /\ Pick!Attempts(src) = loop[n] /\ loop[0] = LoopStart
      /\ \A i \in 1 .. n : loop[i] = Pick!Attempt(src, loop[i - 1])
      /\ \A i \in 0 .. n : loop[i] \in LoopStates
  BY LoopRuns
<1> HIDE DEF loop
<1>2. 0 \in T /\ T \in SUBSET (0 .. n)
  <2>1. \A o \in 1 .. n : ~(Ahead(cursor, o) < 0)
    <3> SUFFICES ASSUME NEW o \in 1 .. n PROVE ~(Ahead(cursor, o) < 0)
      OBVIOUS
    <3>1. Ahead(cursor, o) \in 0 .. n - 1
      BY <1>1, AheadIsDistance
    <3> HIDE DEF n
    <3> QED BY <1>1, <3>1
  <2>2. NotFound(src, LoopStart, 0)
    BY <2>1 DEF NotFound, LoopStart
  <2>3. Searched(src, loop[0], 0)
    BY <1>1, <2>2 DEF Searched, LoopStart
  <2> HIDE DEF n
  <2> QED BY <1>1, <2>3
<1>3. ASSUME NEW i \in 1 .. n, i - 1 \in T PROVE i \in T
  <2>1. loop[i - 1] \in LoopStates /\ Searched(src, loop[i - 1], i - 1)
    BY <1>1, <1>3
  <2>2. Searched(src, loop[i], i)
    BY <1>1, <2>1, AttemptSearches
  <2> QED BY <2>2
<1>4. T = 0 .. n
  <2> HIDE DEF T, n
  <2> QED BY <1>1, <1>2, <1>3, IntervalInduction
<1>5. n \in T
  <2> HIDE DEF T, n
  <2> QED BY <1>1, <1>4
<1> QED BY <1>1, <1>5

(* NextAd counts with the same Cardinality. *)
LEMMA SameCardinality == \A S : Pick!Cardinality(S) = Cardinality(S)
BY DEF Pick!Cardinality, Cardinality

(* The rotation NextAd sees in the array is the one the entries count up
   to. *)
LEMMA ArrayCounted == ads \in Seq(Pick!Entries) => Pick!AsRotation = RotationOf(ads)
<1> SUFFICES ASSUME ads \in Seq(Pick!Entries) PROVE Pick!AsRotation = RotationOf(ads)
  OBVIOUS
<1>1. DOMAIN ads = 1 .. Len(ads)
  OBVIOUS
<1> QED BY <1>1, SameCardinality DEF Pick!AsRotation, RotationOf

(* The slots as positions of the array: where they are, how far the cursor is *)
(* before them, and which of them may be shown to whom.                      *)
Matches(src, rot, at) ==
  /\ \A slot \in Pick!Slots(rot) : \E i \in 1 .. Len(ads) : at[i] = slot
  /\ \A i \in 1 .. Len(ads) :
       /\ at[i] \in Pick!Slots(rot) /\ at[i][1] = ads[i].ad
       /\ Len(ads) # 0 => Pick!Distance(rot, cursor, at[i]) = Ahead(cursor, i)
       /\ at[i] \in Pick!Unexpired(rot, Pick!Deadlines, time) <=> Open(i)
       /\ at[i] \in Pick!Foreign(rot, Pick!Deadlines, time, src) <=> Pick!Showable(i, src)

(* An array that is a rotation in order matches the slots of that
   rotation. *)
LEMMA SlotsArePositions ==
  ASSUME LapTypes, OneDeadline(ads), NEW src, NEW rot \in Pick!Rotations, NEW at,
         InOrder(ads, rot, at)
  PROVE  Matches(src, rot, at) /\ Pick!Size(rot) = Len(ads) /\ Pick!AsRotation = rot
<1> DEFINE n == Len(ads)
<1>1. /\ n \in Nat /\ DOMAIN ads = 1 .. n /\ cursor \in Nat /\ time \in Nat
      /\ \A i \in 1 .. n : ads[i] \in Pick!Entries
  BY DEF LapTypes
<1>2. /\ Cardinality(Pick!Slots(rot)) = n
      /\ \A i \in 1 .. n : Cardinality({s \in Pick!Slots(rot) : Pick!Precedes(s, at[i])}) = i - 1
      /\ RotationOf(ads) = rot
  BY SlotsCounted DEF LapTypes
<1>3. Pick!Size(rot) = n /\ Pick!AsRotation = rot
  BY <1>2, SameCardinality, ArrayCounted DEF Pick!Size, LapTypes
<1>4. ASSUME NEW i \in 1 .. n
      PROVE  /\ at[i] \in Pick!Slots(rot) /\ at[i][1] = ads[i].ad
             /\ n # 0 => Pick!Distance(rot, cursor, at[i]) = Ahead(cursor, i)
             /\ at[i] \in Pick!Unexpired(rot, Pick!Deadlines, time) <=> Open(i)
             /\ at[i] \in Pick!Foreign(rot, Pick!Deadlines, time, src) <=> Pick!Showable(i, src)
  <2>1. at[i] \in Pick!Slots(rot) /\ at[i][1] = ads[i].ad
    BY DEF InOrder
  <2>2. Pick!Distance(rot, cursor, at[i]) = Ahead(cursor, i)
    <3>1. Pick!Index(rot, at[i]) = i - 1
      BY <1>2, SameCardinality DEF Pick!Index
    <3>2. Pick!Distance(rot, cursor, at[i]) = ((i - 1) + n - (cursor % n)) % n
      BY <1>3, <3>1 DEF Pick!Distance
    <3>3. n \in Nat \ {0}
      <4> HIDE DEF n
      <4> QED BY <1>1
    <3> QED BY <1>1, <3>2, <3>3, AheadIsDistance
  <2>3. Pick!Deadlines[at[i][1]] = ads[i].until
    <3> DEFINE a == ads[i].ad
               first == CHOOSE j \in DOMAIN ads : ads[j].ad = a
    <3>1. a \in Pick!Ads
      BY <1>1 DEF Pick!Entries
    <3>2. first \in 1 .. n /\ ads[first].ad = a
      BY <1>1
    <3>3. Pick!Deadlines[a] = ads[first].until
      <4>1. \E j \in DOMAIN ads : ads[j].ad = a
        BY <1>1
      <4> QED BY <3>1, <4>1 DEF Pick!Deadlines
    <3>4. ads[first].until = ads[i].until
      <4> HIDE DEF first
      <4> QED BY <3>2 DEF OneDeadline
    <3> QED BY <2>1, <3>3, <3>4
  <2>4. at[i] \in Pick!Unexpired(rot, Pick!Deadlines, time) <=> Open(i)
    BY <2>1, <2>3 DEF Pick!Unexpired, Open
  <2>5. at[i] \in Pick!Foreign(rot, Pick!Deadlines, time, src) <=> Pick!Showable(i, src)
    BY <2>1, <2>4 DEF Pick!Foreign, Pick!Showable, Pick!SiteAt, Open
  <2> QED BY <2>1, <2>2, <2>4, <2>5
<1>5. \A slot \in Pick!Slots(rot) : \E i \in 1 .. n : at[i] = slot
  BY DEF InOrder
<1> QED BY <1>3, <1>4, <1>5 DEF Matches

(* What the loop returns and where it leaves the cursor.  *)
Agrees(src, rot) ==
  LET chosen == Pick!Chosen(rot, Pick!Deadlines, time, src, cursor)
  IN /\ IF Pick!Result(src) = 0 THEN chosen = {}
        ELSE \E s \in chosen : s[1] = ads[Pick!Result(src)].ad
     /\ Pick!Attempts(src).cursor = Pick!CursorAfter(rot, Pick!Deadlines, time, src, cursor)

(* The loop over an empty array agrees with Rotation. *)
LEMMA EmptyAgrees ==
  ASSUME Len(ads) = 0, cursor \in Nat, NEW src, NEW rot, NEW at,
         Matches(src, rot, at), Pick!Size(rot) = 0
  PROVE  Agrees(src, rot)
<1>1. Pick!Attempts(src) = LoopStart
  BY LoopRuns
<1>2. Pick!Slots(rot) = {}
  BY DEF Matches
<1>3. Pick!Chosen(rot, Pick!Deadlines, time, src, cursor) = {}
  BY <1>2 DEF Pick!Chosen, Pick!Eligible, Pick!Foreign, Pick!Unexpired
<1>4. Pick!CursorAfter(rot, Pick!Deadlines, time, src, cursor) = cursor
  BY DEF Pick!CursorAfter
<1> QED BY <1>1, <1>3, <1>4 DEF Agrees, Pick!Result, LoopStart

(* So does the loop over any other, from any cursor. *)
LEMMA LoopAgrees ==
  ASSUME Len(ads) \in Nat \ {0}, cursor \in Nat, NEW src, NEW rot, NEW at,
         Matches(src, rot, at), Pick!Size(rot) = Len(ads)
  PROVE  Agrees(src, rot)
<1> DEFINE n == Len(ads)
           it == Pick!Attempts(src)
           foreign == Pick!Foreign(rot, Pick!Deadlines, time, src)
           unexpired == Pick!Unexpired(rot, Pick!Deadlines, time)
           eligible == Pick!Eligible(rot, Pick!Deadlines, time, src)
           chosen == Pick!Chosen(rot, Pick!Deadlines, time, src, cursor)
           far(s) == Pick!Distance(rot, cursor, s)
<1>1. /\ foreign \subseteq Pick!Slots(rot) /\ unexpired \subseteq Pick!Slots(rot)
      /\ eligible = IF foreign # {} THEN foreign ELSE unexpired
      /\ chosen = {s \in eligible : \A o \in eligible : far(s) <= far(o)}
  BY DEF Pick!Foreign, Pick!Unexpired, Pick!Eligible, Pick!Chosen
<1>2. Pick!CursorAfter(rot, Pick!Deadlines, time, src, cursor) =
        IF foreign # {} THEN (cursor + 1 + far(CHOOSE s \in chosen : TRUE)) % n ELSE cursor % n
  BY DEF Pick!CursorAfter
<1>3. Searched(src, it, n)
  BY LoopSearches
<1>4. /\ \A slot \in Pick!Slots(rot) : \E i \in 1 .. n : at[i] = slot
      /\ \A i \in 1 .. n : /\ at[i][1] = ads[i].ad /\ far(at[i]) = Ahead(cursor, i)
                           /\ at[i] \in unexpired <=> Open(i)
                           /\ at[i] \in foreign <=> Pick!Showable(i, src)
  BY DEF Matches
<1>5. /\ \A o \in 1 .. n : Ahead(cursor, o) \in Nat /\ Ahead(cursor, o) < n
      /\ \A o, p \in 1 .. n : Ahead(cursor, o) = Ahead(cursor, p) => o = p
  <2> SUFFICES ASSUME NEW o \in 1 .. n, NEW p \in 1 .. n
               PROVE  /\ Ahead(cursor, o) \in Nat /\ Ahead(cursor, o) < n
                      /\ Ahead(cursor, o) = Ahead(cursor, p) => o = p
    OBVIOUS
  <2>1. /\ Ahead(cursor, o) \in 0 .. n - 1
        /\ ((cursor + Ahead(cursor, o)) % n) + 1 = o /\ ((cursor + Ahead(cursor, p)) % n) + 1 = p
    BY AheadIsDistance
  <2>2. Ahead(cursor, o) = Ahead(cursor, p) => o = p
    BY <2>1
  <2> DEFINE d == Ahead(cursor, o)
  <2>3. n \in Nat /\ d \in 0 .. n - 1
    BY <2>1
  <2> HIDE DEF n, d
  <2>4. d \in Nat /\ d < n
    BY <2>3
  <2> QED BY <2>2, <2>4 DEF d
<1>6. n \in Nat \ {0}
  OBVIOUS
<1> HIDE DEF n, it, foreign, unexpired, eligible, chosen, far
(* The nearest of the positions that qualify is the one chosen. *)
<1>7. ASSUME NEW p \in 1 .. n, at[p] \in eligible,
             \A o \in 1 .. n : at[o] \in eligible => Ahead(cursor, p) <= Ahead(cursor, o)
      PROVE  chosen = {at[p]}
  <2>1. eligible \subseteq Pick!Slots(rot)
    BY <1>1
  <2>2. ASSUME NEW o \in eligible PROVE far(at[p]) <= far(o)
    BY <1>4, <1>7, <2>1
  <2>3. ASSUME NEW s \in chosen PROVE s = at[p]
    <3>1. s \in eligible /\ far(s) <= far(at[p])
      BY <1>1, <1>7
    <3>2. PICK o \in 1 .. n : at[o] = s
      BY <1>4, <2>1, <3>1
    <3>3. Ahead(cursor, o) = Ahead(cursor, p)
      BY <1>4, <1>5, <1>7, <3>1, <3>2
    <3> QED BY <1>5, <3>2, <3>3
  <2>4. at[p] \in chosen
    BY <1>1, <1>7, <2>2
  <2> QED BY <2>3, <2>4
<1>8. CASE it.found # 0
  <2> DEFINE p == it.found
  <2>1. /\ p \in 1 .. n /\ Pick!Showable(p, src)
        /\ \A o \in 1 .. n : Ahead(cursor, o) < Ahead(cursor, p) => ~ Pick!Showable(o, src)
        /\ it.cursor = (cursor + Ahead(cursor, p) + 1) % n
    BY <1>3, <1>8 DEF Searched, Found, FirstShowable, n
  <2>2. Pick!Result(src) = p /\ p # 0
    BY <1>8 DEF Pick!Result, it
  <2> HIDE DEF p
  <2>3. eligible = foreign /\ at[p] \in eligible /\ foreign # {}
    BY <1>1, <1>4, <2>1
  <2>4. \A o \in 1 .. n : at[o] \in eligible => Ahead(cursor, p) <= Ahead(cursor, o)
    BY <1>4, <1>5, <2>1, <2>3
  <2>5. chosen = {at[p]}
    BY <1>7, <2>1, <2>3, <2>4
  <2>6. (CHOOSE s \in chosen : TRUE) = at[p]
    BY <2>5
  <2>7. cursor + 1 + far(at[p]) = cursor + Ahead(cursor, p) + 1
    BY <1>4, <1>5, <2>1
  <2>8. it.cursor = Pick!CursorAfter(rot, Pick!Deadlines, time, src, cursor)
    BY <1>2, <2>1, <2>3, <2>6, <2>7
  <2>9. \E s \in chosen : s[1] = ads[p].ad
    BY <1>4, <2>1, <2>5
  <2> QED BY <2>2, <2>8, <2>9 DEF Agrees, it, chosen
<1>9. CASE it.found = 0
  <2>1. /\ it.cursor = (cursor + n) % n
        /\ \A o \in 1 .. n : ~ Pick!Showable(o, src)
        /\ it.self = 0 => \A o \in 1 .. n : ~ Open(o)
        /\ it.self # 0 => FirstOpen(it.self)
    BY <1>3, <1>5, <1>6, <1>9 DEF Searched, NotFound, n
  <2>2. foreign = {} /\ eligible = unexpired
    BY <1>1, <1>4, <2>1
  <2>3. it.cursor = Pick!CursorAfter(rot, Pick!Deadlines, time, src, cursor)
    <3>1. n \in 0 .. n
      BY <1>6
    <3>2. (cursor + n) % n = IF (cursor % n) + n < n THEN (cursor % n) + n ELSE (cursor % n) + n - n
      BY <1>6, <3>1, ModPlus
    <3> DEFINE r == cursor % n
    <3>3. r \in Nat
      BY <1>6
    <3> HIDE DEF r
    <3>4. (IF r + n < n THEN r + n ELSE r + n - n) = r
      BY <1>6, <3>3
    <3> QED BY <1>2, <2>1, <2>2, <3>2, <3>4 DEF r
  <2>4. Pick!Result(src) = it.self
    BY <1>9 DEF Pick!Result, it
  <2>5. CASE it.self = 0
    <3>1. unexpired = {}
      BY <1>1, <1>4, <2>1, <2>5
    <3>2. chosen = {}
      BY <1>1, <2>2, <3>1
    <3> QED BY <2>3, <2>4, <2>5, <3>2 DEF Agrees, it, chosen
  <2>6. CASE it.self # 0
    <3> DEFINE p == it.self
    <3>1. /\ p \in 1 .. n /\ Open(p)
          /\ \A o \in 1 .. n : Ahead(cursor, o) < Ahead(cursor, p) => ~ Open(o)
      BY <2>1, <2>6 DEF FirstOpen, n
    <3> HIDE DEF p
    <3>2. at[p] \in eligible
      BY <1>4, <2>2, <3>1
    <3>3. \A o \in 1 .. n : at[o] \in eligible => Ahead(cursor, p) <= Ahead(cursor, o)
      BY <1>4, <1>5, <2>2, <3>1
    <3>4. chosen = {at[p]}
      BY <1>7, <3>1, <3>2, <3>3
    <3>5. \E s \in chosen : s[1] = ads[p].ad
      BY <1>4, <3>1, <3>4
    <3> QED BY <2>3, <2>4, <2>6, <3>5 DEF Agrees, it, chosen, p
  <2> QED BY <2>5, <2>6
<1> QED BY <1>8, <1>9

(* The array is empty at first, the rotation without copies. *)
LEMMA ArrayInvStarts == PartsInit => LapInv /\ ArrayInv
<1> SUFFICES ASSUME PartsInit PROVE LapInv /\ ArrayInv
  OBVIOUS
<1>1. FreshLap
  BY DEF PartsInit, Pick!Init, FreshLap
<1> DEFINE rot == [a \in Pick!Ads |-> 0]
           at == [i \in 1 .. 0 |-> 0]
<1>2. rot \in Pick!Rotations
  BY WeightsAssumption DEF Pick!Rotations
<1>3. Pick!Slots(rot) = {}
  <2> SUFFICES ASSUME NEW slot \in Pick!Ads \X (1 .. MaxCopies), slot[2] <= rot[slot[1]]
               PROVE  FALSE
    BY DEF Pick!Slots
  <2>1. slot[2] \in 1 .. MaxCopies /\ rot[slot[1]] = 0
    OBVIOUS
  <2> QED BY <2>1, WeightsAssumption
<1>4. ads = <<>> /\ Len(ads) = 0
  BY DEF PartsInit, Pick!Init
<1> HIDE DEF rot
<1>5. InOrder(ads, rot, at) /\ OneDeadline(ads)
  BY <1>3, <1>4 DEF InOrder, OneDeadline
<1> HIDE DEF at
<1> QED BY <1>1, <1>2, <1>5, FreshLapsHold DEF ArrayInv

(* In each state of the invariant the loop agrees with Rotation, whoever
   asks. *)
LEMMA LoopDecides == ASSUME LapTypes, ArrayInv, NEW src PROVE Agrees(src, Pick!AsRotation)
<1>0. PICK rot \in Pick!Rotations : \E at : InOrder(ads, rot, at)
  BY DEF ArrayInv
<1>1. PICK at : InOrder(ads, rot, at)
  BY <1>0
<1>2. Matches(src, rot, at) /\ Pick!Size(rot) = Len(ads) /\ Pick!AsRotation = rot
  BY <1>1, SlotsArePositions DEF ArrayInv
<1>3. Len(ads) \in Nat /\ cursor \in Nat
  BY DEF LapTypes
<1>4. CASE Len(ads) = 0
  BY <1>2, <1>3, <1>4, EmptyAgrees
<1>5. CASE Len(ads) # 0
  <2>1. Agrees(src, rot)
    BY <1>2, <1>3, <1>5, LoopAgrees
  <2> QED BY <1>2, <2>1
<1> QED BY <1>4, <1>5

(* The loop over the array picks the slot and leaves the cursor that Rotation *)
(* says, for arrays of every length, whatever was built and evicted before,  *)
(* also with the cursor beyond the end (rotationCache.ts:95-128).            *)
THEOREM LoopIsTheRotation == PartsSpec => []LoopMeetsRotation
<1>1. PartsInit => LapInv /\ ArrayInv
  BY ArrayInvStarts
<1>2. LapInv /\ ArrayInv => LoopMeetsRotation
  BY LoopDecides DEF LapInv, LoopMeetsRotation, Pick!LoopMeetsRotation, Agrees
<1>3. LapInv /\ ArrayInv /\ [PartsNext]_allVars => LapInv' /\ ArrayInv'
  BY LapInvKept, ArrayInvKept
<1> QED BY <1>1, <1>2, <1>3, PTL DEF PartsSpec

-----------------------------------------------------------------------------
(* NextAd: its steps are steps of a rotation *)

(* What the array says about the deadlines of its ads. *)
DeadlinesOf(t) ==
  [a \in Pick!Ads |-> IF \E i \in DOMAIN t : t[i].ad = a
                        THEN t[CHOOSE i \in DOMAIN t : t[i].ad = a].until
                        ELSE 0]

(* An ad that is in the array has one deadline there. *)
LEMMA DeadlinesFound ==
  ASSUME NEW t \in Seq(Pick!Entries), OneDeadline(t), NEW a \in Pick!Ads, RotationOf(t)[a] # 0
  PROVE  /\ \E i \in 1 .. Len(t) : t[i].ad = a
         /\ \A i \in 1 .. Len(t) : t[i].ad = a => DeadlinesOf(t)[a] = t[i].until
<1>1. DOMAIN t = 1 .. Len(t)
  OBVIOUS
<1>2. \E i \in 1 .. Len(t) : t[i].ad = a
  <2> SUFFICES ASSUME \A i \in 1 .. Len(t) : t[i].ad # a PROVE FALSE
    OBVIOUS
  <2>1. {i \in 1 .. Len(t) : t[i].ad = a} = {}
    OBVIOUS
  <2> QED BY <2>1, FS_EmptySet DEF RotationOf
<1> DEFINE first == CHOOSE i \in DOMAIN t : t[i].ad = a
<1>3. first \in 1 .. Len(t) /\ t[first].ad = a
  BY <1>1, <1>2
<1>4. DeadlinesOf(t)[a] = t[first].until
  BY <1>1, <1>2 DEF DeadlinesOf
<1> HIDE DEF first
<1> QED BY <1>2, <1>3, <1>4 DEF OneDeadline

(* The array of now and of the next state, as constant operators see it. *)
LEMMA ArrayRead ==
  /\ Pick!Deadlines = DeadlinesOf(ads) /\ Pick!Deadlines' = DeadlinesOf(ads')
  /\ ads \in Seq(Pick!Entries) => Pick!AsRotation = RotationOf(ads)
  /\ ads' \in Seq(Pick!Entries) => Pick!AsRotation' = RotationOf(ads')
<1>1. Pick!Deadlines = DeadlinesOf(ads) /\ Pick!Deadlines' = DeadlinesOf(ads')
  BY DEF Pick!Deadlines, DeadlinesOf, Pick!Ads
<1>2. ASSUME ads' \in Seq(Pick!Entries) PROVE Pick!AsRotation' = RotationOf(ads')
  <2>1. DOMAIN ads' = 1 .. Len(ads')
    BY <1>2
  <2> QED BY <2>1, SameCardinality DEF Pick!AsRotation, RotationOf, Pick!Ads
<1> QED BY <1>1, <1>2, ArrayCounted

(* What the steps do to the rotation that the array is, to the deadlines of  *)
(* the ads in it, and to the cursor: what RotationCache does when it serves, *)
(* evicts and swaps.                                                         *)
Serves(src) ==
  /\ UNCHANGED <<Pick!AsRotation, Pick!Deadlines>>
  /\ cursor' = Pick!CursorAfter(Pick!AsRotation, Pick!Deadlines, time, src, cursor)
Evicts(s) ==
  /\ Pick!AsRotation' = Pick!Without(Pick!AsRotation, {s})
  /\ \A a \in Pick!Ads : Pick!AsRotation'[a] # 0 => Pick!Deadlines'[a] = Pick!Deadlines[a]
  /\ UNCHANGED cursor
Swaps(weight, until, chosen) ==
  LET rot == Taken(weight, chosen) IN
  /\ Pick!AsRotation' = rot
  /\ \A a \in chosen : Pick!Deadlines'[a] = until[a]
  /\ cursor' = IF Pick!Size(rot) = 0 THEN 0 ELSE cursor % Pick!Size(rot)
RotationStep ==
  \/ \E src \in Sources : Serves(src)
  \/ \E s \in AdSites : Evicts(s)
  \/ \E weight \in [Pick!Ads -> Weights], until \in [Pick!Ads -> Pick!Time],
        chosen \in SUBSET Pick!Ads : Swaps(weight, until, chosen)

(* nextAd serves from the rotation. *)
LEMMA ServesRotation ==
  ASSUME LapTypes, ArrayInv, NEW src, Pick!NextAdFor(src) PROVE Serves(src)
<1>1. ads' = ads /\ cursor' = Pick!Attempts(src).cursor
  BY DEF Pick!NextAdFor
<1>2. Pick!AsRotation' = Pick!AsRotation /\ Pick!Deadlines' = Pick!Deadlines
  BY <1>1, ArrayRead DEF LapTypes
<1> QED BY <1>1, <1>2, LoopDecides DEF Serves, Agrees

(* The filter of invalidate evicts from the rotation. *)
LEMMA EvictsFromRotation ==
  ASSUME LapTypes, ArrayInv, NEW s, Pick!Evict(s) PROVE Evicts(s)
<1>0. PICK rot \in Pick!Rotations : \E at : InOrder(ads, rot, at)
  BY DEF ArrayInv
<1>1. PICK at : InOrder(ads, rot, at)
  BY <1>0
<1> DEFINE rest == Pick!Without(rot, {s})
<1>2. ads \in Seq(Pick!Entries) /\ OneDeadline(ads)
  BY DEF LapTypes, ArrayInv
<1>3. /\ ads' \in Seq(Pick!Entries) /\ OneDeadline(ads')
      /\ \A p \in 1 .. Len(ads') : \E i \in 1 .. Len(ads) : ads'[p] = ads[i]
      /\ rest \in Pick!Rotations /\ \E new : InOrder(ads', rest, new)
  BY <1>1, <1>2, EvictedArray
<1>4. RotationOf(ads) = rot /\ RotationOf(ads') = rest
  <2> HIDE DEF rest
  <2> QED BY <1>1, <1>2, <1>3, SlotsCounted
<1>5. Pick!AsRotation = rot /\ Pick!AsRotation' = rest
  BY <1>2, <1>3, <1>4, ArrayRead
<1>6. ASSUME NEW a \in Pick!Ads, rest[a] # 0 PROVE DeadlinesOf(ads')[a] = DeadlinesOf(ads)[a]
  <2>1. rot[a] # 0
    BY <1>6 DEF Pick!Without
  <2>2. PICK p \in 1 .. Len(ads') : ads'[p].ad = a /\ DeadlinesOf(ads')[a] = ads'[p].until
    BY <1>3, <1>4, <1>6, DeadlinesFound
  <2>3. PICK i \in 1 .. Len(ads) : ads'[p] = ads[i]
    BY <1>3
  <2>4. DeadlinesOf(ads)[a] = ads[i].until
    BY <1>2, <1>4, <2>1, <2>2, <2>3, DeadlinesFound
  <2> QED BY <2>2, <2>3, <2>4
<1>7. cursor' = cursor
  BY DEF Pick!Evict
<1> QED BY <1>5, <1>6, <1>7, ArrayRead DEF Evicts

(* The swap of a load swaps the rotation. *)
LEMMA SwapsRotation ==
  ASSUME LapTypes, NEW weight \in [Pick!Ads -> Weights], NEW until \in [Pick!Ads -> Pick!Time],
         NEW chosen \in SUBSET Pick!Ads, Pick!Reload(weight, until, chosen)
  PROVE  Swaps(weight, until, chosen)
<1> DEFINE rot == Taken(weight, chosen)
<1>1. ads' = Pick!Weighted(weight, until, chosen)
  BY DEF Pick!Reload
<1>2. /\ ads' \in Seq(Pick!Entries) /\ OneDeadline(ads')
      /\ \A p \in 1 .. Len(ads') : ads'[p].until = until[ads'[p].ad]
      /\ \E at : InOrder(ads', rot, at)
  BY <1>1, LoadedInOrder
<1>3. rot \in Pick!Rotations /\ \A a \in chosen : rot[a] # 0
  <2>1. \A a \in Pick!Ads : Pick!Copies(weight[a]) # 0
    BY CopiesInRange
  <2> QED BY <2>1, CopiesInRange DEF Taken
<1>4. RotationOf(ads') = rot /\ Cardinality(Pick!Slots(rot)) = Len(ads')
  <2> HIDE DEF rot
  <2> QED BY <1>2, <1>3, SlotsCounted
<1>5. Pick!AsRotation' = rot /\ Pick!Size(rot) = Len(ads')
  BY <1>2, <1>4, ArrayRead, SameCardinality DEF Pick!Size
<1>6. ASSUME NEW a \in chosen PROVE Pick!Deadlines'[a] = until[a]
  <2>1. PICK p \in 1 .. Len(ads') : ads'[p].ad = a /\ DeadlinesOf(ads')[a] = ads'[p].until
    BY <1>2, <1>3, <1>4, DeadlinesFound
  <2> QED BY <1>2, <2>1, ArrayRead
<1>7. cursor' = IF Len(ads') = 0 THEN 0 ELSE cursor % Len(ads')
  <2>1. ads' = <<>> <=> Len(ads') = 0
    BY <1>2
  <2> QED BY <2>1 DEF Pick!Reload
<1> QED BY <1>5, <1>6, <1>7 DEF Swaps

(* The array of entries, as the code builds, filters and walks it, implements *)
(* the rotation as data on which RotationCache is written: a request moves   *)
(* the cursor and nothing else, an eviction takes the ads of one site out and *)
(* keeps the other deadlines and the cursor, a load swaps in the copies and  *)
(* deadlines it has read and wraps the cursor; nothing else happens to them  *)
(* (rotationCache.ts:71, 95-128, 148-218).                                   *)
THEOREM ArrayIsARotation ==
  PartsSpec => [][RotationStep]_<<Pick!AsRotation, Pick!Deadlines, cursor>>
<1>1. ASSUME LapInv, ArrayInv, [PartsNext]_allVars
      PROVE  [RotationStep]_<<Pick!AsRotation, Pick!Deadlines, cursor>>
  <2>0. LapTypes
    BY <1>1 DEF LapInv
  <2>1. CASE Pick!Next
    <3>1. ASSUME NEW src \in Sources, Pick!NextAdFor(src) PROVE RotationStep
      BY <1>1, <2>0, <3>1, ServesRotation DEF RotationStep
    <3>2. ASSUME NEW s \in AdSites, Pick!Evict(s) PROVE RotationStep
      BY <1>1, <2>0, <3>2, EvictsFromRotation DEF RotationStep
    <3>3. ASSUME NEW weight \in [Pick!Ads -> Weights], NEW until \in [Pick!Ads -> Pick!Time],
                 NEW chosen \in SUBSET Pick!Ads, Pick!Reload(weight, until, chosen)
          PROVE  RotationStep
      BY <2>0, <3>3, SwapsRotation DEF RotationStep
    <3>4. ASSUME Pick!Tick PROVE UNCHANGED <<ads, cursor>>
      BY <3>4 DEF Pick!Tick
    <3>5. UNCHANGED <<ads, cursor>> => UNCHANGED <<Pick!AsRotation, Pick!Deadlines, cursor>>
      BY <2>0, ArrayRead DEF LapTypes
    <3> QED BY <2>1, <3>1, <3>2, <3>3, <3>4, <3>5 DEF Pick!Next
  <2>2. CASE UNCHANGED adVars
    BY <2>0, <2>2, ArrayRead DEF LapTypes, adVars
  <2> QED BY <1>1, <2>1, <2>2 DEF PartsNext, allVars
<1> QED BY <1>1, ArrayInvStarts, LapInvKept, ArrayInvKept, PTL DEF PartsSpec
=============================================================================
