------------------------- MODULE EntitlementsProofs --------------------------
(* Theorems about Entitlements, for every value of its constants. *)
EXTENDS Entitlements, Integers, FiniteSetTheorems, TLAPS

-----------------------------------------------------------------------------
(* The rules of Access *)

(* The descending pairs of natural numbers: no chain of them is infinite. *)
Descending == {pair \in Nat \X Nat : pair[1] < pair[2]}

(* The library's well-foundedness of < on Nat, for a relation as a set. *)
LEMMA DescendingWF == IsWellFoundedOn(Descending, Nat)
BY NatLessThanWellFounded, Zenon DEF OpToRel, Descending

(* A set of natural numbers that is not empty has a least element. *)
LEMMA LeastNatural ==
  ASSUME NEW T \in SUBSET Nat, T # {}
  PROVE  \E x \in T : \A y \in T : x =< y
<1>1. PICK x \in T : \A y \in T : ~(<<y, x>> \in Descending)
  BY DescendingWF, WFMin
<1>2. ASSUME NEW y \in T PROVE x =< y
  <2>1. x \in Nat /\ y \in Nat
    OBVIOUS
  <2>2. ~(y < x)
    BY <1>1, <2>1 DEF Descending
  <2> QED BY <2>1, <2>2
<1> QED BY <1>2

(* Bounded as they are, deadlines have a latest one: the least of what is
   left of the horizon has it. *)
LEMMA LatestIsADeadline ==
  ASSUME NEW horizon \in Nat, NEW D \in SUBSET (0 .. horizon), D # {}
  PROVE  Latest(D) \in D
<1> DEFINE left == {horizon - d : d \in D}
<1>1. left \in SUBSET Nat /\ left # {}
  <2>1. \A d \in D : horizon - d \in Nat
    OBVIOUS
  <2> QED BY <2>1
<1>2. PICK x \in left : \A y \in left : x =< y
  BY <1>1, LeastNatural
<1>3. PICK d \in D : x = horizon - d
  BY <1>2
<1>4. ASSUME NEW e \in D PROVE e =< d
  <2>1. horizon - d =< horizon - e
    BY <1>2, <1>3
  <2>2. d \in 0 .. horizon /\ e \in 0 .. horizon
    OBVIOUS
  <2> QED BY <2>1, <2>2
<1> QED BY <1>4 DEF Latest

(* A synchronised row is a row. *)
LEMMA SynchronisedType ==
  ASSUME NEW horizon \in Nat, NEW row \in SiteRows(0 .. horizon),
         NEW D \in SUBSET (0 .. horizon), NEW t \in 0 .. horizon
  PROVE  Synchronised(row, D, t) \in SiteRows(0 .. horizon)
<1>1. CASE D = {}
  BY <1>1 DEF Synchronised, SiteRows, NetworkStatuses
<1>2. CASE D # {}
  <2>1. Latest(D) \in 0 .. horizon
    BY <1>2, LatestIsADeadline
  <2> QED BY <1>2, <2>1 DEF Synchronised, SiteRows, NetworkStatuses
<1> QED BY <1>1, <1>2

-----------------------------------------------------------------------------
(* Type correctness *)

(* The clock's instants are among those of the deadlines. *)
LEMMA ClockIsTime == Clock \subseteq Time /\ 0 \in Time /\ Clock \subseteq Nat
BY TimeAssumption DEF Clock, Time

(* A new site, a new license and an idle slot have the types of the rows and
   of the requests. *)
LEMMA InitialTypes ==
  /\ NewSite \in SiteRows(Time)
  /\ NoLicense \in LicenseRows(Time)
  /\ Idle \in RequestStates
<1>1. NewSite \in SiteRows(Time) /\ NoLicense \in LicenseRows(Time)
  BY ClockIsTime DEF NewSite, NoLicense, SiteRows, LicenseRows, NetworkStatuses, LicenseStatuses
<1>2. AnySite \in Sites /\ AnyLicense \in Licenses
  BY SetsAssumption DEF AnySite, AnyLicense
<1> QED BY <1>1, <1>2, ClockIsTime DEF Idle, RequestStates, Steps

(* Writing a row, finishing a request and moving it on keep the types. *)
LEMMA StepTypes ==
  ASSUME TypeOK
  PROVE  /\ \A s \in Sites, row \in SiteRows(Time) :
              WriteSite(s, row) => site' \in [Sites -> SiteRows(Time)]
         /\ \A r \in Requests : Finish(r) => req' \in [Requests -> RequestStates]
         /\ \A r \in Requests, step \in Steps :
              Goto(r, step) => req' \in [Requests -> RequestStates]
         /\ \A row \in SiteRows(Time) : Expired(row) \in SiteRows(Time)
<1>1. \A r \in Requests : Finish(r) => req' \in [Requests -> RequestStates]
  BY InitialTypes DEF TypeOK, Finish
<1>2. \A r \in Requests, step \in Steps : Goto(r, step) => req' \in [Requests -> RequestStates]
  BY DEF TypeOK, Goto, RequestStates
<1>3. \A row \in SiteRows(Time) : Expired(row) \in SiteRows(Time)
  BY DEF Expired, SiteRows, NetworkStatuses
<1>4. \A s \in Sites, row \in SiteRows(Time) :
        WriteSite(s, row) => site' \in [Sites -> SiteRows(Time)]
  BY DEF TypeOK, WriteSite
<1> QED BY <1>1, <1>2, <1>3, <1>4

(* What the requests write into a row leaves it a row. *)
LEMMA WrittenRows ==
  ASSUME NEW row \in SiteRows(Time), NEW net \in NetworkStatuses, NEW until \in Time
  PROVE  /\ [row EXCEPT !.net = net, !.until = until] \in SiteRows(Time)
         /\ [row EXCEPT !.net = net, !.trialUsed = TRUE, !.until = until] \in SiteRows(Time)
         /\ [row EXCEPT !.optedIn = TRUE] \in SiteRows(Time)
         /\ [row EXCEPT !.optedIn = FALSE] \in SiteRows(Time)
         /\ [row EXCEPT !.net = net, !.optedIn = FALSE] \in SiteRows(Time)
         /\ [row EXCEPT !.net = net, !.optedIn = FALSE, !.until = until] \in SiteRows(Time)
BY DEF SiteRows

(* The statuses that requests give a site. *)
LEMMA GivenStatuses ==
  /\ "TRIAL" \in NetworkStatuses /\ "ACTIVE" \in NetworkStatuses
  /\ "SUSPENDED" \in NetworkStatuses /\ "REVOKED" \in NetworkStatuses
BY DEF NetworkStatuses, Sanctions

(* The slot of a request refers to a site, to a row and to instants. *)
LEMMA SlotTypes ==
  ASSUME TypeOK, NEW r \in Requests
  PROVE  /\ req[r].site \in Sites /\ req[r].license \in Licenses
         /\ site[req[r].site] \in SiteRows(Time) /\ req[r].row \in SiteRows(Time)
         /\ req[r].at \in Time /\ req[r].until \in Time
BY DEF TypeOK, RequestStates

(* The steps of requests that read a site's row. *)
LEMMA RowStepsKeepTypes ==
  ASSUME TypeOK, NEW r \in Requests,
         \/ \E op \in Ops, s \in Sites : Authenticate(r, op, s)
         \/ MarkExpired(r) \/ Validate(r) \/ AnswerTrial(r)
         \/ \E until \in Time : AllocateTrial(r, until)
         \/ TrialConflict(r) \/ AnswerConflict(r) \/ OptIn(r)
         \/ \E until \in Time : ExtendTrial(r, until)
         \/ \E until \in Time : GrantPro(r, until)
  PROVE  TypeOK'
<1> USE DEF TypeOK
<1>1. CASE \E op \in Ops, s \in Sites : Authenticate(r, op, s)
  <2>1. PICK op \in Ops, s \in Sites : Authenticate(r, op, s)
    BY <1>1
  <2>2. now \in Time /\ site[s] \in SiteRows(Time)
    BY ClockIsTime
  <2>3. [Idle EXCEPT !.op = op, !.site = s] \in RequestStates
    BY InitialTypes DEF RequestStates
  <2>4. [Idle EXCEPT !.op = op, !.site = s, !.row = site[s], !.at = now] \in RequestStates
    BY <2>2, InitialTypes DEF RequestStates
  <2> QED BY <2>1, <2>3, <2>4 DEF Authenticate
<1>2. CASE MarkExpired(r)
  <2>1. Expired(site[req[r].site]) \in SiteRows(Time)
    BY StepTypes, SlotTypes
  <2>2. site' \in [Sites -> SiteRows(Time)]
    BY <1>2, <2>1, StepTypes, SlotTypes DEF MarkExpired
  <2>3. req' \in [Requests -> RequestStates]
    BY <1>2, <2>1 DEF MarkExpired, RequestStates
  <2> QED BY <1>2, <2>2, <2>3 DEF MarkExpired
<1>3. CASE Validate(r) \/ AnswerTrial(r) \/ AnswerConflict(r)
  BY <1>3, StepTypes DEF Validate, AnswerTrial, AnswerConflict
<1>4. CASE TrialConflict(r)
  BY <1>4, StepTypes DEF TrialConflict, Steps
<1>5. CASE \E until \in Time : AllocateTrial(r, until)
  <2>1. PICK until \in Time : AllocateTrial(r, until)
    BY <1>5
  <2>2. site' \in [Sites -> SiteRows(Time)]
    BY <2>1, StepTypes, SlotTypes, WrittenRows, GivenStatuses DEF AllocateTrial
  <2>3. trials' \in [Sites -> Nat]
    <3>1. trials' = [trials EXCEPT ![req[r].site] = @ + 1]
      BY <2>1 DEF AllocateTrial
    <3> QED BY <3>1, SlotTypes
  <2> QED BY <2>1, <2>2, <2>3, StepTypes DEF AllocateTrial
<1>6. CASE OptIn(r)
  <2>1. site' \in [Sites -> SiteRows(Time)]
    BY <1>6, StepTypes, SlotTypes, WrittenRows, GivenStatuses, ClockIsTime DEF OptIn
  <2> QED BY <1>6, <2>1, StepTypes DEF OptIn
<1>7. CASE \E until \in Time : ExtendTrial(r, until)
  <2>1. PICK until \in Time : ExtendTrial(r, until)
    BY <1>7
  <2>2. site' \in [Sites -> SiteRows(Time)]
    <3>1. (IF req[r].row.net = "ACTIVE" THEN "ACTIVE" ELSE "TRIAL") \in NetworkStatuses
      BY GivenStatuses
    <3> QED BY <2>1, <3>1, StepTypes, SlotTypes, WrittenRows DEF ExtendTrial
  <2> QED BY <2>1, <2>2, StepTypes DEF ExtendTrial
<1>8. CASE \E until \in Time : GrantPro(r, until)
  <2>1. PICK until \in Time : GrantPro(r, until)
    BY <1>8
  <2>2. site' \in [Sites -> SiteRows(Time)]
    BY <2>1, StepTypes, SlotTypes, WrittenRows, GivenStatuses DEF GrantPro
  <2> QED BY <2>1, <2>2, StepTypes DEF GrantPro
<1> QED BY <1>1, <1>2, <1>3, <1>4, <1>5, <1>6, <1>7, <1>8

(* The steps of an activation. *)
LEMMA ActivationKeepsTypes ==
  ASSUME TypeOK, NEW r \in Requests,
         \/ \E l \in Licenses : ReadLicense(r, l)
         \/ FindExisting(r) \/ CountActivations(r)
         \/ UpsertActivation(r) \/ AdmitActivated(r)
  PROVE  TypeOK'
<1> USE DEF TypeOK
<1>1. CASE \E l \in Licenses : ReadLicense(r, l)
  <2>1. PICK l \in Licenses : ReadLicense(r, l)
    BY <1>1
  <2>2. license[l].expires \in Time
    BY DEF LicenseRows
  <2>3. [req[r] EXCEPT !.license = l, !.step = "existing",
                       !.until = license[l].expires] \in RequestStates
    BY <2>2 DEF RequestStates, Steps
  <2>4. req' \in [Requests -> RequestStates]
    BY <2>1, <2>3, StepTypes DEF ReadLicense
  <2> QED BY <2>1, <2>4 DEF ReadLicense
<1>2. CASE FindExisting(r) \/ CountActivations(r)
  BY <1>2, StepTypes DEF FindExisting, CountActivations, Steps
<1>3. CASE UpsertActivation(r)
  <2> QED BY <1>3, SlotTypes, StepTypes DEF UpsertActivation, Steps
<1>4. CASE AdmitActivated(r)
  <2>1. site' \in [Sites -> SiteRows(Time)]
    BY <1>4, StepTypes, SlotTypes, WrittenRows, GivenStatuses DEF AdmitActivated
  <2> QED BY <1>4, <2>1, StepTypes DEF AdmitActivated
<1> QED BY <1>1, <1>2, <1>3, <1>4

(* Single writes of a site's row. *)
LEMMA SiteStepsKeepTypes ==
  ASSUME TypeOK, NEW s \in Sites, SiteStep(s)
  PROVE  TypeOK'
<1> USE DEF TypeOK
<1>1. CASE OptOut(s) \/ Suspend(s) \/ Revoke(s)
  <2>1. site[s] \in SiteRows(Time) /\ now \in Time
    BY ClockIsTime
  <2>2. /\ [site[s] EXCEPT !.optedIn = FALSE] \in SiteRows(Time)
        /\ [site[s] EXCEPT !.net = "SUSPENDED", !.optedIn = FALSE] \in SiteRows(Time)
        /\ [site[s] EXCEPT !.net = "REVOKED", !.optedIn = FALSE, !.until = now] \in SiteRows(Time)
    BY <2>1, WrittenRows, GivenStatuses
  <2>3. site' \in [Sites -> SiteRows(Time)]
    <3>1. \E row \in SiteRows(Time) : WriteSite(s, row)
      BY <1>1, <2>2 DEF OptOut, Suspend, Revoke
    <3> QED BY <3>1, StepTypes
  <2> QED BY <1>1, <2>3 DEF OptOut, Suspend, Revoke
<1>2. CASE \E status \in {"TRIAL", "ACTIVE"}, until \in Time : SeedSite(s, status, until)
  BY <1>2 DEF SeedSite, WriteSite, SiteRows, NetworkStatuses
<1>3. CASE ResetActivations(s)
  BY <1>3 DEF ResetActivations
<1> QED BY <1>1, <1>2, <1>3 DEF SiteStep

(* The steps of a license, a synchronisation among them. *)
LEMMA LicenseStepsKeepTypes ==
  ASSUME TypeOK, NEW l \in Licenses, LicenseStep(l)
  PROVE  TypeOK'
<1> USE DEF TypeOK
<1>1. CASE \E until \in Time : CreateLicense(l, until)
  BY <1>1 DEF CreateLicense, LicenseRows, LicenseStatuses
<1>2. CASE \E until \in Time : Synchronise(l, until)
  <2>1. PICK until \in Time : Synchronise(l, until)
    BY <1>2
  <2>2. license' \in [Licenses -> LicenseRows(Time)]
    BY <2>1 DEF Synchronise, LicenseRows, LicenseStatuses
  <2>3. \A s \in Sites : Deadlines(s, license', now) \in SUBSET Time
    BY <2>2 DEF Deadlines, LicenseRows
  <2>4. \A s \in Sites : Synchronised(site[s], Deadlines(s, license', now), now)
                            \in SiteRows(Time)
    BY <2>3, SynchronisedType, ClockIsTime, TimeAssumption DEF Time
  <2>5. site' \in [Sites -> SiteRows(Time)]
    BY <2>1, <2>4 DEF Synchronise
  <2> QED BY <2>1, <2>2, <2>5 DEF Synchronise
<1>3. CASE \E status \in Sanctions : SanctionLicense(l, status)
  BY <1>3 DEF SanctionLicense, LicenseRows, LicenseStatuses
<1> QED BY <1>1, <1>2, <1>3 DEF LicenseStep

(* Every step keeps the types. *)
LEMMA TypesAreKept == TypeOK /\ [Next]_vars => TypeOK'
<1> SUFFICES ASSUME TypeOK, [Next]_vars PROVE TypeOK'
  OBVIOUS
<1>1. CASE \E r \in Requests : RequestStep(r)
  BY <1>1, RowStepsKeepTypes, ActivationKeepsTypes DEF RequestStep
<1>2. CASE \E s \in Sites : SiteStep(s)
  BY <1>2, SiteStepsKeepTypes
<1>3. CASE \E l \in Licenses : LicenseStep(l)
  BY <1>3, LicenseStepsKeepTypes
<1>4. CASE SweepLicenses
  <2>1. license' \in [Licenses -> LicenseRows(Time)]
    BY <1>4 DEF TypeOK, SweepLicenses, LicenseRows, LicenseStatuses
  <2> QED BY <1>4, <2>1, ClockIsTime DEF TypeOK, SweepLicenses, Clock
<1>5. CASE SweepSites
  BY <1>5, StepTypes, ClockIsTime DEF TypeOK, SweepSites, Clock
<1>6. CASE Tick
  BY <1>6, TimeAssumption DEF TypeOK, Tick, Clock
<1>7. CASE UNCHANGED vars
  BY <1>7 DEF TypeOK, vars
<1> QED BY <1>1, <1>2, <1>3, <1>4, <1>5, <1>6, <1>7 DEF Next

(* The initial state has them. *)
LEMMA InitialTypesHold == Init => TypeOK
<1>1. Init => site \in [Sites -> SiteRows(Time)] /\ license \in [Licenses -> LicenseRows(Time)]
  BY InitialTypes DEF Init
<1>2. Init => req \in [Requests -> RequestStates]
  BY InitialTypes DEF Init
<1>3. Init => now \in Clock /\ sweep \in 0 .. now
  BY TimeAssumption DEF Init, Clock
<1> QED BY <1>1, <1>2, <1>3 DEF Init, TypeOK

(* The variables of the entitlement requests keep their types. *)
THEOREM TypeCorrect == Spec => []TypeOK
BY InitialTypesHold, TypesAreKept, PTL DEF Spec

-----------------------------------------------------------------------------
(* One trial per site *)

(* The step that allocates a trial is the only one that changes trials. *)
LEMMA OnlyAllocations ==
  ASSUME Next, trials' # trials
  PROVE  \E r \in Requests, until \in Time : AllocateTrial(r, until)
<1>1. CASE \E r \in Requests : RequestStep(r)
  BY <1>1 DEF RequestStep, Authenticate, MarkExpired, Validate, AnswerTrial,
    TrialConflict, AnswerConflict, OptIn, ExtendTrial, GrantPro, ReadLicense,
    FindExisting, CountActivations, UpsertActivation, AdmitActivated
<1>2. CASE \E s \in Sites : SiteStep(s)
  BY <1>2 DEF SiteStep, OptOut, Suspend, Revoke, SeedSite, ResetActivations
<1>3. CASE \E l \in Licenses : LicenseStep(l)
  BY <1>3 DEF LicenseStep, CreateLicense, Synchronise, SanctionLicense
<1>4. CASE SweepLicenses \/ SweepSites \/ Tick
  BY <1>4 DEF SweepLicenses, SweepSites, Tick
<1> QED BY <1>1, <1>2, <1>3, <1>4 DEF Next

(* Of a row that is written, the start of a trial is kept. *)
KeepsTrial(row, new) == row.trialUsed => new.trialUsed

(* A synchronisation keeps it. *)
LEMMA SynchronisedKeepsTrial ==
  ASSUME NEW row \in SiteRows(Time), NEW D, NEW t
  PROVE  KeepsTrial(row, Synchronised(row, D, t))
BY DEF KeepsTrial, Synchronised, SiteRows

(* A site that is written to keeps the start of its trial if the new row
   does. *)
LEMMA WriteKeepsTrial ==
  ASSUME TypeOK, NEW s \in Sites, NEW row, WriteSite(s, row), KeepsTrial(site[s], row)
  PROVE  \A t \in Sites : site[t].trialUsed => site'[t].trialUsed
BY DEF TypeOK, WriteSite, KeepsTrial

(* The rows that the steps write. *)
LEMMA WrittenRowsKeepTrial ==
  ASSUME NEW row \in SiteRows(Time), NEW net, NEW until
  PROVE  /\ KeepsTrial(row, [row EXCEPT !.net = net, !.until = until])
         /\ KeepsTrial(row, [row EXCEPT !.net = net, !.trialUsed = TRUE, !.until = until])
         /\ KeepsTrial(row, [row EXCEPT !.optedIn = TRUE])
         /\ KeepsTrial(row, [row EXCEPT !.optedIn = FALSE])
         /\ KeepsTrial(row, [row EXCEPT !.net = net, !.optedIn = FALSE])
         /\ KeepsTrial(row, [row EXCEPT !.net = net, !.optedIn = FALSE, !.until = until])
         /\ KeepsTrial(row, Expired(row))
         /\ KeepsTrial(row, [net |-> net, trialUsed |-> TRUE, until |-> until, optedIn |-> TRUE])
BY DEF SiteRows, KeepsTrial, Expired

(* No step takes the start of a trial from a site. *)
LEMMA TrialUsedStays ==
  ASSUME TypeOK, Next
  PROVE  \A t \in Sites : site[t].trialUsed => site'[t].trialUsed
<1> DEFINE Goal == \A t \in Sites : site[t].trialUsed => site'[t].trialUsed
<1>1. ASSUME NEW r \in Requests, RequestStep(r) PROVE Goal
  <2>1. CASE UNCHANGED site
    BY <2>1
  <2>2. CASE MarkExpired(r)
    BY <2>2, SlotTypes, WriteKeepsTrial, WrittenRowsKeepTrial DEF MarkExpired
  <2>3. CASE \E until \in Time : AllocateTrial(r, until)
    BY <2>3, SlotTypes, WriteKeepsTrial, WrittenRowsKeepTrial DEF AllocateTrial
  <2>4. CASE OptIn(r)
    BY <2>4, SlotTypes, WriteKeepsTrial, WrittenRowsKeepTrial DEF OptIn
  <2>5. CASE \E until \in Time : ExtendTrial(r, until)
    BY <2>5, SlotTypes, WriteKeepsTrial, WrittenRowsKeepTrial DEF ExtendTrial
  <2>6. CASE \E until \in Time : GrantPro(r, until)
    BY <2>6, SlotTypes, WriteKeepsTrial, WrittenRowsKeepTrial DEF GrantPro
  <2>7. CASE AdmitActivated(r)
    BY <2>7, SlotTypes, WriteKeepsTrial, WrittenRowsKeepTrial DEF AdmitActivated
  <2> QED BY <1>1, <2>1, <2>2, <2>3, <2>4, <2>5, <2>6, <2>7
        DEF RequestStep, Authenticate, Validate, AnswerTrial, TrialConflict,
            AnswerConflict, ReadLicense, FindExisting, CountActivations, UpsertActivation
<1>2. ASSUME NEW s \in Sites, SiteStep(s) PROVE Goal
  <2>1. site[s] \in SiteRows(Time)
    BY DEF TypeOK
  <2> QED BY <1>2, <2>1, WriteKeepsTrial, WrittenRowsKeepTrial
        DEF SiteStep, OptOut, Suspend, Revoke, SeedSite, ResetActivations
<1>3. ASSUME NEW l \in Licenses, LicenseStep(l) PROVE Goal
  <2>1. CASE UNCHANGED site
    BY <2>1
  <2>2. CASE \E until \in Time : Synchronise(l, until)
    BY <2>2, SynchronisedKeepsTrial DEF Synchronise, TypeOK, KeepsTrial
  <2> QED BY <1>3, <2>1, <2>2 DEF LicenseStep, CreateLicense, SanctionLicense
<1>4. CASE SweepSites
  BY <1>4, WrittenRowsKeepTrial DEF SweepSites, TypeOK, KeepsTrial
<1>5. CASE SweepLicenses \/ Tick
  BY <1>5 DEF SweepLicenses, Tick
<1> QED BY <1>1, <1>2, <1>3, <1>4, <1>5 DEF Next

(* A request notes the time when it reads a row, and at no other step. *)
LEMMA SlotsReadTheClock ==
  ASSUME TypeOK, Next, NEW r \in Requests
  PROVE  req'[r].at \in {req[r].at, now, 0}
<1>1. ASSUME NEW q \in Requests, NEW slot, req' = [req EXCEPT ![q] = slot],
             slot.at \in {req[q].at, now, 0}
      PROVE  req'[r].at \in {req[r].at, now, 0}
  BY <1>1 DEF TypeOK
<1>2. CASE req' = req
  BY <1>2
<1>3. CASE \E q \in Requests : Finish(q)
  BY <1>3, <1>1 DEF Finish, Idle
<1>4. CASE \E q \in Requests, step \in Steps : Goto(q, step)
  <2>1. PICK q \in Requests, step \in Steps : Goto(q, step)
    BY <1>4
  <2>2. [req[q] EXCEPT !.step = step].at = req[q].at
    BY DEF TypeOK, RequestStates
  <2>3. req' = [req EXCEPT ![q] = [req[q] EXCEPT !.step = step]]
    BY <2>1 DEF Goto
  <2> QED BY <1>1, <2>2, <2>3
<1>5. CASE \E q \in Requests, op \in Ops, s \in Sites : Authenticate(q, op, s)
  BY <1>5, <1>1 DEF Authenticate, Idle
<1>6. CASE \E q \in Requests : MarkExpired(q)
  <2>1. PICK q \in Requests : MarkExpired(q)
    BY <1>6
  <2> DEFINE slot == [req[q] EXCEPT !.row = Expired(site[req[q].site])]
  <2>2. slot.at = req[q].at
    BY DEF TypeOK, RequestStates
  <2>3. req' = [req EXCEPT ![q] = slot]
    BY <2>1 DEF MarkExpired
  <2> HIDE DEF slot
  <2> QED BY <1>1, <2>2, <2>3
<1>7. CASE \E q \in Requests, l \in Licenses : ReadLicense(q, l)
  <2>1. PICK q \in Requests, l \in Licenses : ReadLicense(q, l)
    BY <1>7
  <2> DEFINE slot == [req[q] EXCEPT !.license = l, !.step = "existing",
                                    !.until = license[l].expires]
  <2>2. slot.at = req[q].at
    BY DEF TypeOK, RequestStates
  <2>3. req' = [req EXCEPT ![q] = slot] \/ Finish(q)
    BY <2>1 DEF ReadLicense
  <2> HIDE DEF slot
  <2> QED BY <1>1, <1>3, <2>2, <2>3
<1>8. ASSUME NEW q \in Requests, RequestStep(q) PROVE req'[r].at \in {req[r].at, now, 0}
  <2>1. CASE \/ Validate(q) \/ AnswerTrial(q) \/ AnswerConflict(q) \/ OptIn(q)
             \/ \E until \in Time : AllocateTrial(q, until) \/ ExtendTrial(q, until)
                                     \/ GrantPro(q, until)
             \/ AdmitActivated(q)
    BY <2>1, <1>3 DEF Validate, AnswerTrial, AnswerConflict, OptIn, AllocateTrial,
      ExtendTrial, GrantPro, AdmitActivated
  <2>2. CASE TrialConflict(q) \/ FindExisting(q) \/ CountActivations(q) \/ UpsertActivation(q)
    BY <2>2, <1>3, <1>4 DEF TrialConflict, FindExisting, CountActivations, UpsertActivation, Steps
  <2> QED BY <1>5, <1>6, <1>7, <1>8, <2>1, <2>2 DEF RequestStep
<1>9. CASE \/ \E s \in Sites : SiteStep(s)
           \/ \E l \in Licenses : LicenseStep(l)
           \/ SweepLicenses \/ SweepSites \/ Tick
  BY <1>9, <1>2 DEF SiteStep, OptOut, Suspend, Revoke, SeedSite, ResetActivations,
    LicenseStep, CreateLicense, Synchronise, SanctionLicense,
    SweepLicenses, SweepSites, Tick
<1> QED BY <1>8, <1>9 DEF Next

(* The inductive invariant: a site that was allocated a trial has it in its
   row, where the next allocation finds it. *)
TrialIsRecorded == \A s \in Sites : trials[s] > 0 => site[s].trialUsed
ReadsArePast == \A r \in Requests : req[r].at =< now
TrialInv == TypeOK /\ OneTrialPerSite /\ TrialIsRecorded /\ ReadsArePast

(* Every step keeps it. *)
LEMMA TrialInvKept == TrialInv /\ [Next]_vars => TrialInv'
<1> SUFFICES ASSUME TrialInv, [Next]_vars PROVE TrialInv'
  OBVIOUS
<1> USE DEF TrialInv
<1>1. CASE UNCHANGED vars
  BY <1>1, TypesAreKept DEF vars, OneTrialPerSite, TrialIsRecorded, ReadsArePast
<1>2. CASE Next
  <2>1. TypeOK'
    BY TypesAreKept
  <2>2. ReadsArePast'
    <3>1. now \in Nat /\ now' \in Nat /\ now =< now'
      <4>1. now \in Nat /\ now' \in Nat
        BY <2>1, ClockIsTime DEF TypeOK
      <4>2. now' = now \/ now' = now + 1
        BY <1>2 DEF Next, RequestStep, Authenticate, MarkExpired, Validate, AnswerTrial,
          AllocateTrial, TrialConflict, AnswerConflict, OptIn, ExtendTrial, GrantPro,
          ReadLicense, FindExisting, CountActivations, UpsertActivation, AdmitActivated,
          SiteStep, OptOut, Suspend, Revoke, SeedSite, ResetActivations,
          LicenseStep, CreateLicense, Synchronise, SanctionLicense,
          SweepLicenses, SweepSites, Tick
      <4> QED BY <4>1, <4>2
    <3>2. ASSUME NEW r \in Requests PROVE req'[r].at =< now'
      <4>1. req'[r].at \in {req[r].at, now, 0}
        BY <1>2, SlotsReadTheClock
      <4>2. req[r].at \in Nat /\ req[r].at =< now
        BY SlotTypes DEF ReadsArePast, Time
      <4> QED BY <3>1, <4>1, <4>2
    <3> QED BY <3>2 DEF ReadsArePast
  <2>3. OneTrialPerSite' /\ TrialIsRecorded'
    <3>1. CASE trials' = trials
      BY <3>1, <1>2, TrialUsedStays DEF OneTrialPerSite, TrialIsRecorded
    <3>2. CASE trials' # trials
      <4>1. PICK r \in Requests, until \in Time : AllocateTrial(r, until)
        BY <1>2, <3>2, OnlyAllocations
      <4> DEFINE s == req[r].site
      <4>2. s \in Sites /\ ~site[s].trialUsed
        BY <4>1, SlotTypes DEF AllocateTrial, Unchanged
      <4>3. trials[s] = 0
        BY <4>2 DEF TrialIsRecorded, TypeOK
      <4>4. trials' = [trials EXCEPT ![s] = 1]
        <5>1. trials' = [trials EXCEPT ![s] = @ + 1]
          BY <4>1 DEF AllocateTrial
        <5> QED BY <5>1, <4>2, <4>3 DEF TypeOK
      <4>5. site'[s].trialUsed
        BY <4>1, <4>2 DEF AllocateTrial, WriteSite, TypeOK, SiteRows
      <4> HIDE DEF s
      <4> QED BY <1>2, <4>2, <4>4, <4>5, TrialUsedStays DEF OneTrialPerSite, TrialIsRecorded, TypeOK
    <3> QED BY <3>1, <3>2
  <2> QED BY <2>1, <2>2, <2>3
<1> QED BY <1>1, <1>2

(* The inductive invariant holds throughout. *)
LEMMA TrialInvHolds == Spec => []TrialInv
<1>1. Init => TypeOK
  BY InitialTypesHold
<1>2. Init => OneTrialPerSite /\ TrialIsRecorded /\ ReadsArePast
  BY DEF Init, OneTrialPerSite, TrialIsRecorded, ReadsArePast, Idle
<1> QED BY <1>1, <1>2, TrialInvKept, PTL DEF Spec, TrialInv

(* However many requests for a trial race each other, the update's where
   clause lets one through: a site is allocated one trial at most. *)
THEOREM TrialsAreOne == Spec => []OneTrialPerSite
BY TrialInvHolds, PTL DEF TrialInv

(* What a request read before it allocates a trial still holds: neither a
   sanction nor live access committed since is overwritten. *)
THEOREM TrialsAreSafe == Spec => TrialsOverwriteNothing
<1>1. ASSUME TrialInv, Next, NEW s \in Sites, trials'[s] # trials[s]
      PROVE  site[s].net \notin Sanctions /\ ~Eligible(site[s], now)
  <2>1. PICK r \in Requests, until \in Time : AllocateTrial(r, until)
    BY <1>1, OnlyAllocations
  <2>2. req[r].site = s
    BY <1>1, <2>1 DEF AllocateTrial, TrialInv, TypeOK
  <2>3. /\ req[r].row.net \notin Sanctions /\ ~Eligible(req[r].row, req[r].at)
        /\ site[s].net = req[r].row.net /\ site[s].until = req[r].row.until
    BY <2>1, <2>2 DEF AllocateTrial, MayStartTrial, Unchanged
  <2>4. req[r].at =< now /\ req[r].at \in Nat /\ now \in Nat /\ site[s].until \in Nat
    BY <1>1, ClockIsTime, SlotTypes DEF TrialInv, ReadsArePast, TypeOK, SiteRows, Time
  <2> QED BY <2>3, <2>4 DEF Eligible, Admitted, Open
<1>2. TrialInv /\ [Next]_vars =>
        [\A s \in Sites : trials'[s] # trials[s] =>
           site[s].net \notin Sanctions /\ ~Eligible(site[s], now)]_vars
  BY <1>1
<1> QED BY <1>2, TrialInvHolds, PTL DEF Spec, TrialsOverwriteNothing

-----------------------------------------------------------------------------
(* The limit of a license *)

(* The requests that have found a place and are about to take it, and the
   sites that a license has, or is about to have. *)
Claimants(l) == {r \in Requests : At(r, "activate", "upsert") /\ req[r].license = l}
Claims(l) == ActivationsOf(l) \cup {req[r].site : r \in Claimants(l)}

(* The inductive invariant: a place that was found free is counted with the
   places taken, although nobody sees it yet.  Whoever finds the last place
   sees all activations but those of the other requests. *)
ClaimsAreBounded ==
  \A l \in Licenses : Cardinality(Claims(l)) + 1 =< MaxActivations[l] + Cardinality(Requests)
LimitInv == TypeOK /\ ClaimsAreBounded

(* The sets that are counted are finite. *)
LEMMA ClaimsAreFinite ==
  ASSUME TypeOK, NEW l \in Licenses
  PROVE  /\ IsFiniteSet(ActivationsOf(l)) /\ Cardinality(ActivationsOf(l)) \in Nat
         /\ IsFiniteSet(Claims(l)) /\ Cardinality(Claims(l)) \in Nat
         /\ Cardinality(Requests) \in Nat
<1>1. ActivationsOf(l) \subseteq Sites
  BY DEF ActivationsOf
<1>2. Claims(l) \subseteq Sites
  BY <1>1, SlotTypes DEF Claims, Claimants
<1>3. IsFiniteSet(ActivationsOf(l)) /\ IsFiniteSet(Claims(l))
  BY <1>1, <1>2, SetsAssumption, FS_Subset
<1> QED BY <1>3, SetsAssumption, FS_CardinalityType

(* There are as many claims as activations, and one more for each request at
   most. *)
LEMMA ClaimsAboveActivations ==
  ASSUME TypeOK, NEW l \in Licenses
  PROVE  Cardinality(Claims(l)) =< Cardinality(ActivationsOf(l)) + Cardinality(Requests)
<1> DEFINE sites == {req[r].site : r \in Claimants(l)}
<1>1. IsFiniteSet(Claimants(l)) /\ Cardinality(Claimants(l)) =< Cardinality(Requests)
  BY SetsAssumption, FS_Subset DEF Claimants
<1>2. IsFiniteSet(sites) /\ Cardinality(sites) =< Cardinality(Claimants(l))
  <2> DEFINE of == [r \in Claimants(l) |-> req[r].site]
  <2>1. of \in Surjection(Claimants(l), sites)
    BY DEF Surjection
  <2> HIDE DEF of, sites
  <2> QED BY <1>1, <2>1, FS_Surjection
<1> HIDE DEF sites
<1>3. Claims(l) = ActivationsOf(l) \cup sites
  BY DEF Claims, sites
<1>4. /\ Cardinality(Claims(l)) = Cardinality(ActivationsOf(l)) + Cardinality(sites)
                                    - Cardinality(ActivationsOf(l) \cap sites)
      /\ Cardinality(ActivationsOf(l) \cap sites) \in Nat
  <2>1. IsFiniteSet(ActivationsOf(l) \cap sites)
    BY <1>2, FS_Subset
  <2> QED BY <1>2, <1>3, <2>1, ClaimsAreFinite, FS_Union, FS_CardinalityType
<1>5. /\ Cardinality(sites) \in Nat /\ Cardinality(Claimants(l)) \in Nat
      /\ Cardinality(ActivationsOf(l)) \in Nat /\ Cardinality(Requests) \in Nat
  BY <1>1, <1>2, ClaimsAreFinite, FS_CardinalityType
<1> QED BY <1>1, <1>2, <1>4, <1>5

(* A slot that does not come to claim a place adds none. *)
LEMMA SlotAddsNoClaim ==
  ASSUME TypeOK, NEW r \in Requests, NEW slot, req' = [req EXCEPT ![r] = slot],
         ~(slot.op = "activate" /\ slot.step = "upsert"), UNCHANGED active,
         NEW l \in Licenses
  PROVE  Claims(l)' \subseteq Claims(l)
<1>1. ASSUME NEW q \in Claimants(l)' PROVE q \in Claimants(l) /\ req'[q].site = req[q].site
  BY <1>1 DEF Claimants, At, TypeOK
<1> QED BY <1>1 DEF Claims, ActivationsOf

(* Both as facts about every state, the next one included. *)
LEMMA ClaimsAreCounted ==
  TypeOK => \A l \in Licenses :
    /\ Cardinality(Claims(l)) \in Nat
    /\ Cardinality(Claims(l)) =< Cardinality(ActivationsOf(l)) + Cardinality(Requests)
BY ClaimsAreFinite, ClaimsAboveActivations

(* No step adds a claim but that of a request that finds a place left. *)
LEMMA WhoClaims ==
  ASSUME TypeOK, Next, NEW l \in Licenses
  PROVE  \/ Claims(l)' \subseteq Claims(l)
         \/ /\ UNCHANGED active /\ ~NoneLeft(l)
<1> USE DEF TypeOK
<1> DEFINE Goal == Claims(l)' \subseteq Claims(l) \/ (UNCHANGED active /\ ~NoneLeft(l))
<1>1. CASE active' \subseteq active /\ UNCHANGED req
  BY <1>1 DEF Claims, Claimants, ActivationsOf, At
<1>2. ASSUME NEW r \in Requests, Finish(r), UNCHANGED active PROVE Goal
  BY <1>2, SlotAddsNoClaim DEF Finish, Idle
<1>3. ASSUME NEW r \in Requests, RequestStep(r) PROVE Goal
  <2>1. CASE \E op \in Ops, s \in Sites : Authenticate(r, op, s)
    BY <2>1, SlotAddsNoClaim DEF Authenticate, Idle
  <2>2. CASE MarkExpired(r)
    <3> DEFINE slot == [req[r] EXCEPT !.row = Expired(site[req[r].site])]
    <3>1. slot.op = req[r].op
      BY DEF RequestStates
    <3>2. req' = [req EXCEPT ![r] = slot] /\ UNCHANGED active /\ slot.op # "activate"
      BY <2>2, <3>1 DEF MarkExpired
    <3> HIDE DEF slot
    <3> QED BY <3>2, SlotAddsNoClaim
  <2>3. CASE \/ Validate(r) \/ AnswerTrial(r) \/ AnswerConflict(r) \/ OptIn(r)
             \/ \E until \in Time : AllocateTrial(r, until) \/ ExtendTrial(r, until)
                                     \/ GrantPro(r, until)
             \/ AdmitActivated(r)
    BY <2>3, <1>2 DEF Validate, AnswerTrial, AnswerConflict, OptIn, AllocateTrial,
      ExtendTrial, GrantPro, AdmitActivated
  <2>4. CASE TrialConflict(r)
    <3> DEFINE slot == [req[r] EXCEPT !.step = "conflict"]
    <3>1. slot.step = "conflict"
      BY DEF RequestStates
    <3>2. req' = [req EXCEPT ![r] = slot] /\ UNCHANGED active
      BY <2>4 DEF TrialConflict, Goto
    <3> HIDE DEF slot
    <3> QED BY <3>1, <3>2, SlotAddsNoClaim
  <2>5. CASE \E k \in Licenses : ReadLicense(r, k)
    <3>1. PICK k \in Licenses : ReadLicense(r, k)
      BY <2>5
    <3> DEFINE slot == [req[r] EXCEPT !.license = k, !.step = "existing",
                                      !.until = license[k].expires]
    <3>2. slot.step = "existing"
      BY DEF RequestStates
    <3>3. UNCHANGED active /\ (Finish(r) \/ req' = [req EXCEPT ![r] = slot])
      BY <3>1 DEF ReadLicense
    <3> HIDE DEF slot
    <3> QED BY <1>2, <3>2, <3>3, SlotAddsNoClaim
  <2>6. CASE FindExisting(r)
    <3>1. ASSUME <<req[r].license, req[r].site>> \in active
          PROVE  Goal
      <4>1. req' = [req EXCEPT ![r] = [req[r] EXCEPT !.step = "upsert"]] /\ UNCHANGED active
        BY <2>6, <3>1 DEF FindExisting, Goto
      <4>2. ASSUME NEW q \in Claimants(l)' PROVE req'[q].site \in Claims(l)
        <5>1. CASE q = r
          BY <3>1, <4>1, <4>2, <5>1 DEF Claimants, Claims, ActivationsOf, RequestStates
        <5>2. CASE q # r
          BY <4>1, <4>2, <5>2 DEF Claimants, Claims, At
        <5> QED BY <5>1, <5>2
      <4> QED BY <4>1, <4>2 DEF Claims, ActivationsOf
    <3>2. ASSUME <<req[r].license, req[r].site>> \notin active
          PROVE  Goal
      <4> DEFINE slot == [req[r] EXCEPT !.step = "count"]
      <4>1. slot.step = "count"
        BY DEF RequestStates
      <4>2. req' = [req EXCEPT ![r] = slot] /\ UNCHANGED active
        BY <2>6, <3>2 DEF FindExisting, Goto
      <4> HIDE DEF slot
      <4> QED BY <4>1, <4>2, SlotAddsNoClaim
    <3> QED BY <3>1, <3>2
  <2>7. CASE CountActivations(r)
    <3>1. CASE NoneLeft(req[r].license)
      BY <2>7, <3>1, <1>2 DEF CountActivations
    <3>2. CASE ~NoneLeft(req[r].license) /\ req[r].license = l
      BY <2>7, <3>2 DEF CountActivations
    <3>3. CASE ~NoneLeft(req[r].license) /\ req[r].license # l
      <4>1. req' = [req EXCEPT ![r] = [req[r] EXCEPT !.step = "upsert"]] /\ UNCHANGED active
        BY <2>7, <3>3 DEF CountActivations, Goto
      <4>2. ASSUME NEW q \in Claimants(l)' PROVE q \in Claimants(l) /\ req'[q].site = req[q].site
        <5>1. q # r
          BY <3>3, <4>1, <4>2 DEF Claimants, RequestStates
        <5> QED BY <4>1, <4>2, <5>1 DEF Claimants, At
      <4> QED BY <4>1, <4>2 DEF Claims, ActivationsOf
    <3> QED BY <3>1, <3>2, <3>3
  <2>8. CASE UpsertActivation(r)
    <3>1. /\ req' = [req EXCEPT ![r] = [req[r] EXCEPT !.step = "site"]]
          /\ active' = active \cup {<<req[r].license, req[r].site>>}
          /\ At(r, "activate", "upsert")
      BY <2>8 DEF UpsertActivation, Goto
    <3>2. ASSUME NEW q \in Claimants(l)' PROVE q \in Claimants(l) /\ req'[q].site = req[q].site
      <4>1. q # r
        BY <3>1, <3>2 DEF Claimants, At, RequestStates
      <4> QED BY <3>1, <3>2, <4>1 DEF Claimants, At
    <3>3. ActivationsOf(l)' \subseteq Claims(l)
      BY <3>1 DEF ActivationsOf, Claims, Claimants
    <3> QED BY <3>2, <3>3 DEF Claims
  <2> QED BY <1>3, <2>1, <2>2, <2>3, <2>4, <2>5, <2>6, <2>7, <2>8 DEF RequestStep
<1>4. CASE \/ \E s \in Sites : SiteStep(s)
           \/ \E k \in Licenses : LicenseStep(k)
           \/ SweepLicenses \/ SweepSites \/ Tick
  BY <1>4, <1>1 DEF SiteStep, OptOut, Suspend, Revoke, SeedSite, ResetActivations,
    LicenseStep, CreateLicense, Synchronise, SanctionLicense,
    SweepLicenses, SweepSites, Tick
<1> QED BY <1>3, <1>4 DEF Next

(* Every step keeps the invariant. *)
LEMMA LimitInvKept == LimitInv /\ [Next]_vars => LimitInv'
<1> SUFFICES ASSUME LimitInv, [Next]_vars PROVE LimitInv'
  OBVIOUS
<1> USE DEF LimitInv
<1>1. TypeOK'
  BY TypesAreKept
<1>2. TypeOK' => (\A l \in Licenses :
        /\ Cardinality(Claims(l)) \in Nat
        /\ Cardinality(Claims(l)) =< Cardinality(ActivationsOf(l)) + Cardinality(Requests))'
  BY ClaimsAreCounted, PTL
<1>3. ASSUME NEW l \in Licenses
      PROVE  Cardinality(Claims(l)') + 1 =< MaxActivations[l] + Cardinality(Requests)
  <2>1. /\ Cardinality(Claims(l)) \in Nat /\ Cardinality(Claims(l)') \in Nat
        /\ Cardinality(ActivationsOf(l)) \in Nat /\ Cardinality(Requests) \in Nat
        /\ IsFiniteSet(Claims(l)) /\ MaxActivations[l] \in Nat
    <3>1. Cardinality(Claims(l)') \in Nat
      BY <1>1, <1>2
    <3> QED BY <3>1, ClaimsAreFinite, ActivationsAssumption
  <2>2. CASE Claims(l)' \subseteq Claims(l)
    <3>1. Cardinality(Claims(l)') =< Cardinality(Claims(l))
      BY <2>1, <2>2, FS_Subset
    <3> QED BY <2>1, <3>1 DEF ClaimsAreBounded
  <2>3. CASE UNCHANGED active /\ ~NoneLeft(l)
    <3>1. Cardinality(Claims(l)') =< Cardinality(ActivationsOf(l)') + Cardinality(Requests)
      BY <1>1, <1>2
    <3>2. ActivationsOf(l)' = ActivationsOf(l)
      BY <2>3 DEF ActivationsOf
    <3> QED BY <2>1, <2>3, <3>1, <3>2 DEF NoneLeft
  <2>4. CASE UNCHANGED vars
    <3>1. Claims(l)' = Claims(l)
      BY <2>4 DEF vars, Claims, Claimants, ActivationsOf, At
    <3> QED BY <2>2, <3>1
  <2> QED BY <2>2, <2>3, <2>4, WhoClaims
<1>4. ClaimsAreBounded'
  BY <1>3 DEF ClaimsAreBounded
<1> QED BY <1>1, <1>4

(* Whichever requests race each other for a license's last place, however
   often activations are reset and taken again, the license passes its limit
   by no more than the requests that ran beside the first. *)
THEOREM LimitsAreKept == Spec => []OverLimitIsConcurrent
<1>1. Init => LimitInv
  <2> SUFFICES ASSUME Init, NEW l \in Licenses
               PROVE  Cardinality(Claims(l)) + 1 =< MaxActivations[l] + Cardinality(Requests)
    BY InitialTypesHold DEF LimitInv, ClaimsAreBounded
  <2>1. Claims(l) = {}
    BY DEF Init, Claims, Claimants, ActivationsOf, At, Idle
  <2> QED BY <2>1, FS_EmptySet, SetsAssumption, FS_CardinalityType, ActivationsAssumption
<1>2. LimitInv => OverLimitIsConcurrent
  <2> SUFFICES ASSUME LimitInv, NEW l \in Licenses
               PROVE  Cardinality(ActivationsOf(l)) + 1 =< MaxActivations[l] + Cardinality(Requests)
    BY DEF OverLimitIsConcurrent
  <2> USE DEF LimitInv
  <2>1. Cardinality(ActivationsOf(l)) =< Cardinality(Claims(l))
    BY ClaimsAreFinite, FS_Subset DEF Claims
  <2> QED BY <2>1, ClaimsAreFinite, ActivationsAssumption DEF ClaimsAreBounded
<1> QED BY <1>1, <1>2, LimitInvKept, PTL DEF Spec
=============================================================================
