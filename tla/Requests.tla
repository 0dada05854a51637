------------------------------ MODULE Requests -------------------------------
(***************************************************************************)
(* The parts whose requests race each other in the database or in memory   *)
(* and which share no state: activations of a license, registrations, ads  *)
(* of a site, the forum, checkout, and the loop that picks an ad.  A       *)
(* behavior picks a part and runs it alone; the variables of the others    *)
(* keep their initial values.  The forum is extended, the others are       *)
(* instances.                                                              *)
(***************************************************************************)
EXTENDS Forum

CONSTANTS
  Sites, SeedSites, Licenses, ActivationOps, MaxActivations, TrialsEnabled,
  MaxTime, Horizon,                                               \* Entitlements
  Urls, DomainOf, AdUrls, MaxAds,                                 \* Registration
  Plans, Prices, NoPrice, AmountOf, EnvPrice, Graces, Customers,
  NoSite, PublicSite, MaxWindow, MaxSessions,                                 \* Checkout
  AdSites, NumAds, AdOwner, MaxCopies, Sources, Weights, AdTime   \* NextAd

VARIABLES
  part,
  site, license, active, entReq, sweep, now, trials,
  sites, siteAds, blocked, regReq,
  row, window, opened, payReq,
  ads, cursor, time, missed

Activations == INSTANCE Entitlements WITH Ops <- ActivationOps, req <- entReq

Registrations == INSTANCE Registration WITH MaxAds <- 0, ads <- siteAds, req <- regReq

SiteAds == INSTANCE Registration WITH Urls <- AdUrls, ads <- siteAds, req <- regReq

Pay == INSTANCE Checkout WITH req <- payReq

Pick ==
  INSTANCE NextAd WITH Sites <- AdSites, SiteOf <- AdOwner, MaxTime <- AdTime, now <- time

(* Those of the parts about which RequestsProofs has theorems. *)
ASSUME SlotsAssumption == IsFiniteSet(Requests)
ASSUME ActivationsAssumption ==
  /\ ActivationOps \subseteq
       Activations!PluginOps \cup Activations!SiteOps \cup Activations!OperatorOps
  /\ MaxTime \in Nat \ {0} /\ Horizon \in Nat /\ MaxTime < Horizon
  /\ SeedSites \subseteq Sites /\ IsFiniteSet(Sites)
  /\ Sites # {} /\ Licenses # {} /\ TrialsEnabled \subseteq BOOLEAN
  /\ MaxActivations \in [Licenses -> Nat \ {0}]
ASSUME UrlsAssumption == Urls # {} /\ AdUrls # {}
ASSUME WeightsAssumption ==
  NumAds \in Nat /\ MaxCopies \in Nat \ {0} /\ Weights \subseteq Nat /\ AdTime \in Nat

entVars == <<site, license, active, entReq, sweep, now, trials>>
regVars == <<sites, siteAds, blocked, regReq>>
payVars == <<row, window, opened, payReq>>
adVars == <<ads, cursor, time, missed>>
allVars == <<part, entVars, regVars, vars, payVars, adVars>>

Parts == {"activations", "registrations", "siteAds", "forum", "checkout", "nextAd"}

PartsInit ==
  /\ part \in Parts
  /\ Activations!Init
  /\ IF part = "siteAds" THEN SiteAds!Init ELSE Registrations!Init
  /\ Init /\ Pay!Init /\ Pick!Init

PartsNext ==
  /\ UNCHANGED part
  /\ \/ /\ part = "activations" /\ Activations!Next
        /\ UNCHANGED <<regVars, vars, payVars, adVars>>
     \/ /\ part = "registrations" /\ Registrations!Next
        /\ UNCHANGED <<entVars, vars, payVars, adVars>>
     \/ /\ part = "siteAds" /\ SiteAds!Next
        /\ UNCHANGED <<entVars, vars, payVars, adVars>>
     \/ /\ part = "forum" /\ Next
        /\ UNCHANGED <<entVars, regVars, payVars, adVars>>
     \/ /\ part = "checkout" /\ Pay!Next
        /\ UNCHANGED <<entVars, regVars, vars, adVars>>
     \/ /\ part = "nextAd" /\ Pick!Next
        /\ UNCHANGED <<entVars, regVars, vars, payVars>>

PartsSpec == PartsInit /\ [][PartsNext]_allVars

-----------------------------------------------------------------------------
(* Properties; BarsTakeHold and FlagsHold are the forum's own. *)

(* Entitlements: a license passes its limit by no more than the requests     *)
(* that race the one that takes the last place.                              *)
OverLimitIsConcurrent == part = "activations" => Activations!OverLimitIsConcurrent

(* Registration: a registration that loses a race finds the winner's row     *)
(* when it is tried again.                                                   *)
LostRacesCanRetry == part = "registrations" => Registrations!LostRacesCanRetry

(* Registration: a site has no more ads than requests raced each other.      *)
DuplicateAdsAreConcurrent == part = "siteAds" => SiteAds!DuplicateAdsAreConcurrent

(* Checkout: an idempotency key never comes with other parameters.           *)
KeysNameOneRequest == Pay!KeysNameOneRequest

(* Checkout: an import never undoes what the operator has saved.             *)
OperatorSettingsStay == Pay!OperatorSettingsStay

(* NextAd: the loop agrees with the definitions RotationCache uses.          *)
LoopMeetsRotation == Pick!LoopMeetsRotation

(* NextAd: no copy of an uninvolved site's ad is passed over for a lap.      *)
OutsidersWaitOneLap == Pick!OutsidersWaitOneLap
=============================================================================
