------------------------------ MODULE Rotation ------------------------------
(***************************************************************************)
(* The rotation of the ad server as data (src/services/rotationCache.ts):  *)
(* the array `ads` of weighted copies in (createdAt, id) order, and what   *)
(* nextAd returns from it.                                                 *)
(*                                                                         *)
(* An ad is named by its rank in creation order, so that the array is      *)
(* determined by how many copies of each ad it holds: a rotation is a      *)
(* function from ads to numbers of copies, 0 for an ad that is not in it.  *)
(* A slot <<a, c>> is the c-th copy of ad a.  NextAd relates these         *)
(* definitions to the loop over array indices the code runs.               *)
(***************************************************************************)
EXTENDS Naturals, FiniteSets

CONSTANTS
  Sites,      \* the registered sites (siteDomain is unique, schema.prisma)
  NumAds,     \* number of CommunityAd rows, ranked by createdAt
  SiteOf,     \* the site that owns each ad
  MaxCopies   \* the most copies one ad has in the rotation (10 in the code)

Ads == 1 .. NumAds

ASSUME NumAdsAssumption == NumAds \in Nat
ASSUME SiteOfAssumption == SiteOf \in [Ads -> Sites]
ASSUME MaxCopiesAssumption == MaxCopies \in Nat \ {0}

Rotations == [Ads -> 0 .. MaxCopies]
EmptyRotation == [a \in Ads |-> 0]

Slots(rot) == {s \in Ads \X (1 .. MaxCopies) : s[2] <= rot[s[1]]}
Size(rot) == Cardinality(Slots(rot))

Precedes(s, t) == s[1] < t[1] \/ (s[1] = t[1] /\ s[2] < t[2])
Index(rot, s) == Cardinality({t \in Slots(rot) : Precedes(t, s)})

(* How many slots the loop of nextAd passes before it comes to slot s. *)
Distance(rot, cur, s) ==
  (Index(rot, s) + Size(rot) - (cur % Size(rot))) % Size(rot)

(* The slots nextAd may return at time t: those whose cached deadline has   *)
(* not passed, of other sites if there are any, else the caller's own.      *)
Unexpired(rot, deadline, t) == {s \in Slots(rot) : deadline[s[1]] > t}
Foreign(rot, deadline, t, src) ==
  {s \in Unexpired(rot, deadline, t) : SiteOf[s[1]] # src}

Eligible(rot, deadline, t, src) ==
  IF Foreign(rot, deadline, t, src) # {}
    THEN Foreign(rot, deadline, t, src)
    ELSE Unexpired(rot, deadline, t)

(* The slot nextAd returns: the first eligible one from the cursor on. *)
Chosen(rot, deadline, t, src, cur) ==
  {s \in Eligible(rot, deadline, t, src) :
     \A o \in Eligible(rot, deadline, t, src) :
       Distance(rot, cur, s) <= Distance(rot, cur, o)}

(* Mutant: the new cursor is not wrapped. *)
CursorAfterUnwrapped(rot, deadline, t, src, cur) ==
  IF Foreign(rot, deadline, t, src) = {} THEN cur
  ELSE cur + 1 + Distance(rot, cur,
         CHOOSE s \in Chosen(rot, deadline, t, src, cur) : TRUE)

(* The cursor it leaves: after the slot returned, or where it was when the  *)
(* loop came full circle (a self ad, or none).                              *)
CursorAfter(rot, deadline, t, src, cur) ==
  IF Size(rot) = 0 THEN cur
  ELSE IF Foreign(rot, deadline, t, src) # {}
    THEN (cur + 1 + Distance(rot, cur,
            CHOOSE s \in Chosen(rot, deadline, t, src, cur) : TRUE)) % Size(rot)
    ELSE cur % Size(rot)

(* Mutant: nothing is evicted, the reload is relied on. *)
WithoutNothing(rot, S) == rot

(* The rotation once every ad of the sites S is filtered out of it. *)
Without(rot, S) == [a \in Ads |-> IF SiteOf[a] \in S THEN 0 ELSE rot[a]]
=============================================================================
