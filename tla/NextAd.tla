------------------------------- MODULE NextAd -------------------------------
(***************************************************************************)
(* nextAd as the code runs it: a loop over the array `ads` from the shared *)
(* cursor (src/services/rotationCache.ts:95-128), the array a load builds  *)
(* from the weights of the rows (:200-216) and the one invalidate filters  *)
(* (:71).  The properties compare the loop with the definitions of         *)
(* Rotation that RotationCache uses, and count how often each copy of an   *)
(* ad is passed over.                                                      *)
(***************************************************************************)
EXTENDS Rotation, Sequences, SequencesExt

CONSTANTS
  Sources,    \* the sites that request ads
  Weights,    \* the values of CommunityAd.weight
  MaxTime     \* bound of the clock

VARIABLES
  ads,      \* state.ads: a sequence of [ad, until]
  cursor,   \* state.cursor
  now,      \* Date.now()
  missed    \* history: per position, how many requests in a row that could
            \* have been answered with it were answered with another

vars == <<ads, cursor, now, missed>>

Time == 0 .. MaxTime
Entries == [ad : Ads, until : Time]
SiteAt(i) == SiteOf[ads[i].ad]

TypeOK ==
  /\ ads \in Seq(Entries)
  /\ cursor \in 0 .. NumAds * MaxCopies
  /\ now \in Time
  /\ missed \in [DOMAIN ads -> 0 .. NumAds * MaxCopies]

(* Math.max(1, Math.min(ad.weight || 1, 10)), with MaxCopies for the 10. *)
Copies(weight) ==
  IF weight = 0 THEN 1 ELSE IF weight > MaxCopies THEN MaxCopies ELSE weight

(* The array built from the selected rows: all copies of an ad in a row. *)
Weighted(weight, until, chosen) ==
  FlattenSeq([a \in Ads |->
    IF a \in chosen
      THEN [c \in 1 .. Copies(weight[a]) |-> [ad |-> a, until |-> until[a]]]
      ELSE <<>>])

(* An attempt looks at index cursor % length, and moves the cursor on before  *)
(* it looks at the entry; self is the first self-ad met.                     *)
Attempt(src, last) ==
  LET pos == (last.cursor % Len(ads)) + 1
      unexpired == ads[pos].until > now
  IN IF last.found # 0 THEN last
     ELSE [found |-> IF unexpired /\ SiteAt(pos) # src THEN pos ELSE 0,
           self |-> IF unexpired /\ SiteAt(pos) = src /\ last.self = 0 THEN pos ELSE last.self,
           cursor |-> (last.cursor + 1) % Len(ads)]

(* The loop: as many attempts as there are entries. *)
Attempts(src) ==
  LET try[i \in 0 .. Len(ads)] ==
        IF i = 0 THEN [found |-> 0, self |-> 0, cursor |-> cursor]
        ELSE Attempt(src, try[i - 1])
  IN try[Len(ads)]

(* May position i be shown to another site src?  *)
Showable(i, src) == ads[i].until > now /\ SiteAt(i) # src

AtMost(bound, n) == IF n > bound THEN bound ELSE n

(* Mutant: no fallback to the caller's own ad. *)
ResultWithoutFallback(src) == Attempts(src).found

(* The position handed out (0: null). *)
Result(src) ==
  IF Attempts(src).found # 0 THEN Attempts(src).found ELSE Attempts(src).self

Missed(src) ==
  [i \in DOMAIN ads |->
     IF i = Result(src) THEN 0
     ELSE IF Showable(i, src) THEN AtMost(NumAds * MaxCopies, missed[i] + 1)
     ELSE missed[i]]

(* Mutant: the cursor is advanced once more after the loop. *)
NextAdForTwice(src) ==
  /\ cursor' = IF ads = <<>> THEN cursor
                ELSE (Attempts(src).cursor + 1) % Len(ads)
  /\ missed' = Missed(src)
  /\ UNCHANGED <<ads, now>>

NextAdFor(src) ==
  /\ cursor' = Attempts(src).cursor
  /\ missed' = Missed(src)
  /\ UNCHANGED <<ads, now>>

(* invalidate's filter; the cursor stays where it was. *)
Evict(site) ==
  /\ ads' = FlattenSeq([i \in DOMAIN ads |-> IF SiteAt(i) # site THEN <<ads[i]>> ELSE <<>>])
  /\ missed' = [i \in DOMAIN ads' |-> 0]
  /\ UNCHANGED <<cursor, now>>

(* A load's swap; the cursor is kept modulo the new length. *)
Reload(weight, until, chosen) ==
  /\ ads' = Weighted(weight, until, chosen)
  /\ cursor' = IF ads' = <<>> THEN 0 ELSE cursor % Len(ads')
  /\ missed' = [i \in DOMAIN ads' |-> 0]
  /\ UNCHANGED now

Tick ==
  /\ now < MaxTime
  /\ now' = now + 1
  /\ UNCHANGED <<ads, cursor, missed>>

Init ==
  /\ ads = <<>>
  /\ cursor = 0
  /\ now = 0
  /\ missed = <<>>

Next ==
  \/ \E src \in Sources : NextAdFor(src)
  \/ \E site \in Sites : Evict(site)
  \/ \E weight \in [Ads -> Weights], until \in [Ads -> Time],
        chosen \in SUBSET Ads : Reload(weight, until, chosen)
  \/ Tick

Spec == Init /\ [][Next]_vars

-----------------------------------------------------------------------------
(* Properties *)

(* The array as a rotation: the copies of each ad, and its cached deadline. *)
AsRotation ==
  [a \in Ads |-> Cardinality({i \in DOMAIN ads : ads[i].ad = a})]
Deadlines ==
  [a \in Ads |-> IF \E i \in DOMAIN ads : ads[i].ad = a
                   THEN ads[CHOOSE i \in DOMAIN ads : ads[i].ad = a].until
                   ELSE 0]

(* The loop returns the first eligible slot at or after the cursor, other     *)
(* sites' ads before the caller's own, and leaves the cursor the definitions  *)
(* of Rotation say, also after an eviction has left it beyond the end.        *)
LoopMeetsRotation ==
  \A src \in Sites :
    LET chosen == Chosen(AsRotation, Deadlines, now, src, cursor)
    IN /\ IF Result(src) = 0 THEN chosen = {}
          ELSE \E s \in chosen : s[1] = ads[Result(src)].ad
       /\ Attempts(src).cursor =
            CursorAfter(AsRotation, Deadlines, now, src, cursor)

(* A copy that belongs to none of the sites that ask is not passed over for   *)
(* longer than one lap of the array, whoever asks and in whatever order: the  *)
(* cursor all sources share never jumps it (rotationCache.ts:104-119).        *)
OutsidersWaitOneLap ==
  \A i \in DOMAIN ads : SiteAt(i) \notin Sources => missed[i] < Len(ads)
=============================================================================
