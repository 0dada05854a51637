--------------------------- MODULE MCEntitlements ---------------------------
(* Small instances of Entitlements for TLC. *)
EXTENDS Entitlements, TLC

CONSTANTS s1, s2, l1, l2, r1, r2

MCMaxActivations == [l \in Licenses |-> 1]
InFlight == {r \in Requests : req[r].op # "none"}

(* Bound: what is explored of the overlaps.  Two requests overlap when one   *)
(* is for a trial and the other for a trial or from the operator; once there *)
(* is a license, one request at a time, for a trial or an activation.  No    *)
(* step reads optedIn: the demonstration sites and the sites that opted in   *)
(* are followed where neither happens.                                       *)
ExploredOverlaps ==
  /\ Cardinality(InFlight) > 1 =>
       /\ \A r \in InFlight : req[r].op \in {"startTrial", "extendTrial"}
       /\ \E r \in InFlight : req[r].op = "startTrial"
       /\ \A s \in Sites : ~site[s].optedIn
  /\ \A l \in Licenses : license[l].status # "none" =>
       /\ Cardinality(InFlight) < 2
       /\ \A r \in InFlight : req[r].op \in {"startTrial", "activate"}
       /\ \A s \in Sites : ~site[s].optedIn
=============================================================================
