-------------------------- MODULE MCRotationCache ---------------------------
(* Small instances of RotationCache for TLC. *)
EXTENDS RotationCache, TLC

CONSTANTS s1, s2, h1, h2

MCSiteOf == [a \in Ads |-> IF a % 2 = 1 THEN s1 ELSE s2]
HandlerSymmetry == Permutations(Handlers)

(* Both sites start eligible, with one copy of one ad each, until the bound. *)
MCInit ==
  /\ Init
  /\ siteRow = [s \in Sites |-> MaxTime]
  /\ adRow = [a \in Ads |-> 1]

MCSpec == MCInit /\ [][Next]_vars
MCFairSpec == MCSpec /\ Fairness

(* States that differ in history which no action reads, and which the        *)
(* invariants of CacheSafety do not mention, are visited once.               *)
SafetyView ==
  <<dbVars, cacheVars, [load EXCEPT !.covers = {}],
    [h \in Handlers |-> [op[h] EXCEPT !.covered = FALSE, !.ok = FALSE]],
    now, writes, shut>>
=============================================================================
