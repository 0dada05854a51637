------------------------------ MODULE MCBilling ------------------------------
(* Small instances of BillingSync for TLC: two customers share both sites.   *)
EXTENDS BillingSync, TLC

CONSTANTS l1, l2, w1, w2

MCCustomerOf == [l \in Subs |-> l]
MCHomeOf == [l \in Subs |-> 1]
MCBound == [l \in Subs |-> Sites]
MCMaxVersion == [l \in Subs |-> IF l = l1 THEN 2 ELSE 1]
SyncSymmetry == Permutations(Syncs)
=============================================================================
