---------------------------- MODULE BillingLedger ----------------------------
(***************************************************************************)
(* What synchronisation with Stripe promises: the state recorded of a      *)
(* subscription never goes back to an older one, and the receipt of an     *)
(* event, given once, vouches for a recorded state that is as recent as    *)
(* the event.                                                              *)
(***************************************************************************)
EXTENDS Naturals

CONSTANTS
  Subs,       \* the subscriptions
  MaxVersion  \* bound on the states of each

VARIABLES
  current,   \* Stripe numbers the states of a subscription; event n reports n
  recorded,  \* the state recorded of each subscription; 0: none
  receipts   \* the events that need no further work

vars == <<current, recorded, receipts>>

Init ==
  /\ current = [l \in Subs |-> 1]
  /\ recorded \in [Subs -> {0, 1}]
  /\ receipts = {<<l, 1>> : l \in {k \in Subs : recorded[k] = 1}}

Change(l) ==
  /\ current[l] < MaxVersion[l]
  /\ current' = [current EXCEPT ![l] = @ + 1]
  /\ UNCHANGED <<recorded, receipts>>

Record(l, n, e) ==
  /\ recorded[l] =< n
  /\ recorded' = [recorded EXCEPT ![l] = n]
  /\ \/ UNCHANGED receipts
     \/ /\ e =< n
        /\ <<l, e>> \notin receipts
        /\ receipts' = receipts \cup {<<l, e>>}
  /\ UNCHANGED current

Next ==
  \/ \E l \in Subs : Change(l)
  \/ \E l \in Subs : \E n \in 1 .. current[l] : \E e \in 1 .. n : Record(l, n, e)

Spec == Init /\ [][Next]_vars
=============================================================================
