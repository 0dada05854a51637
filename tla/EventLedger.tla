---------------------------- MODULE EventLedger -----------------------------
(***************************************************************************)
(* What the event queue of the ad server promises when the database's      *)
(* answers are not lost: an accepted event is pending until it is recorded *)
(* once or lost; events are recorded in the order they were accepted; and  *)
(* those lost are consecutive in that order.                               *)
(***************************************************************************)
EXTENDS Naturals, Sequences

CONSTANT MaxEvents    \* bound on the events accepted

VARIABLES
  accepted,   \* events are numbered 1 .. accepted, as they are accepted
  pending,    \* accepted events neither recorded nor lost, in order
  recorded,   \* the events counted in the database, in order
  lost,       \* accepted events given up
  ended       \* the process has ended: what is pending stays so

vars == <<accepted, pending, recorded, lost, ended>>

Init ==
  /\ accepted = 0
  /\ pending = <<>>
  /\ recorded = <<>>
  /\ lost = {}
  /\ ended = FALSE

Accept ==
  /\ ~ended
  /\ accepted < MaxEvents
  /\ accepted' = accepted + 1
  /\ pending' = Append(pending, accepted + 1)
  /\ UNCHANGED <<recorded, lost, ended>>

(* The n oldest pending events are recorded together. *)
Record(n) ==
  /\ ~ended
  /\ recorded' = recorded \o SubSeq(pending, 1, n)
  /\ pending' = SubSeq(pending, n + 1, Len(pending))
  /\ UNCHANGED <<accepted, lost, ended>>

(* The pending events at the positions i .. j are given up. *)
Lose(i, j) ==
  /\ ~ended
  /\ lost' = lost \cup {pending[k] : k \in i .. j}
  /\ pending' = SubSeq(pending, 1, i - 1) \o SubSeq(pending, j + 1, Len(pending))
  /\ UNCHANGED <<accepted, recorded, ended>>

End ==
  /\ ~ended
  /\ ended' = TRUE
  /\ UNCHANGED <<accepted, pending, recorded, lost>>

Next ==
  \/ Accept
  \/ \E n \in 1 .. Len(pending) : Record(n)
  \/ \E i \in 1 .. Len(pending) : \E j \in i .. Len(pending) : Lose(i, j)
  \/ End

Spec == Init /\ [][Next]_vars
=============================================================================
