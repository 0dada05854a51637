---------------------------- MODULE AdminScript ------------------------------
(***************************************************************************)
(* The product search of the plugin's ad form                              *)
(* (wp-advertising/assets/admin.js): a debounced search whose answers come *)
(* in any order, and the button that loads another random product.         *)
(***************************************************************************)
EXTENDS Naturals

CONSTANTS
  Terms,     \* what may be in the search field
  TooShort,  \* the terms of less than two characters
  MaxTypes   \* bound on the changes of the field

VARIABLES
  field,     \* the value of the search field
  timer,     \* the term the timer holds; NoTerm: it is not set
  inflight,  \* the terms whose requests are not answered
  asked,     \* history: the terms asked for since the field last changed
  results,   \* [term, hidden]: whose results the list holds, if any
  selected,  \* the term in whose results the product was chosen
  button,    \* of the random product: "ready" or "loading"
  types

vars == <<field, timer, inflight, asked, results, selected, button, types>>

NoTerm == "none"

TypeOK ==
  /\ field \in Terms \cup {NoTerm} /\ timer \in Terms \cup {NoTerm}
  /\ inflight \subseteq Terms /\ asked \subseteq Terms
  /\ results \in [term : Terms \cup {NoTerm}, hidden : BOOLEAN]
  /\ selected \in Terms \cup {NoTerm}
  /\ button \in {"ready", "loading"}
  /\ types \in 0 .. MaxTypes

Empty == [term |-> NoTerm, hidden |-> TRUE]

Init ==
  /\ field = NoTerm /\ timer = NoTerm
  /\ inflight = {} /\ asked = {}
  /\ results = Empty /\ selected = NoTerm
  /\ button = "ready" /\ types = 0

(* Mutant: while the timer runs it is left as it is. *)
Throttled(term) == IF timer = NoTerm THEN term ELSE timer

(* clearTimeout, then setTimeout *)
Debounced(term) == term

(* searchProducts, on each input *)
Input(term) ==
  /\ types < MaxTypes
  /\ types' = types + 1
  /\ field' = term
  /\ timer' = Debounced(term)
  /\ asked' = {}
  /\ UNCHANGED <<inflight, results, selected, button>>

(* 220 ms later *)
Search ==
  /\ timer # NoTerm
  /\ timer' = NoTerm
  /\ IF timer \in TooShort
       THEN results' = Empty /\ UNCHANGED <<inflight, asked>>
       ELSE /\ inflight' = inflight \cup {timer}
            /\ asked' = asked \cup {timer}
            /\ results' = results
  /\ UNCHANGED <<field, selected, button, types>>

(* renderProductResults: whichever answer comes last is shown. *)
Answered(term) ==
  /\ term \in inflight
  /\ inflight' = inflight \ {term}
  /\ results' = [term |-> term, hidden |-> FALSE]
  /\ UNCHANGED <<field, timer, asked, selected, button, types>>

Lost(term) ==
  /\ term \in inflight
  /\ inflight' = inflight \ {term}
  /\ UNCHANGED <<field, timer, asked, results, selected, button, types>>

(* A click on a product fills the field by script, which is no input. *)
Select ==
  /\ ~results.hidden
  /\ selected' = results.term
  /\ results' = Empty
  /\ UNCHANGED <<field, timer, inflight, asked, button, types>>

ClickOutside ==
  /\ results' = [results EXCEPT !.hidden = TRUE]
  /\ UNCHANGED <<field, timer, inflight, asked, selected, button, types>>

RefreshRandom ==
  /\ button = "ready"
  /\ button' = "loading"
  /\ UNCHANGED <<field, timer, inflight, asked, results, selected, types>>

(* always: also when the request fails. *)
Refreshed ==
  /\ button = "loading"
  /\ button' = "ready"
  /\ UNCHANGED <<field, timer, inflight, asked, results, selected, types>>

Next ==
  \/ \E term \in Terms : Input(term) \/ Answered(term) \/ Lost(term)
  \/ Search \/ Select \/ ClickOutside
  \/ RefreshRandom \/ Refreshed

(* The timer fires. *)
Fairness == WF_vars(Search)

-----------------------------------------------------------------------------
(* Properties *)

(* However fast the seller types, the term the field is left with is         *)
(* searched for: the debounce drops earlier ones, never the last             *)
(* (admin.js:19-34).                                                         *)
LastTermIsSearched ==
  \A term \in Terms \ TooShort :
    field = term ~> term \in asked \/ field # term
=============================================================================
