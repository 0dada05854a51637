----------------------------- MODULE MCRequests ------------------------------
(* A small instance of Requests for TLC. *)
EXTENDS Requests, TLC

CONSTANTS
  r1, r2, s1, s2, s3, s4, license1, blog, shop, other, domain1, domain2,
  price1, price2, mail1, mail2

RequestSymmetry == Permutations(Requests)

MCMaxActivations == [l \in Licenses |-> 1]

(* A blog and a shop share a domain. *)
MCDomainOf == [u \in Urls |-> IF u = other THEN domain2 ELSE domain1]

MCAmountOf == [p \in Prices |-> IF p = price1 THEN 1 ELSE 2]
MCEnvPrice == [p \in Plans |-> price1]

(* A buyer without a site; a site's, whose plugin sends the e-mail with the   *)
(* request; and the public form, which takes any siteId with any URL.        *)
MCCustomers ==
  {[site |-> NoSite, url |-> blog, email |-> mail1],
   [site |-> s1, url |-> blog, email |-> mail1],
   [site |-> s1, url |-> blog, email |-> mail2],
   [site |-> s1, url |-> other, email |-> mail1],
   [site |-> s2, url |-> blog, email |-> mail1]}

MCAdOwner == <<s1, s3, s4>>

(* No step of the activations depends on a site's row, nor does the property *)
(* checked of them: states that differ in the rows alone are one.            *)
View ==
  IF part = "activations"
    THEN <<part, license, active, entReq, sweep, now, trials>>
    ELSE allVars

(* Bound: a request for checkout that goes on into the second half-hour goes *)
(* on alone.                                                                 *)
AloneInLastWindow == window = MaxWindow => \E r \in Requests : payReq[r].op = "none"

(* Bound: when MaxSessions are open, their keys are compared and the behavior *)
(* ends; and once one is open, the operator no longer switches the plan off. *)
(* Neither takes anything from what is checked of the settings.              *)
SessionsLeft ==
  /\ Cardinality(opened) < MaxSessions
  /\ opened # {} =>
       \A r \in Requests : payReq[r].op = "save" => Pay!Enabled(payReq[r].settings) # {}
=============================================================================
