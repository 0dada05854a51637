---------------------------- MODULE AdminClient ------------------------------
(***************************************************************************)
(* The operators' web client (wp-advertising-admin/src): it keeps no state *)
(* but two cookies in the operator's browser, the signed admin token and   *)
(* the message to show next, and turns each page and each button into a    *)
(* call of the ad server, which may refuse the token, fail, or do what it  *)
(* is asked and have its answer lost.                                      *)
(*                                                                         *)
(* The tabs of the browser share the cookies.  A request is sent with the  *)
(* cookies of that moment and answered later.                              *)
(***************************************************************************)
EXTENDS Naturals

CONSTANTS
  Tabs,
  MaxToken   \* bound on the admin tokens the ad server is given in turn

VARIABLES
  token,    \* the ad server's ADMIN_TOKEN
  cookie,   \* wpa_admin_session; NoToken: none, or expired
  message,  \* wpa_flash: "none", "ok" or "failed"
  tab       \* what each tab shows, or waits for

vars == <<token, cookie, message, tab>>

NoToken == 0
Tokens == 1 .. MaxToken
Messages == {"none", "ok", "failed"}

(* list: one of the pages that come back to themselves when their query      *)
(* fails; site: a site's own page; home: the overview, which has no buttons. *)
Pages == {"login", "home", "list", "site", "billing"}
WithButtons == {"list", "site", "billing"}

(* Where handleAdError sends a page whose query failed. *)
Fallback(page) ==
  CASE page = "home" -> "login"
    [] page = "billing" -> "home"
    [] page = "site" -> "list"
    [] OTHER -> page

(* A tab rests on a page, or has asked for it (get), or has pressed a button *)
(* on it (post), with the cookies it sent.                                   *)
TabStates ==
  [at : {"rest", "get", "post"}, page : Pages, sent : Tokens \cup {NoToken},
   flash : Messages]

TypeOK ==
  /\ token \in Tokens /\ cookie \in Tokens \cup {NoToken}
  /\ message \in Messages
  /\ tab \in [Tabs -> TabStates]

Resting(page) == [at |-> "rest", page |-> page, sent |-> NoToken, flash |-> "none"]

Init ==
  /\ token = 1 /\ cookie = NoToken /\ message = "none"
  /\ tab = [t \in Tabs |-> Resting("login")]

Shows(t, page) == tab' = [tab EXCEPT ![t] = Resting(page)]

(* The browser asks for a page with the cookies it has now; requireSession   *)
(* turns a request without a token to /login.                                *)
Asks(t, page) ==
  tab' = [tab EXCEPT ![t] =
            [at |-> "get", page |-> IF cookie' = NoToken THEN "login" ELSE page,
             sent |-> cookie', flash |-> message']]

(* Mutant: the session is kept when the ad server refuses its token. *)
KeptSession == cookie

(* clearSession *)
ClearedSession == NoToken

(* handleAdError, 401: whichever session the browser has by now is cleared. *)
SignedOut(t) ==
  /\ cookie' = ClearedSession
  /\ message' = message
  /\ Asks(t, "login")

(* handleAdError, any other failure *)
Failed(t, page) ==
  /\ message' = "failed"
  /\ cookie' = cookie
  /\ Asks(t, page)

-----------------------------------------------------------------------------
(* The operator *)

Visit(t, page) ==
  /\ tab[t].at = "rest"
  /\ UNCHANGED <<token, cookie, message>>
  /\ Asks(t, page)

(* POST /login: the token is tried before it becomes the session. *)
LogIn(t, tok) ==
  /\ tab[t] = Resting("login")
  /\ UNCHANGED <<token, message>>
  /\ \/ tok = token /\ cookie' = tok /\ Asks(t, "home")
     \/ cookie' = cookie /\ Shows(t, "login")

LogOut(t) ==
  /\ tab[t].at = "rest" /\ tab[t].page # "login"
  /\ cookie' = NoToken
  /\ UNCHANGED <<token, message>>
  /\ Asks(t, "login")

Press(t) ==
  /\ tab[t].at = "rest" /\ tab[t].page \in WithButtons
  /\ UNCHANGED <<token, cookie, message>>
  /\ IF cookie = NoToken
       THEN Asks(t, "login")
       ELSE tab' = [tab EXCEPT ![t].at = "post", ![t].sent = cookie]

(* Twelve hours later, and thirty seconds. *)
Expire ==
  /\ \/ cookie # NoToken /\ cookie' = NoToken /\ message' = message
     \/ message # "none" /\ message' = "none" /\ cookie' = cookie
  /\ UNCHANGED <<token, tab>>

(* The ad server is started with another ADMIN_TOKEN. *)
Rotate ==
  /\ token < MaxToken
  /\ token' = token + 1
  /\ UNCHANGED <<cookie, message, tab>>

-----------------------------------------------------------------------------
(* The client's handlers *)

(* GET /login *)
LoginPage(t) ==
  /\ tab[t].at = "get" /\ tab[t].page = "login"
  /\ UNCHANGED <<token, cookie, message>>
  /\ IF tab[t].sent # NoToken THEN Asks(t, "home") ELSE Shows(t, "login")

(* The request waits for an answer of the ad server. *)
Calls(t) ==
  \/ tab[t].at = "post"
  \/ tab[t].at = "get" /\ tab[t].page # "login"

(* takeFlash: the message that was sent is shown; the one there is by now is *)
(* cleared.                                                                  *)
Page(t) ==
  /\ Calls(t) /\ tab[t].at = "get"
  /\ tab[t].sent = token
  /\ message' = IF tab[t].flash # "none" THEN "none" ELSE message
  /\ UNCHANGED <<token, cookie>>
  /\ Shows(t, tab[t].page)

(* The ad server does as it is asked; the browser is sent back to the page.  *)
Button(t) ==
  /\ tab[t].at = "post"
  /\ tab[t].sent = token
  /\ UNCHANGED <<token, cookie>>
  /\ message' = "ok"
  /\ Asks(t, tab[t].page)

(* POST /billing/reconcile shows its results at once. *)
Reconcile(t) ==
  /\ tab[t].at = "post" /\ tab[t].page = "billing"
  /\ tab[t].sent = token
  /\ UNCHANGED <<token, cookie, message>>
  /\ Shows(t, "billing")

(* 401 *)
Refused(t) ==
  /\ Calls(t)
  /\ tab[t].sent # token
  /\ SignedOut(t)
  /\ UNCHANGED token

(* The ad server is down, fails, or limits the rate; a button may have been  *)
(* carried out.                                                              *)
Fails(t) ==
  /\ Calls(t)
  /\ Failed(t, IF tab[t].at = "get" THEN Fallback(tab[t].page) ELSE tab[t].page)
  /\ UNCHANGED token

Handler(t) == LoginPage(t) \/ Page(t) \/ Button(t) \/ Reconcile(t) \/ Refused(t)

Next ==
  \/ \E t \in Tabs :
       \/ \E page \in Pages : Visit(t, page)
       \/ \E tok \in Tokens : LogIn(t, tok)
       \/ LogOut(t) \/ Press(t)
       \/ Handler(t) \/ Fails(t)
  \/ Expire \/ Rotate

(* Requests are answered, and the ad server does not fail for ever. *)
Fairness ==
  /\ \A t \in Tabs : WF_vars(Handler(t))
  /\ <>[][\A t \in Tabs : ~Fails(t)]_vars

-----------------------------------------------------------------------------
(* Properties *)

(* However tokens are replaced, sessions expire and other tabs log in or     *)
(* out, a tab's redirections come to an end on a page, unless the ad server  *)
(* fails for ever (app.ts:34-45, 62-66, 129-136).                            *)
RedirectionsEnd == \A t \in Tabs : tab[t].at # "rest" ~> tab[t].at = "rest"
=============================================================================
