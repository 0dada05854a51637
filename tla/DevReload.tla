----------------------------- MODULE DevReload -------------------------------
(***************************************************************************)
(* The development reload of the two web servers (src/devReload.ts of the  *)
(* ad server and of the admin client, the same file twice): a page polls   *)
(* the revision of the assets and of the process, and reloads when it is   *)
(* no longer the one it was rendered with.                                 *)
(***************************************************************************)
EXTENDS Naturals

CONSTANT MaxEdits    \* edits and restarts begin below this revision

VARIABLES
  revision,  \* revision(): of the process and of the asset files
  readable,  \* FALSE while an editor replaces a file
  up,        \* is the process running?
  page,      \* the revision in the URL of the page's reload.js
  poll       \* "set": the timer runs; "sent": a poll awaits its answer;
             \* "reload": location.reload() has been called; "lost": the
             \* browser shows an error, which has no script

vars == <<revision, readable, up, page, poll>>

TypeOK ==
  /\ revision \in 0 .. MaxEdits + 1 /\ page \in 0 .. revision
  /\ readable \in BOOLEAN /\ up \in BOOLEAN
  /\ poll \in {"set", "sent", "reload", "lost"}

Init ==
  /\ revision = 0 /\ page = 0
  /\ readable = TRUE /\ up = TRUE
  /\ poll = "set"

(* An atomic save removes the file for a moment. *)
Save ==
  /\ readable
  /\ revision < MaxEdits
  /\ readable' = FALSE
  /\ UNCHANGED <<revision, up, page, poll>>

Saved ==
  /\ ~readable
  /\ readable' = TRUE
  /\ revision' = revision + 1
  /\ UNCHANGED <<up, page, poll>>

Stop ==
  /\ up
  /\ revision < MaxEdits
  /\ up' = FALSE
  /\ UNCHANGED <<revision, readable, page, poll>>

(* bootId is new, and so is every revision; an edit under way changes it again. *)
Restart ==
  /\ ~up
  /\ readable
  /\ up' = TRUE
  /\ revision' = revision + 1
  /\ UNCHANGED <<readable, page, poll>>

Poll ==
  /\ poll = "set"
  /\ poll' = "sent"
  /\ UNCHANGED <<revision, readable, up, page>>

(* GET /__dev/revision *)
Answered ==
  /\ poll = "sent"
  /\ up /\ readable
  /\ poll' = IF revision # page THEN "reload" ELSE "set"
  /\ UNCHANGED <<revision, readable, up, page>>

(* Mutant: the next poll is set only after an answer. *)
RescheduledOnAnswer == "none"

(* What a poll leaves behind that was answered 503, or not at all. *)
Rescheduled == "set"

Unanswered ==
  /\ poll = "sent"
  /\ ~up \/ ~readable
  /\ poll' = Rescheduled
  /\ UNCHANGED <<revision, readable, up, page>>

(* The page is rendered anew, with revision() in its script's URL. *)
Reload ==
  /\ poll = "reload"
  /\ IF up /\ readable
       THEN page' = revision /\ poll' = "set"
       ELSE page' = page /\ poll' = "lost"
  /\ UNCHANGED <<revision, readable, up>>

Next ==
  \/ Save \/ Saved \/ Stop \/ Restart
  \/ Poll \/ Answered \/ Unanswered \/ Reload

(* Editors finish, the watcher restarts the process, timers fire and         *)
(* requests come to an end.                                                  *)
Fairness ==
  /\ WF_vars(Saved) /\ WF_vars(Restart)
  /\ WF_vars(Poll) /\ WF_vars(Answered \/ Unanswered) /\ WF_vars(Reload)

-----------------------------------------------------------------------------
(* Properties *)

(* However saves and restarts fall between polls and answers, an open page   *)
(* comes to show the last revision, unless the reload itself, and not a      *)
(* poll, met a save or a restart (devReload.ts:40-63).                       *)
PagesCatchUp == <>[](page = revision \/ poll = "lost")
=============================================================================
