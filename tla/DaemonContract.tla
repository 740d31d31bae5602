--------------------------- MODULE DaemonContract ---------------------------
(***************************************************************************)
(* What the daemon promises its user: it serves until it is told to quit   *)
(* or something fails.  A failure, of the start as of the network thread,  *)
(* is shown and has to be confirmed before the program returns             *)
(* EXIT_FAILURE; EXIT_SUCCESS is returned only when nothing failed.  Once  *)
(* something has failed the daemon does not serve again.                   *)
(*                                                                         *)
(* A daemon that has failed may also crash, because its client is          *)
(* destroyed under the network thread; one that is told to quit may not.   *)
(***************************************************************************)

VARIABLES phase, status

vars == <<phase, status>>

Phase == {"starting",
          "serving",
          "leaving",  \* the user asked it to quit
          "failed",   \* there is an error the user does not know of
          "prompt",   \* the error is shown and waits for 'q'
          "over"}

Status == {"none", "SUCCESS", "FAILURE", "CRASH"}

TypeOK == phase \in Phase /\ status \in Status

Init == phase = "starting" /\ status = "none"

Move(from, to) == phase \in from /\ phase' = to /\ UNCHANGED status

End(from, result) == phase \in from /\ phase' = "over" /\ status' = result

Inform  == End({"starting"}, "SUCCESS")
Serve   == Move({"starting"}, "serving")
Fail    == Move({"starting", "serving", "leaving"}, "failed")
Quit    == Move({"serving"}, "leaving")
Leave   == End({"leaving"}, "SUCCESS")
Report  == Move({"failed"}, "prompt")
Confirm == End({"prompt"}, "FAILURE")
Crash   == End({"failed", "prompt"}, "CRASH")

Next ==
  \/ Inform \/ Serve \/ Fail
  \/ Quit \/ Leave
  \/ Report \/ Confirm \/ Crash

Spec == Init /\ [][Next]_vars

\* The daemon decides whether it can serve, leaves when it is asked to, and
\* reports a failure.
Fairness ==
  /\ WF_vars(Inform \/ Serve \/ (phase = "starting" /\ Fail))
  /\ WF_vars(Leave)
  /\ WF_vars(Report)

FairSpec == Spec /\ Fairness
=============================================================================
