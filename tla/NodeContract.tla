---------------------------- MODULE NodeContract ----------------------------
(***************************************************************************)
(* What a cosyfir node promises the rest of the system: after a start it   *)
(* joins the network or resumes a stored session; with a session it        *)
(* attempts an uplink each time one becomes due, and one becomes due again *)
(* and again.  It never gives a session up.                                *)
(***************************************************************************)

VARIABLE phase

Phase == {"boot",     \* started, or about to
          "joining",  \* a join request is with the MAC
          "backoff",  \* no session, waiting to ask again
          "due",      \* an uplink has to be attempted
          "sent",     \* it was attempted
          "waiting"}  \* session, next uplink not yet due

TypeOK == phase \in Phase

Init == phase = "boot"

Move(from, to) == phase \in from /\ phase' \in to

Ask     == Move({"boot", "backoff", "joining"}, {"joining", "backoff"})
Resume  == Move({"boot"}, {"due"})
Accept  == Move({"joining"}, {"due"})
Attempt == Move({"due"}, {"sent"})
Rest    == Move({"sent"}, {"waiting"})
Expire  == Move({"waiting"}, {"due"})
Restart == Move(Phase, {"boot"})

Next ==
  \/ Ask \/ Resume \/ Accept
  \/ Attempt \/ Rest \/ Expire
  \/ Restart

Spec == Init /\ [][Next]_phase

Fairness ==
  /\ WF_phase(Attempt)
  /\ WF_phase(Rest)
  /\ WF_phase(Expire)

FairSpec == Spec /\ Fairness
=============================================================================
