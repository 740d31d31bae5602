----------------------- MODULE NodeCountersProperties -----------------------
(***************************************************************************)
(* What a restart may cost a node.                                         *)
(***************************************************************************)
EXTENDS NodeCounters, LoRaNodeProperties

\* A node resumes a session that the server has replaced, and is not heard
\* from then on, only after two restarts: one at which the stored context
\* could not be read, so that the node joined anew, and one before the new
\* session was stored.  One restart at any moment never does it, because no
\* handler joins while there is a session (LoRa.c:245, :569, :627, :708).
ReplacedOnlyAfterTwoRestarts ==
  /\ session = "replaced" => resets >= 2
  /\ stored = "replaced" => resets >= 1

\* A node that resumed the server's session with an older counter, because it
\* restarted between an uplink and the next store, is heard again: it goes on
\* sending until its counter has passed the server's (LoRa.c:635, :692-711).
\* It presumes a MAC that takes a frame in the end when it is asked again and
\* again while it is idle.
CatchesUp ==
  SF_allVars(AcceptedAndCounted) =>
    (session = "current" /\ ahead > 0 ~> ahead = 0 \/ session = "none")

\* Nothing blocks what CountersFairSpec and CatchesUp are fair to: besides the
\* steps of LoRaNode, an idle MAC can take the frame of an attempt.
CountersStepsEnabled ==
  /\ StepsEnabled
  /\ pc = "case_SEND" /\ NextTx /\ macRequest = "none" =>
       ENABLED <<AcceptedAndCounted>>_allVars

-----------------------------------------------------------------------------
(* The inductive invariant, on top of LoRaNode's                           *)

\* The MAC has a session if and only if one is modelled, and the same holds
\* of the store.
SessionsAgree ==
  /\ activated <=> session # "none"
  /\ nvmSession <=> stored # "none"

\* The stored session is the one the node runs, until it restarts; and only a
\* node that runs a newer one finds it replaced, until the next restart.
StoredSessionIsUsed ==
  session = "none" =>
    /\ resets = 0 => stored = "none"
    /\ stored = "replaced" => resets >= 2

CountersInv ==
  /\ IInv
  /\ CountersTypeOK
  /\ SessionsAgree
  /\ StoredSessionIsUsed
  /\ ReplacedOnlyAfterTwoRestarts
=============================================================================
