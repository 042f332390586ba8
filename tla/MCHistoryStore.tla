-------------------------- MODULE MCHistoryStore --------------------------
(***************************************************************************)
(* HistoryStore on a small instance: what may go wrong.                    *)
(***************************************************************************)
EXTENDS HistoryStore, TLC

AllFaults == FaultKinds
CommitOnly == {"commit"}
NoFaults == {}
=============================================================================
