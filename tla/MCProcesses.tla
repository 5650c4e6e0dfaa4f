----------------------------- MODULE MCProcesses -----------------------------
(* An instance of AuthRateLimit, WorkerLoop and UploadAdmission for TLC.  The *)
(* three share nothing: a behaviour is one of any of them.                    *)
EXTENDS AuthRateLimit, WorkerLoop, UploadAdmission

VARIABLE program

Init ==
  /\ program \in {"limits", "worker", "uploads"}
  /\ RateInit /\ LoopInit /\ UploadInit

Next ==
  /\ \/ program = "limits" /\ RateNext /\ UNCHANGED <<loopVars, uploadVars>>
     \/ program = "worker" /\ LoopNext /\ UNCHANGED <<rateVars, uploadVars>>
     \/ program = "uploads" /\ UploadNext /\ UNCHANGED <<rateVars, loopVars>>
  /\ UNCHANGED program

Spec ==
  /\ Init /\ [][Next]_<<program, rateVars, loopVars, uploadVars>>
  /\ program = "worker" => LoopFairness
  /\ program = "uploads" => UploadFairness
=============================================================================
