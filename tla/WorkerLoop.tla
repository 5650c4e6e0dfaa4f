------------------------------ MODULE WorkerLoop ------------------------------
(***************************************************************************)
(* The process of the worker (worker/src/index.ts): startWorker verifies   *)
(* the database and starts a timer; every tick asks for a cycle, which     *)
(* looks for media to clean up and then for an invitation to deliver; a    *)
(* signal or a failed verification shuts the worker down, which waits for  *)
(* the cycle in progress and then disconnects.                             *)
(*                                                                         *)
(* JavaScript runs one callback at a time: a step is what runs between two *)
(* waits.  What a cycle does is modelled in MediaLibrary and               *)
(* InvitationOutbox; here it only goes on, ends or throws.                 *)
(***************************************************************************)
CONSTANTS
  Cycle,  \* the promises of processWorkerCycle
  NoTask

ASSUME NoTaskAssumption == NoTask \notin Cycle

VARIABLES
  start,        \* of startWorker: "VERIFYING", "STARTED" or "FAILED"
  timer,        \* is the interval set?
  stage,        \* of every cycle: "IDLE" when it is not running
  activeTask,
  taskToDrain,  \* what shutdownTask waits for
  shutdownTask  \* "NONE", "DRAINING" or "DISCONNECTED"

loopVars == <<start, timer, stage, activeTask, taskToDrain, shutdownTask>>

LoopTypeOK ==
  /\ start \in {"VERIFYING", "STARTED", "FAILED"}
  /\ timer \in BOOLEAN
  /\ stage \in [Cycle -> {"IDLE", "MEDIA", "INVITATION"}]
  /\ activeTask \in Cycle \cup {NoTask}
  /\ taskToDrain \in Cycle \cup {NoTask}
  /\ shutdownTask \in {"NONE", "DRAINING", "DISCONNECTED"}

LoopInit ==
  /\ start = "VERIFYING"
  /\ timer = FALSE
  /\ stage = [c \in Cycle |-> "IDLE"]
  /\ activeTask = NoTask
  /\ taskToDrain = NoTask
  /\ shutdownTask = "NONE"

stopped == shutdownTask # "NONE"

-----------------------------------------------------------------------------
(* Polls *)

\* Mistaken variant: a tick does not look at the cycle in progress.
PollNowAtOnce(c) ==
  /\ timer /\ ~stopped
  /\ stage[c] = "IDLE"
  /\ stage' = [stage EXCEPT ![c] = "MEDIA"]
  /\ activeTask' = c
  /\ UNCHANGED <<start, timer, taskToDrain, shutdownTask>>

\* The timer's tick.
PollNow(c) ==
  /\ timer /\ ~stopped
  /\ activeTask = NoTask
  /\ stage[c] = "IDLE"
  /\ stage' = [stage EXCEPT ![c] = "MEDIA"]
  /\ activeTask' = c
  /\ UNCHANGED <<start, timer, taskToDrain, shutdownTask>>

\* processNextMediaCleanup returns.
CleanUp(c) ==
  /\ stage[c] = "MEDIA"
  /\ stage' = [stage EXCEPT ![c] = "INVITATION"]
  /\ UNCHANGED <<start, timer, activeTask, taskToDrain, shutdownTask>>

\* Mistaken variant: an error leaves its promise in activeTask.
SettleKeeping(c) ==
  /\ stage' = [stage EXCEPT ![c] = "IDLE"]
  /\ activeTask' = IF activeTask = c /\ stage[c] # "MEDIA" THEN NoTask ELSE activeTask
  /\ UNCHANGED <<start, timer, taskToDrain, shutdownTask>>

\* The callbacks of the promise, which run before anything else does.
Settle(c) ==
  /\ stage' = [stage EXCEPT ![c] = "IDLE"]
  /\ activeTask' = IF activeTask = c THEN NoTask ELSE activeTask
  /\ UNCHANGED <<start, timer, taskToDrain, shutdownTask>>

\* An error of the cleanup ends the cycle.
FailToCleanUp(c) == stage[c] = "MEDIA" /\ Settle(c)

\* processNextInvitation returns or throws.
EndCycle(c) == stage[c] = "INVITATION" /\ Settle(c)

-----------------------------------------------------------------------------
(* Start and stop *)

\* loop.start()
Start ==
  /\ start = "VERIFYING"
  /\ start' = "STARTED"
  /\ timer' = ~stopped
  /\ UNCHANGED <<stage, activeTask, taskToDrain, shutdownTask>>

\* loop.shutdown(): once.
Shutdown ==
  IF stopped
  THEN UNCHANGED <<timer, taskToDrain, shutdownTask>>
  ELSE /\ timer' = FALSE
       /\ taskToDrain' = activeTask
       /\ shutdownTask' = "DRAINING"

\* The database is not as it should be: startWorker shuts down and throws.
FailToStart ==
  /\ start = "VERIFYING"
  /\ start' = "FAILED"
  /\ Shutdown
  /\ UNCHANGED <<stage, activeTask>>

Signal ==
  /\ ~stopped
  /\ Shutdown
  /\ UNCHANGED <<start, stage, activeTask>>

Disconnect ==
  /\ shutdownTask = "DRAINING"
  /\ taskToDrain # NoTask => stage[taskToDrain] = "IDLE"
  /\ shutdownTask' = "DISCONNECTED"
  /\ UNCHANGED <<start, timer, stage, activeTask, taskToDrain>>

LoopNext ==
  \/ \E c \in Cycle : PollNow(c) \/ CleanUp(c) \/ FailToCleanUp(c) \/ EndCycle(c)
  \/ Start \/ FailToStart \/ Signal \/ Disconnect

\* The timer ticks, what the worker calls returns, and a promise that is settled
\* goes on.  Nobody has to send a signal.
LoopFairness ==
  /\ WF_loopVars(\E c \in Cycle : PollNow(c))
  /\ \A c \in Cycle : WF_loopVars(CleanUp(c) \/ FailToCleanUp(c) \/ EndCycle(c))
  /\ WF_loopVars(Start \/ FailToStart)
  /\ WF_loopVars(Disconnect)

LoopSpec == LoopInit /\ [][LoopNext]_loopVars /\ LoopFairness

-----------------------------------------------------------------------------
(* Properties *)

\* The worker disconnects after its last cycle: none is running then, none begins
\* later, whichever way ticks, signals, a late verification and errors come
\* together.  Two cycles never overlap, or the shutdown would wait for one only.
StopsInOrder ==
  /\ shutdownTask = "DISCONNECTED" => \A c \in Cycle : stage[c] = "IDLE"
  /\ stopped => ~timer
  /\ \A c, e \in Cycle : stage[c] # "IDLE" /\ stage[e] # "IDLE" => c = e

\* A shutdown ends.  Errors do not stop the polls: as long as the cleanups do not
\* fail for ever, the invitations are looked at again and again, until a shutdown.
InvitationsAreReached ==
  /\ stopped ~> shutdownTask = "DISCONNECTED"
  /\ (<>[][\A c \in Cycle : ~FailToCleanUp(c)]_loopVars)
       => [](timer => <>(stopped \/ \E c \in Cycle : stage[c] = "INVITATION"))
=============================================================================
