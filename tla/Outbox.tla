-------------------------------- MODULE Outbox --------------------------------
(***************************************************************************)
(* What the outbox of invitations promises, without workers, leases,       *)
(* retries or clocks: an event that was recorded is closed at most once    *)
(* and for good; it is closed as PROCESSED only after the mail has gone    *)
(* out and given up only after the last of MaxAttempts attempts.  Mail may *)
(* go out more than once, and also late, after the event was closed:       *)
(* delivery is at least once, not exactly once.                            *)
(***************************************************************************)
EXTENDS Naturals

CONSTANTS Event, MaxAttempts

VARIABLES
  state,    \* of every possible event
  attempt,  \* how often it was taken up
  mailed    \* events whose mail has gone out at least once

outboxVars == <<state, attempt, mailed>>

Outcome == {"PROCESSED", "OBSOLETE", "DEAD_LETTER"}

Init ==
  /\ state = [e \in Event |-> "ABSENT"]
  /\ attempt = [e \in Event |-> 0]
  /\ mailed = {}

\* Several events may be recorded or closed together: an invitation sent again
\* closes the events of its older tokens and records one.
Move(before, after) ==
  \/ before = after
  \/ before = "ABSENT" /\ after = "OPEN"
  \/ before = "OPEN" /\ after \in Outcome

Write ==
  /\ state' \in [Event -> {"ABSENT", "OPEN"} \cup Outcome]
  /\ \A e \in Event :
       /\ Move(state[e], state'[e])
       /\ state[e] = "OPEN" /\ state'[e] = "PROCESSED" => e \in mailed
       /\ state[e] = "OPEN" /\ state'[e] = "DEAD_LETTER" => attempt[e] = MaxAttempts
  /\ UNCHANGED <<attempt, mailed>>

\* The attempts are counted when they begin, and no further than the last: an
\* attempt that dies may be repeated without being counted.
TakeUp(e) ==
  /\ state[e] = "OPEN"
  /\ attempt[e] < MaxAttempts
  /\ attempt' = [attempt EXCEPT ![e] = @ + 1]
  /\ UNCHANGED <<state, mailed>>

Mail(e) ==
  /\ state[e] # "ABSENT"
  /\ mailed' = mailed \cup {e}
  /\ UNCHANGED <<state, attempt>>

Next == Write \/ \E e \in Event : TakeUp(e) \/ Mail(e)

Spec == Init /\ [][Next]_outboxVars
=============================================================================
