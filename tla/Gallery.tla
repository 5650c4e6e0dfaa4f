-------------------------------- MODULE Gallery --------------------------------
(***************************************************************************)
(* What the photographs of a property promise to those who look at them:   *)
(* the ones on show stand in an order of their own, every change of the    *)
(* collection raises its version by one, and a photograph that was once    *)
(* shown can be read for good, also when it is no longer on show.  There   *)
(* are no uploads, positions, events, clocks or failures here.             *)
(***************************************************************************)
EXTENDS Naturals

CONSTANT Media

VARIABLES
  shown,    \* the photographs on show
  before,   \* pairs of them, the first of which comes before the second
  version,  \* how often the collection changed
  kept,     \* the photographs that are or were on show
  objects   \* what can be read from the storage

galleryVars == <<shown, before, version, kept, objects>>

Init ==
  /\ shown = {}
  /\ before = {}
  /\ version = 0
  /\ kept = {}
  /\ objects = {}

\* A new photograph comes last.
Add(m) ==
  /\ m \in objects \ kept
  /\ shown' = shown \cup {m}
  /\ before' = before \cup (shown \X {m})
  /\ kept' = kept \cup {m}
  /\ version' = version + 1
  /\ UNCHANGED objects

\* The others stay in their order.
Remove(m) ==
  /\ m \in shown
  /\ shown' = shown \ {m}
  /\ before' = before \cap (shown' \X shown')
  /\ version' = version + 1
  /\ UNCHANGED <<kept, objects>>

IsOrder(b, S) ==
  /\ b \subseteq S \X S
  /\ \A x, y \in S : <<x, y>> \in b => <<y, x>> \notin b
  /\ \A x, y \in S : x # y => <<x, y>> \in b \/ <<y, x>> \in b
  /\ \A x, y, z \in S : <<x, y>> \in b /\ <<y, z>> \in b => <<x, z>> \in b

Arrange ==
  /\ IsOrder(before', shown)
  /\ before' # before
  /\ version' = version + 1
  /\ UNCHANGED <<shown, kept, objects>>

\* Objects come and go, except for those that are kept.
Store ==
  /\ kept \subseteq objects'
  /\ objects' \subseteq Media
  /\ UNCHANGED <<shown, before, version, kept>>

Next ==
  \/ \E m \in Media : Add(m) \/ Remove(m)
  \/ Arrange
  \/ Store

Spec == Init /\ [][Next]_galleryVars
=============================================================================
