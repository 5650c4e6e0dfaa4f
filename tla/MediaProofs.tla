----------------------------- MODULE MediaProofs -----------------------------
(***************************************************************************)
(* The photographs of a property are well typed, keep their objects and    *)
(* their history, and every upload that comes to nothing is cleaned up or  *)
(* has a cleanup to come, for any photographs, lifetimes and bounds.       *)
(***************************************************************************)
EXTENDS MediaLibrary, TLAPS

\* A photograph keeps its object.
ObjectIsKept(m) ==
  media[m].status \in {"READY", "ARCHIVED"} => m \in stored /\ m \notin deletes

\* A removal that outlives its transaction is of an upload that is over.
RemovedIsOver(m) ==
  m \in deletes =>
    \/ media[m].status \in {"CANCELLED", "EXPIRED"}
    \/ media[m].status = "PENDING" /\ media[m].left = 0

\* An upload that is pending has the event of its intent, which does not fall
\* due before the upload is over, and no other.
PendingIsScheduled(m) ==
  media[m].status = "PENDING" =>
    /\ event[m]["CANCEL"].status = "FREE"
    /\ event[m]["INTENT"].status = "PENDING"
    /\ media[m].left <= event[m]["INTENT"].wait
    /\ media[m].cleaned = FALSE

\* A row that was not created has no events.
FreeHasNoEvents(m) ==
  media[m].status = "FREE" => \A o \in Origin : event[m][o].status = "FREE"

\* An upload that was cancelled is cleaned or has an event, and one that ran out
\* is cleaned.
OverIsScheduled(m) ==
  /\ media[m].status = "CANCELLED" =>
       media[m].cleaned = TRUE \/ \E o \in Origin : event[m][o].status = "PENDING"
  /\ media[m].status = "EXPIRED" => media[m].cleaned = TRUE

RowInv(m) ==
  /\ ObjectIsKept(m)
  /\ RemovedIsOver(m)
  /\ PendingIsScheduled(m)
  /\ FreeHasNoEvents(m)
  /\ OverIsScheduled(m)

MediaInv ==
  /\ MediaTypeOK
  /\ \A m \in Media : RowInv(m)

-----------------------------------------------------------------------------
(* Rows *)

LEMMA RowTypes ==
  ASSUME MediaTypeOK, NEW m \in Media
  PROVE  /\ media[m] \in MediaRow \cup {FreeMedia}
         /\ media[m].status # "FREE" => media[m] \in MediaRow
         /\ \A o \in Origin : /\ event[m][o] \in EventRow \cup {FreeEvent}
                              /\ event[m][o].status # "FREE" => event[m][o] \in EventRow
BY DEF MediaTypeOK, FreeMedia, FreeEvent

LEMMA OneLessType ==
  ASSUME NEW n \in Nat
  PROVE  /\ OneLess(n) \in Nat
         /\ \A k \in Nat : n <= k => OneLess(n) <= OneLess(k) /\ OneLess(n) <= k
BY DEF OneLess

\* What a tick makes of a row.
LEMMA TickRows ==
  ASSUME MediaTypeOK, Tick, NEW m \in Media
  PROVE  /\ media[m].status = "FREE" => media'[m] = media[m]
         /\ media[m].status # "FREE" =>
              media'[m] = [media[m] EXCEPT !.left = OneLess(@)] /\ media'[m] \in MediaRow
         /\ \A o \in Origin :
              /\ event[m][o].status = "FREE" => event'[m][o] = event[m][o]
              /\ event[m][o].status # "FREE" =>
                   /\ event'[m][o] = [event[m][o] EXCEPT !.wait = OneLess(@)]
                   /\ event'[m][o] \in EventRow
<1>1. media'[m] = IF media[m].status = "FREE" THEN media[m] ELSE [media[m] EXCEPT !.left = OneLess(@)]
  BY DEF Tick
<1>2. \A o \in Origin :
        event'[m][o] = IF event[m][o].status = "FREE" THEN event[m][o]
                                                      ELSE [event[m][o] EXCEPT !.wait = OneLess(@)]
  BY DEF Tick
<1>3. ASSUME media[m].status # "FREE"
      PROVE  [media[m] EXCEPT !.left = OneLess(@)] \in MediaRow
  <2>1. media[m] \in MediaRow
    BY <1>3, RowTypes
  <2>2. OneLess(media[m].left) \in 0 .. Ttl
    BY <2>1, MediaAssumption DEF MediaRow, OneLess
  <2>3. QED
    BY <2>1, <2>2 DEF MediaRow
<1>4. ASSUME NEW o \in Origin, event[m][o].status # "FREE"
      PROVE  [event[m][o] EXCEPT !.wait = OneLess(@)] \in EventRow
  <2>1. event[m][o] \in EventRow
    BY <1>4, RowTypes
  <2>2. OneLess(event[m][o].wait) \in Nat
    BY <2>1, OneLessType DEF EventRow
  <2>3. QED
    BY <2>1, <2>2 DEF EventRow
<1>5. QED
  BY <1>1, <1>2, <1>3, <1>4

-----------------------------------------------------------------------------
(* Type correctness *)

\* Every row of the photographs and of their events keeps its type, and what is
\* stored or under way is an object of theirs.
LEMMA TypeStep == MediaTypeOK /\ [Next]_vars => MediaTypeOK'
<1> SUFFICES ASSUME MediaTypeOK, [Next]_vars
             PROVE  MediaTypeOK'
  OBVIOUS
<1> USE MediaAssumption DEF Origin
<1>1. ASSUME NEW m \in Media, Intent(m)
      PROVE  MediaTypeOK'
  <2>1. [status |-> "PENDING", left |-> Ttl, position |-> NoPosition, cleaned |-> FALSE] \in MediaRow
    BY DEF MediaRow
  <2>2. [status |-> "PENDING", wait |-> Ttl] \in EventRow
    BY DEF EventRow
  <2>3. QED
    BY <1>1, <2>1, <2>2 DEF Intent, MediaTypeOK
<1>2. ASSUME NEW m \in Media, Upload(m)
      PROVE  MediaTypeOK'
  BY <1>2 DEF Upload, MediaTypeOK
<1>3. ASSUME NEW m \in Media, Complete(m)
      PROVE  MediaTypeOK'
  <2>1. PICK p \in 0 .. Cardinality(Media) * (MaxVersion + 1) :
          /\ p \in Nat
          /\ media' = [media EXCEPT ![m].status = "READY", ![m].position = p]
    BY <1>3 DEF Complete, IsNextPosition
  <2>2. media[m] \in MediaRow
    BY <1>3, RowTypes DEF Complete, IsPending
  <2>3. [media[m] EXCEPT !.status = "READY", !.position = p] \in MediaRow
    BY <2>1, <2>2 DEF MediaRow
  <2>4. media' \in [Media -> MediaRow \cup {FreeMedia}]
    BY <2>1, <2>3 DEF MediaTypeOK
  <2>5. QED
    BY <1>3, <2>4 DEF Complete, MediaTypeOK
<1>4. ASSUME NEW m \in Media, Archive(m)
      PROVE  MediaTypeOK'
  <2>1. media[m] \in MediaRow
    BY <1>4, RowTypes DEF Archive
  <2>2. [media[m] EXCEPT !.status = "ARCHIVED", !.position = NoPosition] \in MediaRow
    BY <2>1 DEF MediaRow
  <2>3. QED
    BY <1>4, <2>2 DEF Archive, MediaTypeOK
<1>5. ASSUME NEW m \in Media, Cancel(m)
      PROVE  MediaTypeOK'
  <2>1. media[m] \in MediaRow
    BY <1>5, RowTypes DEF Cancel
  <2>2. [media[m] EXCEPT !.status = "CANCELLED"] \in MediaRow
    BY <2>1 DEF MediaRow
  <2>3. [status |-> "PENDING", wait |-> 0] \in EventRow
    BY DEF EventRow
  <2>4. QED
    BY <1>5, <2>2, <2>3 DEF Cancel, MediaTypeOK
<1>6. ASSUME NEW f \in Orders, Reorder(f)
      PROVE  MediaTypeOK'
  <2>1. ASSUME NEW x \in Ready
        PROVE  [media[x] EXCEPT !.position = f[x]] \in MediaRow
    <3>1. x \in Media /\ media[x] \in MediaRow
      BY RowTypes DEF Ready, InState
    <3>2. f[x] \in Nat
      BY DEF Orders
    <3>3. QED
      BY <3>1, <3>2 DEF MediaRow
  <2>2. media' \in [Media -> MediaRow \cup {FreeMedia}]
    BY <1>6, <2>1 DEF Reorder, MediaTypeOK
  <2>3. QED
    BY <1>6, <2>2 DEF Reorder, MediaTypeOK
<1>7. ASSUME NEW m \in Media, NEW o \in Origin, Worker(m, o)
      PROVE  MediaTypeOK'
  <2>1. event[m][o] \in EventRow
    BY <1>7, RowTypes DEF Worker, CloseEvent, CleanUp, CleanUpFails, CleanUpRollsBack, IsDue
  <2>2. CASE CloseEvent(m, o)
    <3>1. [event[m][o] EXCEPT !.status = "OBSOLETE"] \in EventRow
      BY <2>1 DEF EventRow
    <3>2. QED
      BY <2>2, <3>1 DEF CloseEvent, MediaTypeOK
  <2>3. CASE CleanUp(m, o)
    <3>1. [event[m][o] EXCEPT !.status = "PROCESSED"] \in EventRow
      BY <2>1 DEF EventRow
    <3>2. media[m] \in MediaRow
      BY <2>3, RowTypes DEF CleanUp, IsIncomplete
    <3>3. [media[m] EXCEPT !.status = IF @ = "PENDING" THEN "EXPIRED" ELSE @, !.cleaned = TRUE] \in MediaRow
      BY <3>2 DEF MediaRow
    <3>4. QED
      BY <2>3, <3>1, <3>3 DEF CleanUp, MediaTypeOK
  <2>4. CASE CleanUpFails(m, o)
    <3>1. PICK d \in 1 .. MaxDelay : event' = [event EXCEPT ![m][o].wait = d]
      BY <2>4 DEF CleanUpFails
    <3>2. [event[m][o] EXCEPT !.wait = d] \in EventRow
      BY <2>1 DEF EventRow
    <3>3. stored' \subseteq Media /\ deletes' \subseteq Media
      BY <2>4 DEF CleanUpFails, Removing, MediaTypeOK
    <3>4. QED
      BY <2>4, <3>1, <3>2, <3>3 DEF CleanUpFails, MediaTypeOK
  <2>5. CASE CleanUpRollsBack(m, o)
    BY <2>5 DEF CleanUpRollsBack, Removing, MediaTypeOK
  <2>6. QED
    BY <1>7, <2>2, <2>3, <2>4, <2>5 DEF Worker
<1>8. ASSUME NEW m \in Media, PutArrives(m) \/ DeleteArrives(m) \/ RequestIsLost(m)
      PROVE  MediaTypeOK'
  BY <1>8 DEF PutArrives, DeleteArrives, RequestIsLost, MediaTypeOK
<1>9. ASSUME Tick
      PROVE  MediaTypeOK'
  <2>1. \A m \in Media : media'[m] \in MediaRow \cup {FreeMedia}
    BY <1>9, TickRows, RowTypes
  <2>2. \A m \in Media, o \in Origin : event'[m][o] \in EventRow \cup {FreeEvent}
    BY <1>9, TickRows, RowTypes
  <2>3. media' \in [Media -> MediaRow \cup {FreeMedia}]
    BY <1>9, <2>1 DEF Tick
  <2>4. event' \in [Media -> [Origin -> EventRow \cup {FreeEvent}]]
    BY <1>9, <2>2 DEF Tick
  <2>5. QED
    BY <1>9, <2>3, <2>4 DEF Tick, MediaTypeOK
<1>10. ASSUME UNCHANGED vars
       PROVE  MediaTypeOK'
  BY <1>10 DEF vars, MediaTypeOK
<1>11. QED
  BY <1>1, <1>2, <1>3, <1>4, <1>5, <1>6, <1>7, <1>8, <1>9, <1>10 DEF Next

\* Every row of the photographs and of their events keeps its type, and the
\* storage and the requests under way hold objects of theirs only.
THEOREM MediaTypeCorrectness == Spec => []MediaTypeOK
<1>1. Init => MediaTypeOK
  BY DEF Init, MediaTypeOK, FreeMedia, FreeEvent
<1>2. QED
  BY <1>1, TypeStep, PTL DEF Spec

-----------------------------------------------------------------------------
(* The invariant.  A step disturbs one row, except for Reorder and Tick. *)

\* What a step leaves alone keeps its invariant.
LEMMA OtherRows ==
  ASSUME NEW m \in Media, RowInv(m), media'[m] = media[m], event'[m] = event[m],
         m \in stored' <=> m \in stored, m \in deletes' <=> m \in deletes
  PROVE  RowInv(m)'
BY DEF RowInv, ObjectIsKept, RemovedIsOver, PendingIsScheduled, FreeHasNoEvents, OverIsScheduled

\* A step that disturbs one row keeps the invariant if that row keeps its own.
LEMMA OneRow ==
  ASSUME MediaInv, MediaTypeOK', NEW m \in Media, RowInv(m)',
         \A x \in Media \ {m} : /\ media'[x] = media[x]
                                /\ event'[x] = event[x]
                                /\ x \in stored' <=> x \in stored
                                /\ x \in deletes' <=> x \in deletes
  PROVE  MediaInv'
<1>1. ASSUME NEW x \in Media
      PROVE  RowInv(x)'
  <2>1. CASE x = m
    BY <2>1
  <2>2. CASE x # m
    BY <2>2, OtherRows DEF MediaInv
  <2>3. QED
    BY <2>1, <2>2
<1>2. QED
  BY <1>1 DEF MediaInv

\* An intent schedules the cleanup for the moment the upload is over.
LEMMA IntentKeeps ==
  ASSUME MediaInv, MediaTypeOK', NEW m \in Media, Intent(m)
  PROVE  MediaInv'
<1>1. RowInv(m) /\ MediaTypeOK
  BY DEF MediaInv
<1>2. /\ media'[m] = [status |-> "PENDING", left |-> Ttl, position |-> NoPosition, cleaned |-> FALSE]
      /\ event'[m] = [event[m] EXCEPT !["INTENT"] = [status |-> "PENDING", wait |-> Ttl]]
      /\ UNCHANGED <<stored, deletes>>
      /\ \A x \in Media \ {m} : media'[x] = media[x] /\ event'[x] = event[x]
  BY <1>1 DEF Intent, MediaTypeOK
<1>3. /\ event'[m]["INTENT"] = [status |-> "PENDING", wait |-> Ttl]
      /\ event'[m]["CANCEL"].status = "FREE"
  BY <1>1, <1>2 DEF Intent, MediaTypeOK, RowInv, FreeHasNoEvents, Origin
<1>4. m \notin deletes
  BY <1>1 DEF Intent, RowInv, RemovedIsOver
<1>5. RowInv(m)'
  BY <1>2, <1>3, <1>4, MediaAssumption
     DEF RowInv, ObjectIsKept, RemovedIsOver, PendingIsScheduled, FreeHasNoEvents, OverIsScheduled
<1>6. QED
  BY <1>2, <1>5, OneRow

\* A completion finds the object, and no removal of it is under way.
LEMMA CompleteKeeps ==
  ASSUME MediaInv, MediaTypeOK', NEW m \in Media, Complete(m)
  PROVE  MediaInv'
<1>1. RowInv(m) /\ MediaTypeOK /\ media[m] \in MediaRow
  BY RowTypes DEF MediaInv, Complete, IsPending
<1>2. PICK p \in Nat : media' = [media EXCEPT ![m].status = "READY", ![m].position = p]
  BY DEF Complete, IsNextPosition
<1>3. /\ media'[m].status = "READY"
      /\ UNCHANGED <<event, stored, deletes>>
      /\ \A x \in Media \ {m} : media'[x] = media[x]
  BY <1>1, <1>2 DEF Complete, MediaTypeOK, MediaRow
<1>4. m \in stored /\ m \notin deletes
  BY <1>1, MediaAssumption DEF Complete, IsPending, RowInv, RemovedIsOver, MediaRow
<1>5. RowInv(m)'
  BY <1>3, <1>4
     DEF RowInv, ObjectIsKept, RemovedIsOver, PendingIsScheduled, FreeHasNoEvents, OverIsScheduled
<1>6. QED
  BY <1>3, <1>5, OneRow

\* A photograph that is archived keeps its object.
LEMMA ArchiveKeeps ==
  ASSUME MediaInv, MediaTypeOK', NEW m \in Media, Archive(m)
  PROVE  MediaInv'
<1>1. RowInv(m) /\ MediaTypeOK /\ media[m] \in MediaRow
  BY RowTypes DEF MediaInv, Archive
<1>2. /\ media'[m].status = "ARCHIVED"
      /\ UNCHANGED <<event, stored, deletes>>
      /\ \A x \in Media \ {m} : media'[x] = media[x]
  BY <1>1 DEF Archive, MediaTypeOK, MediaRow
<1>3. RowInv(m)'
  BY <1>1, <1>2 DEF Archive, RowInv, ObjectIsKept, RemovedIsOver, PendingIsScheduled,
                    FreeHasNoEvents, OverIsScheduled
<1>4. QED
  BY <1>2, <1>3, OneRow

\* An upload that is cancelled has the event of the cancellation.
LEMMA CancelKeeps ==
  ASSUME MediaInv, MediaTypeOK', NEW m \in Media, Cancel(m)
  PROVE  MediaInv'
<1>1. RowInv(m) /\ MediaTypeOK /\ media[m] \in MediaRow
  BY RowTypes DEF MediaInv, Cancel
<1>2. /\ media'[m].status = "CANCELLED"
      /\ event'[m]["CANCEL"].status = "PENDING"
      /\ UNCHANGED <<stored, deletes>>
      /\ \A x \in Media \ {m} : media'[x] = media[x] /\ event'[x] = event[x]
  BY <1>1 DEF Cancel, MediaTypeOK, MediaRow, Origin
<1>3. RowInv(m)'
  BY <1>1, <1>2 DEF RowInv, ObjectIsKept, RemovedIsOver, PendingIsScheduled,
                    FreeHasNoEvents, OverIsScheduled, Origin
<1>4. QED
  BY <1>2, <1>3, OneRow

\* Reordering changes positions only.
LEMMA ReorderKeeps ==
  ASSUME MediaInv, MediaTypeOK', NEW f, Reorder(f)
  PROVE  MediaInv'
<1>1. ASSUME NEW m \in Media
      PROVE  RowInv(m)'
  <2>1. RowInv(m) /\ MediaTypeOK
    BY DEF MediaInv
  <2>2. UNCHANGED <<event, stored, deletes>>
    BY DEF Reorder
  <2>3. CASE m \in Ready
    <3>1. media[m] \in MediaRow /\ media[m].status = "READY"
      BY <2>1, <2>3, RowTypes DEF Ready, InState
    <3>2. media'[m].status = "READY"
      BY <2>3, <3>1 DEF Reorder, MediaRow
    <3>3. QED
      BY <2>1, <2>2, <3>1, <3>2 DEF RowInv, ObjectIsKept, RemovedIsOver, PendingIsScheduled,
                                    FreeHasNoEvents, OverIsScheduled
  <2>4. CASE m \notin Ready
    <3>1. media'[m] = media[m]
      BY <2>4 DEF Reorder
    <3>2. QED
      BY <2>1, <2>2, <3>1, OtherRows
  <2>5. QED
    BY <2>3, <2>4
<1>2. QED
  BY <1>1 DEF MediaInv

\* What the worker does to an upload that is over.  An event that is due is of
\* no upload that can still be made.
LEMMA DueIsOver ==
  ASSUME MediaInv, NEW m \in Media, NEW o \in Origin, IsDue(m, o), media[m].status = "PENDING"
  PROVE  media[m].left = 0 /\ o = "INTENT"
<1>1. RowInv(m) /\ MediaTypeOK /\ media[m] \in MediaRow
  BY RowTypes DEF MediaInv
<1>2. o = "INTENT"
  BY <1>1 DEF IsDue, RowInv, PendingIsScheduled, Origin
<1>3. media[m].left <= 0 /\ media[m].left \in Nat
  BY <1>1, <1>2, MediaAssumption DEF IsDue, RowInv, PendingIsScheduled, MediaRow
<1>4. QED
  BY <1>2, <1>3

\* The event of an upload that was completed is closed.
LEMMA CloseEventKeeps ==
  ASSUME MediaInv, MediaTypeOK', NEW m \in Media, NEW o \in Origin, CloseEvent(m, o)
  PROVE  MediaInv'
<1>1. RowInv(m) /\ MediaTypeOK
  BY DEF MediaInv
<1>2. media[m].status \in {"READY", "ARCHIVED"}
  <2>1. media[m].status # "FREE"
    BY <1>1 DEF CloseEvent, IsDue, RowInv, FreeHasNoEvents
  <2>2. media[m] \in MediaRow
    BY <1>1, <2>1, RowTypes
  <2>3. QED
    BY <2>2 DEF CloseEvent, IsIncomplete, MediaRow
<1>3. /\ UNCHANGED <<media, stored, deletes>>
      /\ \A x \in Media \ {m} : event'[x] = event[x]
  BY <1>1 DEF CloseEvent, MediaTypeOK
<1>4. RowInv(m)'
  BY <1>1, <1>2, <1>3 DEF RowInv, ObjectIsKept, RemovedIsOver, PendingIsScheduled,
                          FreeHasNoEvents, OverIsScheduled
<1>5. QED
  BY <1>3, <1>4, OneRow

\* What is cleaned is over and is marked so.
LEMMA CleanUpKeeps ==
  ASSUME MediaInv, MediaTypeOK', NEW m \in Media, NEW o \in Origin, CleanUp(m, o)
  PROVE  MediaInv'
<1>1. RowInv(m) /\ MediaTypeOK /\ media[m] \in MediaRow
  BY RowTypes DEF MediaInv, CleanUp, IsIncomplete
<1>2. /\ media'[m].status \in {"CANCELLED", "EXPIRED"}
      /\ media'[m].cleaned = TRUE
  BY <1>1 DEF CleanUp, IsIncomplete, MediaTypeOK, MediaRow
<1>3. /\ UNCHANGED deletes
      /\ stored' = stored \ {m}
      /\ \A x \in Media \ {m} : media'[x] = media[x] /\ event'[x] = event[x]
  BY <1>1 DEF CleanUp, MediaTypeOK
<1>4. RowInv(m)'
  BY <1>2 DEF RowInv, ObjectIsKept, RemovedIsOver, PendingIsScheduled,
              FreeHasNoEvents, OverIsScheduled
<1>5. QED
  BY <1>3, <1>4, OneRow

\* A removal that fails leaves the event, and touches no photograph.
LEMMA FailureKeeps ==
  ASSUME MediaInv, MediaTypeOK', NEW m \in Media, NEW o \in Origin,
         CleanUpFails(m, o) \/ CleanUpRollsBack(m, o)
  PROVE  MediaInv'
<1>1. RowInv(m) /\ MediaTypeOK /\ media[m] \in MediaRow
  BY RowTypes DEF MediaInv, CleanUpFails, CleanUpRollsBack, IsIncomplete
<1>2. /\ IsDue(m, o)
      /\ media[m].status \in {"PENDING", "CANCELLED", "EXPIRED"}
      /\ UNCHANGED media
      /\ \A x \in Media \ {m} : x \in stored' <=> x \in stored
      /\ \A x \in Media \ {m} : x \in deletes' <=> x \in deletes
  BY DEF CleanUpFails, CleanUpRollsBack, IsIncomplete, Removing
<1>3. media[m].status = "PENDING" => media[m].left = 0
  BY <1>2, DueIsOver
<1>4. \A x \in Media \ {m} : event'[x] = event[x]
  BY <1>1 DEF CleanUpFails, CleanUpRollsBack, MediaTypeOK
<1>5. \A q \in Origin : event'[m][q].status = event[m][q].status
  BY <1>1 DEF CleanUpFails, CleanUpRollsBack, MediaTypeOK, EventRow, IsDue, FreeEvent
<1>6. media[m].status = "PENDING" => event'[m]["INTENT"].wait \in Nat
  <2>1. event'[m]["INTENT"] \in EventRow \cup {FreeEvent}
    BY DEF MediaTypeOK, Origin
  <2>2. media[m].status = "PENDING" => event'[m]["INTENT"].status = "PENDING"
    BY <1>1, <1>5 DEF RowInv, PendingIsScheduled, Origin
  <2>3. QED
    BY <2>1, <2>2 DEF EventRow, FreeEvent
<1>7. RowInv(m)'
  <2>1. ObjectIsKept(m)' /\ RemovedIsOver(m)' /\ FreeHasNoEvents(m)'
    BY <1>2, <1>3 DEF ObjectIsKept, RemovedIsOver, FreeHasNoEvents
  <2>2. PendingIsScheduled(m)'
    BY <1>1, <1>2, <1>3, <1>5, <1>6 DEF RowInv, PendingIsScheduled, Origin
  <2>3. OverIsScheduled(m)'
    BY <1>1, <1>2, <1>5 DEF RowInv, OverIsScheduled
  <2>4. QED
    BY <2>1, <2>2, <2>3 DEF RowInv
<1>8. QED
  BY <1>2, <1>4, <1>7, OneRow

\* An object that arrives harms nothing, and one that goes is of no photograph.
LEMMA StorageKeeps ==
  ASSUME MediaInv, MediaTypeOK', NEW m \in Media,
         Upload(m) \/ PutArrives(m) \/ DeleteArrives(m) \/ RequestIsLost(m)
  PROVE  MediaInv'
<1>1. RowInv(m) /\ MediaTypeOK
  BY DEF MediaInv
<1>2. /\ UNCHANGED <<media, event>>
      /\ \A x \in Media \ {m} : x \in stored' <=> x \in stored
      /\ \A x \in Media \ {m} : x \in deletes' <=> x \in deletes
      /\ deletes' \subseteq deletes
      /\ m \in stored /\ m \notin deletes => m \in stored'
  BY DEF Upload, PutArrives, DeleteArrives, RequestIsLost
<1>3. RowInv(m)'
  BY <1>1, <1>2 DEF RowInv, ObjectIsKept, RemovedIsOver, PendingIsScheduled,
                    FreeHasNoEvents, OverIsScheduled
<1>4. QED
  BY <1>2, <1>3, OneRow

\* Upload and event come nearer to their end together.
LEMMA TickKeeps ==
  ASSUME MediaInv, MediaTypeOK', Tick
  PROVE  MediaInv'
<1>1. ASSUME NEW m \in Media
      PROVE  RowInv(m)'
  <2>1. RowInv(m) /\ MediaTypeOK /\ UNCHANGED <<stored, deletes>>
    BY DEF MediaInv, Tick
  <2>2. ASSUME NEW o \in Origin
        PROVE  event'[m][o].status = event[m][o].status
    <3>1. CASE event[m][o].status = "FREE"
      BY <2>1, <3>1, TickRows
    <3>2. CASE event[m][o].status # "FREE"
      <4>1. /\ event[m][o] \in EventRow
            /\ event'[m][o] = [event[m][o] EXCEPT !.wait = OneLess(@)]
        BY <2>1, <3>2, TickRows, RowTypes
      <4>2. QED
        BY <4>1 DEF EventRow
    <3>3. QED
      BY <3>1, <3>2
  <2>3. CASE media[m].status = "FREE"
    <3>1. media'[m].status = "FREE"
      BY <2>1, <2>3, TickRows
    <3>2. QED
      BY <2>1, <2>2, <2>3, <3>1 DEF RowInv, ObjectIsKept, RemovedIsOver, PendingIsScheduled,
                                    FreeHasNoEvents, OverIsScheduled
  <2>4. CASE media[m].status # "FREE"
    <3>1. /\ media[m] \in MediaRow
          /\ media'[m] = [media[m] EXCEPT !.left = OneLess(@)]
      BY <2>1, <2>4, TickRows, RowTypes
    <3>2. /\ media'[m].status = media[m].status
          /\ media'[m].left = OneLess(media[m].left)
          /\ media'[m].cleaned = media[m].cleaned
          /\ media[m].left \in Nat
      BY <3>1, MediaAssumption DEF MediaRow
    <3>3. ObjectIsKept(m)' /\ FreeHasNoEvents(m)'
      BY <2>1, <2>4, <3>2 DEF RowInv, ObjectIsKept, FreeHasNoEvents
    <3>4. RemovedIsOver(m)'
      BY <2>1, <3>2 DEF RowInv, RemovedIsOver, OneLess
    <3>5. PendingIsScheduled(m)'
      <4>1. SUFFICES ASSUME media[m].status = "PENDING"
                     PROVE  media'[m].left <= event'[m]["INTENT"].wait
        BY <2>1, <2>2, <3>2 DEF RowInv, PendingIsScheduled, Origin
      <4>2. event[m]["INTENT"].status = "PENDING" /\ media[m].left <= event[m]["INTENT"].wait
        BY <2>1, <4>1 DEF RowInv, PendingIsScheduled
      <4>3. /\ event[m]["INTENT"] \in EventRow
            /\ event'[m]["INTENT"] = [event[m]["INTENT"] EXCEPT !.wait = OneLess(@)]
        BY <2>1, <4>2, TickRows, RowTypes DEF Origin
      <4>4. /\ event[m]["INTENT"].wait \in Nat
            /\ event'[m]["INTENT"].wait = OneLess(event[m]["INTENT"].wait)
        BY <4>3 DEF EventRow
      <4>5. QED
        BY <3>2, <4>2, <4>4, OneLessType
    <3>6. OverIsScheduled(m)'
      BY <2>1, <2>2, <3>2 DEF RowInv, OverIsScheduled
    <3>7. QED
      BY <3>3, <3>4, <3>5, <3>6 DEF RowInv
  <2>5. QED
    BY <2>3, <2>4
<1>2. QED
  BY <1>1 DEF MediaInv

LEMMA InvariantStep == MediaInv /\ [Next]_vars => MediaInv'
<1> SUFFICES ASSUME MediaInv, [Next]_vars
             PROVE  MediaInv'
  OBVIOUS
<1>1. MediaTypeOK'
  BY TypeStep DEF MediaInv
<1>2. CASE \E m \in Media : Intent(m)
  BY <1>1, <1>2, IntentKeeps
<1>3. CASE \E m \in Media : Complete(m)
  BY <1>1, <1>3, CompleteKeeps
<1>4. CASE \E m \in Media : Archive(m)
  BY <1>1, <1>4, ArchiveKeeps
<1>5. CASE \E m \in Media : Cancel(m)
  BY <1>1, <1>5, CancelKeeps
<1>6. CASE \E m \in Media : Upload(m) \/ PutArrives(m) \/ DeleteArrives(m) \/ RequestIsLost(m)
  BY <1>1, <1>6, StorageKeeps
<1>7. CASE \E f \in Orders : Reorder(f)
  BY <1>1, <1>7, ReorderKeeps
<1>8. CASE \E m \in Media, o \in Origin : Worker(m, o)
  BY <1>1, <1>8, CloseEventKeeps, CleanUpKeeps, FailureKeeps DEF Worker
<1>9. CASE Tick
  BY <1>1, <1>9, TickKeeps
<1>10. CASE UNCHANGED vars
  BY <1>1, <1>10, OtherRows DEF vars, MediaInv
<1>11. QED
  BY <1>2, <1>3, <1>4, <1>5, <1>6, <1>7, <1>8, <1>9, <1>10 DEF Next

\* The invariant the theorems below rest on holds in every reachable state.
THEOREM MediaInvariant == Spec => []MediaInv
<1>1. Init => MediaInv
  BY DEF Init, MediaInv, MediaTypeOK, FreeMedia, FreeEvent, RowInv, ObjectIsKept, RemovedIsOver,
         PendingIsScheduled, FreeHasNoEvents, OverIsScheduled
<1>2. QED
  BY <1>1, InvariantStep, PTL DEF Spec

\* A photograph that was confirmed has its object, and no removal of it is under
\* way, whatever the cleanup does and however late.
THEOREM ObjectsAreKept == Spec => []ConfirmedKeepObject
<1>1. MediaInv => ConfirmedKeepObject
  BY DEF MediaInv, RowInv, ObjectIsKept, ConfirmedKeepObject, InState
<1>2. QED
  BY <1>1, MediaInvariant, PTL

\* An upload that may come to nothing always has a cleanup to come, and none is
\* due while it can still be made.
THEOREM CleanupsAreScheduled == Spec => []CleanupIsScheduled
<1>1. MediaInv => CleanupIsScheduled
  <2> SUFFICES ASSUME MediaInv, NEW m \in Media
               PROVE  /\ media[m].status \in {"PENDING", "CANCELLED"} /\ ~ media[m].cleaned =>
                           \E o \in Origin : event[m][o].status = "PENDING"
                      /\ media[m].status = "EXPIRED" => media[m].cleaned
                      /\ IsPending(m) => \A o \in Origin : ~ IsDue(m, o)
    BY DEF CleanupIsScheduled
  <2>1. RowInv(m)
    BY DEF MediaInv
  <2>2. media[m].status = "PENDING" => \E o \in Origin : event[m][o].status = "PENDING"
    BY <2>1 DEF RowInv, PendingIsScheduled, Origin
  <2>3. media[m].status = "CANCELLED" =>
          media[m].cleaned = TRUE \/ \E o \in Origin : event[m][o].status = "PENDING"
    BY <2>1 DEF RowInv, OverIsScheduled
  <2>4. media[m].status = "EXPIRED" => media[m].cleaned
    BY <2>1 DEF RowInv, OverIsScheduled
  <2>5. IsPending(m) => \A o \in Origin : ~ IsDue(m, o)
    BY DueIsOver DEF IsPending
  <2>6. QED
    BY <2>2, <2>3, <2>4, <2>5, Zenon
<1>2. QED
  BY <1>1, MediaInvariant, PTL

-----------------------------------------------------------------------------
(* Positions *)

\* Photographs on show have positions of their own, and nothing else has one.
LEMMA PositionsStep == MediaTypeOK /\ PositionsDistinct /\ [Next]_vars => PositionsDistinct'
<1> SUFFICES ASSUME MediaTypeOK, PositionsDistinct, [Next]_vars
             PROVE  PositionsDistinct'
  OBVIOUS
<1> USE DEF PositionsDistinct, Ready, InState
<1>1. CASE \E m \in Media : Intent(m)
  BY <1>1 DEF Intent, MediaTypeOK, NoPosition
<1>2. CASE \E m \in Media : Complete(m)
  <2>1. PICK m \in Media, p \in Nat :
          /\ IsNextPosition(p)
          /\ media[m].status = "PENDING"
          /\ media' = [media EXCEPT ![m].status = "READY", ![m].position = p]
    BY <1>2 DEF Complete, IsNextPosition, IsPending
  <2>2. media[m] \in MediaRow
    BY <2>1, RowTypes
  <2>3. /\ media'[m].status = "READY" /\ media'[m].position = p
        /\ \A x \in Media \ {m} : media'[x] = media[x]
    BY <2>1, <2>2 DEF MediaTypeOK, MediaRow
  <2>4. \A x \in Ready : media[x].position < p /\ media[x] \in MediaRow
    BY <2>1, RowTypes DEF IsNextPosition
  <2>5. \A x \in Ready : media[x].position # p
    BY <2>4 DEF MediaRow, NoPosition
  <2>6. p # NoPosition
    BY DEF NoPosition
  <2>7. Ready' = Ready \cup {m} /\ m \notin Ready
    BY <2>1, <2>3
  <2>8. \A x, y \in Ready' : media'[x].position = media'[y].position => x = y
    BY <2>3, <2>5, <2>7
  <2>9. \A x \in Media : media'[x].status # "FREE" =>
          (media'[x].position = NoPosition <=> x \notin Ready')
    <3> SUFFICES ASSUME NEW x \in Media, media'[x].status # "FREE"
                 PROVE  media'[x].position = NoPosition <=> x \notin Ready'
      OBVIOUS
    <3>1. CASE x = m
      BY <2>3, <2>6, <2>7, <3>1
    <3>2. CASE x # m
      BY <2>3, <2>7, <3>2
    <3>3. QED
      BY <3>1, <3>2
  <2>10. QED
    BY <2>8, <2>9
<1>3. CASE \E m \in Media : Archive(m)
  <2>1. PICK m \in Media : Archive(m)
    BY <1>3
  <2>2. media[m] \in MediaRow
    BY <2>1, RowTypes DEF Archive
  <2>3. /\ media'[m].status = "ARCHIVED" /\ media'[m].position = NoPosition
        /\ \A x \in Media \ {m} : media'[x] = media[x]
    BY <2>1, <2>2 DEF Archive, MediaTypeOK, MediaRow
  <2>4. QED
    BY <2>3
<1>4. CASE \E m \in Media : Cancel(m)
  <2>1. PICK m \in Media : Cancel(m)
    BY <1>4
  <2>2. media[m] \in MediaRow
    BY <2>1, RowTypes DEF Cancel
  <2>3. /\ media'[m].status = "CANCELLED" /\ media'[m].position = media[m].position
        /\ \A x \in Media \ {m} : media'[x] = media[x]
    BY <2>1, <2>2 DEF Cancel, MediaTypeOK, MediaRow
  <2>4. media[m].position = NoPosition
    BY <2>1 DEF Cancel
  <2>5. QED
    BY <2>3, <2>4
<1>5. CASE \E f \in Orders : Reorder(f)
  <2>1. PICK f \in Orders : Reorder(f)
    BY <1>5
  <2>2. \A m \in Ready : media[m] \in MediaRow
    BY RowTypes
  <2>3. /\ \A m \in Ready : media'[m].status = "READY" /\ media'[m].position = f[m]
        /\ \A m \in Media \ Ready : media'[m] = media[m]
    BY <2>1, <2>2 DEF Reorder, MediaRow
  <2>4. /\ \A m \in Ready : f[m] # NoPosition
        /\ \A x, y \in Ready : f[x] = f[y] => x = y
    <3> HIDE DEF Ready
    <3>1. \A x, y \in Ready : f[x] = f[y] => x = y
      BY DEF Orders
    <3>2. ASSUME NEW m \in Ready
          PROVE  f[m] # NoPosition
      <4>1. f[m] \in 0 .. Cardinality(Ready) - 1
        BY DEF Orders
      <4>2. QED
        BY <4>1 DEF NoPosition
    <3>3. QED
      BY <3>1, <3>2
  <2>5. QED
    BY <2>3, <2>4
<1>6. CASE \E m \in Media, o \in Origin : CleanUp(m, o)
  <2>1. PICK m \in Media, o \in Origin : CleanUp(m, o)
    BY <1>6
  <2>2. media[m] \in MediaRow /\ media[m].status \in {"PENDING", "CANCELLED", "EXPIRED"}
    BY <2>1, RowTypes DEF CleanUp, IsIncomplete
  <2>3. /\ media'[m].status \in {"CANCELLED", "EXPIRED"}
        /\ media'[m].position = media[m].position
        /\ \A x \in Media \ {m} : media'[x] = media[x]
    BY <2>1, <2>2 DEF CleanUp, MediaTypeOK, MediaRow
  <2>4. media[m].position = NoPosition
    BY <2>2
  <2>5. QED
    BY <2>3, <2>4
<1>7. CASE Tick
  <2>1. ASSUME NEW m \in Media
        PROVE  /\ media'[m].status = media[m].status
               /\ media[m].status # "FREE" => media'[m].position = media[m].position
    <3>1. CASE media[m].status = "FREE"
      BY <1>7, <3>1, TickRows
    <3>2. CASE media[m].status # "FREE"
      <4>1. media[m] \in MediaRow /\ media'[m] = [media[m] EXCEPT !.left = OneLess(@)]
        BY <1>7, <3>2, TickRows, RowTypes
      <4>2. QED
        BY <4>1 DEF MediaRow
    <3>3. QED
      BY <3>1, <3>2
  <2>2. QED
    BY <2>1
<1>8. CASE UNCHANGED media
  BY <1>8
<1>9. QED
  BY <1>1, <1>2, <1>3, <1>4, <1>5, <1>6, <1>7, <1>8
     DEF Next, vars, Worker, Upload, PutArrives, DeleteArrives, RequestIsLost,
         CloseEvent, CleanUpFails, CleanUpRollsBack

\* No two photographs on show have the same position, so the deferred unique
\* constraint aborts no request.
THEOREM PositionsAreDistinct == Spec => []PositionsDistinct
<1>1. Init => PositionsDistinct
  BY DEF Init, PositionsDistinct, Ready, InState, FreeMedia
<1>2. QED
  BY <1>1, PositionsStep, MediaTypeCorrectness, PTL DEF Spec

-----------------------------------------------------------------------------
(* What no step does *)

\* A change of the photographs on show, or of their order, raises the version.
THEOREM VersionsTrackCollections == Spec => VersionTracksCollection
<1>1. MediaTypeOK /\ [Next]_vars => [Collection' # Collection => version' = version + 1]_vars
  <2> SUFFICES ASSUME MediaTypeOK, Next, version' # version + 1
               PROVE  Collection' = Collection
    OBVIOUS
  <2>1. SUFFICES ASSUME NEW m \in Media
                 PROVE  /\ media'[m].status = "READY" <=> media[m].status = "READY"
                        /\ media[m].status = "READY" => media'[m].position = media[m].position
    BY DEF Collection, Ready, InState
  <2>2. CASE \E x \in Media : Intent(x)
    BY <2>2 DEF Intent, MediaTypeOK
  <2>3. CASE \E x \in Media : Cancel(x)
    <3>1. PICK x \in Media : Cancel(x)
      BY <2>3
    <3>2. media[x] \in MediaRow
      BY <3>1, RowTypes DEF Cancel
    <3>3. QED
      BY <3>1, <3>2 DEF Cancel, MediaTypeOK, MediaRow
  <2>4. CASE \E x \in Media, o \in Origin : CleanUp(x, o)
    <3>1. PICK x \in Media, o \in Origin : CleanUp(x, o)
      BY <2>4
    <3>2. media[x] \in MediaRow
      BY <3>1, RowTypes DEF CleanUp, IsIncomplete
    <3>3. QED
      BY <3>1, <3>2 DEF CleanUp, IsIncomplete, MediaTypeOK, MediaRow
  <2>5. CASE Tick
    <3>1. CASE media[m].status = "FREE"
      BY <2>5, <3>1, TickRows
    <3>2. CASE media[m].status # "FREE"
      <4>1. media[m] \in MediaRow /\ media'[m] = [media[m] EXCEPT !.left = OneLess(@)]
        BY <2>5, <3>2, TickRows, RowTypes
      <4>2. QED
        BY <4>1 DEF MediaRow
    <3>3. QED
      BY <3>1, <3>2
  <2>6. CASE UNCHANGED media
    BY <2>6
  <2>7. QED
    BY <2>2, <2>3, <2>4, <2>5, <2>6
       DEF Next, Worker, Upload, PutArrives, DeleteArrives, RequestIsLost, Complete, Archive, Reorder,
           CloseEvent, CleanUpFails, CleanUpRollsBack
<1>2. QED
  BY <1>1, MediaTypeCorrectness, PTL DEF Spec, VersionTracksCollection

\* What a step that is not an intent makes of a row: its status moves as the
\* trigger media_history_guard allows, and a cleaning is never undone.
Moves(m) ==
  /\ media[m].status = "READY" => media'[m].status \in {"READY", "ARCHIVED"}
  /\ media[m].status \in {"ARCHIVED", "CANCELLED", "EXPIRED"} => media'[m].status = media[m].status
  /\ media'[m].cleaned = media[m].cleaned \/ media'[m].cleaned = TRUE

LEMMA RowsMove ==
  ASSUME MediaTypeOK, [Next]_vars, NEW m \in Media, media[m].status # "FREE"
  PROVE  Moves(m)
<1> USE DEF Moves
<1>1. media[m] \in MediaRow
  BY RowTypes
<1>2. CASE UNCHANGED media
  BY <1>2
<1>3. CASE \E x \in Media : Intent(x)
  BY <1>3 DEF Intent, MediaTypeOK
<1>4. CASE \E x \in Media : Complete(x)
  <2>1. PICK x \in Media, p \in Nat :
          /\ media[x].status = "PENDING"
          /\ media' = [media EXCEPT ![x].status = "READY", ![x].position = p]
    BY <1>4 DEF Complete, IsNextPosition, IsPending
  <2>2. QED
    BY <1>1, <2>1 DEF MediaTypeOK, MediaRow
<1>5. CASE \E x \in Media : Archive(x) \/ Cancel(x)
  BY <1>1, <1>5 DEF Archive, Cancel, MediaTypeOK, MediaRow
<1>6. CASE \E f \in Orders : Reorder(f)
  BY <1>1, <1>6 DEF Reorder, Ready, InState, MediaRow
<1>7. CASE \E x \in Media, o \in Origin : CleanUp(x, o)
  <2>1. PICK x \in Media, o \in Origin : CleanUp(x, o)
    BY <1>7
  <2>2. CASE x = m
    BY <1>1, <2>1, <2>2 DEF CleanUp, IsIncomplete, MediaTypeOK, MediaRow
  <2>3. CASE x # m
    BY <2>1, <2>3 DEF CleanUp, MediaTypeOK
  <2>4. QED
    BY <2>2, <2>3
<1>8. CASE Tick
  <2>1. media'[m] = [media[m] EXCEPT !.left = OneLess(@)]
    BY <1>8, TickRows
  <2>2. QED
    BY <1>1, <2>1 DEF MediaRow
<1>9. QED
  BY <1>2, <1>3, <1>4, <1>5, <1>6, <1>7, <1>8
     DEF Next, vars, Worker, Upload, PutArrives, DeleteArrives, RequestIsLost,
         CloseEvent, CleanUpFails, CleanUpRollsBack

\* No request, however late, takes a photograph back from a final state, and the
\* trigger media_history_guard aborts none.
THEOREM HistoryIsForever == Spec => HistoryIsKept
<1>1. MediaTypeOK /\ [Next]_vars =>
        [\A m \in Media :
           LET was == media[m].status is == media'[m].status IN
           /\ was = "READY" => is \in {"READY", "ARCHIVED"}
           /\ was \in {"ARCHIVED", "CANCELLED", "EXPIRED"} => is = was
           /\ (was # "FREE" /\ media[m].cleaned) => media'[m].cleaned]_vars
  <2> SUFFICES ASSUME MediaTypeOK, [Next]_vars, NEW m \in Media
               PROVE  /\ media[m].status = "READY" => media'[m].status \in {"READY", "ARCHIVED"}
                      /\ media[m].status \in {"ARCHIVED", "CANCELLED", "EXPIRED"} =>
                           media'[m].status = media[m].status
                      /\ (media[m].status # "FREE" /\ media[m].cleaned) => media'[m].cleaned
    OBVIOUS
  <2>1. media[m].status # "FREE" => Moves(m)
    BY RowsMove
  <2>2. QED
    BY <2>1, Zenon DEF Moves
<1>2. QED
  BY <1>1, MediaTypeCorrectness, PTL DEF Spec, HistoryIsKept

-----------------------------------------------------------------------------
(* The refinement of Gallery.  A step shows as a change of the collection    *)
(* or as one of the storage; what is left to say of the latter is that no    *)
(* photograph loses its status or its position in it.                        *)

Before == {p \in Ready \X Ready : media[p[1]].position < media[p[2]].position}
Kept == InState({"READY", "ARCHIVED"})

LEMMA BeforePairs ==
  /\ Before \subseteq Ready \X Ready
  /\ \A x, y : <<x, y>> \in Before <=>
       x \in Ready /\ y \in Ready /\ media[x].position < media[y].position
BY DEF Before

LEMMA PositionsAreNumbers ==
  ASSUME MediaTypeOK, PositionsDistinct, NEW m \in Ready
  PROVE  m \in Media /\ media[m] \in MediaRow /\ media[m].position \in Nat
<1>1. m \in Media /\ media[m].status = "READY"
  BY DEF Ready, InState
<1>2. media[m] \in MediaRow
  BY <1>1, RowTypes
<1>3. media[m].position # NoPosition
  BY <1>1 DEF PositionsDistinct
<1>4. QED
  BY <1>1, <1>2, <1>3 DEF MediaRow

\* Two orders of the photographs on show are the same if they agree on pairs.
LEMMA SamePairs ==
  ASSUME NEW S, NEW T, NEW U, S \subseteq U \X U, T \subseteq U \X U,
         \A x, y \in U : <<x, y>> \in S <=> <<x, y>> \in T
  PROVE  S = T
OBVIOUS

LEMMA CompleteRefines ==
  ASSUME MediaInv, PositionsDistinct, NEW m \in Media, Complete(m)
  PROVE  Abstract!Add(m)
<1>1. PICK p \in Nat :
        /\ IsNextPosition(p)
        /\ media[m].status = "PENDING"
        /\ media' = [media EXCEPT ![m].status = "READY", ![m].position = p]
        /\ m \in stored /\ version' = version + 1 /\ stored' = stored
  BY DEF Complete, IsNextPosition, IsPending
<1>2. MediaTypeOK /\ media[m] \in MediaRow
  BY <1>1, RowTypes DEF MediaInv
<1>3. /\ media'[m].status = "READY" /\ media'[m].position = p
      /\ \A x \in Media \ {m} : media'[x] = media[x]
  BY <1>1, <1>2 DEF MediaTypeOK, MediaRow
<1>4. Ready' = Ready \cup {m} /\ m \notin Ready
  BY <1>1, <1>3 DEF Ready, InState
<1>5. Kept' = Kept \cup {m} /\ m \notin Kept
  BY <1>1, <1>3 DEF Kept, InState
<1>6. Before' = Before \cup (Ready \X {m})
  <2>1. \A x \in Ready : /\ media[x].position < p /\ ~ (p < media[x].position)
                         /\ media'[x] = media[x]
    <3>1. ASSUME NEW x \in Ready
          PROVE  media[x].position \in Nat /\ media[x].position < p /\ x \in Media
      BY <1>1, <1>2, PositionsAreNumbers DEF IsNextPosition
    <3>2. QED
      BY <1>3, <1>4, <3>1
  <2>2. Before' \subseteq Ready' \X Ready'
    BY DEF Before
  <2>3. Before \cup (Ready \X {m}) \subseteq Ready' \X Ready'
    BY <1>4, BeforePairs
  <2>4. ASSUME NEW x \in Ready', NEW y \in Ready'
        PROVE  <<x, y>> \in Before' <=> <<x, y>> \in Before \cup (Ready \X {m})
    <3>1. <<x, y>> \in Before' <=> media'[x].position < media'[y].position
      BY <2>4 DEF Before
    <3>2. <<x, y>> \in Before <=>
            x \in Ready /\ y \in Ready /\ media[x].position < media[y].position
      BY BeforePairs
    <3>3. <<x, y>> \in Ready \X {m} <=> x \in Ready /\ y = m
      OBVIOUS
    <3>4. ~ (p < p)
      OBVIOUS
    <3>5. QED
      BY <1>3, <1>4, <2>1, <3>1, <3>2, <3>3, <3>4
  <2>5. QED
    BY <2>2, <2>3, <2>4, SamePairs
<1>7. QED
  BY <1>1, <1>4, <1>5, <1>6 DEF Abstract!Add, Before, Kept

LEMMA ArchiveRefines ==
  ASSUME MediaInv, NEW m \in Media, Archive(m)
  PROVE  Abstract!Remove(m)
<1>1. MediaTypeOK /\ media[m].status = "READY" /\ media[m] \in MediaRow
  BY RowTypes DEF MediaInv, Archive
<1>2. /\ media'[m].status = "ARCHIVED"
      /\ \A x \in Media \ {m} : media'[x] = media[x]
      /\ version' = version + 1 /\ stored' = stored
  BY <1>1 DEF Archive, MediaTypeOK, MediaRow
<1>3. Ready' = Ready \ {m} /\ m \in Ready
  BY <1>1, <1>2 DEF Ready, InState
<1>4. Kept' = Kept
  BY <1>1, <1>2 DEF Kept, InState
<1>5. Before' = Before \cap (Ready' \X Ready')
  <2>1. \A x \in Ready' : x \in Ready /\ media'[x] = media[x]
    BY <1>2, <1>3 DEF Ready, InState
  <2>2. Before' \subseteq Ready' \X Ready' /\ Before \cap (Ready' \X Ready') \subseteq Ready' \X Ready'
    BY DEF Before
  <2>3. ASSUME NEW x \in Ready', NEW y \in Ready'
        PROVE  <<x, y>> \in Before' <=> <<x, y>> \in Before \cap (Ready' \X Ready')
    <3>1. <<x, y>> \in Before' <=> media'[x].position < media'[y].position
      BY <2>3 DEF Before
    <3>2. <<x, y>> \in Before <=> media[x].position < media[y].position
      BY <2>1, BeforePairs
    <3>3. QED
      BY <2>1, <3>1, <3>2
  <2>4. QED
    BY <2>2, <2>3, SamePairs
<1>6. QED
  BY <1>2, <1>3, <1>4, <1>5 DEF Abstract!Remove, Before, Kept

LEMMA ReorderRefines ==
  ASSUME MediaInv, PositionsDistinct, NEW f \in Orders, Reorder(f)
  PROVE  Abstract!Arrange
<1>1. MediaTypeOK /\ \A x \in Ready : x \in Media /\ media[x] \in MediaRow
  BY PositionsAreNumbers DEF MediaInv
<1>2. /\ \A x \in Ready : media'[x].status = "READY" /\ media'[x].position = f[x]
      /\ \A x \in Media \ Ready : media'[x] = media[x]
      /\ version' = version + 1 /\ stored' = stored
  <2>1. \A x \in Ready : media'[x] = [media[x] EXCEPT !.position = f[x]]
    BY <1>1 DEF Reorder
  <2>2. \A x \in Ready : media[x].status = "READY"
    BY DEF Ready, InState
  <2>3. \A x \in Ready : media'[x].status = "READY" /\ media'[x].position = f[x]
    BY <1>1, <2>1, <2>2 DEF MediaRow
  <2>4. QED
    BY <2>3 DEF Reorder
<1>3. \A x \in Media : media'[x].status = media[x].status
  BY <1>2 DEF Ready, InState
<1>4. Ready' = Ready /\ Kept' = Kept
  BY <1>3 DEF Ready, Kept, InState
<1>5. \A x, y \in Ready : /\ f[x] \in Int /\ f[y] \in Int
                          /\ f[x] = f[y] => x = y
                          /\ <<x, y>> \in Before' <=> f[x] < f[y]
  <2>1. ASSUME NEW x \in Ready, NEW y \in Ready
        PROVE  <<x, y>> \in Before' <=> f[x] < f[y]
    <3>1. <<x, y>> \in Before' <=> media'[x].position < media'[y].position
      BY <1>4 DEF Before
    <3>2. QED
      BY <1>2, <3>1
  <2>2. ASSUME NEW x \in Ready
        PROVE  f[x] \in Int
    <3>1. f[x] \in 0 .. Cardinality(Ready) - 1
      BY DEF Orders
    <3>2. QED
      BY <3>1
  <2>3. \A x, y \in Ready : f[x] = f[y] => x = y
    BY DEF Orders
  <2>4. QED
    BY <2>1, <2>2, <2>3
<1>6. Abstract!IsOrder(Before', Ready)
  <2>1. Before' \subseteq Ready \X Ready
    BY <1>4 DEF Before
  <2>2. \A x, y \in Ready : <<x, y>> \in Before' => <<y, x>> \notin Before'
    BY <1>5
  <2>3. \A x, y \in Ready : x # y => <<x, y>> \in Before' \/ <<y, x>> \in Before'
    BY <1>5
  <2>4. \A x, y, z \in Ready :
          <<x, y>> \in Before' /\ <<y, z>> \in Before' => <<x, z>> \in Before'
    BY <1>5
  <2>5. QED
    BY <2>1, <2>2, <2>3, <2>4 DEF Abstract!IsOrder
<1>7. Before' # Before
  <2>1. PICK x \in Ready, y \in Ready : media[x].position < media[y].position /\ f[x] > f[y]
    BY DEF Reorder
  <2>2. <<x, y>> \in Before
    BY <2>1, BeforePairs
  <2>3. <<x, y>> \notin Before'
    BY <1>5, <2>1
  <2>4. QED
    BY <2>2, <2>3
<1>8. QED
  BY <1>2, <1>4, <1>6, <1>7 DEF Abstract!Arrange, Abstract!IsOrder, Before, Kept

\* Steps that show no photograph, hide none and move none.
LEMMA StorageRefines ==
  ASSUME MediaInv, MediaInv', version' = version,
         \A m \in Media : \/ media'[m] = media[m]
                          \/ /\ media'[m].status = media[m].status
                             /\ media'[m].position = media[m].position
                          \/ /\ media[m].status \notin {"READY", "ARCHIVED"}
                             /\ media'[m].status \notin {"READY", "ARCHIVED"},
         \A m \in Kept : m \in stored'
  PROVE  Abstract!Store
<1>1. Ready' = Ready /\ Kept' = Kept
  BY DEF Ready, Kept, InState
<1>2. Before' = Before
  <2>1. \A x \in Ready : media'[x].position = media[x].position
    BY DEF Ready, InState
  <2>2. QED
    BY <1>1, <2>1 DEF Before
<1>3. stored' \subseteq Media
  BY DEF MediaInv, MediaTypeOK
<1>4. QED
  BY <1>1, <1>2, <1>3 DEF Abstract!Store, Before, Kept

LEMMA GalleryStep ==
  MediaInv /\ MediaInv' /\ PositionsDistinct /\ [Next]_vars =>
    [Abstract!Next]_(Abstract!galleryVars)
<1> SUFFICES ASSUME MediaInv, MediaInv', PositionsDistinct, [Next]_vars
             PROVE  Abstract!Next
  OBVIOUS
<1> DEFINE Steady(m) == \/ media'[m] = media[m]
                        \/ /\ media'[m].status = media[m].status
                           /\ media'[m].position = media[m].position
                        \/ /\ media[m].status \notin {"READY", "ARCHIVED"}
                           /\ media'[m].status \notin {"READY", "ARCHIVED"}
<1>a. MediaTypeOK /\ media \in [Media -> MediaRow \cup {FreeMedia}]
  BY DEF MediaInv, MediaTypeOK
<1>1. CASE \E m \in Media : Complete(m)
  BY <1>1, CompleteRefines DEF Abstract!Next
<1>2. CASE \E m \in Media : Archive(m)
  BY <1>2, ArchiveRefines DEF Abstract!Next
<1>3. CASE \E f \in Orders : Reorder(f)
  BY <1>3, ReorderRefines DEF Abstract!Next
<1>4. ASSUME version' = version, \A m \in Media : Steady(m)
      PROVE  Abstract!Next
  <2>1. ASSUME NEW m \in Kept
        PROVE  m \in stored'
    <3>1. m \in Media /\ media[m].status \in {"READY", "ARCHIVED"}
      BY DEF Kept, InState
    <3>2. media'[m].status \in {"READY", "ARCHIVED"}
      BY <1>4, <3>1
    <3>3. QED
      BY <3>1, <3>2 DEF MediaInv, RowInv, ObjectIsKept
  <2>2. Abstract!Store
    BY <1>4, <2>1, StorageRefines
  <2>3. QED
    BY <2>2 DEF Abstract!Next
<1> HIDE DEF Steady
<1>5. CASE \E m \in Media : Intent(m)
  <2>1. \A m \in Media : Steady(m)
    BY <1>a, <1>5 DEF Intent, Steady
  <2>2. QED
    BY <1>4, <1>5, <2>1 DEF Intent
<1>6. CASE \E m \in Media : Cancel(m)
  <2>1. PICK x \in Media : Cancel(x)
    BY <1>6
  <2>2. media[x] \in MediaRow
    BY <1>a, <2>1, RowTypes DEF Cancel
  <2>3. \A m \in Media : Steady(m)
    BY <1>a, <2>1, <2>2 DEF Cancel, Steady, MediaRow
  <2>4. QED
    BY <1>4, <2>1, <2>3 DEF Cancel
<1>7. CASE \E m \in Media, o \in Origin : CleanUp(m, o)
  <2>1. PICK x \in Media, o \in Origin : CleanUp(x, o)
    BY <1>7
  <2>2. media[x] \in MediaRow
    BY <1>a, <2>1, RowTypes DEF CleanUp, IsIncomplete
  <2>3. \A m \in Media : Steady(m)
    BY <1>a, <2>1, <2>2 DEF CleanUp, IsIncomplete, Steady, MediaRow
  <2>4. QED
    BY <1>4, <2>1, <2>3 DEF CleanUp
<1>8. CASE Tick
  <2>1. ASSUME NEW m \in Media
        PROVE  Steady(m)
    <3>1. CASE media[m].status = "FREE"
      BY <1>a, <1>8, <3>1, TickRows DEF Steady
    <3>2. CASE media[m].status # "FREE"
      <4>1. media[m] \in MediaRow /\ media'[m] = [media[m] EXCEPT !.left = OneLess(@)]
        BY <1>a, <1>8, <3>2, TickRows, RowTypes
      <4>2. QED
        BY <4>1 DEF MediaRow, Steady
    <3>3. QED
      BY <3>1, <3>2
  <2>2. QED
    BY <1>4, <1>8, <2>1 DEF Tick
<1>9. CASE UNCHANGED <<media, version>>
  <2>1. \A m \in Media : Steady(m)
    BY <1>9 DEF Steady
  <2>2. QED
    BY <1>4, <1>9, <2>1
<1>10. QED
  BY <1>1, <1>2, <1>3, <1>5, <1>6, <1>7, <1>8, <1>9
     DEF Next, vars, Worker, Upload, PutArrives, DeleteArrives, RequestIsLost,
         CloseEvent, CleanUpFails, CleanUpRollsBack

\* However uploads, cleanups, retries and late requests to the storage overlap,
\* the handlers of photographs do nothing that Gallery does not allow: what is
\* new comes last, every change of the collection has a version of its own, and
\* a photograph that was once on show can be read for good.
THEOREM GalleryIsImplemented == Spec => ImplementsGallery
<1>1. Init => Abstract!Init
  BY DEF Init, Abstract!Init, Ready, InState, FreeMedia
<1>2. QED
  BY <1>1, GalleryStep, MediaInvariant, PositionsAreDistinct, PTL
     DEF Spec, ImplementsGallery, Abstract!Spec
=============================================================================
