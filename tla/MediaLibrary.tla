----------------------------- MODULE MediaLibrary -----------------------------
(***************************************************************************)
(* The photographs of one property (apps/api/src/media/media.service.ts)   *)
(* and the worker that cleans up after uploads that came to nothing        *)
(* (apps/worker/src/media-cleanup.ts).                                     *)
(*                                                                         *)
(* Every transaction, of the API and of the worker, first locks the row of *)
(* the property, so what it does to the tables is one action.  What it     *)
(* asks of the object storage is not undone when it rolls back, and is not *)
(* even over then: a transaction lasts 15 seconds at most, and so may each *)
(* request to the storage it makes.  `puts' and `deletes' hold the         *)
(* requests that have outlived their transaction and have yet to reach the *)
(* storage.                                                                *)
(*                                                                         *)
(* Times are kept as what is left of them.  Who may do what, and the       *)
(* hourly limit of a person, only refuse a request and are left out, as is *)
(* an intent repeated with its key, which returns the row it has made.     *)
(***************************************************************************)
EXTENDS Integers, FiniteSets

CONSTANTS
  Media,       \* photographs, by the intents that create their rows
  Ttl,         \* 900 seconds: the life of an upload intent
  MaxDelay,    \* one hour: the longest delay of a cleanup that failed
  Limit,       \* 100: how many photographs may be pending or ready
  MaxVersion   \* bound on property.media_version

ASSUME MediaAssumption ==
  /\ {Ttl, MaxDelay} \subseteq Nat \ {0}
  /\ {Limit, MaxVersion} \subseteq Nat

VARIABLES
  media,    \* rows of "media"
  event,    \* rows of "outbox_event" of type MEDIA_UPLOAD_CLEANUP
  version,  \* property.media_version
  stored,   \* the objects in the storage
  puts,     \* PutObject requests under way whose transaction is over
  deletes   \* DeleteObject requests under way whose transaction is over

vars == <<media, event, version, stored, puts, deletes>>

\* An intent schedules one event, and cancelling it another one.
Origin == {"INTENT", "CANCEL"}

NoPosition == -1
FreeMedia == [status |-> "FREE"]
MediaRow ==
  [status: {"PENDING", "READY", "ARCHIVED", "CANCELLED", "EXPIRED"},
   left: 0 .. Ttl, position: Nat \cup {NoPosition}, cleaned: BOOLEAN]

FreeEvent == [status |-> "FREE"]
EventRow == [status: {"PENDING", "PROCESSED", "OBSOLETE"}, wait: Nat]

MediaTypeOK ==
  /\ media \in [Media -> MediaRow \cup {FreeMedia}]
  /\ event \in [Media -> [Origin -> EventRow \cup {FreeEvent}]]
  /\ version \in Nat
  /\ stored \subseteq Media
  /\ puts \subseteq Media
  /\ deletes \subseteq Media

Init ==
  /\ media = [m \in Media |-> FreeMedia]
  /\ event = [m \in Media |-> [o \in Origin |-> FreeEvent]]
  /\ version = 0
  /\ stored = {}
  /\ puts = {}
  /\ deletes = {}

-----------------------------------------------------------------------------
(* What the handlers read *)

InState(S) == {m \in Media : media[m].status \in S}

Ready == InState({"READY"})

\* pending(): the upload can still be made or completed.
IsPending(m) == media[m].status = "PENDING" /\ media[m].left > 0

\* Mistaken variant: the highest position itself.
IsHighest(p) ==
  IF Ready = {} THEN p = 0
                ELSE /\ \E m \in Ready : media[m].position = p
                     /\ \A m \in Ready : media[m].position <= p

\* (highest._max.position ?? -1) + 1
IsNextPosition(p) ==
  /\ p \in Nat
  /\ \A m \in Ready : media[m].position < p
  /\ p = 0 \/ \E m \in Ready : media[m].position + 1 = p

-----------------------------------------------------------------------------
(* The API *)

Intent(m) ==
  /\ media[m].status = "FREE"
  /\ Cardinality(InState({"PENDING", "READY"})) < Limit
  /\ media' = [media EXCEPT ![m] = [status |-> "PENDING", left |-> Ttl,
                                    position |-> NoPosition, cleaned |-> FALSE]]
  /\ event' = [event EXCEPT ![m]["INTENT"] = [status |-> "PENDING", wait |-> Ttl]]
  /\ UNCHANGED <<version, stored, puts, deletes>>

\* upload writes no row.  Its bytes have the digest of the intent, and the put
\* is conditional, so an object that is there already stays as it is.
Upload(m) ==
  /\ IsPending(m)
  /\ \/ stored' = stored \cup {m} /\ UNCHANGED puts
     \/ puts' = puts \cup {m} /\ UNCHANGED stored
  /\ UNCHANGED <<media, event, version, deletes>>

Complete(m) ==
  /\ IsPending(m)
  /\ m \in stored
  /\ version < MaxVersion
  /\ \E p \in 0 .. Cardinality(Media) * (MaxVersion + 1) :
       /\ IsNextPosition(p)
       /\ media' = [media EXCEPT ![m].status = "READY", ![m].position = p]
  /\ version' = version + 1
  /\ UNCHANGED <<event, stored, puts, deletes>>

\* Mistaken variant: the version stays.
ArchiveSilently(m) ==
  /\ media[m].status = "READY"
  /\ media' = [media EXCEPT ![m].status = "ARCHIVED", ![m].position = NoPosition]
  /\ UNCHANGED <<event, version, stored, puts, deletes>>

Archive(m) ==
  /\ media[m].status = "READY"
  /\ version < MaxVersion
  /\ media' = [media EXCEPT ![m].status = "ARCHIVED", ![m].position = NoPosition]
  /\ version' = version + 1
  /\ UNCHANGED <<event, stored, puts, deletes>>

\* Mistaken variant: whatever is not ready is cancelled.
CancelAnything(m) ==
  /\ media[m].status \notin {"FREE", "READY"}
  /\ media' = [media EXCEPT ![m].status = "CANCELLED", ![m].position = NoPosition]
  /\ event' = [event EXCEPT ![m]["CANCEL"] = [status |-> "PENDING", wait |-> 0]]
  /\ UNCHANGED <<version, stored, puts, deletes>>

\* archive, of an upload that was not completed
Cancel(m) ==
  /\ media[m].status = "PENDING"
  /\ media' = [media EXCEPT ![m].status = "CANCELLED"]
  /\ event' = [event EXCEPT ![m]["CANCEL"] = [status |-> "PENDING", wait |-> 0]]
  /\ UNCHANGED <<version, stored, puts, deletes>>

\* The client sends the version it saw and every ready photograph once.  Since
\* the version tells collections apart, it has seen what it orders.
Reorder(position) ==
  /\ DOMAIN position = Ready
  /\ \E x, y \in Ready : media[x].position < media[y].position /\ position[x] > position[y]
  /\ version < MaxVersion
  /\ media' = [m \in Media |->
                 IF m \in Ready THEN [media[m] EXCEPT !.position = position[m]] ELSE media[m]]
  /\ version' = version + 1
  /\ UNCHANGED <<event, stored, puts, deletes>>

Orders ==
  {f \in [Ready -> 0 .. Cardinality(Ready) - 1] : \A x, y \in Ready : f[x] = f[y] => x = y}

-----------------------------------------------------------------------------
(* The cleanup worker.  An event falls due with the upload it is for, so the *)
(* branch that puts it off until then is never taken (CleanupIsScheduled).   *)

IsDue(m, o) == event[m][o].status = "PENDING" /\ event[m][o].wait = 0

\* Mistaken variant: only the expiry decides.
IsOver(m) == media[m].left = 0

IsIncomplete(m) == media[m].status \in {"PENDING", "CANCELLED", "EXPIRED"}

\* The photograph was completed: nothing to clean up.
CloseEvent(m, o) ==
  /\ IsDue(m, o)
  /\ ~ IsIncomplete(m)
  /\ event' = [event EXCEPT ![m][o].status = "OBSOLETE"]
  /\ UNCHANGED <<media, version, stored, puts, deletes>>

\* Mistaken variant: the upload may be completed later.
CleanUpOnly(m, o) ==
  /\ IsDue(m, o)
  /\ IsIncomplete(m)
  /\ stored' = stored \ {m}
  /\ event' = [event EXCEPT ![m][o].status = "PROCESSED"]
  /\ UNCHANGED <<media, version, puts, deletes>>

CleanUp(m, o) ==
  /\ IsDue(m, o)
  /\ IsIncomplete(m)
  /\ stored' = stored \ {m}
  /\ media' = [media EXCEPT
                 ![m].status = IF @ = "PENDING" THEN "EXPIRED" ELSE @,
                 ![m].cleaned = TRUE]
  /\ event' = [event EXCEPT ![m][o].status = "PROCESSED"]
  /\ UNCHANGED <<version, puts, deletes>>

\* What a removal that was not confirmed may have done or do later.
Removing(m) ==
  \/ UNCHANGED <<stored, deletes>>
  \/ stored' = stored \ {m} /\ UNCHANGED deletes
  \/ deletes' = deletes \cup {m} /\ UNCHANGED stored

\* Mistaken variant: a removal that failed is not tried again.
CleanUpGivesUp(m, o) ==
  /\ IsDue(m, o)
  /\ IsIncomplete(m)
  /\ Removing(m)
  /\ event' = [event EXCEPT ![m][o].status = "OBSOLETE"]
  /\ UNCHANGED <<media, version, puts>>

\* removeIncomplete fails, and the event is tried again later.
CleanUpFails(m, o) ==
  /\ IsDue(m, o)
  /\ IsIncomplete(m)
  /\ Removing(m)
  /\ \E d \in 1 .. MaxDelay : event' = [event EXCEPT ![m][o].wait = d]
  /\ UNCHANGED <<media, version, puts>>

\* The worker dies, or its transaction is rolled back.
CleanUpRollsBack(m, o) ==
  /\ IsDue(m, o)
  /\ IsIncomplete(m)
  /\ Removing(m)
  /\ UNCHANGED <<media, event, version, puts>>

-----------------------------------------------------------------------------
(* The storage and the clock *)

PutArrives(m) ==
  /\ m \in puts
  /\ puts' = puts \ {m}
  /\ stored' = stored \cup {m}
  /\ UNCHANGED <<media, event, version, deletes>>

DeleteArrives(m) ==
  /\ m \in deletes
  /\ deletes' = deletes \ {m}
  /\ stored' = stored \ {m}
  /\ UNCHANGED <<media, event, version, puts>>

RequestIsLost(m) ==
  /\ m \in puts \cup deletes
  /\ puts' = puts \ {m}
  /\ deletes' = deletes \ {m}
  /\ UNCHANGED <<media, event, version, stored>>

OneLess(n) == IF n = 0 THEN 0 ELSE n - 1

Tick ==
  /\ media' = [m \in Media |->
       IF media[m].status = "FREE" THEN media[m] ELSE [media[m] EXCEPT !.left = OneLess(@)]]
  /\ event' = [m \in Media |-> [o \in Origin |->
       IF event[m][o].status = "FREE" THEN event[m][o]
                                      ELSE [event[m][o] EXCEPT !.wait = OneLess(@)]]]
  /\ UNCHANGED <<version, stored, puts, deletes>>

Worker(m, o) ==
  \/ CloseEvent(m, o)
  \/ CleanUp(m, o)
  \/ CleanUpFails(m, o)
  \/ CleanUpRollsBack(m, o)

Next ==
  \/ \E m \in Media :
       \/ Intent(m)
       \/ Upload(m)
       \/ Complete(m)
       \/ Archive(m)
       \/ Cancel(m)
       \/ PutArrives(m)
       \/ DeleteArrives(m)
       \/ RequestIsLost(m)
  \/ \E f \in Orders : Reorder(f)
  \/ \E m \in Media, o \in Origin : Worker(m, o)
  \/ Tick

Spec == Init /\ [][Next]_vars

\* Time passes.  The worker takes the event that has been due longest, and one
\* that failed goes to the end, so an event that is due has its turn; the
\* storage is not down each time.
Fairness ==
  /\ WF_vars(Tick)
  /\ \A m \in Media, o \in Origin :
       WF_vars(CloseEvent(m, o)) /\ SF_vars(CleanUp(m, o))

FairSpec == Spec /\ Fairness

-----------------------------------------------------------------------------
(* Properties *)

\* A confirmed photograph keeps its object for good: no cleanup, retried,
\* rolled back or late, removes it, and no completion trusts one that is about
\* to be removed (complete, and processNextMediaCleanup's tests under lock).
ConfirmedKeepObject ==
  \A m \in InState({"READY", "ARCHIVED"}) : m \in stored /\ m \notin deletes

\* An upload that can come to nothing always has an event that will clean it up,
\* and what has been cleaned will not be completed; none is due while the upload
\* can still be made.
CleanupIsScheduled ==
  \A m \in Media :
    /\ media[m].status \in {"PENDING", "CANCELLED"} /\ ~ media[m].cleaned =>
         \E o \in Origin : event[m][o].status = "PENDING"
    /\ media[m].status = "EXPIRED" => media[m].cleaned
    /\ IsPending(m) => \A o \in Origin : ~ IsDue(m, o)

\* No two photographs on show have the same position, so the deferred unique
\* constraint media_property_position_key never aborts a request; all others
\* have none.
PositionsDistinct ==
  /\ \A x, y \in Ready : media[x].position = media[y].position => x = y
  /\ \A m \in Media : media[m].status # "FREE" =>
       (media[m].position = NoPosition <=> m \notin Ready)

Collection == [m \in Ready |-> media[m].position]

\* Whatever changes the photographs on show or their order raises the version,
\* so a client that sends the present version has seen what it reorders.
VersionTracksCollection ==
  [][Collection' # Collection => version' = version + 1]_vars

\* What the trigger media_history_guard demands: no request, however late, takes
\* a photograph back from a state that is final.
HistoryIsKept ==
  [][\A m \in Media :
       LET was == media[m].status is == media'[m].status IN
       /\ was = "READY" => is \in {"READY", "ARCHIVED"}
       /\ was \in {"ARCHIVED", "CANCELLED", "EXPIRED"} => is = was
       /\ (was # "FREE" /\ media[m].cleaned) => media'[m].cleaned]_vars

IsCleaned(m) == media[m].status # "FREE" /\ media[m].cleaned

\* Every upload ends: it is completed, or it is cleaned up.
UploadsEnd ==
  \A m \in Media :
    media[m].status = "PENDING" ~>
      media[m].status \in {"READY", "ARCHIVED"} \/ IsCleaned(m)

\* "Un fallo entre S3 y commit SQL deja unicamente un objeto PENDING: nunca
\* visible. Puede repetirse la misma carga o esperar a limpieza."
\* (docs/C1-MEDIA-API.md): an object in the storage is of a pending upload or of
\* a photograph, or a cleanup is still to come.
ObjectsBelongToRows ==
  \A m \in stored :
    \/ media[m].status \in {"PENDING", "READY", "ARCHIVED"}
    \/ \E o \in Origin : event[m][o].status = "PENDING"

-----------------------------------------------------------------------------
(* What those who look at the photographs are promised: Gallery *)

Abstract == INSTANCE Gallery WITH
  shown <- Ready,
  before <- {p \in Ready \X Ready : media[p[1]].position < media[p[2]].position},
  kept <- InState({"READY", "ARCHIVED"}),
  objects <- stored

\* However uploads, cleanups, retries and late requests to the storage overlap,
\* they show as changes of the collection one at a time, each with a version of
\* its own, and never as the loss of a photograph that was once on show.
ImplementsGallery == Abstract!Spec
=============================================================================
