--------------------------- MODULE UploadAdmission ---------------------------
(***************************************************************************)
(* The admission of uploads (media/media.controller.ts): a process takes   *)
(* in MaxUploads bodies at a time.  A slot is taken before the preflight,  *)
(* kept while the body is received and MediaService.upload runs, and given *)
(* back however that ends.  receiveBytes settles once, by the first of the *)
(* body's end, too many bytes, a broken connection and a timer.            *)
(*                                                                         *)
(* JavaScript runs one callback at a time: a step is what runs between two *)
(* waits.  What the service does with the bytes is in MediaLibrary.        *)
(***************************************************************************)
EXTENDS Naturals, FiniteSets

CONSTANTS
  Upload,     \* connections, with a request at a time
  MaxUploads

ASSUME UploadAssumption == IsFiniteSet(Upload) /\ MaxUploads \in Nat \ {0}

VARIABLES
  activeUploads,
  phase,      \* where upload() waits; "NONE" when it is not running
  connected,  \* is the request neither aborted nor destroyed?
  received    \* so far: "LESS" than size, "WHOLE" or "MORE"

uploadVars == <<activeUploads, phase, connected, received>>

Receipt == {"LESS", "WHOLE", "MORE"}

UploadTypeOK ==
  /\ activeUploads \in Nat
  /\ phase \in [Upload -> {"NONE", "PREFLIGHT", "RECEIVE", "UPLOAD"}]
  /\ connected \in [Upload -> BOOLEAN]
  /\ received \in [Upload -> Receipt]

UploadInit ==
  /\ activeUploads = 0
  /\ phase = [u \in Upload |-> "NONE"]
  /\ connected = [u \in Upload |-> TRUE]
  /\ received = [u \in Upload |-> "LESS"]

-----------------------------------------------------------------------------
(* upload *)

\* A request that names a size it may have; with no slot left it gets 429.
Admit(u) ==
  /\ phase[u] = "NONE"
  /\ activeUploads < MaxUploads
  /\ activeUploads' = activeUploads + 1
  /\ phase' = [phase EXCEPT ![u] = "PREFLIGHT"]
  /\ connected' = [connected EXCEPT ![u] = TRUE]
  /\ received' = [received EXCEPT ![u] = "LESS"]

\* Mistaken variant: only an upload that comes to its end gives its slot back.
FinishKeeping(u) ==
  /\ phase' = [phase EXCEPT ![u] = "NONE"]
  /\ activeUploads' = IF phase[u] = "UPLOAD" THEN activeUploads - 1 ELSE activeUploads

\* finally
Finish(u) ==
  /\ phase' = [phase EXCEPT ![u] = "NONE"]
  /\ activeUploads' = activeUploads - 1

Proceed(u, next) ==
  /\ phase' = [phase EXCEPT ![u] = next]
  /\ UNCHANGED activeUploads

\* The preflight throws, or returns and the body is read unless its connection
\* broke meanwhile.
Preflight(u) ==
  /\ phase[u] = "PREFLIGHT"
  /\ Finish(u) \/ (connected[u] /\ Proceed(u, "RECEIVE"))
  /\ UNCHANGED <<connected, received>>

\* MediaService.upload returns or throws.
EndUpload(u) ==
  /\ phase[u] = "UPLOAD"
  /\ Finish(u)
  /\ UNCHANGED <<connected, received>>

-----------------------------------------------------------------------------
(* receiveBytes *)

Data(u, so_far) ==
  /\ phase[u] = "RECEIVE" /\ connected[u]
  /\ <<received[u], so_far>> \in {<<"LESS", "WHOLE">>, <<"LESS", "MORE">>, <<"WHOLE", "MORE">>}
  /\ received' = [received EXCEPT ![u] = so_far]
  /\ IF so_far = "MORE" THEN Finish(u) ELSE Proceed(u, "RECEIVE")
  /\ UNCHANGED connected

End(u) ==
  /\ phase[u] = "RECEIVE" /\ connected[u]
  /\ IF received[u] = "WHOLE" THEN Proceed(u, "UPLOAD") ELSE Finish(u)
  /\ UNCHANGED <<connected, received>>

\* error, aborted: at any time, but only receiveBytes listens.
Abort(u) ==
  /\ phase[u] # "NONE" /\ connected[u]
  /\ connected' = [connected EXCEPT ![u] = FALSE]
  /\ IF phase[u] = "RECEIVE" THEN Finish(u) ELSE UNCHANGED <<activeUploads, phase>>
  /\ UNCHANGED received

\* Mistaken variant: the timer is for the first byte only.
TimeoutOfFirstByte(u) ==
  /\ phase[u] = "RECEIVE"
  /\ received[u] = "LESS"
  /\ Finish(u)
  /\ UNCHANGED <<connected, received>>

\* The 15 seconds are over.
Timeout(u) ==
  /\ phase[u] = "RECEIVE"
  /\ Finish(u)
  /\ UNCHANGED <<connected, received>>

UploadNext ==
  \E u \in Upload :
    \/ Admit(u) \/ Preflight(u) \/ EndUpload(u)
    \/ \E so_far \in Receipt : Data(u, so_far)
    \/ End(u) \/ Abort(u) \/ Timeout(u)

\* The calls of the service return and the timer fires; a client owes nothing.
UploadFairness ==
  \A u \in Upload :
    WF_uploadVars(Preflight(u)) /\ WF_uploadVars(EndUpload(u)) /\ WF_uploadVars(Timeout(u))

UploadSpec == UploadInit /\ [][UploadNext]_uploadVars /\ UploadFairness

-----------------------------------------------------------------------------
(* Properties *)

\* The counter is the number of the uploads in progress, which is within the
\* limit: errors, breaks and timeouts neither lose a slot nor free one twice.
SlotsMatchUploads ==
  /\ activeUploads = Cardinality({u \in Upload : phase[u] # "NONE"})
  /\ activeUploads <= MaxUploads

\* Whatever its client does or leaves undone, an upload ends, so that the house
\* is not full for ever.
SlotsAreFreed ==
  /\ \A u \in Upload : phase[u] # "NONE" ~> phase[u] = "NONE"
  /\ activeUploads = MaxUploads ~> activeUploads < MaxUploads
=============================================================================
