-------------------------- MODULE MCInvitationOutbox --------------------------
(* Instances of InvitationOutbox for TLC. *)
EXTENDS InvitationOutbox, TLC

\* For safety only: the liveness run does without symmetry.
Symmetry == Permutations(User) \cup Permutations(MemberId) \cup Permutations(Worker)

\* With two workers, what the worker does not read is held fixed: the role an
\* invitation offers and the account of the administrator.
WorkersOnly ==
  /\ \A u \in User : account[u] = "ACTIVE"
  /\ \A i \in InvitationId :
       invitation[i].status # "FREE" => invitation[i].role = "PROFESSIONAL_MEMBER"
=============================================================================
