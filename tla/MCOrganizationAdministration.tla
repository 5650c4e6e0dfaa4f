--------------------- MODULE MCOrganizationAdministration ---------------------
(* Instances of OrganizationAdministration for TLC. *)
EXTENDS OrganizationAdministration, TLC

\* Rows have random identifiers, and no code prefers one person to another.
Symmetry ==
  Permutations(User) \cup Permutations(MemberId) \cup Permutations(InvitationId)

\* Of the two invitations at most one is resent and at most one offers the
\* administration: they share no tokens, and one of each kind is enough to meet.
OneOfEach ==
  /\ \E i \in InvitationId : Latest(i) < 2
  /\ \E i \in InvitationId :
       invitation[i].status # "FREE" => invitation[i].role = "PROFESSIONAL_MEMBER"
=============================================================================
