------------------------------ MODULE Membership ------------------------------
(***************************************************************************)
(* What the administration of an organization promises to its people,      *)
(* without rows, tokens, events or clocks: who belongs to it, who          *)
(* administers it and who may join as what.  People join only by an        *)
(* invitation that stands, in the role it offers.  Only administrators     *)
(* invite, appoint, dismiss and demote, and never themselves except by     *)
(* handing their role over; everybody may leave while an administrator     *)
(* remains.  An invitation may lapse at any time.                          *)
(***************************************************************************)
EXTENDS Naturals

CONSTANTS User, Role

VARIABLES
  open,     \* whether the organization is active
  people,   \* the users whose accounts are active
  members,  \* who belongs to the organization
  admins,   \* who administers it
  invited   \* the invitations that stand, as pairs of a user and a role

membershipVars == <<open, people, members, admins, invited>>

Init ==
  /\ open = TRUE
  /\ \E founder \in User :
       people = {founder} /\ members = {founder} /\ admins = {founder}
  /\ invited = {}

Administers(by) == open /\ by \in people \cap admins

Invite(by, u, role) ==
  /\ Administers(by)
  /\ \A r \in Role : <<u, r>> \notin invited
  /\ invited' = invited \cup {<<u, role>>}
  /\ UNCHANGED <<open, people, members, admins>>

Lapse ==
  /\ invited' \subseteq invited
  /\ UNCHANGED <<open, people, members, admins>>

Join(u, role) ==
  /\ open
  /\ u \in people \ members
  /\ <<u, role>> \in invited
  /\ members' = members \cup {u}
  /\ admins' = IF role = "ADMIN" THEN admins \cup {u} ELSE admins
  /\ invited' = invited \ {<<u, role>>}
  /\ UNCHANGED <<open, people>>

Leave(u) ==
  /\ open
  /\ u \in people \cap members
  /\ admins # {u}
  /\ members' = members \ {u}
  /\ admins' = admins \ {u}
  /\ UNCHANGED <<open, people, invited>>

Dismiss(by, u) ==
  /\ Administers(by)
  /\ u \in members \ {by}
  /\ members' = members \ {u}
  /\ admins' = admins \ {u}
  /\ UNCHANGED <<open, people, invited>>

Appoint(by, u) ==
  /\ Administers(by)
  /\ u \in (members \cap people) \ admins
  /\ admins' = admins \cup {u}
  /\ UNCHANGED <<open, people, members, invited>>

Demote(by, u) ==
  /\ Administers(by)
  /\ u \in admins \ {by}
  /\ admins' = admins \ {u}
  /\ UNCHANGED <<open, people, members, invited>>

\* The one who hands over is an ordinary member afterwards.
HandOver(by, u) ==
  /\ Administers(by)
  /\ u \in (members \cap people) \ {by}
  /\ admins' = (admins \ {by}) \cup {u}
  /\ UNCHANGED <<open, people, members, invited>>

\* Accounts and organizations are suspended and reinstated from outside.
Outside ==
  /\ open' \in BOOLEAN
  /\ people' \subseteq User
  /\ UNCHANGED <<members, admins, invited>>

Next ==
  \/ Lapse
  \/ Outside
  \/ \E u \in User, role \in Role : Join(u, role)
  \/ \E u \in members : Leave(u)
  \/ \E by \in admins, u \in members :
       Dismiss(by, u) \/ Appoint(by, u) \/ Demote(by, u) \/ HandOver(by, u)
  \/ \E by \in admins, u \in User, role \in Role : Invite(by, u, role)

Spec == Init /\ [][Next]_membershipVars
=============================================================================
