------------------------------- MODULE Authority -------------------------------
(***************************************************************************)
(* What the authorizations of a property promise to those who rely on      *)
(* them, without rows, times and the moments at which an end is recorded.  *)
(* Who creates the property owns it for good, and only the owner grants    *)
(* and withdraws.  Nobody holds a grant of a kind twice.  A grant without  *)
(* end ends only by the owner's will; one with an end may run out, and one *)
(* that is for later may begin, at any time.  A listing is published under *)
(* a name that is itself the owner's or holds a grant which has begun.     *)
(***************************************************************************)

CONSTANTS User, Organization, ListingId

VARIABLES
  owners,     \* who owns the property, at most one person
  granted,    \* the grants that stand
  effective,  \* those of them that have begun
  publisher,  \* the name under which each listing is published
  names       \* the names each user may act under

authorityVars == <<owners, granted, effective, publisher, names>>

Subject == User \cup Organization

Grants == [subject: Subject, type: {"MANAGER", "PUBLISHER"}, endless: BOOLEAN]

Init ==
  /\ owners = {}
  /\ granted = {}
  /\ effective = {}
  /\ publisher = [l \in ListingId |-> "FREE"]
  /\ names = [u \in User |-> {u}]

Create(u) ==
  /\ owners = {}
  /\ owners' = {u}
  /\ UNCHANGED <<granted, effective, publisher, names>>

Grant(by, g) ==
  /\ by \in owners
  /\ \A x \in granted : x.subject = g.subject => x.type # g.type
  /\ granted' = granted \cup {g}
  /\ effective' \in {effective, effective \cup {g}}
  /\ UNCHANGED <<owners, publisher, names>>

Withdraw(by, g) ==
  /\ by \in owners
  /\ granted' = granted \ {g}
  /\ effective' = effective \ {g}
  /\ UNCHANGED <<owners, publisher, names>>

\* Time ends some grants and begins others.
Pass ==
  /\ granted' \subseteq granted
  /\ \A g \in granted : g.endless => g \in granted'
  /\ effective \cap granted' \subseteq effective'
  /\ effective' \subseteq granted'
  /\ UNCHANGED <<owners, publisher, names>>

Publish(by, s, l) ==
  /\ publisher[l] = "FREE"
  /\ s \in names[by]
  /\ s \in owners \/ \E g \in effective : g.subject = s
  /\ publisher' = [publisher EXCEPT ![l] = s]
  /\ UNCHANGED <<owners, granted, effective, names>>

\* Whom a user may act for is decided elsewhere.
Outside ==
  /\ names' \in [User -> SUBSET Subject]
  /\ \A u \in User : u \in names'[u]
  /\ UNCHANGED <<owners, granted, effective, publisher>>

Next ==
  \/ Pass
  \/ Outside
  \/ \E u \in User : Create(u)
  \/ \E by \in owners : \E g \in granted : Withdraw(by, g)
  \/ \E by \in User, s \in Subject, l \in ListingId : Publish(by, s, l)
  \/ \E by \in owners : \E g \in Grants : Grant(by, g)

Spec == Init /\ [][Next]_authorityVars
=============================================================================
