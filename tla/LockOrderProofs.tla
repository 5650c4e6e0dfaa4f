---------------------------- MODULE LockOrderProofs ----------------------------
(***************************************************************************)
(* No deadlock, for any requests, users, organizations and rows: every     *)
(* list of statements is well ordered, so what a transaction waits for     *)
(* comes after everything it holds, except within the rows that a row it   *)
(* holds alone guards.                                                     *)
(***************************************************************************)
EXTENDS LockOrder, SequenceTheorems, WellFoundedInduction, TLAPS

\* The order of LOCK_ORDER.md, with the rows it does not name.
Rank == [User |-> 1, PasswordCredential |-> 2, Session |-> 3, UserToken |-> 4,
         InvitationToken |-> 5, Organization |-> 6, OrganizationMember |-> 7,
         OrganizationInvitation |-> 8, Property |-> 9, PropertyAuthorization |-> 10,
         Listing |-> 11, UserEvent |-> 12, InvitationEvent |-> 13, MediaEvent |-> 14,
         EmailBucket |-> 15, AddressBucket |-> 16]
Kind == DOMAIN Rank
Row == Kind \X Ids \X Ids

\* The kinds that an updateMany takes in any order, or that one transaction takes
\* in two statements.  It holds the row they depend on before it does so.
Guarded == {"UserToken", "UserEvent", "InvitationEvent"}
Guard(kind, group) ==
  IF kind = "InvitationEvent" THEN <<"OrganizationInvitation", 0, group>>
                              ELSE <<"User", 0, group>>

Statement == [kind: Kind, keys: SUBSET (Ids \X Ids), sorted: BOOLEAN]

IsGuarded(p, k) ==
  \A key \in p[k].keys : \E i \in 1 .. k - 1 : Guard(p[k].kind, key[1]) \in RowsOf(p[i])

IsAlone(p, k) ==
  /\ \A key, other \in p[k].keys : key = other
  /\ \A j \in DOMAIN p : j # k => p[j].kind # p[k].kind

WellOrdered(p) ==
  /\ p \in Seq(Statement)
  /\ \A j, k \in DOMAIN p : j < k =>
       \/ Rank[p[j].kind] < Rank[p[k].kind]
       \/ /\ p[j].kind = p[k].kind
          /\ p[k].kind \in Guarded
  /\ \A k \in DOMAIN p :
       /\ ~p[k].sorted => p[k].kind \in Guarded
       /\ p[k].kind \in Guarded => IsGuarded(p, k) \/ IsAlone(p, k)
  /\ \A j, k \in DOMAIN p :
       p[j].kind = p[k].kind /\ p[k].kind \in Guarded
         => \A key \in p[j].keys, other \in p[k].keys : key[1] = other[1]

-----------------------------------------------------------------------------
(* Numbers *)

\* A set of identifiers that is not empty has a greatest one.
LEMMA Greatest ==
  ASSUME NEW T \in SUBSET Nat, T # {}, NEW max \in Nat, \A x \in T : x <= max
  PROVE  \E x \in T : \A y \in T : y <= x
<1> DEFINE D == {n \in Nat : max - n \in T}
<1>1. D \subseteq Nat /\ D # {}
  <2>1. PICK t \in T : TRUE
    OBVIOUS
  <2>2. max - t \in Nat /\ max - (max - t) = t
    OBVIOUS
  <2>3. max - t \in D
    BY <2>1, <2>2
  <2>4. QED
    BY <2>3
<1>2. PICK m \in D : \A n \in D : ~(<<n, m>> \in OpToRel(<, Nat))
  <2> HIDE DEF D
  <2>1. QED
    BY <1>1, NatLessThanWellFounded, WFMin
<1>3. ASSUME NEW y \in T
      PROVE  y <= max - m
  <2>1. max - y \in Nat /\ max - (max - y) = y
    OBVIOUS
  <2>2. max - y \in D
    BY <2>1
  <2>3. ~(max - y < m)
    BY <1>2, <2>1, <2>2 DEF OpToRel
  <2>4. QED
    BY <2>1, <2>3
<1>4. QED
  BY <1>2, <1>3

-----------------------------------------------------------------------------
(* Every list of statements is well ordered *)

LEMMA RankType ==
  /\ \A kind \in Kind : Rank[kind] \in 1 .. 16
  /\ \A kind, other \in Kind : Rank[kind] = Rank[other] => kind = other
BY DEF Kind, Rank

LEMMA IdsType ==
  /\ Ids \subseteq Nat /\ 0 \in Ids
  /\ User \subseteq Ids /\ Organization \subseteq Ids /\ Invitation \subseteq Ids
  /\ Property \subseteq Ids /\ Id \subseteq Ids
BY IdsAreNumbers DEF Ids

LEMMA SelectType ==
  ASSUME NEW kind \in Kind, NEW keys \in SUBSET (Ids \X Ids)
  PROVE  /\ Select(kind, keys) \in Statement
         /\ Update(kind, keys) \in Statement
BY DEF Select, Update, Statement

LEMMA OneType ==
  ASSUME NEW kind \in Kind, NEW group \in Ids, NEW id \in Ids
  PROVE  One(kind, group, id) \in Statement
BY SelectType DEF One

LEMMA AllOfType ==
  ASSUME NEW kind \in Kind, NEW group \in Ids
  PROVE  /\ AllOf(kind, group) \in Statement
         /\ Update(kind, {group} \X Id) \in Statement
BY IdsType, SelectType DEF AllOf

LEMMA SetOfType ==
  ASSUME NEW kind \in Kind, NEW ids \in SUBSET Ids
  PROVE  SetOf(kind, ids) \in Statement
BY IdsType, SelectType DEF SetOf

LEMMA OneFields ==
  \A kind, group, id :
    /\ One(kind, group, id).kind = kind
    /\ One(kind, group, id).sorted
    /\ One(kind, group, id).keys = {<<group, id>>}
BY DEF One, Select

LEMMA AllOfFields ==
  \A kind, group :
    /\ AllOf(kind, group).kind = kind
    /\ AllOf(kind, group).sorted
    /\ AllOf(kind, group).keys = {group} \X Id
BY DEF AllOf, Select

LEMMA SetOfFields ==
  \A kind, ids :
    /\ SetOf(kind, ids).kind = kind
    /\ SetOf(kind, ids).sorted
    /\ SetOf(kind, ids).keys = {0} \X ids
BY DEF SetOf, Select

LEMMA SelectFields ==
  \A kind, keys : Select(kind, keys).kind = kind /\ Select(kind, keys).sorted
BY DEF Select

LEMMA UpdateFields ==
  \A kind, keys :
    /\ Update(kind, keys).kind = kind
    /\ ~Update(kind, keys).sorted
    /\ Update(kind, keys).keys = keys
BY DEF Update

LEMMA Ranks ==
  /\ "User" \in Kind /\ Rank["User"] = 1
  /\ "PasswordCredential" \in Kind /\ Rank["PasswordCredential"] = 2
  /\ "Session" \in Kind /\ Rank["Session"] = 3
  /\ "UserToken" \in Kind /\ Rank["UserToken"] = 4
  /\ "InvitationToken" \in Kind /\ Rank["InvitationToken"] = 5
  /\ "Organization" \in Kind /\ Rank["Organization"] = 6
  /\ "OrganizationMember" \in Kind /\ Rank["OrganizationMember"] = 7
  /\ "OrganizationInvitation" \in Kind /\ Rank["OrganizationInvitation"] = 8
  /\ "Property" \in Kind /\ Rank["Property"] = 9
  /\ "PropertyAuthorization" \in Kind /\ Rank["PropertyAuthorization"] = 10
  /\ "Listing" \in Kind /\ Rank["Listing"] = 11
  /\ "UserEvent" \in Kind /\ Rank["UserEvent"] = 12
  /\ "InvitationEvent" \in Kind /\ Rank["InvitationEvent"] = 13
  /\ "MediaEvent" \in Kind /\ Rank["MediaEvent"] = 14
  /\ "EmailBucket" \in Kind /\ Rank["EmailBucket"] = 15
  /\ "AddressBucket" \in Kind /\ Rank["AddressBucket"] = 16
BY DEF Kind, Rank

\* Kinds that ascend.
LEMMA Ascending ==
  ASSUME NEW p \in Seq(Statement),
         \A j, k \in DOMAIN p : j < k => Rank[p[j].kind] < Rank[p[k].kind],
         \A k \in DOMAIN p : ~p[k].sorted => p[k].kind \in Guarded,
         \A k \in DOMAIN p : p[k].kind \in Guarded =>
           /\ \A key, other \in p[k].keys : key[1] = other[1]
           /\ IsGuarded(p, k) \/ \A key, other \in p[k].keys : key = other
  PROVE  WellOrdered(p)
<1>1. \A j, k \in DOMAIN p : j # k => p[j].kind # p[k].kind
  <2>1. DOMAIN p = 1 .. Len(p) /\ Len(p) \in Nat
    BY LenProperties
  <2>2. \A k \in DOMAIN p : Rank[p[k].kind] \in 1 .. 16
    <3>1. \A k \in DOMAIN p : p[k] \in Statement
      BY ElementOfSeq, <2>1
    <3>2. QED
      BY <3>1, RankType DEF Statement
  <2>3. ASSUME NEW j \in DOMAIN p, NEW k \in DOMAIN p, j < k
        PROVE  p[j].kind # p[k].kind
    <3>1. Rank[p[j].kind] < Rank[p[k].kind]
      BY <2>3
    <3>2. QED
      BY <2>2, <3>1
  <2>4. \A j, k \in DOMAIN p : j # k => j < k \/ k < j
    BY <2>1
  <2>5. QED
    BY <2>3, <2>4
<1>2. QED
  BY <1>1 DEF WellOrdered, IsAlone

\* The only list that takes rows of one kind in two statements.
LEMMA VerifyEmailOrdered ==
  ASSUME NEW u \in User, NEW t \in Id
  PROVE  WellOrdered(VerifyEmail(u, t))
<1> DEFINE list == VerifyEmail(u, t)
<1>1. /\ DOMAIN list = 1 .. 3
      /\ list[1] = One("User", 0, u)
      /\ list[2] = One("UserToken", u, t)
      /\ list[3] = Update("UserToken", {u} \X Id)
  BY DEF VerifyEmail
<1>2. list \in Seq(Statement)
  <2>1. /\ One("User", 0, u) \in Statement
        /\ One("UserToken", u, t) \in Statement
        /\ Update("UserToken", {u} \X Id) \in Statement
    BY IdsType, Ranks, OneType, AllOfType
  <2>2. QED
    BY <2>1 DEF VerifyEmail
<1>3. /\ list[1].kind = "User" /\ list[1].sorted /\ list[1].keys = {<<0, u>>}
      /\ list[2].kind = "UserToken" /\ list[2].sorted /\ list[2].keys = {<<u, t>>}
      /\ list[3].kind = "UserToken" /\ ~list[3].sorted /\ list[3].keys = {u} \X Id
  BY <1>1, OneFields, UpdateFields
<1> HIDE DEF list
<1>4. <<"User", 0, u>> \in RowsOf(list[1])
  BY <1>3 DEF RowsOf
<1>5. IsGuarded(list, 2) /\ IsGuarded(list, 3)
  BY <1>3, <1>4 DEF IsGuarded, Guard
<1>6. \A j, k \in DOMAIN list : j < k =>
        \/ Rank[list[j].kind] < Rank[list[k].kind]
        \/ list[j].kind = list[k].kind /\ list[k].kind \in Guarded
  BY <1>1, <1>3, Ranks DEF Guarded
<1>7. \A k \in DOMAIN list :
        /\ ~list[k].sorted => list[k].kind \in Guarded
        /\ list[k].kind \in Guarded => IsGuarded(list, k) \/ IsAlone(list, k)
  BY <1>1, <1>3, <1>5 DEF Guarded
<1>8. \A j, k \in DOMAIN list :
        list[j].kind = list[k].kind /\ list[k].kind \in Guarded
          => \A key \in list[j].keys, other \in list[k].keys : key[1] = other[1]
  <2>1. \A k \in DOMAIN list : list[k].kind \in Guarded => k \in {2, 3}
    BY <1>1, <1>3 DEF Guarded
  <2>2. \A k \in {2, 3} : \A key \in list[k].keys : key[1] = u
    BY <1>3
  <2>3. QED
    BY <2>1, <2>2
<1>9. WellOrdered(list)
  BY <1>2, <1>6, <1>7, <1>8, Zenon DEF WellOrdered
<1>10. QED
  BY <1>9 DEF list

LEMMA LoginOrdered ==
  ASSUME NEW u \in User
  PROVE  WellOrdered(Login(u))
<1> DEFINE list == Login(u)
<1>1. /\ DOMAIN list = 1 .. 2
      /\ list[1] = One("User", 0, u)
      /\ list[2] = One("PasswordCredential", 0, u)
  BY DEF Login
<1>2. list \in Seq(Statement)
  <2>1. /\ One("User", 0, u) \in Statement
        /\ One("PasswordCredential", 0, u) \in Statement
    BY IdsType, Ranks, OneType
  <2>2. QED
    BY <2>1 DEF Login
<1>3. /\ list[1].kind = "User" /\ list[1].sorted
      /\ list[2].kind = "PasswordCredential" /\ list[2].sorted
  BY <1>1, OneFields
<1> HIDE DEF list
<1>6. \A j, k \in DOMAIN list : j < k => Rank[list[j].kind] < Rank[list[k].kind]
  BY <1>1, <1>3, Ranks
<1>7. /\ \A k \in DOMAIN list : ~list[k].sorted => list[k].kind \in Guarded
      /\ \A k \in DOMAIN list : list[k].kind \in Guarded =>
           /\ \A key, other \in list[k].keys : key[1] = other[1]
           /\ IsGuarded(list, k) \/ \A key, other \in list[k].keys : key = other
  BY <1>1, <1>3 DEF Guarded
<1>8. WellOrdered(list)
  BY <1>2, <1>6, <1>7, Ascending
<1>9. QED
  BY <1>8 DEF list

LEMMA ActorOrdered ==
  ASSUME NEW u \in User, NEW s \in Id
  PROVE  WellOrdered(Actor(u, s))
<1> DEFINE list == Actor(u, s)
<1>1. /\ DOMAIN list = 1 .. 2
      /\ list[1] = One("User", 0, u)
      /\ list[2] = One("Session", u, s)
  BY DEF Actor
<1>2. list \in Seq(Statement)
  <2>1. /\ One("User", 0, u) \in Statement
        /\ One("Session", u, s) \in Statement
    BY IdsType, Ranks, OneType
  <2>2. QED
    BY <2>1 DEF Actor
<1>3. /\ list[1].kind = "User" /\ list[1].sorted
      /\ list[2].kind = "Session" /\ list[2].sorted
  BY <1>1, OneFields
<1> HIDE DEF list
<1>6. \A j, k \in DOMAIN list : j < k => Rank[list[j].kind] < Rank[list[k].kind]
  BY <1>1, <1>3, Ranks
<1>7. /\ \A k \in DOMAIN list : ~list[k].sorted => list[k].kind \in Guarded
      /\ \A k \in DOMAIN list : list[k].kind \in Guarded =>
           /\ \A key, other \in list[k].keys : key[1] = other[1]
           /\ IsGuarded(list, k) \/ \A key, other \in list[k].keys : key = other
  BY <1>1, <1>3 DEF Guarded
<1>8. WellOrdered(list)
  BY <1>2, <1>6, <1>7, Ascending
<1>9. QED
  BY <1>8 DEF list

LEMMA LogoutAllOrdered ==
  ASSUME NEW u \in User
  PROVE  WellOrdered(LogoutAll(u))
<1> DEFINE list == LogoutAll(u)
<1>1. /\ DOMAIN list = 1 .. 2
      /\ list[1] = One("User", 0, u)
      /\ list[2] = AllOf("Session", u)
  BY DEF LogoutAll
<1>2. list \in Seq(Statement)
  <2>1. /\ One("User", 0, u) \in Statement
        /\ AllOf("Session", u) \in Statement
    BY IdsType, Ranks, AllOfType, OneType
  <2>2. QED
    BY <2>1 DEF LogoutAll
<1>3. /\ list[1].kind = "User" /\ list[1].sorted
      /\ list[2].kind = "Session" /\ list[2].sorted
  BY <1>1, AllOfFields, OneFields
<1> HIDE DEF list
<1>6. \A j, k \in DOMAIN list : j < k => Rank[list[j].kind] < Rank[list[k].kind]
  BY <1>1, <1>3, Ranks
<1>7. /\ \A k \in DOMAIN list : ~list[k].sorted => list[k].kind \in Guarded
      /\ \A k \in DOMAIN list : list[k].kind \in Guarded =>
           /\ \A key, other \in list[k].keys : key[1] = other[1]
           /\ IsGuarded(list, k) \/ \A key, other \in list[k].keys : key = other
  BY <1>1, <1>3 DEF Guarded
<1>8. WellOrdered(list)
  BY <1>2, <1>6, <1>7, Ascending
<1>9. QED
  BY <1>8 DEF list

LEMMA NewPasswordOrdered ==
  ASSUME NEW u \in User
  PROVE  WellOrdered(NewPassword(u))
<1> DEFINE list == NewPassword(u)
<1>1. /\ DOMAIN list = 1 .. 5
      /\ list[1] = One("User", 0, u)
      /\ list[2] = One("PasswordCredential", 0, u)
      /\ list[3] = AllOf("Session", u)
      /\ list[4] = AllOf("UserToken", u)
      /\ list[5] = Update("UserEvent", {u} \X Id)
  BY DEF NewPassword
<1>2. list \in Seq(Statement)
  <2>1. /\ One("User", 0, u) \in Statement
        /\ One("PasswordCredential", 0, u) \in Statement
        /\ AllOf("Session", u) \in Statement
        /\ AllOf("UserToken", u) \in Statement
        /\ Update("UserEvent", {u} \X Id) \in Statement
    BY IdsType, Ranks, AllOfType, OneType
  <2>2. QED
    BY <2>1 DEF NewPassword
<1>3. /\ list[1].kind = "User" /\ list[1].sorted
      /\ list[1].keys = {<<0, u>>}
      /\ list[2].kind = "PasswordCredential" /\ list[2].sorted
      /\ list[3].kind = "Session" /\ list[3].sorted
      /\ list[4].kind = "UserToken" /\ list[4].sorted
      /\ list[4].keys = {u} \X Id
      /\ list[5].kind = "UserEvent" /\ ~list[5].sorted
      /\ list[5].keys = {u} \X Id
  BY <1>1, AllOfFields, OneFields, UpdateFields
<1> HIDE DEF list
<1>4. <<"User", 0, u>> \in RowsOf(list[1])
  BY <1>3 DEF RowsOf
<1>5. IsGuarded(list, 4) /\ IsGuarded(list, 5)
  BY <1>3, <1>4 DEF IsGuarded, Guard
<1>6. \A j, k \in DOMAIN list : j < k => Rank[list[j].kind] < Rank[list[k].kind]
  BY <1>1, <1>3, Ranks
<1>7. /\ \A k \in DOMAIN list : ~list[k].sorted => list[k].kind \in Guarded
      /\ \A k \in DOMAIN list : list[k].kind \in Guarded =>
           /\ \A key, other \in list[k].keys : key[1] = other[1]
           /\ IsGuarded(list, k) \/ \A key, other \in list[k].keys : key = other
  BY <1>1, <1>3, <1>5 DEF Guarded
<1>8. WellOrdered(list)
  BY <1>2, <1>6, <1>7, Ascending
<1>9. QED
  BY <1>8 DEF list

LEMMA RequestAccountTokenOrdered ==
  ASSUME NEW u \in User
  PROVE  WellOrdered(RequestAccountToken(u))
<1> DEFINE list == RequestAccountToken(u)
<1>1. /\ DOMAIN list = 1 .. 4
      /\ list[1] = One("User", 0, u)
      /\ list[2] = One("PasswordCredential", 0, u)
      /\ list[3] = AllOf("UserToken", u)
      /\ list[4] = Update("UserEvent", {u} \X Id)
  BY DEF RequestAccountToken
<1>2. list \in Seq(Statement)
  <2>1. /\ One("User", 0, u) \in Statement
        /\ One("PasswordCredential", 0, u) \in Statement
        /\ AllOf("UserToken", u) \in Statement
        /\ Update("UserEvent", {u} \X Id) \in Statement
    BY IdsType, Ranks, AllOfType, OneType
  <2>2. QED
    BY <2>1 DEF RequestAccountToken
<1>3. /\ list[1].kind = "User" /\ list[1].sorted
      /\ list[1].keys = {<<0, u>>}
      /\ list[2].kind = "PasswordCredential" /\ list[2].sorted
      /\ list[3].kind = "UserToken" /\ list[3].sorted
      /\ list[3].keys = {u} \X Id
      /\ list[4].kind = "UserEvent" /\ ~list[4].sorted
      /\ list[4].keys = {u} \X Id
  BY <1>1, AllOfFields, OneFields, UpdateFields
<1> HIDE DEF list
<1>4. <<"User", 0, u>> \in RowsOf(list[1])
  BY <1>3 DEF RowsOf
<1>5. IsGuarded(list, 3) /\ IsGuarded(list, 4)
  BY <1>3, <1>4 DEF IsGuarded, Guard
<1>6. \A j, k \in DOMAIN list : j < k => Rank[list[j].kind] < Rank[list[k].kind]
  BY <1>1, <1>3, Ranks
<1>7. /\ \A k \in DOMAIN list : ~list[k].sorted => list[k].kind \in Guarded
      /\ \A k \in DOMAIN list : list[k].kind \in Guarded =>
           /\ \A key, other \in list[k].keys : key[1] = other[1]
           /\ IsGuarded(list, k) \/ \A key, other \in list[k].keys : key = other
  BY <1>1, <1>3, <1>5 DEF Guarded
<1>8. WellOrdered(list)
  BY <1>2, <1>6, <1>7, Ascending
<1>9. QED
  BY <1>8 DEF list

LEMMA InviteOrdered ==
  ASSUME NEW u \in User, NEW s \in Id, NEW g \in Organization,
         NEW pending \in SUBSET Invitation
  PROVE  WellOrdered(Invite(u, s, g, pending))
<1> DEFINE list == Invite(u, s, g, pending)
<1>1. /\ DOMAIN list = 1 .. 5
      /\ list[1] = One("User", 0, u)
      /\ list[2] = One("Session", u, s)
      /\ list[3] = One("Organization", 0, g)
      /\ list[4] = AllOf("OrganizationMember", g)
      /\ list[5] = SetOf("OrganizationInvitation", pending)
  BY DEF Invite
<1>2. list \in Seq(Statement)
  <2>1. /\ One("User", 0, u) \in Statement
        /\ One("Session", u, s) \in Statement
        /\ One("Organization", 0, g) \in Statement
        /\ AllOf("OrganizationMember", g) \in Statement
        /\ SetOf("OrganizationInvitation", pending) \in Statement
    BY IdsType, Ranks, AllOfType, OneType, SetOfType
  <2>2. QED
    BY <2>1 DEF Invite
<1>3. /\ list[1].kind = "User" /\ list[1].sorted
      /\ list[2].kind = "Session" /\ list[2].sorted
      /\ list[3].kind = "Organization" /\ list[3].sorted
      /\ list[4].kind = "OrganizationMember" /\ list[4].sorted
      /\ list[5].kind = "OrganizationInvitation" /\ list[5].sorted
  BY <1>1, AllOfFields, OneFields, SetOfFields
<1> HIDE DEF list
<1>6. \A j, k \in DOMAIN list : j < k => Rank[list[j].kind] < Rank[list[k].kind]
  BY <1>1, <1>3, Ranks
<1>7. /\ \A k \in DOMAIN list : ~list[k].sorted => list[k].kind \in Guarded
      /\ \A k \in DOMAIN list : list[k].kind \in Guarded =>
           /\ \A key, other \in list[k].keys : key[1] = other[1]
           /\ IsGuarded(list, k) \/ \A key, other \in list[k].keys : key = other
  BY <1>1, <1>3 DEF Guarded
<1>8. WellOrdered(list)
  BY <1>2, <1>6, <1>7, Ascending
<1>9. QED
  BY <1>8 DEF list

LEMMA OfInvitationOrdered ==
  ASSUME NEW u \in User, NEW s \in Id, NEW g \in Organization, NEW i \in Invitation
  PROVE  WellOrdered(OfInvitation(u, s, g, i))
<1> DEFINE list == OfInvitation(u, s, g, i)
<1>1. /\ DOMAIN list = 1 .. 7
      /\ list[1] = One("User", 0, u)
      /\ list[2] = One("Session", u, s)
      /\ list[3] = AllOf("InvitationToken", i)
      /\ list[4] = One("Organization", 0, g)
      /\ list[5] = AllOf("OrganizationMember", g)
      /\ list[6] = One("OrganizationInvitation", 0, i)
      /\ list[7] = Update("InvitationEvent", {i} \X Id)
  BY DEF OfInvitation
<1>2. list \in Seq(Statement)
  <2>1. /\ One("User", 0, u) \in Statement
        /\ One("Session", u, s) \in Statement
        /\ AllOf("InvitationToken", i) \in Statement
        /\ One("Organization", 0, g) \in Statement
        /\ AllOf("OrganizationMember", g) \in Statement
        /\ One("OrganizationInvitation", 0, i) \in Statement
        /\ Update("InvitationEvent", {i} \X Id) \in Statement
    BY IdsType, Ranks, AllOfType, OneType
  <2>2. QED
    BY <2>1 DEF OfInvitation
<1>3. /\ list[1].kind = "User" /\ list[1].sorted
      /\ list[2].kind = "Session" /\ list[2].sorted
      /\ list[3].kind = "InvitationToken" /\ list[3].sorted
      /\ list[4].kind = "Organization" /\ list[4].sorted
      /\ list[5].kind = "OrganizationMember" /\ list[5].sorted
      /\ list[6].kind = "OrganizationInvitation" /\ list[6].sorted
      /\ list[6].keys = {<<0, i>>}
      /\ list[7].kind = "InvitationEvent" /\ ~list[7].sorted
      /\ list[7].keys = {i} \X Id
  BY <1>1, AllOfFields, OneFields, UpdateFields
<1> HIDE DEF list
<1>4. <<"OrganizationInvitation", 0, i>> \in RowsOf(list[6])
  BY <1>3 DEF RowsOf
<1>5. IsGuarded(list, 7)
  BY <1>3, <1>4 DEF IsGuarded, Guard
<1>6. \A j, k \in DOMAIN list : j < k => Rank[list[j].kind] < Rank[list[k].kind]
  BY <1>1, <1>3, Ranks
<1>7. \A k \in DOMAIN list \ {7} : list[k].sorted /\ list[k].kind \notin Guarded
  BY <1>1, <1>3 DEF Guarded
<1>8. \A key, other \in list[7].keys : key[1] = other[1]
  BY <1>3
<1>9. /\ \A k \in DOMAIN list : ~list[k].sorted => list[k].kind \in Guarded
      /\ \A k \in DOMAIN list : list[k].kind \in Guarded =>
           /\ \A key, other \in list[k].keys : key[1] = other[1]
           /\ IsGuarded(list, k) \/ \A key, other \in list[k].keys : key = other
  BY <1>1, <1>3, <1>5, <1>7, <1>8 DEF Guarded
<1>10. WellOrdered(list)
  BY <1>2, <1>6, <1>9, Ascending
<1>11. QED
  BY <1>10 DEF list

LEMMA AnswerOrdered ==
  ASSUME NEW users \in SUBSET User, NEW token \in AnyToken, NEW g \in Organization,
         NEW i \in Invitation
  PROVE  WellOrdered(Answer(users, token, g, i))
<1> DEFINE list == Answer(users, token, g, i)
<1>1. /\ DOMAIN list = 1 .. 6
      /\ list[1] = SetOf("User", users)
      /\ list[2] = token
      /\ list[3] = One("Organization", 0, g)
      /\ list[4] = AllOf("OrganizationMember", g)
      /\ list[5] = One("OrganizationInvitation", 0, i)
      /\ list[6] = Update("InvitationEvent", {i} \X Id)
  BY DEF Answer
<1>2. /\ token \in Statement /\ token.sorted
      /\ token.kind \in {"UserToken", "InvitationToken"}
      /\ \A key, other \in token.keys : key = other
  <2>1. \/ \E u \in User, t \in Id : token = One("UserToken", u, t)
        \/ \E j \in Invitation, t \in Id : token = One("InvitationToken", j, t)
    BY DEF AnyToken
  <2>2. CASE \E u \in User, t \in Id : token = One("UserToken", u, t)
    <3>1. PICK u \in User, t \in Id : token = One("UserToken", u, t)
      BY <2>2
    <3>2. One("UserToken", u, t) \in Statement
      BY IdsType, Ranks, OneType
    <3>3. QED
      BY <3>1, <3>2, OneFields
  <2>3. CASE \E j \in Invitation, t \in Id : token = One("InvitationToken", j, t)
    <3>1. PICK j \in Invitation, t \in Id : token = One("InvitationToken", j, t)
      BY <2>3
    <3>2. One("InvitationToken", j, t) \in Statement
      BY IdsType, Ranks, OneType
    <3>3. QED
      BY <3>1, <3>2, OneFields
  <2>4. QED
    BY <2>1, <2>2, <2>3
<1>3. list \in Seq(Statement)
  <2>1. /\ SetOf("User", users) \in Statement
        /\ One("Organization", 0, g) \in Statement
        /\ AllOf("OrganizationMember", g) \in Statement
        /\ One("OrganizationInvitation", 0, i) \in Statement
        /\ Update("InvitationEvent", {i} \X Id) \in Statement
    BY IdsType, Ranks, AllOfType, OneType, SetOfType
  <2>2. QED
    BY <1>2, <2>1 DEF Answer
<1>4. /\ list[1].kind = "User" /\ list[1].sorted
      /\ list[2] = token
      /\ list[3].kind = "Organization" /\ list[3].sorted
      /\ list[4].kind = "OrganizationMember" /\ list[4].sorted
      /\ list[5].kind = "OrganizationInvitation" /\ list[5].sorted
      /\ list[5].keys = {<<0, i>>}
      /\ list[6].kind = "InvitationEvent" /\ ~list[6].sorted
      /\ list[6].keys = {i} \X Id
  BY <1>1, AllOfFields, OneFields, SetOfFields, UpdateFields
<1> HIDE DEF list
<1>5. <<"OrganizationInvitation", 0, i>> \in RowsOf(list[5])
  BY <1>4 DEF RowsOf
<1>6. IsGuarded(list, 6)
  BY <1>4, <1>5 DEF IsGuarded, Guard
<1>7. \A j, k \in DOMAIN list : j < k => Rank[list[j].kind] < Rank[list[k].kind]
  BY <1>1, <1>2, <1>4, Ranks
<1>8. \A k \in DOMAIN list \ {2, 6} : list[k].sorted /\ list[k].kind \notin Guarded
  BY <1>1, <1>4 DEF Guarded
<1>9. \A key, other \in list[6].keys : key[1] = other[1]
  BY <1>4
<1>10. list[2].sorted /\ \A key, other \in list[2].keys : key = other
  BY <1>2, <1>4
<1>11. /\ \A k \in DOMAIN list : ~list[k].sorted => list[k].kind \in Guarded
      /\ \A k \in DOMAIN list : list[k].kind \in Guarded =>
           /\ \A key, other \in list[k].keys : key[1] = other[1]
           /\ IsGuarded(list, k) \/ \A key, other \in list[k].keys : key = other
  <2>1. \A k \in DOMAIN list : k = 2 \/ k = 6 \/ k \in DOMAIN list \ {2, 6}
    OBVIOUS
  <2>2. list[6].kind \in Guarded
    BY <1>4 DEF Guarded
  <2>3. QED
    BY <1>10, <1>6, <1>8, <1>9, <2>1, <2>2
<1>12. WellOrdered(list)
  BY <1>3, <1>7, <1>11, Ascending
<1>13. QED
  BY <1>12 DEF list

LEMMA OfMembersOrdered ==
  ASSUME NEW u \in User, NEW v \in User, NEW s \in Id,
         NEW g \in Organization
  PROVE  WellOrdered(OfMembers(u, v, s, g))
<1> DEFINE list == OfMembers(u, v, s, g)
<1>1. /\ DOMAIN list = 1 .. 4
      /\ list[1] = SetOf("User", {u, v})
      /\ list[2] = One("Session", u, s)
      /\ list[3] = One("Organization", 0, g)
      /\ list[4] = AllOf("OrganizationMember", g)
  BY DEF OfMembers
<1>2. list \in Seq(Statement)
  <2>1. /\ SetOf("User", {u, v}) \in Statement
        /\ One("Session", u, s) \in Statement
        /\ One("Organization", 0, g) \in Statement
        /\ AllOf("OrganizationMember", g) \in Statement
    BY IdsType, Ranks, AllOfType, OneType, SetOfType
  <2>2. QED
    BY <2>1 DEF OfMembers
<1>3. /\ list[1].kind = "User" /\ list[1].sorted
      /\ list[2].kind = "Session" /\ list[2].sorted
      /\ list[3].kind = "Organization" /\ list[3].sorted
      /\ list[4].kind = "OrganizationMember" /\ list[4].sorted
  BY <1>1, AllOfFields, OneFields, SetOfFields
<1> HIDE DEF list
<1>6. \A j, k \in DOMAIN list : j < k => Rank[list[j].kind] < Rank[list[k].kind]
  BY <1>1, <1>3, Ranks
<1>7. /\ \A k \in DOMAIN list : ~list[k].sorted => list[k].kind \in Guarded
      /\ \A k \in DOMAIN list : list[k].kind \in Guarded =>
           /\ \A key, other \in list[k].keys : key[1] = other[1]
           /\ IsGuarded(list, k) \/ \A key, other \in list[k].keys : key = other
  BY <1>1, <1>3 DEF Guarded
<1>8. WellOrdered(list)
  BY <1>2, <1>6, <1>7, Ascending
<1>9. QED
  BY <1>8 DEF list

LEMMA UpdateOrganizationOrdered ==
  ASSUME NEW u \in User, NEW s \in Id, NEW g \in Organization, NEW own \in SUBSET Id
  PROVE  WellOrdered(UpdateOrganization(u, s, g, own))
<1> DEFINE list == UpdateOrganization(u, s, g, own)
<1>1. /\ DOMAIN list = 1 .. 4
      /\ list[1] = One("User", 0, u)
      /\ list[2] = One("Session", u, s)
      /\ list[3] = One("Organization", 0, g)
      /\ list[4] = Select("OrganizationMember", {g} \X own)
  BY DEF UpdateOrganization
<1>2. list \in Seq(Statement)
  <2>1. /\ One("User", 0, u) \in Statement
        /\ One("Session", u, s) \in Statement
        /\ One("Organization", 0, g) \in Statement
        /\ Select("OrganizationMember", {g} \X own) \in Statement
    BY IdsType, Ranks, OneType, SelectType
  <2>2. QED
    BY <2>1 DEF UpdateOrganization
<1>3. /\ list[1].kind = "User" /\ list[1].sorted
      /\ list[2].kind = "Session" /\ list[2].sorted
      /\ list[3].kind = "Organization" /\ list[3].sorted
      /\ list[4].kind = "OrganizationMember" /\ list[4].sorted
  BY <1>1, OneFields, SelectFields
<1> HIDE DEF list
<1>6. \A j, k \in DOMAIN list : j < k => Rank[list[j].kind] < Rank[list[k].kind]
  BY <1>1, <1>3, Ranks
<1>7. /\ \A k \in DOMAIN list : ~list[k].sorted => list[k].kind \in Guarded
      /\ \A k \in DOMAIN list : list[k].kind \in Guarded =>
           /\ \A key, other \in list[k].keys : key[1] = other[1]
           /\ IsGuarded(list, k) \/ \A key, other \in list[k].keys : key = other
  BY <1>1, <1>3 DEF Guarded
<1>8. WellOrdered(list)
  BY <1>2, <1>6, <1>7, Ascending
<1>9. QED
  BY <1>8 DEF list

LEMMA OfPropertyOrdered ==
  ASSUME NEW u \in User, NEW v \in User, NEW s \in Id,
         NEW organizations \in SUBSET Organization, NEW p \in Property
  PROVE  WellOrdered(OfProperty(u, v, s, organizations, p))
<1> DEFINE list == OfProperty(u, v, s, organizations, p)
<1>1. /\ DOMAIN list = 1 .. 6
      /\ list[1] = SetOf("User", {u, v})
      /\ list[2] = One("Session", u, s)
      /\ list[3] = SetOf("Organization", organizations)
      /\ list[4] = Select("OrganizationMember", organizations \X Id)
      /\ list[5] = One("Property", 0, p)
      /\ list[6] = AllOf("PropertyAuthorization", p)
  BY DEF OfProperty
<1>2. list \in Seq(Statement)
  <2>1. /\ SetOf("User", {u, v}) \in Statement
        /\ One("Session", u, s) \in Statement
        /\ SetOf("Organization", organizations) \in Statement
        /\ Select("OrganizationMember", organizations \X Id) \in Statement
        /\ One("Property", 0, p) \in Statement
        /\ AllOf("PropertyAuthorization", p) \in Statement
    BY IdsType, Ranks, AllOfType, OneType, SelectType, SetOfType
  <2>2. QED
    BY <2>1 DEF OfProperty
<1>3. /\ list[1].kind = "User" /\ list[1].sorted
      /\ list[2].kind = "Session" /\ list[2].sorted
      /\ list[3].kind = "Organization" /\ list[3].sorted
      /\ list[4].kind = "OrganizationMember" /\ list[4].sorted
      /\ list[5].kind = "Property" /\ list[5].sorted
      /\ list[6].kind = "PropertyAuthorization" /\ list[6].sorted
  BY <1>1, AllOfFields, OneFields, SelectFields, SetOfFields
<1> HIDE DEF list
<1>6. \A j, k \in DOMAIN list : j < k => Rank[list[j].kind] < Rank[list[k].kind]
  BY <1>1, <1>3, Ranks
<1>7. /\ \A k \in DOMAIN list : ~list[k].sorted => list[k].kind \in Guarded
      /\ \A k \in DOMAIN list : list[k].kind \in Guarded =>
           /\ \A key, other \in list[k].keys : key[1] = other[1]
           /\ IsGuarded(list, k) \/ \A key, other \in list[k].keys : key = other
  BY <1>1, <1>3 DEF Guarded
<1>8. WellOrdered(list)
  BY <1>2, <1>6, <1>7, Ascending
<1>9. QED
  BY <1>8 DEF list

LEMMA UpdateListingOrdered ==
  ASSUME NEW u \in User, NEW s \in Id, NEW organizations \in SUBSET Organization,
         NEW p \in Property, NEW l \in Id
  PROVE  WellOrdered(UpdateListing(u, s, organizations, p, l))
<1> DEFINE list == UpdateListing(u, s, organizations, p, l)
<1>1. /\ DOMAIN list = 1 .. 7
      /\ list[1] = One("User", 0, u)
      /\ list[2] = One("Session", u, s)
      /\ list[3] = SetOf("Organization", organizations)
      /\ list[4] = Select("OrganizationMember", organizations \X Id)
      /\ list[5] = One("Property", 0, p)
      /\ list[6] = AllOf("PropertyAuthorization", p)
      /\ list[7] = One("Listing", p, l)
  BY DEF UpdateListing
<1>2. list \in Seq(Statement)
  <2>1. /\ One("User", 0, u) \in Statement
        /\ One("Session", u, s) \in Statement
        /\ SetOf("Organization", organizations) \in Statement
        /\ Select("OrganizationMember", organizations \X Id) \in Statement
        /\ One("Property", 0, p) \in Statement
        /\ AllOf("PropertyAuthorization", p) \in Statement
        /\ One("Listing", p, l) \in Statement
    BY IdsType, Ranks, AllOfType, OneType, SelectType, SetOfType
  <2>2. QED
    BY <2>1 DEF UpdateListing
<1>3. /\ list[1].kind = "User" /\ list[1].sorted
      /\ list[2].kind = "Session" /\ list[2].sorted
      /\ list[3].kind = "Organization" /\ list[3].sorted
      /\ list[4].kind = "OrganizationMember" /\ list[4].sorted
      /\ list[5].kind = "Property" /\ list[5].sorted
      /\ list[6].kind = "PropertyAuthorization" /\ list[6].sorted
      /\ list[7].kind = "Listing" /\ list[7].sorted
  BY <1>1, AllOfFields, OneFields, SelectFields, SetOfFields
<1> HIDE DEF list
<1>6. \A j, k \in DOMAIN list : j < k => Rank[list[j].kind] < Rank[list[k].kind]
  BY <1>1, <1>3, Ranks
<1>7. /\ \A k \in DOMAIN list : ~list[k].sorted => list[k].kind \in Guarded
      /\ \A k \in DOMAIN list : list[k].kind \in Guarded =>
           /\ \A key, other \in list[k].keys : key[1] = other[1]
           /\ IsGuarded(list, k) \/ \A key, other \in list[k].keys : key = other
  BY <1>1, <1>3 DEF Guarded
<1>8. WellOrdered(list)
  BY <1>2, <1>6, <1>7, Ascending
<1>9. QED
  BY <1>8 DEF list

LEMMA CleanMediaOrdered ==
  ASSUME NEW p \in Property, NEW e \in Id
  PROVE  WellOrdered(CleanMedia(p, e))
<1> DEFINE list == CleanMedia(p, e)
<1>1. /\ DOMAIN list = 1 .. 2
      /\ list[1] = One("Property", 0, p)
      /\ list[2] = One("MediaEvent", p, e)
  BY DEF CleanMedia
<1>2. list \in Seq(Statement)
  <2>1. /\ One("Property", 0, p) \in Statement
        /\ One("MediaEvent", p, e) \in Statement
    BY IdsType, Ranks, OneType
  <2>2. QED
    BY <2>1 DEF CleanMedia
<1>3. /\ list[1].kind = "Property" /\ list[1].sorted
      /\ list[2].kind = "MediaEvent" /\ list[2].sorted
  BY <1>1, OneFields
<1> HIDE DEF list
<1>6. \A j, k \in DOMAIN list : j < k => Rank[list[j].kind] < Rank[list[k].kind]
  BY <1>1, <1>3, Ranks
<1>7. /\ \A k \in DOMAIN list : ~list[k].sorted => list[k].kind \in Guarded
      /\ \A k \in DOMAIN list : list[k].kind \in Guarded =>
           /\ \A key, other \in list[k].keys : key[1] = other[1]
           /\ IsGuarded(list, k) \/ \A key, other \in list[k].keys : key = other
  BY <1>1, <1>3 DEF Guarded
<1>8. WellOrdered(list)
  BY <1>2, <1>6, <1>7, Ascending
<1>9. QED
  BY <1>8 DEF list

LEMMA FinishEventOrdered ==
  ASSUME NEW i \in Invitation, NEW e \in Id
  PROVE  WellOrdered(FinishEvent(i, e))
<1> DEFINE list == FinishEvent(i, e)
<1>1. /\ DOMAIN list = 1 .. 1
      /\ list[1] = One("InvitationEvent", i, e)
  BY DEF FinishEvent
<1>2. list \in Seq(Statement)
  BY IdsType, Ranks, OneType DEF FinishEvent
<1>3. /\ list[1].kind = "InvitationEvent" /\ list[1].sorted
      /\ list[1].keys = {<<i, e>>}
  BY <1>1, OneFields
<1> HIDE DEF list
<1>6. \A j, k \in DOMAIN list : j < k => Rank[list[j].kind] < Rank[list[k].kind]
  BY <1>1, <1>3, Ranks
<1>7. /\ \A k \in DOMAIN list : ~list[k].sorted => list[k].kind \in Guarded
      /\ \A k \in DOMAIN list : list[k].kind \in Guarded =>
           /\ \A key, other \in list[k].keys : key[1] = other[1]
           /\ IsGuarded(list, k) \/ \A key, other \in list[k].keys : key = other
  BY <1>1, <1>3 DEF Guarded
<1>8. WellOrdered(list)
  BY <1>2, <1>6, <1>7, Ascending
<1>9. QED
  BY <1>8 DEF list

LEMMA ConsumeOrdered ==
  ASSUME NEW e \in Id, NEW a \in Id
  PROVE  WellOrdered(Consume(e, a))
<1> DEFINE list == Consume(e, a)
<1>1. /\ DOMAIN list = 1 .. 2
      /\ list[1] = One("EmailBucket", 0, e)
      /\ list[2] = One("AddressBucket", 0, a)
  BY DEF Consume
<1>2. list \in Seq(Statement)
  <2>1. /\ One("EmailBucket", 0, e) \in Statement
        /\ One("AddressBucket", 0, a) \in Statement
    BY IdsType, Ranks, OneType
  <2>2. QED
    BY <2>1 DEF Consume
<1>3. /\ list[1].kind = "EmailBucket" /\ list[1].sorted
      /\ list[2].kind = "AddressBucket" /\ list[2].sorted
  BY <1>1, OneFields
<1> HIDE DEF list
<1>6. \A j, k \in DOMAIN list : j < k => Rank[list[j].kind] < Rank[list[k].kind]
  BY <1>1, <1>3, Ranks
<1>7. /\ \A k \in DOMAIN list : ~list[k].sorted => list[k].kind \in Guarded
      /\ \A k \in DOMAIN list : list[k].kind \in Guarded =>
           /\ \A key, other \in list[k].keys : key[1] = other[1]
           /\ IsGuarded(list, k) \/ \A key, other \in list[k].keys : key = other
  BY <1>1, <1>3 DEF Guarded
<1>8. WellOrdered(list)
  BY <1>2, <1>6, <1>7, Ascending
<1>9. QED
  BY <1>8 DEF list

LEMMA OfAccountsOrdered ==
  ASSUME NEW list \in OfAccounts
  PROVE  WellOrdered(list)
BY VerifyEmailOrdered, ActorOrdered, LogoutAllOrdered, NewPasswordOrdered,
   RequestAccountTokenOrdered DEF OfAccounts

LEMMA OfOrganizationsOrdered ==
  ASSUME NEW list \in OfOrganizations
  PROVE  WellOrdered(list)
<1>1. \A users \in {{}} \cup {{u} : u \in User}, token \in AnyToken, g \in Organization,
         i \in Invitation : WellOrdered(Answer(users, token, g, i))
  BY AnswerOrdered
<1>2. QED
  BY <1>1, InviteOrdered, OfInvitationOrdered, OfMembersOrdered, UpdateOrganizationOrdered
     DEF OfOrganizations

LEMMA OfPropertiesOrdered ==
  ASSUME NEW list \in OfProperties
  PROVE  WellOrdered(list)
BY OfPropertyOrdered, UpdateListingOrdered DEF OfProperties

LEMMA RetriedOrdered ==
  ASSUME NEW list \in Retried
  PROVE  WellOrdered(list)
BY OfAccountsOrdered, OfOrganizationsOrdered, OfPropertiesOrdered DEF Retried

LEMMA RunOnceOrdered ==
  ASSUME NEW list \in RunOnce
  PROVE  WellOrdered(list)
BY LoginOrdered, ActorOrdered, CleanMediaOrdered, FinishEventOrdered, ConsumeOrdered DEF RunOnce

-----------------------------------------------------------------------------
(* The invariant *)

Plan == {list \in Seq(Statement) : WellOrdered(list)}

LocksTypeOK ==
  /\ plan \in [Request -> Plan \cup {<<>>}]
  /\ once \in [Request -> BOOLEAN]
  /\ attempt \in [Request -> 0 .. MaxAttempts]
  /\ at \in [Request -> Nat \ {0}]
  /\ held \in [Request -> SUBSET Row]

\* Of a transaction with statements p that has come to statement a and holds h:
\* what it holds it has from the statements up to a, of those before it has every
\* row, and within a statement that sorts it has the smaller rows.
Reached(p, a, h) ==
  /\ p = <<>> => a = 1
  /\ \A row \in h : \E j \in DOMAIN p : j <= a /\ row \in RowsOf(p[j])
  /\ \A j \in DOMAIN p : j < a => RowsOf(p[j]) \subseteq h
  /\ a \in DOMAIN p /\ p[a].kind \notin Guarded =>
       \A row \in RowsOf(p[a]) \cap h, other \in RowsOf(p[a]) \ h : Before(row, other)

HeldByOne == \A r, q \in Request : r # q => held[r] \cap held[q] = {}

IInv ==
  /\ LocksTypeOK
  /\ \A r \in Request : Reached(plan[r], at[r], held[r])
  /\ HeldByOne

LEMMA RowType ==
  ASSUME NEW p \in Plan, NEW j \in DOMAIN p, NEW row \in RowsOf(p[j])
  PROVE  /\ p[j] \in Statement
         /\ row \in Row
         /\ row[1] = p[j].kind
         /\ <<row[2], row[3]>> \in p[j].keys
<1>1. p \in Seq(Statement) /\ j \in 1 .. Len(p)
  BY LenProperties DEF Plan
<1>2. p[j] \in Statement
  BY <1>1, ElementOfSeq
<1>3. PICK key \in p[j].keys : row = <<p[j].kind, key[1], key[2]>>
  BY DEF RowsOf
<1>4. key \in Ids \X Ids /\ p[j].kind \in Kind
  BY <1>2 DEF Statement
<1>5. key = <<key[1], key[2]>>
  BY <1>4
<1>6. QED
  BY <1>2, <1>3, <1>4, <1>5 DEF Row

\* Two rows of a kind are ordered by their group and id.
RowsDiffer(row, other) ==
  /\ row[2] \in Nat /\ row[3] \in Nat /\ other[2] \in Nat /\ other[3] \in Nat
  /\ row[2] # other[2] \/ row[3] # other[3]

LEMMA RowsOfAKind ==
  ASSUME NEW row \in Row, NEW other \in Row, row[1] = other[1], row # other
  PROVE  RowsDiffer(row, other)
<1>1. row = <<row[1], row[2], row[3]>> /\ other = <<other[1], other[2], other[3]>>
  BY DEF Row
<1>2. /\ row[2] \in Ids /\ row[3] \in Ids
      /\ other[2] \in Ids /\ other[3] \in Ids
  BY DEF Row
<1>3. row[2] # other[2] \/ row[3] # other[3]
  BY <1>1
<1>4. QED
  BY <1>2, <1>3, IdsType DEF RowsDiffer

LEMMA PlanDomain ==
  ASSUME NEW p \in Plan \cup {<<>>}
  PROVE  DOMAIN p = 1 .. Len(p) /\ Len(p) \in Nat
BY LenProperties DEF Plan

\* The last row of a statement was locked, or none was missing.
LEMMA NextStatement ==
  ASSUME NEW p \in Plan, NEW a \in DOMAIN p, NEW h, NEW H,
         Reached(p, a, h), h \subseteq H, H \subseteq h \cup RowsOf(p[a]),
         RowsOf(p[a]) \subseteq H
  PROVE  Reached(p, a + 1, H)
<1>1. DOMAIN p = 1 .. Len(p) /\ Len(p) \in Nat
  BY PlanDomain
<1>2. p # <<>>
  BY <1>1
<1>3. \A row \in H : \E j \in DOMAIN p : j <= a /\ row \in RowsOf(p[j])
  BY <1>1 DEF Reached
<1>4. \A row \in H : \E j \in DOMAIN p : j <= a + 1 /\ row \in RowsOf(p[j])
  BY <1>1, <1>3
<1>5. \A j \in DOMAIN p : j < a + 1 => RowsOf(p[j]) \subseteq H
  <2>1. \A j \in DOMAIN p : j < a + 1 => j < a \/ j = a
    BY <1>1
  <2>2. QED
    BY <2>1 DEF Reached
<1>6. ASSUME a + 1 \in DOMAIN p, p[a + 1].kind \notin Guarded,
             NEW row \in RowsOf(p[a + 1]), row \in H
      PROVE  FALSE
  <2>1. PICK j \in DOMAIN p : j <= a /\ row \in RowsOf(p[j])
    BY <1>3, <1>6
  <2>2. row[1] = p[j].kind /\ row[1] = p[a + 1].kind /\ row[1] \in Kind
    BY <1>6, <2>1, RowType DEF Row
  <2>3. j < a + 1
    BY <1>1, <2>1
  <2>4. Rank[p[j].kind] < Rank[p[a + 1].kind]
    BY <1>6, <2>3 DEF Plan, WellOrdered
  <2>5. Rank[row[1]] \in Nat
    BY <2>2, RankType
  <2>6. QED
    BY <2>2, <2>4, <2>5
<1>7. QED
  BY <1>2, <1>4, <1>5, <1>6 DEF Reached

\* One row of a statement was locked and others are missing.
LEMMA SameStatement ==
  ASSUME NEW p \in Plan, NEW a \in DOMAIN p, NEW h, NEW row \in RowsOf(p[a]) \ h,
         Reached(p, a, h),
         p[a].sorted => \A other \in RowsOf(p[a]) \ h : ~Before(other, row)
  PROVE  Reached(p, a, h \cup {row})
<1>1. DOMAIN p = 1 .. Len(p) /\ Len(p) \in Nat
  BY PlanDomain
<1>2. \A other \in h \cup {row} : \E j \in DOMAIN p : j <= a /\ other \in RowsOf(p[j])
  BY <1>1 DEF Reached
<1>3. ASSUME p[a].kind \notin Guarded, NEW one \in RowsOf(p[a]) \cap (h \cup {row}),
             NEW other \in RowsOf(p[a]) \ (h \cup {row})
      PROVE  Before(one, other)
  <2>1. CASE one # row
    BY <1>3, <2>1 DEF Reached
  <2>2. CASE one = row
    <3>1. p[a].sorted
      BY <1>3 DEF Plan, WellOrdered
    <3>2. ~Before(other, row)
      BY <3>1
    <3>3. row \in Row /\ row[1] = p[a].kind
      BY RowType
    <3>4. other \in RowsOf(p[a])
      BY <1>3
    <3>5. other \in Row /\ other[1] = p[a].kind
      BY <3>4, RowType
    <3>6. row # other
      BY <1>3
    <3>7. RowsDiffer(row, other)
      BY <3>3, <3>5, <3>6, RowsOfAKind
    <3>8. QED
      BY <2>2, <3>2, <3>7 DEF Before, RowsDiffer
  <2>3. QED
    BY <2>1, <2>2
<1>4. QED
  BY <1>2, <1>3 DEF Reached

LEMMA FirstStatement ==
  ASSUME NEW p \in Plan \cup {<<>>}
  PROVE  Reached(p, 1, {})
<1>1. \A j \in DOMAIN p : ~(j < 1)
  BY PlanDomain
<1>2. QED
  BY <1>1 DEF Reached

LEMMA InitIInv == Init => IInv
<1> SUFFICES ASSUME Init
             PROVE  IInv
  OBVIOUS
<1>1. LocksTypeOK
  BY AttemptsAssumption DEF Init, LocksTypeOK
<1>2. \A r \in Request : Reached(plan[r], at[r], held[r])
  BY FirstStatement DEF Init
<1>3. HeldByOne
  BY DEF Init, HeldByOne
<1>4. QED
  BY <1>1, <1>2, <1>3 DEF IInv

LEMMA BeginIInv ==
  ASSUME IInv, NEW r \in Request, Begin(r)
  PROVE  IInv'
<1>1. LocksTypeOK
  BY DEF IInv
<1>2. PICK list \in Plan : plan' = [plan EXCEPT ![r] = list]
  BY RetriedOrdered, RunOnceOrdered DEF Begin, Plan, WellOrdered
<1>3. plan[r] = <<>> /\ Reached(plan[r], at[r], held[r])
  BY DEF Begin, IsRunning, IInv
<1>4. at[r] = 1 /\ held[r] = {}
  <2>1. DOMAIN <<>> = {}
    OBVIOUS
  <2>2. QED
    BY <1>3, <2>1 DEF Reached
<1>5. LocksTypeOK'
  <2>1. plan' \in [Request -> Plan \cup {<<>>}]
    BY <1>1, <1>2 DEF LocksTypeOK
  <2>2. once' \in [Request -> BOOLEAN]
    BY <1>1 DEF LocksTypeOK, Begin
  <2>3. attempt' \in [Request -> 0 .. MaxAttempts]
    BY <1>1, AttemptsAssumption DEF LocksTypeOK, Begin
  <2>4. QED
    BY <1>1, <2>1, <2>2, <2>3 DEF LocksTypeOK, Begin
<1>6. \A q \in Request : Reached(plan[q], at[q], held[q])'
  <2>1. Reached(plan'[r], 1, {})
    BY <1>1, <1>2, FirstStatement DEF LocksTypeOK
  <2>2. QED
    BY <1>1, <1>2, <1>4, <2>1 DEF Begin, IInv, LocksTypeOK
<1>7. HeldByOne'
  BY DEF Begin, IInv, HeldByOne
<1>8. QED
  BY <1>5, <1>6, <1>7 DEF IInv

LEMMA LockIInv ==
  ASSUME IInv, NEW r \in Request, NEW row, Lock(r, row)
  PROVE  IInv'
<1>1. LocksTypeOK /\ Reached(plan[r], at[r], held[r])
  BY DEF IInv
<1>2. ~IsComplete(r) /\ row \in RowsOf(plan[r][at[r]]) \ held[r]
  BY DEF Lock, NextRows, Missing
<1>3. plan[r] \in Plan /\ at[r] \in DOMAIN plan[r]
  <2>1. plan[r] \in Plan \cup {<<>>} /\ at[r] \in Nat \ {0}
    BY <1>1 DEF LocksTypeOK
  <2>2. DOMAIN plan[r] = 1 .. Len(plan[r]) /\ Len(plan[r]) \in Nat
    BY <2>1, PlanDomain
  <2>3. at[r] \in DOMAIN plan[r]
    BY <1>2, <2>1, <2>2 DEF IsComplete
  <2>4. plan[r] # <<>>
    BY <2>3
  <2>5. QED
    BY <2>1, <2>3, <2>4
<1>4. Missing(r) = RowsOf(plan[r][at[r]]) \ held[r]
  BY <1>2 DEF Missing
<1>5. plan[r][at[r]].sorted =>
        \A other \in RowsOf(plan[r][at[r]]) \ held[r] : ~Before(other, row)
  BY <1>4 DEF Lock, NextRows
<1>6. row \in Row
  BY <1>2, <1>3, RowType
<1>7. held'[r] = held[r] \cup {row} /\ plan'[r] = plan[r]
  BY <1>1 DEF Lock, LocksTypeOK
<1>8. Reached(plan'[r], at'[r], held'[r])
  <2>1. CASE Missing(r) = {row}
    <3>1. at'[r] = at[r] + 1
      BY <1>1, <2>1 DEF Lock, LocksTypeOK
    <3>2. Reached(plan[r], at[r] + 1, held[r] \cup {row})
      BY <1>1, <1>2, <1>3, <1>4, <2>1, NextStatement
    <3>3. QED
      BY <1>7, <3>1, <3>2
  <2>2. CASE Missing(r) # {row}
    <3>1. at'[r] = at[r]
      BY <1>1, <2>2 DEF Lock, LocksTypeOK
    <3>2. Reached(plan[r], at[r], held[r] \cup {row})
      BY <1>1, <1>2, <1>3, <1>5, SameStatement
    <3>3. QED
      BY <1>7, <3>1, <3>2
  <2>3. QED
    BY <2>1, <2>2
<1>9. LocksTypeOK'
  <2>1. at' \in [Request -> Nat \ {0}]
    BY <1>1 DEF Lock, LocksTypeOK
  <2>2. held' \in [Request -> SUBSET Row]
    BY <1>1, <1>6 DEF Lock, LocksTypeOK
  <2>3. QED
    BY <1>1, <2>1, <2>2 DEF Lock, LocksTypeOK
<1>10. \A q \in Request : Reached(plan[q], at[q], held[q])'
  BY <1>1, <1>8 DEF Lock, IInv, LocksTypeOK
<1>11. HeldByOne'
  BY <1>1 DEF Lock, IsFree, IInv, HeldByOne, LocksTypeOK
<1>12. QED
  BY <1>9, <1>10, <1>11 DEF IInv

LEMMA PassIInv ==
  ASSUME IInv, NEW r \in Request, Pass(r)
  PROVE  IInv'
<1>1. LocksTypeOK /\ Reached(plan[r], at[r], held[r])
  BY DEF IInv
<1>2. plan[r] \in Plan \cup {<<>>} /\ at[r] \in Nat \ {0}
  BY <1>1 DEF LocksTypeOK
<1>3. DOMAIN plan[r] = 1 .. Len(plan[r]) /\ Len(plan[r]) \in Nat
  BY <1>2, PlanDomain
<1>4. at[r] \in DOMAIN plan[r]
  BY <1>2, <1>3 DEF Pass, IsComplete
<1>5. plan[r] \in Plan
  BY <1>2, <1>4
<1>6. RowsOf(plan[r][at[r]]) \subseteq held[r]
  BY DEF Pass, Missing
<1>7. Reached(plan[r], at[r] + 1, held[r])
  BY <1>1, <1>4, <1>5, <1>6, NextStatement
<1>8. at'[r] = at[r] + 1
  BY <1>1 DEF Pass, LocksTypeOK
<1>9. LocksTypeOK'
  BY <1>1 DEF Pass, LocksTypeOK
<1>10. \A q \in Request : Reached(plan[q], at[q], held[q])'
  BY <1>1, <1>7, <1>8 DEF Pass, IInv, LocksTypeOK
<1>11. HeldByOne'
  BY DEF Pass, IInv, HeldByOne
<1>12. QED
  BY <1>9, <1>10, <1>11 DEF IInv

LEMMA EndIInv ==
  ASSUME IInv, NEW r \in Request, End(r)
  PROVE  IInv'
<1>1. LocksTypeOK
  BY DEF IInv
<1>2. LocksTypeOK'
  <2>1. plan' \in [Request -> Plan \cup {<<>>}]
    BY <1>1 DEF LocksTypeOK, End
  <2>2. once' \in [Request -> BOOLEAN] /\ at' \in [Request -> Nat \ {0}]
    BY <1>1 DEF LocksTypeOK, End
  <2>3. attempt' \in [Request -> 0 .. MaxAttempts]
    BY <1>1, AttemptsAssumption DEF LocksTypeOK, End
  <2>4. held' \in [Request -> SUBSET Row]
    BY <1>1 DEF LocksTypeOK, End
  <2>5. QED
    BY <2>1, <2>2, <2>3, <2>4 DEF LocksTypeOK
<1>3. Reached(<<>>, 1, {})
  BY FirstStatement
<1>4. \A q \in Request : Reached(plan[q], at[q], held[q])'
  BY <1>1, <1>3 DEF End, IInv, LocksTypeOK
<1>5. HeldByOne'
  BY <1>1 DEF End, IInv, HeldByOne, LocksTypeOK
<1>6. QED
  BY <1>2, <1>4, <1>5 DEF IInv

LEMMA RetryIInv ==
  ASSUME IInv, NEW r \in Request, Retry(r)
  PROVE  IInv'
<1>1. LocksTypeOK
  BY DEF IInv
<1>2. LocksTypeOK'
  <2>1. attempt[r] + 1 \in 0 .. MaxAttempts
    BY <1>1, AttemptsAssumption DEF Retry, LocksTypeOK
  <2>2. attempt' \in [Request -> 0 .. MaxAttempts]
    BY <1>1, <2>1 DEF Retry, LocksTypeOK
  <2>3. QED
    BY <1>1, <2>2 DEF Retry, LocksTypeOK
<1>3. Reached(plan[r], 1, {})
  BY <1>1, FirstStatement DEF LocksTypeOK
<1>4. \A q \in Request : Reached(plan[q], at[q], held[q])'
  BY <1>1, <1>3 DEF Retry, IInv, LocksTypeOK
<1>5. HeldByOne'
  BY <1>1 DEF Retry, IInv, HeldByOne, LocksTypeOK
<1>6. QED
  BY <1>2, <1>4, <1>5 DEF IInv

LEMMA NextIInv == IInv /\ [Next]_vars => IInv'
<1> SUFFICES ASSUME IInv, [Next]_vars
             PROVE  IInv'
  OBVIOUS
<1>1. CASE UNCHANGED vars
  BY <1>1, Zenon DEF IInv, LocksTypeOK, HeldByOne, vars
<1>2. ASSUME NEW r \in Request, Begin(r)
      PROVE  IInv'
  BY <1>2, BeginIInv
<1>3. ASSUME NEW r \in Request, Advance(r)
      PROVE  IInv'
  BY <1>3, LockIInv, PassIInv DEF Advance
<1>4. ASSUME NEW r \in Request, Commit(r) \/ Refuse(r)
      PROVE  IInv'
  BY <1>4, EndIInv DEF Commit, Refuse
<1>5. ASSUME NEW r \in Request, Retry(r)
      PROVE  IInv'
  BY <1>5, RetryIInv
<1>6. QED
  BY <1>1, <1>2, <1>3, <1>4, <1>5 DEF Next

-----------------------------------------------------------------------------
(* No deadlock *)

\* What a transaction holds comes before what it waits for: in the order of the
\* kinds or groups, or within a group.  There it has the row that guards the
\* group, or else the smaller rows.
LEMMA WaitsForLater ==
  ASSUME IInv, NEW r \in Request, NEW row \in held[r], NEW next \in NextRows(r)
  PROVE  \/ Rank[row[1]] < Rank[next[1]]
         \/ /\ row[1] = next[1]
            /\ row[1] \notin Guarded
            /\ Before(row, next)
         \/ /\ row[1] = next[1] /\ row[2] = next[2]
            /\ row[1] \in Guarded
            /\ Guard(row[1], row[2]) \in held[r]
<1> DEFINE p == plan[r]
           a == at[r]
<1>1. LocksTypeOK /\ Reached(p, a, held[r])
  BY DEF IInv
<1>2. p \in Plan \cup {<<>>} /\ a \in Nat \ {0}
  BY <1>1 DEF LocksTypeOK
<1>3. DOMAIN p = 1 .. Len(p) /\ Len(p) \in Nat
  BY <1>2, PlanDomain
<1>4. ~IsComplete(r) /\ next \in RowsOf(p[a]) \ held[r]
  BY DEF NextRows, Missing
<1>5. p \in Plan /\ a \in DOMAIN p
  BY <1>2, <1>3, <1>4 DEF IsComplete
<1>6. PICK j \in DOMAIN p : j <= a /\ row \in RowsOf(p[j])
  BY <1>1 DEF Reached
<1>7. /\ row[1] = p[j].kind /\ <<row[2], row[3]>> \in p[j].keys
      /\ next[1] = p[a].kind /\ <<next[2], next[3]>> \in p[a].keys
  BY <1>4, <1>5, <1>6, RowType
<1>8. row \in Row /\ next \in Row /\ row # next
  BY <1>4, <1>5, <1>6, RowType
<1> HIDE DEF p, a
<1>9. CASE row[1] # next[1]
  <2>1. j < a
    BY <1>3, <1>5, <1>6, <1>7, <1>9
  <2>2. QED
    BY <1>5, <1>7, <1>9, <2>1 DEF Plan, WellOrdered
<1>10. CASE row[1] = next[1] /\ row[1] \notin Guarded
  <2>1. row \in RowsOf(p[a])
    <3>1. ~(j < a)
      <4>1. Rank[p[j].kind] \in Nat
        BY <1>7, <1>8, RankType DEF Row
      <4>2. ASSUME j < a
            PROVE  Rank[p[j].kind] < Rank[p[a].kind]
        BY <1>5, <1>7, <1>10, <4>2 DEF Plan, WellOrdered
      <4>3. QED
        BY <1>7, <1>10, <4>1, <4>2
    <3>2. QED
      BY <1>3, <1>5, <1>6, <3>1
  <2>2. QED
    BY <1>1, <1>4, <1>5, <1>7, <1>10, <2>1 DEF Reached
<1>11. CASE row[1] = next[1] /\ row[1] \in Guarded
  <2>1. row[2] = next[2]
    BY <1>5, <1>7, <1>11 DEF Plan, WellOrdered
  <2>2. ~IsAlone(p, a)
    <3>1. row[3] # next[3]
      BY <1>8, <1>11, <2>1, RowsOfAKind DEF RowsDiffer
    <3>2. CASE j # a
      BY <1>5, <1>6, <1>7, <1>11, <3>2 DEF IsAlone
    <3>3. CASE j = a
      <4>1. <<row[2], row[3]>> # <<next[2], next[3]>>
        BY <3>1
      <4>2. QED
        BY <1>7, <3>3, <4>1 DEF IsAlone
    <3>4. QED
      BY <3>2, <3>3
  <2>3. IsGuarded(p, a)
    BY <1>5, <1>7, <1>11, <2>2 DEF Plan, WellOrdered
  <2>4. PICK i \in 1 .. a - 1 : Guard(p[a].kind, next[2]) \in RowsOf(p[i])
    BY <1>7, <2>3 DEF IsGuarded
  <2>5. RowsOf(p[i]) \subseteq held[r]
    BY <1>1, <1>3, <1>5, <2>4 DEF Reached
  <2>6. QED
    BY <1>7, <1>11, <2>1, <2>4, <2>5
<1>12. QED
  BY <1>9, <1>10, <1>11

\* Of the rows that transactions of a cycle wait for, the last one.
LEMMA LastRow ==
  ASSUME NEW N \in SUBSET Row, N # {}
  PROVE  \E last \in N : \A row \in N :
           /\ Rank[row[1]] <= Rank[last[1]]
           /\ row[1] = last[1] => ~Before(last, row)
<1>1. PICK max \in Ids : \A id \in Ids : id <= max
  BY IdsAreBounded
<1>2. max \in Nat
  BY IdsType
<1> DEFINE Ranks1 == {Rank[row[1]] : row \in N}
<1>3. PICK rank \in Ranks1 : \A other \in Ranks1 : other <= rank
  <2>1. \A row \in N : Rank[row[1]] \in 1 .. 16
    BY RankType DEF Row
  <2>2. Ranks1 \in SUBSET Nat /\ Ranks1 # {} /\ \A x \in Ranks1 : x <= 16
    BY <2>1
  <2> HIDE DEF Ranks1
  <2>3. QED
    BY <2>2, Greatest
<1> DEFINE N1 == {row \in N : Rank[row[1]] = rank}
           Groups == {row[2] : row \in N1}
<1>4. PICK group \in Groups : \A other \in Groups : other <= group
  <2>1. N1 # {}
    BY <1>3
  <2>2. \A row \in N1 : row[2] \in Ids
    BY DEF Row
  <2>3. Groups \in SUBSET Nat /\ Groups # {} /\ \A x \in Groups : x <= max
    BY <1>1, <2>1, <2>2, IdsType
  <2> HIDE DEF Groups
  <2>4. QED
    BY <1>2, <2>3, Greatest
<1> DEFINE N2 == {row \in N1 : row[2] = group}
           Numbers == {row[3] : row \in N2}
<1>5. PICK id \in Numbers : \A other \in Numbers : other <= id
  <2>1. N2 # {}
    BY <1>4
  <2>2. \A row \in N2 : row[3] \in Ids
    BY DEF Row
  <2>3. Numbers \in SUBSET Nat /\ Numbers # {} /\ \A x \in Numbers : x <= max
    BY <1>1, <2>1, <2>2, IdsType
  <2> HIDE DEF Numbers
  <2>4. QED
    BY <1>2, <2>3, Greatest
<1>6. PICK last \in N : Rank[last[1]] = rank /\ last[2] = group /\ last[3] = id
  BY <1>5
<1>7. ASSUME NEW row \in N
      PROVE  Rank[row[1]] <= Rank[last[1]]
  BY <1>3, <1>6
<1>8. ASSUME NEW row \in N, row[1] = last[1]
      PROVE  ~Before(last, row)
  <2>1. Rank[row[1]] = rank
    BY <1>6, <1>8
  <2>2. row[2] <= group
    BY <1>4, <2>1
  <2>3. row[2] = group => row[3] <= id
    BY <1>5, <2>1
  <2>4. row[2] \in Nat /\ row[3] \in Nat /\ group \in Nat /\ id \in Nat
    BY <1>6, IdsType DEF Row
  <2>5. QED
    BY <1>6, <2>2, <2>3, <2>4 DEF Before
<1>9. QED
  BY <1>7, <1>8

LEMMA NoDeadlockHolds == IInv => NoDeadlock
<1> SUFFICES ASSUME IInv,
                    NEW cycle \in SUBSET Request,
                    cycle # {},
                    \A r \in cycle : \E q \in cycle, row \in NextRows(r) : Holds(q, row)
             PROVE  FALSE
  BY DEF NoDeadlock
<1> DEFINE N == {row \in Row : \E q, r \in cycle : Holds(q, row) /\ row \in NextRows(r)}
<1>1. LocksTypeOK
  BY DEF IInv
<1>2. \A r \in cycle : \E row \in NextRows(r) : row \in N
  BY <1>1 DEF LocksTypeOK, Holds
<1>3. N # {} /\ N \in SUBSET Row
  BY <1>2
<1>4. PICK last \in N : \A row \in N :
        /\ Rank[row[1]] <= Rank[last[1]]
        /\ row[1] = last[1] => ~Before(last, row)
  <2> HIDE DEF N
  <2>1. QED
    BY <1>3, LastRow
<1>5. PICK q \in cycle : last \in held[q]
  BY DEF Holds
<1>6. PICK next \in NextRows(q) : next \in N
  BY <1>2
<1>7. \A row \in N : Rank[row[1]] \in Nat /\ row \in Row
  BY RankType DEF Row
<1>8. ~(Rank[last[1]] < Rank[next[1]])
  BY <1>4, <1>6, <1>7
<1>9. /\ last[1] = next[1] /\ last[2] = next[2]
      /\ last[1] \in Guarded
      /\ Guard(last[1], last[2]) \in held[q]
  BY <1>4, <1>5, <1>6, <1>8, WaitsForLater
<1>10. PICK s \in cycle : next \in held[s]
  BY <1>6 DEF Holds
<1>11. s # q
  BY <1>6, <1>10 DEF NextRows, Missing
<1>12. PICK third \in NextRows(s) : third \in N
  BY <1>2
<1>13. Guard(last[1], last[2]) \in held[s]
  <2>1. ~(Rank[next[1]] < Rank[third[1]])
    BY <1>4, <1>7, <1>9, <1>12
  <2>2. /\ next[1] = third[1] /\ next[2] = third[2]
        /\ Guard(next[1], next[2]) \in held[s]
    BY <1>9, <1>10, <1>12, <2>1, WaitsForLater
  <2>3. QED
    BY <1>9, <2>2
<1>14. QED
  BY <1>9, <1>11, <1>13 DEF IInv, HeldByOne

-----------------------------------------------------------------------------

\* Every transaction runs a list of statements in the order of LOCK_ORDER.md, on
\* rows there are.
THEOREM LocksTypeCorrect == Spec => []LocksTypeOK
<1>1. IInv => LocksTypeOK
  BY DEF IInv
<1>2. QED
  BY <1>1, InitIInv, NextIInv, PTL DEF Spec

\* No set of transactions ever waits in a circle, whichever commands, users and
\* rows they are about: the order of the locks, and the rows that guard those
\* that are taken without order, keep the wait-for graph free of cycles.
THEOREM DeadlockFree == Spec => []NoDeadlock
BY InitIInv, NextIInv, NoDeadlockHolds, PTL DEF Spec
=============================================================================
