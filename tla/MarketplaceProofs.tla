--------------------------- MODULE MarketplaceProofs ---------------------------
(***************************************************************************)
(* What Marketplace keeps, for any people, organizations, rows, catalogue  *)
(* and bounds.                                                             *)
(***************************************************************************)
EXTENDS Marketplace, TLAPS

-----------------------------------------------------------------------------
(* Rows and patches *)

LEMMA SomeRow ==
  ASSUME MarketTypeOK, NEW a \in AuthorizationId
  PROVE  /\ authorization[a] \in AuthorizationRow \cup {FreeAuthorization}
         /\ a \in Rows => authorization[a] \in AuthorizationRow
         /\ a \notin Rows => authorization[a] = FreeAuthorization
BY DEF MarketTypeOK, Rows, FreeAuthorization, AuthorizationRow

LEMMA ActiveIsRow ==
  ASSUME MarketTypeOK, NEW a \in AuthorizationId, authorization[a].status = "ACTIVE"
  PROVE  a \in Rows
BY DEF Rows

LEMMA ExpiredType ==
  ASSUME MarketTypeOK
  PROVE  Expired \in [AuthorizationId -> AuthorizationRow \cup {FreeAuthorization}]
<1>1. ASSUME NEW a \in AuthorizationId
      PROVE  (IF IsOverdue(a) THEN [authorization[a] EXCEPT !.status = "EXPIRED"]
                              ELSE authorization[a])
               \in AuthorizationRow \cup {FreeAuthorization}
  <2>1. CASE IsOverdue(a)
    <3>1. a \in Rows
      BY <2>1, ActiveIsRow DEF IsOverdue
    <3>2. authorization[a] \in AuthorizationRow
      BY <3>1, SomeRow
    <3>3. [authorization[a] EXCEPT !.status = "EXPIRED"] \in AuthorizationRow
      BY <3>2 DEF AuthorizationRow
    <3>4. QED
      BY <2>1, <3>3
  <2>2. CASE ~ IsOverdue(a)
    BY <2>2, SomeRow
  <2>3. QED
    BY <2>1, <2>2
<1>2. QED
  BY <1>1 DEF Expired

\* A patched field is the one of the row or the one of a row of its type.
LEMMA FieldValue ==
  ASSUME NEW fields, NEW rows, NEW patch \in PatchesOf(fields, rows), NEW row
  PROVE  \E r \in rows : \A f : Field(row, patch, f) \in {r[f], row[f]}
<1>1. PICK F \in (SUBSET fields) \ {{}}, r \in rows : patch = [f \in F |-> r[f]]
  BY DEF PatchesOf
<1>2. ASSUME NEW f
      PROVE  Field(row, patch, f) \in {r[f], row[f]}
  BY <1>1 DEF Field
<1>3. QED
  BY <1>2

LEMMA PatchedAreaType ==
  ASSUME area \in AreaRow, NEW patch \in AreaPatches
  PROVE  PatchedArea(patch) \in AreaRow
<1>1. PICK r \in AreaRow : \A f : Field(area, patch, f) \in {r[f], area[f]}
  BY FieldValue DEF AreaPatches
<1>2. /\ Field(area, patch, "built") \in {r.built, area.built}
      /\ Field(area, patch, "usable") \in {r.usable, area.usable}
  BY <1>1
<1>3. QED
  BY <1>2 DEF PatchedArea, AreaRow

LEMMA PatchedTermsType ==
  ASSUME NEW t \in Terms, NEW patch \in TermsPatches
  PROVE  PatchedTerms(t, patch) \in Terms
<1>1. PICK r \in Terms : \A f : Field(t, patch, f) \in {r[f], t[f]}
  BY FieldValue DEF TermsPatches
<1>2. /\ Field(t, patch, "transaction") \in {r.transaction, t.transaction}
      /\ Field(t, patch, "mode") \in {r.mode, t.mode}
      /\ Field(t, patch, "from") \in {r.from, t.from}
      /\ Field(t, patch, "until") \in {r.until, t.until}
  BY <1>1
<1>3. QED
  BY <1>2 DEF PatchedTerms, Terms

-----------------------------------------------------------------------------
(* Type correctness: what is written is merged with the row before it is    *)
(* judged, so it meets the constraints of the schema.                       *)

LEMMA AuthorizationsType ==
  ASSUME MarketTypeOK, [Next]_vars
  PROVE  authorization' \in [AuthorizationId -> AuthorizationRow \cup {FreeAuthorization}]
<1> USE ExpiredType
<1>1. ASSUME NEW u \in User, NEW a \in AuthorizationId, CreateProperty(u, a)
      PROVE  authorization' \in [AuthorizationId -> AuthorizationRow \cup {FreeAuthorization}]
  <2>1. [status |-> "ACTIVE", type |-> "OWNER", subject |-> u, starts |-> 0, ends |-> Never]
          \in AuthorizationRow
    BY DEF AuthorizationRow, Subject
  <2>2. QED
    BY <1>1, <2>1 DEF CreateProperty, MarketTypeOK
<1>2. ASSUME NEW u \in User, NEW a \in AuthorizationId, Revoke(u, a)
      PROVE  authorization' \in [AuthorizationId -> AuthorizationRow \cup {FreeAuthorization}]
  <2>1. Expired[a] \in AuthorizationRow
    BY <1>2 DEF Revoke, FreeAuthorization
  <2>2. [Expired[a] EXCEPT !.status = "REVOKED"] \in AuthorizationRow
    BY <2>1 DEF AuthorizationRow
  <2>3. QED
    BY <1>2, <2>2 DEF Revoke
<1>3. ASSUME NEW u \in User, NEW a \in AuthorizationId, Grant(u, a)
      PROVE  authorization' \in [AuthorizationId -> AuthorizationRow \cup {FreeAuthorization}]
  <2>1. PICK s \in User \cup active, type \in {"MANAGER", "PUBLISHER"},
             starts \in 0 .. Horizon, ends \in (1 .. Horizon) \cup {Never} :
          authorization' = [Expired EXCEPT ![a] =
            [status |-> "ACTIVE", type |-> type, subject |-> s, starts |-> starts, ends |-> ends]]
    BY <1>3 DEF Grant
  <2>2. s \in Subject /\ starts \in Nat /\ ends \in Nat \cup {Never}
    BY MarketAssumption DEF Subject, MarketTypeOK
  <2>3. [status |-> "ACTIVE", type |-> type, subject |-> s, starts |-> starts, ends |-> ends]
          \in AuthorizationRow
    BY <2>2 DEF AuthorizationRow
  <2>4. QED
    BY <2>1, <2>3
<1>4. CASE Tick
  <2>1. ASSUME NEW a \in Rows
        PROVE  [authorization[a] EXCEPT !.starts = OneLess(@), !.ends = OneLess(@)]
                 \in AuthorizationRow
    <3>1. a \in AuthorizationId /\ authorization[a] \in AuthorizationRow
      BY SomeRow DEF Rows
    <3>2. /\ OneLess(authorization[a].starts) \in Nat
          /\ OneLess(authorization[a].ends) \in Nat \cup {Never}
      BY <3>1 DEF OneLess, AuthorizationRow, Never
    <3>3. QED
      BY <3>1, <3>2 DEF AuthorizationRow
  <2>2. ASSUME NEW a \in AuthorizationId
        PROVE  (IF a \in Rows
                  THEN [authorization[a] EXCEPT !.starts = OneLess(@), !.ends = OneLess(@)]
                  ELSE authorization[a]) \in AuthorizationRow \cup {FreeAuthorization}
    BY <2>1, SomeRow
  <2>3. QED
    BY <1>4, <2>2 DEF Tick
<1>5. CASE authorization' = Expired
  BY <1>5
<1>6. CASE UNCHANGED authorization
  BY <1>6 DEF MarketTypeOK
<1>7. QED
  BY <1>1, <1>2, <1>3, <1>4, <1>5, <1>6
    DEF Next, vars, UpdateProperty, ReadLocation, SetLocation, CreateListing, UpdateListing,
        SetMember, SetOrganization

LEMMA ListingsType ==
  ASSUME MarketTypeOK, [Next]_vars
  PROVE  listing' \in [ListingId -> ListingRow \cup {FreeListing}]
<1>1. ASSUME NEW u \in User, NEW l \in ListingId, CreateListing(u, l)
      PROVE  listing' \in [ListingId -> ListingRow \cup {FreeListing}]
  <2>1. PICK s \in Subject, terms \in Terms :
          /\ TermsAgree(terms)
          /\ listing' = [listing EXCEPT ![l] = [publisher |-> s, responsible |-> u, terms |-> terms]]
    BY <1>1 DEF CreateListing
  <2>2. [publisher |-> s, responsible |-> u, terms |-> terms] \in ListingRow
    BY <2>1 DEF ListingRow
  <2>3. QED
    BY <2>1, <2>2 DEF MarketTypeOK
<1>2. ASSUME NEW u \in User, NEW l \in ListingId, UpdateListing(u, l)
      PROVE  listing' \in [ListingId -> ListingRow \cup {FreeListing}]
  <2>1. PICK patch \in TermsPatches :
          /\ TermsAgree(PatchedTerms(listing[l].terms, patch))
          /\ listing' = [listing EXCEPT ![l].terms = PatchedTerms(@, patch)]
    BY <1>2 DEF UpdateListing
  <2>2. listing[l] \in ListingRow
    BY <1>2 DEF UpdateListing, MarketTypeOK
  <2>3. PatchedTerms(listing[l].terms, patch) \in {t \in Terms : TermsAgree(t)}
    BY <2>1, <2>2, PatchedTermsType DEF ListingRow
  <2>4. [listing[l] EXCEPT !.terms = PatchedTerms(@, patch)] \in ListingRow
    BY <2>2, <2>3 DEF ListingRow
  <2>5. QED
    BY <2>1, <2>4 DEF MarketTypeOK
<1>3. CASE UNCHANGED listing
  BY <1>3 DEF MarketTypeOK
<1>4. QED
  BY <1>1, <1>2, <1>3
    DEF Next, vars, CreateProperty, Revoke, Grant, UpdateProperty, ReadLocation, SetLocation,
        SetMember, SetOrganization, Tick

LEMMA AreaType ==
  ASSUME MarketTypeOK, [Next]_vars
  PROVE  area' \in {r \in AreaRow : AreaInOrder(r)}
<1>1. ASSUME NEW u \in User, UpdateProperty(u)
      PROVE  area' \in {r \in AreaRow : AreaInOrder(r)}
  <2>1. area \in AreaRow
    BY DEF MarketTypeOK
  <2>2. QED
    BY <1>1, <2>1, PatchedAreaType DEF UpdateProperty, AreaFits
<1>2. ASSUME NEW u \in User, NEW a \in AuthorizationId, CreateProperty(u, a)
      PROVE  area' \in {r \in AreaRow : AreaInOrder(r)}
  BY <1>2 DEF CreateProperty
<1>3. CASE UNCHANGED area
  BY <1>3 DEF MarketTypeOK
<1>4. QED
  BY <1>1, <1>2, <1>3
    DEF Next, vars, Revoke, Grant, ReadLocation, SetLocation, CreateListing, UpdateListing,
        SetMember, SetOrganization, Tick

LEMMA LocationsType ==
  ASSUME MarketTypeOK, [Next]_vars
  PROVE  location' \in LocationRow /\ seen' \in [User -> LocationRow]
<1>1. ASSUME NEW u \in User, SetLocation(u)
      PROVE  location' \in LocationRow /\ seen' \in [User -> LocationRow]
  BY <1>1 DEF SetLocation, MarketTypeOK, LocationRow
<1>2. ASSUME NEW u \in User, ReadLocation(u)
      PROVE  location' \in LocationRow /\ seen' \in [User -> LocationRow]
  BY <1>2 DEF ReadLocation, MarketTypeOK
<1>3. CASE UNCHANGED <<location, seen>>
  BY <1>3 DEF MarketTypeOK
<1>4. QED
  BY <1>1, <1>2, <1>3
    DEF Next, vars, CreateProperty, Revoke, Grant, UpdateProperty, CreateListing, UpdateListing,
        SetMember, SetOrganization, Tick

LEMMA EnvironmentType ==
  ASSUME MarketTypeOK, [Next]_vars
  PROVE  member' \subseteq User \X Organization /\ active' \subseteq Organization
<1>1. ASSUME NEW u \in User, NEW g \in Organization, SetMember(u, g)
      PROVE  member' \subseteq User \X Organization /\ active' \subseteq Organization
  BY <1>1 DEF SetMember, MarketTypeOK
<1>2. ASSUME NEW g \in Organization, SetOrganization(g)
      PROVE  member' \subseteq User \X Organization /\ active' \subseteq Organization
  BY <1>2 DEF SetOrganization, MarketTypeOK
<1>3. CASE UNCHANGED <<member, active>>
  BY <1>3 DEF MarketTypeOK
<1>4. QED
  BY <1>1, <1>2, <1>3
    DEF Next, vars, CreateProperty, Revoke, Grant, UpdateProperty, ReadLocation, SetLocation,
        CreateListing, UpdateListing, Tick

\* Rows are well typed and within the CHECK constraints of the schema, whatever
\* patches are merged into them (validatePropertyPatch, validateListingPatch).
THEOREM MarketTypeCorrectness == Spec => []MarketTypeOK
<1>1. Init => MarketTypeOK
  BY DEF Init, MarketTypeOK, FreeAuthorization, FreeListing, AreaRow, AreaInOrder, LocationRow
<1>2. MarketTypeOK /\ [Next]_vars => MarketTypeOK'
  <2> SUFFICES ASSUME MarketTypeOK, [Next]_vars
               PROVE  MarketTypeOK'
    OBVIOUS
  <2>1. QED
    BY AuthorizationsType, ListingsType, AreaType, LocationsType, EnvironmentType
      DEF MarketTypeOK
<1>3. QED
  BY <1>1, <1>2, PTL DEF Spec

-----------------------------------------------------------------------------
(* What a step makes of an authorization *)

\* The row stays what it is, ends at most once, and keeps a start that has come
\* and an end that never comes.
KeepsRow(a) ==
  /\ a \in Rows'
  /\ authorization'[a].subject = authorization[a].subject
  /\ authorization'[a].type = authorization[a].type
  /\ authorization[a].status # "ACTIVE" => authorization'[a].status = authorization[a].status
  /\ authorization'[a].status = "EXPIRED" /\ authorization[a].status = "ACTIVE" =>
       IsOver(authorization[a])
  /\ authorization'[a].status = "REVOKED" /\ authorization[a].status = "ACTIVE" =>
       authorization[a].type # "OWNER"
  /\ authorization[a].starts = 0 => authorization'[a].starts = 0
  /\ authorization[a].ends = Never => authorization'[a].ends = Never

LEMMA ExpiredRow ==
  ASSUME MarketTypeOK, NEW a \in AuthorizationId
  PROVE  /\ Expired[a].status \in {authorization[a].status, "EXPIRED"}
         /\ a \in Rows =>
              /\ Expired[a].subject = authorization[a].subject
              /\ Expired[a].type = authorization[a].type
              /\ Expired[a].starts = authorization[a].starts
              /\ Expired[a].ends = authorization[a].ends
         /\ Expired[a].status # authorization[a].status =>
              authorization[a].status = "ACTIVE" /\ IsOver(authorization[a])
         /\ Expired[a].status = "FREE" <=> authorization[a].status = "FREE"
<1>1. CASE IsOverdue(a)
  <2>1. a \in Rows /\ authorization[a] \in AuthorizationRow
    BY <1>1, ActiveIsRow, SomeRow DEF IsOverdue
  <2>2. Expired[a] = [authorization[a] EXCEPT !.status = "EXPIRED"]
    BY <1>1 DEF Expired
  <2>3. authorization[a].status = "ACTIVE" /\ IsOver(authorization[a])
    BY <1>1 DEF IsOverdue
  <2>4. QED
    BY <2>1, <2>2, <2>3 DEF AuthorizationRow
<1>2. CASE ~ IsOverdue(a)
  BY <1>2 DEF Expired
<1>3. QED
  BY <1>1, <1>2

LEMMA RowsStep ==
  ASSUME MarketTypeOK, [Next]_vars, NEW a \in Rows
  PROVE  KeepsRow(a)
<1>1. a \in AuthorizationId /\ authorization[a] \in AuthorizationRow
  BY SomeRow DEF Rows
<1>2. authorization[a].status # "FREE"
  BY DEF Rows
<1>3. ASSUME NEW u \in User, NEW b \in AuthorizationId, CreateProperty(u, b)
      PROVE  KeepsRow(a)
  BY <1>3 DEF CreateProperty, Exists
<1>4. ASSUME authorization'[a] = Expired[a]
      PROVE  KeepsRow(a)
  <2>1. /\ Expired[a].subject = authorization[a].subject
        /\ Expired[a].type = authorization[a].type
        /\ Expired[a].starts = authorization[a].starts
        /\ Expired[a].ends = authorization[a].ends
        /\ Expired[a].status \in {authorization[a].status, "EXPIRED"}
        /\ Expired[a].status # authorization[a].status =>
              authorization[a].status = "ACTIVE" /\ IsOver(authorization[a])
        /\ Expired[a].status # "FREE"
    BY <1>1, <1>2, ExpiredRow
  <2>2. QED
    BY <1>1, <1>4, <2>1 DEF KeepsRow, Rows
<1>5. ASSUME NEW u \in User, NEW b \in AuthorizationId, Revoke(u, b)
      PROVE  KeepsRow(a)
  <2>1. CASE a = b
    <3>1. authorization' = [Expired EXCEPT ![a].status = "REVOKED"]
      BY <1>5, <2>1 DEF Revoke
    <3>2. Expired[a] \in AuthorizationRow
      BY <1>1, <1>2, ExpiredType, ExpiredRow DEF FreeAuthorization
    <3>3. authorization'[a] = [Expired[a] EXCEPT !.status = "REVOKED"]
      BY <1>1, <3>1, ExpiredType
    <3>4. Expired[a].status = "ACTIVE" /\ authorization[a].type # "OWNER"
      BY <1>5, <2>1 DEF Revoke
    <3>5. authorization[a].status = "ACTIVE"
      BY <1>1, <3>4, ExpiredRow
    <3>6. /\ Expired[a].subject = authorization[a].subject
          /\ Expired[a].type = authorization[a].type
          /\ Expired[a].starts = authorization[a].starts
          /\ Expired[a].ends = authorization[a].ends
      BY <1>1, ExpiredRow
    <3>7. QED
      BY <1>1, <3>2, <3>3, <3>4, <3>5, <3>6 DEF KeepsRow, Rows, AuthorizationRow
  <2>2. CASE a # b
    <3>1. authorization'[a] = Expired[a]
      BY <1>1, <1>5, <2>2, ExpiredType DEF Revoke
    <3>2. QED
      BY <1>4, <3>1
  <2>3. QED
    BY <2>1, <2>2
<1>6. ASSUME NEW u \in User, NEW b \in AuthorizationId, Grant(u, b)
      PROVE  KeepsRow(a)
  <2>1. a # b
    BY <1>2, <1>6 DEF Grant
  <2>2. authorization'[a] = Expired[a]
    BY <1>1, <1>6, <2>1, ExpiredType DEF Grant
  <2>3. QED
    BY <1>4, <2>2
<1>7. CASE Tick
  <2>1. authorization'[a] =
          [authorization[a] EXCEPT !.starts = OneLess(@), !.ends = OneLess(@)]
    BY <1>1, <1>7 DEF Tick
  <2>2. QED
    BY <1>1, <1>2, <2>1 DEF KeepsRow, Rows, AuthorizationRow, OneLess
<1>8. CASE authorization' = Expired
  BY <1>4, <1>8
<1>9. CASE UNCHANGED authorization
  BY <1>1, <1>9 DEF KeepsRow, Rows
<1>10. QED
  BY <1>3, <1>5, <1>6, <1>7, <1>8, <1>9
    DEF Next, vars, UpdateProperty, ReadLocation, SetLocation, CreateListing, UpdateListing,
        SetMember, SetOrganization

\* An authorization ends once, and runs out only when its time is over.
THEOREM EndingsAreFinal == Spec => AuthorizationsEndOnce
<1>1. MarketTypeOK /\ [Next]_vars =>
        [\A a \in Rows :
           LET was == authorization[a] is == authorization'[a] IN
           /\ was.status # "ACTIVE" => is.status = was.status
           /\ was.status = "ACTIVE" /\ is.status = "EXPIRED" => IsOver(was)
           /\ is.subject = was.subject /\ is.type = was.type]_vars
  BY RowsStep DEF KeepsRow
<1>2. QED
  BY <1>1, MarketTypeCorrectness, PTL DEF Spec, AuthorizationsEndOnce

-----------------------------------------------------------------------------
(* The owner remains: his authorization has no end and cannot be revoked *)

IsOwnersRow(a) ==
  /\ a \in Rows
  /\ authorization[a].status = "ACTIVE"
  /\ authorization[a].type = "OWNER"
  /\ authorization[a].subject \in User
  /\ authorization[a].starts = 0
  /\ authorization[a].ends = Never

HasOwner == Exists => \E a \in AuthorizationId : IsOwnersRow(a)

LEMMA OwnersRowStep ==
  ASSUME MarketTypeOK, [Next]_vars, NEW a \in AuthorizationId, IsOwnersRow(a)
  PROVE  IsOwnersRow(a)'
<1>1. KeepsRow(a)
  BY RowsStep DEF IsOwnersRow
<1>2. ~ IsOver(authorization[a])
  BY DEF IsOwnersRow, IsOver, Never
<1>3. authorization'[a] \in AuthorizationRow
  BY <1>1, AuthorizationsType DEF KeepsRow, Rows, FreeAuthorization
<1>4. authorization'[a].status = "ACTIVE"
  BY <1>1, <1>2, <1>3 DEF KeepsRow, IsOwnersRow, AuthorizationRow
<1>5. QED
  BY <1>1, <1>4 DEF KeepsRow, IsOwnersRow

\* The first row is the owner's.
LEMMA FirstRow ==
  ASSUME MarketTypeOK, [Next]_vars, ~ Exists, Exists'
  PROVE  \E a \in AuthorizationId : IsOwnersRow(a)'
<1>1. Rows = {}
  BY DEF Exists
<1>2. ASSUME NEW a \in AuthorizationId
      PROVE  Expired[a].status = "FREE"
  BY <1>1, ExpiredRow DEF Rows
<1>3. ASSUME NEW u \in User
      PROVE  ~ MayAuthorize(u) /\ ~ MayEdit(u) /\ ~ MayEditListings(u)
  BY <1>1 DEF MayAuthorize, MayEdit, MayEditListings, Usable
<1>4. ASSUME NEW u \in User, NEW a \in AuthorizationId, CreateProperty(u, a)
      PROVE  IsOwnersRow(a)'
  <2>1. authorization'[a] =
          [status |-> "ACTIVE", type |-> "OWNER", subject |-> u, starts |-> 0, ends |-> Never]
    BY <1>4 DEF CreateProperty, MarketTypeOK
  <2>2. QED
    BY <2>1 DEF IsOwnersRow, Rows
<1>5. CASE Tick
  BY <1>1, <1>5 DEF Tick, Exists, Rows
<1>6. CASE UNCHANGED authorization
  BY <1>6 DEF Exists, Rows
<1>7. CASE authorization' = Expired
  BY <1>2, <1>7 DEF Exists, Rows
<1>8. QED
  BY <1>3, <1>4, <1>5, <1>6, <1>7
    DEF Next, vars, Revoke, Grant, UpdateProperty, ReadLocation, SetLocation, CreateListing,
        UpdateListing, SetMember, SetOrganization

\* No revocation and no time that passes leaves a property with nobody who may
\* authorize others.
THEOREM OwnersRemain == Spec => []OwnerRemains
<1>1. Init => HasOwner
  BY DEF Init, HasOwner, Exists, Rows, FreeAuthorization
<1>2. MarketTypeOK /\ HasOwner /\ [Next]_vars => HasOwner'
  <2> SUFFICES ASSUME MarketTypeOK, HasOwner, [Next]_vars, Exists'
               PROVE  \E a \in AuthorizationId : IsOwnersRow(a)'
    BY DEF HasOwner
  <2>1. CASE Exists
    BY <2>1, OwnersRowStep DEF HasOwner
  <2>2. CASE ~ Exists
    BY <2>2, FirstRow
  <2>3. QED
    BY <2>1, <2>2
<1>3. MarketTypeOK /\ HasOwner => OwnerRemains
  <2> SUFFICES ASSUME MarketTypeOK, NEW a \in AuthorizationId, IsOwnersRow(a)
               PROVE  \E u \in User : MayAuthorize(u)
    BY DEF HasOwner, OwnerRemains
  <2>1. authorization[a].subject \in User
    BY DEF IsOwnersRow
  <2>2. a \in Usable(authorization[a].subject)
    BY DEF IsOwnersRow, Usable, IsEffective, IsOver, Never, ActsFor
  <2>3. MayAuthorize(authorization[a].subject)
    BY <2>2 DEF MayAuthorize, IsOwnersRow
  <2>4. QED
    BY <2>1, <2>3
<1>4. QED
  BY <1>1, <1>2, <1>3, MarketTypeCorrectness, PTL DEF Spec

-----------------------------------------------------------------------------
(* Grants and publishers *)

LEMMA ActiveWasActive ==
  ASSUME MarketTypeOK, [Next]_vars, NEW a \in Rows, authorization'[a].status = "ACTIVE"
  PROVE  /\ authorization[a].status = "ACTIVE"
         /\ authorization'[a].subject = authorization[a].subject
         /\ authorization'[a].type = authorization[a].type
BY RowsStep DEF KeepsRow

\* A new row is the first one, or no duplicate of another.
LEMMA NewRow ==
  ASSUME MarketTypeOK, [Next]_vars, NEW a \in Rows', a \notin Rows,
         NEW b \in Rows', a # b,
         authorization'[b].status = "ACTIVE"
  PROVE  /\ b \in Rows
         /\ ~ IsDuplicate(authorization'[b], authorization'[a].subject, authorization'[a].type)
<1>1. /\ a \in AuthorizationId /\ authorization[a].status = "FREE"
      /\ b \in AuthorizationId
      /\ authorization'[a].status # "FREE" /\ authorization'[b].status # "FREE"
  BY DEF Rows
<1>2. ASSUME NEW u \in User, NEW x \in AuthorizationId, CreateProperty(u, x)
      PROVE  FALSE
  <2>1. \A y \in AuthorizationId : authorization[y].status = "FREE"
    BY <1>2 DEF CreateProperty, Exists, Rows
  <2>2. \A y \in AuthorizationId \ {x} : authorization'[y] = authorization[y]
    BY <1>2 DEF CreateProperty, MarketTypeOK
  <2>3. QED
    BY <1>1, <2>1, <2>2
<1>3. ASSUME NEW u \in User, NEW x \in AuthorizationId, Grant(u, x)
      PROVE  /\ b \in Rows
             /\ ~ IsDuplicate(authorization'[b], authorization'[a].subject, authorization'[a].type)
  <2>1. PICK s \in User \cup active, type \in {"MANAGER", "PUBLISHER"},
             starts \in 0 .. Horizon, ends \in (1 .. Horizon) \cup {Never} :
          /\ ends = Never \/ ends > starts
          /\ \A y \in Rows : ~ IsDuplicate(Expired[y], s, type)
          /\ authorization' = [Expired EXCEPT ![x] =
               [status |-> "ACTIVE", type |-> type, subject |-> s, starts |-> starts, ends |-> ends]]
    BY <1>3 DEF Grant
  <2>2. ASSUME NEW y \in AuthorizationId, y # x
        PROVE  authorization'[y] = Expired[y]
    <3> DEFINE row == [status |-> "ACTIVE", type |-> type, subject |-> s,
                       starts |-> starts, ends |-> ends]
    <3>1. authorization' = [Expired EXCEPT ![x] = row]
      BY <2>1
    <3> HIDE DEF row
    <3>2. QED
      BY <2>2, <3>1, ExpiredType
  <2>3. a = x
    BY <1>1, <2>2, ExpiredRow
  <2>4. authorization'[a].subject = s /\ authorization'[a].type = type
    BY <1>1, <2>1, <2>3, ExpiredType
  <2>5. authorization'[b] = Expired[b]
    BY <1>1, <2>2, <2>3
  <2>6. b \in Rows
    BY <1>1, <2>5, ExpiredRow DEF Rows
  <2>7. QED
    BY <2>1, <2>4, <2>5, <2>6
<1>4. ASSUME NEW u \in User, NEW x \in AuthorizationId, Revoke(u, x)
      PROVE  FALSE
  <2>1. x # a
    BY <1>1, <1>4, ExpiredRow DEF Revoke
  <2>2. authorization'[a] = Expired[a]
    BY <1>1, <1>4, <2>1, ExpiredType DEF Revoke
  <2>3. QED
    BY <1>1, <2>2, ExpiredRow
<1>5. CASE authorization' = Expired
  BY <1>1, <1>5, ExpiredRow
<1>6. CASE Tick
  BY <1>1, <1>6 DEF Tick, Rows
<1>7. CASE UNCHANGED authorization
  BY <1>1, <1>7
<1>8. QED
  BY <1>2, <1>3, <1>4, <1>5, <1>6, <1>7
    DEF Next, vars, UpdateProperty, ReadLocation, SetLocation, CreateListing, UpdateListing,
        SetMember, SetOrganization

\* Nobody holds an active authorization of a type twice: the unique indexes
\* never abort a grant.
THEOREM GrantsAreUnique == Spec => []OneActiveGrant
<1>1. Init => OneActiveGrant
  BY DEF Init, OneActiveGrant, Rows, FreeAuthorization
<1>2. MarketTypeOK /\ OneActiveGrant /\ [Next]_vars => OneActiveGrant'
  <2> SUFFICES ASSUME MarketTypeOK, OneActiveGrant, [Next]_vars,
                      NEW a \in Rows', NEW b \in Rows',
                      authorization'[a].status = "ACTIVE",
                      authorization'[b].status = "ACTIVE",
                      authorization'[a].subject = authorization'[b].subject,
                      authorization'[a].type = authorization'[b].type,
                      a # b
               PROVE  FALSE
    BY DEF OneActiveGrant
  <2>1. a \in Rows
    BY NewRow DEF IsDuplicate
  <2>2. b \in Rows
    BY NewRow DEF IsDuplicate
  <2>3. QED
    BY <2>1, <2>2, ActiveWasActive DEF OneActiveGrant
<1>3. QED
  BY <1>1, <1>2, MarketTypeCorrectness, PTL DEF Spec

\* Every listing is under a name that was authorized itself.
THEOREM PublishersHadAuthority == Spec => []PublishersWereAuthorized
<1>1. Init => PublishersWereAuthorized
  BY DEF Init, PublishersWereAuthorized
<1>2. MarketTypeOK /\ PublishersWereAuthorized /\ [Next]_vars => PublishersWereAuthorized'
  <2> SUFFICES ASSUME MarketTypeOK, PublishersWereAuthorized, [Next]_vars,
                      NEW l \in ListingId, listing'[l] # FreeListing
               PROVE  \E a \in Rows' : authorization'[a].subject = listing'[l].publisher
    BY DEF PublishersWereAuthorized
  <2>1. ASSUME NEW a \in Rows, authorization[a].subject = listing'[l].publisher
        PROVE  \E x \in Rows' : authorization'[x].subject = listing'[l].publisher
    BY <2>1, RowsStep DEF KeepsRow
  <2>2. ASSUME listing[l] # FreeListing, listing'[l].publisher = listing[l].publisher
        PROVE  \E a \in Rows : authorization[a].subject = listing'[l].publisher
    BY <2>2 DEF PublishersWereAuthorized
  <2>3. ASSUME NEW u \in User, NEW x \in ListingId, CreateListing(u, x)
        PROVE  \E a \in Rows : authorization[a].subject = listing'[l].publisher
    <3>1. PICK s \in Subject, terms \in Terms :
            /\ MayPublish(u, s)
            /\ listing' = [listing EXCEPT ![x] = [publisher |-> s, responsible |-> u, terms |-> terms]]
      BY <2>3 DEF CreateListing
    <3>2. CASE l = x
      <4>1. listing'[l].publisher = s
        BY <3>1, <3>2 DEF MarketTypeOK
      <4>2. QED
        BY <3>1, <4>1 DEF MayPublish
    <3>3. CASE l # x
      <4>1. listing'[l] = listing[l]
        BY <3>1, <3>3 DEF MarketTypeOK
      <4>2. QED
        BY <2>2, <4>1
    <3>4. QED
      BY <3>2, <3>3
  <2>4. ASSUME NEW u \in User, NEW x \in ListingId, UpdateListing(u, x)
        PROVE  \E a \in Rows : authorization[a].subject = listing'[l].publisher
    <3>1. PICK t : listing' = [listing EXCEPT ![x].terms = t]
      BY <2>4 DEF UpdateListing
    <3>2. CASE l = x
      <4>1. listing[l] # FreeListing /\ listing[l] \in ListingRow
        BY <2>4, <3>2 DEF UpdateListing, MarketTypeOK
      <4>2. listing'[l] = [listing[l] EXCEPT !.terms = t]
        BY <3>1, <3>2 DEF MarketTypeOK
      <4>3. listing'[l].publisher = listing[l].publisher
        BY <4>1, <4>2 DEF ListingRow
      <4>4. QED
        BY <2>2, <4>1, <4>3
    <3>3. CASE l # x
      <4>1. listing'[l] = listing[l]
        BY <3>1, <3>3 DEF MarketTypeOK
      <4>2. QED
        BY <2>2, <4>1
    <3>4. QED
      BY <3>2, <3>3
  <2>5. ASSUME UNCHANGED listing
        PROVE  \E a \in Rows : authorization[a].subject = listing'[l].publisher
    <3>1. listing'[l] = listing[l]
      BY <2>5
    <3>2. listing[l] # FreeListing
      BY <3>1
    <3>3. listing'[l].publisher = listing[l].publisher
      BY <3>1
    <3>4. QED
      BY <2>2, <3>2, <3>3
  <2>6. \E a \in Rows : authorization[a].subject = listing'[l].publisher
    <3> DEFINE Authorized == \E a \in Rows : authorization[a].subject = listing'[l].publisher
    <3>1. \A u \in User, x \in ListingId :
            CreateListing(u, x) \/ UpdateListing(u, x) => Authorized
      BY <2>3, <2>4
    <3>2. UNCHANGED listing => Authorized
      BY <2>5
    <3> HIDE DEF Authorized
    <3>3. Authorized
      BY <3>1, <3>2
        DEF Next, vars, CreateProperty, Revoke, Grant, UpdateProperty, ReadLocation, SetLocation,
            SetMember, SetOrganization, Tick
    <3>4. QED
      BY <3>3 DEF Authorized
  <2>7. QED
    BY <2>1, <2>6
<1>3. QED
  BY <1>1, <1>2, MarketTypeCorrectness, PTL DEF Spec

-----------------------------------------------------------------------------
(* Locations *)

\* Who sends the present version of the location has seen the location.
THEOREM NoLocationIsLost == Spec => []VersionsNameLocations
<1>1. Init => VersionsNameLocations
  <2> SUFFICES ASSUME Init, NEW u \in User
               PROVE  /\ seen[u].version <= location.version
                      /\ seen[u].version = location.version => seen[u] = location
    BY DEF VersionsNameLocations
  <2>1. location.version = 0 /\ seen[u].version = 0 /\ seen[u] = location
    BY DEF Init
  <2>2. QED
    BY <2>1
<1>2. MarketTypeOK /\ VersionsNameLocations /\ [Next]_vars => VersionsNameLocations'
  <2> SUFFICES ASSUME MarketTypeOK, VersionsNameLocations, [Next]_vars
               PROVE  VersionsNameLocations'
    OBVIOUS
  <2>1. location.version \in Nat /\ \A u \in User : seen[u].version \in Nat
    BY DEF MarketTypeOK, LocationRow
  <2>2. ASSUME NEW u \in User, SetLocation(u)
        PROVE  VersionsNameLocations'
    <3>1. location'.version = location.version + 1
      BY <2>2 DEF SetLocation
    <3>2. seen' = [seen EXCEPT ![u] = location']
      BY <2>2 DEF SetLocation
    <3>3. seen'[u] = location' /\ \A x \in User \ {u} : seen'[x] = seen[x]
      BY <3>2 DEF MarketTypeOK
    <3>4. \A x \in User : seen[x].version < location'.version
      BY <2>1, <3>1 DEF VersionsNameLocations
    <3>5. location'.version \in Nat
      BY <2>1, <3>1
    <3>6. QED
      BY <2>1, <3>3, <3>4, <3>5 DEF VersionsNameLocations
  <2>3. ASSUME NEW u \in User, ReadLocation(u)
        PROVE  VersionsNameLocations'
    <3>1. location' = location /\ seen' = [seen EXCEPT ![u] = location]
      BY <2>3 DEF ReadLocation
    <3>2. seen'[u] = location /\ \A x \in User \ {u} : seen'[x] = seen[x]
      BY <3>1 DEF MarketTypeOK
    <3>3. QED
      BY <2>1, <3>1, <3>2 DEF VersionsNameLocations
  <2>4. CASE UNCHANGED <<location, seen>>
    BY <2>4 DEF VersionsNameLocations
  <2>5. QED
    BY <2>2, <2>3, <2>4
      DEF Next, vars, CreateProperty, Revoke, Grant, UpdateProperty, CreateListing, UpdateListing,
          SetMember, SetOrganization, Tick
<1>3. QED
  BY <1>1, <1>2, MarketTypeCorrectness, PTL DEF Spec

-----------------------------------------------------------------------------
(* The refinement of Authority *)

LEMMA StandingRow ==
  ASSUME MarketTypeOK, NEW a \in AuthorizationId, Stands(a)
  PROVE  /\ a \in Rows /\ authorization[a] \in AuthorizationRow
         /\ GrantOf(a) \in Abstract!Grants
         /\ GrantOf(a) \in Granted
<1>1. a \in Rows /\ authorization[a] \in AuthorizationRow
  BY ActiveIsRow, SomeRow DEF Stands
<1>2. GrantOf(a) \in Abstract!Grants
  BY <1>1 DEF Stands, GrantOf, Abstract!Grants, Abstract!Subject, Subject, AuthorizationRow
<1>3. QED
  BY <1>1, <1>2 DEF Granted

\* Of a grant there is one row.
LEMMA OneRowOfAGrant ==
  ASSUME MarketTypeOK, OneActiveGrant, NEW a \in AuthorizationId, NEW b \in AuthorizationId,
         Stands(a), Stands(b),
         GrantOf(a).subject = GrantOf(b).subject, GrantOf(a).type = GrantOf(b).type
  PROVE  a = b
BY StandingRow DEF OneActiveGrant, Stands, GrantOf

\* What the abstract specification sees of a row is as before.
LooksTheSame(a) ==
  /\ Stands(a)' <=> Stands(a)
  /\ Stands(a) => /\ GrantOf(a)' = GrantOf(a)
                  /\ authorization'[a].starts = 0 <=> authorization[a].starts = 0

LEMMA SameGrants ==
  ASSUME \A a \in AuthorizationId : LooksTheSame(a)
  PROVE  Granted' = Granted /\ Effective' = Effective
<1>1. Granted' = Granted
  BY DEF Granted, LooksTheSame
<1>2. Effective' = Effective
  BY DEF Effective, LooksTheSame
<1>3. QED
  BY <1>1, <1>2

LEMMA ExpiredLooksTheSame ==
  ASSUME MarketTypeOK, NEW a \in AuthorizationId, authorization'[a] = Expired[a]
  PROVE  LooksTheSame(a)
<1>1. CASE a \in Rows
  <2>1. /\ Expired[a].subject = authorization[a].subject
        /\ Expired[a].type = authorization[a].type
        /\ Expired[a].starts = authorization[a].starts
        /\ Expired[a].ends = authorization[a].ends
        /\ Expired[a].status \in {authorization[a].status, "EXPIRED"}
        /\ Expired[a].status # authorization[a].status => IsOver(authorization[a])
    BY <1>1, ExpiredRow
  <2>2. QED
    BY <2>1 DEF LooksTheSame, Stands, GrantOf, IsOver
<1>2. CASE a \notin Rows
  <2>1. authorization[a].status = "FREE" /\ Expired[a].status = "FREE"
    BY <1>2, ExpiredRow DEF Rows
  <2>2. QED
    BY <2>1 DEF LooksTheSame, Stands
<1>3. QED
  BY <1>1, <1>2

\* Owners are those of the rows, which keep their types and subjects.
LEMMA OwnersStay ==
  ASSUME MarketTypeOK, [Next]_vars,
         \A a \in Rows' : a \in Rows \/ authorization'[a].type # "OWNER"
  PROVE  Owners' = Owners
<1>1. \A a \in Rows : KeepsRow(a)
  BY RowsStep
<1>2. \A a \in Rows : /\ a \in Rows' /\ authorization'[a].type = authorization[a].type
                      /\ authorization'[a].subject = authorization[a].subject
  BY <1>1 DEF KeepsRow
<1>3. QED
  BY <1>2 DEF Owners

LEMMA ExpiryIsInvisible ==
  ASSUME MarketTypeOK, [Next]_vars, authorization' = Expired \/ UNCHANGED authorization
  PROVE  Owners' = Owners /\ Granted' = Granted /\ Effective' = Effective
<1>1. CASE authorization' = Expired
  <2>1. \A a \in Rows' : a \in Rows
    BY <1>1, ExpiredRow DEF Rows
  <2>2. \A a \in AuthorizationId : LooksTheSame(a)
    BY <1>1, ExpiredLooksTheSame
  <2>3. QED
    BY <2>1, <2>2, OwnersStay, SameGrants
<1>2. CASE UNCHANGED authorization
  BY <1>2 DEF Owners, Rows, Granted, Effective, Stands, GrantOf
<1>3. QED
  BY <1>1, <1>2

LEMMA CreateRefines ==
  ASSUME MarketTypeOK, NEW u \in User, NEW a \in AuthorizationId, CreateProperty(u, a)
  PROVE  Owners = {} /\ Owners' = {u} /\ Granted' = Granted /\ Effective' = Effective
<1>1. \A x \in AuthorizationId : authorization[x].status = "FREE"
  BY DEF CreateProperty, Exists, Rows
<1>2. /\ authorization'[a] = [status |-> "ACTIVE", type |-> "OWNER", subject |-> u,
                             starts |-> 0, ends |-> Never]
      /\ \A x \in AuthorizationId \ {a} : authorization'[x] = authorization[x]
  BY DEF CreateProperty, MarketTypeOK
<1>3. Owners = {} /\ Owners' = {u}
  BY <1>1, <1>2 DEF Owners, Rows
<1>4. \A x \in AuthorizationId : ~ Stands(x) /\ ~ Stands(x)'
  BY <1>1, <1>2 DEF Stands
<1>5. QED
  BY <1>3, <1>4, SameGrants DEF LooksTheSame

\* Only the owner authorizes.
LEMMA AuthorizersOwn ==
  ASSUME NEW u \in User, MayAuthorize(u)
  PROVE  u \in Owners
BY DEF MayAuthorize, Usable, Owners

LEMMA GrantRefines ==
  ASSUME MarketTypeOK, [Next]_vars, NEW u \in User, NEW a \in AuthorizationId, Grant(u, a)
  PROVE  \E g \in Abstract!Grants :
           /\ \A x \in Granted : x.subject = g.subject => x.type # g.type
           /\ Owners' = Owners
           /\ Granted' = Granted \cup {g}
           /\ Effective' = Effective \/ Effective' = Effective \cup {g}
<1>1. PICK s \in User \cup active, type \in {"MANAGER", "PUBLISHER"},
           starts \in 0 .. Horizon, ends \in (1 .. Horizon) \cup {Never} :
        /\ ends = Never \/ ends > starts
        /\ \A y \in Rows : ~ IsDuplicate(Expired[y], s, type)
        /\ authorization' = [Expired EXCEPT ![a] =
             [status |-> "ACTIVE", type |-> type, subject |-> s, starts |-> starts, ends |-> ends]]
  BY DEF Grant
<1>2. ends # 0
  BY MarketAssumption DEF Never
<1> DEFINE row == [status |-> "ACTIVE", type |-> type, subject |-> s,
                   starts |-> starts, ends |-> ends]
           g == [subject |-> s, type |-> type, endless |-> ends = Never]
<1>3. /\ authorization'[a] = row
      /\ \A x \in AuthorizationId \ {a} : authorization'[x] = Expired[x]
  <2>1. authorization' = [Expired EXCEPT ![a] = row]
    BY <1>1
  <2> HIDE DEF row
  <2>2. QED
    BY <2>1, ExpiredType
<1>4. s \in Subject
  BY DEF MarketTypeOK, Subject
<1>5. g \in Abstract!Grants
  BY <1>4 DEF Abstract!Grants, Abstract!Subject, Subject
<1>6. /\ Stands(a)' /\ GrantOf(a)' = g
      /\ authorization'[a].starts = 0 <=> starts = 0
  BY <1>2, <1>3 DEF Stands, IsOver, GrantOf
<1>7. ~ Stands(a)
  BY DEF Grant, Stands
<1>8. \A x \in AuthorizationId \ {a} : LooksTheSame(x)
  BY <1>3, ExpiredLooksTheSame
<1>9. ASSUME NEW x \in AuthorizationId, Stands(x),
             GrantOf(x).subject = s, GrantOf(x).type = type
      PROVE  FALSE
  <2>1. x \in Rows
    BY <1>9, StandingRow
  <2>2. Expired[x] = authorization[x]
    BY <1>9 DEF Expired, IsOverdue, Stands
  <2>3. QED
    BY <1>1, <1>9, <2>1, <2>2 DEF IsDuplicate, Stands, GrantOf
<1>10. \A x \in Granted : x.subject = g.subject => x.type # g.type
  BY <1>9 DEF Granted
<1>11. Owners' = Owners
  <2>1. \A x \in Rows' : x \in Rows \/ authorization'[x].type # "OWNER"
    BY <1>3, ExpiredRow DEF Rows
  <2>2. QED
    BY <2>1, OwnersStay
<1> HIDE DEF g, row
<1>12. Granted' = Granted \cup {g}
  BY <1>6, <1>7, <1>8 DEF Granted, LooksTheSame
<1>13. Effective' = IF starts = 0 THEN Effective \cup {g} ELSE Effective
  <2>1. CASE starts = 0
    BY <1>6, <1>7, <1>8, <2>1 DEF Effective, LooksTheSame
  <2>2. CASE starts # 0
    BY <1>6, <1>7, <1>8, <2>2 DEF Effective, LooksTheSame
  <2>3. QED
    BY <2>1, <2>2
<1>14. QED
  BY <1>5, <1>10, <1>11, <1>12, <1>13

LEMMA RevokeRefines ==
  ASSUME MarketTypeOK, OneActiveGrant, [Next]_vars,
         NEW u \in User, NEW a \in AuthorizationId, Revoke(u, a)
  PROVE  \E g \in Granted :
           /\ Owners' = Owners
           /\ Granted' = Granted \ {g}
           /\ Effective' = Effective \ {g}
<1>1. Stands(a)
  <2>1. Expired[a].status = "ACTIVE" /\ authorization[a].type # "OWNER"
    BY DEF Revoke
  <2>2. authorization[a].status = "ACTIVE" /\ ~ IsOver(authorization[a])
    <3>1. CASE IsOverdue(a)
      <4>1. authorization[a] \in AuthorizationRow
        BY <3>1, ActiveIsRow, SomeRow DEF IsOverdue
      <4>2. Expired[a] = [authorization[a] EXCEPT !.status = "EXPIRED"]
        BY <3>1 DEF Expired
      <4>3. QED
        BY <2>1, <4>1, <4>2 DEF AuthorizationRow
    <3>2. CASE ~ IsOverdue(a)
      BY <2>1, <3>2 DEF Expired, IsOverdue
    <3>3. QED
      BY <3>1, <3>2
  <2>3. QED
    BY <2>1, <2>2 DEF Stands
<1>2. a \in Rows /\ GrantOf(a) \in Granted /\ authorization[a] \in AuthorizationRow
  BY <1>1, StandingRow
<1>3. \A x \in AuthorizationId \ {a} : authorization'[x] = Expired[x]
  BY ExpiredType DEF Revoke
<1>4. authorization'[a].status = "REVOKED"
  <2>1. authorization'[a] = [Expired[a] EXCEPT !.status = "REVOKED"]
    BY ExpiredType DEF Revoke
  <2>2. Expired[a] \in AuthorizationRow
    BY <1>2, ExpiredType, ExpiredRow DEF FreeAuthorization, Rows
  <2>3. QED
    BY <2>1, <2>2 DEF AuthorizationRow
<1>5. ~ Stands(a)'
  BY <1>4 DEF Stands
<1>6. \A x \in AuthorizationId \ {a} : LooksTheSame(x)
  BY <1>3, ExpiredLooksTheSame
<1>7. \A x \in AuthorizationId : Stands(x) /\ x # a => GrantOf(x) # GrantOf(a)
  BY <1>1, OneRowOfAGrant
<1>8. Granted' = Granted \ {GrantOf(a)}
  BY <1>5, <1>6, <1>7 DEF Granted, LooksTheSame
<1>9. Effective' = Effective \ {GrantOf(a)}
  BY <1>5, <1>6, <1>7 DEF Effective, LooksTheSame
<1>10. Owners' = Owners
  <2>1. \A x \in Rows' : x \in Rows
    BY <1>2, <1>3, ExpiredRow DEF Rows
  <2>2. QED
    BY <2>1, OwnersStay
<1>11. QED
  BY <1>2, <1>8, <1>9, <1>10

LEMMA TickRefines ==
  ASSUME MarketTypeOK, MarketTypeOK', OneActiveGrant, [Next]_vars, Tick
  PROVE  /\ Owners' = Owners
         /\ Granted' \subseteq Granted
         /\ \A g \in Granted : g.endless => g \in Granted'
         /\ Effective \cap Granted' \subseteq Effective'
         /\ Effective' \subseteq Granted'
<1>1. ASSUME NEW a \in Rows
      PROVE  /\ authorization[a] \in AuthorizationRow
             /\ authorization'[a] =
                  [authorization[a] EXCEPT !.starts = OneLess(@), !.ends = OneLess(@)]
  BY <1>1, SomeRow DEF Tick, Rows
<1>2. Rows' = Rows
  <2>1. \A a \in AuthorizationId : a \in Rows => authorization'[a].status = authorization[a].status
    BY <1>1 DEF AuthorizationRow
  <2>2. \A a \in AuthorizationId : a \notin Rows => authorization'[a] = authorization[a]
    BY DEF Tick
  <2>3. QED
    BY <2>1, <2>2 DEF Rows
<1>3. Owners' = Owners
  BY <1>2, OwnersStay
<1>4. ASSUME NEW a \in AuthorizationId, Stands(a)'
      PROVE  Stands(a) /\ GrantOf(a)' = GrantOf(a)
  <2>1. a \in Rows
    <3>1. a \in Rows'
      BY <1>4 DEF Stands, Rows
    <3>2. QED
      BY <1>2, <3>1
  <2>2. /\ authorization'[a].status = authorization[a].status
        /\ authorization'[a].type = authorization[a].type
        /\ authorization'[a].subject = authorization[a].subject
        /\ authorization'[a].ends = OneLess(authorization[a].ends)
        /\ authorization[a].ends \in Nat \cup {Never}
    BY <1>1, <2>1 DEF AuthorizationRow
  <2>3. authorization[a].ends # 0 /\ (authorization'[a].ends = Never <=> authorization[a].ends = Never)
    BY <1>4, <2>2 DEF Stands, IsOver, OneLess, Never
  <2>4. QED
    BY <1>4, <2>2, <2>3 DEF Stands, IsOver, GrantOf
<1>5. Granted' \subseteq Granted
  BY <1>4 DEF Granted
<1>6. ASSUME NEW a \in AuthorizationId, Stands(a), GrantOf(a).endless
      PROVE  GrantOf(a) \in Granted'
  <2>1. a \in Rows /\ authorization[a].ends = Never
    BY <1>6, StandingRow DEF GrantOf
  <2>2. /\ authorization'[a].status = authorization[a].status
        /\ authorization'[a].type = authorization[a].type
        /\ authorization'[a].subject = authorization[a].subject
        /\ authorization'[a].ends = Never
    BY <1>1, <2>1 DEF AuthorizationRow, OneLess, Never
  <2>3. Stands(a)' /\ GrantOf(a)' = GrantOf(a)
    BY <1>6, <2>1, <2>2 DEF Stands, IsOver, GrantOf, Never
  <2>4. QED
    BY <2>3 DEF Granted
<1>7. ASSUME NEW a \in AuthorizationId, Stands(a), authorization[a].starts = 0,
             NEW b \in AuthorizationId, Stands(b)', GrantOf(b)' = GrantOf(a)
      PROVE  GrantOf(a) \in Effective'
  <2>1. Stands(b) /\ GrantOf(b) = GrantOf(a)
    BY <1>4, <1>7
  <2>2. a = b
    BY <1>7, <2>1, OneRowOfAGrant
  <2>3. a \in Rows
    BY <1>7, StandingRow
  <2>4. authorization'[a].starts = 0
    BY <1>1, <1>7, <2>3 DEF AuthorizationRow, OneLess
  <2>5. QED
    BY <1>7, <2>2, <2>4 DEF Effective
<1>8. Effective \cap Granted' \subseteq Effective'
  BY <1>7 DEF Effective, Granted
<1>9. Effective' \subseteq Granted'
  BY DEF Effective, Granted
<1>10. \A g \in Granted : g.endless => g \in Granted'
  BY <1>6 DEF Granted
<1>11. QED
  BY <1>3, <1>5, <1>8, <1>9, <1>10

\* The names of the listings, and those a user may act under.
Publishers == [l \in ListingId |-> listing[l].publisher]
Names == [u \in User |-> ActsFor(u)]

LEMMA NamesStay ==
  ASSUME UNCHANGED <<member, active>>
  PROVE  Names' = Names
BY DEF Names, ActsFor

LEMMA TermsArePrivate ==
  ASSUME MarketTypeOK, NEW u \in User, NEW l \in ListingId, UpdateListing(u, l)
  PROVE  Publishers' = Publishers
<1>1. PICK patch \in TermsPatches : listing' = [listing EXCEPT ![l].terms = PatchedTerms(@, patch)]
  BY DEF UpdateListing
<1>2. listing[l] \in ListingRow
  BY DEF UpdateListing, MarketTypeOK
<1>3. listing'[l].publisher = listing[l].publisher
  BY <1>1, <1>2 DEF ListingRow, MarketTypeOK
<1>4. \A x \in ListingId \ {l} : listing'[x] = listing[x]
  BY <1>1 DEF MarketTypeOK
<1>5. \A x \in ListingId : listing'[x].publisher = listing[x].publisher
  BY <1>3, <1>4
<1>6. QED
  BY <1>5 DEF Publishers

LEMMA PublishRefines ==
  ASSUME MarketTypeOK, NEW u \in User, NEW l \in ListingId, CreateListing(u, l)
  PROVE  \E s \in Subject :
           /\ Publishers[l] = "FREE"
           /\ s \in Names[u]
           /\ s \in Owners \/ \E g \in Effective : g.subject = s
           /\ Publishers' = [Publishers EXCEPT ![l] = s]
<1>1. PICK s \in Subject, terms \in Terms :
        /\ MayPublish(u, s)
        /\ listing' = [listing EXCEPT ![l] = [publisher |-> s, responsible |-> u, terms |-> terms]]
  BY DEF CreateListing
<1>2. PICK a \in Rows : authorization[a].subject = s /\ IsEffective(authorization[a])
  BY <1>1 DEF MayPublish
<1>3. s \in Owners \/ \E g \in Effective : g.subject = s
  <2>1. CASE authorization[a].type = "OWNER"
    BY <1>2, <2>1 DEF Owners
  <2>2. CASE authorization[a].type # "OWNER"
    <3>1. a \in AuthorizationId /\ Stands(a) /\ authorization[a].starts = 0
      BY <1>2, <2>2 DEF IsEffective, Stands, Rows
    <3>2. GrantOf(a) \in Effective /\ GrantOf(a).subject = s
      BY <1>2, <3>1 DEF Effective, GrantOf
    <3>3. QED
      BY <3>2
  <2>3. QED
    BY <2>1, <2>2
<1>4. Publishers[l] = "FREE"
  BY DEF CreateListing, FreeListing, Publishers
<1>5. Publishers' = [Publishers EXCEPT ![l] = s]
  <2>1. /\ listing'[l].publisher = s
        /\ \A x \in ListingId \ {l} : listing'[x] = listing[x]
    BY <1>1 DEF MarketTypeOK
  <2>2. QED
    BY <2>1 DEF Publishers
<1>6. s \in Names[u]
  BY <1>1 DEF MayPublish, Names
<1>7. QED
  BY <1>3, <1>4, <1>5, <1>6

\* The abstract steps, said of what they are mapped to.
LEMMA TimePasses ==
  ASSUME Owners' = Owners, Granted' \subseteq Granted,
         \A g \in Granted : g.endless => g \in Granted',
         Effective \cap Granted' \subseteq Effective', Effective' \subseteq Granted',
         Publishers' = Publishers, Names' = Names
  PROVE  Abstract!Next
<1>1. Abstract!Pass
  BY DEF Abstract!Pass, Publishers, Names
<1>2. QED
  BY <1>1 DEF Abstract!Next

LEMMA OwnerComes ==
  ASSUME NEW u \in User, Owners = {}, Owners' = {u}, Granted' = Granted,
         Effective' = Effective, Publishers' = Publishers, Names' = Names
  PROVE  Abstract!Next
<1>1. Abstract!Create(u)
  BY DEF Abstract!Create, Publishers, Names
<1>2. QED
  BY <1>1 DEF Abstract!Next

LEMMA GrantComes ==
  ASSUME NEW by \in Owners, NEW g \in Abstract!Grants,
         \A x \in Granted : x.subject = g.subject => x.type # g.type,
         Granted' = Granted \cup {g},
         Effective' = Effective \/ Effective' = Effective \cup {g},
         Owners' = Owners, Publishers' = Publishers, Names' = Names
  PROVE  Abstract!Next
<1>1. Abstract!Grant(by, g)
  BY DEF Abstract!Grant, Publishers, Names
<1>2. QED
  BY <1>1 DEF Abstract!Next

LEMMA GrantGoes ==
  ASSUME NEW by \in Owners, NEW g \in Granted, Granted' = Granted \ {g},
         Effective' = Effective \ {g},
         Owners' = Owners, Publishers' = Publishers, Names' = Names
  PROVE  Abstract!Next
<1>1. Abstract!Withdraw(by, g)
  BY DEF Abstract!Withdraw, Publishers, Names
<1>2. QED
  BY <1>1 DEF Abstract!Next

LEMMA NameIsPublished ==
  ASSUME NEW u \in User, NEW l \in ListingId, NEW s \in Subject, Publishers[l] = "FREE",
         s \in Names[u], s \in Owners \/ \E g \in Effective : g.subject = s,
         Publishers' = [Publishers EXCEPT ![l] = s],
         Owners' = Owners, Granted' = Granted, Effective' = Effective, Names' = Names
  PROVE  Abstract!Next
<1>1. Abstract!Publish(u, s, l)
  BY DEF Abstract!Publish, Publishers, Names
<1>2. s \in Abstract!Subject
  BY DEF Subject, Abstract!Subject
<1>3. QED
  BY <1>1, <1>2 DEF Abstract!Next

LEMMA NamesChange ==
  ASSUME MarketTypeOK', UNCHANGED <<authorization, listing>>
  PROVE  Abstract!Next
<1>1. /\ Owners' = Owners /\ Granted' = Granted /\ Effective' = Effective
      /\ Publishers' = Publishers
  BY DEF Owners, Rows, Granted, Effective, Stands, GrantOf, Publishers
<1>2. ASSUME NEW u \in User
      PROVE  ActsFor(u)' \in SUBSET Subject /\ u \in ActsFor(u)'
  BY DEF ActsFor, MarketTypeOK, Subject
<1>3. Names' \in [User -> SUBSET Subject] /\ \A u \in User : u \in Names'[u]
  BY <1>2 DEF Names
<1>4. Abstract!Outside
  BY <1>1, <1>3 DEF Abstract!Outside, Publishers, Names, Subject, Abstract!Subject
<1>5. QED
  BY <1>4 DEF Abstract!Next

LEMMA AuthorityStep ==
  ASSUME MarketTypeOK, MarketTypeOK', OneActiveGrant, [Next]_vars
  PROVE  Abstract!Next
<1>1. ASSUME UNCHANGED <<listing, member, active>>
      PROVE  Publishers' = Publishers /\ Names' = Names
  BY <1>1, NamesStay DEF Publishers
<1>2. ASSUME authorization' = Expired \/ UNCHANGED authorization,
             Publishers' = Publishers, UNCHANGED <<member, active>>
      PROVE  Abstract!Next
  <2>1. Names' = Names
    BY <1>2, NamesStay
  <2>2. Owners' = Owners /\ Granted' = Granted /\ Effective' = Effective
    BY <1>2, ExpiryIsInvisible
  <2>3. Effective \subseteq Granted
    BY DEF Effective, Granted
  <2>4. QED
    BY <1>2, <2>1, <2>2, <2>3, TimePasses
<1>3. ASSUME NEW u \in User, NEW a \in AuthorizationId, CreateProperty(u, a)
      PROVE  Abstract!Next
  <2>1. Publishers' = Publishers /\ Names' = Names
    BY <1>1, <1>3 DEF CreateProperty
  <2>2. QED
    BY <1>3, <2>1, CreateRefines, OwnerComes
<1>4. ASSUME NEW u \in User, NEW a \in AuthorizationId, Revoke(u, a)
      PROVE  Abstract!Next
  <2>1. Publishers' = Publishers /\ Names' = Names
    BY <1>1, <1>4 DEF Revoke
  <2>2. u \in Owners
    BY <1>4, AuthorizersOwn DEF Revoke
  <2>3. PICK g \in Granted :
          Owners' = Owners /\ Granted' = Granted \ {g} /\ Effective' = Effective \ {g}
    BY <1>4, RevokeRefines
  <2>4. QED
    BY <2>1, <2>2, <2>3, GrantGoes
<1>5. ASSUME NEW u \in User, NEW a \in AuthorizationId, Grant(u, a)
      PROVE  Abstract!Next
  <2>1. Publishers' = Publishers /\ Names' = Names
    BY <1>1, <1>5 DEF Grant
  <2>2. u \in Owners
    BY <1>5, AuthorizersOwn DEF Grant
  <2>3. PICK g \in Abstract!Grants :
          /\ \A x \in Granted : x.subject = g.subject => x.type # g.type
          /\ Owners' = Owners
          /\ Granted' = Granted \cup {g}
          /\ Effective' = Effective \/ Effective' = Effective \cup {g}
    BY <1>5, GrantRefines
  <2>4. QED
    BY <2>1, <2>2, <2>3, GrantComes
<1>6. ASSUME NEW u \in User, NEW l \in ListingId, CreateListing(u, l)
      PROVE  Abstract!Next
  <2>1. authorization' = Expired /\ UNCHANGED <<member, active>>
    BY <1>6 DEF CreateListing
  <2>2. Names' = Names
    BY <2>1, NamesStay
  <2>3. Owners' = Owners /\ Granted' = Granted /\ Effective' = Effective
    BY <2>1, ExpiryIsInvisible
  <2>4. PICK s \in Subject :
          /\ Publishers[l] = "FREE"
          /\ s \in Names[u]
          /\ s \in Owners \/ \E g \in Effective : g.subject = s
          /\ Publishers' = [Publishers EXCEPT ![l] = s]
    BY <1>6, PublishRefines
  <2>5. QED
    BY <2>2, <2>3, <2>4, NameIsPublished
<1>7. ASSUME NEW u \in User, NEW l \in ListingId, UpdateListing(u, l)
      PROVE  Abstract!Next
  <2>1. authorization' = Expired /\ UNCHANGED <<member, active>>
    BY <1>7 DEF UpdateListing
  <2>2. Publishers' = Publishers
    BY <1>7, TermsArePrivate
  <2>3. QED
    BY <1>2, <2>1, <2>2
<1>8. ASSUME NEW u \in User, UpdateProperty(u) \/ ReadLocation(u) \/ SetLocation(u)
      PROVE  Abstract!Next
  <2>1. /\ authorization' = Expired \/ UNCHANGED authorization
        /\ UNCHANGED <<listing, member, active>>
    BY <1>8 DEF UpdateProperty, ReadLocation, SetLocation
  <2>2. QED
    BY <1>1, <1>2, <2>1
<1>9. ASSUME NEW g \in Organization,
             SetOrganization(g) \/ \E u \in User : SetMember(u, g)
      PROVE  Abstract!Next
  BY <1>9, NamesChange DEF SetOrganization, SetMember
<1>10. CASE Tick
  <2>1. Publishers' = Publishers /\ Names' = Names
    BY <1>1, <1>10 DEF Tick
  <2>2. /\ Owners' = Owners
        /\ Granted' \subseteq Granted
        /\ \A g \in Granted : g.endless => g \in Granted'
        /\ Effective \cap Granted' \subseteq Effective'
        /\ Effective' \subseteq Granted'
    BY <1>10, TickRefines
  <2>3. QED
    BY <2>1, <2>2, TimePasses
<1>11. CASE UNCHANGED vars
  <2>1. UNCHANGED <<authorization, listing, member, active>>
    BY <1>11 DEF vars
  <2>2. QED
    BY <1>1, <1>2, <2>1
<1>12. QED
  BY <1>3, <1>4, <1>5, <1>6, <1>7, <1>8, <1>9, <1>10, <1>11 DEF Next

LEMMA AuthorityInitially ==
  ASSUME Init
  PROVE  Abstract!Init
<1>1. \A a \in AuthorizationId : authorization[a].status = "FREE"
  BY DEF Init, FreeAuthorization
<1>2. Owners = {} /\ Granted = {} /\ Effective = {}
  BY <1>1 DEF Owners, Rows, Granted, Effective, Stands
<1>3. \A l \in ListingId : listing[l].publisher = "FREE"
  BY DEF Init, FreeListing
<1>4. \A u \in User : ActsFor(u) = {u}
  BY DEF Init, ActsFor
<1>5. QED
  BY <1>2, <1>3, <1>4 DEF Abstract!Init

\* The rows of property_authorization, with ends that are recorded late and grants
\* for later, and the listings published by them implement the abstract authority
\* (MarketplaceService, marketplace.policy.ts).
THEOREM AuthorityIsImplemented == Spec => ImplementsAuthority
<1>1. Init => Abstract!Init
  BY AuthorityInitially
<1>2. MarketTypeOK /\ MarketTypeOK' /\ OneActiveGrant /\ [Next]_vars
        => [Abstract!Next]_(Abstract!authorityVars)
  BY AuthorityStep
<1>3. QED
  BY <1>1, <1>2, MarketTypeCorrectness, GrantsAreUnique, PTL
    DEF Spec, ImplementsAuthority, Abstract!Spec
=============================================================================
