----------------------------- MODULE Marketplace -----------------------------
(***************************************************************************)
(* One property, the authorizations on it and its draft listings           *)
(* (apps/api/src/marketplace/marketplace.service.ts, marketplace.policy.ts). *)
(*                                                                         *)
(* A command is one Serializable transaction that locks the organizations  *)
(* it asks about, the property and its authorizations, reads the clock,    *)
(* expires what is overdue and only then decides, so it is one action.  A  *)
(* command that is refused is rolled back, the expiry included.            *)
(*                                                                         *)
(* A time of an authorization is what is left until it.  Members and       *)
(* organizations change by the commands of other modules.  Sessions and    *)
(* the accounts of grantees only refuse a command and are left out, as are *)
(* the fields of property and listing that are checked alone.              *)
(***************************************************************************)
EXTENDS Integers

CONSTANTS
  User,
  Organization,
  AuthorizationId,
  ListingId,
  Location,      \* the catalogue
  Area,          \* areas of a property
  Instant,       \* times at which a listing is available
  Horizon,       \* bound on the times of a grant
  MaxVersion     \* bound on property.location_version

ASSUME MarketAssumption ==
  /\ User \cap Organization = {}
  /\ Area \subseteq Nat \ {0}
  /\ Instant \subseteq Nat \ {0}
  /\ {Horizon, MaxVersion} \subseteq Nat

VARIABLES
  authorization,  \* rows of "property_authorization"
  area,           \* property.built_area and usable_area
  location,       \* property.location_id and location_version
  seen,           \* the location and version each user read last
  listing,        \* rows of "listing"
  member,         \* active members of organizations
  active          \* active organizations

vars == <<authorization, area, location, seen, listing, member, active>>

Subject == User \cup Organization
None == 0
NoLocation == "NONE"
NoMode == "NONE"

\* An authorization without end: valid_until IS NULL.
Never == -1

FreeAuthorization == [status |-> "FREE"]
AuthorizationRow ==
  [status: {"ACTIVE", "REVOKED", "EXPIRED"}, type: {"OWNER", "MANAGER", "PUBLISHER"},
   subject: Subject, starts: Nat, ends: Nat \cup {Never}]

AreaRow == [built: Area \cup {None}, usable: Area \cup {None}]

\* CHECK property_area_order_chk
AreaInOrder(r) == r.built # None /\ r.usable # None => r.usable <= r.built

LocationRow == [place: Location \cup {NoLocation}, version: Nat]

Terms ==
  [transaction: {"SALE", "RENT"}, mode: {NoMode, "LONG_TERM"},
   from: Instant \cup {None}, until: Instant \cup {None}]

\* CHECKs listing_rental_mode_chk and listing_availability_chk
TermsAgree(t) ==
  /\ t.transaction = "RENT" <=> t.mode # NoMode
  /\ t.until # None => t.from # None /\ t.until > t.from

FreeListing == [publisher |-> "FREE"]
ListingRow == [publisher: Subject, responsible: User, terms: {t \in Terms : TermsAgree(t)}]

MarketTypeOK ==
  /\ authorization \in [AuthorizationId -> AuthorizationRow \cup {FreeAuthorization}]
  /\ area \in {r \in AreaRow : AreaInOrder(r)}
  /\ location \in LocationRow
  /\ seen \in [User -> LocationRow]
  /\ listing \in [ListingId -> ListingRow \cup {FreeListing}]
  /\ member \subseteq User \X Organization
  /\ active \subseteq Organization

-----------------------------------------------------------------------------
(* marketplace.policy.ts *)

Rows == {a \in AuthorizationId : authorization[a].status # "FREE"}

\* createProperty has been called.
Exists == Rows # {}

IsOver(row) == row.ends = 0

\* isAuthorizationEffective
IsEffective(row) == row.status = "ACTIVE" /\ row.starts = 0 /\ ~ IsOver(row)

ActsFor(u) == {u} \cup {g \in active : <<u, g>> \in member}

\* The authorizations u may use.
Usable(u) ==
  {a \in Rows : IsEffective(authorization[a]) /\ authorization[a].subject \in ActsFor(u)}

MayEdit(u) == \E a \in Usable(u) : authorization[a].type # "PUBLISHER"
MayAuthorize(u) ==
  \E a \in Usable(u) : authorization[a].type = "OWNER" /\ authorization[a].subject = u
MayEditListings(u) == Usable(u) # {}

\* Mistaken variant: whoever may use an authorization publishes in his own name.
MayUseAny(u, s) == Usable(u) # {}

\* createListing: the publisher himself must be authorized.
MayPublish(u, s) ==
  s \in ActsFor(u) /\ \E a \in Rows : authorization[a].subject = s /\ IsEffective(authorization[a])

\* Mistaken variant: whatever its status.
IsOverdueAnyway(a) == a \in Rows /\ IsOver(authorization[a])

IsOverdue(a) == authorization[a].status = "ACTIVE" /\ IsOver(authorization[a])

\* expireAuthorizations
Expired ==
  [a \in AuthorizationId |->
     IF IsOverdue(a) THEN [authorization[a] EXCEPT !.status = "EXPIRED"] ELSE authorization[a]]

-----------------------------------------------------------------------------
(* The property and its authorizations *)

Init ==
  /\ authorization = [a \in AuthorizationId |-> FreeAuthorization]
  /\ area = [built |-> None, usable |-> None]
  /\ location = [place |-> NoLocation, version |-> 0]
  /\ seen = [u \in User |-> [place |-> NoLocation, version |-> 0]]
  /\ listing = [l \in ListingId |-> FreeListing]
  /\ member = {}
  /\ active = Organization

CreateProperty(u, a) ==
  /\ ~ Exists
  /\ authorization' = [authorization EXCEPT ![a] =
       [status |-> "ACTIVE", type |-> "OWNER", subject |-> u, starts |-> 0, ends |-> Never]]
  /\ area' \in {r \in AreaRow : AreaInOrder(r)}
  /\ UNCHANGED <<location, seen, listing, member, active>>

\* Mistaken variant: one that is scheduled is overlooked.
IsDuplicateNow(row, s, type) == IsEffective(row) /\ row.subject = s /\ row.type = type

IsDuplicate(row, s, type) == row.status = "ACTIVE" /\ row.subject = s /\ row.type = type

\* u grants s an authorization that starts now or later and ends later or never.
Grant(u, a) ==
  /\ MayAuthorize(u)
  /\ authorization[a].status = "FREE"
  /\ \E s \in User \cup active, type \in {"MANAGER", "PUBLISHER"},
        starts \in 0 .. Horizon, ends \in (1 .. Horizon) \cup {Never} :
       /\ ends = Never \/ ends > starts
       /\ \A x \in Rows : ~ IsDuplicate(Expired[x], s, type)
       /\ authorization' = [Expired EXCEPT ![a] =
            [status |-> "ACTIVE", type |-> type, subject |-> s, starts |-> starts, ends |-> ends]]
  /\ UNCHANGED <<area, location, seen, listing, member, active>>

\* Mistaken variant: the type is not asked for.
RevokeAny(u, a) ==
  /\ MayAuthorize(u)
  /\ Expired[a].status = "ACTIVE"
  /\ authorization' = [Expired EXCEPT ![a].status = "REVOKED"]
  /\ UNCHANGED <<area, location, seen, listing, member, active>>

Revoke(u, a) ==
  /\ MayAuthorize(u)
  /\ Expired[a].status = "ACTIVE"
  /\ authorization[a].type # "OWNER"
  /\ authorization' = [Expired EXCEPT ![a].status = "REVOKED"]
  /\ UNCHANGED <<area, location, seen, listing, member, active>>

\* A patch is a function on the fields that the request names.
Field(row, patch, f) == IF f \in DOMAIN patch THEN patch[f] ELSE row[f]

PatchesOf(fields, rows) ==
  {[f \in F |-> r[f]] : F \in (SUBSET fields) \ {{}}, r \in rows}

AreaPatches == PatchesOf({"built", "usable"}, AreaRow)
TermsPatches == PatchesOf({"transaction", "mode", "from", "until"}, Terms)

PatchedArea(patch) ==
  [built |-> Field(area, patch, "built"), usable |-> Field(area, patch, "usable")]

\* Mistaken variant: validatePropertyPatch looks at the request only.
AreaFitsAlone(patch) == DOMAIN patch = {"built", "usable"} => AreaInOrder(patch)

\* validatePropertyPatch
AreaFits(patch) == AreaInOrder(PatchedArea(patch))

UpdateProperty(u) ==
  /\ MayEdit(u)
  /\ \E patch \in AreaPatches :
       /\ AreaFits(patch)
       /\ area' = PatchedArea(patch)
  /\ authorization' = Expired
  /\ UNCHANGED <<location, seen, listing, member, active>>

ReadLocation(u) ==
  /\ MayEdit(u)
  /\ seen' = [seen EXCEPT ![u] = location]
  /\ UNCHANGED <<authorization, area, location, listing, member, active>>

\* Mistaken variant: the version stays.
SetLocationSilently(u) ==
  /\ MayEdit(u)
  /\ location.version = seen[u].version
  /\ \E place \in Location : location' = [location EXCEPT !.place = place]
  /\ seen' = [seen EXCEPT ![u] = location']
  /\ authorization' = Expired
  /\ UNCHANGED <<area, listing, member, active>>

\* The client expects the version it saw, and is answered with the new one.
SetLocation(u) ==
  /\ MayEdit(u)
  /\ location.version = seen[u].version
  /\ location.version < MaxVersion
  /\ \E place \in Location : location' = [place |-> place, version |-> location.version + 1]
  /\ seen' = [seen EXCEPT ![u] = location']
  /\ authorization' = Expired
  /\ UNCHANGED <<area, listing, member, active>>

-----------------------------------------------------------------------------
(* Draft listings *)

\* Under the name of u, or of an organization whose responsible member u is.
CreateListing(u, l) ==
  /\ listing[l] = FreeListing
  /\ \E s \in Subject, terms \in Terms :
       /\ MayPublish(u, s)
       /\ TermsAgree(terms)
       /\ listing' = [listing EXCEPT ![l] = [publisher |-> s, responsible |-> u, terms |-> terms]]
  /\ authorization' = Expired
  /\ UNCHANGED <<area, location, seen, member, active>>

PatchedTerms(t, patch) ==
  [transaction |-> Field(t, patch, "transaction"), mode |-> Field(t, patch, "mode"),
   from |-> Field(t, patch, "from"), until |-> Field(t, patch, "until")]

UpdateListing(u, l) ==
  /\ listing[l] # FreeListing
  /\ MayEditListings(u)
  /\ \E patch \in TermsPatches :
       /\ TermsAgree(PatchedTerms(listing[l].terms, patch))
       /\ listing' = [listing EXCEPT ![l].terms = PatchedTerms(@, patch)]
  /\ authorization' = Expired
  /\ UNCHANGED <<area, location, seen, member, active>>

-----------------------------------------------------------------------------
(* The environment: members, organizations and the clock *)

SetMember(u, g) ==
  /\ member' = IF <<u, g>> \in member THEN member \ {<<u, g>>} ELSE member \cup {<<u, g>>}
  /\ UNCHANGED <<authorization, area, location, seen, listing, active>>

SetOrganization(g) ==
  /\ active' = IF g \in active THEN active \ {g} ELSE active \cup {g}
  /\ UNCHANGED <<authorization, area, location, seen, listing, member>>

OneLess(n) == IF n \in {0, Never} THEN n ELSE n - 1

Tick ==
  /\ authorization' = [a \in AuthorizationId |->
       IF a \in Rows
         THEN [authorization[a] EXCEPT !.starts = OneLess(@), !.ends = OneLess(@)]
         ELSE authorization[a]]
  /\ UNCHANGED <<area, location, seen, listing, member, active>>

Next ==
  \/ \E u \in User, a \in AuthorizationId :
       \/ CreateProperty(u, a)
       \/ Revoke(u, a)
       \/ Grant(u, a)
  \/ \E u \in User :
       \/ UpdateProperty(u)
       \/ ReadLocation(u)
       \/ SetLocation(u)
  \/ \E u \in User, l \in ListingId :
       \/ CreateListing(u, l)
       \/ UpdateListing(u, l)
  \/ \E u \in User, g \in Organization : SetMember(u, g)
  \/ \E g \in Organization : SetOrganization(g)
  \/ Tick

Spec == Init /\ [][Next]_vars

-----------------------------------------------------------------------------
(* Properties *)

\* A property always has a person who may authorize others: no revocation, and
\* no time that passes, takes the last owner away (revokeAuthorization,
\* expireAuthorizations).
OwnerRemains == Exists => \E u \in User : MayAuthorize(u)

\* A subject has at most one active authorization of a type, scheduled ones
\* included, so the unique indexes property_authorization_active_*_uq never
\* abort a grant that the code has let pass.
OneActiveGrant ==
  \A a, b \in Rows :
    /\ authorization[a].status = "ACTIVE" /\ authorization[b].status = "ACTIVE"
    /\ authorization[a].subject = authorization[b].subject
    /\ authorization[a].type = authorization[b].type
    => a = b

\* An authorization ends once: none that was revoked is recorded as run out, or
\* the other way round, and none runs out before its time (expireAuthorizations,
\* revokeAuthorization).
AuthorizationsEndOnce ==
  [][\A a \in Rows :
       LET was == authorization[a] is == authorization'[a] IN
       /\ was.status # "ACTIVE" => is.status = was.status
       /\ was.status = "ACTIVE" /\ is.status = "EXPIRED" => IsOver(was)
       /\ is.subject = was.subject /\ is.type = was.type]_vars

\* Whoever publishes a listing was authorized by name, not through someone else.
PublishersWereAuthorized ==
  \A l \in ListingId : listing[l] # FreeListing =>
    \E a \in Rows : authorization[a].subject = listing[l].publisher

\* A version names one location: who sends the present version has seen what he
\* replaces, so no change of the location is lost.
VersionsNameLocations ==
  \A u \in User : seen[u].version <= location.version
                  /\ (seen[u].version = location.version => seen[u] = location)

-----------------------------------------------------------------------------
(* The abstract authority *)

Owners == {authorization[a].subject : a \in {x \in Rows : authorization[x].type = "OWNER"}}

\* Grants as the abstract specification sees them: one that is overdue is none,
\* whether or not a command has recorded it.
Stands(a) ==
  authorization[a].status = "ACTIVE" /\ ~ IsOver(authorization[a]) /\ authorization[a].type # "OWNER"

GrantOf(a) == [subject |-> authorization[a].subject, type |-> authorization[a].type,
               endless |-> authorization[a].ends = Never]

Granted == {GrantOf(a) : a \in {x \in AuthorizationId : Stands(x)}}

Effective ==
  {GrantOf(a) : a \in {x \in AuthorizationId : Stands(x) /\ authorization[x].starts = 0}}

Abstract == INSTANCE Authority WITH
  owners <- Owners,
  granted <- Granted,
  effective <- Effective,
  publisher <- [l \in ListingId |-> listing[l].publisher],
  names <- [u \in User |-> ActsFor(u)]

\* Rows whose time is over and that nobody has expired yet, grants for later and
\* commands that record the expiry of others implement the abstract authority: only
\* the creator grants and withdraws, none twice, and the names under which listings
\* are published are authorized at that moment.
ImplementsAuthority == Abstract!Spec
=============================================================================
