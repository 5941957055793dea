------------------------------- MODULE Accounts -------------------------------
(***************************************************************************)
(* The accounts of the server: what startup makes of them (db.py,          *)
(* auth/seed.py), who signs in (api/routes_auth.py), and who may create,   *)
(* change and delete whom (api/routes_users.py, routes_organizations.py,   *)
(* auth/deps.py).                                                          *)
(*                                                                         *)
(* Changing a role and deleting a user are two steps, for the requests are *)
(* served by a pool of threads: first everything the handler reads and     *)
(* checks, later its write and commit.  The other requests are one step:   *)
(* a unique constraint makes sure of what they check.                      *)
(***************************************************************************)
EXTENDS Naturals, FiniteSets

CONSTANTS
    Users,         \* ids of users rows
    Names,         \* user names
    SuperName,     \* TRIDENTYOT_SUPER_ADMIN_USERNAME, or None
    AdminName,     \* TRIDENTYOT_DEFAULT_ADMIN_USERNAME
    None,          \* SQL NULL, unset
    MaxOrgs,       \* bound: organizations
    MaxStarts,     \* bound: startups
    MaxConcurrent  \* bound: requests between check and commit

ASSUME AccountsAssumption ==
    /\ SuperName \in Names \cup {None}
    /\ AdminName \in Names
    /\ None \notin Names
    /\ None \notin Nat
    /\ MaxOrgs \in Nat \ {0}
    /\ MaxStarts \in Nat
    /\ MaxConcurrent \in Nat

VARIABLES
    users,     \* the users rows
    orgs,      \* the organizations: 1 .. orgs, in the order of their ids
    signedIn,  \* the users that have auth_tokens rows
    requests,  \* checked and not yet committed
    up,        \* is the server running?
    starts,    \* history
    calm       \* history: have no two requests been between check and commit?

vars == <<users, orgs, signedIn, requests, up, starts, calm>>

Org == 1 .. MaxOrgs

\* "unused" and "deleted" are not roles, but no row.
User == [org : Org \cup {None}, name : Names \cup {None},
         role : {"unused", "deleted", "super_admin", "admin", "viewer"}]

\* `scope` is the organization the requester was held to, None for a super admin.
Request == [what : {"update", "delete"}, target : Users,
            role : {"admin", "viewer"}, scope : Org \cup {None}]

TypeOK ==
    /\ users \in [Users -> User]
    /\ orgs \in 0 .. MaxOrgs
    /\ signedIn \subseteq Users
    /\ requests \subseteq Request
    /\ up \in BOOLEAN
    /\ starts \in 0 .. MaxStarts
    /\ calm \in BOOLEAN

Init ==
    /\ users = [u \in Users |-> [org |-> None, name |-> None, role |-> "unused"]]
    /\ orgs = 0
    /\ signedIn = {}
    /\ requests = {}
    /\ up = FALSE
    /\ starts = 0
    /\ calm = TRUE

Alive(rows) == {u \in Users : rows[u].role \notin {"unused", "deleted"}}

IsSuperAdmin(u) == users[u].role = "super_admin"

-----------------------------------------------------------------------------
\* Startup: lifespan.

\* _ensure_default_organization_and_backfill: every user without an
\* organization gets the first one, should there be one.
Backfill(first) ==
    [u \in Users |-> IF u \in Alive(users) /\ users[u].org = None /\ first # None
                     THEN [users[u] EXCEPT !.org = first] ELSE users[u]]

\* Mutant: the default organization is made whatever there is.
OrgsMadeAgain == orgs + 1

\* The default organization is made if there is none, and there are rows to put
\* in it or no super admin to make the first one.
OrgsMade ==
    IF \/ orgs > 0
       \/ SuperName # None /\ \A u \in Alive(users) : users[u].org # None
    THEN orgs ELSE 1

First == IF OrgsMade = 0 THEN None ELSE 1

\* uq_user_org_username
Clash(rows) ==
    \E u, v \in Alive(rows) :
        /\ u # v
        /\ rows[u].org = rows[v].org /\ rows[u].org # None
        /\ rows[u].name = rows[v].name

\* seed_default_super_admin, and seed_default_admin if still nobody is there.
Seed(rows, seeded) ==
    LET add(id, row) == [rows EXCEPT ![id] = row]
        unused == Users \ {u \in Users : rows[u].role # "unused"}
    IN  IF SuperName # None /\ \A u \in Alive(rows) : rows[u].role # "super_admin"
        THEN \E id \in unused :
                seeded = add(id, [org |-> None, name |-> SuperName, role |-> "super_admin"])
        ELSE IF Alive(rows) = {}
        THEN \E id \in unused :
                seeded = add(id, [org |-> 1, name |-> AdminName, role |-> "admin"])
        ELSE seeded = rows

Start ==
    /\ ~up
    /\ starts < MaxStarts
    /\ ~Clash(Backfill(First))
    /\ Seed(Backfill(First), users')
    /\ orgs' = OrgsMade
    /\ up' = TRUE
    /\ starts' = starts + 1
    /\ UNCHANGED <<signedIn, requests, calm>>

Stop ==
    /\ up
    /\ up' = FALSE
    /\ requests' = {}
    /\ UNCHANGED <<users, orgs, signedIn, starts, calm>>

-----------------------------------------------------------------------------
\* login, and a token that is given back or expires.

\* A name that two users have makes one_or_none() raise.
CanSignIn(u) == \A v \in Alive(users) : users[v].name = users[u].name => v = u

SignIn(u) ==
    /\ up
    /\ u \in Alive(users)
    /\ CanSignIn(u)
    /\ signedIn' = signedIn \cup {u}
    /\ UNCHANGED <<users, orgs, requests, up, starts, calm>>

SignOut(u) ==
    /\ u \in signedIn
    /\ up
    /\ signedIn' = signedIn \ {u}
    /\ UNCHANGED <<users, orgs, requests, up, starts, calm>>

-----------------------------------------------------------------------------
\* Requests of administrators.

\* get_current_user and require_admin.
Authorized(by) ==
    /\ up
    /\ by \in signedIn \cap Alive(users)
    /\ users[by].role \in {"admin", "super_admin"}

Insert(org, name, role) ==
    /\ \A u \in Alive(users) : users[u].org = org => users[u].name # name
    /\ \E id \in Users :
          /\ users[id].role = "unused"
          /\ users' = [users EXCEPT ![id] = [org |-> org, name |-> name, role |-> role]]

\* create_user: `org` is the payload's organization_id, which only counts if
\* the requester has none.
CreateUser(by, org, name, role) ==
    /\ Authorized(by)
    /\ role = "super_admin" => IsSuperAdmin(by)
    /\ role # "super_admin" /\ users[by].org = None => org \in 1 .. orgs
    /\ Insert(IF role = "super_admin" THEN None
              ELSE IF users[by].org = None THEN org ELSE users[by].org,
              name, role)
    /\ UNCHANGED <<orgs, signedIn, requests, up, starts, calm>>

CreateOrganization(by, name) ==
    /\ Authorized(by)
    /\ IsSuperAdmin(by)
    /\ orgs < MaxOrgs
    /\ orgs' = orgs + 1
    /\ Insert(orgs + 1, name, "admin")
    /\ UNCHANGED <<signedIn, requests, up, starts, calm>>

\* Mutant: users are looked up by their id alone.
ManagesAll(by, user) == Authorized(by) /\ user \in Alive(users)

\* _get_managed_user
Manages(by, user) ==
    /\ Authorized(by)
    /\ user \in Alive(users)
    /\ IsSuperAdmin(by) \/ users[user].org = users[by].org

\* Mutant: the user is not left out of the count.
RemainingAdminsAll(user) ==
    {u \in Alive(users) : users[u].org = users[user].org /\ users[u].role = "admin"}

RemainingAdmins(user) ==
    {u \in Alive(users) \ {user} :
        users[u].org = users[user].org /\ users[u].role = "admin"}

RemainingSuperAdmins(user) ==
    {u \in Alive(users) \ {user} : users[u].org = None /\ IsSuperAdmin(u)}

Ask(by, what, user, role) ==
    /\ Cardinality(requests) < MaxConcurrent
    /\ requests' = requests \cup
          {[what |-> what, target |-> user, role |-> role,
            scope |-> IF IsSuperAdmin(by) THEN None ELSE users[by].org]}
    /\ calm' = (calm /\ requests = {})
    /\ UNCHANGED <<users, orgs, signedIn, up, starts>>

CheckUpdate(by, user, role) ==
    /\ Manages(by, user)
    /\ role # users[user].role
    /\ users[user].role = "admin" => RemainingAdmins(user) # {}
    /\ ~IsSuperAdmin(user)
    /\ Ask(by, "update", user, role)

\* Mutant: super admins are not counted.
CheckDeleteOfAnybody(by, user) ==
    /\ Manages(by, user)
    /\ user # by
    /\ users[user].role = "admin" => RemainingAdmins(user) # {}
    /\ Ask(by, "delete", user, "viewer")

CheckDelete(by, user) ==
    /\ Manages(by, user)
    /\ user # by
    /\ users[user].role = "admin" => RemainingAdmins(user) # {}
    /\ IsSuperAdmin(user) => RemainingSuperAdmins(user) # {}
    /\ Ask(by, "delete", user, "viewer")

Answered(r) ==
    /\ up
    /\ r \in requests
    /\ requests' = requests \ {r}
    /\ UNCHANGED <<orgs, up, starts, calm>>

\* An UPDATE of a row that is gone fails.
CommitUpdate(r) ==
    /\ Answered(r)
    /\ r.what = "update"
    /\ users' = IF r.target \in Alive(users) THEN [users EXCEPT ![r.target].role = r.role]
                ELSE users
    /\ UNCHANGED signedIn

\* Mutant: no cascade to the tokens.
CommitDeleteOnly(r) ==
    /\ Answered(r)
    /\ r.what = "delete"
    /\ users' = [users EXCEPT ![r.target].role = "deleted"]
    /\ UNCHANGED signedIn

CommitDelete(r) ==
    /\ Answered(r)
    /\ r.what = "delete"
    /\ users' = [users EXCEPT ![r.target].role = "deleted"]
    /\ signedIn' = signedIn \ {r.target}

-----------------------------------------------------------------------------
Next ==
    \/ Start
    \/ Stop
    \/ \E u \in Users : SignIn(u) \/ SignOut(u)
    \/ \E by \in Users, name \in Names :
          \/ \E org \in Org, role \in {"super_admin", "admin", "viewer"} :
                CreateUser(by, org, name, role)
          \/ CreateOrganization(by, name)
    \/ \E by, user \in Users :
          \/ \E role \in {"admin", "viewer"} : CheckUpdate(by, user, role)
          \/ CheckDelete(by, user)
    \/ \E r \in requests : CommitUpdate(r) \/ CommitDelete(r)

Spec == Init /\ [][Next]_vars

-----------------------------------------------------------------------------
(***************************************************************************)
(* Properties.                                                             *)
(***************************************************************************)

\* models.py:426: a user without an organization is a super admin, whoever
\* creates, changes and deletes whom at the same time: nobody is an
\* administrator of the rows that have no organization.
OrglessAreSuper ==
    \A u \in Alive(users) : users[u].org = None => IsSuperAdmin(u)

\* A user's organization is one that exists.
OrgsExist == \A u \in Alive(users) : users[u].org \in (1 .. orgs) \cup {None}

\* Who signs in is somebody: tokens go with their user.
NoOrphanTokens == signedIn \subseteq Alive(users)

\* Every reference of a user's row holds, and its NULLs are meant.
RowsAreSound == OrglessAreSuper /\ OrgsExist /\ NoOrphanTokens

\* README.md:119-121: what an administrator has checked and is about to
\* write is a row of their own organization, whatever happens meanwhile.
TenantsApart ==
    \A r \in requests :
        r.scope # None /\ r.target \in Alive(users) => users[r.target].org = r.scope

\* routes_users.py:124, 155 and i18n/__init__.py:90, 98: no request takes an
\* organization's last administrator away, unless two have been checked before
\* either was carried out.  Not every organization has one: a restart before the
\* first is made makes the default one, for the super admin (db.py:138-151), and
\* no administrator in it.
Administrators(o) == {u \in Alive(users) : users[u].org = o /\ users[u].role = "admin"}

LastAdminStays ==
    [][calm' => \A o \in Org : Administrators(o) # {} => Administrators(o)' # {}]_vars

\* routes_users.py:157 and i18n/__init__.py:106: a platform that has a super
\* admin keeps one, restarts included, with the same proviso.
ASuperAdminRemains ==
    calm /\ up /\ SuperName # None => \E u \in Alive(users) : IsSuperAdmin(u)

-----------------------------------------------------------------------------
(***************************************************************************)
(* What the project says of accounts, and the code does not do.            *)
(***************************************************************************)

\* README.md:106-107 and auth/__init__.py:1: a super admin has "no
\* organization of its own".
SuperAdminsHaveNoOrganization ==
    \A u \in Alive(users) : IsSuperAdmin(u) => users[u].org = None

\* models.py:406-408: users of two organizations "can each pick "admin" as a
\* username without colliding": whoever has an account can sign in.
EveryoneCanSignIn == up => \A u \in Alive(users) : CanSignIn(u)

\* db.py:117-118: the backfill at startup is "a no-op once nothing is left to
\* backfill": a server that has been up can start again.
ServerStarts == ~up => ~Clash(Backfill(First))

\* README.md:108-109: "Ninguna API puede crear un Super Admin": there is none
\* but the one of the first startup.
SuperAdminsAreSeeded == Cardinality({u \in Alive(users) : IsSuperAdmin(u)}) <= 1
=============================================================================
