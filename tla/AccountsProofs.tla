---------------------------- MODULE AccountsProofs ----------------------------
(***************************************************************************)
(* What TLAPS proves of Accounts, for any number of users, organizations,  *)
(* startups and concurrent requests.                                       *)
(*                                                                         *)
(* TenantsApart and OrglessAreSuper are not inductive: a request that has  *)
(* been checked is carried out later, on whatever its target is by then.   *)
(* RequestsHold says what is still true of the target at that time: its    *)
(* row was there, and super admins are never up for another role.          *)
(* ASuperAdminRemains and LastAdminStays need what has been counted at the *)
(* check to hold until the commit: CalmHolds says it does while requests   *)
(* come one at a time.                                                     *)
(***************************************************************************)
EXTENDS Accounts, TLAPS

RequestsHold ==
    /\ ~up => requests = {}
    /\ \A r \in requests :
          /\ users[r.target].role # "unused"
          /\ r.what = "update" => users[r.target].role # "super_admin"

Coherent ==
    /\ TypeOK
    /\ OrglessAreSuper
    /\ OrgsExist
    /\ NoOrphanTokens
    /\ RequestsHold
    /\ TenantsApart

-----------------------------------------------------------------------------
(***************************************************************************)
(* What the operations leave of the rows.                                  *)
(***************************************************************************)

\* A startup keeps every row, but for the organization of those that have
\* none, and uses at most new ids, for users that fit.
LEMMA StartKeepsRows ==
    ASSUME TypeOK, Start
    PROVE  /\ users' \in [Users -> User]
           /\ orgs' \in 0 .. MaxOrgs
           /\ orgs <= orgs'
           /\ \A u \in Users :
                 users[u].role # "unused" =>
                    /\ users'[u].role = users[u].role
                    /\ users'[u].name = users[u].name
                    /\ users[u].org # None => users'[u].org = users[u].org
                    /\ users[u].org = None => users'[u].org \in {None} \cup 1 .. orgs'
           /\ \A u \in Alive(users') :
                 users[u].role = "unused" =>
                    \/ users'[u].role = "super_admin" /\ users'[u].org = None
                    \/ users'[u].role = "admin" /\ users'[u].org \in 1 .. orgs'
  <1> DEFINE rows == Backfill(First)
  <1>1. /\ orgs' = OrgsMade
        /\ OrgsMade \in 0 .. MaxOrgs
        /\ orgs <= OrgsMade
        /\ First \in {None} \cup 1 .. OrgsMade
    BY AccountsAssumption DEF TypeOK, Start, OrgsMade, First
  <1>2. First \in {None} \cup Org
    BY <1>1, AccountsAssumption DEF Org
  <1>3. /\ rows \in [Users -> User]
        /\ \A u \in Users :
              /\ rows[u].role = users[u].role
              /\ rows[u].name = users[u].name
              /\ users[u].role = "unused" => rows[u] = users[u]
              /\ users[u].org # None => rows[u].org = users[u].org
              /\ users[u].org = None => rows[u].org \in {None, First}
    BY <1>2 DEF TypeOK, User, Backfill, Alive
  <1>4. CASE users' = rows
    BY <1>1, <1>3, <1>4 DEF Alive
  <1>5. CASE \E id \in Users :
                /\ rows[id].role = "unused"
                /\ \/ users' = [rows EXCEPT ![id] =
                          [org |-> None, name |-> SuperName, role |-> "super_admin"]]
                   \/ /\ First # None
                      /\ users' = [rows EXCEPT ![id] =
                            [org |-> 1, name |-> AdminName, role |-> "admin"]]
    <2> PICK id \in Users :
                /\ rows[id].role = "unused"
                /\ \/ users' = [rows EXCEPT ![id] =
                          [org |-> None, name |-> SuperName, role |-> "super_admin"]]
                   \/ /\ First # None
                      /\ users' = [rows EXCEPT ![id] =
                            [org |-> 1, name |-> AdminName, role |-> "admin"]]
      BY <1>5
    <2>1. /\ [org |-> None, name |-> SuperName, role |-> "super_admin"] \in User
          /\ [org |-> 1, name |-> AdminName, role |-> "admin"] \in User
      BY AccountsAssumption DEF User, Org
    <2>2. First # None => 1 \in 1 .. OrgsMade
      BY <1>1, AccountsAssumption DEF First
    <2>3. /\ users' \in [Users -> User]
          /\ \A u \in Users : u # id => users'[u] = rows[u]
          /\ \/ users'[id] = [org |-> None, name |-> SuperName, role |-> "super_admin"]
             \/ /\ First # None
                /\ users'[id] = [org |-> 1, name |-> AdminName, role |-> "admin"]
      BY <1>3, <2>1
    <2> HIDE DEF rows
    <2> QED
      BY <1>1, <1>3, <2>2, <2>3 DEF Alive
  <1>6. Alive(rows) = {} /\ SuperName = None => First # None
    BY AccountsAssumption DEF First, OrgsMade, TypeOK
  <1>7. Seed(rows, users')
    BY DEF Start
  <1>8. SuperName # None /\ Alive(rows) = {} => \A u \in Alive(rows) : rows[u].role # "super_admin"
    OBVIOUS
  <1> HIDE DEF rows
  <1>9. users' = rows \/ \E id \in Users :
                /\ rows[id].role = "unused"
                /\ \/ users' = [rows EXCEPT ![id] =
                          [org |-> None, name |-> SuperName, role |-> "super_admin"]]
                   \/ /\ First # None
                      /\ users' = [rows EXCEPT ![id] =
                            [org |-> 1, name |-> AdminName, role |-> "admin"]]
    BY <1>6, <1>7, <1>8 DEF Seed
  <1> QED
    BY <1>4, <1>5, <1>9

-----------------------------------------------------------------------------
\* Startup keeps the invariant.
LEMMA StartKeeps ==
    ASSUME Coherent, Start
    PROVE  Coherent'
  <1> USE DEF Coherent
  <1>1. TypeOK'
    <2>1. starts + 1 \in 0 .. MaxStarts
      BY AccountsAssumption DEF TypeOK, Start
    <2> QED
      BY <2>1, StartKeepsRows DEF TypeOK, Start
  <1>2. OrglessAreSuper'
    <2> SUFFICES ASSUME NEW u \in Alive(users'), users'[u].org = None
                 PROVE  users'[u].role = "super_admin"
      BY DEF OrglessAreSuper, IsSuperAdmin, Alive
    <2> u \in Users
      BY DEF Alive
    <2>1. CASE users[u].role = "unused"
      BY <2>1, StartKeepsRows, AccountsAssumption
    <2>2. CASE users[u].role # "unused"
      BY <2>2, StartKeepsRows DEF OrglessAreSuper, IsSuperAdmin, Alive
    <2> QED
      BY <2>1, <2>2
  <1>3. OrgsExist'
    <2> SUFFICES ASSUME NEW u \in Alive(users')
                 PROVE  users'[u].org \in (1 .. orgs') \cup {None}
      BY DEF OrgsExist, Alive
    <2> u \in Users
      BY DEF Alive
    <2>1. CASE users[u].role = "unused"
      BY <2>1, StartKeepsRows
    <2>2. CASE users[u].role # "unused"
      <3>1. users[u].org \in (1 .. orgs) \cup {None}
        BY <2>2, StartKeepsRows DEF OrgsExist, Alive
      <3>2. (1 .. orgs) \subseteq (1 .. orgs')
        BY StartKeepsRows DEF TypeOK
      <3> QED
        BY <2>2, <3>1, <3>2, StartKeepsRows
    <2> QED
      BY <2>1, <2>2
  <1>4. NoOrphanTokens'
    BY StartKeepsRows DEF NoOrphanTokens, Alive, Start
  <1>5. requests' = {}
    BY DEF RequestsHold, Start
  <1>6. RequestsHold' /\ TenantsApart'
    BY <1>5 DEF RequestsHold, TenantsApart
  <1> QED
    BY <1>1, <1>2, <1>3, <1>4, <1>6

-----------------------------------------------------------------------------
\* A new user keeps the invariant, if it fits in: no request is about it yet.
LEMMA InsertKeeps ==
    ASSUME Coherent, NEW org \in Org \cup {None}, NEW name \in Names,
           NEW role \in {"super_admin", "admin", "viewer"}, Insert(org, name, role),
           org = None => role = "super_admin",
           orgs' \in 0 .. MaxOrgs, orgs <= orgs', org # None => org <= orgs',
           UNCHANGED <<signedIn, requests, up, starts, calm>>
    PROVE  Coherent'
  <1> USE DEF Coherent
  <1>1. PICK inserted \in Users :
           /\ users[inserted].role = "unused"
           /\ users' \in [Users -> User]
           /\ \A u \in Users : u # inserted => users'[u] = users[u]
           /\ users'[inserted] = [org |-> org, name |-> name, role |-> role]
    <2>1. [org |-> org, name |-> name, role |-> role] \in User
      BY DEF User
    <2> QED
      BY <2>1 DEF Insert, TypeOK
  <1>2. TypeOK'
    BY <1>1 DEF TypeOK
  <1>3. OrglessAreSuper'
    BY <1>1 DEF OrglessAreSuper, IsSuperAdmin, Alive
  <1>4. OrgsExist'
    <2>1. (1 .. orgs) \subseteq (1 .. orgs')
      BY DEF TypeOK
    <2>2. org \in (1 .. orgs') \cup {None}
      BY DEF Org, TypeOK
    <2> QED
      BY <1>1, <2>1, <2>2 DEF OrgsExist, Alive
  <1>5. NoOrphanTokens'
    BY <1>1 DEF NoOrphanTokens, Alive
  <1>6. \A r \in requests : users'[r.target] = users[r.target]
    BY <1>1 DEF RequestsHold, TypeOK, Request
  <1>7. RequestsHold' /\ TenantsApart'
    BY <1>6 DEF RequestsHold, TenantsApart, Alive, TypeOK, Request
  <1> QED
    BY <1>2, <1>3, <1>4, <1>5, <1>7

-----------------------------------------------------------------------------
\* What is checked is about a user the requester may manage.
LEMMA AskKeeps ==
    ASSUME Coherent, NEW by \in Users, NEW user \in Users,
           NEW what \in {"update", "delete"}, NEW role \in {"admin", "viewer"},
           Manages(by, user), what = "update" => ~IsSuperAdmin(user),
           Ask(by, what, user, role)
    PROVE  Coherent'
  <1> USE DEF Coherent
  <1> DEFINE asked == [what |-> what, target |-> user, role |-> role,
                       scope |-> IF IsSuperAdmin(by) THEN None ELSE users[by].org]
  <1>1. asked \in Request
    BY DEF TypeOK, User, Request
  <1>2. /\ users[user].role # "unused"
        /\ asked.what = "update" => users[user].role # "super_admin"
        /\ asked.scope # None => users[user].org = asked.scope
    BY DEF Manages, Alive, IsSuperAdmin
  <1>3. up
    BY DEF Manages, Authorized
  <1>4. /\ requests' = requests \cup {asked}
        /\ asked.target = user
        /\ UNCHANGED <<users, orgs, signedIn, up, starts>>
        /\ calm' \in BOOLEAN
    BY DEF Ask, TypeOK
  <1> HIDE DEF asked
  <1>5. TypeOK' /\ OrglessAreSuper' /\ OrgsExist' /\ NoOrphanTokens'
    BY <1>1, <1>4 DEF TypeOK, OrglessAreSuper, OrgsExist, NoOrphanTokens, Alive, IsSuperAdmin
  <1>6. RequestsHold'
    BY <1>2, <1>3, <1>4 DEF RequestsHold
  <1>7. TenantsApart'
    BY <1>2, <1>4 DEF TenantsApart, Alive
  <1> QED
    BY <1>5, <1>6, <1>7

-----------------------------------------------------------------------------
\* A checked change is carried out on what its target has become meanwhile.
LEMMA CommitKeeps ==
    ASSUME Coherent, NEW r \in requests, CommitUpdate(r) \/ CommitDelete(r)
    PROVE  Coherent'
  <1> USE DEF Coherent
  <1>1. /\ r \in Request
        /\ r.target \in Users
        /\ r.role \in {"admin", "viewer"}
    BY DEF TypeOK, Request
  <1>2. /\ users' \in [Users -> User]
        /\ \A u \in Users : u # r.target => users'[u] = users[u]
        /\ users'[r.target].org = users[r.target].org
        /\ users[r.target].role # "unused" => users'[r.target].role # "unused"
        /\ \/ users'[r.target].role = users[r.target].role
           \/ users'[r.target].role = "deleted"
           \/ /\ users[r.target].role \notin {"deleted", "super_admin"}
              /\ users'[r.target].role \in {"admin", "viewer"}
    BY <1>1 DEF TypeOK, User, CommitUpdate, CommitDelete, Alive, RequestsHold
  <1>3. users[r.target].role # "unused"
    BY DEF RequestsHold
  <1>4. UNCHANGED <<orgs, up, starts, calm>> /\ requests' \subseteq requests /\ up
    BY DEF CommitUpdate, CommitDelete, Answered
  <1>5. signedIn' \subseteq signedIn
    BY DEF CommitUpdate, CommitDelete
  <1>6. TypeOK'
    BY <1>2, <1>4, <1>5 DEF TypeOK
  <1>7. OrglessAreSuper' /\ OrgsExist'
    BY <1>1, <1>2, <1>3, <1>4 DEF OrglessAreSuper, OrgsExist, IsSuperAdmin, Alive
  <1>8. NoOrphanTokens'
    <2>1. CASE CommitUpdate(r)
      <3>1. Alive(users') = Alive(users)
        BY <1>1, <2>1 DEF CommitUpdate, Alive, TypeOK
      <3> QED
        BY <2>1, <3>1 DEF NoOrphanTokens, CommitUpdate
    <2>2. CASE CommitDelete(r)
      BY <1>2, <2>2 DEF NoOrphanTokens, Alive, CommitDelete
    <2> QED
      BY <2>1, <2>2
  <1>9. \A s \in requests :
           /\ s.target \in Users
           /\ users'[s.target].role # "unused"
           /\ users[s.target].role # "super_admin" => users'[s.target].role # "super_admin"
           /\ s.target \in Alive(users') => s.target \in Alive(users)
           /\ users'[s.target].org = users[s.target].org
    BY <1>1, <1>2, <1>3 DEF RequestsHold, TypeOK, Request, Alive
  <1>10. RequestsHold' /\ TenantsApart'
    BY <1>4, <1>9 DEF RequestsHold, TenantsApart
  <1> QED
    BY <1>6, <1>7, <1>8, <1>10

-----------------------------------------------------------------------------
LEMMA InitiallyCoherent == Init => Coherent
  <1> SUFFICES ASSUME Init
               PROVE  Coherent
    OBVIOUS
  <1>1. [org |-> None, name |-> None, role |-> "unused"] \in User
    BY DEF User
  <1> DEFINE unused == [org |-> None, name |-> None, role |-> "unused"]
  <1>2. TypeOK
    <2>1. users = [u \in Users |-> unused] /\ unused \in User
      BY <1>1 DEF Init
    <2> HIDE DEF unused
    <2>2. users \in [Users -> User]
      BY <2>1
    <2>3. 0 \in 0 .. MaxOrgs /\ 0 \in 0 .. MaxStarts
      BY AccountsAssumption
    <2> QED
      BY <2>2, <2>3 DEF Init, TypeOK
  <1>3. Alive(users) = {}
    BY DEF Init, Alive
  <1> QED
    BY <1>2, <1>3 DEF Init, Coherent, OrglessAreSuper, OrgsExist, NoOrphanTokens,
       RequestsHold, TenantsApart

LEMMA StaysCoherent == Coherent /\ [Next]_vars => Coherent'
  <1> SUFFICES ASSUME Coherent, [Next]_vars
               PROVE  Coherent'
    OBVIOUS
  <1>1. CASE Start
    BY <1>1, StartKeeps
  <1>2. CASE Stop
    BY <1>2 DEF Stop, Coherent, TypeOK, OrglessAreSuper, OrgsExist, NoOrphanTokens,
       RequestsHold, TenantsApart, IsSuperAdmin
  <1>3. ASSUME NEW u \in Users, SignIn(u) \/ SignOut(u)
        PROVE  Coherent'
    BY <1>3 DEF SignIn, SignOut, Coherent, TypeOK, OrglessAreSuper, OrgsExist,
       NoOrphanTokens, RequestsHold, TenantsApart, IsSuperAdmin
  <1>4. ASSUME NEW by \in Users, NEW name \in Names, NEW org \in Org,
               NEW role \in {"super_admin", "admin", "viewer"},
               CreateUser(by, org, name, role)
        PROVE  Coherent'
    <2> DEFINE where == IF role = "super_admin" THEN None
                        ELSE IF users[by].org = None THEN org ELSE users[by].org
    <2>1. by \in Alive(users)
      BY <1>4 DEF CreateUser, Authorized
    <2>2. /\ where \in Org \cup {None}
          /\ where = None => role = "super_admin"
          /\ where # None => where <= orgs
      BY <1>4, <2>1, AccountsAssumption DEF CreateUser, Coherent, TypeOK, User, Org, OrgsExist
    <2>3. /\ Insert(where, name, role)
          /\ UNCHANGED <<orgs, signedIn, requests, up, starts, calm>>
      BY <1>4 DEF CreateUser
    <2>4. orgs' \in 0 .. MaxOrgs /\ orgs <= orgs'
      BY <2>3 DEF Coherent, TypeOK
    <2> HIDE DEF where
    <2> QED
      BY <2>2, <2>3, <2>4, InsertKeeps
  <1>5. ASSUME NEW by \in Users, NEW name \in Names, CreateOrganization(by, name)
        PROVE  Coherent'
    <2>1. /\ orgs' = orgs + 1
          /\ orgs + 1 \in Org
          /\ orgs' \in 0 .. MaxOrgs
          /\ orgs <= orgs'
          /\ orgs + 1 # None
      BY <1>5, AccountsAssumption DEF CreateOrganization, Coherent, TypeOK, Org
    <2>2. Insert(orgs + 1, name, "admin") /\ UNCHANGED <<signedIn, requests, up, starts, calm>>
      BY <1>5 DEF CreateOrganization
    <2>3. orgs + 1 <= orgs'
      BY <2>1
    <2> QED
      BY <2>1, <2>2, <2>3, InsertKeeps
  <1>6. ASSUME NEW by \in Users, NEW user \in Users, NEW role \in {"admin", "viewer"},
               CheckUpdate(by, user, role)
        PROVE  Coherent'
    BY <1>6, AskKeeps DEF CheckUpdate
  <1>7. ASSUME NEW by \in Users, NEW user \in Users, CheckDelete(by, user)
        PROVE  Coherent'
    BY <1>7, AskKeeps DEF CheckDelete
  <1>8. ASSUME NEW r \in requests, CommitUpdate(r) \/ CommitDelete(r)
        PROVE  Coherent'
    BY <1>8, CommitKeeps
  <1>9. CASE UNCHANGED vars
    BY <1>9 DEF vars, Coherent, TypeOK, OrglessAreSuper, OrgsExist, NoOrphanTokens,
       RequestsHold, TenantsApart, IsSuperAdmin
  <1> QED
    BY <1>1, <1>2, <1>3, <1>4, <1>5, <1>6, <1>7, <1>8, <1>9 DEF Next

-----------------------------------------------------------------------------
(***************************************************************************)
(* What has been counted still holds, while requests come one at a time.   *)
(***************************************************************************)

SuperAdmins == {u \in Alive(users) : IsSuperAdmin(u)}

CalmHolds ==
    calm =>
        /\ \A r, s \in requests : r = s
        /\ \A r \in requests :
              /\ users[r.target].role = "admin" => RemainingAdmins(r.target) # {}
              /\ IsSuperAdmin(r.target) => SuperAdmins \ {r.target} # {}
        /\ up /\ SuperName # None => SuperAdmins # {}

IInv == Coherent /\ CalmHolds

\* A startup finds or makes a super admin, if it has a name for one.
LEMMA StartSeeds ==
    ASSUME TypeOK, Start, SuperName # None
    PROVE  SuperAdmins' # {}
  <1> DEFINE rows == Backfill(First)
  <1>1. rows \in [Users -> User]
    <2>1. First \in {None} \cup Org
      BY AccountsAssumption DEF TypeOK, OrgsMade, First, Org
    <2> QED
      BY <2>1 DEF TypeOK, User, Backfill, Alive
  <1>2. Seed(rows, users')
    BY DEF Start
  <1> HIDE DEF rows
  <1>3. CASE \A u \in Alive(rows) : rows[u].role # "super_admin"
    <2>1. PICK id \in Users :
             users' = [rows EXCEPT ![id] =
                         [org |-> None, name |-> SuperName, role |-> "super_admin"]]
      BY <1>2, <1>3 DEF Seed
    <2>2. users'[id].role = "super_admin"
      BY <1>1, <2>1
    <2> QED
      BY <2>2 DEF SuperAdmins, Alive, IsSuperAdmin
  <1>4. CASE \E u \in Alive(rows) : rows[u].role = "super_admin"
    <2>1. users' = rows
      BY <1>2, <1>4 DEF Seed
    <2> QED
      BY <1>4, <2>1 DEF SuperAdmins, Alive, IsSuperAdmin
  <1> QED
    BY <1>3, <1>4

\* Rows that are added take nothing away.
LEMMA InsertKeepsCounts ==
    ASSUME IInv, NEW org, NEW name, NEW role, Insert(org, name, role),
           UNCHANGED <<requests, up, calm>>
    PROVE  /\ CalmHolds'
           /\ \A o \in Org : Administrators(o) \subseteq Administrators(o)'
  <1>1. PICK inserted \in Users :
           /\ users[inserted].role = "unused"
           /\ \A u \in Users : u # inserted => users'[u] = users[u]
    BY DEF Insert, IInv, Coherent, TypeOK
  <1>2. \A u \in Alive(users) : u \in Alive(users') /\ users'[u] = users[u]
    BY <1>1 DEF Alive
  <1>3. \A r \in requests : r.target \in Users /\ users'[r.target] = users[r.target]
    BY <1>1 DEF IInv, Coherent, RequestsHold, TypeOK, Request
  <1>4. SuperAdmins \subseteq SuperAdmins'
    BY <1>2 DEF SuperAdmins, IsSuperAdmin
  <1>5. \A r \in requests : RemainingAdmins(r.target) \subseteq RemainingAdmins(r.target)'
    BY <1>2, <1>3 DEF RemainingAdmins
  <1>6. CalmHolds'
    BY <1>3, <1>4, <1>5 DEF IInv, CalmHolds, IsSuperAdmin
  <1> QED
    BY <1>2, <1>6 DEF Administrators

\* Whom a request takes away is not the last, while it is the only one.
LEMMA CommitLeavesOthers ==
    ASSUME IInv, calm, NEW r \in requests, CommitUpdate(r) \/ CommitDelete(r)
    PROVE  /\ CalmHolds'
           /\ \A o \in Org : Administrators(o) # {} => Administrators(o)' # {}
  <1> USE DEF IInv, Coherent
  <1>1. r \in Request /\ r.target \in Users
    BY DEF TypeOK, Request
  <1>2. \A u \in Users : u # r.target => users'[u] = users[u]
    BY <1>1 DEF TypeOK, CommitUpdate, CommitDelete
  <1>3. /\ requests' = {}
        /\ UNCHANGED <<up, calm>>
    BY DEF CommitUpdate, CommitDelete, Answered, CalmHolds
  <1>4. \A u \in Alive(users) : u # r.target => u \in Alive(users') /\ users'[u] = users[u]
    BY <1>2 DEF Alive
  <1>5. SuperAdmins # {} => SuperAdmins' # {}
    <2>1. CASE IsSuperAdmin(r.target)
      BY <1>4, <2>1 DEF CalmHolds, SuperAdmins, IsSuperAdmin
    <2>2. CASE ~IsSuperAdmin(r.target)
      BY <1>4, <2>2 DEF SuperAdmins, IsSuperAdmin
    <2> QED
      BY <2>1, <2>2
  <1>6. CalmHolds'
    BY <1>3, <1>5 DEF CalmHolds
  <1>7. ASSUME NEW o \in Org, Administrators(o) # {}
        PROVE  Administrators(o)' # {}
    <2>1. CASE r.target \in Administrators(o)
      <3>1. PICK u \in RemainingAdmins(r.target) : TRUE
        BY <2>1 DEF CalmHolds, Administrators
      <3>2. u \in Administrators(o)'
        BY <1>4, <2>1, <3>1 DEF Administrators, RemainingAdmins
      <3> QED
        BY <3>2
    <2>2. CASE r.target \notin Administrators(o)
      BY <1>4, <1>7, <2>2 DEF Administrators
    <2> QED
      BY <2>1, <2>2
  <1> QED
    BY <1>6, <1>7

\* The count is made where the request is.
LEMMA AskCounts ==
    ASSUME IInv, NEW by \in Users, NEW user \in Users, NEW what, NEW role,
           Ask(by, what, user, role),
           users[user].role = "admin" => RemainingAdmins(user) # {},
           IsSuperAdmin(user) => RemainingSuperAdmins(user) # {}
    PROVE  CalmHolds'
  <1> USE DEF IInv
  <1> SUFFICES ASSUME calm'
               PROVE  CalmHolds'
    BY DEF CalmHolds
  <1> DEFINE asked == [what |-> what, target |-> user, role |-> role,
                       scope |-> IF IsSuperAdmin(by) THEN None ELSE users[by].org]
  <1>1. /\ calm
        /\ requests' = {asked}
        /\ asked.target = user
        /\ UNCHANGED <<users, up>>
    BY DEF Ask
  <1> HIDE DEF asked
  <1>2. RemainingSuperAdmins(user) \subseteq SuperAdmins \ {user}
    BY DEF RemainingSuperAdmins, SuperAdmins
  <1>3. /\ SuperAdmins' = SuperAdmins
        /\ RemainingAdmins(user)' = RemainingAdmins(user)
    BY <1>1 DEF SuperAdmins, RemainingAdmins, Alive, IsSuperAdmin
  <1> QED
    BY <1>1, <1>2, <1>3 DEF CalmHolds, IsSuperAdmin

\* A startup takes no administrator away.
LEMMA StartKeepsAdministrators ==
    ASSUME TypeOK, Start, NEW o \in Org
    PROVE  Administrators(o) \subseteq Administrators(o)'
  BY StartKeepsRows, AccountsAssumption DEF Administrators, Alive, Org

\* Every step keeps the counts, and an administrator where there was one.
LEMMA CountsHold ==
    ASSUME IInv, [Next]_vars
    PROVE  /\ CalmHolds'
           /\ calm' => \A o \in Org : Administrators(o) # {} => Administrators(o)' # {}
  <1> USE DEF IInv
  <1> DEFINE Kept == \A o \in Org : Administrators(o) # {} => Administrators(o)' # {}
  <1>1. CASE Start
    <2>1. requests' = {}
      BY <1>1 DEF Start, Coherent, RequestsHold
    <2>2. Kept
      BY <1>1, StartKeepsAdministrators DEF Coherent
    <2>3. CalmHolds'
      BY <1>1, <2>1, StartSeeds DEF CalmHolds, Coherent
    <2> QED
      BY <2>2, <2>3
  <1>2. CASE UNCHANGED users /\ UNCHANGED calm /\ requests' \subseteq requests /\ (up' => up)
    <2>1. /\ SuperAdmins' = SuperAdmins
          /\ \A u : RemainingAdmins(u)' = RemainingAdmins(u)
          /\ \A o : Administrators(o)' = Administrators(o)
      BY <1>2 DEF SuperAdmins, RemainingAdmins, Administrators, Alive, IsSuperAdmin
    <2> QED
      BY <1>2, <2>1 DEF CalmHolds, IsSuperAdmin
  <1>3. CASE Stop \/ \E u \in Users : SignIn(u) \/ SignOut(u)
    BY <1>2, <1>3 DEF Stop, SignIn, SignOut
  <1>4. ASSUME NEW by \in Users, NEW name \in Names, NEW org \in Org,
               NEW role \in {"super_admin", "admin", "viewer"},
               CreateUser(by, org, name, role) \/ CreateOrganization(by, name)
        PROVE  CalmHolds' /\ (calm' => Kept)
    <2>1. PICK where, what : Insert(where, name, what)
      BY <1>4 DEF CreateUser, CreateOrganization
    <2>2. UNCHANGED <<requests, up, calm>>
      BY <1>4 DEF CreateUser, CreateOrganization
    <2> QED
      BY <2>1, <2>2, InsertKeepsCounts
  <1>5. ASSUME NEW by \in Users, NEW user \in Users, NEW role \in {"admin", "viewer"},
               CheckUpdate(by, user, role) \/ CheckDelete(by, user)
        PROVE  CalmHolds' /\ (calm' => Kept)
    <2>1. PICK what, wanted : Ask(by, what, user, wanted)
      BY <1>5 DEF CheckUpdate, CheckDelete
    <2>2. /\ users[user].role = "admin" => RemainingAdmins(user) # {}
          /\ IsSuperAdmin(user) => RemainingSuperAdmins(user) # {}
      BY <1>5 DEF CheckUpdate, CheckDelete
    <2>3. Kept
      BY <2>1 DEF Ask, Administrators, Alive
    <2> QED
      BY <2>1, <2>2, <2>3, AskCounts
  <1>6. ASSUME NEW r \in requests, CommitUpdate(r) \/ CommitDelete(r)
        PROVE  CalmHolds' /\ (calm' => Kept)
    <2>1. calm' = calm
      BY <1>6 DEF CommitUpdate, CommitDelete, Answered
    <2> QED
      BY <1>6, <2>1, CommitLeavesOthers DEF CalmHolds
  <1>7. CASE UNCHANGED vars
    BY <1>2, <1>7 DEF vars
  <1>8. 1 \in Org
    BY AccountsAssumption DEF Org
  <1> HIDE DEF Kept
  <1>9. CalmHolds' /\ (calm' => Kept)
    <2>1. ASSUME NEW by \in Users, NEW name \in Names, CreateOrganization(by, name)
          PROVE  CalmHolds' /\ (calm' => Kept)
      BY <1>4, <1>8, <2>1
    <2>2. ASSUME NEW by \in Users, NEW user \in Users, CheckDelete(by, user)
          PROVE  CalmHolds' /\ (calm' => Kept)
      BY <1>5, <2>2
    <2>3. ASSUME NEW by \in Users, NEW name \in Names, NEW org \in Org,
                 NEW role \in {"super_admin", "admin", "viewer"},
                 CreateUser(by, org, name, role)
          PROVE  CalmHolds' /\ (calm' => Kept)
      BY <1>4, <2>3
    <2>4. ASSUME NEW by \in Users, NEW user \in Users, NEW role \in {"admin", "viewer"},
                 CheckUpdate(by, user, role)
          PROVE  CalmHolds' /\ (calm' => Kept)
      BY <1>5, <2>4
    <2>5. CASE Start
      BY <1>1, <2>5 DEF Kept
    <2>6. CASE Stop \/ \E u \in Users : SignIn(u) \/ SignOut(u)
      BY <1>3, <2>6 DEF Kept
    <2>7. CASE UNCHANGED vars
      BY <1>7, <2>7 DEF Kept
    <2> QED
      BY <1>6, <2>1, <2>2, <2>3, <2>4, <2>5, <2>6, <2>7 DEF Next
  <1> QED
    BY <1>9 DEF Kept

LEMMA Initially == Init => IInv
  BY InitiallyCoherent DEF Init, IInv, CalmHolds

LEMMA Inductive == IInv /\ [Next]_vars => IInv'
  BY StaysCoherent, CountsHold DEF IInv

LEMMA AlwaysHolds == Spec => []IInv
  BY Initially, Inductive, PTL DEF Spec

-----------------------------------------------------------------------------
\* Every variable keeps its type.
THEOREM TypeCorrect == Spec => []TypeOK
  BY AlwaysHolds, PTL DEF IInv, Coherent

\* Nobody but super admins is without an organization, nobody belongs to one
\* that does not exist, and tokens go with their user, however startups,
\* changes of roles, new and deleted users interleave.
THEOREM RowsStaySound == Spec => []RowsAreSound
  BY AlwaysHolds, PTL DEF IInv, Coherent, RowsAreSound

\* An administrator's request, checked at one time and carried out at
\* another, is still about a user of their organization.
THEOREM TenantsStayApart == Spec => []TenantsApart
  BY AlwaysHolds, PTL DEF IInv, Coherent

\* While requests come one at a time, a platform that names a super admin
\* has one whenever it is up.
THEOREM ASuperAdminStays == Spec => []ASuperAdminRemains
  <1>1. IInv => ASuperAdminRemains
    BY DEF IInv, CalmHolds, ASuperAdminRemains, SuperAdmins
  <1> QED
    BY <1>1, AlwaysHolds, PTL

\* While requests come one at a time, no step of any kind leaves an
\* organization that has an administrator without one.
THEOREM LastAdministratorStays == Spec => LastAdminStays
  <1>1. IInv /\ [Next]_vars =>
            [calm' => \A o \in Org : Administrators(o) # {} => Administrators(o)' # {}]_vars
    BY CountsHold
  <1> QED
    BY <1>1, AlwaysHolds, PTL DEF Spec, LastAdminStays
=============================================================================
