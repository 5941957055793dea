---------------------------- MODULE StartupProofs ----------------------------
(***************************************************************************)
(* Proofs about Startup: for any rows an older schema may have left, any   *)
(* number of organizations, sites, zones and sensors, and any number of    *)
(* starts killed anywhere.                                                 *)
(***************************************************************************)
EXTENDS Startup, TLAPS

\* The ids of what the hierarchy step makes.
LEMMA Firsts ==
    ASSUME NEW o \in Org
    PROVE  /\ FirstSite(o) \in Site /\ FirstSite(o)[1] = o
           /\ FirstZone(o) \in Zone /\ FirstZone(o)[1] = o
           /\ FirstSensor(o) \in Sensor /\ FirstSensor(o)[1] = FirstZone(o)
           /\ FirstSensor(o)[2] = 1 /\ Owner(FirstSensor(o)) = o
  BY StartupAssumption DEF Org, Site, Zone, Sensor, FirstSite, FirstZone, FirstSensor, Owner

LEMMA OrgIds ==
    ASSUME TypeOK
    PROVE  orgs \in Nat /\ 1 .. orgs \subseteq Org
  <1>1. orgs \in 0 .. MaxOrgs /\ MaxOrgs \in Nat
    BY StartupAssumption DEF TypeOK
  <1> QED
    BY <1>1 DEF Org

LEMMA SensorParts ==
    ASSUME NEW s \in Sensor
    PROVE  s[1] \in Zone /\ s[2] \in 1 .. MaxSensors /\ Owner(s) \in Org
  BY DEF Sensor, Zone, Owner

LEMMA RowTypes ==
    ASSUME TypeOK
    PROVE  /\ \A s \in SessionRows : session[s] \in Session
           /\ \A d \in DeviceRows : device[d] \in Device
           /\ \A u \in UserRows : user[u] \in User
  BY DEF TypeOK, SessionRows, DeviceRows, UserRows

-----------------------------------------------------------------------------
LEMMA TypeInductive ==
    /\ Init => TypeOK
    /\ TypeOK /\ [Next]_vars => TypeOK'
  <1>1. ASSUME Init
        PROVE  TypeOK
    <2>1. /\ phase \in Phase /\ super \in BOOLEAN /\ active \subseteq SessionRows
          /\ orgs \in 0 .. MaxOrgs /\ index \in {"mac_ip", "org_mac_ip"}
      <3>1. phase \in Phase /\ super \in BOOLEAN /\ active \subseteq SessionRows
        BY <1>1 DEF Init, Phase
      <3>2. CASE Flat
        BY <3>1, <3>2, StartupAssumption DEF Flat
      <3>3. CASE Tenants
        BY <3>1, <3>3, StartupAssumption DEF Tenants, Org
      <3>4. CASE Fresh
        BY <3>1, <3>4, StartupAssumption DEF Fresh
      <3> QED
        BY <1>1, <3>2, <3>3, <3>4 DEF Init
    <2>2. /\ sites \in [Org -> 0 .. MaxSites] /\ zones \in [Site -> 0 .. MaxZones]
          /\ sensors \in [Zone -> Seq(Kind)]
      BY <1>1, StartupAssumption DEF Init
    <2>3. session \in [Sessions -> Session \cup {Unused}]
      <3>1. CASE Flat
        BY <3>1 DEF Flat
      <3>2. CASE Tenants
        BY <3>2 DEF Tenants
      <3>3. CASE Fresh
        BY <3>3 DEF Fresh
      <3> QED
        BY <1>1, <3>1, <3>2, <3>3 DEF Init
    <2>4. device \in [Devices -> Device \cup {Unused}]
      <3>1. CASE Flat
        BY <3>1 DEF Flat
      <3>2. CASE Tenants
        BY <3>2 DEF Tenants
      <3>3. CASE Fresh
        BY <3>3 DEF Fresh
      <3> QED
        BY <1>1, <3>1, <3>2, <3>3 DEF Init
    <2>5. user \in [Users -> User \cup {Unused}]
      <3>1. CASE Flat
        BY <3>1 DEF Flat
      <3>2. CASE Tenants
        BY <3>2 DEF Tenants
      <3>3. CASE Fresh
        BY <3>3 DEF Fresh
      <3> QED
        BY <1>1, <3>1, <3>2, <3>3 DEF Init
    <2> QED
      BY <2>1, <2>2, <2>3, <2>4, <2>5 DEF TypeOK
  <1>2. ASSUME TypeOK, [Next]_vars
        PROVE  TypeOK'
    <2> USE <1>2
    <2>1. CASE Start
      BY <2>1 DEF Start, TypeOK, tree, Phase, SessionRows
    <2>2. CASE AddMissingColumns
      <3>1. \A s \in SessionRows :
               [session[s] EXCEPT !.org = Added(@), !.sensor = Added(@), !.drops = Filled(@)]
                  \in Session
        <4>1. ASSUME NEW row \in Session
              PROVE  /\ Added(row.org) \in Org \cup Unset
                     /\ Added(row.sensor) \in Sensor \cup Unset
                     /\ Filled(row.drops) \in {"number"} \cup Unset
          BY DEF Session, Added, Filled, Unset
        <4> QED
          BY <4>1, RowTypes DEF Session
      <3>2. \A d \in DeviceRows : [device[d] EXCEPT !.org = Added(@)] \in Device
        BY RowTypes DEF Device, Added, Unset
      <3>3. \A u \in UserRows : [user[u] EXCEPT !.org = Added(@)] \in User
        BY RowTypes DEF User, Added, Unset
      <3>4. active' \subseteq SessionRows'
        <4>1. \A s \in SessionRows : session'[s] # Unused
          BY <2>2, <3>1, AbsenceAssumption DEF AddMissingColumns, SessionRows
        <4> QED
          BY <2>2, <4>1 DEF AddMissingColumns, TypeOK, SessionRows
      <3> QED
        BY <2>2, <3>1, <3>2, <3>3, <3>4 DEF AddMissingColumns, TypeOK, tree, Phase, SessionRows,
           DeviceRows, UserRows
    <2>3. CASE BackfillOrganizations
      <3>1. OrgsMade \in 0 .. MaxOrgs
        BY StartupAssumption DEF OrgsMade, TypeOK
      <3>2. 1 \in Org
        BY StartupAssumption DEF Org
      <3>3. /\ \A s \in Sessions : Owned(session[s]) \in Session \cup {Unused}
            /\ \A d \in Devices : Owned(device[d]) \in Device \cup {Unused}
            /\ \A u \in Users : Owned(user[u]) \in User \cup {Unused}
        BY <3>2 DEF TypeOK, Owned, Session, Device, User
      <3>4. active' \subseteq SessionRows'
        <4>1. ASSUME NEW s \in SessionRows
              PROVE  Owned(session[s]) \in Session
          BY <3>2, RowTypes DEF Owned, Session, SessionRows
        <4> QED
          BY <2>3, <4>1, AbsenceAssumption DEF BackfillOrganizations, TypeOK, SessionRows
      <3> QED
        BY <2>3, <3>1, <3>3, <3>4 DEF BackfillOrganizations, TypeOK, Phase
    <2>4. CASE RebuildDeviceIndex
      BY <2>4 DEF RebuildDeviceIndex, TypeOK, tree, Phase, SessionRows
    <2>5. CASE RenameEditors
      <3>1. \A u \in UserRows : [user[u] EXCEPT !.role = "admin"] \in User
        BY RowTypes DEF User
      <3> QED
        BY <2>5, <3>1 DEF RenameEditors, TypeOK, tree, Phase, SessionRows
    <2>6. CASE DefaultHierarchy
      <3>1. /\ \A n \in 0 .. MaxSites : AtLeastOne(n) \in 0 .. MaxSites
            /\ \A n \in 0 .. MaxZones : AtLeastOne(n) \in 0 .. MaxZones
            /\ <<"live">> \in Seq(Kind)
        BY StartupAssumption DEF AtLeastOne, Kind
      <3>2. \A s \in Sessions : Backfilled(session[s]) \in Session \cup {Unused}
        <4>1. \A o \in 1 .. orgs : FirstSensor(o) \in Sensor
          BY Firsts, OrgIds
        <4> QED
          BY <4>1 DEF TypeOK, Backfilled, Session
      <3>3. sites' \in [Org -> 0 .. MaxSites] /\ zones' \in [Site -> 0 .. MaxZones]
            /\ sensors' \in [Zone -> Seq(Kind)]
        BY <2>6, <3>1 DEF DefaultHierarchy, TypeOK
      <3>4. active' \subseteq SessionRows'
        <4>1. ASSUME NEW s \in SessionRows
              PROVE  Backfilled(session[s]) \in Session
          <5>1. session[s] \in Session
            BY RowTypes
          <5>2. session[s].org \in 1 .. orgs => FirstSensor(session[s].org) \in Sensor
            BY Firsts, OrgIds
          <5> QED
            BY <5>1, <5>2 DEF Backfilled, Session
        <4> QED
          BY <2>6, <4>1, AbsenceAssumption DEF DefaultHierarchy, TypeOK, SessionRows
      <3> QED
        BY <2>6, <3>2, <3>3, <3>4 DEF DefaultHierarchy, TypeOK, Phase
    <2>7. ASSUME NEW o \in Org \cup Unset, NEW role \in {"admin", "super_admin"}, AddUser(o, role)
          PROVE  user' \in [Users -> User \cup {Unused}]
      BY <2>7 DEF AddUser, TypeOK, User
    <2>8. CASE SeedSuperAdmin
      BY <2>7, <2>8 DEF SeedSuperAdmin, TypeOK, tree, Phase, Unset, SessionRows
    <2>9. CASE SeedAdmin
      <3>1. 1 \in Org /\ AtLeastOne(orgs) \in 0 .. MaxOrgs
        BY StartupAssumption DEF Org, AtLeastOne, TypeOK
      <3> QED
        BY <2>7, <2>9, <3>1 DEF SeedAdmin, TypeOK, Phase, SessionRows
    <2>10. CASE StopOrphans
      <3>1. \A s \in Sessions : Orphaned(session[s]) => Ended(session[s]) \in Session
        BY DEF TypeOK, Orphaned, Ended, Session
      <3> QED
        BY <2>10, <3>1, AbsenceAssumption DEF StopOrphans, TypeOK, tree, Phase, SessionRows, Orphaned
    <2>11. CASE Kill
      BY <2>11 DEF Kill, TypeOK, tree, Phase, SessionRows
    <2>12. ASSUME NEW by \in Users, CreateOrganization(by)
           PROVE  TypeOK'
      <3>1. orgs + 1 \in Org /\ orgs + 1 \in 0 .. MaxOrgs
        BY <2>12, StartupAssumption DEF CreateOrganization, TypeOK, Org
      <3> QED
        BY <2>7, <2>12, <3>1 DEF CreateOrganization, TypeOK, SessionRows
    <2>13. ASSUME NEW by \in Users, NEW o \in Org, CreateSite(by, o)
           PROVE  TypeOK'
      <3>1. sites[o] + 1 \in 0 .. MaxSites
        BY <2>13, StartupAssumption DEF CreateSite, TypeOK, SessionRows
      <3> QED
        BY <2>13, <3>1 DEF CreateSite, TypeOK, SessionRows
    <2>14. ASSUME NEW by \in Users, NEW s \in Site, CreateZone(by, s)
           PROVE  TypeOK'
      <3>1. zones[s] + 1 \in 0 .. MaxZones
        BY <2>14, StartupAssumption DEF CreateZone, TypeOK, SessionRows
      <3> QED
        BY <2>14, <3>1 DEF CreateZone, TypeOK, SessionRows
    <2>15. ASSUME NEW by \in Users, NEW z \in Zone, NEW kind \in Kind, CreateSensor(by, z, kind)
           PROVE  TypeOK'
      <3>1. Append(sensors[z], kind) \in Seq(Kind)
        BY DEF TypeOK
      <3> QED
        BY <2>15, <3>1 DEF CreateSensor, TypeOK, SessionRows
    <2>16. ASSUME NEW by \in Users, NEW s \in Sessions, NEW asked \in Sensor \cup {Null},
                  NEW source \in {"live", "pcap"}, Capture(by, s, asked, source)
           PROVE  TypeOK'
      <3>1. PICK sensor \in SensorRows :
               session' = [session EXCEPT ![s] =
                  [org |-> Owner(sensor), sensor |-> sensor, source |-> source,
                   status |-> "running", drops |-> "number"]]
        BY <2>16 DEF Capture
      <3>2. sensor \in Sensor /\ Owner(sensor) \in Org
        BY SensorParts DEF SensorRows
      <3>3. [org |-> Owner(sensor), sensor |-> sensor, source |-> source,
             status |-> "running", drops |-> "number"] \in Session
        BY <3>2 DEF Session
      <3> QED
        BY <2>16, <3>1, <3>3, AbsenceAssumption DEF Capture, TypeOK, tree, SessionRows
    <2>17. ASSUME NEW s \in Sessions, EndSession(s)
           PROVE  TypeOK'
      <3>1. session[s] \in Session \cup {Unused}
        BY DEF TypeOK
      <3>2. session[s] # Unused
        BY <2>17 DEF EndSession, TypeOK, SessionRows
      <3>3. Ended(session[s]) \in Session
        BY <3>1, <3>2 DEF Ended, Session
      <3>4. active' \subseteq SessionRows'
        BY <2>17, <3>3, AbsenceAssumption DEF EndSession, TypeOK, SessionRows
      <3> QED
        BY <2>17, <3>3, <3>4 DEF EndSession, TypeOK, tree
    <2>18. ASSUME NEW s \in Sessions, NEW d \in Devices, NEW address \in Addresses,
                  SeeDevice(s, d, address)
           PROVE  TypeOK'
      BY <2>18 DEF SeeDevice, TypeOK, tree, Device, Session, SessionRows
    <2>19. CASE UNCHANGED vars
      BY <2>19 DEF vars, tree, TypeOK, SessionRows
    <2> QED
      BY <2>1, <2>2, <2>3, <2>4, <2>5, <2>6, <2>8, <2>9, <2>10, <2>11, <2>12, <2>13, <2>14,
         <2>15, <2>16, <2>17, <2>18, <2>19 DEF Next, Upgrade
  <1> QED
    BY <1>1, <1>2
-----------------------------------------------------------------------------
\* Where a start has got to: after the columns, the organizations, the index,
\* the roles and the hierarchy.
FromOrganizations == Phase \ {"down", "columns"}
FromIndex == FromOrganizations \ {"organizations"}
FromRoles == FromIndex \ {"index"}
FromHierarchy == FromRoles \ {"roles"}
FromSuperAdmin == FromHierarchy \ {"hierarchy"}

\* Every row of the hierarchy has the row above it.
Rooted ==
    /\ \A o \in Org : sites[o] > 0 => o <= orgs
    /\ \A s \in Site : zones[s] > 0 => s[2] <= sites[s[1]]
    /\ \A z \in Zone : sensors[z] # <<>> => z[3] <= zones[<<z[1], z[2]>>]

\* What the steps so far have left of the older schemas.
SessionsUpgraded ==
    \A s \in SessionRows :
        /\ session[s].org \in Unset \cup 1 .. orgs
        /\ phase \in FromOrganizations => /\ session[s].org # Missing /\ session[s].sensor # Missing
                                          /\ session[s].drops = "number"
        /\ phase \in FromIndex => session[s].org # Null
        /\ phase \in FromSuperAdmin => session[s].sensor # Null

DevicesUpgraded ==
    /\ phase \in FromRoles => index = "org_mac_ip"
    /\ \A d \in DeviceRows :
          /\ device[d].org \in Unset \cup 1 .. orgs
          /\ phase \in FromOrganizations => device[d].org # Missing
          /\ phase \in FromIndex => device[d].org # Null

UsersUpgraded ==
    \A u \in UserRows :
        /\ user[u].org \in Unset \cup 1 .. orgs
        /\ phase \in FromOrganizations => user[u].org # Missing
        /\ phase \in FromIndex => user[u].org # Null \/ user[u].role = "super_admin"
        /\ phase \in FromHierarchy => user[u].role # "editor"

\* A database with devices of no organization has one device of an address.
FlatAddresses ==
    \A d, e \in DeviceRows :
        device[d].org \in Unset => d = e \/ device[d].address # device[e].address

\* No sensor is made while a session has none.
SensorsComeWithTheirSessions ==
    \A s \in SessionRows : session[s].sensor \in Unset => \A z \in Zone : sensors[z] = <<>>

ActiveWhenUp == phase # "up" => active = {}

\* Why the default administrator needs no organization made after the hierarchy.
OrganizationsComeFirst ==
    /\ phase \in FromIndex /\ orgs = 0 => super \/ phase = "up"
    /\ phase = "admin" /\ super => UserRows # {}
    /\ phase \in FromSuperAdmin \ {"up"} => \A o \in 1 .. orgs : sensors[FirstZone(o)] # <<>>

IInv ==
    /\ TypeOK
    /\ Rooted
    /\ SessionsUpgraded /\ DevicesUpgraded /\ UsersUpgraded
    /\ FlatAddresses /\ AddressesStayUnique
    /\ SensorsComeWithTheirSessions /\ SensorsAreTheTenants /\ LiveCapturesHaveLiveSensors
    /\ ActiveWhenUp /\ OnlyUploadsAreOrphaned
    /\ OrganizationsComeFirst

LEMMA Phases ==
    /\ FromOrganizations = {"organizations", "index", "roles", "hierarchy", "super_admin", "admin",
                            "sweep", "up"}
    /\ FromIndex = {"index", "roles", "hierarchy", "super_admin", "admin", "sweep", "up"}
    /\ FromRoles = {"roles", "hierarchy", "super_admin", "admin", "sweep", "up"}
    /\ FromHierarchy = {"hierarchy", "super_admin", "admin", "sweep", "up"}
    /\ FromSuperAdmin = {"super_admin", "admin", "sweep", "up"}
  BY DEF FromOrganizations, FromIndex, FromRoles, FromHierarchy, FromSuperAdmin, Phase

\* Organizations are never deleted.
LEMMA OrganizationsStay ==
    ASSUME TypeOK, [Next]_vars
    PROVE  /\ orgs' \in Nat /\ orgs <= orgs' /\ 1 .. orgs \subseteq 1 .. orgs'
           /\ Null \notin 1 .. orgs' /\ Missing \notin 1 .. orgs'
  <1>1. orgs \in Nat /\ orgs' \in Nat
    BY OrgIds, TypeInductive, StartupAssumption DEF TypeOK
  <1>2. orgs' = orgs \/ orgs' = orgs + 1 \/ (orgs = 0 /\ orgs' = 1)
    BY <1>1 DEF Next, Upgrade, Start, AddMissingColumns, BackfillOrganizations, RebuildDeviceIndex,
       RenameEditors, DefaultHierarchy, SeedSuperAdmin, SeedAdmin, StopOrphans, Kill,
       CreateOrganization, CreateSite, CreateZone, CreateSensor, Capture, EndSession, SeeDevice,
       tree, vars, OrgsMade, AtLeastOne
  <1>3. orgs' \in 0 .. MaxOrgs /\ MaxOrgs \in Nat
    BY TypeInductive, StartupAssumption DEF TypeOK
  <1>4. 1 .. orgs' \subseteq Org
    BY <1>3 DEF Org
  <1>5. Null \notin 1 .. orgs' /\ Missing \notin 1 .. orgs'
    BY <1>4, AbsenceAssumption DEF Unset
  <1> QED
    BY <1>1, <1>2, <1>5

-----------------------------------------------------------------------------
LEMMA RootedInductive ==
    /\ Init => Rooted
    /\ TypeOK /\ Rooted /\ [Next]_vars => Rooted'
  <1>1. ASSUME Init
        PROVE  Rooted
    BY <1>1 DEF Init, Rooted
  <1>2. ASSUME TypeOK, Rooted, [Next]_vars
        PROVE  Rooted'
    <2> USE <1>2
    <2>1. orgs \in Nat /\ orgs' \in Nat /\ orgs <= orgs'
      BY OrganizationsStay, OrgIds
    <2>2. /\ \A o \in Org : o \in Nat /\ sites[o] \in Nat
          /\ \A s \in Site : s[1] \in Org /\ s[2] \in Nat /\ zones[s] \in Nat
          /\ \A z \in Zone : <<z[1], z[2]>> \in Site /\ z[1] \in Org /\ z[3] \in Nat
      BY StartupAssumption DEF TypeOK, Org, Site, Zone
    <2>3. CASE UNCHANGED <<sites, zones, sensors>>
      BY <2>1, <2>2, <2>3 DEF Rooted
    <2>4. CASE DefaultHierarchy
      <3>1. /\ \A o \in Org : sites'[o] = IF o <= orgs THEN AtLeastOne(sites[o]) ELSE sites[o]
            /\ \A s \in Site : zones'[s] = IF s[1] <= orgs /\ s = FirstSite(s[1])
                                           THEN AtLeastOne(zones[s]) ELSE zones[s]
            /\ \A z \in Zone : sensors'[z] = IF z[1] <= orgs /\ z = FirstZone(z[1]) /\ sensors[z] = <<>>
                                             THEN <<"live">> ELSE sensors[z]
            /\ orgs' = orgs
        BY <2>4 DEF DefaultHierarchy
      <3>2. \A o \in Org : sites'[o] > 0 => o <= orgs'
        BY <2>1, <2>2, <3>1 DEF Rooted, AtLeastOne
      <3>3. ASSUME NEW s \in Site, zones'[s] > 0
            PROVE  s[2] <= sites'[s[1]]
        <4>1. CASE zones[s] > 0
          BY <2>1, <2>2, <3>1, <4>1 DEF Rooted, AtLeastOne
        <4>2. CASE ~ (zones[s] > 0)
          <5>1. s[1] <= orgs /\ s[2] = 1
            BY <2>2, <3>1, <3>3, <4>2 DEF FirstSite
          <5> QED
            BY <2>2, <3>1, <5>1 DEF AtLeastOne
        <4> QED
          BY <4>1, <4>2
      <3>4. ASSUME NEW z \in Zone, sensors'[z] # <<>>
            PROVE  z[3] <= zones'[<<z[1], z[2]>>]
        <4>1. \A s \in Site : zones[s] <= zones'[s]
          BY <2>2, <3>1 DEF AtLeastOne
        <4>2. CASE sensors[z] # <<>>
          BY <2>2, <4>1, <4>2, TypeInductive DEF Rooted, TypeOK
        <4>3. CASE sensors[z] = <<>>
          <5>1. z[1] <= orgs /\ z[2] = 1 /\ z[3] = 1
            BY <3>1, <3>4, <4>3 DEF FirstZone
          <5>2. zones'[<<z[1], z[2]>>] = AtLeastOne(zones[<<z[1], z[2]>>])
            BY <2>2, <3>1, <5>1 DEF FirstSite
          <5> QED
            BY <2>2, <5>1, <5>2 DEF AtLeastOne
        <4> QED
          BY <4>2, <4>3
      <3> QED
        BY <3>2, <3>3, <3>4 DEF Rooted
    <2>5. ASSUME NEW by \in Users, NEW o \in Org, CreateSite(by, o)
          PROVE  Rooted'
      BY <2>2, <2>5 DEF CreateSite, Rooted, TypeOK
    <2>6. ASSUME NEW by \in Users, NEW s \in Site, CreateZone(by, s)
          PROVE  Rooted'
      BY <2>2, <2>6 DEF CreateZone, Rooted, TypeOK
    <2>7. ASSUME NEW by \in Users, NEW z \in Zone, NEW kind \in Kind, CreateSensor(by, z, kind)
          PROVE  Rooted'
      BY <2>2, <2>7 DEF CreateSensor, Rooted, TypeOK
    <2> QED
      BY <2>3, <2>4, <2>5, <2>6, <2>7 DEF Next, Upgrade, Start, AddMissingColumns,
         BackfillOrganizations, RebuildDeviceIndex, RenameEditors, SeedSuperAdmin, SeedAdmin,
         StopOrphans, Kill, CreateOrganization, Capture, EndSession, SeeDevice, tree, vars
  <1> QED
    BY <1>1, <1>2

\* A sensor's owner is an organization that there is.
LEMMA OwnersExist ==
    ASSUME TypeOK, Rooted, NEW s \in SensorRows
    PROVE  s \in Sensor /\ Owner(s) \in 1 .. orgs
  <1>1. s \in Sensor /\ s[1] \in Zone /\ s[2] \in Nat /\ s[2] >= 1 /\ s[2] <= Len(sensors[s[1]])
    BY StartupAssumption DEF SensorRows, Sensor
  <1>2. sensors[s[1]] # <<>>
    BY <1>1
  <1> DEFINE z == s[1]
  <1>3. z[3] <= zones[<<z[1], z[2]>>] /\ z[3] \in Nat /\ z[3] >= 1 /\ <<z[1], z[2]>> \in Site
    BY <1>1, <1>2, StartupAssumption DEF Rooted, Zone, Site
  <1>4. zones[<<z[1], z[2]>>] > 0
    BY <1>3 DEF TypeOK
  <1>5. z[2] <= sites[z[1]] /\ z[2] \in Nat /\ z[2] >= 1 /\ z[1] \in Org
    BY <1>1, <1>3, <1>4, StartupAssumption DEF Rooted, Zone
  <1>6. sites[z[1]] > 0
    BY <1>5 DEF TypeOK
  <1> QED
    BY <1>1, <1>5, <1>6, OrgIds DEF Rooted, Owner, Org

-----------------------------------------------------------------------------
LEMMA SessionsUpgradedInductive ==
    /\ Init => SessionsUpgraded
    /\ TypeOK /\ Rooted /\ SessionsUpgraded /\ [Next]_vars => SessionsUpgraded'
  <1>1. ASSUME Init
        PROVE  SessionsUpgraded
    <2>1. phase \notin FromOrganizations /\ phase \notin FromIndex /\ phase \notin FromSuperAdmin
      BY <1>1, Phases DEF Init
    <2>2. \A s \in SessionRows : session[s].org \in Unset \cup 1 .. orgs
      BY <1>1 DEF Init, Flat, Tenants, Fresh, SessionRows, Unset
    <2> QED
      BY <2>1, <2>2 DEF SessionsUpgraded
  <1>2. ASSUME TypeOK, Rooted, SessionsUpgraded, [Next]_vars
        PROVE  SessionsUpgraded'
    <2> USE <1>2
    <2>1. 1 .. orgs \subseteq 1 .. orgs'
      BY OrganizationsStay
    <2>2. ASSUME UNCHANGED session,
                 phase' \in FromOrganizations => phase \in FromOrganizations,
                 phase' \in FromIndex => phase \in FromIndex,
                 phase' \in FromSuperAdmin => phase \in FromSuperAdmin
          PROVE  SessionsUpgraded'
      BY <2>1, <2>2 DEF SessionsUpgraded, SessionRows
    <2>3. CASE Start
      BY <2>2, <2>3, Phases DEF Start
    <2>4. CASE AddMissingColumns
      <3>1. ASSUME NEW s \in SessionRows'
            PROVE  /\ s \in SessionRows
                   /\ session'[s] = [session[s] EXCEPT !.org = Added(@), !.sensor = Added(@),
                                                       !.drops = Filled(@)]
        BY <2>4, <3>1 DEF AddMissingColumns, SessionRows
      <3>2. ASSUME NEW s \in SessionRows'
            PROVE  /\ session'[s].org \in Unset \cup 1 .. orgs
                   /\ session'[s].org # Missing /\ session'[s].sensor # Missing
                   /\ session'[s].drops = "number"
        <4>1. session[s] \in Session /\ session[s].org \in Unset \cup 1 .. orgs
          BY <3>1, <3>2, RowTypes DEF SessionsUpgraded
        <4>2. /\ session'[s].org = Added(session[s].org)
              /\ session'[s].sensor = Added(session[s].sensor)
              /\ session'[s].drops = Filled(session[s].drops)
          BY <3>1, <3>2, <4>1 DEF Session
        <4>3. Missing # Null
          BY AbsenceAssumption
        <4>4. session'[s].org \in Unset \cup 1 .. orgs /\ session'[s].org # Missing
              /\ session'[s].sensor # Missing
          BY <4>1, <4>2, <4>3 DEF Added, Unset
        <4>5. session'[s].drops = "number"
          BY <4>1, <4>2 DEF Filled, Unset, Session
        <4> QED
          BY <4>4, <4>5
      <3>3. orgs' = orgs /\ phase' \notin FromIndex /\ phase' \notin FromSuperAdmin
        BY <2>4, Phases DEF AddMissingColumns, tree
      <3> QED
        BY <3>2, <3>3 DEF SessionsUpgraded
    <2>5. CASE BackfillOrganizations
      <3>1. phase \in FromOrganizations /\ phase' \notin FromSuperAdmin
        BY <2>5, Phases DEF BackfillOrganizations
      <3>2. ASSUME NEW s \in SessionRows'
            PROVE  s \in SessionRows /\ session'[s] = Owned(session[s]) /\ session[s] \in Session
        <4>1. s \in Sessions /\ session'[s] = Owned(session[s])
          BY <2>5, <3>2 DEF BackfillOrganizations, SessionRows
        <4>2. session[s] # Unused
          BY <3>2, <4>1 DEF Owned, SessionRows
        <4> QED
          BY <4>1, <4>2, RowTypes DEF SessionRows
      <3>3. orgs \in Nat /\ orgs' = OrgsMade /\ (orgs > 0 => OrgsMade = orgs)
        BY <2>5, OrgIds DEF BackfillOrganizations, OrgsMade
      <3>4. ASSUME NEW s \in SessionRows, session[s].org = Null
            PROVE  OrgsMade > 0
        BY <3>3, <3>4 DEF OrgsMade, NeedsBackfill
      <3>5. ASSUME NEW s \in SessionRows'
            PROVE  /\ session'[s].org \in 1 .. orgs'
                   /\ session'[s].sensor = session[s].sensor /\ session'[s].drops = session[s].drops
        <4>1. session[s].org # Missing /\ session[s].org \in Unset \cup 1 .. orgs
          BY <3>1, <3>2, <3>5 DEF SessionsUpgraded
        <4>2. CASE session[s].org = Null
          <5>1. 1 \in 1 .. orgs'
            BY <3>2, <3>3, <3>4, <3>5, <4>2 DEF OrgsMade
          <5> QED
            BY <3>2, <3>4, <3>5, <4>2, <5>1 DEF Owned, Session, SessionRows
        <4>3. CASE session[s].org # Null
          BY <2>1, <3>2, <3>5, <4>1, <4>3 DEF Owned, Session, SessionRows, Unset
        <4> QED
          BY <4>2, <4>3
      <3>6. Null \notin 1 .. orgs' /\ Missing \notin 1 .. orgs'
        BY OrganizationsStay
      <3> QED
        BY <3>1, <3>2, <3>5, <3>6 DEF SessionsUpgraded
    <2>6. CASE RebuildDeviceIndex
      BY <2>2, <2>6, Phases DEF RebuildDeviceIndex
    <2>7. CASE RenameEditors
      BY <2>2, <2>7, Phases DEF RenameEditors
    <2>8. CASE DefaultHierarchy
      <3>1. phase \in FromOrganizations /\ phase \in FromIndex /\ orgs' = orgs
        BY <2>8, Phases DEF DefaultHierarchy
      <3>2. ASSUME NEW s \in SessionRows'
            PROVE  /\ s \in SessionRows /\ session'[s] = Backfilled(session[s])
                   /\ session[s] \in Session /\ session[s].org \in 1 .. orgs
                   /\ session[s].sensor # Missing /\ session[s].drops = "number"
        <4>1. s \in Sessions /\ session'[s] = Backfilled(session[s])
          BY <2>8, <3>2 DEF DefaultHierarchy, SessionRows
        <4>2. s \in SessionRows
          BY <3>2, <4>1 DEF Backfilled, SessionRows
        <4> QED
          BY <3>1, <4>1, <4>2, RowTypes DEF SessionsUpgraded, Unset
      <3>3. ASSUME NEW s \in SessionRows'
            PROVE  /\ session'[s].org = session[s].org /\ session'[s].drops = session[s].drops
                   /\ session'[s].sensor \notin Unset
        <4>1. FirstSensor(session[s].org) \in Sensor
          BY <3>2, <3>3, OrgIds, Firsts
        <4>2. FirstSensor(session[s].org) \notin Unset
          BY <4>1, AbsenceAssumption
        <4>3. session[s] # Unused
          BY <3>2, <3>3 DEF SessionRows
        <4> QED
          BY <3>2, <3>3, <4>2, <4>3 DEF Backfilled, Session, Unset
      <3>4. Null \notin 1 .. orgs /\ Missing \notin 1 .. orgs
        BY OrgIds, AbsenceAssumption DEF Unset
      <3> QED
        BY <3>1, <3>2, <3>3, <3>4 DEF SessionsUpgraded, Unset
    <2>9. CASE SeedSuperAdmin
      BY <2>2, <2>9, Phases DEF SeedSuperAdmin
    <2>10. CASE SeedAdmin
      BY <2>2, <2>10, Phases DEF SeedAdmin
    <2>11. CASE StopOrphans
      <3>1. ASSUME NEW s \in SessionRows'
            PROVE  /\ s \in SessionRows
                   /\ session'[s].org = session[s].org /\ session'[s].sensor = session[s].sensor
                   /\ session'[s].drops = session[s].drops
        BY <2>11, <3>1, RowTypes DEF StopOrphans, SessionRows, Ended, Orphaned, Session
      <3>2. phase \in FromOrganizations /\ phase \in FromIndex /\ phase \in FromSuperAdmin
        BY <2>11, Phases DEF StopOrphans
      <3> QED
        BY <2>1, <3>1, <3>2 DEF SessionsUpgraded
    <2>12. CASE Kill
      BY <2>2, <2>12, Phases DEF Kill
    <2>13. ASSUME NEW by \in Users, CreateOrganization(by)
           PROVE  SessionsUpgraded'
      BY <2>2, <2>13 DEF CreateOrganization
    <2>14. ASSUME NEW by \in Users, NEW o \in Org, CreateSite(by, o)
           PROVE  SessionsUpgraded'
      BY <2>2, <2>14 DEF CreateSite
    <2>15. ASSUME NEW by \in Users, NEW s \in Site, CreateZone(by, s)
           PROVE  SessionsUpgraded'
      BY <2>2, <2>15 DEF CreateZone
    <2>16. ASSUME NEW by \in Users, NEW z \in Zone, NEW kind \in Kind, CreateSensor(by, z, kind)
           PROVE  SessionsUpgraded'
      BY <2>2, <2>16 DEF CreateSensor
    <2>17. ASSUME NEW by \in Users, NEW s \in Sessions, NEW asked \in Sensor \cup {Null},
                  NEW source \in {"live", "pcap"}, Capture(by, s, asked, source)
           PROVE  SessionsUpgraded'
      <3>1. PICK sensor \in SensorRows :
               session' = [session EXCEPT ![s] =
                  [org |-> Owner(sensor), sensor |-> sensor, source |-> source,
                   status |-> "running", drops |-> "number"]]
        BY <2>17 DEF Capture
      <3>2. sensor \in Sensor /\ Owner(sensor) \in 1 .. orgs
        BY OwnersExist
      <3>3. sensor \notin Unset /\ Null \notin 1 .. orgs /\ Missing \notin 1 .. orgs
        BY <3>2, OrgIds, AbsenceAssumption DEF Unset
      <3>4. orgs' = orgs /\ phase' = phase
        BY <2>17 DEF Capture, tree
      <3>5. ASSUME NEW r \in SessionRows', r # s
            PROVE  r \in SessionRows /\ session'[r] = session[r]
        BY <3>1, <3>5 DEF SessionRows, TypeOK
      <3>6. session'[s] = [org |-> Owner(sensor), sensor |-> sensor, source |-> source,
                           status |-> "running", drops |-> "number"]
        BY <3>1 DEF TypeOK
      <3> QED
        BY <3>2, <3>3, <3>4, <3>5, <3>6 DEF SessionsUpgraded, Unset
    <2>18. ASSUME NEW s \in Sessions, EndSession(s)
           PROVE  SessionsUpgraded'
      <3>1. s \in SessionRows /\ session[s] \in Session
        BY <2>18, RowTypes DEF EndSession, TypeOK
      <3>2. ASSUME NEW r \in SessionRows'
            PROVE  /\ r \in SessionRows
                   /\ session'[r].org = session[r].org /\ session'[r].sensor = session[r].sensor
                   /\ session'[r].drops = session[r].drops
        BY <2>18, <3>1, <3>2 DEF EndSession, SessionRows, Ended, Session, TypeOK
      <3> QED
        BY <2>1, <2>18, <3>2 DEF SessionsUpgraded, EndSession
    <2>19. ASSUME NEW s \in Sessions, NEW d \in Devices, NEW address \in Addresses,
                  SeeDevice(s, d, address)
           PROVE  SessionsUpgraded'
      BY <2>2, <2>19 DEF SeeDevice
    <2>20. CASE UNCHANGED vars
      BY <2>2, <2>20 DEF vars
    <2> QED
      BY <2>3, <2>4, <2>5, <2>6, <2>7, <2>8, <2>9, <2>10, <2>11, <2>12, <2>13, <2>14, <2>15,
         <2>16, <2>17, <2>18, <2>19, <2>20 DEF Next, Upgrade
  <1> QED
    BY <1>1, <1>2

-----------------------------------------------------------------------------
LEMMA DevicesUpgradedInductive ==
    /\ Init => DevicesUpgraded
    /\ TypeOK /\ SessionsUpgraded /\ ActiveWhenUp /\ DevicesUpgraded /\ [Next]_vars
          => DevicesUpgraded'
  <1>1. ASSUME Init
        PROVE  DevicesUpgraded
    <2>1. phase \notin FromOrganizations /\ phase \notin FromIndex /\ phase \notin FromRoles
      BY <1>1, Phases DEF Init
    <2>2. \A d \in DeviceRows : device[d].org \in Unset \cup 1 .. orgs
      BY <1>1 DEF Init, Flat, Tenants, Fresh, DeviceRows, Unset
    <2> QED
      BY <2>1, <2>2 DEF DevicesUpgraded
  <1>2. ASSUME TypeOK, SessionsUpgraded, ActiveWhenUp, DevicesUpgraded, [Next]_vars
        PROVE  DevicesUpgraded'
    <2> USE <1>2
    <2>1. 1 .. orgs \subseteq 1 .. orgs'
      BY OrganizationsStay
    <2>2. ASSUME UNCHANGED <<device, index>>,
                 phase' \in FromOrganizations => phase \in FromOrganizations,
                 phase' \in FromIndex => phase \in FromIndex,
                 phase' \in FromRoles => phase \in FromRoles
          PROVE  DevicesUpgraded'
      BY <2>1, <2>2 DEF DevicesUpgraded, DeviceRows
    <2>3. CASE Start
      BY <2>2, <2>3, Phases DEF Start
    <2>4. CASE AddMissingColumns
      <3>1. ASSUME NEW d \in DeviceRows'
            PROVE  /\ d \in DeviceRows
                   /\ device'[d] = [device[d] EXCEPT !.org = Added(@)]
        BY <2>4, <3>1 DEF AddMissingColumns, DeviceRows
      <3>2. ASSUME NEW d \in DeviceRows'
            PROVE  device'[d].org \in Unset \cup 1 .. orgs /\ device'[d].org # Missing
        <4>1. device[d] \in Device /\ device[d].org \in Unset \cup 1 .. orgs
          BY <3>1, <3>2, RowTypes DEF DevicesUpgraded
        <4>2. device'[d].org = Added(device[d].org)
          BY <3>1, <3>2, <4>1 DEF Device
        <4> QED
          BY <4>1, <4>2, AbsenceAssumption DEF Added, Unset
      <3>3. orgs' = orgs /\ phase' \notin FromIndex /\ phase' \notin FromRoles
        BY <2>4, Phases DEF AddMissingColumns, tree
      <3> QED
        BY <3>2, <3>3 DEF DevicesUpgraded
    <2>5. CASE BackfillOrganizations
      <3>1. phase \in FromOrganizations /\ phase' \notin FromRoles
        BY <2>5, Phases DEF BackfillOrganizations
      <3>2. ASSUME NEW d \in DeviceRows'
            PROVE  d \in DeviceRows /\ device'[d] = Owned(device[d]) /\ device[d] \in Device
        <4>1. d \in Devices /\ device'[d] = Owned(device[d])
          BY <2>5, <3>2 DEF BackfillOrganizations, DeviceRows
        <4>2. device[d] # Unused
          BY <3>2, <4>1 DEF Owned, DeviceRows
        <4> QED
          BY <4>1, <4>2, RowTypes DEF DeviceRows
      <3>3. orgs \in Nat /\ orgs' = OrgsMade /\ (orgs > 0 => OrgsMade = orgs)
        BY <2>5, OrgIds DEF BackfillOrganizations, OrgsMade
      <3>4. ASSUME NEW d \in DeviceRows, device[d].org = Null
            PROVE  OrgsMade > 0
        BY <3>3, <3>4 DEF OrgsMade, NeedsBackfill
      <3>5. ASSUME NEW d \in DeviceRows'
            PROVE  device'[d].org \in 1 .. orgs'
        <4>1. device[d].org # Missing /\ device[d].org \in Unset \cup 1 .. orgs
          BY <3>1, <3>2, <3>5 DEF DevicesUpgraded
        <4>2. CASE device[d].org = Null
          <5>1. 1 \in 1 .. orgs'
            BY <3>2, <3>3, <3>4, <3>5, <4>2 DEF OrgsMade
          <5> QED
            BY <3>2, <3>4, <3>5, <4>2, <5>1 DEF Owned, Device, DeviceRows
        <4>3. CASE device[d].org # Null
          BY <2>1, <3>2, <3>5, <4>1, <4>3 DEF Owned, Device, DeviceRows, Unset
        <4> QED
          BY <4>2, <4>3
      <3>6. Null \notin 1 .. orgs' /\ Missing \notin 1 .. orgs'
        BY OrganizationsStay
      <3> QED
        BY <3>1, <3>5, <3>6 DEF DevicesUpgraded
    <2>6. CASE RebuildDeviceIndex
      <3>1. phase \in FromOrganizations /\ phase \in FromIndex
        BY <2>6, Phases DEF RebuildDeviceIndex
      <3> QED
        BY <2>1, <2>6, <3>1 DEF RebuildDeviceIndex, DevicesUpgraded, DeviceRows
    <2>7. CASE RenameEditors
      BY <2>2, <2>7, Phases DEF RenameEditors
    <2>8. CASE DefaultHierarchy
      BY <2>2, <2>8, Phases DEF DefaultHierarchy
    <2>9. CASE SeedSuperAdmin
      BY <2>2, <2>9, Phases DEF SeedSuperAdmin
    <2>10. CASE SeedAdmin
      BY <2>2, <2>10, Phases DEF SeedAdmin
    <2>11. CASE StopOrphans
      BY <2>2, <2>11, Phases DEF StopOrphans
    <2>12. CASE Kill
      BY <2>2, <2>12, Phases DEF Kill
    <2>13. ASSUME NEW s \in Sessions, NEW d \in Devices, NEW address \in Addresses,
                  SeeDevice(s, d, address)
           PROVE  DevicesUpgraded'
      <3>1. phase = "up" /\ s \in SessionRows
        BY <2>13 DEF SeeDevice, ActiveWhenUp, TypeOK
      <3>2. session[s].org \in 1 .. orgs /\ session[s].org # Null /\ session[s].org # Missing
        BY <3>1, Phases DEF SessionsUpgraded, Unset
      <3>3. orgs' = orgs /\ phase' = phase /\ index' = index
        BY <2>13 DEF SeeDevice, tree
      <3>4. device'[d] = [org |-> session[s].org, address |-> address]
        BY <2>13 DEF SeeDevice, TypeOK
      <3>5. ASSUME NEW e \in DeviceRows', e # d
            PROVE  e \in DeviceRows /\ device'[e] = device[e]
        BY <2>13, <3>5 DEF SeeDevice, DeviceRows, TypeOK
      <3> QED
        BY <3>2, <3>3, <3>4, <3>5 DEF DevicesUpgraded
    <2>14. CASE UNCHANGED <<phase, device, index>>
      BY <2>2, <2>14
    <2> QED
      BY <2>3, <2>4, <2>5, <2>6, <2>7, <2>8, <2>9, <2>10, <2>11, <2>12, <2>13, <2>14
      DEF Next, Upgrade, CreateOrganization, CreateSite, CreateZone, CreateSensor, Capture,
          EndSession, vars
  <1> QED
    BY <1>1, <1>2

LEMMA UsersUpgradedInductive ==
    /\ Init => UsersUpgraded
    /\ TypeOK /\ UsersUpgraded /\ [Next]_vars => UsersUpgraded'
  <1>1. ASSUME Init
        PROVE  UsersUpgraded
    <2>1. phase \notin FromOrganizations /\ phase \notin FromIndex /\ phase \notin FromHierarchy
      BY <1>1, Phases DEF Init
    <2>2. \A u \in UserRows : user[u].org \in Unset \cup 1 .. orgs
      BY <1>1 DEF Init, Flat, Tenants, Fresh, UserRows, Unset
    <2> QED
      BY <2>1, <2>2 DEF UsersUpgraded
  <1>2. ASSUME TypeOK, UsersUpgraded, [Next]_vars
        PROVE  UsersUpgraded'
    <2> USE <1>2
    <2>1. 1 .. orgs \subseteq 1 .. orgs' /\ orgs \in Nat /\ orgs' \in Nat
      BY OrganizationsStay, OrgIds
    <2>2. ASSUME UNCHANGED user,
                 phase' \in FromOrganizations => phase \in FromOrganizations,
                 phase' \in FromIndex => phase \in FromIndex,
                 phase' \in FromHierarchy => phase \in FromHierarchy
          PROVE  UsersUpgraded'
      BY <2>1, <2>2 DEF UsersUpgraded, UserRows
    <2>3. CASE Start
      BY <2>2, <2>3, Phases DEF Start
    <2>4. CASE AddMissingColumns
      <3>1. ASSUME NEW u \in UserRows'
            PROVE  /\ u \in UserRows
                   /\ user'[u] = [user[u] EXCEPT !.org = Added(@)]
        BY <2>4, <3>1 DEF AddMissingColumns, UserRows
      <3>2. ASSUME NEW u \in UserRows'
            PROVE  user'[u].org \in Unset \cup 1 .. orgs /\ user'[u].org # Missing
        <4>1. user[u] \in User /\ user[u].org \in Unset \cup 1 .. orgs
          BY <3>1, <3>2, RowTypes DEF UsersUpgraded
        <4>2. user'[u].org = Added(user[u].org)
          BY <3>1, <3>2, <4>1 DEF User
        <4> QED
          BY <4>1, <4>2, AbsenceAssumption DEF Added, Unset
      <3>3. orgs' = orgs /\ phase' \notin FromIndex /\ phase' \notin FromHierarchy
        BY <2>4, Phases DEF AddMissingColumns, tree
      <3> QED
        BY <3>2, <3>3 DEF UsersUpgraded
    <2>5. CASE BackfillOrganizations
      <3>1. phase \in FromOrganizations /\ phase' \notin FromHierarchy
        BY <2>5, Phases DEF BackfillOrganizations
      <3>2. ASSUME NEW u \in UserRows'
            PROVE  u \in UserRows /\ user'[u] = Owned(user[u]) /\ user[u] \in User
        <4>1. u \in Users /\ user'[u] = Owned(user[u])
          BY <2>5, <3>2 DEF BackfillOrganizations, UserRows
        <4>2. user[u] # Unused
          BY <3>2, <4>1 DEF Owned, UserRows
        <4> QED
          BY <4>1, <4>2, RowTypes DEF UserRows
      <3>3. orgs' = OrgsMade /\ (orgs > 0 => OrgsMade = orgs)
        BY <2>1, <2>5 DEF BackfillOrganizations, OrgsMade
      <3>4. ASSUME NEW u \in UserRows, user[u].org = Null
            PROVE  OrgsMade > 0
        BY <2>1, <3>3, <3>4 DEF OrgsMade, NeedsBackfill
      <3>5. ASSUME NEW u \in UserRows'
            PROVE  user'[u].org \in 1 .. orgs'
        <4>1. user[u].org # Missing /\ user[u].org \in Unset \cup 1 .. orgs
          BY <3>1, <3>2, <3>5 DEF UsersUpgraded
        <4>2. CASE user[u].org = Null
          <5>1. 1 \in 1 .. orgs'
            BY <2>1, <3>2, <3>3, <3>4, <3>5, <4>2 DEF OrgsMade
          <5> QED
            BY <3>2, <3>4, <3>5, <4>2, <5>1 DEF Owned, User, UserRows
        <4>3. CASE user[u].org # Null
          BY <2>1, <3>2, <3>5, <4>1, <4>3 DEF Owned, User, UserRows, Unset
        <4> QED
          BY <4>2, <4>3
      <3>6. Null \notin 1 .. orgs' /\ Missing \notin 1 .. orgs'
        BY OrganizationsStay
      <3> QED
        BY <3>1, <3>5, <3>6 DEF UsersUpgraded
    <2>6. CASE RebuildDeviceIndex
      BY <2>2, <2>6, Phases DEF RebuildDeviceIndex
    <2>7. CASE RenameEditors
      <3>1. ASSUME NEW u \in UserRows'
            PROVE  /\ u \in UserRows /\ user'[u].org = user[u].org /\ user'[u].role # "editor"
                   /\ user[u].role = "super_admin" => user'[u].role = "super_admin"
        <4>1. u \in UserRows /\ user[u] \in User
          BY <2>7, <3>1, RowTypes DEF RenameEditors, UserRows
        <4> QED
          BY <2>7, <4>1 DEF RenameEditors, User, UserRows
      <3>2. phase \in FromOrganizations /\ phase \in FromIndex /\ orgs' = orgs
        BY <2>7, Phases DEF RenameEditors, tree
      <3> QED
        BY <3>1, <3>2 DEF UsersUpgraded
    <2>8. CASE DefaultHierarchy
      BY <2>2, <2>8, Phases DEF DefaultHierarchy
    <2>9. ASSUME phase \in FromHierarchy,
                 NEW o, NEW role \in {"admin", "super_admin"}, AddUser(o, role),
                 o \in 1 .. orgs' \/ (o = Null /\ role = "super_admin")
          PROVE  UsersUpgraded'
      <3>1. PICK new \in Users \ UserRows : user' = [user EXCEPT ![new] = [org |-> o, role |-> role]]
        BY <2>9 DEF AddUser
      <3>2. ASSUME NEW u \in UserRows', u # new
            PROVE  u \in UserRows /\ user'[u] = user[u]
        BY <3>1, <3>2 DEF UserRows, TypeOK
      <3>3. user'[new].org = o /\ user'[new].role = role
        BY <3>1 DEF TypeOK
      <3>4. Null # Missing /\ (o \in 1 .. orgs' => o \notin Unset)
        BY OrganizationsStay, AbsenceAssumption DEF Unset
      <3>5. phase \in FromOrganizations /\ phase \in FromIndex
        BY <2>9, Phases
      <3>6. ASSUME NEW u \in UserRows', u # new
            PROVE  /\ user'[u].org \in Unset \cup 1 .. orgs' /\ user'[u].org # Missing
                   /\ user'[u].org # Null \/ user'[u].role = "super_admin"
                   /\ user'[u].role # "editor"
        BY <2>1, <2>9, <3>2, <3>5, <3>6 DEF UsersUpgraded
      <3>7. /\ user'[new].org \in Unset \cup 1 .. orgs' /\ user'[new].org # Missing
            /\ user'[new].org # Null \/ user'[new].role = "super_admin"
            /\ user'[new].role # "editor"
        BY <2>9, <3>3, <3>4 DEF Unset
      <3> QED
        BY <3>6, <3>7 DEF UsersUpgraded
    <2>10. CASE SeedSuperAdmin
      <3>1. phase \in FromHierarchy
        BY <2>10, Phases DEF SeedSuperAdmin
      <3>2. CASE AddUser(Null, "super_admin")
        BY <2>9, <3>1, <3>2
      <3>3. CASE UNCHANGED user
        BY <2>2, <2>10, <3>3, Phases DEF SeedSuperAdmin
      <3> QED
        BY <2>10, <3>2, <3>3 DEF SeedSuperAdmin
    <2>11. CASE SeedAdmin
      <3>1. phase \in FromHierarchy
        BY <2>11, Phases DEF SeedAdmin
      <3>2. CASE AddUser(1, "admin") /\ orgs' = AtLeastOne(orgs)
        <4>1. 1 \in 1 .. orgs'
          BY <2>1, <3>2 DEF AtLeastOne
        <4> QED
          BY <2>9, <3>1, <3>2, <4>1
      <3>3. CASE UNCHANGED user
        BY <2>2, <2>11, <3>3, Phases DEF SeedAdmin
      <3> QED
        BY <2>11, <3>2, <3>3 DEF SeedAdmin
    <2>12. CASE StopOrphans
      BY <2>2, <2>12, Phases DEF StopOrphans
    <2>13. CASE Kill
      BY <2>2, <2>13, Phases DEF Kill
    <2>14. ASSUME NEW by \in Users, CreateOrganization(by)
           PROVE  UsersUpgraded'
      <3>1. phase \in FromHierarchy /\ AddUser(orgs + 1, "admin") /\ orgs' = orgs + 1
        BY <2>14, Phases DEF CreateOrganization, Requests
      <3>2. orgs + 1 \in 1 .. orgs'
        BY <2>1, <3>1
      <3> QED
        BY <2>9, <3>1, <3>2
    <2>15. CASE UNCHANGED <<phase, user>>
      BY <2>2, <2>15
    <2> QED
      BY <2>3, <2>4, <2>5, <2>6, <2>7, <2>8, <2>10, <2>11, <2>12, <2>13, <2>14, <2>15
      DEF Next, Upgrade, CreateSite, CreateZone, CreateSensor, Capture, EndSession, SeeDevice, vars
  <1> QED
    BY <1>1, <1>2

-----------------------------------------------------------------------------
LEMMA AddressesInductive ==
    /\ Init => FlatAddresses /\ AddressesStayUnique
    /\ TypeOK /\ SessionsUpgraded /\ ActiveWhenUp /\ DevicesUpgraded
       /\ FlatAddresses /\ AddressesStayUnique /\ [Next]_vars
          => FlatAddresses' /\ AddressesStayUnique'
  <1>1. ASSUME Init
        PROVE  FlatAddresses /\ AddressesStayUnique
    <2>1. CASE Flat
      BY <2>1 DEF Flat, FlatAddresses, AddressesStayUnique, SameKey
    <2>2. CASE Tenants
      <3>1. \A d \in DeviceRows : device[d] \in Device /\ device[d].org \in 1 .. orgs
        BY <2>2 DEF Tenants, DeviceRows
      <3>2. \A d \in DeviceRows : device[d].org \notin Unset
        <4>1. orgs \in Org
          BY <2>2 DEF Tenants
        <4>2. 1 .. orgs \subseteq Org
          BY <4>1, StartupAssumption DEF Org
        <4> QED
          BY <3>1, <4>2, AbsenceAssumption
      <3>3. \A d, e \in DeviceRows : ~SameKey(d, e)
        BY <2>2, <3>1 DEF Tenants, SameKey, Device
      <3> QED
        BY <3>2, <3>3 DEF FlatAddresses, AddressesStayUnique
    <2>3. CASE Fresh
      BY <2>3 DEF Fresh, FlatAddresses, AddressesStayUnique, DeviceRows
    <2> QED
      BY <1>1, <2>1, <2>2, <2>3 DEF Init
  <1>2. ASSUME TypeOK, SessionsUpgraded, ActiveWhenUp, DevicesUpgraded,
               FlatAddresses, AddressesStayUnique, [Next]_vars
        PROVE  FlatAddresses' /\ AddressesStayUnique'
    <2> USE <1>2
    <2>1. CASE AddMissingColumns
      <3>1. ASSUME NEW d \in DeviceRows'
            PROVE  /\ d \in DeviceRows /\ device'[d].address = device[d].address
                   /\ device'[d].org = Added(device[d].org)
        BY <2>1, <3>1, RowTypes DEF AddMissingColumns, DeviceRows, Device
      <3>2. \A o : Added(o) \in Unset => o \in Unset
        BY DEF Added, Unset
      <3>3. ASSUME NEW d \in DeviceRows', NEW e \in DeviceRows'
            PROVE  /\ device'[d].org \in Unset => d = e \/ device'[d].address # device'[e].address
                   /\ ~SameKey(d, e)'
        <4>1. device'[d].org \in Unset => d = e \/ device'[d].address # device'[e].address
          BY <3>1, <3>2, <3>3 DEF FlatAddresses
        <4>2. CASE device'[d].org \notin Unset
          <5>1. device[d].org \notin Unset /\ device'[d].org = device[d].org
            BY <3>1, <3>3, <4>2 DEF Added, Unset
          <5>2. device'[e].org = device'[d].org => device[e].org = device[d].org
            BY <3>1, <3>3, <4>2, <5>1 DEF Added, Unset
          <5> QED
            BY <3>1, <3>3, <5>1, <5>2 DEF AddressesStayUnique, SameKey
        <4> QED
          BY <4>1, <4>2 DEF SameKey
      <3> QED
        BY <3>3 DEF FlatAddresses, AddressesStayUnique
    <2>2. CASE BackfillOrganizations
      <3>1. ASSUME NEW d \in DeviceRows'
            PROVE  /\ d \in DeviceRows /\ device'[d].address = device[d].address
                   /\ device[d].org # Null => device'[d].org = device[d].org
                   /\ device'[d].org \in Unset => device[d].org \in Unset
        <4>1. d \in Devices /\ device'[d] = Owned(device[d])
          BY <2>2, <3>1 DEF BackfillOrganizations, DeviceRows
        <4>2. d \in DeviceRows
          BY <3>1, <4>1 DEF Owned, DeviceRows
        <4>3. device[d] \in Device
          BY <4>2, RowTypes
        <4> QED
          BY <4>1, <4>2, <4>3 DEF Owned, Device, Unset
      <3>2. ASSUME NEW d \in DeviceRows', NEW e \in DeviceRows'
            PROVE  /\ device'[d].org \in Unset => d = e \/ device'[d].address # device'[e].address
                   /\ ~SameKey(d, e)'
        <4>1. device'[d].org \in Unset => d = e \/ device'[d].address # device'[e].address
          BY <3>1, <3>2 DEF FlatAddresses
        <4>2. CASE device[d].org = Null \/ device[e].org = Null
          <5>1. d = e \/ device'[d].address # device'[e].address
            BY <3>1, <3>2, <4>2 DEF FlatAddresses, Unset
          <5> QED
            BY <4>1, <5>1 DEF SameKey
        <4>3. CASE device[d].org # Null /\ device[e].org # Null
          <5>1. ~SameKey(d, e)
            BY <3>1, <3>2 DEF AddressesStayUnique
          <5> QED
            BY <3>1, <3>2, <4>1, <4>3, <5>1 DEF SameKey
        <4> QED
          BY <4>1, <4>2, <4>3
      <3> QED
        BY <3>2 DEF FlatAddresses, AddressesStayUnique
    <2>3. ASSUME NEW s \in Sessions, NEW d \in Devices, NEW address \in Addresses,
                 SeeDevice(s, d, address)
          PROVE  FlatAddresses' /\ AddressesStayUnique'
      <3>1. phase = "up" /\ s \in SessionRows
        BY <2>3 DEF SeeDevice, ActiveWhenUp, TypeOK
      <3>2. session[s].org \notin Unset
        BY <3>1, Phases DEF SessionsUpgraded, Unset
      <3>3. device' = [device EXCEPT ![d] = [org |-> session[s].org, address |-> address]]
            /\ d \notin DeviceRows
        BY <2>3 DEF SeeDevice, DeviceRows
      <3>4. ASSUME NEW e \in DeviceRows', e # d
            PROVE  e \in DeviceRows /\ device'[e] = device[e] /\ device[e].org \notin Unset
        <4>1. e \in DeviceRows /\ device'[e] = device[e]
          BY <3>3, <3>4 DEF DeviceRows, TypeOK
        <4> QED
          BY <3>1, <4>1, Phases DEF DevicesUpgraded, Unset
      <3>5. device'[d].org = session[s].org /\ device'[d].address = address
        BY <3>3 DEF TypeOK
      <3>6. ASSUME NEW e \in DeviceRows', e # d
            PROVE  device'[e].org # session[s].org \/ device'[e].address # address
        <4>1. device[e] \in Device /\ device[e] # [org |-> session[s].org, address |-> address]
          BY <2>3, <3>4, <3>6, RowTypes DEF SeeDevice
        <4> QED
          BY <3>4, <3>6, <4>1 DEF Device
      <3>7. FlatAddresses'
        BY <3>2, <3>4, <3>5 DEF FlatAddresses
      <3>8. AddressesStayUnique'
        BY <3>4, <3>5, <3>6 DEF AddressesStayUnique, SameKey
      <3> QED
        BY <3>7, <3>8
    <2>4. CASE UNCHANGED device
      BY <2>4 DEF FlatAddresses, AddressesStayUnique, SameKey, DeviceRows
    <2> QED
      BY <2>1, <2>2, <2>3, <2>4 DEF Next, Upgrade, Start, RebuildDeviceIndex, RenameEditors,
         DefaultHierarchy, SeedSuperAdmin, SeedAdmin, StopOrphans, Kill, CreateOrganization,
         CreateSite, CreateZone, CreateSensor, Capture, EndSession, vars
  <1> QED
    BY <1>1, <1>2

-----------------------------------------------------------------------------
\* The sensor and the organization of what a row of Session has.
Attached == SensorsComeWithTheirSessions /\ SensorsAreTheTenants /\ LiveCapturesHaveLiveSensors

\* Sensors stay, and stay of their kind.
LEMMA SensorsStay ==
    ASSUME TypeOK, [Next]_vars, NEW s \in SensorRows
    PROVE  s \in SensorRows' /\ KindOf(s)' = KindOf(s)
  <1>1. s \in Sensor /\ s[1] \in Zone /\ s[2] \in 1 .. MaxSensors /\ s[2] <= Len(sensors[s[1]])
    BY SensorParts DEF SensorRows
  <1>2. CASE sensors' = sensors
    BY <1>1, <1>2 DEF SensorRows, KindOf
  <1>3. CASE DefaultHierarchy
    <2>1. sensors[s[1]] # <<>>
      BY <1>1, StartupAssumption
    <2>2. sensors'[s[1]] = sensors[s[1]]
      BY <1>1, <1>3, <2>1 DEF DefaultHierarchy
    <2> QED
      BY <1>1, <2>2 DEF SensorRows, KindOf
  <1>4. ASSUME NEW by \in Users, NEW z \in Zone, NEW kind \in Kind, CreateSensor(by, z, kind)
        PROVE  s \in SensorRows' /\ KindOf(s)' = KindOf(s)
    <2>1. sensors' = [sensors EXCEPT ![z] = Append(sensors[z], kind)] /\ sensors[z] \in Seq(Kind)
      BY <1>4 DEF CreateSensor, TypeOK
    <2>2. CASE s[1] = z
      <3>1. sensors'[z] = Append(sensors[z], kind)
        BY <2>1 DEF TypeOK
      <3>2. s[2] \in Nat /\ s[2] >= 1 /\ s[2] <= Len(sensors[z])
        BY <1>1, <2>2, StartupAssumption
      <3>3. Len(Append(sensors[z], kind)) = Len(sensors[z]) + 1
            /\ Append(sensors[z], kind)[s[2]] = sensors[z][s[2]]
        BY <2>1, <3>2
      <3>4. s[2] <= Len(sensors'[z]) /\ sensors'[z][s[2]] = sensors[z][s[2]]
        BY <2>1, <3>1, <3>2, <3>3
      <3> QED
        BY <1>1, <2>2, <3>4 DEF SensorRows, KindOf
    <2>3. CASE s[1] # z
      BY <1>1, <2>1, <2>3 DEF SensorRows, KindOf, TypeOK
    <2> QED
      BY <2>2, <2>3
  <1> QED
    BY <1>2, <1>3, <1>4 DEF Next, Upgrade, Start, AddMissingColumns, BackfillOrganizations,
       RebuildDeviceIndex, RenameEditors, SeedSuperAdmin, SeedAdmin, StopOrphans, Kill,
       CreateOrganization, CreateSite, CreateZone, Capture, EndSession, SeeDevice, tree, vars

LEMMA AttachedInductive ==
    /\ Init => Attached
    /\ TypeOK /\ Rooted /\ SessionsUpgraded /\ ActiveWhenUp /\ Attached /\ [Next]_vars => Attached'
  <1>1. ASSUME Init
        PROVE  Attached
    <2>1. \A z \in Zone : sensors[z] = <<>>
      BY <1>1 DEF Init
    <2>2. \A s \in SessionRows : session[s].sensor \in Unset
      BY <1>1 DEF Init, Flat, Tenants, Fresh, SessionRows, Unset
    <2> QED
      BY <2>1, <2>2 DEF Attached, SensorsComeWithTheirSessions, SensorsAreTheTenants,
         LiveCapturesHaveLiveSensors
  <1>2. ASSUME TypeOK, Rooted, SessionsUpgraded, ActiveWhenUp, Attached, [Next]_vars
        PROVE  Attached'
    <2> USE <1>2
    <2> DEFINE NextKind(r) == sensors'[r[1]][r[2]]
    \* What is said of a row, when its sensor and its owner stay.
    <2>1. ASSUME NEW s \in SessionRows,
                 session'[s].org = session[s].org, session'[s].sensor = session[s].sensor,
                 session'[s].source = session[s].source
          PROVE  session'[s].sensor \notin Unset =>
                    /\ session'[s].sensor \in SensorRows' /\ Owner(session'[s].sensor) = session'[s].org
                    /\ session'[s].source = "live" => NextKind(session'[s].sensor) = "live"
      <3>1. ASSUME session[s].sensor \notin Unset
            PROVE  /\ session[s].sensor \in SensorRows /\ Owner(session[s].sensor) = session[s].org
                   /\ session[s].source = "live" => KindOf(session[s].sensor) = "live"
        BY <3>1 DEF Attached, SensorsAreTheTenants, LiveCapturesHaveLiveSensors
      <3>2. ASSUME NEW r \in SensorRows
            PROVE  r \in SensorRows' /\ NextKind(r) = KindOf(r)
        BY SensorsStay DEF KindOf
      <3>3. ASSUME NEW r \in SensorRows, KindOf(r) = "live"
            PROVE  NextKind(r) = "live"
        BY <3>2, <3>3
      <3> QED
        BY <2>1, <3>1, <3>2, <3>3 DEF KindOf
    <2>2. ASSUME sensors' = sensors \/ \A s \in SessionRows' : session'[s].sensor \notin Unset,
                 \A s \in SessionRows' :
                    /\ s \in SessionRows /\ session'[s].source = session[s].source
                    /\ session'[s].sensor \notin Unset \/ session[s].sensor \notin Unset
                          => /\ session'[s].org = session[s].org
                             /\ session'[s].sensor = session[s].sensor
          PROVE  Attached'
      <3>1. SensorsComeWithTheirSessions'
        BY <2>2 DEF Attached, SensorsComeWithTheirSessions
      <3>2. SensorsAreTheTenants'
        BY <2>1, <2>2 DEF SensorsAreTheTenants
      <3>3. LiveCapturesHaveLiveSensors'
        BY <2>1, <2>2 DEF LiveCapturesHaveLiveSensors, KindOf
      <3> QED
        BY <3>1, <3>2, <3>3 DEF Attached
    \* What has a sensor has an organization.
    <2>11. ASSUME NEW s \in SessionRows, session[s].sensor \notin Unset
           PROVE  session[s].org \notin Unset
      <3>1. session[s].sensor \in SensorRows /\ Owner(session[s].sensor) = session[s].org
        BY <2>11 DEF Attached, SensorsAreTheTenants
      <3>2. session[s].org \in Org
        BY <3>1, SensorParts DEF SensorRows
      <3> QED
        BY <3>2, AbsenceAssumption
    <2>3. CASE AddMissingColumns
      <3>1. ASSUME NEW s \in SessionRows'
            PROVE  /\ s \in SessionRows /\ session'[s].source = session[s].source
                   /\ session'[s].org = Added(session[s].org)
                   /\ session'[s].sensor = Added(session[s].sensor)
        BY <2>3, <3>1, RowTypes DEF AddMissingColumns, SessionRows, Session
      <3>2. \A v : v \in Unset <=> Added(v) \in Unset
        BY DEF Added, Unset
      <3>3. \A v : v \notin Unset => Added(v) = v
        BY DEF Added, Unset
      <3>4. ASSUME NEW s \in SessionRows',
                   session'[s].sensor \notin Unset \/ session[s].sensor \notin Unset
            PROVE  session'[s].org = session[s].org /\ session'[s].sensor = session[s].sensor
        BY <2>11, <3>1, <3>2, <3>3, <3>4
      <3>5. sensors' = sensors
        BY <2>3 DEF AddMissingColumns, tree
      <3> QED
        BY <2>2, <3>1, <3>4, <3>5
    <2>4. CASE BackfillOrganizations
      <3>1. ASSUME NEW s \in SessionRows'
            PROVE  /\ s \in SessionRows /\ session'[s].source = session[s].source
                   /\ session'[s].sensor = session[s].sensor
                   /\ session[s].org # Null => session'[s].org = session[s].org
        <4>1. s \in Sessions /\ session'[s] = Owned(session[s])
          BY <2>4, <3>1 DEF BackfillOrganizations, SessionRows
        <4>2. s \in SessionRows
          BY <3>1, <4>1 DEF Owned, SessionRows
        <4>3. session[s] \in Session
          BY <4>2, RowTypes
        <4> QED
          BY <4>1, <4>2, <4>3 DEF Owned, Session
      <3> QED
        BY <2>2, <2>4, <2>11, <3>1 DEF BackfillOrganizations, Unset
    <2>5. CASE DefaultHierarchy
      <3>1. ASSUME NEW s \in SessionRows'
            PROVE  /\ s \in SessionRows /\ session'[s] = Backfilled(session[s])
                   /\ session[s] \in Session /\ session[s].org \in 1 .. orgs
                   /\ session[s].sensor # Missing
        <4>1. s \in Sessions /\ session'[s] = Backfilled(session[s])
          BY <2>5, <3>1 DEF DefaultHierarchy, SessionRows
        <4>2. s \in SessionRows
          BY <3>1, <4>1 DEF Backfilled, SessionRows
        <4>3. phase \in FromOrganizations /\ phase \in FromIndex
          BY <2>5, Phases DEF DefaultHierarchy
        <4> QED
          BY <4>1, <4>2, <4>3, RowTypes DEF SessionsUpgraded, Unset
      <3>2. ASSUME NEW s \in SessionRows', session[s].sensor # Null
            PROVE  session'[s] = session[s]
        BY <3>1, <3>2 DEF Backfilled
      <3>3. ASSUME NEW s \in SessionRows', session[s].sensor = Null
            PROVE  /\ session'[s].sensor = FirstSensor(session[s].org)
                   /\ session'[s].org = session[s].org
                   /\ session'[s].sensor \in SensorRows' /\ session'[s].sensor \notin Unset
                   /\ Owner(session'[s].sensor) = session'[s].org
                   /\ NextKind(session'[s].sensor) = "live"
        <4>1. session[s] # Unused
          BY <3>1, <3>3 DEF SessionRows
        <4>2. session'[s].sensor = FirstSensor(session[s].org) /\ session'[s].org = session[s].org
          BY <3>1, <3>3, <4>1 DEF Backfilled, Session
        <4> DEFINE o == session[s].org
        <4>3. o \in Org /\ o <= orgs
          BY <3>1, <3>3, OrgIds
        <4>4. /\ FirstZone(o) \in Zone /\ FirstZone(o)[1] = o /\ FirstSensor(o) \in Sensor
              /\ FirstSensor(o)[1] = FirstZone(o) /\ FirstSensor(o)[2] = 1
              /\ Owner(FirstSensor(o)) = o
          BY <4>3, Firsts
        <4>5. sensors[FirstZone(o)] = <<>>
          BY <3>1, <3>3, <4>4 DEF Attached, SensorsComeWithTheirSessions, Unset
        <4>6. sensors'[FirstZone(o)] = <<"live">>
          BY <2>5, <4>3, <4>4, <4>5 DEF DefaultHierarchy
        <4>7. FirstSensor(o) \in SensorRows' /\ NextKind(FirstSensor(o)) = "live"
          <5>1. Len(sensors'[FirstZone(o)]) = 1 /\ sensors'[FirstZone(o)][1] = "live"
            BY <4>6
          <5> QED
            BY <4>4, <5>1 DEF SensorRows
        <4> QED
          BY <4>2, <4>4, <4>7, AbsenceAssumption
      <3>4. ASSUME NEW s \in SessionRows'
            PROVE  /\ session'[s].sensor \notin Unset
                   /\ session'[s].sensor \in SensorRows' /\ Owner(session'[s].sensor) = session'[s].org
                   /\ session'[s].source = "live" => NextKind(session'[s].sensor) = "live"
        <4>1. CASE session[s].sensor = Null
          BY <3>3, <4>1
        <4>2. CASE session[s].sensor # Null
          BY <2>1, <3>1, <3>2, <4>2 DEF Unset
        <4> QED
          BY <4>1, <4>2
      <3>5. SensorsComeWithTheirSessions'
        BY <3>4 DEF SensorsComeWithTheirSessions
      <3>6. SensorsAreTheTenants'
        BY <3>4 DEF SensorsAreTheTenants
      <3>7. LiveCapturesHaveLiveSensors'
        BY <3>4 DEF LiveCapturesHaveLiveSensors, KindOf
      <3> QED
        BY <3>5, <3>6, <3>7 DEF Attached
    <2>6. CASE StopOrphans
      <3>1. ASSUME NEW s \in SessionRows'
            PROVE  /\ s \in SessionRows
                   /\ session'[s].org = session[s].org /\ session'[s].sensor = session[s].sensor
                   /\ session'[s].source = session[s].source
        BY <2>6, <3>1, RowTypes DEF StopOrphans, SessionRows, Ended, Orphaned, Session
      <3> QED
        BY <2>2, <2>6, <3>1 DEF StopOrphans, tree
    <2>7. ASSUME NEW by \in Users, NEW z \in Zone, NEW kind \in Kind, CreateSensor(by, z, kind)
          PROVE  Attached'
      <3>1. \A s \in SessionRows : session[s].sensor \notin Unset
        <4>1. phase = "up" /\ phase \in FromOrganizations /\ phase \in FromSuperAdmin
          BY <2>7, Phases DEF CreateSensor, Requests
        <4> QED
          BY <4>1 DEF SessionsUpgraded, Unset
      <3> QED
        BY <2>2, <2>7, <3>1 DEF CreateSensor, SessionRows
    <2>8. ASSUME NEW by \in Users, NEW s \in Sessions, NEW asked \in Sensor \cup {Null},
                 NEW source \in {"live", "pcap"}, Capture(by, s, asked, source)
          PROVE  Attached'
      <3>1. PICK sensor \in SensorRows :
               /\ Resolves(by, asked, source, sensor)
               /\ session' = [session EXCEPT ![s] =
                    [org |-> Owner(sensor), sensor |-> sensor, source |-> source,
                     status |-> "running", drops |-> "number"]]
        BY <2>8 DEF Capture
      <3>2. source = "live" => KindOf(sensor) = "live"
        BY <3>1 DEF Resolves, Suitable
      <3>3. ASSUME NEW r \in SessionRows', r # s
            PROVE  r \in SessionRows /\ session'[r] = session[r]
        BY <3>1, <3>3 DEF SessionRows, TypeOK
      <3>4. /\ session'[s].org = Owner(sensor) /\ session'[s].sensor = sensor
            /\ session'[s].source = source
        BY <3>1 DEF TypeOK
      <3>5. sensors' = sensors /\ SensorRows' = SensorRows
        BY <2>8 DEF Capture, tree, SensorRows
      <3>6. sensor \in SensorRows' /\ sensor \notin Unset
            /\ (source = "live" => NextKind(sensor) = "live")
        BY <3>2, <3>5, AbsenceAssumption DEF KindOf, SensorRows
      <3>7. SensorsComeWithTheirSessions'
        BY <3>3, <3>4, <3>5, <3>6 DEF Attached, SensorsComeWithTheirSessions
      <3>8. SensorsAreTheTenants'
        BY <2>1, <3>3, <3>4, <3>6 DEF SensorsAreTheTenants
      <3>9. LiveCapturesHaveLiveSensors'
        <4>1. ASSUME NEW r \in SessionRows', session'[r].source = "live",
                     session'[r].sensor \notin Unset
              PROVE  NextKind(session'[r].sensor) = "live"
          <5>1. CASE r # s
            BY <2>1, <3>3, <4>1, <5>1
          <5>2. CASE r = s
            BY <3>4, <3>5, <3>6, <4>1, <5>2 DEF KindOf
          <5> QED
            BY <5>1, <5>2
        <4> QED
          BY <4>1 DEF LiveCapturesHaveLiveSensors, KindOf
      <3> QED
        BY <3>7, <3>8, <3>9 DEF Attached
    <2>9. ASSUME NEW s \in Sessions, EndSession(s)
          PROVE  Attached'
      <3>1. s \in SessionRows /\ session[s] \in Session
        BY <2>9, RowTypes DEF EndSession, TypeOK
      <3>2. ASSUME NEW r \in SessionRows'
            PROVE  /\ r \in SessionRows
                   /\ session'[r].org = session[r].org /\ session'[r].sensor = session[r].sensor
                   /\ session'[r].source = session[r].source
        BY <2>9, <3>1, <3>2 DEF EndSession, SessionRows, Ended, Session, TypeOK
      <3> QED
        BY <2>2, <2>9, <3>2 DEF EndSession, tree
    <2>10. CASE UNCHANGED <<session, sensors>>
      BY <2>2, <2>10 DEF SessionRows
    <2> QED
      BY <2>3, <2>4, <2>5, <2>6, <2>7, <2>8, <2>9, <2>10 DEF Next, Upgrade, Start,
         RebuildDeviceIndex, RenameEditors, SeedSuperAdmin, SeedAdmin, Kill, CreateOrganization,
         CreateSite, CreateZone, SeeDevice, tree, vars
  <1> QED
    BY <1>1, <1>2

-----------------------------------------------------------------------------
LEMMA ActiveInductive ==
    /\ Init => ActiveWhenUp /\ OnlyUploadsAreOrphaned
    /\ TypeOK /\ ActiveWhenUp /\ OnlyUploadsAreOrphaned /\ [Next]_vars
          => ActiveWhenUp' /\ OnlyUploadsAreOrphaned'
  <1>1. ASSUME Init
        PROVE  ActiveWhenUp /\ OnlyUploadsAreOrphaned
    BY <1>1 DEF Init, ActiveWhenUp, OnlyUploadsAreOrphaned
  <1>2. ASSUME TypeOK, ActiveWhenUp, OnlyUploadsAreOrphaned, [Next]_vars
        PROVE  ActiveWhenUp' /\ OnlyUploadsAreOrphaned'
    <2> USE <1>2
    <2>1. CASE Start \/ (Upgrade /\ ~StopOrphans) \/ Kill
      <3>1. active' = {} /\ phase' # "up"
        BY <2>1 DEF Start, Upgrade, Kill, AddMissingColumns, BackfillOrganizations,
           RebuildDeviceIndex, RenameEditors, DefaultHierarchy, SeedSuperAdmin, SeedAdmin,
           ActiveWhenUp
      <3> QED
        BY <3>1 DEF ActiveWhenUp, OnlyUploadsAreOrphaned
    <2>2. CASE StopOrphans
      <3>1. ASSUME NEW s \in SessionRows', session'[s].status = "running"
            PROVE  session'[s].source = "pcap"
        <4>1. s \in SessionRows /\ session[s] \in Session
          BY <2>2, <3>1, RowTypes DEF StopOrphans, SessionRows, Orphaned
        <4>2. ~Orphaned(session[s]) /\ session'[s] = session[s]
          BY <2>2, <3>1, <4>1 DEF StopOrphans, SessionRows, Ended, Session
        <4> QED
          BY <3>1, <4>1, <4>2 DEF Orphaned, SessionRows, Session
      <3> QED
        BY <2>2, <3>1 DEF StopOrphans, ActiveWhenUp, OnlyUploadsAreOrphaned
    <2>3. ASSUME NEW by \in Users, NEW s \in Sessions, NEW asked \in Sensor \cup {Null},
                 NEW source \in {"live", "pcap"}, Capture(by, s, asked, source)
          PROVE  ActiveWhenUp' /\ OnlyUploadsAreOrphaned'
      <3>1. phase = "up" /\ phase' = "up" /\ active' = active \cup {s}
        BY <2>3 DEF Capture, Requests
      <3>2. ASSUME NEW r \in SessionRows', r # s
            PROVE  r \in SessionRows /\ session'[r] = session[r]
        BY <2>3, <3>2 DEF Capture, SessionRows, TypeOK
      <3> QED
        BY <3>1, <3>2 DEF ActiveWhenUp, OnlyUploadsAreOrphaned
    <2>4. ASSUME NEW s \in Sessions, EndSession(s)
          PROVE  ActiveWhenUp' /\ OnlyUploadsAreOrphaned'
      <3>1. phase = "up" /\ phase' = "up" /\ active' = active \ {s}
        BY <2>4 DEF EndSession, ActiveWhenUp
      <3>2. session[s] \in Session /\ s \in SessionRows
        BY <2>4, RowTypes DEF EndSession, TypeOK
      <3>3. session'[s].status = "ended"
        BY <2>4, <3>2 DEF EndSession, Ended, TypeOK, Session
      <3>4. ASSUME NEW r \in SessionRows', r # s
            PROVE  r \in SessionRows /\ session'[r] = session[r]
        BY <2>4, <3>4 DEF EndSession, SessionRows, TypeOK
      <3> QED
        BY <3>1, <3>3, <3>4 DEF ActiveWhenUp, OnlyUploadsAreOrphaned
    <2>5. CASE UNCHANGED <<phase, session, active>>
      BY <2>5 DEF ActiveWhenUp, OnlyUploadsAreOrphaned, SessionRows
    <2> QED
      BY <2>1, <2>2, <2>3, <2>4, <2>5 DEF Next, CreateOrganization, CreateSite, CreateZone,
         CreateSensor, SeeDevice, vars
  <1> QED
    BY <1>1, <1>2

LEMMA OrganizationsFirstInductive ==
    /\ Init => OrganizationsComeFirst
    /\ TypeOK /\ ActiveWhenUp /\ OrganizationsComeFirst /\ [Next]_vars => OrganizationsComeFirst'
  <1>1. ASSUME Init
        PROVE  OrganizationsComeFirst
    BY <1>1, Phases DEF Init, OrganizationsComeFirst
  <1>2. ASSUME TypeOK, ActiveWhenUp, OrganizationsComeFirst, [Next]_vars
        PROVE  OrganizationsComeFirst'
    <2> USE <1>2
    <2>1. CASE phase' \notin FromIndex \/ phase' = "up"
      BY <2>1, Phases DEF OrganizationsComeFirst
    <2>2. CASE BackfillOrganizations
      BY <2>2, OrgIds, Phases DEF BackfillOrganizations, OrgsMade, OrganizationsComeFirst
    <2>3. CASE RebuildDeviceIndex
      BY <2>3, Phases DEF RebuildDeviceIndex, OrganizationsComeFirst, tree
    <2>4. CASE RenameEditors
      BY <2>4, Phases DEF RenameEditors, OrganizationsComeFirst, tree
    <2>5. CASE DefaultHierarchy
      <3>1. phase \in FromIndex /\ phase # "up" /\ orgs' = orgs /\ super' = super
            /\ phase' = "super_admin"
        BY <2>5, Phases DEF DefaultHierarchy
      <3>2. ASSUME NEW o \in 1 .. orgs
            PROVE  sensors'[FirstZone(o)] # <<>>
        <4>1. o \in Org /\ o <= orgs /\ FirstZone(o) \in Zone /\ FirstZone(o)[1] = o
          BY OrgIds, Firsts
        <4>2. \/ sensors'[FirstZone(o)] = <<"live">>
              \/ sensors'[FirstZone(o)] = sensors[FirstZone(o)] /\ sensors[FirstZone(o)] # <<>>
          BY <2>5, <4>1 DEF DefaultHierarchy
        <4> QED
          BY <4>2
      <3> QED
        BY <3>1, <3>2 DEF OrganizationsComeFirst
    <2>6. CASE SeedSuperAdmin
      <3>1. phase \in FromIndex /\ phase \in FromSuperAdmin \ {"up"} /\ phase' = "admin"
            /\ UNCHANGED <<super, orgs, sensors>>
        BY <2>6, Phases DEF SeedSuperAdmin, tree
      <3>2. ASSUME super
            PROVE  UserRows' # {}
        <4>1. CASE \E u \in UserRows : user[u].role = "super_admin"
          BY <2>6, <4>1 DEF SeedSuperAdmin, UserRows
        <4>2. CASE AddUser(Null, "super_admin")
          <5>1. PICK u \in Users \ UserRows :
                   user' = [user EXCEPT ![u] = [org |-> Null, role |-> "super_admin"]]
            BY <4>2 DEF AddUser
          <5>2. [org |-> Null, role |-> "super_admin"] \in User
            BY DEF User, Unset
          <5> QED
            BY <5>1, <5>2, AbsenceAssumption DEF UserRows, TypeOK
        <4> QED
          BY <2>6, <3>2, <4>1, <4>2 DEF SeedSuperAdmin
      <3> QED
        BY <3>1, <3>2, Phases DEF OrganizationsComeFirst
    <2>7. CASE SeedAdmin
      <3>1. phase = "admin" /\ phase \in FromIndex /\ phase \in FromSuperAdmin \ {"up"}
            /\ phase' = "sweep" /\ UNCHANGED <<super, sensors>>
        BY <2>7, Phases DEF SeedAdmin
      <3>2. orgs' = orgs
        <4>1. CASE UserRows = {}
          <5>1. orgs # 0
            BY <3>1, <4>1 DEF OrganizationsComeFirst
          <5> QED
            BY <2>7, <4>1, <5>1 DEF SeedAdmin, AtLeastOne
        <4>2. CASE UserRows # {}
          BY <2>7, <4>2 DEF SeedAdmin
        <4> QED
          BY <4>1, <4>2
      <3> QED
        BY <3>1, <3>2, Phases DEF OrganizationsComeFirst
    <2>8. CASE UNCHANGED vars
      BY <2>8 DEF vars, tree, OrganizationsComeFirst, UserRows
    <2>9. CASE Start \/ AddMissingColumns \/ StopOrphans \/ Kill
      BY <2>1, <2>9, Phases DEF Start, AddMissingColumns, StopOrphans, Kill
    <2>10. ASSUME phase = "up", phase' = phase
           PROVE  OrganizationsComeFirst'
      BY <2>1, <2>10
    <2>11. ASSUME NEW by \in Users, Requests(by), phase' = phase
           PROVE  OrganizationsComeFirst'
      BY <2>10, <2>11 DEF Requests
    <2>12. ASSUME NEW s \in Sessions, s \in active, phase' = phase
           PROVE  OrganizationsComeFirst'
      BY <2>10, <2>12 DEF ActiveWhenUp
    <2>13. CASE Upgrade
      BY <2>2, <2>3, <2>4, <2>5, <2>6, <2>7, <2>9, <2>13 DEF Upgrade
    <2> QED
      BY <2>8, <2>9, <2>11, <2>12, <2>13 DEF Next, CreateOrganization, CreateSite, CreateZone,
         CreateSensor, Capture, EndSession, SeeDevice
  <1> QED
    BY <1>1, <1>2

-----------------------------------------------------------------------------
LEMMA Inductive ==
    /\ Init => IInv
    /\ IInv /\ [Next]_vars => IInv'
  BY TypeInductive, RootedInductive, SessionsUpgradedInductive, DevicesUpgradedInductive,
     UsersUpgradedInductive, AddressesInductive, AttachedInductive, ActiveInductive,
     OrganizationsFirstInductive
  DEF IInv, Attached

LEMMA Invariance == Spec => []IInv
  BY Inductive, PTL DEF Spec

\* No step of a start, and no request, leaves the rows malformed.
THEOREM TypeCorrect == Spec => []TypeOK
  <1>1. IInv => TypeOK
    BY DEF IInv
  <1> QED
    BY <1>1, Invariance, PTL

\* A capture's sensor is one of its own organization, in databases of any age
\* (_ensure_default_site_zone_sensor_and_backfill, _resolve_capture_sensor).
THEOREM SensorsBelongToTheirTenants == Spec => []SensorsAreTheTenants
  <1>1. IInv => SensorsAreTheTenants
    BY DEF IInv
  <1> QED
    BY <1>1, Invariance, PTL

\* No live capture is attached to an external sensor, not even by the backfill.
THEOREM LiveSensorsForLiveCaptures == Spec => []LiveCapturesHaveLiveSensors
  <1>1. IInv => LiveCapturesHaveLiveSensors
    BY DEF IInv
  <1> QED
    BY <1>1, Invariance, PTL

\* After init_db nothing is left of older schemas, wherever earlier starts were
\* killed.
THEOREM UpgradeCompletes == Spec => []UpgradedWhenUp
  <1>1. IInv => UpgradedWhenUp
    <2> SUFFICES ASSUME IInv, phase = "up"
                 PROVE  UpgradedWhenUp
      BY DEF UpgradedWhenUp
    <2>1. /\ phase \in FromOrganizations /\ phase \in FromIndex /\ phase \in FromRoles
          /\ phase \in FromHierarchy /\ phase \in FromSuperAdmin
      BY Phases
    <2> QED
      BY <2>1 DEF IInv, SessionsUpgraded, DevicesUpgraded, UsersUpgraded, UpgradedWhenUp, Unset,
         IsSuper
  <1> QED
    BY <1>1, Invariance, PTL

\* _rebuild_device_unique_constraint never meets two devices of one key.
THEOREM IndexCanBeBuilt == Spec => []AddressesStayUnique
  <1>1. IInv => AddressesStayUnique
    BY DEF IInv
  <1> QED
    BY <1>1, Invariance, PTL

\* mark_orphaned_live_sessions_stopped leaves no live session of another process.
THEOREM LiveOrphansAreStopped == Spec => []OnlyUploadsAreOrphaned
  <1>1. IInv => OnlyUploadsAreOrphaned
    BY DEF IInv
  <1> QED
    BY <1>1, Invariance, PTL

\* seed_default_admin makes no organization that has no sensor.
THEOREM OrganizationsHaveSensors == Spec => []EveryOrganizationCanCapture
  <1>1. IInv => EveryOrganizationCanCapture
    <2> SUFFICES ASSUME IInv, phase = "sweep", NEW o \in 1 .. orgs
                 PROVE  \E s \in SensorRows : Owner(s) = o
      BY DEF EveryOrganizationCanCapture
    <2>1. sensors[FirstZone(o)] # <<>>
      BY Phases DEF IInv, OrganizationsComeFirst
    <2>2. o \in Org
      BY OrgIds DEF IInv
    <2>3. /\ FirstZone(o) \in Zone /\ FirstSensor(o) \in Sensor
          /\ FirstSensor(o)[1] = FirstZone(o) /\ FirstSensor(o)[2] = 1 /\ Owner(FirstSensor(o)) = o
      BY <2>2, Firsts
    <2>4. sensors[FirstZone(o)] \in Seq(Kind)
      BY <2>3 DEF IInv, TypeOK
    <2>5. 1 <= Len(sensors[FirstZone(o)])
      BY <2>1, <2>4
    <2> QED
      BY <2>3, <2>5 DEF SensorRows
  <1> QED
    BY <1>1, Invariance, PTL

\* A capture has a sensor that suits it, of the organization that it is of.
THEOREM CapturesKeepTheirSensors == Spec => []CapturesHaveTheirSensors
  BY SensorsBelongToTheirTenants, LiveSensorsForLiveCaptures, PTL DEF CapturesHaveTheirSensors

\* A start that ends has upgraded everything, and gives everybody a sensor.
THEOREM StartsAreComplete == Spec => []StartsComplete
  BY UpgradeCompletes, OrganizationsHaveSensors, PTL DEF StartsComplete

\* No step takes a capture, its sensor or a device from its organization.
THEOREM HandsAreKept == Spec => NothingChangesHands
  <1> DEFINE Kept == /\ \A s \in SessionRows :
                           /\ session[s].org \in Org => session'[s].org = session[s].org
                           /\ session[s].sensor \in Sensor => session'[s].sensor = session[s].sensor
                     /\ \A d \in DeviceRows : device[d].org \in Org => device'[d].org = device[d].org
  <1>1. ASSUME TypeOK, [Next]_vars
        PROVE  Kept
    <2> USE <1>1
    <2>1. CASE UNCHANGED <<session, device>>
      BY <2>1
    <2>2. CASE AddMissingColumns
      <3>1. ASSUME NEW s \in SessionRows
            PROVE  /\ session'[s].org = Added(session[s].org)
                   /\ session'[s].sensor = Added(session[s].sensor)
        BY <2>2, RowTypes DEF AddMissingColumns, SessionRows, Session
      <3>2. ASSUME NEW d \in DeviceRows
            PROVE  device'[d].org = Added(device[d].org)
        BY <2>2, RowTypes DEF AddMissingColumns, DeviceRows, Device
      <3> QED
        BY <3>1, <3>2, AbsenceAssumption DEF Added, Unset
    <2>3. CASE BackfillOrganizations
      <3>1. ASSUME NEW s \in SessionRows
            PROVE  /\ session[s].org # Null => session'[s].org = session[s].org
                   /\ session'[s].sensor = session[s].sensor
        BY <2>3, RowTypes DEF BackfillOrganizations, SessionRows, Session, Owned
      <3>2. ASSUME NEW d \in DeviceRows
            PROVE  device[d].org # Null => device'[d].org = device[d].org
        BY <2>3, RowTypes DEF BackfillOrganizations, DeviceRows, Device, Owned
      <3> QED
        BY <3>1, <3>2, AbsenceAssumption DEF Unset
    <2>4. CASE DefaultHierarchy
      <3>1. ASSUME NEW s \in SessionRows
            PROVE  /\ session'[s].org = session[s].org
                   /\ session[s].sensor # Null => session'[s].sensor = session[s].sensor
        BY <2>4, RowTypes DEF DefaultHierarchy, SessionRows, Session, Backfilled
      <3> QED
        BY <2>4, <3>1, AbsenceAssumption DEF DefaultHierarchy, Unset
    <2>5. CASE StopOrphans
      <3>1. ASSUME NEW s \in SessionRows
            PROVE  session'[s].org = session[s].org /\ session'[s].sensor = session[s].sensor
        BY <2>5, RowTypes DEF StopOrphans, SessionRows, Session, Ended
      <3> QED
        BY <2>5, <3>1 DEF StopOrphans
    <2>6. ASSUME NEW by \in Users, NEW s \in Sessions, NEW asked \in Sensor \cup {Null},
                 NEW source \in {"live", "pcap"}, Capture(by, s, asked, source)
          PROVE  Kept
      <3>1. \A r \in SessionRows : session'[r] = session[r]
        BY <2>6 DEF Capture, SessionRows, TypeOK
      <3> QED
        BY <2>6, <3>1 DEF Capture
    <2>7. ASSUME NEW s \in Sessions, EndSession(s)
          PROVE  Kept
      <3>1. ASSUME NEW r \in SessionRows
            PROVE  session'[r].org = session[r].org /\ session'[r].sensor = session[r].sensor
        BY <2>7, RowTypes DEF EndSession, SessionRows, TypeOK, Ended, Session
      <3> QED
        BY <2>7, <3>1 DEF EndSession
    <2>8. ASSUME NEW s \in Sessions, NEW d \in Devices, NEW address \in Addresses,
                 SeeDevice(s, d, address)
          PROVE  Kept
      <3>1. \A e \in DeviceRows : device'[e] = device[e]
        BY <2>8 DEF SeeDevice, DeviceRows, TypeOK
      <3> QED
        BY <2>8, <3>1 DEF SeeDevice
    <2> QED
      BY <2>1, <2>2, <2>3, <2>4, <2>5, <2>6, <2>7, <2>8 DEF Next, Upgrade, Start,
         RebuildDeviceIndex, RenameEditors, SeedSuperAdmin, SeedAdmin, Kill, CreateOrganization,
         CreateSite, CreateZone, CreateSensor, vars
  <1>2. TypeOK /\ [Next]_vars => [Kept]_vars
    BY <1>1
  <1> QED
    BY <1>2, TypeCorrect, PTL DEF Spec, NothingChangesHands
=============================================================================
