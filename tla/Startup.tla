------------------------------- MODULE Startup -------------------------------
(***************************************************************************)
(* A start of the server on a database of any age (main.py, db.py,         *)
(* auth/seed.py, the sweep of live_capture.py), killed between any two of  *)
(* its transactions and begun again; and, while the server is up, what     *)
(* those steps will find the next time: the hierarchy of organizations,    *)
(* sites, zones and sensors (routes_hierarchy.py), and the captures that   *)
(* are attached to it (routes_capture.py).                                 *)
(*                                                                         *)
(* Rows of the hierarchy are never deleted, so a row's id is its place     *)
(* among its siblings, the first of which is the one with the least id.    *)
(* Accounts has the names of users and their constraints, CaptureSessions  *)
(* the deletion of sessions and devices.                                   *)
(***************************************************************************)
EXTENDS Naturals, Sequences, FiniteSets

CONSTANTS
    Sessions, Devices, Users,          \* ids of rows
    Addresses,                         \* (mac, ip) pairs
    MaxOrgs,                           \* bound: organizations
    MaxSites, MaxZones, MaxSensors,    \* bounds: of an organization, a site, a zone
    Missing,                           \* the column does not exist yet
    Null, Unused                       \* SQL NULL; no row

ASSUME StartupAssumption ==
    /\ MaxOrgs \in Nat \ {0}
    /\ MaxSites \in Nat \ {0} /\ MaxZones \in Nat \ {0} /\ MaxSensors \in Nat \ {0}

Org == 1 .. MaxOrgs
Site == Org \X (1 .. MaxSites)
Zone == Org \X (1 .. MaxSites) \X (1 .. MaxZones)
Sensor == Zone \X (1 .. MaxSensors)
Kind == {"live", "external"}

\* Ownership is checked by joining up from a sensor to its site.
Owner(sensor) == sensor[1][1]

VARIABLES
    phase,    \* the transaction of the startup that is next, "down" or "up"
    super,    \* is TRIDENTYOT_SUPER_ADMIN_USERNAME set for this start?
    orgs,     \* the organizations: 1 .. orgs
    sites,    \* how many sites an organization has,
    zones,    \* how many zones a site,
    sensors,  \* and the kinds of a zone's sensors
    session, device, user,  \* the rows
    index,    \* the unique index of devices
    active    \* the sessions that this process captures or reads

tree == <<orgs, sites, zones, sensors>>
vars == <<phase, super, tree, session, device, user, index, active>>

Phase == {"down", "columns", "organizations", "index", "roles", "hierarchy",
          "super_admin", "admin", "sweep", "up"}

Unset == {Missing, Null}

\* `drops` is dropped_count, for every column with a scalar default.
Session == [org : Org \cup Unset, sensor : Sensor \cup Unset, source : {"live", "pcap"},
            status : {"running", "ended"}, drops : {"number"} \cup Unset]
Device == [org : Org \cup Unset, address : Addresses]
User == [org : Org \cup Unset, role : {"editor", "viewer", "admin", "super_admin"}]

\* What is not there is told from what is.
ASSUME AbsenceAssumption ==
    /\ Missing # Null
    /\ \A nothing \in Unset :
          nothing \notin Org /\ nothing \notin Sensor /\ nothing # "number"
    /\ Unused \notin Session /\ Unused \notin Device /\ Unused \notin User

SessionRows == {s \in Sessions : session[s] # Unused}
DeviceRows == {d \in Devices : device[d] # Unused}
UserRows == {u \in Users : user[u] # Unused}

TypeOK ==
    /\ phase \in Phase
    /\ super \in BOOLEAN
    /\ orgs \in 0 .. MaxOrgs
    /\ sites \in [Org -> 0 .. MaxSites]
    /\ zones \in [Site -> 0 .. MaxZones]
    /\ sensors \in [Zone -> Seq(Kind)]
    /\ session \in [Sessions -> Session \cup {Unused}]
    /\ device \in [Devices -> Device \cup {Unused}]
    /\ user \in [Users -> User \cup {Unused}]
    /\ index \in {"mac_ip", "org_mac_ip"}
    /\ active \subseteq SessionRows

SensorRows == {s \in Sensor : s[2] <= Len(sensors[s[1]])}

-----------------------------------------------------------------------------
(***************************************************************************)
(* Databases that a start may find.                                        *)
(***************************************************************************)

\* Before there were organizations: an address is one device.
Flat ==
    /\ orgs = 0
    /\ session \in [Sessions -> {Unused} \cup {r \in Session :
                      r.org = Missing /\ r.sensor = Missing}]
    /\ device \in [Devices -> {Unused} \cup {r \in Device : r.org = Missing}]
    /\ user \in [Users -> {Unused} \cup {r \in User :
                      r.org = Missing /\ r.role \in {"editor", "viewer"}}]
    /\ \A d, e \in DeviceRows : device[d].address = device[e].address => d = e
    /\ index = "mac_ip"

\* With organizations, before there were sensors.
Tenants ==
    /\ orgs \in Org
    /\ session \in [Sessions -> {Unused} \cup {r \in Session :
                      r.org \in 1 .. orgs /\ r.sensor = Missing}]
    /\ device \in [Devices -> {Unused} \cup {r \in Device : r.org \in 1 .. orgs}]
    /\ user \in [Users -> {Unused} \cup {r \in User :
                      IF r.role = "super_admin" THEN r.org = Null ELSE r.org \in 1 .. orgs}]
    /\ \A d, e \in DeviceRows : device[d] = device[e] => d = e
    /\ index = "org_mac_ip"

Fresh ==
    /\ orgs = 0
    /\ session = [s \in Sessions |-> Unused]
    /\ device = [d \in Devices |-> Unused]
    /\ user = [u \in Users |-> Unused]
    /\ index = "org_mac_ip"

Init ==
    /\ phase = "down"
    /\ super = FALSE
    /\ sites = [o \in Org |-> 0]
    /\ zones = [s \in Site |-> 0]
    /\ sensors = [z \in Zone |-> <<>>]
    /\ Flat \/ Tenants \/ Fresh
    /\ active = {}

-----------------------------------------------------------------------------
(***************************************************************************)
(* init_db, the seeds and the sweep: a transaction each.                   *)
(***************************************************************************)
Start ==
    /\ phase = "down"
    /\ phase' = "columns"
    /\ super' \in BOOLEAN
    /\ UNCHANGED <<tree, session, device, user, index, active>>

Added(value) == IF value = Missing THEN Null ELSE value

\* Mutant: the default is given with the column, and never again.
FilledWhenAdded(value) == IF value = Missing THEN "number" ELSE value

\* Whether the column has just been added, or by an earlier start.
Filled(value) == IF value \in Unset THEN "number" ELSE value

\* create_all and _add_missing_columns
AddMissingColumns ==
    /\ phase = "columns"
    /\ session' = [s \in Sessions |->
                      IF session[s] = Unused THEN Unused
                      ELSE [session[s] EXCEPT !.org = Added(@), !.sensor = Added(@),
                                              !.drops = Filled(@)]]
    /\ device' = [d \in Devices |-> IF device[d] = Unused THEN Unused
                                    ELSE [device[d] EXCEPT !.org = Added(@)]]
    /\ user' = [u \in Users |-> IF user[u] = Unused THEN Unused
                                ELSE [user[u] EXCEPT !.org = Added(@)]]
    /\ phase' = "organizations"
    /\ UNCHANGED <<super, tree, index, active>>

NeedsBackfill ==
    \/ \E s \in SessionRows : session[s].org = Null
    \/ \E d \in DeviceRows : device[d].org = Null
    \/ \E u \in UserRows : user[u].org = Null

OrgsMade == IF orgs = 0 /\ (NeedsBackfill \/ ~super) THEN 1 ELSE orgs

\* Mutant: UPDATE without its WHERE.
OwnedByTheFirst(row) ==
    IF row # Unused /\ OrgsMade > 0 THEN [row EXCEPT !.org = 1] ELSE row

Owned(row) ==
    IF row # Unused /\ OrgsMade > 0 THEN [row EXCEPT !.org = IF @ = Null THEN 1 ELSE @]
    ELSE row

\* _ensure_default_organization_and_backfill
BackfillOrganizations ==
    /\ phase = "organizations"
    /\ orgs' = OrgsMade
    /\ session' = [s \in Sessions |-> Owned(session[s])]
    /\ device' = [d \in Devices |-> Owned(device[d])]
    /\ user' = [u \in Users |-> Owned(user[u])]
    /\ phase' = "index"
    /\ UNCHANGED <<super, sites, zones, sensors, index, active>>

SameKey(d, e) ==
    d # e /\ device[d].org = device[e].org /\ device[d].address = device[e].address

\* _rebuild_device_unique_constraint: CREATE UNIQUE INDEX fails on duplicates.
RebuildDeviceIndex ==
    /\ phase = "index"
    /\ \A d, e \in DeviceRows : ~SameKey(d, e)
    /\ index' = "org_mac_ip"
    /\ phase' = "roles"
    /\ UNCHANGED <<super, tree, session, device, user, active>>

\* _migrate_editor_role_to_admin
RenameEditors ==
    /\ phase = "roles"
    /\ user' = [u \in Users |->
                   IF u \in UserRows /\ user[u].role = "editor"
                   THEN [user[u] EXCEPT !.role = "admin"] ELSE user[u]]
    /\ phase' = "hierarchy"
    /\ UNCHANGED <<super, tree, session, device, index, active>>

FirstSite(o) == <<o, 1>>
FirstZone(o) == <<o, 1, 1>>
FirstSensor(o) == <<FirstZone(o), 1>>

\* Mutant: a default is made at every start.
OneMore(n) == n + 1

AtLeastOne(n) == IF n = 0 THEN 1 ELSE n

Backfilled(row) ==
    IF row # Unused /\ row.sensor = Null /\ row.org \in 1 .. orgs
    THEN [row EXCEPT !.sensor = FirstSensor(row.org)] ELSE row

\* _ensure_default_site_zone_sensor_and_backfill: it asks for the first zone of
\* the first site only.
DefaultHierarchy ==
    /\ phase = "hierarchy"
    /\ sites' = [o \in Org |-> IF o <= orgs THEN AtLeastOne(sites[o]) ELSE sites[o]]
    /\ zones' = [s \in Site |-> IF s[1] <= orgs /\ s = FirstSite(s[1])
                                THEN AtLeastOne(zones[s]) ELSE zones[s]]
    /\ sensors' = [z \in Zone |-> IF z[1] <= orgs /\ z = FirstZone(z[1]) /\ sensors[z] = <<>>
                                  THEN <<"live">> ELSE sensors[z]]
    /\ session' = [s \in Sessions |-> Backfilled(session[s])]
    /\ phase' = "super_admin"
    /\ UNCHANGED <<super, orgs, device, user, index, active>>

AddUser(org, role) ==
    \E u \in Users \ UserRows : user' = [user EXCEPT ![u] = [org |-> org, role |-> role]]

\* seed_default_super_admin
SeedSuperAdmin ==
    /\ phase = "super_admin"
    /\ IF super /\ \A u \in UserRows : user[u].role # "super_admin"
       THEN AddUser(Null, "super_admin")
       ELSE UNCHANGED user
    /\ phase' = "admin"
    /\ UNCHANGED <<super, tree, session, device, index, active>>

\* seed_default_admin
SeedAdmin ==
    /\ phase = "admin"
    /\ IF UserRows = {}
       THEN AddUser(1, "admin") /\ orgs' = AtLeastOne(orgs)
       ELSE UNCHANGED <<super, user, orgs>>
    /\ phase' = "sweep"
    /\ UNCHANGED <<super, sites, zones, sensors, session, device, index, active>>

Ended(row) == [row EXCEPT !.status = "ended"]

\* Mutant: it is the uploads that are swept.
OrphanedUpload(row) == row # Unused /\ row.source = "pcap" /\ row.status = "running"

Orphaned(row) == row # Unused /\ row.source = "live" /\ row.status = "running"

\* mark_orphaned_live_sessions_stopped
StopOrphans ==
    /\ phase = "sweep"
    /\ session' = [s \in Sessions |->
                      IF Orphaned(session[s]) THEN Ended(session[s]) ELSE session[s]]
    /\ phase' = "up"
    /\ UNCHANGED <<super, tree, device, user, index, active>>

\* The process is killed, stopped (no step of stop_all writes a session), or a
\* transaction fails: whatever is committed stays.
Kill ==
    /\ phase # "down"
    /\ phase' = "down"
    /\ active' = {}
    /\ UNCHANGED <<super, tree, session, device, user, index>>

-----------------------------------------------------------------------------
(***************************************************************************)
(* Requests of administrators.                                             *)
(***************************************************************************)
IsSuper(by) == user[by].role = "super_admin"

\* _get_owned_site, _get_owned_zone, _get_owned_sensor
Owns(by, org) == IsSuper(by) \/ user[by].org = org

Requests(by) ==
    /\ phase = "up"
    /\ by \in UserRows
    /\ user[by].role \in {"admin", "super_admin"}

CreateOrganization(by) ==
    /\ Requests(by)
    /\ IsSuper(by)
    /\ orgs < MaxOrgs
    /\ orgs' = orgs + 1
    /\ AddUser(orgs + 1, "admin")
    /\ UNCHANGED <<super, phase, sites, zones, sensors, session, device, index, active>>

CreateSite(by, o) ==
    /\ Requests(by)
    /\ o <= orgs /\ Owns(by, o)
    /\ sites[o] < MaxSites
    /\ sites' = [sites EXCEPT ![o] = @ + 1]
    /\ UNCHANGED <<super, phase, orgs, zones, sensors, session, device, user, index, active>>

CreateZone(by, s) ==
    /\ Requests(by)
    /\ s[2] <= sites[s[1]] /\ Owns(by, s[1])
    /\ zones[s] < MaxZones
    /\ zones' = [zones EXCEPT ![s] = @ + 1]
    /\ UNCHANGED <<super, phase, orgs, sites, sensors, session, device, user, index, active>>

CreateSensor(by, z, kind) ==
    /\ Requests(by)
    /\ z[3] <= zones[<<z[1], z[2]>>] /\ Owns(by, z[1])
    /\ Len(sensors[z]) < MaxSensors
    /\ sensors' = [sensors EXCEPT ![z] = Append(@, kind)]
    /\ UNCHANGED <<super, phase, orgs, sites, zones, session, device, user, index, active>>

KindOf(sensor) == sensors[sensor[1]][sensor[2]]

\* Mutant: the kind narrows the automatic choice only.
SuitableIfChosen(by, asked, source) ==
    {s \in SensorRows : Owns(by, Owner(s)) /\ (source = "live" /\ asked = Null => KindOf(s) = "live")}

Suitable(by, asked, source) ==
    {s \in SensorRows : Owns(by, Owner(s)) /\ (source = "live" => KindOf(s) = "live")}

\* _resolve_capture_sensor: the sensor asked for, or the only one there is.
Resolves(by, asked, source, sensor) ==
    IF asked = Null THEN Suitable(by, asked, source) = {sensor}
    ELSE sensor = asked /\ sensor \in Suitable(by, asked, source)

\* start_live_capture and upload_pcap
Capture(by, s, asked, source) ==
    /\ Requests(by)
    /\ session[s] = Unused
    /\ \E sensor \in SensorRows :
          /\ Resolves(by, asked, source, sensor)
          /\ session' = [session EXCEPT ![s] =
                [org |-> Owner(sensor), sensor |-> sensor, source |-> source,
                 status |-> "running", drops |-> "number"]]
    /\ active' = active \cup {s}
    /\ UNCHANGED <<super, phase, tree, device, user, index>>

\* Stopped, failed, or at the end of its file.
EndSession(s) ==
    /\ s \in active
    /\ session' = [session EXCEPT ![s] = Ended(@)]
    /\ active' = active \ {s}
    /\ UNCHANGED <<super, phase, tree, device, user, index>>

\* An address that the session's organization has no device of.
SeeDevice(s, d, address) ==
    /\ s \in active
    /\ device[d] = Unused
    /\ \A e \in DeviceRows : device[e] # [org |-> session[s].org, address |-> address]
    /\ device' = [device EXCEPT ![d] = [org |-> session[s].org, address |-> address]]
    /\ UNCHANGED <<super, phase, tree, session, user, index, active>>

Upgrade ==
    \/ AddMissingColumns
    \/ BackfillOrganizations
    \/ RebuildDeviceIndex
    \/ RenameEditors
    \/ DefaultHierarchy
    \/ SeedSuperAdmin
    \/ SeedAdmin
    \/ StopOrphans

Next ==
    \/ Start
    \/ Upgrade
    \/ Kill
    \/ \E by \in Users :
          \/ CreateOrganization(by)
          \/ \E o \in Org : CreateSite(by, o)
          \/ \E s \in Site : CreateZone(by, s)
          \/ \E z \in Zone, kind \in Kind : CreateSensor(by, z, kind)
          \/ \E s \in Sessions, asked \in Sensor \cup {Null}, source \in {"live", "pcap"} :
                Capture(by, s, asked, source)
    \/ \E s \in Sessions :
          \/ EndSession(s)
          \/ \E d \in Devices, address \in Addresses : SeeDevice(s, d, address)

Spec == Init /\ [][Next]_vars

-----------------------------------------------------------------------------
(***************************************************************************)
(* Properties.                                                             *)
(***************************************************************************)

\* A capture's sensor is one of its own organization, be the session older
\* than sensors and even than organizations, and whoever has started it: what
\* is seen at a site is never another tenant's.
SensorsAreTheTenants ==
    \A s \in SessionRows : session[s].sensor \notin Unset =>
        session[s].sensor \in SensorRows /\ Owner(session[s].sensor) = session[s].org

\* models.py:86: an external sensor has "no live interface of its own": no
\* live capture is attached to one, those of the backfill included, which takes
\* whatever sensor comes first.
LiveCapturesHaveLiveSensors ==
    \A s \in SessionRows :
        session[s].source = "live" /\ session[s].sensor \notin Unset =>
            KindOf(session[s].sensor) = "live"

\* Whoever starts a capture, and when: its sensor suits it and its tenant.
CapturesHaveTheirSensors == SensorsAreTheTenants /\ LiveCapturesHaveLiveSensors

\* Once the server is up, nothing is left of older schemas, in whichever of
\* them the database was, and wherever earlier starts were killed.
UpgradedWhenUp ==
    phase = "up" =>
        /\ index = "org_mac_ip"
        /\ \A s \in SessionRows : session[s].org \in 1 .. orgs /\ session[s].sensor \notin Unset
                                  /\ session[s].drops = "number"
        /\ \A d \in DeviceRows : device[d].org \in 1 .. orgs
        /\ \A u \in UserRows : /\ user[u].role # "editor"
                               /\ user[u].org \in 1 .. orgs \/ IsSuper(u)

\* No backfill makes two devices of one organization have the same address:
\* the unique index can be created, and no start fails on it.
AddressesStayUnique == \A d, e \in DeviceRows : ~SameKey(d, e)

\* live_capture.py:226-232: once the server is up, the live sessions that are
\* "running" are those of this process; only uploads may be left from others.
OnlyUploadsAreOrphaned ==
    phase = "up" =>
        \A s \in SessionRows :
            session[s].status = "running" => s \in active \/ session[s].source = "pcap"

\* The default administrator is seeded after the hierarchy, and an organization
\* made that late would have no sensor to capture with until the next start.
EveryOrganizationCanCapture ==
    phase = "sweep" => \A o \in 1 .. orgs : \E s \in SensorRows : Owner(s) = o

\* A start leaves nothing of older schemas, and nobody without a sensor.
StartsComplete == UpgradedWhenUp /\ EveryOrganizationCanCapture

\* What has an organization or a sensor keeps it through every start.
NothingChangesHands ==
    [][/\ \A s \in SessionRows : /\ session[s].org \in Org => session'[s].org = session[s].org
                                 /\ session[s].sensor \in Sensor =>
                                       session'[s].sensor = session[s].sensor
       /\ \A d \in DeviceRows : device[d].org \in Org => device'[d].org = device[d].org]_vars
-----------------------------------------------------------------------------
(***************************************************************************)
(* What db.py says of the upgrade, and it does not always do.              *)
(***************************************************************************)

\* db.py:293-297: a default site, zone and sensor "for every Organization that
\* doesn't already have one"; "Idempotent: a no-op once nothing is left to
\* backfill".
HierarchyIsIdempotent ==
    phase = "hierarchy"
    /\ (\A o \in 1 .. orgs : \E s \in SensorRows : Owner(s) = o)
    /\ (\A s \in SessionRows : session[s].sensor # Null)
        => \A o \in 1 .. orgs : sensors[FirstZone(o)] # <<>>
=============================================================================
