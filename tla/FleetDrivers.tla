---------------------------- MODULE FleetDrivers ----------------------------
(***************************************************************************)
(* The drivers of an organization and the three tables that refer to them  *)
(* (internal/storage/postgres/store.go): who has driven which vehicle, the *)
(* documents, and the schedule.  A handler of modules_handlers.go checks   *)
(* the form of its request and then runs one SQL statement, so an action   *)
(* here is one handler, and handlers interleave between statements.        *)
(*                                                                         *)
(* A row that is inserted takes the next value of "now" as its id and as   *)
(* its created_at or assigned_at: NOW() is taken to grow from statement to *)
(* statement.  What a row says beyond its keys (names, dates, notes) is    *)
(* left out, and a request the handler turns away changes nothing.         *)
(***************************************************************************)
EXTENDS Integers, FiniteSets, Fleet

CONSTANTS
  Drivers,     \* the ids drivers can get
  Plates,      \* plates, already in upper case
  MaxWrites    \* how many statements stamp a row, to keep TLC's runs finite

ASSUME DriversAssumption ==
  /\ MaxWrites \in Nat
  /\ None \notin Orgs \union Drivers \union Plates /\ "gone" \notin Orgs

VARIABLES
  owner,        \* the organization of each driver's row; None before it is
                \* inserted and "gone" after it is deleted (ids are not reused)
  assignments,  \* vehicle_driver_assignments
  documents,    \* vehicle_documents
  schedules,    \* vehicle_schedules
  now,          \* Postgres's clock
  call          \* the last call and how it was answered

vars == <<owner, assignments, documents, schedules, now, call>>

Stamps == 0..MaxWrites
Open == -1     \* unassigned_at IS NULL

Operations == {"none", "addDriver", "updateDriver", "removeDriver",
  "clearDrivers", "assign", "unassign", "addDocument", "removeDocument",
  "addSchedule", "removeSchedule"}

TypeOK ==
  /\ owner \in [Drivers -> Orgs \union {None, "gone"}]
  /\ assignments \subseteq [at: Stamps, org: Orgs, plate: Plates,
                            driver: Drivers, until: Stamps \union {Open}]
  /\ documents \subseteq [id: Stamps, org: Orgs, plate: Plates \union {None},
                          driver: Drivers \union {None}]
  /\ schedules \subseteq [id: Stamps, org: Orgs, plate: Plates, driver: Drivers]
  /\ now \in Stamps
  /\ call \in [op: Operations, org: Orgs \union {None},
               plate: Plates \union {None}, driver: Drivers \union {None},
               reply: {"ok", "notFound", "failed"}]

Called(op, o, p, d, reply) ==
  call' = [op |-> op, org |-> o, plate |-> p, driver |-> d, reply |-> reply]

\* A row with driver_id NOT NULL REFERENCES drivers(id) can be inserted
Exists(d) == owner[d] \in Orgs

\* Where driver_id may be NULL, as in a document
ExistsOrNull(d) == d = None \/ Exists(d)

\* Whether WHERE id = d AND org_id = o selects a driver's row
Found(o, d) == IF owner[d] = o THEN "ok" ELSE "notFound"

(* Slip: DELETE FROM drivers without its WHERE. *)
DriversOfAll(o) == {d \in Drivers : owner[d] \in Orgs}

DriversOf(o) == {d \in Drivers : owner[d] = o}

-----------------------------------------------------------------------------
(* The queries                                                             *)

\* The rows of (org, plate) that no one has closed
OpenFor(o, p) ==
  {a \in assignments : a.org = o /\ a.plate = p /\ a.until = Open}

\* GetCurrentDriver: the join with drivers, newest first, the first row
CurrentDriver(o, p) ==
  LET joined == {a \in OpenFor(o, p) : Exists(a.driver)}
  IN IF joined = {} THEN None
     ELSE (CHOOSE a \in joined : \A b \in joined : b.at <= a.at).driver

\* ListCurrentAssignments: no join
CurrentAssignments(o) ==
  {[plate |-> a.plate, driver |-> a.driver] :
     a \in {b \in assignments : b.org = o /\ b.until = Open}}

\* ListVehicleDriverHistory: the join, every row, open ones marked current
History(o, p) ==
  {[driver |-> a.driver, at |-> a.at, isCurrent |-> a.until = Open] :
     a \in {b \in assignments : b.org = o /\ b.plate = p /\ Exists(b.driver)}}

\* ListSchedule: the join
ListSchedule(o) == {s \in schedules : s.org = o /\ Exists(s.driver)}

-----------------------------------------------------------------------------
Init ==
  /\ owner = [d \in Drivers |-> None]
  /\ assignments = {} /\ documents = {} /\ schedules = {}
  /\ now = 0
  /\ call = [op |-> "none", org |-> None, plate |-> None, driver |-> None,
             reply |-> "ok"]

\* FleetAddDriver
AddDriver(o, d) ==
  /\ owner[d] = None
  /\ owner' = [owner EXCEPT ![d] = o]
  /\ Called("addDriver", o, None, d, "ok")
  /\ UNCHANGED <<assignments, documents, schedules, now>>

\* FleetUpdateDriver: the columns it replaces are not modelled
UpdateDriver(o, d) ==
  /\ Called("updateDriver", o, None, d, Found(o, d))
  /\ UNCHANGED <<owner, assignments, documents, schedules, now>>

(* Slip: a schema where vehicle_driver_assignments.driver_id has no foreign key. *)
CascadeKeepsAssignments(ds) ==
  /\ schedules' = {s \in schedules : s.driver \notin ds}
  /\ documents' = {[x EXCEPT !.driver = IF @ \in ds THEN None ELSE @] :
                     x \in documents}
  /\ UNCHANGED assignments

(* Slip: a schema where vehicle_documents.driver_id has no foreign key. *)
CascadeKeepsDocuments(ds) ==
  /\ assignments' = {a \in assignments : a.driver \notin ds}
  /\ schedules' = {s \in schedules : s.driver \notin ds}
  /\ UNCHANGED documents

\* What the foreign keys do when the rows of ds are deleted
Cascade(ds) ==
  /\ assignments' = {a \in assignments : a.driver \notin ds}
  /\ schedules' = {s \in schedules : s.driver \notin ds}
  /\ documents' = {[x EXCEPT !.driver = IF @ \in ds THEN None ELSE @] :
                     x \in documents}

Delete(ds) ==
  /\ owner' = [d \in Drivers |-> IF d \in ds THEN "gone" ELSE owner[d]]
  /\ Cascade(ds)
  /\ UNCHANGED now

\* FleetRemoveDriver
RemoveDriver(o, d) ==
  /\ Delete({d} \intersect DriversOf(o))
  /\ Called("removeDriver", o, None, d, Found(o, d))

\* FleetClearDrivers
ClearDrivers(o) ==
  /\ Delete(DriversOf(o))
  /\ Called("clearDrivers", o, None, None, "ok")

Insert == now < MaxWrites /\ now' = now + 1

\* FleetAssignDriver: nothing closes the rows that are open already, and the
\* foreign key asks only that the driver exists
AssignDriver(o, p, d) ==
  /\ IF Exists(d)
     THEN /\ Insert
          /\ assignments' = assignments \union
               {[at |-> now, org |-> o, plate |-> p, driver |-> d, until |-> Open]}
          /\ Called("assign", o, p, d, "ok")
     ELSE /\ Called("assign", o, p, d, "failed")
          /\ UNCHANGED <<assignments, now>>
  /\ UNCHANGED <<owner, documents, schedules>>

(* Slip: without "unassigned_at IS NULL". *)
ClosedAgain(a, o, p, d) ==
  IF a.org = o /\ a.plate = p /\ a.driver = d
  THEN [a EXCEPT !.until = now] ELSE a

(* Slip: only the row GetCurrentDriver would show. *)
ClosedIfNewest(a, o, p, d) ==
  IF a \in OpenFor(o, p) /\ a.driver = d /\ \A b \in OpenFor(o, p) : b.at <= a.at
  THEN [a EXCEPT !.until = now] ELSE a

Closed(a, o, p, d) ==
  IF a.org = o /\ a.plate = p /\ a.driver = d /\ a.until = Open
  THEN [a EXCEPT !.until = now] ELSE a

\* FleetUnassignDriver: every open row of the three keys, and no answer tells
\* whether there was one
UnassignDriver(o, p, d) ==
  /\ Insert
  /\ assignments' = {Closed(a, o, p, d) : a \in assignments}
  /\ Called("unassign", o, p, d, "ok")
  /\ UNCHANGED <<owner, documents, schedules>>

\* FleetAddDocument: of a vehicle, of a driver, of both or of neither
AddDocument(o, p, d) ==
  /\ IF ExistsOrNull(d)
     THEN /\ Insert
          /\ documents' = documents \union
               {[id |-> now, org |-> o, plate |-> p, driver |-> d]}
          /\ Called("addDocument", o, p, d, "ok")
     ELSE /\ Called("addDocument", o, p, d, "failed")
          /\ UNCHANGED <<documents, now>>
  /\ UNCHANGED <<owner, assignments, schedules>>

\* FleetRemoveDocument
RemoveDocument(o, id) ==
  LET hit == {x \in documents : x.id = id /\ x.org = o}
  IN /\ documents' = documents \ hit
     /\ Called("removeDocument", o, None, None,
               IF hit = {} THEN "notFound" ELSE "ok")
     /\ UNCHANGED <<owner, assignments, schedules, now>>

\* FleetAddScheduleEntry
AddScheduleEntry(o, p, d) ==
  /\ IF Exists(d)
     THEN /\ Insert
          /\ schedules' = schedules \union
               {[id |-> now, org |-> o, plate |-> p, driver |-> d]}
          /\ Called("addSchedule", o, p, d, "ok")
     ELSE /\ Called("addSchedule", o, p, d, "failed")
          /\ UNCHANGED <<schedules, now>>
  /\ UNCHANGED <<owner, assignments, documents>>

\* FleetRemoveScheduleEntry: an id of no row is answered like any other
RemoveScheduleEntry(o, id) ==
  /\ schedules' = {s \in schedules : ~(s.id = id /\ s.org = o)}
  /\ Called("removeSchedule", o, None, None, "ok")
  /\ UNCHANGED <<owner, assignments, documents, now>>

DriverCall(o) ==
  \/ \E d \in Drivers : AddDriver(o, d) \/ UpdateDriver(o, d) \/ RemoveDriver(o, d)
  \/ ClearDrivers(o)
  \/ \E p \in Plates, d \in Drivers :
       AssignDriver(o, p, d) \/ UnassignDriver(o, p, d) \/ AddScheduleEntry(o, p, d)
  \/ \E p \in Plates \union {None}, d \in Drivers \union {None} : AddDocument(o, p, d)
  \/ \E id \in Stamps : RemoveDocument(o, id) \/ RemoveScheduleEntry(o, id)

Next == \E o \in Orgs : DriverCall(o)

Spec == Init /\ [][Next]_vars

-----------------------------------------------------------------------------
\* The three ways the API answers "who drives this vehicle now" agree: the
\* driver GetCurrentDriver names is listed by ListCurrentAssignments and marked
\* current in the history, and it names no one exactly when the list has no row
\* for the plate, although one query joins with drivers and the other does not.
ReadsAgree ==
  \A o \in Orgs, p \in Plates :
    LET listed == {x.driver : x \in {y \in CurrentAssignments(o) : y.plate = p}}
        marked == {h.driver : h \in {g \in History(o, p) : g.isCurrent}}
    IN /\ listed = marked
       /\ CurrentDriver(o, p) \in (IF listed = {} THEN {None} ELSE listed)

\* A driver that is deleted leaves no reference behind: no entry of the schedule
\* is hidden by the join, and no document names a driver that is not there.
NoDanglingDriver ==
  /\ \A o \in Orgs : ListSchedule(o) = {s \in schedules : s.org = o}
  /\ \A x \in documents : ExistsOrNull(x.driver)

\* When "unassigned" is answered the driver no longer drives the vehicle, however
\* often it was assigned before; when "assigned" is answered it is the one the
\* vehicle's page shows, whoever else is still assigned.
AnswersTakeEffect ==
  LET at(d) == \E x \in CurrentAssignments(call.org) :
                 x.plate = call.plate /\ x.driver = d
  IN /\ call.op = "unassign" => ~ at(call.driver)
     /\ call.op = "assign" /\ call.reply = "ok" =>
          CurrentDriver(call.org, call.plate) = call.driver

\* A call changes rows of the organization whose token it carries and no other
\* row, except those that named a driver which that organization deleted.
OnlyOwnRows ==
  [][\A o \in Orgs \ {call'.org} :
       /\ \A d \in Drivers : owner[d] = o <=> owner'[d] = o
       /\ \A a \in assignments : a.org = o /\ owner[a.driver] # call'.org =>
            a \in assignments'
       /\ \A x \in documents : x.org = o =>
            \E y \in documents' :
              /\ y.id = x.id
              /\ y # x => owner[x.driver] = call'.org
       /\ \A s \in schedules : s.org = o /\ owner[s.driver] # call'.org =>
            s \in schedules'
       /\ \A a \in assignments' : a.org = o => a \in assignments
       /\ \A x \in documents' : x.org = o => \E y \in documents : y.id = x.id
       /\ \A s \in schedules' : s.org = o => s \in schedules]_vars

\* The record of who drove what is kept for as long as the driver is: no call
\* deletes an assignment, and once it is closed its end never moves.
HistoryIsKept ==
  [][\A a \in assignments : owner'[a.driver] \in Orgs =>
       \E b \in assignments' :
         /\ b.at = a.at /\ b.org = a.org /\ b.plate = a.plate /\ b.driver = a.driver
         /\ a.until # Open => b.until = a.until]_vars

=============================================================================
