----------------------------- MODULE StoreProofs -----------------------------
(***************************************************************************)
(* Proofs about what internal/storage/postgres keeps of a fleet, for any   *)
(* organizations, drivers, plates, cars and cached rows.                   *)
(*                                                                         *)
(* FleetDrivers: every row that names a driver names one that is there     *)
(* (each insert looks it up, each deletion cascades), and assigned_at both *)
(* lies in the past and tells the rows apart, so that the newest open row  *)
(* is one row.  From these follow what three reads agree on and that an    *)
(* assignment that was answered can be read.                               *)
(*                                                                         *)
(* FleetRecords: a stored plate is written in one way only, so that a      *)
(* spelling selects the one row of its car or none.                        *)
(*                                                                         *)
(* FinesRefresher: without the mock a step adds nothing to the answers     *)
(* that are about for a row but what its source has just said, so that a   *)
(* row is lost to no failure, nor made young by a source that is dead,     *)
(* once the answers of an earlier process are gone.                        *)
(***************************************************************************)
EXTENDS FleetDrivers, FleetRecords, FinesRefresher, WellFoundedInduction, TLAPS

(* The driver that a row of the three tables names is in the drivers table. *)
ReferencesHold ==
  /\ \A a \in assignments : Exists(a.driver)
  /\ \A s \in schedules : Exists(s.driver)
  /\ \A x \in documents : ExistsOrNull(x.driver)

(* assigned_at lies in the past and tells the rows apart. *)
StampsTellApart ==
  /\ \A a \in assignments : a.at < now
  /\ \A a, b \in assignments : a.at = b.at => a = b

DriversInv == TypeOK /\ ReferencesHold /\ StampsTellApart

-----------------------------------------------------------------------------
(* ORDER BY assigned_at DESC LIMIT 1 finds a row wherever there is one. *)
LEMMA NewestExists ==
  ASSUME NEW S, S # {}, \A a \in S : a.at \in Stamps
  PROVE  \E a \in S : \A b \in S : b.at <= a.at
<1> DEFINE T == {MaxWrites - a.at : a \in S}
<1>1. MaxWrites \in Nat
  BY DriversAssumption DEF DriversAssumption
<1>2. T \subseteq Nat /\ T # {}
  BY <1>1 DEF Stamps
<1>3. \E m \in T : \A n \in T : m <= n
  <2>1. \E m \in T : \A n \in T : ~ (<<n, m>> \in OpToRel(<, Nat))
    BY <1>2, NatLessThanWellFounded, WFMin
  <2>2. \A m, n \in Nat : ~ (<<n, m>> \in OpToRel(<, Nat)) => m <= n
    BY DEF OpToRel
  <2> QED  BY <1>2, <2>1, <2>2
<1>4. PICK a \in S : \A n \in T : MaxWrites - a.at <= n
  BY <1>3
<1>5. \A b \in S : b.at <= a.at
  BY <1>1, <1>4 DEF Stamps
<1> QED  BY <1>5

(* The rows that are open for a vehicle all join with a driver, and one of
   them is the current one.                                               *)
NewestIsCurrent ==
  \A o \in Orgs, p \in Plates :
    /\ OpenFor(o, p) = {} => CurrentDriver(o, p) = None
    /\ OpenFor(o, p) # {} =>
         \E a \in OpenFor(o, p) :
           /\ \A b \in OpenFor(o, p) : b.at <= a.at
           /\ CurrentDriver(o, p) = a.driver

LEMMA CurrentIsOpen == TypeOK /\ ReferencesHold => NewestIsCurrent
<1> SUFFICES ASSUME TypeOK, ReferencesHold, NEW o \in Orgs, NEW p \in Plates
             PROVE  /\ OpenFor(o, p) = {} => CurrentDriver(o, p) = None
                    /\ OpenFor(o, p) # {} =>
                         \E a \in OpenFor(o, p) :
                           /\ \A b \in OpenFor(o, p) : b.at <= a.at
                           /\ CurrentDriver(o, p) = a.driver
  BY DEF NewestIsCurrent
<1> DEFINE joined == {a \in OpenFor(o, p) : Exists(a.driver)}
           newest == CHOOSE a \in joined : \A b \in joined : b.at <= a.at
<1>1. joined = OpenFor(o, p)
  BY DEF ReferencesHold, OpenFor
<1>2. CurrentDriver(o, p) = IF joined = {} THEN None ELSE newest.driver
  BY DEF CurrentDriver
<1>3. \A a \in joined : a.at \in Stamps
  BY DEF TypeOK, OpenFor
<1>4. joined # {} => newest \in joined /\ \A b \in joined : b.at <= newest.at
  <2> HIDE DEF joined
  <2> QED  BY <1>3, NewestExists
<1> HIDE DEF joined, newest
<1> QED  BY <1>1, <1>2, <1>4

(* Four empty tables. *)
LEMMA InitDrivers == Init => DriversInv /\ AnswersTakeEffect
  BY DriversAssumption
     DEF Init, DriversInv, TypeOK, ReferencesHold, StampsTellApart, AnswersTakeEffect,
         Stamps, Operations, DriversAssumption

(* The list of current assignments and the history of a vehicle both show its
   open rows, and the vehicle's page shows one of them.                   *)
LEMMA ReadsAgreeFollows == DriversInv => ReadsAgree
<1> SUFFICES ASSUME DriversInv, NEW o \in Orgs, NEW p \in Plates
             PROVE  LET listed == {x.driver : x \in {y \in CurrentAssignments(o) : y.plate = p}}
                        marked == {h.driver : h \in {g \in History(o, p) : g.isCurrent}}
                    IN /\ listed = marked
                       /\ CurrentDriver(o, p) \in (IF listed = {} THEN {None} ELSE listed)
  BY DEF ReadsAgree
<1> DEFINE listed == {x.driver : x \in {y \in CurrentAssignments(o) : y.plate = p}}
           marked == {h.driver : h \in {g \in History(o, p) : g.isCurrent}}
           open == {a.driver : a \in OpenFor(o, p)}
<1>1. listed = open
  <2>1. ASSUME NEW a \in OpenFor(o, p)
        PROVE  a.driver \in listed
    <3>1. [plate |-> a.plate, driver |-> a.driver] \in CurrentAssignments(o)
      BY DEF CurrentAssignments, OpenFor
    <3> QED  BY <3>1 DEF OpenFor
  <2>2. ASSUME NEW x \in CurrentAssignments(o), x.plate = p
        PROVE  x.driver \in open
    <3>1. PICK a \in assignments : /\ a.org = o /\ a.until = Open
                                  /\ x = [plate |-> a.plate, driver |-> a.driver]
      BY DEF CurrentAssignments
    <3> QED  BY <2>2, <3>1 DEF OpenFor
  <2> QED  BY <2>1, <2>2
<1>2. marked = open
  <2>1. ASSUME NEW a \in OpenFor(o, p)
        PROVE  a.driver \in marked
    <3>1. [driver |-> a.driver, at |-> a.at, isCurrent |-> a.until = Open] \in History(o, p)
      BY DEF History, OpenFor, DriversInv, ReferencesHold
    <3>2. [driver |-> a.driver, at |-> a.at, isCurrent |-> a.until = Open].isCurrent
      BY DEF OpenFor
    <3> QED  BY <3>1, <3>2
  <2>2. ASSUME NEW h \in History(o, p), h.isCurrent
        PROVE  h.driver \in open
    <3>1. PICK a \in assignments :
            /\ a.org = o /\ a.plate = p
            /\ h = [driver |-> a.driver, at |-> a.at, isCurrent |-> a.until = Open]
      BY DEF History
    <3>2. a.until = Open
      BY <2>2, <3>1
    <3> QED  BY <3>1, <3>2 DEF OpenFor
  <2> QED  BY <2>1, <2>2
<1>3. CurrentDriver(o, p) \in (IF open = {} THEN {None} ELSE open)
  BY CurrentIsOpen DEF DriversInv, NewestIsCurrent
<1> QED  BY <1>1, <1>2, <1>3

(* The list joins with the drivers, and no row is left without one. *)
LEMMA NoDanglingFollows == DriversInv => NoDanglingDriver
  BY DEF DriversInv, ReferencesHold, NoDanglingDriver, ListSchedule

-----------------------------------------------------------------------------
(* What the actions are built from                                         *)

Assignment == [at: Stamps, org: Orgs, plate: Plates, driver: Drivers,
               until: Stamps \union {Open}]

(* Statement time moves on by one and stays within the bound. *)
LEMMA InsertStamps ==
  ASSUME TypeOK, Insert
  PROVE  now' \in Stamps /\ now' > now /\ now \in Stamps
  BY DriversAssumption DEF DriversAssumption, TypeOK, Insert, Stamps

(* UPDATE ... SET unassigned_at keeps the other columns of a row, and an end
   that is set stays.                                                     *)
LEMMA ClosedRow ==
  ASSUME NEW a \in Assignment, NEW o, NEW p, NEW d, now \in Stamps
  PROVE  /\ Closed(a, o, p, d) \in Assignment
         /\ Closed(a, o, p, d).at = a.at /\ Closed(a, o, p, d).org = a.org
         /\ Closed(a, o, p, d).plate = a.plate /\ Closed(a, o, p, d).driver = a.driver
         /\ a.until # Open => Closed(a, o, p, d) = a
         /\ a.org = o /\ a.plate = p /\ a.driver = d => Closed(a, o, p, d).until # Open
         /\ ~ (a.org = o /\ a.plate = p /\ a.driver = d) => Closed(a, o, p, d) = a
<1> DEFINE c == [a EXCEPT !.until = now]
<1>1. /\ c \in Assignment /\ c.at = a.at /\ c.org = a.org /\ c.plate = a.plate
      /\ c.driver = a.driver /\ c.until = now
  BY DEF Assignment
<1>2. now # Open
  BY DEF Stamps, Open
<1>3. Closed(a, o, p, d) =
        IF a.org = o /\ a.plate = p /\ a.driver = d /\ a.until = Open THEN c ELSE a
  BY DEF Closed
<1> HIDE DEF c
<1> QED  BY <1>1, <1>2, <1>3

(* Deleting drivers together with what refers to them leaves no reference
   behind and no new one.                                                 *)
LEMMA DeleteKeeps ==
  ASSUME DriversInv, NEW ds \in SUBSET Drivers, Delete(ds)
  PROVE  /\ owner' \in [Drivers -> Orgs \union {None, "gone"}]
         /\ assignments' = {a \in assignments : a.driver \notin ds}
         /\ schedules' = {s \in schedules : s.driver \notin ds}
         /\ documents' \subseteq [id: Stamps, org: Orgs, plate: Plates \union {None},
                                  driver: Drivers \union {None}]
         /\ ReferencesHold' /\ StampsTellApart' /\ now' = now
<1>1. owner' \in [Drivers -> Orgs \union {None, "gone"}]
  BY DEF Delete, DriversInv, TypeOK
<1>2. /\ assignments' = {a \in assignments : a.driver \notin ds}
      /\ schedules' = {s \in schedules : s.driver \notin ds}
      /\ now' = now
  BY DEF Delete, Cascade
<1>3. ASSUME NEW x \in documents'
      PROVE  /\ x \in [id: Stamps, org: Orgs, plate: Plates \union {None},
                        driver: Drivers \union {None}]
             /\ ExistsOrNull(x.driver)'
  <2>1. PICK y \in documents : x = [y EXCEPT !.driver = IF @ \in ds THEN None ELSE @]
    BY <1>3 DEF Delete, Cascade
  <2>2. /\ y \in [id: Stamps, org: Orgs, plate: Plates \union {None},
                  driver: Drivers \union {None}]
        /\ ExistsOrNull(y.driver)
    BY DEF DriversInv, TypeOK, ReferencesHold
  <2>3. x \in [id: Stamps, org: Orgs, plate: Plates \union {None},
               driver: Drivers \union {None}]
        /\ x.driver = IF y.driver \in ds THEN None ELSE y.driver
    BY <2>1, <2>2
  <2>4. CASE x.driver = None
    BY <2>3, <2>4 DEF ExistsOrNull
  <2>5. CASE x.driver # None
    <3>1. x.driver = y.driver /\ x.driver \in Drivers /\ x.driver \notin ds
      BY <2>2, <2>3, <2>5
    <3>2. owner'[x.driver] = owner[x.driver]
      BY <3>1 DEF Delete
    <3> QED  BY <2>2, <2>3, <2>5, <3>1, <3>2 DEF ExistsOrNull, Exists
  <2> QED  BY <2>3, <2>4, <2>5
<1>4. ReferencesHold'
  <2>1. ASSUME NEW a \in assignments, a.driver \notin ds
        PROVE  Exists(a.driver)'
    <3>1. a.driver \in Drivers /\ Exists(a.driver)
      BY DEF DriversInv, TypeOK, ReferencesHold
    <3> QED  BY <2>1, <3>1 DEF Exists, Delete
  <2>2. ASSUME NEW s \in schedules, s.driver \notin ds
        PROVE  Exists(s.driver)'
    <3>1. s.driver \in Drivers /\ Exists(s.driver)
      BY DEF DriversInv, TypeOK, ReferencesHold
    <3> QED  BY <2>2, <3>1 DEF Exists, Delete
  <2> QED  BY <1>2, <1>3, <2>1, <2>2 DEF ReferencesHold
<1>5. StampsTellApart'
  BY <1>2 DEF DriversInv, StampsTellApart
<1> QED  BY <1>1, <1>2, <1>3, <1>4, <1>5

-----------------------------------------------------------------------------
(* Every handler keeps the invariant                                       *)

LEMMA NextDrivers == DriversInv /\ [Next]_vars => DriversInv'
<1> SUFFICES ASSUME DriversInv, [Next]_vars
             PROVE  DriversInv'
  OBVIOUS
<1> USE DEF DriversInv
<1>1. ASSUME NEW o \in Orgs, NEW d \in Drivers, AddDriver(o, d)
      PROVE  DriversInv'
  <2>1. /\ owner[d] = None /\ owner' = [owner EXCEPT ![d] = o]
        /\ UNCHANGED <<assignments, documents, schedules, now>>
    BY <1>1 DEF AddDriver
  <2>2. TypeOK'
    BY <1>1, <2>1 DEF AddDriver, TypeOK, Called, Operations
  <2>3. \A e \in Drivers : Exists(e) => Exists(e)'
    BY <2>1 DEF TypeOK, Exists
  <2>4. ReferencesHold'
    BY <2>1, <2>3 DEF TypeOK, ReferencesHold, ExistsOrNull
  <2>5. StampsTellApart'
    BY <2>1 DEF StampsTellApart
  <2> QED  BY <2>2, <2>4, <2>5
<1>2. ASSUME NEW o \in Orgs, NEW d \in Drivers, UpdateDriver(o, d)
      PROVE  DriversInv'
  BY <1>2 DEF UpdateDriver, Called, Found, Operations, TypeOK, ReferencesHold, StampsTellApart,
              Exists, ExistsOrNull
<1>3. ASSUME NEW o \in Orgs, NEW d \in Drivers, RemoveDriver(o, d)
      PROVE  DriversInv'
  <2>1. /\ Delete({d} \intersect DriversOf(o)) /\ {d} \intersect DriversOf(o) \in SUBSET Drivers
        /\ Called("removeDriver", o, None, d, Found(o, d))
    BY <1>3 DEF RemoveDriver
  <2> QED  BY <2>1, DeleteKeeps DEF TypeOK, Called, Found, Operations
<1>4. ASSUME NEW o \in Orgs, ClearDrivers(o)
      PROVE  DriversInv'
  <2>1. /\ Delete(DriversOf(o)) /\ DriversOf(o) \in SUBSET Drivers
        /\ Called("clearDrivers", o, None, None, "ok")
    BY <1>4 DEF ClearDrivers, DriversOf
  <2> QED  BY <2>1, DeleteKeeps DEF TypeOK, Called, Operations
<1>5. ASSUME NEW o \in Orgs, NEW p \in Plates, NEW d \in Drivers, AssignDriver(o, p, d)
      PROVE  DriversInv'
  <2>1. CASE Exists(d)
    <3> DEFINE new == [at |-> now, org |-> o, plate |-> p, driver |-> d, until |-> Open]
    <3>1. /\ Insert /\ assignments' = assignments \union {new}
          /\ Called("assign", o, p, d, "ok")
          /\ UNCHANGED <<owner, documents, schedules>>
      BY <1>5, <2>1 DEF AssignDriver
    <3>2. now' \in Stamps /\ now' > now /\ now \in Stamps
      BY <3>1, InsertStamps
    <3>3. new \in Assignment /\ new.driver = d /\ new.at = now
      BY <3>2 DEF Assignment
    <3> HIDE DEF new
    <3>4. TypeOK'
      BY <3>1, <3>2, <3>3 DEF TypeOK, Called, Operations, Assignment
    <3>5. ReferencesHold'
      BY <2>1, <3>1, <3>3 DEF ReferencesHold, Exists, ExistsOrNull
    <3>6. StampsTellApart'
      BY <3>1, <3>2, <3>3 DEF StampsTellApart, TypeOK, Stamps
    <3> QED  BY <3>4, <3>5, <3>6
  <2>2. CASE ~ Exists(d)
    BY <1>5, <2>2 DEF AssignDriver, Called, Operations, TypeOK, ReferencesHold,
                      StampsTellApart, Exists, ExistsOrNull
  <2> QED  BY <2>1, <2>2
<1>6. ASSUME NEW o \in Orgs, NEW p \in Plates, NEW d \in Drivers, UnassignDriver(o, p, d)
      PROVE  DriversInv'
  <2>1. /\ Insert /\ assignments' = {Closed(a, o, p, d) : a \in assignments}
        /\ Called("unassign", o, p, d, "ok")
        /\ UNCHANGED <<owner, documents, schedules>>
    BY <1>6 DEF UnassignDriver
  <2>2. now' \in Stamps /\ now' > now /\ now \in Stamps
    BY <2>1, InsertStamps
  <2>3. \A b \in assignments' : \E a \in assignments :
          /\ b = Closed(a, o, p, d) /\ b \in Assignment
          /\ b.at = a.at /\ b.driver = a.driver
    BY <2>1, <2>2, ClosedRow DEF TypeOK, Assignment
  <2>4. TypeOK'
    BY <2>1, <2>2, <2>3 DEF TypeOK, Called, Operations, Assignment
  <2>5. ReferencesHold'
    BY <2>1, <2>3 DEF ReferencesHold, Exists, ExistsOrNull
  <2>6. StampsTellApart'
    BY <2>2, <2>3 DEF StampsTellApart, TypeOK, Stamps
  <2> QED  BY <2>4, <2>5, <2>6
<1>7. ASSUME NEW o \in Orgs, NEW p \in Plates \union {None},
             NEW d \in Drivers \union {None}, AddDocument(o, p, d)
      PROVE  DriversInv'
  <2>1. CASE ExistsOrNull(d)
    <3> DEFINE new == [id |-> now, org |-> o, plate |-> p, driver |-> d]
    <3>1. /\ Insert /\ documents' = documents \union {new}
          /\ Called("addDocument", o, p, d, "ok")
          /\ UNCHANGED <<owner, assignments, schedules>>
      BY <1>7, <2>1 DEF AddDocument
    <3>2. now' \in Stamps /\ now' > now /\ now \in Stamps
      BY <3>1, InsertStamps
    <3>3. TypeOK'
      BY <3>1, <3>2 DEF TypeOK, Called, Operations
    <3>4. ReferencesHold'
      BY <2>1, <3>1 DEF ReferencesHold, Exists, ExistsOrNull
    <3>5. StampsTellApart'
      BY <3>1, <3>2 DEF StampsTellApart, TypeOK, Stamps
    <3> QED  BY <3>3, <3>4, <3>5
  <2>2. CASE ~ ExistsOrNull(d)
    BY <1>7, <2>2 DEF AddDocument, Called, Operations, TypeOK, ReferencesHold,
                      StampsTellApart, Exists, ExistsOrNull
  <2> QED  BY <2>1, <2>2
<1>8. ASSUME NEW o \in Orgs, NEW id \in Stamps, RemoveDocument(o, id)
      PROVE  DriversInv'
  <2>1. /\ documents' \subseteq documents
        /\ UNCHANGED <<owner, assignments, schedules, now>>
        /\ \E reply \in {"ok", "notFound"} : Called("removeDocument", o, None, None, reply)
    BY <1>8 DEF RemoveDocument
  <2> QED  BY <2>1 DEF Called, Operations, TypeOK, ReferencesHold, StampsTellApart, Exists,
                       ExistsOrNull
<1>9. ASSUME NEW o \in Orgs, NEW p \in Plates, NEW d \in Drivers, AddScheduleEntry(o, p, d)
      PROVE  DriversInv'
  <2>1. CASE Exists(d)
    <3> DEFINE new == [id |-> now, org |-> o, plate |-> p, driver |-> d]
    <3>1. /\ Insert /\ schedules' = schedules \union {new}
          /\ Called("addSchedule", o, p, d, "ok")
          /\ UNCHANGED <<owner, assignments, documents>>
      BY <1>9, <2>1 DEF AddScheduleEntry
    <3>2. now' \in Stamps /\ now' > now /\ now \in Stamps
      BY <3>1, InsertStamps
    <3>3. TypeOK'
      BY <3>1, <3>2 DEF TypeOK, Called, Operations
    <3>4. ReferencesHold'
      BY <2>1, <3>1 DEF ReferencesHold, Exists, ExistsOrNull
    <3>5. StampsTellApart'
      BY <3>1, <3>2 DEF StampsTellApart, TypeOK, Stamps
    <3> QED  BY <3>3, <3>4, <3>5
  <2>2. CASE ~ Exists(d)
    BY <1>9, <2>2 DEF AddScheduleEntry, Called, Operations, TypeOK, ReferencesHold,
                      StampsTellApart, Exists, ExistsOrNull
  <2> QED  BY <2>1, <2>2
<1>10. ASSUME NEW o \in Orgs, NEW id \in Stamps, RemoveScheduleEntry(o, id)
       PROVE  DriversInv'
  BY <1>10 DEF RemoveScheduleEntry, Called, Operations, TypeOK, ReferencesHold, StampsTellApart,
               Exists, ExistsOrNull
<1>11. CASE UNCHANGED vars
  BY <1>11 DEF vars, TypeOK, ReferencesHold, StampsTellApart, Exists, ExistsOrNull
<1> QED
  BY <1>1, <1>2, <1>3, <1>4, <1>5, <1>6, <1>7, <1>8, <1>9, <1>10, <1>11
     DEF Next, DriverCall

-----------------------------------------------------------------------------
(* What an answer says is so when it is given. *)
LEMMA NextAnswers ==
  ASSUME DriversInv, AnswersTakeEffect, [Next]_vars
  PROVE  AnswersTakeEffect'
<1> USE DEF DriversInv
<1>1. ASSUME NEW o \in Orgs, NEW p \in Plates, NEW d \in Drivers, AssignDriver(o, p, d)
      PROVE  AnswersTakeEffect'
  <2>1. CASE Exists(d)
    <3> DEFINE new == [at |-> now, org |-> o, plate |-> p, driver |-> d, until |-> Open]
    <3>1. /\ Insert /\ assignments' = assignments \union {new}
          /\ Called("assign", o, p, d, "ok")
      BY <1>1, <2>1 DEF AssignDriver
    <3>2. new \in OpenFor(o, p)' /\ new.at = now /\ new.driver = d
      BY <3>1 DEF OpenFor
    <3>3. \A a \in OpenFor(o, p)' : a = new \/ a.at < now
      BY <3>1 DEF OpenFor, StampsTellApart
    <3>4. DriversInv'
      BY NextDrivers
    <3>n. NewestIsCurrent'
      <4>1. (TypeOK /\ ReferencesHold => NewestIsCurrent)'
        BY CurrentIsOpen, PTL
      <4> QED  BY <3>4, <4>1
    <3>5. PICK a \in OpenFor(o, p)' :
            /\ \A b \in OpenFor(o, p)' : b.at <= a.at
            /\ CurrentDriver(o, p)' = a.driver
      BY <3>2, <3>n DEF NewestIsCurrent
    <3>6. a.at \in Int /\ now \in Int
      BY <3>4 DEF OpenFor, TypeOK, Stamps
    <3>7. a = new
      BY <3>2, <3>3, <3>5, <3>6
    <3> QED  BY <3>1, <3>2, <3>5, <3>7 DEF AnswersTakeEffect, Called
  <2>2. CASE ~ Exists(d)
    BY <1>1, <2>2 DEF AssignDriver, Called, AnswersTakeEffect
  <2> QED  BY <2>1, <2>2
<1>2. ASSUME NEW o \in Orgs, NEW p \in Plates, NEW d \in Drivers, UnassignDriver(o, p, d)
      PROVE  AnswersTakeEffect'
  <2>1. /\ Insert /\ assignments' = {Closed(a, o, p, d) : a \in assignments}
        /\ Called("unassign", o, p, d, "ok")
    BY <1>2 DEF UnassignDriver
  <2>2. \A b \in assignments' :
          b.org = o /\ b.plate = p /\ b.driver = d => b.until # Open
    <3>1. now \in Stamps
      BY DEF TypeOK
    <3> QED  BY <2>1, <3>1, ClosedRow DEF TypeOK, Assignment
  <2>3. ~ \E x \in CurrentAssignments(o)' : x.plate = p /\ x.driver = d
    BY <2>2 DEF CurrentAssignments
  <2> QED  BY <2>1, <2>3 DEF AnswersTakeEffect, Called
<1>3. ASSUME NEW o \in Orgs, DriverCall(o),
             ~ \E p \in Plates, d \in Drivers : AssignDriver(o, p, d) \/ UnassignDriver(o, p, d)
      PROVE  AnswersTakeEffect'
  <2>1. call'.op \notin {"assign", "unassign"}
    <3>1. CASE \E d \in Drivers : AddDriver(o, d) \/ UpdateDriver(o, d) \/ RemoveDriver(o, d)
      BY <3>1 DEF AddDriver, UpdateDriver, RemoveDriver, Called
    <3>2. CASE ClearDrivers(o)
      BY <3>2 DEF ClearDrivers, Called
    <3>3. CASE \E p \in Plates, d \in Drivers : AddScheduleEntry(o, p, d)
      BY <3>3 DEF AddScheduleEntry, Called
    <3>4. CASE \E p \in Plates \union {None}, d \in Drivers \union {None} : AddDocument(o, p, d)
      BY <3>4 DEF AddDocument, Called
    <3>5. CASE \E id \in Stamps : RemoveDocument(o, id) \/ RemoveScheduleEntry(o, id)
      BY <3>5 DEF RemoveDocument, RemoveScheduleEntry, Called
    <3> QED  BY <1>3, <3>1, <3>2, <3>3, <3>4, <3>5 DEF DriverCall
  <2> QED  BY <2>1 DEF AnswersTakeEffect
<1>4. CASE UNCHANGED vars
  BY <1>4 DEF vars, AnswersTakeEffect, CurrentAssignments, CurrentDriver, OpenFor, Exists
<1> QED  BY <1>1, <1>2, <1>3, <1>4 DEF Next

-----------------------------------------------------------------------------
(* What a call may do to the rows of another organization o. *)
SparesDrivers(o) == \A d \in Drivers : owner[d] = o <=> owner'[d] = o

SparesAssignments(o) ==
  /\ \A a \in assignments : a.org = o /\ owner[a.driver] # call'.org => a \in assignments'
  /\ \A a \in assignments' : a.org = o => a \in assignments

SparesDocuments(o) ==
  /\ \A x \in documents : x.org = o =>
       \E y \in documents' : y.id = x.id /\ (y # x => owner[x.driver] = call'.org)
  /\ \A x \in documents' : x.org = o => \E y \in documents : y.id = x.id

SparesSchedules(o) ==
  /\ \A s \in schedules : s.org = o /\ owner[s.driver] # call'.org => s \in schedules'
  /\ \A s \in schedules' : s.org = o => s \in schedules

Spares(o) ==
  SparesDrivers(o) /\ SparesAssignments(o) /\ SparesDocuments(o) /\ SparesSchedules(o)

(* A table that a call leaves alone is spared. *)
LEMMA UntouchedRows ==
  ASSUME NEW o
  PROVE  /\ owner' = owner => SparesDrivers(o)
         /\ assignments' = assignments => SparesAssignments(o)
         /\ documents' = documents => SparesDocuments(o)
         /\ schedules' = schedules => SparesSchedules(o)
  BY DEF SparesDrivers, SparesAssignments, SparesDocuments, SparesSchedules

(* Through the foreign keys a deletion reaches rows of others, but only those
   that name one of the deleted drivers.                                  *)
LEMMA DeleteSpares ==
  ASSUME DriversInv, NEW c \in Orgs, NEW ds \in SUBSET DriversOf(c), Delete(ds),
         call'.org = c, NEW o \in Orgs, o # c
  PROVE  Spares(o)
<1>1. /\ ds \in SUBSET Drivers /\ \A d \in ds : owner[d] = c
  BY DEF DriversOf
<1>2. SparesDrivers(o)
  BY <1>1, DriversAssumption
     DEF Delete, SparesDrivers, DriversInv, TypeOK, DriversAssumption
<1>3. SparesAssignments(o) /\ SparesSchedules(o)
  BY <1>1, DeleteKeeps DEF SparesAssignments, SparesSchedules
<1>4. SparesDocuments(o)
  <2> DEFINE nulled(y) == [y EXCEPT !.driver = IF @ \in ds THEN None ELSE @]
  <2>1. documents' = {nulled(y) : y \in documents}
    BY DEF Delete, Cascade
  <2>2. ASSUME NEW y \in documents
        PROVE  /\ nulled(y).id = y.id
               /\ nulled(y) # y => owner[y.driver] = c
    <3>1. y \in [id: Stamps, org: Orgs, plate: Plates \union {None},
                 driver: Drivers \union {None}]
      BY DEF DriversInv, TypeOK
    <3>2. y.driver \notin ds => nulled(y) = y
      BY <3>1
    <3> QED  BY <1>1, <3>1, <3>2
  <2> HIDE DEF nulled
  <2> QED  BY <2>1, <2>2 DEF SparesDocuments
<1> QED  BY <1>2, <1>3, <1>4 DEF Spares

(* Every handler puts the organization of the token in its statement. *)
LEMMA NextSpares ==
  ASSUME DriversInv, [Next]_vars, NEW o \in Orgs, o # call'.org
  PROVE  Spares(o)
<1> USE DEF DriversInv, Spares
<1>1. ASSUME NEW c \in Orgs, NEW d \in Drivers, AddDriver(c, d)
      PROVE  Spares(o)
  <2>1. SparesDrivers(o)
    BY <1>1, DriversAssumption
       DEF AddDriver, Called, SparesDrivers, TypeOK, DriversAssumption
  <2> QED  BY <1>1, <2>1, UntouchedRows DEF AddDriver
<1>2. ASSUME NEW c \in Orgs, NEW d \in Drivers, UpdateDriver(c, d)
      PROVE  Spares(o)
  BY <1>2, UntouchedRows DEF UpdateDriver
<1>3. ASSUME NEW c \in Orgs, NEW d \in Drivers, RemoveDriver(c, d)
      PROVE  Spares(o)
  <2>1. {d} \intersect DriversOf(c) \in SUBSET DriversOf(c) /\ call'.org = c
    BY <1>3 DEF RemoveDriver, Called
  <2> QED  BY <1>3, <2>1, DeleteSpares DEF RemoveDriver
<1>4. ASSUME NEW c \in Orgs, ClearDrivers(c)
      PROVE  Spares(o)
  <2>1. call'.org = c
    BY <1>4 DEF ClearDrivers, Called
  <2> QED  BY <1>4, <2>1, DeleteSpares DEF ClearDrivers
<1>5. ASSUME NEW c \in Orgs, NEW p \in Plates, NEW d \in Drivers, AssignDriver(c, p, d)
      PROVE  Spares(o)
  <2>1. SparesAssignments(o)
    BY <1>5 DEF AssignDriver, Called, SparesAssignments
  <2> QED  BY <1>5, <2>1, UntouchedRows DEF AssignDriver
<1>6. ASSUME NEW c \in Orgs, NEW p \in Plates, NEW d \in Drivers, UnassignDriver(c, p, d)
      PROVE  Spares(o)
  <2>1. /\ assignments' = {Closed(a, c, p, d) : a \in assignments}
        /\ call'.org = c /\ now \in Stamps
    BY <1>6 DEF UnassignDriver, Called, TypeOK
  <2>2. \A a \in assignments :
          Closed(a, c, p, d).org = a.org /\ (a.org = o => Closed(a, c, p, d) = a)
    BY <2>1, ClosedRow DEF TypeOK, Assignment
  <2>3. SparesAssignments(o)
    BY <2>1, <2>2 DEF SparesAssignments
  <2> QED  BY <1>6, <2>3, UntouchedRows DEF UnassignDriver
<1>7. ASSUME NEW c \in Orgs, NEW p \in Plates \union {None},
             NEW d \in Drivers \union {None}, AddDocument(c, p, d)
      PROVE  Spares(o)
  <2>1. SparesDocuments(o)
    BY <1>7 DEF AddDocument, Called, SparesDocuments
  <2> QED  BY <1>7, <2>1, UntouchedRows DEF AddDocument
<1>8. ASSUME NEW c \in Orgs, NEW id \in Stamps, RemoveDocument(c, id)
      PROVE  Spares(o)
  <2>1. SparesDocuments(o)
    BY <1>8 DEF RemoveDocument, Called, SparesDocuments
  <2> QED  BY <1>8, <2>1, UntouchedRows DEF RemoveDocument
<1>9. ASSUME NEW c \in Orgs, NEW p \in Plates, NEW d \in Drivers, AddScheduleEntry(c, p, d)
      PROVE  Spares(o)
  <2>1. SparesSchedules(o)
    BY <1>9 DEF AddScheduleEntry, Called, SparesSchedules
  <2> QED  BY <1>9, <2>1, UntouchedRows DEF AddScheduleEntry
<1>10. ASSUME NEW c \in Orgs, NEW id \in Stamps, RemoveScheduleEntry(c, id)
       PROVE  Spares(o)
  <2>1. SparesSchedules(o)
    BY <1>10 DEF RemoveScheduleEntry, Called, SparesSchedules
  <2> QED  BY <1>10, <2>1, UntouchedRows DEF RemoveScheduleEntry
<1>11. CASE UNCHANGED vars
  BY <1>11, UntouchedRows DEF vars
<1> QED
  BY <1>1, <1>2, <1>3, <1>4, <1>5, <1>6, <1>7, <1>8, <1>9, <1>10, <1>11
     DEF Next, DriverCall

(* A row that is there is kept, with its end, unless its driver is deleted. *)
LEMMA NextKeepsHistory ==
  ASSUME DriversInv, [Next]_vars, NEW a \in assignments, owner'[a.driver] \in Orgs
  PROVE  \E b \in assignments' :
           /\ b.at = a.at /\ b.org = a.org /\ b.plate = a.plate /\ b.driver = a.driver
           /\ a.until # Open => b.until = a.until
<1> USE DEF DriversInv
<1>1. ASSUME NEW ds \in SUBSET Drivers, Delete(ds)
      PROVE  a \in assignments'
  <2>1. a.driver \in Drivers
    BY DEF TypeOK
  <2>2. a.driver \notin ds
    BY <1>1, <2>1, DriversAssumption DEF Delete, DriversAssumption
  <2> QED  BY <1>1, <2>2, DeleteKeeps
<1>2. ASSUME NEW o \in Orgs, NEW d \in Drivers,
             AddDriver(o, d) \/ UpdateDriver(o, d) \/ RemoveDriver(o, d) \/ ClearDrivers(o)
      PROVE  a \in assignments'
  BY <1>1, <1>2 DEF AddDriver, UpdateDriver, RemoveDriver, ClearDrivers, DriversOf
<1>3. ASSUME NEW o \in Orgs, NEW p \in Plates, NEW d \in Drivers, UnassignDriver(o, p, d)
      PROVE  \E b \in assignments' :
               /\ b.at = a.at /\ b.org = a.org /\ b.plate = a.plate /\ b.driver = a.driver
               /\ a.until # Open => b.until = a.until
  <2>1. Closed(a, o, p, d) \in assignments' /\ now \in Stamps
    BY <1>3 DEF UnassignDriver, TypeOK
  <2> QED  BY <2>1, ClosedRow DEF TypeOK, Assignment
<1>4. ASSUME NEW o \in Orgs, DriverCall(o),
             ~ \E d \in Drivers : AddDriver(o, d) \/ UpdateDriver(o, d) \/ RemoveDriver(o, d),
             ~ ClearDrivers(o),
             ~ \E p \in Plates, d \in Drivers : UnassignDriver(o, p, d)
      PROVE  a \in assignments'
  <2>1. CASE \E p \in Plates, d \in Drivers : AssignDriver(o, p, d) \/ AddScheduleEntry(o, p, d)
    BY <2>1 DEF AssignDriver, AddScheduleEntry
  <2>2. CASE \E p \in Plates \union {None}, d \in Drivers \union {None} : AddDocument(o, p, d)
    BY <2>2 DEF AddDocument
  <2>3. CASE \E id \in Stamps : RemoveDocument(o, id) \/ RemoveScheduleEntry(o, id)
    BY <2>3 DEF RemoveDocument, RemoveScheduleEntry
  <2> QED  BY <1>4, <2>1, <2>2, <2>3 DEF DriverCall
<1>5. CASE UNCHANGED vars
  BY <1>5 DEF vars
<1>6. ASSUME NEW o \in Orgs, ClearDrivers(o)
      PROVE  a \in assignments'
  BY <1>1, <1>6 DEF ClearDrivers, DriversOf
<1> QED  BY <1>2, <1>3, <1>4, <1>5, <1>6 DEF Next

(* The handlers of drivers, assignments, documents and schedules: the whole
   inductive invariant.                                                   *)
THEOREM DriversInvHolds == Spec => [](DriversInv /\ AnswersTakeEffect)
  BY InitDrivers, NextDrivers, NextAnswers, PTL DEF Spec

(* ListCurrentAssignments, GetVehicleHistory and getCurrentDriverForVehicle, three
   statements over one table, name the same drivers after any calls.      *)
THEOREM ReadsAgreeHolds == Spec => []ReadsAgree
  BY DriversInvHolds, ReadsAgreeFollows, PTL

(* RemoveDriver and ClearDrivers: no assignment, document or schedule entry is
   left that names a driver who is gone.                                  *)
THEOREM NoDanglingHolds == Spec => []NoDanglingDriver
  BY DriversInvHolds, NoDanglingFollows, PTL

(* AssignDriver and UnassignDriver: who was answered "ok" reads what was asked
   for, also where open rows of other drivers are left on the vehicle.    *)
THEOREM AnswersHold == Spec => []AnswersTakeEffect
  BY DriversInvHolds, PTL

(* Every handler: a call changes no row of another organization but those that
   name a driver of the caller's, which the foreign keys reach.           *)
THEOREM OwnRowsOnly == Spec => OnlyOwnRows
<1>1. DriversInv /\ [Next]_vars =>
      [\A o \in Orgs \ {call'.org} :
       /\ \A d \in Drivers : owner[d] = o <=> owner'[d] = o
       /\ \A a \in assignments : a.org = o /\ owner[a.driver] # call'.org =>
            a \in assignments'
       /\ \A x \in documents : x.org = o =>
            \E y \in documents' :
              /\ y.id = x.id
              /\ y # x => owner[x.driver] = call'.org
       /\ \A s \in schedules : s.org = o /\ owner[s.driver] # call'.org =>
            s \in schedules'
       /\ \A a \in assignments' : a.org = o => a \in assignments
       /\ \A x \in documents' : x.org = o => \E y \in documents : y.id = x.id
       /\ \A s \in schedules' : s.org = o => s \in schedules]_vars
  BY NextSpares
     DEF Spares, SparesDrivers, SparesAssignments, SparesDocuments, SparesSchedules
<1> QED  BY <1>1, DriversInvHolds, PTL DEF Spec, OnlyOwnRows

(* The history of a vehicle loses no row, and no row its end, while the driver
   it names is in the drivers table.                                      *)
THEOREM HistoryHolds == Spec => HistoryIsKept
<1>1. DriversInv /\ [Next]_vars =>
      [\A a \in assignments : owner'[a.driver] \in Orgs =>
         \E b \in assignments' :
           /\ b.at = a.at /\ b.org = a.org /\ b.plate = a.plate /\ b.driver = a.driver
           /\ a.until # Open => b.until = a.until]_vars
  BY NextKeepsHistory
<1> QED  BY <1>1, DriversInvHolds, PTL DEF Spec, HistoryIsKept

-----------------------------------------------------------------------------
(* fleet_vehicles and the records by plate                                 *)

Vehicles == [org: Orgs, vtv: Dates \union {None},
             plate: [car: Cars, dashed: {FALSE}, lower: {FALSE}]]

(* Every stored plate has the one form that FleetAddVehicle gives it, and the
   UNIQUE constraint makes one row of it.                                 *)
VehiclesInv ==
  /\ vehicles \subseteq Vehicles
  /\ \A v, w \in vehicles : v.org = w.org /\ v.plate.car = w.plate.car => v = w

(* FleetRemoveVehicle answers "ok" only when the car is gone. *)
RemovedIsGone ==
  recordCall.op = "removeVehicle" /\ recordCall.reply = "ok" =>
    ~ \E v \in vehicles : v.org = recordCall.org /\ v.plate.car = recordCall.car

(* A plate as it is sent selects the vehicle's row or, with a separator, none. *)
LEMMA SelectedRows ==
  ASSUME VehiclesInv, NEW o \in Orgs, NEW s \in Spellings,
         NEW v \in Selected(o, ToUpper(s))
  PROVE  /\ v \in vehicles /\ v.org = o /\ v.plate.car = s.car
         /\ \A w \in vehicles : w.org = o /\ w.plate.car = s.car => w = v
<1>1. v \in vehicles /\ v.org = o /\ v.plate = [s EXCEPT !.lower = FALSE]
  BY DEF Selected, ToUpper
<1>2. v.plate.car = s.car
  BY <1>1 DEF Spellings
<1> QED  BY <1>1, <1>2 DEF VehiclesInv

(* The form FleetAddVehicle looks up selects the row of the car. *)
LEMMA NormalizedRow ==
  ASSUME VehiclesInv, NEW o \in Orgs, NEW s \in Spellings
  PROVE  /\ [org |-> o, plate |-> Normalized(s), vtv |-> None] \in Vehicles
         /\ Selected(o, Normalized(s)) =
              {v \in vehicles : v.org = o /\ v.plate.car = s.car}
<1>1. Normalized(s) = [car |-> s.car, dashed |-> FALSE, lower |-> FALSE]
      /\ s.car \in Cars
  BY DEF Normalized, Spellings
<1>2. ASSUME NEW v \in vehicles
      PROVE  v.plate = Normalized(s) <=> v.plate.car = s.car
  <2>1. v.plate \in [car: Cars, dashed: {FALSE}, lower: {FALSE}]
    BY DEF VehiclesInv, Vehicles
  <2>2. v.plate = [car |-> v.plate.car, dashed |-> FALSE, lower |-> FALSE]
    BY <2>1
  <2>3. Normalized(s).car = s.car
    BY <1>1
  <2>4. v.plate.car = s.car => v.plate = Normalized(s)
    BY <1>1, <2>2
  <2> QED  BY <2>3, <2>4
<1>3. [org |-> o, plate |-> Normalized(s), vtv |-> None] \in Vehicles
  BY <1>1 DEF Vehicles
<1> QED  BY <1>2, <1>3 DEF Selected

(* Every handler keeps one row of a car. *)
LEMMA NextVehicles ==
  VehiclesInv /\ RemovedIsGone /\ [RecordsNext]_recordsVars =>
    VehiclesInv' /\ RemovedIsGone'
<1> SUFFICES ASSUME VehiclesInv, RemovedIsGone, [RecordsNext]_recordsVars
             PROVE  VehiclesInv' /\ RemovedIsGone'
  OBVIOUS
<1>1. ASSUME NEW o \in Orgs, NEW s \in Spellings, AddVehicle(o, s)
      PROVE  VehiclesInv' /\ RemovedIsGone'
  <2> DEFINE new == [org |-> o, plate |-> Normalized(s), vtv |-> None]
  <2>1. /\ vehicles' = vehicles \union
              (IF Selected(o, Normalized(s)) # {} THEN {} ELSE {new})
        /\ recordCall'.op = "addVehicle"
    BY <1>1 DEF AddVehicle, RecordCalled
  <2>2. /\ new \in Vehicles /\ new.org = o /\ new.plate.car = s.car
        /\ Selected(o, Normalized(s)) =
             {v \in vehicles : v.org = o /\ v.plate.car = s.car}
    BY NormalizedRow DEF Normalized
  <2> HIDE DEF new
  <2> QED  BY <2>1, <2>2 DEF VehiclesInv, RemovedIsGone
<1>2. ASSUME NEW o \in Orgs, NEW s \in Spellings, RemoveVehicle(o, s)
      PROVE  VehiclesInv' /\ RemovedIsGone'
  <2> DEFINE rows == Selected(o, ToUpper(s))
  <2>1. /\ vehicles' = vehicles \ rows
        /\ recordCall' = [op |-> "removeVehicle", org |-> o, car |-> s.car,
                          reply |-> AnswerFor(rows)]
    BY <1>2 DEF RemoveVehicle, RecordCalled
  <2>2. rows # {} => ~ \E w \in vehicles' : w.org = o /\ w.plate.car = s.car
    BY <2>1, SelectedRows
  <2>3. recordCall'.reply = "ok" => rows # {}
    BY <2>1 DEF AnswerFor
  <2> HIDE DEF rows
  <2> QED  BY <2>1, <2>2, <2>3 DEF VehiclesInv, RemovedIsGone
<1>3. ASSUME NEW o \in Orgs, ClearVehicles(o)
      PROVE  VehiclesInv' /\ RemovedIsGone'
  BY <1>3 DEF ClearVehicles, RecordCalled, VehiclesInv, RemovedIsGone
<1>4. ASSUME NEW o \in Orgs, NEW s \in Spellings, NEW date \in Dates \union {None},
             UpdateVehicleVTV(o, s, date)
      PROVE  VehiclesInv' /\ RemovedIsGone'
  <2> DEFINE rows == Selected(o, ToUpper(s))
  <2>1. /\ vehicles' = (vehicles \ rows) \union {[v EXCEPT !.vtv = date] : v \in rows}
        /\ recordCall'.op = "vtv"
    BY <1>4 DEF UpdateVehicleVTV, RecordCalled
  <2>2. ASSUME NEW v \in rows
        PROVE  /\ v \in vehicles /\ v.org = o /\ v.plate.car = s.car
               /\ [v EXCEPT !.vtv = date] \in Vehicles
               /\ [v EXCEPT !.vtv = date].org = o
               /\ [v EXCEPT !.vtv = date].plate.car = s.car
               /\ \A w \in vehicles : w.org = o /\ w.plate.car = s.car => w = v
    <3>1. /\ v \in vehicles /\ v.org = o /\ v.plate.car = s.car
          /\ \A w \in vehicles : w.org = o /\ w.plate.car = s.car => w = v
      BY SelectedRows
    <3> QED  BY <3>1 DEF VehiclesInv, Vehicles
  <2> HIDE DEF rows
  <2>3. CASE rows = {}
    BY <2>1, <2>3 DEF VehiclesInv, RemovedIsGone
  <2>4. CASE rows # {}
    <3>1. PICK v \in rows : TRUE
      BY <2>4
    <3>2. rows = {v}
      BY <2>2
    <3>3. vehicles' = (vehicles \ {v}) \union {[v EXCEPT !.vtv = date]}
      BY <2>1, <3>2
    <3> DEFINE new == [v EXCEPT !.vtv = date]
    <3>4. /\ new \in Vehicles /\ new.org = o /\ new.plate.car = s.car
          /\ \A w \in vehicles : w.org = o /\ w.plate.car = s.car => w = v
      BY <2>2
    <3>5. vehicles' = (vehicles \ {v}) \union {new}
      BY <3>3
    <3> HIDE DEF new
    <3> QED  BY <2>1, <3>4, <3>5 DEF VehiclesInv, RemovedIsGone
  <2> QED  BY <2>3, <2>4
<1>5. ASSUME NEW o \in Orgs, RecordCall(o), vehicles' = vehicles,
             recordCall'.op # "removeVehicle"
      PROVE  VehiclesInv' /\ RemovedIsGone'
  BY <1>5 DEF VehiclesInv, RemovedIsGone
<1>6. ASSUME NEW o \in Orgs, NEW s \in Spellings,
             AddMaintenance(o, s) \/ AddFuel(o, s)
      PROVE  vehicles' = vehicles /\ recordCall'.op # "removeVehicle"
  BY <1>6 DEF AddMaintenance, AddFuel, AddRecord, RecordCalled
<1>7. ASSUME NEW o \in Orgs, NEW id \in 1..MaxRecords,
             RemoveMaintenance(o, id) \/ RemoveFuel(o, id)
      PROVE  vehicles' = vehicles /\ recordCall'.op # "removeVehicle"
  BY <1>7 DEF RemoveMaintenance, RemoveFuel, RemoveRecord,
              RecordCalled
<1>8. ASSUME NEW o \in Orgs, ClearMaintenance(o)
      PROVE  vehicles' = vehicles /\ recordCall'.op # "removeVehicle"
  BY <1>8 DEF ClearMaintenance, RecordCalled
<1>9. CASE UNCHANGED recordsVars
  BY <1>9 DEF recordsVars, VehiclesInv, RemovedIsGone
<1> QED
  BY <1>1, <1>2, <1>3, <1>4, <1>5, <1>6, <1>7, <1>8, <1>9
     DEF RecordsNext, RecordCall

(* A row is dropped only by the calls that name it, and its date only by the
   one that sets it.                                                      *)
LEMMA DatesStay ==
  ASSUME VehiclesInv, [RecordsNext]_recordsVars, NEW v \in vehicles
  PROVE  \/ v \in vehicles'
         \/ /\ recordCall'.op \in {"removeVehicle", "clearVehicles", "vtv"}
            /\ recordCall'.org = v.org
            /\ recordCall'.op # "clearVehicles" => recordCall'.car = v.plate.car
<1>1. ASSUME NEW o \in Orgs, NEW s \in Spellings, AddVehicle(o, s)
      PROVE  v \in vehicles'
  BY <1>1 DEF AddVehicle
<1>2. ASSUME NEW o \in Orgs, NEW s \in Spellings, NEW op \in {"removeVehicle", "vtv"},
             v \notin vehicles', vehicles \ vehicles' \subseteq Selected(o, ToUpper(s)),
             NEW reply, recordCall' = [op |-> op, org |-> o, car |-> s.car, reply |-> reply]
      PROVE  /\ recordCall'.op = op /\ recordCall'.org = v.org
             /\ recordCall'.car = v.plate.car
  BY <1>2, SelectedRows
<1>3. ASSUME NEW o \in Orgs, NEW s \in Spellings, RemoveVehicle(o, s)
      PROVE  \/ v \in vehicles'
             \/ /\ recordCall'.op = "removeVehicle" /\ recordCall'.org = v.org
                /\ recordCall'.car = v.plate.car
  BY <1>2, <1>3 DEF RemoveVehicle, RecordCalled
<1>4. ASSUME NEW o \in Orgs, NEW s \in Spellings, NEW date \in Dates \union {None},
             UpdateVehicleVTV(o, s, date)
      PROVE  \/ v \in vehicles'
             \/ /\ recordCall'.op = "vtv" /\ recordCall'.org = v.org
                /\ recordCall'.car = v.plate.car
  BY <1>2, <1>4 DEF UpdateVehicleVTV, RecordCalled
<1>5. ASSUME NEW o \in Orgs, ClearVehicles(o)
      PROVE  v \in vehicles' \/ (recordCall'.op = "clearVehicles" /\ recordCall'.org = v.org)
  BY <1>5 DEF ClearVehicles, RecordCalled
<1>6. ASSUME NEW o \in Orgs, NEW s \in Spellings,
             AddMaintenance(o, s) \/ AddFuel(o, s)
      PROVE  v \in vehicles'
  BY <1>6 DEF AddMaintenance, AddFuel, AddRecord
<1>7. ASSUME NEW o \in Orgs, NEW id \in 1..MaxRecords,
             RemoveMaintenance(o, id) \/ RemoveFuel(o, id)
      PROVE  v \in vehicles'
  BY <1>7 DEF RemoveMaintenance, RemoveFuel, RemoveRecord
<1>8. ASSUME NEW o \in Orgs, ClearMaintenance(o)
      PROVE  v \in vehicles'
  BY <1>8 DEF ClearMaintenance
<1>9. CASE UNCHANGED recordsVars
  BY <1>9 DEF recordsVars
<1> QED
  BY <1>1, <1>3, <1>4, <1>5, <1>6, <1>7, <1>8, <1>9 DEF RecordsNext, RecordCall

RowsOf(rows, o) == {r \in rows : r.org = o}

(* Every statement has the organization of the token in its WHERE. *)
LEMMA RowsOfOthersStay ==
  ASSUME VehiclesInv, [RecordsNext]_recordsVars
  PROVE  /\ \A o \in Orgs \ {recordCall'.org} :
              /\ RowsOf(vehicles, o) = RowsOf(vehicles', o)
              /\ RowsOf(records, o) = RowsOf(records', o)
         /\ records' # records =>
              recordCall'.op \in {"addRecord", "removeRecord", "clearMaintenance"}
<1>1. ASSUME NEW c \in Orgs, NEW s \in Spellings, AddVehicle(c, s)
      PROVE  /\ recordCall'.org = c /\ records' = records
             /\ \A o \in Orgs \ {c} : RowsOf(vehicles, o) = RowsOf(vehicles', o)
  BY <1>1 DEF AddVehicle, RecordCalled, RowsOf
<1>2. ASSUME NEW c \in Orgs, NEW s \in Spellings, RemoveVehicle(c, s)
      PROVE  /\ recordCall'.org = c /\ records' = records
             /\ \A o \in Orgs \ {c} : RowsOf(vehicles, o) = RowsOf(vehicles', o)
  BY <1>2 DEF RemoveVehicle, RecordCalled, Selected, RowsOf
<1>3. ASSUME NEW c \in Orgs, ClearVehicles(c)
      PROVE  /\ recordCall'.org = c /\ records' = records
             /\ \A o \in Orgs \ {c} : RowsOf(vehicles, o) = RowsOf(vehicles', o)
  BY <1>3 DEF ClearVehicles, RecordCalled, RowsOf
<1>4. ASSUME NEW c \in Orgs, NEW s \in Spellings, NEW date \in Dates \union {None},
             UpdateVehicleVTV(c, s, date)
      PROVE  /\ recordCall'.org = c /\ records' = records
             /\ \A o \in Orgs \ {c} : RowsOf(vehicles, o) = RowsOf(vehicles', o)
  <2> DEFINE rows == Selected(c, ToUpper(s))
             dated(v) == [v EXCEPT !.vtv = date]
  <2>1. /\ vehicles' = (vehicles \ rows) \union {dated(v) : v \in rows}
        /\ recordCall'.org = c /\ records' = records
    BY <1>4 DEF UpdateVehicleVTV, RecordCalled
  <2>2. \A v \in rows : v.org = c /\ dated(v).org = c
    <3>1. \A v \in rows : v.org = c /\ v \in Vehicles
      BY DEF Selected, VehiclesInv
    <3> QED  BY <3>1 DEF Vehicles
  <2> HIDE DEF rows, dated
  <2> QED  BY <2>1, <2>2 DEF RowsOf
<1>5. ASSUME NEW c \in Orgs, NEW s \in Spellings, NEW k \in Kinds,
             AddRecord(k, c, s)
      PROVE  /\ recordCall'.org = c /\ vehicles' = vehicles /\ recordCall'.op = "addRecord"
             /\ \A o \in Orgs \ {c} : RowsOf(records, o) = RowsOf(records', o)
  BY <1>5 DEF AddRecord, RecordCalled, RowsOf
<1>6. ASSUME NEW c \in Orgs, NEW id \in 1..MaxRecords, NEW k \in Kinds,
             RemoveRecord(k, c, id)
      PROVE  /\ recordCall'.org = c /\ vehicles' = vehicles /\ recordCall'.op = "removeRecord"
             /\ \A o \in Orgs \ {c} : RowsOf(records, o) = RowsOf(records', o)
  BY <1>6 DEF RemoveRecord, RecordCalled, RowsOf
<1>7. ASSUME NEW c \in Orgs, ClearMaintenance(c)
      PROVE  /\ recordCall'.org = c /\ vehicles' = vehicles
             /\ recordCall'.op = "clearMaintenance"
             /\ \A o \in Orgs \ {c} : RowsOf(records, o) = RowsOf(records', o)
  BY <1>7 DEF ClearMaintenance, RecordCalled, ListAll, RowsOf
<1>8. CASE UNCHANGED recordsVars
  BY <1>8 DEF recordsVars
<1>9. CASE \E c \in Orgs, s \in Spellings :
             \/ AddMaintenance(c, s) \/ AddFuel(c, s)
  BY <1>5, <1>9 DEF AddMaintenance, AddFuel, Kinds
<1>10. CASE \E c \in Orgs, id \in 1..MaxRecords :
              RemoveMaintenance(c, id) \/ RemoveFuel(c, id)
  BY <1>6, <1>10 DEF RemoveMaintenance, RemoveFuel, Kinds
<1> QED
  BY <1>1, <1>2, <1>3, <1>4, <1>7, <1>8, <1>9, <1>10 DEF RecordsNext, RecordCall

StoredRecords == [id: 1..MaxRecords, kind: Kinds, org: Orgs,
                  plate: [car: Cars, dashed: BOOLEAN, lower: {FALSE}]]

RecordCalls ==
  [op: {"none", "addVehicle", "removeVehicle", "clearVehicles", "vtv",
        "addRecord", "removeRecord", "clearMaintenance"},
   org: Orgs \union {None}, car: Cars \union {None}, reply: {"ok", "notFound"}]

RowsTyped == vehicles \subseteq Vehicles /\ records \subseteq StoredRecords

LEMMA RecordsTyped ==
  RecordsTypeOK <=> RowsTyped /\ nextId \in 1..(MaxRecords + 1) /\ recordCall \in RecordCalls
  BY DEF RecordsTypeOK, RowsTyped, Vehicles, StoredRecords, RecordCalls

(* Whatever is sent as a plate, it is stored in upper case, and as a vehicle's
   without a separator.                                                   *)
LEMMA PlatesTyped ==
  ASSUME NEW s \in Spellings
  PROVE  /\ ToUpper(s) \in [car: Cars, dashed: BOOLEAN, lower: {FALSE}]
         /\ Normalized(s) \in [car: Cars, dashed: {FALSE}, lower: {FALSE}]
         /\ s.car \in Cars
  BY DEF Spellings, ToUpper, Normalized

(* Rows, ids and answers keep to their types through every handler. *)
LEMMA NextRecordTypes == RecordsTypeOK /\ [RecordsNext]_recordsVars => RecordsTypeOK'
<1> SUFFICES ASSUME RecordsTypeOK, [RecordsNext]_recordsVars
             PROVE  RecordsTypeOK'
  OBVIOUS
<1>typed. RowsTyped /\ nextId \in 1..(MaxRecords + 1) /\ recordCall \in RecordCalls
  BY RecordsTyped
<1>goal. ASSUME RowsTyped', nextId' \in 1..(MaxRecords + 1), recordCall' \in RecordCalls
         PROVE  RecordsTypeOK'
  BY <1>goal DEF RecordsTypeOK, RowsTyped, Vehicles, StoredRecords, RecordCalls
<1>call. ASSUME NEW op \in {"addVehicle", "removeVehicle", "clearVehicles", "vtv",
                            "addRecord", "removeRecord", "clearMaintenance"},
                NEW o \in Orgs, NEW c \in Cars \union {None}, NEW rows,
                \/ RecordCalled(op, o, c, "ok") \/ RecordCalled(op, o, c, AnswerFor(rows))
         PROVE  recordCall' \in RecordCalls
  BY <1>call DEF RecordCalled, RecordCalls, AnswerFor
<1>1. ASSUME NEW o \in Orgs, NEW s \in Spellings, AddVehicle(o, s)
      PROVE  RecordsTypeOK'
  <2>1. [org |-> o, plate |-> Normalized(s), vtv |-> None] \in Vehicles
    BY PlatesTyped DEF Vehicles
  <2>2. RowsTyped' /\ nextId' = nextId
    BY <1>1, <1>typed, <2>1 DEF AddVehicle, RowsTyped
  <2>3. recordCall' \in RecordCalls
    BY <1>1, <1>call, PlatesTyped DEF AddVehicle
  <2> QED  BY <1>typed, <1>goal, <2>2, <2>3
<1>2. ASSUME NEW o \in Orgs, NEW s \in Spellings, RemoveVehicle(o, s)
      PROVE  RecordsTypeOK'
  <2>1. RowsTyped' /\ nextId' = nextId
    BY <1>2, <1>typed DEF RemoveVehicle, RowsTyped
  <2>2. recordCall' \in RecordCalls
    BY <1>2, <1>call, PlatesTyped DEF RemoveVehicle
  <2> QED  BY <1>typed, <1>goal, <2>1, <2>2
<1>3. ASSUME NEW o \in Orgs, ClearVehicles(o)
      PROVE  RecordsTypeOK'
  <2>1. RowsTyped' /\ nextId' = nextId
    BY <1>3, <1>typed DEF ClearVehicles, RowsTyped
  <2>2. recordCall' \in RecordCalls
    BY <1>3, <1>call DEF ClearVehicles
  <2> QED  BY <1>typed, <1>goal, <2>1, <2>2
<1>4. ASSUME NEW o \in Orgs, NEW s \in Spellings, NEW date \in Dates \union {None},
             UpdateVehicleVTV(o, s, date)
      PROVE  RecordsTypeOK'
  <2> DEFINE rows == Selected(o, ToUpper(s))
             dated(v) == [v EXCEPT !.vtv = date]
  <2>1. ASSUME NEW v \in rows
        PROVE  dated(v) \in Vehicles
    <3>1. v \in Vehicles
      BY <1>typed DEF Selected, RowsTyped
    <3> QED  BY <3>1 DEF Vehicles
  <2>2. /\ vehicles' = (vehicles \ rows) \union {dated(v) : v \in rows}
        /\ UNCHANGED <<records, nextId>>
    BY <1>4 DEF UpdateVehicleVTV
  <2>3. recordCall' \in RecordCalls
    BY <1>4, <1>call, PlatesTyped DEF UpdateVehicleVTV
  <2> HIDE DEF rows, dated
  <2>4. RowsTyped'
    BY <2>1, <2>2, <1>typed DEF RowsTyped
  <2> QED  BY <1>typed, <1>goal, <2>2, <2>3, <2>4
<1>5. ASSUME NEW o \in Orgs, NEW s \in Spellings, NEW k \in Kinds, AddRecord(k, o, s)
      PROVE  RecordsTypeOK'
  <2>1. nextId \in 1..MaxRecords /\ nextId' \in 1..(MaxRecords + 1)
    BY <1>5, <1>typed, MaxRecordsAssumption DEF AddRecord
  <2>2. [id |-> nextId, kind |-> k, org |-> o, plate |-> ToUpper(s)] \in StoredRecords
    BY <2>1, PlatesTyped DEF StoredRecords
  <2>3. RowsTyped'
    BY <1>5, <1>typed, <2>2 DEF AddRecord, RowsTyped
  <2>4. recordCall' \in RecordCalls
    BY <1>5, <1>call, PlatesTyped DEF AddRecord
  <2> QED  BY <1>goal, <2>1, <2>3, <2>4
<1>6. ASSUME NEW o \in Orgs, NEW id \in 1..MaxRecords, NEW k \in Kinds, RemoveRecord(k, o, id)
      PROVE  RecordsTypeOK'
  <2>1. RowsTyped' /\ nextId' = nextId
    BY <1>6, <1>typed DEF RemoveRecord, RowsTyped
  <2>2. recordCall' \in RecordCalls
    BY <1>6, <1>call DEF RemoveRecord
  <2> QED  BY <1>typed, <1>goal, <2>1, <2>2
<1>7. ASSUME NEW o \in Orgs, ClearMaintenance(o)
      PROVE  RecordsTypeOK'
  <2>1. RowsTyped' /\ nextId' = nextId
    BY <1>7, <1>typed DEF ClearMaintenance, RowsTyped
  <2>2. recordCall' \in RecordCalls
    BY <1>7, <1>call DEF ClearMaintenance
  <2> QED  BY <1>typed, <1>goal, <2>1, <2>2
<1>8. CASE UNCHANGED recordsVars
  BY <1>8, <1>typed, <1>goal DEF recordsVars, RowsTyped
<1>9. CASE \E o \in Orgs, s \in Spellings : AddMaintenance(o, s) \/ AddFuel(o, s)
  BY <1>5, <1>9 DEF AddMaintenance, AddFuel, Kinds
<1>10. CASE \E o \in Orgs, id \in 1..MaxRecords : RemoveMaintenance(o, id) \/ RemoveFuel(o, id)
  BY <1>6, <1>10 DEF RemoveMaintenance, RemoveFuel, Kinds
<1> QED
  BY <1>1, <1>2, <1>3, <1>4, <1>7, <1>8, <1>9, <1>10 DEF RecordsNext, RecordCall

(* fleet_vehicles and the records: every stored plate is in upper case and a
   vehicle's has no separator, whoever wrote it and however it was sent.  *)
THEOREM RecordsTypes == RecordsSpec => []RecordsTypeOK
<1>1. RecordsInit => RecordsTypeOK
  BY MaxRecordsAssumption, RecordsTyped DEF RecordsInit, RowsTyped, RecordCalls
<1> QED  BY <1>1, NextRecordTypes, PTL DEF RecordsSpec

(* The handlers of vehicles, maintenance and fuel: the inductive invariant. *)
THEOREM VehiclesInvHolds == RecordsSpec => [](VehiclesInv /\ RemovedIsGone)
<1>1. RecordsInit => VehiclesInv /\ RemovedIsGone
  BY DEF RecordsInit, VehiclesInv, RemovedIsGone
<1> QED  BY <1>1, NextVehicles, PTL DEF RecordsSpec

(* AddVehicle and RemoveVehicle: however a plate is spelled, an organization has
   one row of a car, and none of one it was told is removed.              *)
THEOREM OneRow == RecordsSpec => []OneRowPerVehicle
<1>1. VehiclesInv /\ RemovedIsGone => OneRowPerVehicle
  BY DEF VehiclesInv, RemovedIsGone, OneRowPerVehicle
<1> QED  BY <1>1, VehiclesInvHolds, PTL

(* AddVehicle: adding a vehicle again, or anything else but a call that names
   it, leaves its row with the VTV date it has.                           *)
THEOREM DatesAreKept == RecordsSpec => ReAddKeepsVTV
<1>1. VehiclesInv /\ [RecordsNext]_recordsVars =>
        [\A v \in vehicles :
           \/ v \in vehicles'
           \/ /\ recordCall'.op \in {"removeVehicle", "clearVehicles", "vtv"}
              /\ recordCall'.org = v.org
              /\ recordCall'.op # "clearVehicles" => recordCall'.car = v.plate.car]_recordsVars
  BY DatesStay
<1> QED  BY <1>1, VehiclesInvHolds, PTL DEF RecordsSpec, ReAddKeepsVTV

(* Every handler: vehicles and records of another organization stay as they are,
   and records change only by the calls on records.                       *)
THEOREM OwnRecordsOnly == RecordsSpec => OnlyOwnRecords
<1>1. VehiclesInv /\ [RecordsNext]_recordsVars =>
        [/\ \A o \in Orgs \ {recordCall'.org} :
              /\ {v \in vehicles : v.org = o} = {v \in vehicles' : v.org = o}
              /\ {r \in records : r.org = o} = {r \in records' : r.org = o}
         /\ records' # records =>
              recordCall'.op \in {"addRecord", "removeRecord", "clearMaintenance"}]_recordsVars
  BY RowsOfOthersStay DEF RowsOf
<1> QED  BY <1>1, VehiclesInvHolds, PTL DEF RecordsSpec, OnlyOwnRecords

-----------------------------------------------------------------------------
(* vehicle_fines_cache                                                     *)

(* A table of any ages and origins, and nobody at work. *)
LEMMA InitRefresher == RefresherInit => RefresherTypeOK
<1> SUFFICES ASSUME RefresherInit
             PROVE  RefresherTypeOK
  OBVIOUS
<1>1. /\ Nothing \notin {"source", "mock"} /\ MaxRestarts \in Nat
      /\ restarts = 0 /\ cron = "sleep" /\ entry = Nothing /\ result = Nothing
  BY RefresherAssumption DEF RefresherInit
<1>2. /\ pc = [h \in Handlers |-> "idle"] /\ row = [h \in Handlers |-> Nothing]
      /\ answer = [h \in Handlers |-> Nothing]
  BY DEF RefresherInit
<1>3. /\ pc \in [Handlers -> {"idle", "get", "search", "upsert"}]
      /\ row \in [Handlers -> Rows \cup {Nothing}]
      /\ answer \in [Handlers -> Origins \cup {Nothing}]
      /\ \A h \in Handlers : pc[h] = "idle" /\ row[h] = Nothing /\ answer[h] = Nothing
  BY <1>2
<1>5. cached \in [Rows -> Origins \cup {Nothing}]
  BY DEF RefresherInit
<1>4. RefresherTypeOK
  <2>1. /\ age \in [Rows -> 0 .. maxAge + 1 \cup {Nothing}]
        /\ origin \in [Rows -> Origins \cup {Nothing}]
        /\ \A k \in Rows : origin[k] = Nothing <=> age[k] = Nothing
        /\ tick = FALSE /\ todo = {} /\ enableScraping \in BOOLEAN
    BY DEF RefresherInit
  <2>2. /\ entry = Nothing <=> cron \in {"sleep", "loop"}
        /\ result = Nothing <=> cron # "upsert"
    BY <1>1
  <2>3. restarts \in 0 .. MaxRestarts
    BY <1>1
  <2>4. /\ entry \in Rows \cup {Nothing} /\ result \in Origins \cup {Nothing}
        /\ cron \in {"sleep", "loop", "search", "upsert"}
    BY <1>1
  <2>5. \A h \in Handlers : /\ row[h] = Nothing <=> pc[h] = "idle"
                           /\ answer[h] = Nothing <=> pc[h] # "upsert"
    BY <1>3
  <2>6. tick \in BOOLEAN /\ todo \subseteq Rows
    BY <2>1
  <2> QED
    BY <1>3, <1>5, <2>1, <2>2, <2>3, <2>4, <2>5, <2>6 DEF RefresherTypeOK
<1> QED  BY <1>4

(* A search is answered by a source or by the mock. *)
LEMMA SearchedBy ==
  ASSUME RefresherTypeOK, NEW k \in Rows, NEW from \in Origins, SearchFines(k, from)
  PROVE  cached' \in [Rows -> Origins \cup {Nothing}]
<1>1. \A x \in Fetch(k) : x \in Origins
  BY DEF Fetch, Origins
<1>2. ASSUME NEW x \in Origins, cached' = [cached EXCEPT ![k] = x]
      PROVE  cached' \in [Rows -> Origins \cup {Nothing}]
  BY <1>2 DEF RefresherTypeOK
<1>3. CASE UNCHANGED cached
  BY <1>3 DEF RefresherTypeOK
<1> QED  BY <1>1, <1>2, <1>3 DEF SearchFines, Hit, Miss

(* refreshStaleFines: one stale row after the other. *)
LEMMA CronStep ==
  ASSUME RefresherTypeOK, RefreshStep
  PROVE  RefresherTypeOK'
<1> USE RefresherAssumption DEF RefresherTypeOK, table,
            handlerVars, processVars
<1>1. CASE RefreshStart
  BY <1>1 DEF RefreshStart, ListStaleFineCaches
<1>2. ASSUME NEW k \in Rows, RefreshNext(k)
      PROVE  RefresherTypeOK'
  BY <1>2 DEF RefreshNext
<1>3. ASSUME NEW from \in Origins, RefreshSearchOK(from)
      PROVE  RefresherTypeOK'
  <2>1. cached' \in [Rows -> Origins \cup {Nothing}]
    BY <1>3, SearchedBy, RefresherAssumption DEF RefreshSearchOK, RefresherTypeOK
  <2> QED  BY <1>3, <2>1 DEF RefreshSearchOK, Origins
<1>4. CASE RefreshSearchFailed
  BY <1>4 DEF RefreshSearchFailed
<1>5. CASE RefreshUpsert
  BY <1>5 DEF RefreshUpsert, UpsertFinesCache, Origins
<1>6. CASE RefreshUpsertFailed
  BY <1>6 DEF RefreshUpsertFailed
<1>7. CASE RefreshDone
  BY <1>7 DEF RefreshDone
<1> QED
  BY <1>1, <1>2, <1>3, <1>4, <1>5, <1>6, <1>7 DEF RefreshStep

(* FleetGetVehicleFines, from the read of the row to its write. *)
LEMMA HandlerKeeps ==
  ASSUME RefresherTypeOK, NEW h \in Handlers,
         HandlerStep(h) \/
           \E k \in Rows, force \in BOOLEAN : FleetGetVehicleFines(h, k, force)
  PROVE  RefresherTypeOK'
<1> USE RefresherAssumption DEF RefresherTypeOK, table,
            cronVars, processVars, Goto, Return
<1>1. ASSUME NEW k \in Rows, NEW force \in BOOLEAN, FleetGetVehicleFines(h, k, force)
      PROVE  RefresherTypeOK'
  BY <1>1 DEF FleetGetVehicleFines
<1>2. CASE ServeRow(h)
  BY <1>2 DEF ServeRow
<1>3. CASE GetFailed(h)
  BY <1>3 DEF GetFailed
<1>4. ASSUME NEW from \in Origins, SearchOK(h, from)
      PROVE  RefresherTypeOK'
  <2>1. cached' \in [Rows -> Origins \cup {Nothing}]
    BY <1>4, SearchedBy, RefresherAssumption DEF SearchOK, RefresherTypeOK
  <2> QED  BY <1>4, <2>1 DEF SearchOK, Origins
<1>5. CASE SearchFailed(h)
  BY <1>5 DEF SearchFailed
<1>6. CASE Upsert(h)
  BY <1>6 DEF Upsert, UpsertFinesCache, Origins
<1>7. CASE UpsertFailed(h)
  BY <1>7 DEF UpsertFailed
<1> QED
  BY <1>1, <1>2, <1>3, <1>4, <1>5, <1>6, <1>7 DEF HandlerStep

(* Hours that pass and restarts keep the invariant as well. *)
LEMMA NextRefresher == RefresherTypeOK /\ [RefresherNext]_refresherVars => RefresherTypeOK'
<1> SUFFICES ASSUME RefresherTypeOK, [RefresherNext]_refresherVars
             PROVE  RefresherTypeOK'
  OBVIOUS
<1>1. CASE Hour
  <2>1. /\ age \in [Rows -> 0 .. maxAge + 1 \cup {Nothing}] /\ maxAge \in Nat /\ Nothing \notin Nat
        /\ UNCHANGED cached
        /\ age' = [k \in Rows |-> IF age[k] = Nothing \/ age[k] > maxAge THEN age[k] ELSE age[k] + 1]
        /\ tick' = TRUE
        /\ UNCHANGED <<origin, cron, todo, entry, result, pc, row, answer,
                      enableScraping, restarts>>
    BY <1>1, RefresherAssumption
       DEF Hour, stale, handlerVars, processVars, RefresherTypeOK
  <2>2. /\ age' \in [Rows -> 0 .. maxAge + 1 \cup {Nothing}]
        /\ \A k \in Rows : age'[k] = Nothing <=> age[k] = Nothing
    BY <2>1
  <2>3. RefresherTypeOK'
    BY <2>1, <2>2 DEF RefresherTypeOK
  <2> QED  BY <2>3
<1>2. CASE Restart
  <2>1. /\ Nothing \notin {"source", "mock"} /\ MaxRestarts \in Nat
        /\ restarts \in 0 .. MaxRestarts /\ restarts < MaxRestarts /\ restarts' = restarts + 1
        /\ enableScraping' \in BOOLEAN
        /\ tick' = FALSE /\ cron' = "sleep" /\ todo' = {} /\ entry' = Nothing /\ result' = Nothing
        /\ UNCHANGED <<cached, age, origin>>
    BY <1>2, RefresherAssumption DEF Restart, table, RefresherTypeOK
  <2>2. /\ pc' \in [Handlers -> {"idle", "get", "search", "upsert"}]
        /\ row' \in [Handlers -> Rows \cup {Nothing}]
        /\ answer' \in [Handlers -> Origins \cup {Nothing}]
        /\ \A h \in Handlers : pc'[h] = "idle" /\ row'[h] = Nothing /\ answer'[h] = Nothing
    BY <1>2 DEF Restart
  <2>3. restarts' \in 0 .. MaxRestarts
    BY <2>1
  <2>4. /\ tick' \in BOOLEAN
        /\ cron' \in {"sleep", "loop", "search", "upsert"} /\ todo' \subseteq Rows
        /\ entry' \in Rows \cup {Nothing} /\ result' \in Origins \cup {Nothing}
    BY <2>1
  <2>5. /\ entry' = Nothing <=> cron' \in {"sleep", "loop"}
        /\ result' = Nothing <=> cron' # "upsert"
        /\ \A h \in Handlers : /\ row'[h] = Nothing <=> pc'[h] = "idle"
                               /\ answer'[h] = Nothing <=> pc'[h] # "upsert"
    BY <2>1, <2>2
  <2>6. RefresherTypeOK'
    BY <2>1, <2>2, <2>4, <2>5, <2>3 DEF RefresherTypeOK
  <2> QED  BY <2>6
<1>3. CASE UNCHANGED refresherVars
  BY <1>3 DEF refresherVars, RefresherTypeOK
<1>4. ASSUME NEW k \in Rows, Expire(k)
      PROVE  RefresherTypeOK'
  BY <1>4 DEF Expire, table, cronVars, handlerVars, processVars, RefresherTypeOK
<1> QED
  BY <1>1, <1>2, <1>3, <1>4, CronStep, HandlerKeeps DEF RefresherNext

(* What a search adds to the cache and to what is in hand, without the mock. *)
Said(k) == IF k \in DeadSources THEN {} ELSE {"source"}

LEMMA SearchAdds ==
  ASSUME RefresherTypeOK, ~ enableScraping, NEW k \in Rows, NEW from, SearchFines(k, from)
  PROVE  /\ from \in {cached[k]} \cup Said(k)
         /\ cached'[k] \in {cached[k]} \cup Said(k)
         /\ \A j \in Rows \ {k} : cached'[j] = cached[j]
<1>1. Fetch(k) = Said(k)
  BY DEF Fetch, Said
<1>2. ASSUME NEW x \in Said(k), cached' = [cached EXCEPT ![k] = x]
      PROVE  cached'[k] \in Said(k) /\ \A j \in Rows \ {k} : cached'[j] = cached[j]
  BY <1>2 DEF RefresherTypeOK
<1> QED  BY <1>1, <1>2 DEF SearchFines, Hit, Miss

(* The cache, the cron and the handlers hold, of a row, what they held before
   or what its source says now.                                           *)
About(k) == Held(k) \cup {Nothing} \cup Said(k)

LEMMA HeldBy ==
  ASSUME NEW k
  PROVE  /\ cached[k] \in Held(k)
         /\ entry = k => result \in Held(k)
         /\ \A h \in Handlers : row[h] = k => answer[h] \in Held(k)
  BY DEF Held

LEMMA CacheHolds ==
  ASSUME RefresherTypeOK, [RefresherNext]_refresherVars, ~ enableScraping, NEW k \in Rows
  PROVE  cached'[k] \in About(k)
<1> USE HeldBy DEF About
<1>1. ASSUME NEW j \in Rows, NEW from, SearchFines(j, from)
      PROVE  cached'[k] \in About(k)
  BY <1>1, SearchAdds
<1>2. CASE UNCHANGED cached
  BY <1>2
<1>3. ASSUME NEW from \in Origins, RefreshSearchOK(from)
      PROVE  cached'[k] \in About(k)
  BY <1>1, <1>3, RefresherAssumption DEF RefreshSearchOK, RefresherTypeOK
<1>4. ASSUME NEW h \in Handlers, NEW from \in Origins, SearchOK(h, from)
      PROVE  cached'[k] \in About(k)
  BY <1>1, <1>4, RefresherAssumption DEF SearchOK, RefresherTypeOK
<1>5. ASSUME NEW j \in Rows, Expire(j)
      PROVE  cached'[k] \in About(k)
  BY <1>5 DEF Expire, RefresherTypeOK
<1> HIDE DEF About
<1>6. CASE Hour \/ Restart \/ UNCHANGED refresherVars
  BY <1>2, <1>6 DEF Hour, Restart, refresherVars
<1>7. CASE RefreshStep
  BY <1>2, <1>3, <1>7 DEF RefreshStep, RefreshStart, RefreshDone, RefreshNext,
     RefreshSearchFailed, RefreshUpsert, RefreshUpsertFailed
<1>8. ASSUME NEW h \in Handlers,
             HandlerStep(h) \/
               \E j \in Rows, force \in BOOLEAN : FleetGetVehicleFines(h, j, force)
      PROVE  cached'[k] \in About(k)
  BY <1>2, <1>4, <1>8 DEF HandlerStep, FleetGetVehicleFines, ServeRow, GetFailed,
     SearchFailed, Upsert, UpsertFailed
<1> QED  BY <1>5, <1>6, <1>7, <1>8 DEF RefresherNext

LEMMA CronHolds ==
  ASSUME RefresherTypeOK, [RefresherNext]_refresherVars, ~ enableScraping, NEW k \in Rows,
         entry' = k
  PROVE  result' \in About(k)
<1>1. CASE UNCHANGED <<entry, result>>
  BY <1>1, HeldBy DEF About
<1>2. CASE result' = Nothing
  BY <1>2 DEF About
<1>3. ASSUME NEW from \in Origins, RefreshSearchOK(from)
      PROVE  result' \in About(k)
  BY <1>3, SearchAdds, HeldBy DEF RefreshSearchOK, About
<1>4. ASSUME NEW j \in Rows, RefreshNext(j)
      PROVE  result' \in About(k)
  BY <1>2, <1>4 DEF RefreshNext, RefresherTypeOK
<1>5. CASE Hour \/ Restart \/ UNCHANGED refresherVars \/ \E j \in Rows : Expire(j)
  BY <1>1, <1>2, <1>5 DEF Hour, Restart, Expire, refresherVars, cronVars
<1>6. CASE RefreshStep
  BY <1>1, <1>2, <1>3, <1>4, <1>6 DEF RefreshStep, RefreshStart, RefreshDone,
     RefreshSearchFailed, RefreshUpsert, RefreshUpsertFailed, RefresherTypeOK
<1>7. ASSUME NEW h \in Handlers,
             HandlerStep(h) \/
               \E j \in Rows, force \in BOOLEAN : FleetGetVehicleFines(h, j, force)
      PROVE  UNCHANGED <<entry, result>>
  BY <1>7 DEF HandlerStep, FleetGetVehicleFines, ServeRow, GetFailed, SearchOK,
     SearchFailed, Upsert, UpsertFailed, cronVars
<1> QED  BY <1>1, <1>5, <1>6, <1>7 DEF RefresherNext

LEMMA HandlersHold ==
  ASSUME RefresherTypeOK, [RefresherNext]_refresherVars, ~ enableScraping, NEW k \in Rows,
         NEW g \in Handlers, row'[g] = k
  PROVE  answer'[g] \in About(k)
<1>1. CASE row'[g] = row[g] /\ answer'[g] = answer[g]
  BY <1>1, HeldBy DEF About
<1>2. CASE answer'[g] = Nothing
  BY <1>2 DEF About
<1>3. ASSUME NEW h \in Handlers, NEW from \in Origins, SearchOK(h, from)
      PROVE  answer'[g] \in About(k)
  <2>1. CASE h = g
    <3>1. answer'[g] = from /\ row[g] = k /\ SearchFines(k, from)
      BY <1>3, <2>1 DEF SearchOK, RefresherTypeOK
    <3> QED  BY <3>1, SearchAdds, HeldBy DEF About
  <2>2. CASE h # g
    BY <1>1, <1>3, <2>2 DEF SearchOK, RefresherTypeOK
  <2> QED  BY <2>1, <2>2
<1>4. ASSUME NEW h \in Handlers, NEW j \in Rows, NEW force \in BOOLEAN,
             FleetGetVehicleFines(h, j, force)
      PROVE  answer'[g] \in About(k)
  BY <1>1, <1>2, <1>4 DEF FleetGetVehicleFines, RefresherTypeOK
<1>5. ASSUME NEW h \in Handlers, HandlerStep(h), \A from \in Origins : ~ SearchOK(h, from)
      PROVE  answer'[g] \in About(k)
  BY <1>1, <1>2, <1>5 DEF HandlerStep, ServeRow, GetFailed, SearchFailed, Upsert,
     UpsertFailed, Return, RefresherTypeOK
<1>6. CASE Hour \/ Restart \/ UNCHANGED refresherVars \/ \E j \in Rows : Expire(j)
  BY <1>1, <1>2, <1>6 DEF Hour, Restart, Expire, refresherVars, handlerVars
<1>7. CASE RefreshStep
  BY <1>1, <1>7 DEF RefreshStep, RefreshStart, RefreshDone, RefreshNext, RefreshSearchOK,
     RefreshSearchFailed, RefreshUpsert, RefreshUpsertFailed, handlerVars
<1> QED  BY <1>3, <1>4, <1>5, <1>6, <1>7 DEF RefresherNext

LEMMA HeldGrows ==
  ASSUME RefresherTypeOK, [RefresherNext]_refresherVars, ~ enableScraping, NEW k \in Rows
  PROVE  Held(k)' \subseteq About(k) /\ Held(k)' # {}
<1>1. ASSUME NEW x \in Held(k)'
      PROVE  x \in About(k)
  <2>1. CASE x = cached'[k]
    BY <2>1, CacheHolds
  <2>2. CASE x = IF entry' = k THEN result' ELSE Nothing
    BY <2>2, CronHolds DEF About
  <2>3. CASE \E g \in Handlers : row'[g] = k /\ x = answer'[g]
    BY <2>3, HandlersHold
  <2> QED  BY <1>1, <2>1, <2>2, <2>3 DEF Held
<1> QED  BY <1>1 DEF Held

(* A row is written by the cron or by one handler, with an answer it holds. *)
RowKeeps(k) ==
  /\ age[k] # Nothing => age'[k] # Nothing
  /\ "mock" \notin Held(k) => origin'[k] \in {origin[k], "source"}
  /\ k \in DeadSources /\ Held(k) = {Nothing} =>
       (age[k] # Nothing => age'[k] >= age[k])

LEMMA RowsStay ==
  ASSUME RefresherTypeOK, [RefresherNext]_refresherVars, NEW k \in Rows
  PROVE  RowKeeps(k)
<1>type. /\ age[k] # Nothing => age[k] \in Nat
         /\ maxAge \in Nat /\ Nothing \notin Nat
         /\ age \in [Rows -> 0 .. maxAge + 1 \cup {Nothing}]
         /\ origin \in [Rows -> Origins \cup {Nothing}]
  BY RefresherAssumption DEF RefresherTypeOK
<1>1. ASSUME NEW j \in Rows, NEW from \in Origins, from \in Held(j), UpsertFinesCache(j, from)
      PROVE  RowKeeps(k)
  <2>1. from = "source" \/ from = "mock"
    BY DEF Origins
  <2>2. from # Nothing
    BY <2>1, RefresherAssumption
  <2> QED  BY <1>1, <2>1, <2>2, <1>type DEF UpsertFinesCache, RowKeeps
<1>2. CASE UNCHANGED <<age, origin>>
  BY <1>2, <1>type DEF RowKeeps
<1>3. CASE Hour
  BY <1>3, <1>type DEF Hour, stale, RowKeeps
<1>4. CASE RefreshUpsert
  <2>1. entry \in Rows /\ result \in Origins /\ result \in Held(entry)
    BY <1>4, HeldBy, RefresherAssumption DEF RefreshUpsert, RefresherTypeOK
  <2> QED  BY <1>1, <1>4, <2>1 DEF RefreshUpsert
<1>5. ASSUME NEW h \in Handlers, Upsert(h)
      PROVE  RowKeeps(k)
  <2>1. row[h] \in Rows /\ answer[h] \in Origins /\ answer[h] \in Held(row[h])
    BY <1>5, HeldBy, RefresherAssumption DEF Upsert, RefresherTypeOK
  <2> QED  BY <1>1, <1>5, <2>1 DEF Upsert
<1>6. CASE RefreshStep /\ ~ RefreshUpsert
  BY <1>2, <1>6 DEF RefreshStep, RefreshStart, RefreshDone,
     RefreshNext, RefreshSearchOK, RefreshSearchFailed,
     RefreshUpsertFailed, table
<1>7. ASSUME NEW h \in Handlers, ~ Upsert(h),
             HandlerStep(h) \/
               \E j \in Rows, force \in BOOLEAN : FleetGetVehicleFines(h, j, force)
      PROVE  UNCHANGED <<age, origin>>
  BY <1>7 DEF HandlerStep, FleetGetVehicleFines, ServeRow,
     GetFailed, SearchOK, SearchFailed, UpsertFailed,
     table
<1>8. CASE Restart \/ UNCHANGED refresherVars \/ \E j \in Rows : Expire(j)
  BY <1>2, <1>8 DEF Restart, Expire, table, refresherVars
<1> QED
  BY <1>2, <1>3, <1>4, <1>5, <1>6, <1>7, <1>8 DEF RefresherNext

(* The types of the rows, the cache, the cron and the handlers. *)
THEOREM RefresherTypes == RefresherSpec => []RefresherTypeOK
  BY InitRefresher, NextRefresher, PTL DEF RefresherSpec

(* Without the mock, and with its answers of an earlier process gone, neither the
   cron nor a handler ever has a placeholder to write again; a dead source's
   row is not renewed; and no failure loses a row.                        *)
LEMMA NothingComesBack ==
  ASSUME RefresherTypeOK, [RefresherNext]_refresherVars, ~ enableScraping, NEW k \in Rows
  PROVE  /\ "mock" \notin Held(k) => "mock" \notin Held(k)'
         /\ k \in DeadSources /\ Held(k) = {Nothing} => Held(k)' = {Nothing}
<1>1. Nothing # "mock"
  BY RefresherAssumption
<1>2. Held(k)' \subseteq About(k) /\ Held(k)' # {}
  BY HeldGrows
<1> QED  BY <1>1, <1>2 DEF About, Said

(* RowsSurviveFailures: a row survives failed searches, failed writes and
   restarts, and a dead source does not make it young.                    *)
THEOREM RowsSurvive == RefresherSpec => RowsSurviveFailures
<1>1. RefresherTypeOK /\ [RefresherNext]_refresherVars =>
        [~enableScraping =>
           \A k \in Rows :
             /\ age[k] # Nothing => age'[k] # Nothing
             /\ "mock" \notin Held(k) =>
                  "mock" \notin Held(k)' /\ origin'[k] \in {origin[k], "source"}
             /\ k \in DeadSources /\ Held(k) = {Nothing} =>
                  /\ Held(k)' = {Nothing}
                  /\ age[k] # Nothing => age'[k] >= age[k]]_refresherVars
  BY NothingComesBack, RowsStay DEF RowKeeps
<1> QED  BY <1>1, RefresherTypes, PTL DEF RefresherSpec, RowsSurviveFailures
=============================================================================
