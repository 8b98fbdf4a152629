--------------------------- MODULE SightingsProofs ---------------------------
(***************************************************************************)
(* Theorems about Sightings, for all scanners, clients, devices, windows   *)
(* and faults.  TypeOK is not inductive: that a change names a device, a   *)
(* scanner and a last_seen depends on what the job has been through, which *)
(* Shaped records.                                                         *)
(***************************************************************************)
EXTENDS SightingsProperties, FiniteSetTheorems, TLAPS

Shaped(j) ==
    /\ j.pc = "read" => j.scanner \in Scanner /\ j.left \in 1..MaxBatch
    /\ j.pc \in {"seen", "insert", "check", "record"} =>
           j.scanner \in Scanner /\ j.mac \in Mac /\ j.device \in Device
    /\ j.pc = "seen" => j.existing \in Device
    /\ j.pc \in {"check", "record"} =>
           \/ j.existing \in Device
           \/ j.event = "new_device" /\ j.todo = {}

ShapedJob == {j \in Job : Shaped(j)}

TypeInv == TypeOK /\ Shaped(job)
-----------------------------------------------------------------------------
(***************************************************************************)
(* The rows and records the helpers build have their types.                *)
(***************************************************************************)
LEMMA BuildDeviceType ==
    ASSUME NEW ip \in OptIp, NEW vendor \in OptVendor, NEW name \in OptName,
           NEW t \in Nat
    PROVE  BuildDevice(ip, vendor, name, t) \in Device
<1>1. vendor # "" => TypeOf[vendor] \in OptType
  BY DeviceAssumption DEF OptVendor, OptType
<1> QED BY <1>1 DEF BuildDevice, Device, OptType, OptOwner

LEMMA ReconcileType ==
    ASSUME NEW device \in Device, NEW recorded \in Device
    PROVE  Reconcile(device, recorded) \in Device
BY DEF Reconcile, Device

LEMMA SeenType ==
    ASSUME NEW row \in Device, NEW device \in Device, NEW t \in Nat
    PROVE  Seen(row, device, t) \in Device
BY DEF Seen, Device

LEMMA WrittenType ==
    ASSUME NEW request \in Request, NEW row \in Device
    PROVE  Written(request, row) \in Device \cup {None}
BY DEF Written, Request, Register, Update, Unregister, Device, OptOwner

LEMMA DeducedVendorType ==
    ASSUME NEW scanner, NEW mac \in Mac
    PROVE  DeducedVendor(scanner, mac) \subseteq OptVendor
BY DeviceAssumption DEF DeducedVendor, OptVendor

LEMMA ReportedType ==
    ASSUME NEW scanner
    PROVE  Reported(scanner).ip \subseteq OptIp /\ Reported(scanner).name \subseteq OptName
BY DEF Reported, ArpReport, MdnsReport, SsdpReport, DhcpReport, ActiveScanner, OptIp, OptName

LEMMA DetectedChangesType ==
    ASSUME NEW existing, NEW device, NEW t
    PROVE  DetectedChanges(existing, device, t) \subseteq ChangeType
BY DEF DetectedChanges, ChangeType

LEMMA IdleType == Idle \in ShapedJob
BY SightingsAssumption DEF Idle, ShapedJob, Shaped, Job, JobPC, EventType

LEMMA NextSightingType ==
    ASSUME NEW j \in ShapedJob, j.scanner \in Scanner
    PROVE  NextSighting(j) \in ShapedJob
<1>1. /\ j.left \in 0..MaxBatch /\ MaxBatch \in Nat
      /\ j.changes \in SUBSET Change
  BY SightingsAssumption DEF ShapedJob, Job
<1>2. CASE j.left > 1
  <2> DEFINE n == j.left - 1
  <2>1. n \in 1..MaxBatch /\ n \in 0..MaxBatch
    BY <1>1, <1>2
  <2>2. NextSighting(j) =
            [pc |-> "read", scanner |-> j.scanner, left |-> n, mac |-> None,
             existing |-> None, device |-> None, event |-> "device_seen",
             todo |-> {}, since |-> 0, at |-> 0, changes |-> j.changes]
    BY <1>2 DEF NextSighting, Idle
  <2> HIDE DEF n
  <2> QED BY <1>1, <2>1, <2>2 DEF ShapedJob, Shaped, Job, JobPC, EventType
<1>3. CASE ~(j.left > 1)
  BY <1>1, <1>3, IdleType
     DEF NextSighting, Idle, ShapedJob, Shaped, Job, JobPC, EventType
<1> QED BY <1>2, <1>3

LEMMA StartEventType ==
    ASSUME NEW j \in ShapedJob, now \in Nat, NEW type \in EventType,
           NEW todo \in SUBSET ChangeType,
           j.scanner \in Scanner, j.mac \in Mac, j.device \in Device,
           j.existing \in Device \/ (type = "new_device" /\ todo = {})
    PROVE  StartEvent(j, type, todo) \in ShapedJob
BY DEF StartEvent, ShapedJob, Shaped, Job, JobPC

LEMMA AfterEventType ==
    ASSUME NEW j \in ShapedJob, j.pc \in {"check", "record"}, now \in Nat
    PROVE  AfterEvent(j) \in ShapedJob
<1> DEFINE rest == IF j.event = "device_seen"
                   THEN DetectedChanges(j.existing, j.device, now) ELSE j.todo
<1>1. rest \subseteq ChangeType
  BY DetectedChangesType DEF ShapedJob, Job
<1>2. CASE rest = {}
  BY <1>2, NextSightingType DEF AfterEvent, ShapedJob, Shaped
<1>3. CASE rest # {}
  <2>1. j.existing \in Device
    BY <1>3 DEF ShapedJob, Shaped
  <2> DEFINE type == NextChange(rest)
             todo == rest \ {type}
  <2>2. type \in EventType
    BY DEF NextChange, EventType, ChangeType
  <2>3. todo \in SUBSET ChangeType
    BY <1>1
  <2>4. AfterEvent(j) = StartEvent(j, type, todo)
    BY <1>3 DEF AfterEvent
  <2>5. j.scanner \in Scanner /\ j.mac \in Mac /\ j.device \in Device
    BY DEF ShapedJob, Shaped
  <2> HIDE DEF type, todo
  <2>6. StartEvent(j, type, todo) \in ShapedJob
    BY <2>1, <2>2, <2>3, <2>5, StartEventType
  <2> QED BY <2>4, <2>6
<1> QED BY <1>2, <1>3

-----------------------------------------------------------------------------
(* Every step of the main task, of a request and of the environment keeps
   TypeInv. *)
LEMMA TypeInit == Init => TypeInv
<1> SUFFICES ASSUME Init PROVE TypeInv
  OBVIOUS
<1>1. job \in ShapedJob
  BY IdleType DEF Init
<1>2. now \in 0..MaxClock
  BY SightingsAssumption DEF Init
<1>3. IsFiniteSet(raised)
  BY FS_EmptySet DEF Init
<1> QED BY <1>1, <1>2, <1>3 DEF Init, TypeInv, TypeOK, ShapedJob

(* ReadDevice leaves a recent, unregistered sighting, or its reconciliation with the
   row. *)
ReadOutcome(mac, sighting, recorded) ==
    /\ sighting.is_registered = FALSE /\ sighting.owner = ""
    /\ now <= sighting.last_seen + ScanAge
    /\ job' = [job EXCEPT
                  !.pc       = IF recorded = None THEN "insert" ELSE "seen",
                  !.since    = now,
                  !.mac      = mac,
                  !.existing = recorded,
                  !.device   = IF recorded = None THEN sighting
                               ELSE Reconcile(sighting, recorded)]

LEMMA ReadDeviceOutcome ==
    ASSUME TypeInv, ReadDevice
    PROVE  \E mac \in Mac, sighting \in Device :
              \E recorded \in {devices[mac], None} : ReadOutcome(mac, sighting, recorded)
<1>1. PICK mac \in Mac, ip \in Reported(job.scanner).ip,
           name \in Reported(job.scanner).name, age \in 0..ScanAge :
          \E vendor \in DeducedVendor(job.scanner, mac), recorded \in ReadResult(mac) :
              LET sighting == BuildDevice(ip, vendor, name, now - age)
              IN  /\ age <= now
                  /\ job.scanner \in ActiveScanner \/ age = 0
                  /\ job' = [job EXCEPT
                       !.pc       = IF recorded = None THEN "insert" ELSE "seen",
                       !.since    = now,
                       !.mac      = mac,
                       !.existing = recorded,
                       !.device   = IF recorded = None THEN sighting
                                    ELSE Reconcile(sighting, recorded)]
  BY DEF ReadDevice
<1>2. PICK vendor \in DeducedVendor(job.scanner, mac), recorded \in ReadResult(mac) :
              LET sighting == BuildDevice(ip, vendor, name, now - age)
              IN  /\ age <= now
                  /\ job.scanner \in ActiveScanner \/ age = 0
                  /\ job' = [job EXCEPT
                       !.pc       = IF recorded = None THEN "insert" ELSE "seen",
                       !.since    = now,
                       !.mac      = mac,
                       !.existing = recorded,
                       !.device   = IF recorded = None THEN sighting
                                    ELSE Reconcile(sighting, recorded)]
  BY <1>1
<1> DEFINE sighting == BuildDevice(ip, vendor, name, now - age)
<1>3. now - age \in Nat /\ now <= (now - age) + ScanAge
  BY <1>2, SightingsAssumption DEF TypeInv, TypeOK
<1>4. sighting \in Device
  BY <1>3, BuildDeviceType, ReportedType, DeducedVendorType
<1>5. /\ sighting.is_registered = FALSE /\ sighting.owner = ""
      /\ now <= sighting.last_seen + ScanAge
  BY <1>3 DEF BuildDevice
<1>6. recorded \in {devices[mac], None}
  BY DEF ReadResult
<1>7. ReadOutcome(mac, sighting, recorded)
  BY <1>2, <1>5 DEF ReadOutcome
<1> QED BY <1>4, <1>6, <1>7

LEMMA TypeStep == TypeInv /\ [Next]_vars => TypeInv'
<1> SUFFICES ASSUME TypeInv, [Next]_vars PROVE TypeInv'
  OBVIOUS
<1> USE DEF store, history
<1>0. /\ job \in ShapedJob /\ now \in 0..MaxClock /\ now \in Nat
      /\ devices \in [Mac -> Device \cup {None}]
  BY SightingsAssumption DEF TypeInv, TypeOK, ShapedJob
<1>1. ASSUME NEW s \in Scanner, StartScan(s) PROVE TypeInv'
  <2>1. PICK n \in 1..(IF s \in ActiveScanner THEN MaxBatch ELSE 1) :
            job' = [Idle EXCEPT !.pc = "read", !.scanner = s, !.left = n]
    BY <1>1 DEF StartScan
  <2>2. n \in 1..MaxBatch
    BY SightingsAssumption
  <2>3. job' \in ShapedJob
    <3>1. job' = [pc |-> "read", scanner |-> s, left |-> n, mac |-> None,
                  existing |-> None, device |-> None, event |-> "device_seen",
                  todo |-> {}, since |-> 0, at |-> 0, changes |-> {}]
      BY <2>1 DEF Idle
    <3> QED BY <2>2, <3>1, SightingsAssumption
            DEF ShapedJob, Shaped, Job, JobPC, EventType
  <2> QED BY <1>1, <2>3 DEF StartScan, TypeInv, TypeOK, ShapedJob
<1>2. CASE ReadDevice
  <2>1. PICK mac \in Mac, sighting \in Device :
            \E recorded \in {devices[mac], None} : ReadOutcome(mac, sighting, recorded)
    BY <1>2, ReadDeviceOutcome
  <2>0. PICK recorded \in {devices[mac], None} : ReadOutcome(mac, sighting, recorded)
    BY <2>1
  <2> DEFINE device == IF recorded = None THEN sighting ELSE Reconcile(sighting, recorded)
             pc == IF recorded = None THEN "insert" ELSE "seen"
  <2>2. recorded \in Device \cup {None} /\ job.scanner \in Scanner
    BY <1>0, <1>2 DEF ReadDevice, ShapedJob, Shaped
  <2>3. device \in Device
    BY <2>2, ReconcileType
  <2>4. job' = [job EXCEPT !.pc = pc, !.since = now, !.mac = mac,
                           !.existing = recorded, !.device = device]
    BY <2>0 DEF ReadOutcome
  <2>5. pc = "insert" \/ (pc = "seen" /\ recorded \in Device)
    BY <2>2
  <2> HIDE DEF device, pc
  <2>6. job' \in ShapedJob
    BY <1>0, <2>2, <2>3, <2>4, <2>5 DEF ShapedJob, Shaped, Job, JobPC
  <2> QED BY <1>2, <2>6 DEF ReadDevice, TypeInv, TypeOK, ShapedJob
<1>3. CASE RecordSeen
  <2>1. /\ job.scanner \in Scanner /\ job.mac \in Mac
        /\ job.device \in Device /\ job.existing \in Device
    BY <1>0, <1>3 DEF RecordSeen, ShapedJob, Shaped
  <2>2. devices' \in [Mac -> Device \cup {None}]
    BY <1>0, <1>3, <2>1, SeenType DEF RecordSeen
  <2>3. StartEvent(job, "device_seen", {}) \in ShapedJob
    BY <1>0, <2>1, StartEventType DEF EventType
  <2> QED BY <1>3, <2>2, <2>3 DEF RecordSeen, TypeInv, TypeOK, ShapedJob
<1>4. CASE InsertDevice
  <2>1. job.scanner \in Scanner /\ job.mac \in Mac /\ job.device \in Device
    BY <1>0, <1>4 DEF InsertDevice, ShapedJob, Shaped
  <2>2. devices' \in [Mac -> Device \cup {None}]
    BY <1>0, <1>4, <2>1 DEF InsertDevice
  <2>3. StartEvent(job, "new_device", {}) \in ShapedJob
    BY <1>0, <2>1, StartEventType DEF EventType, ChangeType
  <2> QED BY <1>4, <2>2, <2>3 DEF InsertDevice, TypeInv, TypeOK, ShapedJob
<1>5. CASE StoreFails
  <2>1. job.scanner \in Scanner
    BY <1>0, <1>5 DEF StoreFails, ShapedJob, Shaped
  <2>2. job' \in ShapedJob
    BY <1>0, <1>5, <2>1, NextSightingType DEF StoreFails
  <2> QED BY <1>5, <2>2 DEF StoreFails, TypeInv, TypeOK, ShapedJob
<1>6. CASE CheckDuplicate
  <2>1. job.pc = "check"
    BY <1>6 DEF CheckDuplicate
  <2>2. AfterEvent(job) \in ShapedJob
    BY <1>0, <2>1, AfterEventType
  <2>3. [job EXCEPT !.pc = "record"] \in ShapedJob
    BY <1>0, <2>1 DEF ShapedJob, Shaped, Job, JobPC
  <2>4. job' \in ShapedJob
    BY <1>6, <2>2, <2>3 DEF CheckDuplicate
  <2> QED BY <1>6, <2>4 DEF CheckDuplicate, TypeInv, TypeOK, ShapedJob
<1>7. CASE RecordEvent
  <2>1. /\ job.pc = "record" /\ job.scanner \in Scanner /\ job.mac \in Mac
        /\ job.device \in Device /\ job.event \in EventType /\ job.at \in Nat
        /\ job.event # "new_device" => job.existing \in Device
    BY <1>0, <1>7 DEF RecordEvent, ShapedJob, Shaped, Job
  <2>2. events' \subseteq Event
    <3>1. [mac |-> job.mac, type |-> job.event, scanner |-> job.scanner,
           ipv4_address |-> job.device.ipv4_address, created_on |-> job.at] \in Event
      BY <2>1 DEF Event, Device
    <3> QED BY <1>7, <3>1 DEF RecordEvent, TypeInv, TypeOK
  <2> DEFINE since  == IF job.event = "device_back_online"
                       THEN job.existing.last_seen ELSE 0
             change == [id |-> Cardinality(raised), mac |-> job.mac,
                        type |-> job.event, scanner |-> job.scanner, at |-> job.at,
                        absent_since |-> since, life |-> deletions[job.mac]]
             found  == IF job.event = "device_seen" THEN {} ELSE {change}
             j      == [job EXCEPT !.changes = @ \cup found]
  <2>3. found \subseteq Change
    <3>1. since \in Nat
      BY <2>1 DEF Device
    <3>2. Cardinality(raised) \in Nat /\ deletions[job.mac] \in Nat
      BY <2>1, FS_CardinalityType DEF TypeInv, TypeOK
    <3>3. job.event # "device_seen" => job.event \in ChangeType
      BY <2>1 DEF EventType
    <3> HIDE DEF since
    <3> QED BY <2>1, <3>1, <3>2, <3>3 DEF Change
  <2>4. IsFiniteSet(raised \cup found)
    BY FS_EmptySet, FS_Singleton, FS_Union DEF TypeInv, TypeOK
  <2>5. job' = AfterEvent(j) /\ raised' = raised \cup found
    BY <1>7 DEF RecordEvent
  <2> HIDE DEF found
  <2>6. j \in ShapedJob /\ j.pc = "record"
    BY <1>0, <2>1, <2>3 DEF ShapedJob, Shaped, Job
  <2>7. job' \in ShapedJob
    BY <1>0, <2>5, <2>6, AfterEventType
  <2> QED BY <1>7, <2>2, <2>3, <2>4, <2>5, <2>7
          DEF RecordEvent, TypeInv, TypeOK, ShapedJob
<1>8. CASE PersistAndDeliver
  <2> DEFINE type  == FirstAlert(job.changes)
             group == {c \in job.changes : c.type = type}
             rest  == job.changes \ group
             alert == [type |-> type, about |-> group, created_on |-> now]
  <2>1. type \in ChangeType
    BY DEF FirstAlert, NextChange, ChangeType
  <2>2. job.changes \subseteq Change
    BY <1>0 DEF ShapedJob, Job
  <2>3. alert \in Notification
    BY <1>0, <2>1, <2>2 DEF Notification
  <2>4. /\ notifications' \in {notifications, notifications \cup {alert}}
        /\ queue' \in {queue, Append(queue, alert)}
        /\ lost' \in {lost, lost \cup group}
        /\ job' \in {Idle, [job EXCEPT !.changes = rest]}
    BY <1>8 DEF PersistAndDeliver
  <2>5. job.pc = "notify"
    BY <1>8 DEF PersistAndDeliver
  <2> HIDE DEF alert, type
  <2>6. [job EXCEPT !.changes = rest] \in ShapedJob
    BY <1>0, <2>2, <2>5 DEF ShapedJob, Shaped, Job
  <2>7. queue' \in Seq(Notification)
    <3>1. queue \in Seq(Notification)
      BY DEF TypeInv, TypeOK
    <3>2. Append(queue, alert) \in Seq(Notification)
      BY <2>3, <3>1
    <3> QED BY <2>4, <3>1, <3>2
  <2>8. job' \in ShapedJob
    BY <2>4, <2>6, IdleType
  <2>9. notifications' \subseteq Notification /\ lost' \subseteq Change
    BY <2>2, <2>3, <2>4 DEF TypeInv, TypeOK
  <2> QED BY <1>8, <2>7, <2>8, <2>9 DEF PersistAndDeliver, TypeInv, TypeOK, ShapedJob
<1>9. CASE TakeRequest
  <2>1. queue' \in Seq(Notification)
    BY <1>9 DEF TakeRequest, TypeInv, TypeOK
  <2> QED BY <1>9, <2>1 DEF TakeRequest, TypeInv, TypeOK, Shaped
<1>10. CASE StartSweep
  <2>1. job' \in ShapedJob
    BY <1>0, <1>10, IdleType DEF StartSweep, Idle, ShapedJob, Shaped, Job, JobPC
  <2> QED BY <1>10, <2>1 DEF StartSweep, TypeInv, TypeOK, ShapedJob
<1>11. CASE PurgeEvents
  <2>1. job' \in ShapedJob
    BY <1>0, <1>11 DEF PurgeEvents, ShapedJob, Shaped, Job, JobPC
  <2> QED BY <1>11, <2>1 DEF PurgeEvents, TypeInv, TypeOK, ShapedJob
<1>12. CASE PurgeNotifications
  <2>1. /\ notifications' \subseteq notifications
        /\ lost' \subseteq lost \cup UNION {n.about : n \in notifications}
    BY <1>12 DEF PurgeNotifications
  <2>2. lost' \subseteq Change
    BY <2>1 DEF TypeInv, TypeOK, Notification
  <2> QED BY <1>12, <2>1, <2>2, IdleType
          DEF PurgeNotifications, TypeInv, TypeOK, ShapedJob
<1>13. ASSUME NEW c \in Client, ApiRead(c) PROVE TypeInv'
  <2>0. PICK op \in ApiOp :
            \E request \in Form(op) : api' = [api EXCEPT ![c] = request]
    BY <1>13 DEF ApiRead
  <2>1. PICK request \in Form(op) : api' = [api EXCEPT ![c] = request]
    BY <2>0
  <2>2. request \in Request
    BY SightingsAssumption DEF Form, Request, OptOwner, OptType, OptVendor, OptName
  <2>3. api' \in [Client -> Request \cup {None}]
    BY <2>1, <2>2 DEF TypeInv, TypeOK
  <2> QED BY <1>13, <2>3 DEF ApiRead, TypeInv, TypeOK, Shaped
<1>14. ASSUME NEW c \in Client, ApiWrite(c) PROVE TypeInv'
  <2> DEFINE m == api[c].mac
  <2>1. api[c] \in Request /\ m \in Mac
    BY <1>14 DEF ApiWrite, TypeInv, TypeOK, Request
  <2>2. devices' = [devices EXCEPT ![m] =
                       IF @ = None THEN None ELSE Written(api[c], @)]
    BY <1>14 DEF ApiWrite
  <2>3. devices' \in [Mac -> Device \cup {None}]
    BY <1>0, <2>1, <2>2, WrittenType
  <2>4. /\ api' = [api EXCEPT ![c] = None]
        /\ events' \subseteq events
        /\ \/ deletions' = deletions
           \/ deletions' = [deletions EXCEPT ![m] = @]
           \/ deletions' = [deletions EXCEPT ![m] = @ + 1]
    BY <1>14 DEF ApiWrite
  <2>5. deletions' \in [Mac -> Nat]
    BY <2>1, <2>4 DEF TypeInv, TypeOK
  <2>6. api' \in [Client -> Request \cup {None}]
    BY <2>4 DEF TypeInv, TypeOK
  <2> QED BY <1>14, <2>3, <2>4, <2>5, <2>6 DEF ApiWrite, TypeInv, TypeOK, Shaped
<1>15. ASSUME NEW c \in Client, ApiFails(c) PROVE TypeInv'
  BY <1>15 DEF ApiFails, TypeInv, TypeOK, Shaped
<1>16. CASE Tick
  <2>1. now' \in 0..MaxClock
    BY <1>0, <1>16, SightingsAssumption DEF Tick
  <2> QED BY <1>16, <2>1 DEF Tick, TypeInv, TypeOK, Shaped
<1>17. CASE Crash
  <2>1. lost' \subseteq Change
    BY <1>0, <1>17 DEF Crash, TypeInv, TypeOK, ShapedJob, Job
  <2>2. job' \in ShapedJob
    BY <1>17, IdleType DEF Crash
  <2>3. queue' \in Seq(Notification)
    BY <1>17 DEF Crash
  <2>4. api' \in [Client -> Request \cup {None}]
    BY <1>17 DEF Crash
  <2> QED BY <1>17, <2>1, <2>2, <2>3, <2>4 DEF Crash, TypeInv, TypeOK, ShapedJob
<1>18. CASE UNCHANGED vars
  BY <1>18 DEF vars, TypeInv, TypeOK, Shaped
<1> QED BY <1>1, <1>2, <1>3, <1>4, <1>5, <1>6, <1>7, <1>8, <1>9, <1>10, <1>11, <1>12,
           <1>13, <1>14, <1>15, <1>16, <1>17, <1>18 DEF Next, Pipeline, Sweep, Api

(* The table and every intermediate value of a job, a request and a history
   variable have their types, whatever the scanners report and the users do. *)
THEOREM TypeCorrect == Spec => []TypeOK
<1>1. Init => TypeInv
  BY TypeInit
<1>2. TypeInv /\ [Next]_vars => TypeInv'
  BY TypeStep
<1>3. TypeInv => TypeOK
  BY DEF TypeInv
<1> QED BY <1>1, <1>2, <1>3, PTL DEF Spec

-----------------------------------------------------------------------------
(***************************************************************************)
(* The spacing of events, and what a step that is not a request's may do   *)
(* to a stored row.                                                        *)
(***************************************************************************)
(* EventsSpaced is not inductive: between the check and the insertion of an
   event, requests and the clock step in, so the check's answer must outlast
   them.  It does: only the main task adds events, and the event keeps the time
   that was checked. *)
Checked ==
    "check" \notin Fault /\ job.pc = "record" =>
        \A e \in events :
            e.mac = job.mac /\ e.scanner = job.scanner /\ e.type = job.event
                => e.created_on < job.at - DedupWindow

SpacingInv == EventsSpaced /\ Checked

LEMMA NextSightingPC ==
    ASSUME NEW j PROVE NextSighting(j).pc \in {"read", "notify", "idle"}
BY DEF NextSighting, Idle

LEMMA AfterEventPC ==
    ASSUME NEW j \in Job, NEW S
    PROVE  AfterEvent([j EXCEPT !.changes = S]).pc \in {"read", "notify", "idle", "check"}
<1> DEFINE k == [j EXCEPT !.changes = S]
<1>1. \A type, todo : StartEvent(k, type, todo).pc = "check"
  BY DEF StartEvent, Job
<1> HIDE DEF k
<1>2. AfterEvent(k).pc \in {"read", "notify", "idle", "check"}
  BY <1>1, NextSightingPC DEF AfterEvent
<1> QED BY <1>2 DEF k

LEMMA AfterEventPC2 ==
    ASSUME NEW j \in Job
    PROVE  AfterEvent(j).pc \in {"read", "notify", "idle", "check"}
<1>1. j = [j EXCEPT !.changes = j.changes]
  BY DEF Job
<1> QED BY <1>1, AfterEventPC

(* A step that only forgets events and does not come to an insertion. *)
LEMMA SpacingKept ==
    ASSUME SpacingInv, events' \subseteq events,
           job' = job \/ job'.pc # "record"
    PROVE  SpacingInv'
BY DEF SpacingInv, EventsSpaced, Checked, SameKey

LEMMA SpacingStep == TypeInv /\ SpacingInv /\ [Next]_vars => SpacingInv'
<1> SUFFICES ASSUME TypeInv, SpacingInv, [Next]_vars PROVE SpacingInv'
  OBVIOUS
<1> USE DEF store, history
<1>0. /\ job \in Job /\ job.at \in Nat /\ DedupWindow \in Nat
      /\ \A e \in events : e.created_on \in Nat
  BY SightingsAssumption DEF TypeInv, TypeOK, Job, Event
<1>1. CASE CheckDuplicate
  <2>1. events' = events
    BY <1>1 DEF CheckDuplicate
  <2>2. CASE job' = AfterEvent(job)
    BY <1>0, <2>1, <2>2, AfterEventPC2, SpacingKept
  <2>3. CASE job' = [job EXCEPT !.pc = "record"]
               /\ (~RecentDuplicateExists(job) \/ "check" \in Fault)
    <3>1. EventsSpaced'
      BY <2>1 DEF SpacingInv, EventsSpaced, SameKey
    <3>2. job'.mac = job.mac /\ job'.scanner = job.scanner /\ job'.event = job.event
          /\ job'.at = job.at
      BY <1>0, <2>3 DEF Job
    <3>3. Checked'
      BY <1>0, <2>1, <2>3, <3>2 DEF Checked, RecentDuplicateExists
    <3> QED BY <3>1, <3>3 DEF SpacingInv
  <2> QED BY <1>1, <2>2, <2>3 DEF CheckDuplicate
<1>2. CASE RecordEvent
  <2> DEFINE new == [mac |-> job.mac, type |-> job.event, scanner |-> job.scanner,
                     ipv4_address |-> job.device.ipv4_address, created_on |-> job.at]
  <2>1. events' \subseteq events \cup {new}
    BY <1>2 DEF RecordEvent
  <2>2. job'.pc # "record"
    <3>1. PICK F : job' = AfterEvent([job EXCEPT !.changes = job.changes \cup F])
      BY <1>2 DEF RecordEvent
    <3> QED BY <1>0, <3>1, AfterEventPC
  <2>3. Checked'
    BY <2>2 DEF Checked
  <2>4. EventsSpaced'
    <3> SUFFICES ASSUME "check" \notin Fault, NEW e \in events', NEW f \in events',
                        SameKey(e, f), e.created_on <= f.created_on, e # f
                 PROVE  f.created_on - e.created_on > DedupWindow
      BY DEF EventsSpaced, SameKey
    <3>1. \A g \in events : SameKey(g, new) => g.created_on < job.at - DedupWindow
      BY <1>2 DEF SpacingInv, Checked, SameKey, RecordEvent
    <3>2. CASE e \in events /\ f \in events
      BY <3>2 DEF SpacingInv, EventsSpaced
    <3>3. CASE f = new /\ e \in events
      BY <1>0, <3>1, <3>3
    <3>4. CASE e = new /\ f \in events
      <4>1. SameKey(f, new)
        BY <3>4 DEF SameKey
      <4> QED BY <1>0, <3>1, <3>4, <4>1
    <3> QED BY <2>1, <3>2, <3>3, <3>4
  <2> QED BY <2>3, <2>4 DEF SpacingInv
<1>3. ASSUME NEW s \in Scanner, StartScan(s) PROVE SpacingInv'
  BY <1>3, SpacingKept DEF StartScan, Idle
<1>4. CASE ReadDevice
  <2>1. job'.pc \in {"insert", "seen"}
    BY <1>0, <1>4 DEF ReadDevice, Job
  <2> QED BY <1>4, <2>1, SpacingKept DEF ReadDevice
<1>5. CASE RecordSeen \/ InsertDevice
  <2>1. job'.pc = "check"
    BY <1>0, <1>5 DEF RecordSeen, InsertDevice, StartEvent, Job
  <2> QED BY <1>5, <2>1, SpacingKept DEF RecordSeen, InsertDevice
<1>6. CASE StoreFails
  BY <1>6, NextSightingPC, SpacingKept DEF StoreFails
<1>7. CASE PersistAndDeliver
  <2>1. job'.pc \in {"idle", "notify"}
    BY <1>0, <1>7 DEF PersistAndDeliver, Idle, Job
  <2> QED BY <1>7, <2>1, SpacingKept DEF PersistAndDeliver
<1>8. CASE StartSweep
  BY <1>8, SpacingKept DEF StartSweep, Idle
<1>9. CASE PurgeEvents
  <2>1. job'.pc = "purge_notifications" /\ events' \subseteq events
    BY <1>0, <1>9 DEF PurgeEvents, Job
  <2> QED BY <2>1, SpacingKept
<1>10. CASE PurgeNotifications
  BY <1>10, SpacingKept DEF PurgeNotifications, Idle
<1>11. ASSUME NEW c \in Client, ApiWrite(c) PROVE SpacingInv'
  BY <1>11, SpacingKept DEF ApiWrite
<1>12. CASE Crash
  BY <1>12, SpacingKept DEF Crash, Idle
<1>13. CASE UNCHANGED <<events, job>>
  BY <1>13, SpacingKept
<1>14. TakeRequest \/ Tick \/ UNCHANGED vars \/ (\E c \in Client : ApiRead(c) \/ ApiFails(c))
           => UNCHANGED <<events, job>>
  BY DEF TakeRequest, Tick, vars, ApiRead, ApiFails
<1> QED BY <1>1, <1>2, <1>3, <1>4, <1>5, <1>6, <1>7, <1>8, <1>9, <1>10, <1>11, <1>12,
           <1>13, <1>14 DEF Next, Pipeline, Sweep, Api

(* record_event: whatever crashes, deletions, sweeps and failing inserts come
   between, a scanner's events of one type about one device are further apart
   than the deduplication window. *)
THEOREM EventsAreSpaced == Spec => []EventsSpaced
<1>1. Init => TypeInv /\ SpacingInv
  BY TypeInit DEF Init, SpacingInv, EventsSpaced, Checked, Idle
<1>2. TypeInv /\ SpacingInv /\ [Next]_vars => TypeInv' /\ SpacingInv'
  BY TypeStep, SpacingStep
<1>3. SpacingInv => EventsSpaced
  BY DEF SpacingInv
<1> QED BY <1>1, <1>2, <1>3, PTL DEF Spec
-----------------------------------------------------------------------------
(***************************************************************************)
(* What a step of the pipeline does to a row.  RecordSeen and InsertDevice *)
(* write what ReadDevice left in the job, while requests may have changed  *)
(* the row; RowInv says what still holds of the job by then.               *)
(***************************************************************************)
RowInv ==
    /\ job.pc = "insert" => Registration(job.device) = <<FALSE, "">>
    /\ job.pc = "seen" /\ devices[job.mac] # None
           /\ devices[job.mac].ipv4_address # ""
       => job.device.ipv4_address # ""

LEMMA RowInvStep == TypeInv /\ RowInv /\ [Next]_vars => RowInv'
<1> SUFFICES ASSUME TypeInv, RowInv, [Next]_vars PROVE RowInv'
  OBVIOUS
<1> USE DEF store, history
<1>0. job \in Job /\ devices \in [Mac -> Device \cup {None}]
  BY DEF TypeInv, TypeOK
<1>1. CASE ReadDevice
  <2>1. PICK mac \in Mac, sighting \in Device :
            \E recorded \in {devices[mac], None} : ReadOutcome(mac, sighting, recorded)
    BY <1>1, ReadDeviceOutcome
  <2>2. PICK recorded \in {devices[mac], None} : ReadOutcome(mac, sighting, recorded)
    BY <2>1
  <2>3. devices' = devices
    BY <1>1 DEF ReadDevice
  <2>4. CASE recorded = None
    <3>1. job'.pc = "insert" /\ job'.device = sighting
      BY <1>0, <2>2, <2>4 DEF Job, ReadOutcome
    <3>2. Registration(sighting) = <<FALSE, "">>
      BY <2>2, NoneIsNoDevice DEF Registration, ReadOutcome
    <3> QED BY <3>1, <3>2 DEF RowInv
  <2>5. CASE recorded # None
    <3>1. job'.pc = "seen" /\ job'.mac = mac /\ job'.device = Reconcile(sighting, recorded)
      BY <1>0, <2>2, <2>5 DEF Job, ReadOutcome
    <3>2. recorded.ipv4_address # "" => Reconcile(sighting, recorded).ipv4_address # ""
      BY DEF Reconcile, Device
    <3> QED BY <2>2, <2>3, <2>5, <3>1, <3>2 DEF RowInv
  <2> QED BY <2>4, <2>5
<1>2. CASE RecordSeen \/ InsertDevice
  BY <1>0, <1>2 DEF RecordSeen, InsertDevice, StartEvent, Job, RowInv
<1>3. CASE StoreFails
  BY <1>3, NextSightingPC DEF StoreFails, RowInv
<1>4. CASE CheckDuplicate
  BY <1>0, <1>4, AfterEventPC2 DEF CheckDuplicate, Job, RowInv
<1>5. CASE RecordEvent
  <2>1. PICK F : job' = AfterEvent([job EXCEPT !.changes = job.changes \cup F])
    BY <1>5 DEF RecordEvent
  <2> QED BY <1>0, <2>1, AfterEventPC DEF RowInv
<1>6. CASE PersistAndDeliver
  BY <1>0, <1>6 DEF PersistAndDeliver, Idle, Job, RowInv
<1>7. ASSUME NEW s \in Scanner, StartScan(s) PROVE RowInv'
  BY <1>7 DEF StartScan, Idle, RowInv
<1>8. CASE StartSweep
  BY <1>8 DEF StartSweep, Idle, RowInv
<1>13. CASE PurgeNotifications \/ Crash
  <2>1. job' = Idle
    BY <1>13 DEF PurgeNotifications, Crash
  <2> QED BY <2>1 DEF Idle, RowInv
<1>9. CASE PurgeEvents
  BY <1>0, <1>9 DEF PurgeEvents, Job, RowInv
<1>10. ASSUME NEW c \in Client, ApiWrite(c) PROVE RowInv'
  <2> DEFINE m == api[c].mac
  <2>1. /\ job' = job
        /\ devices' = [devices EXCEPT ![m] =
                          IF @ = None THEN None ELSE Written(api[c], @)]
    BY <1>10 DEF ApiWrite
  <2>2. ASSUME NEW row \in Device, Written(api[c], row) # None
        PROVE  Written(api[c], row).ipv4_address = row.ipv4_address
    BY <2>2 DEF Written, Register, Update, Unregister, Device
  <2>3. job.pc = "seen" => job.mac \in Mac
    BY DEF TypeInv, Shaped
  <2>4. job.pc = "seen" /\ devices'[job.mac] # None =>
            /\ devices[job.mac] # None
            /\ devices'[job.mac].ipv4_address = devices[job.mac].ipv4_address
    BY <1>0, <2>1, <2>2, <2>3
  <2> QED BY <2>1, <2>4 DEF RowInv
<1>11. CASE UNCHANGED <<devices, job>>
  BY <1>11 DEF RowInv
<1>12. TakeRequest \/ Tick \/ UNCHANGED vars \/ (\E c \in Client : ApiRead(c) \/ ApiFails(c))
           => UNCHANGED <<devices, job>>
  BY DEF TakeRequest, Tick, vars, ApiRead, ApiFails
<1> QED BY <1>1, <1>2, <1>3, <1>4, <1>5, <1>6, <1>7, <1>8, <1>9, <1>10, <1>11, <1>12,
           <1>13 DEF Next, Pipeline, Sweep, Api

(* Without a request's step, only two statements write a row. *)
LEMMA OnlyThePipelineWrites ==
    ASSUME TypeInv, [Next]_vars, api' = api, devices' # devices
    PROVE  RecordSeen \/ InsertDevice
<1> USE DEF store, history
<1>1. ASSUME NEW c \in Client, ApiWrite(c) PROVE FALSE
  BY <1>1 DEF ApiWrite, TypeInv, TypeOK
<1>2. ReadDevice \/ StoreFails \/ CheckDuplicate \/ RecordEvent \/ PersistAndDeliver
          => UNCHANGED devices
  BY DEF ReadDevice, StoreFails, CheckDuplicate, RecordEvent, PersistAndDeliver
<1>3. StartSweep \/ Sweep \/ TakeRequest \/ Tick \/ Crash \/ UNCHANGED vars
          => UNCHANGED devices
  BY DEF StartSweep, Sweep, PurgeEvents, PurgeNotifications, TakeRequest, Tick, Crash, vars
<1>4. /\ \A s \in Scanner : StartScan(s) => UNCHANGED devices
      /\ \A c \in Client : ApiRead(c) \/ ApiFails(c) => UNCHANGED devices
  BY DEF StartScan, ApiRead, ApiFails
<1> QED BY <1>1, <1>2, <1>3, <1>4 DEF Next, Pipeline, Api

LEMMA NowIsNat == TypeInv => now \in Nat
BY SightingsAssumption DEF TypeInv, TypeOK

(* What the two statements leave of the row of any device m. *)
LEMMA RowAfterStep ==
    ASSUME TypeInv, RowInv, [Next]_vars, api' = api, NEW m \in Mac
    PROVE  \/ devices'[m] = devices[m]
           \/ /\ devices[m] \in Device /\ job.device \in Device
              /\ devices'[m] = Seen(devices[m], job.device, now)
              /\ devices[m].ipv4_address # "" => job.device.ipv4_address # ""
           \/ /\ devices[m] = None /\ Registration(devices'[m]) = <<FALSE, "">>
<1>0. devices \in [Mac -> Device \cup {None}]
  BY DEF TypeInv, TypeOK
<1>1. CASE RecordSeen
  <2>1. /\ job.mac \in Mac /\ job.device \in Device /\ job.pc = "seen"
        /\ devices' = [devices EXCEPT ![job.mac] =
                          IF @ = None THEN None ELSE Seen(@, job.device, now)]
    BY <1>1 DEF RecordSeen, TypeInv, Shaped
  <2>2. CASE m = job.mac /\ devices[m] # None
    BY <1>0, <2>1, <2>2 DEF RowInv
  <2>3. CASE ~(m = job.mac /\ devices[m] # None)
    BY <1>0, <2>1, <2>3
  <2> QED BY <2>2, <2>3
<1>2. CASE InsertDevice
  <2>1. /\ job.mac \in Mac /\ job.pc = "insert" /\ devices[job.mac] = None
        /\ devices' = [devices EXCEPT ![job.mac] = job.device]
    BY <1>2 DEF InsertDevice, TypeInv, Shaped
  <2> QED BY <1>0, <2>1 DEF RowInv
<1>3. CASE devices' = devices
  BY <1>3
<1> QED BY <1>1, <1>2, <1>3, OnlyThePipelineWrites

LEMMA RowInvariant == Spec => [](TypeInv /\ RowInv)
<1>1. Init => TypeInv /\ RowInv
  BY TypeInit DEF Init, Idle, RowInv
<1>2. TypeInv /\ RowInv /\ [Next]_vars => TypeInv' /\ RowInv'
  BY TypeStep, RowInvStep
<1> QED BY <1>1, <1>2, PTL DEF Spec

(* db::devices::seen and insert: no step but a request's registers a device,
   unregisters it or changes its owner. *)
THEOREM ScannersDoNotRegister == Spec => ScannersNeverRegister
<1> DEFINE A == api' = api =>
                  \A m \in Mac : Registration(devices'[m]) = Registration(devices[m])
<1>1. TypeInv /\ RowInv /\ [Next]_vars => A
  <2> SUFFICES ASSUME TypeInv, RowInv, [Next]_vars, api' = api, NEW m \in Mac
               PROVE  Registration(devices'[m]) = Registration(devices[m])
    OBVIOUS
  <2>1. CASE /\ devices[m] \in Device /\ job.device \in Device
             /\ devices'[m] = Seen(devices[m], job.device, now)
    <3>1. devices'[m] \in Device
      BY <2>1, SeenType, NowIsNat
    <3> QED BY <2>1, <3>1, NoneIsNoDevice DEF Registration, Seen, Device
  <2>2. CASE devices[m] = None /\ Registration(devices'[m]) = <<FALSE, "">>
    BY <2>2 DEF Registration
  <2> QED BY <2>1, <2>2, RowAfterStep
<1> QED BY <1>1, RowInvariant, PTL DEF Spec, ScannersNeverRegister

(* db::devices::seen: no step but a request's replaces a device type that is known,
   or removes the row that holds it. *)
THEOREM DeviceTypeIsKept == Spec => DeviceTypeKept
<1> DEFINE A == api' = api =>
                  \A m \in Mac : devices[m] # None =>
                      /\ devices'[m] # None
                      /\ devices[m].device_type # "" =>
                             devices'[m].device_type = devices[m].device_type
<1>1. TypeInv /\ RowInv /\ [Next]_vars => A
  <2> SUFFICES ASSUME TypeInv, RowInv, [Next]_vars, api' = api, NEW m \in Mac,
                      devices[m] # None, devices'[m] # devices[m]
               PROVE  /\ devices'[m] # None
                      /\ devices[m].device_type # "" =>
                             devices'[m].device_type = devices[m].device_type
    OBVIOUS
  <2>1. /\ devices[m] \in Device /\ job.device \in Device
        /\ devices'[m] = Seen(devices[m], job.device, now)
    BY RowAfterStep
  <2>2. devices'[m] \in Device
    BY <2>1, SeenType, NowIsNat
  <2> QED BY <2>1, <2>2, NoneIsNoDevice DEF Seen, Device
<1> QED BY <1>1, RowInvariant, PTL DEF Spec, DeviceTypeKept

(* seen and the reconciliation: no step but a request's blanks an address, a
   vendor or a name that is known. *)
THEOREM SightingsDoNotErase == Spec => SightingsNeverErase
<1> DEFINE A == api' = api =>
                  \A m \in Mac : devices[m] # None =>
                      /\ devices'[m] # None
                      /\ devices[m].ipv4_address # "" => devices'[m].ipv4_address # ""
                      /\ devices[m].vendor # "" => devices'[m].vendor # ""
                      /\ devices[m].name # None => devices'[m].name # None
<1>1. TypeInv /\ RowInv /\ [Next]_vars => A
  <2> SUFFICES ASSUME TypeInv, RowInv, [Next]_vars, api' = api, NEW m \in Mac,
                      devices[m] # None, devices'[m] # devices[m]
               PROVE  /\ devices'[m] # None
                      /\ devices[m].ipv4_address # "" => devices'[m].ipv4_address # ""
                      /\ devices[m].vendor # "" => devices'[m].vendor # ""
                      /\ devices[m].name # None => devices'[m].name # None
    OBVIOUS
  <2>1. /\ devices[m] \in Device /\ job.device \in Device
        /\ devices'[m] = Seen(devices[m], job.device, now)
        /\ devices[m].ipv4_address # "" => job.device.ipv4_address # ""
    BY RowAfterStep
  <2>2. devices'[m] \in Device
    BY <2>1, SeenType, NowIsNat
  <2> QED BY <2>1, <2>2, NoneIsNoDevice DEF Seen, Device
<1> QED BY <1>1, RowInvariant, PTL DEF Spec, SightingsNeverErase
=============================================================================
