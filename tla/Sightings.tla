------------------------------ MODULE Sightings ------------------------------
(***************************************************************************)
(* The backend's shared store and everybody who writes it: the main task,  *)
(* which takes one sighting after another through the pipeline (read,      *)
(* reconcile, store, record events, alert) and sweeps old records; and the *)
(* API requests, which run on the blocking pool.  main.rs joins all        *)
(* scanners, the sweep and the delivery loop in ONE task and the pipeline  *)
(* never awaits, so a job of the main task runs to its end before another  *)
(* starts; API requests step in between any two of its SQL statements.     *)
(***************************************************************************)
EXTENDS Devices, Sequences, FiniteSets

CONSTANTS
    Scanner,            \* the scanners enabled in the settings
    Client,             \* API requests that can be in flight at once
    DedupWindow,        \* device_events.deduplication_window
    RetentionWindow,    \* retention.window
    ScanAge,            \* how old a reply may be when its scan is processed
    JobTime,            \* how long storing and checking one sighting may take
    QueueCapacity,      \* DELIVERY_QUEUE_CAPACITY
    MaxBatch,           \* bound: devices found by one active scan
    MaxClock,           \* bound: the last instant
    MaxDeletions,       \* bound: deletions of one device
    MaxChanges,         \* bound: no job starts after so many changes
    Fault,              \* the faults that may happen (see FaultKind)
    ApiOp               \* the kinds of requests the users send

FaultKind == {"read", "store", "check", "record", "notify", "purge", "api", "crash"}
ApiKind   == {"register", "update", "unregister", "delete"}

ASSUME SightingsAssumption ==
    /\ Scanner \subseteq {"arp", "mdns", "ssdp", "dhcp", "snmp"}
    /\ {DedupWindow, RetentionWindow, ScanAge, JobTime, MaxClock, MaxDeletions,
        MaxChanges} \subseteq Nat
    /\ {QueueCapacity, MaxBatch} \subseteq Nat \ {0}
    /\ Fault \subseteq FaultKind
    /\ ApiOp \subseteq ApiKind
    /\ None \notin Scanner

VARIABLES
    now,            \* Utc::now()
    devices,        \* table devices: the row of a MAC, or None
    events,         \* table device_events
    notifications,  \* table notifications
    queue,          \* the delivery channel
    job,            \* what the main task is doing
    api,            \* what each API request is doing
    raised,         \* history: the changes the pipeline returned
    lost,           \* history: those a crash, a failed insert or a sweep took
    deletions       \* history: how often a user deleted a device

store   == <<devices, events, notifications>>
history == <<raised, lost, deletions>>
vars    == <<now, store, queue, job, api, history>>

ChangeType == {"new_device", "device_back_online", "device_changed"}
EventType  == ChangeType \cup {"device_seen"}

Event  == [mac: Mac, type: EventType, scanner: Scanner, ipv4_address: OptIp,
           created_on: Nat]
(* A change carries three fields of history: its number, the last_seen that a
   back-online change was computed from, and how often its device had been deleted. *)
Change == [id: Nat, mac: Mac, type: ChangeType, scanner: Scanner, at: Nat,
           absent_since: Nat, life: Nat]
Notification == [type: ChangeType, about: SUBSET Change, created_on: Nat]

JobPC == {"idle", "read", "seen", "insert", "check", "record", "notify",
          "purge_events", "purge_notifications"}
Job   == [pc: JobPC, scanner: Scanner \cup {None}, left: 0..MaxBatch,
          mac: Mac \cup {None}, existing: Device \cup {None},
          device: Device \cup {None}, event: EventType,
          todo: SUBSET ChangeType, since: Nat, at: Nat, changes: SUBSET Change]
Idle  == [pc |-> "idle", scanner |-> None, left |-> 0, mac |-> None,
          existing |-> None, device |-> None, event |-> "device_seen",
          todo |-> {}, since |-> 0, at |-> 0, changes |-> {}]

Request == [op: ApiKind, mac: Mac, owner: OptOwner, device_type: OptType,
            vendor: OptVendor, name: OptName]

TypeOK ==
    /\ now \in 0..MaxClock
    /\ devices \in [Mac -> Device \cup {None}]
    /\ events \subseteq Event
    /\ notifications \subseteq Notification
    /\ queue \in Seq(Notification)
    /\ job \in Job
    /\ api \in [Client -> Request \cup {None}]
    /\ raised \subseteq Change /\ IsFiniteSet(raised) /\ lost \subseteq Change
    /\ deletions \in [Mac -> Nat]

Init ==
    /\ now = 0
    /\ devices = [m \in Mac |-> None]
    /\ events = {} /\ notifications = {}
    /\ queue = <<>>
    /\ job = Idle
    /\ api = [c \in Client |-> None]
    /\ raised = {} /\ lost = {}
    /\ deletions = [m \in Mac |-> 0]
-----------------------------------------------------------------------------
(***************************************************************************)
(* The main task: a scan, or a packet, is a job of `left' sightings.       *)
(***************************************************************************)
StartScan(s) ==
    /\ job.pc = "idle"
    /\ Cardinality(raised) < MaxChanges
    /\ \E n \in 1..(IF s \in ActiveScanner THEN MaxBatch ELSE 1) :
           job' = [Idle EXCEPT !.pc = "read", !.scanner = s, !.left = n]
    /\ UNCHANGED <<now, store, queue, api, history>>

(* Mutants: the changes of one device are not kept for the end of the scan; the
   scan never gets past its last device. *)
NextSightingForgets(j) ==
    IF j.left > 1
    THEN [Idle EXCEPT !.pc = "read", !.scanner = j.scanner, !.left = j.left - 1]
    ELSE IF j.changes # {} THEN [Idle EXCEPT !.pc = "notify", !.changes = j.changes]
    ELSE Idle

NextSightingAgain(j) ==
    [Idle EXCEPT !.pc = "read", !.scanner = j.scanner, !.left = j.left,
                 !.changes = j.changes]

(* record_sighting is done with a device: the next one, or the alerts. *)
NextSighting(j) ==
    IF j.left > 1
    THEN [Idle EXCEPT !.pc = "read", !.scanner = j.scanner, !.left = j.left - 1,
                      !.changes = j.changes]
    ELSE IF j.changes # {} THEN [Idle EXCEPT !.pc = "notify", !.changes = j.changes]
    ELSE Idle

(* record_event reads the clock (for the event and for the window, with nothing in
   between), then looks for a duplicate. *)
StartEvent(j, type, todo) ==
    [j EXCEPT !.pc = "check", !.event = type, !.todo = todo, !.at = now]

NextChange(S) == IF "device_back_online" \in S THEN "device_back_online"
                 ELSE "device_changed"

(* What follows an event: after the heartbeat the changes are detected, and
   each has an event of its own; a new device has just the one. *)
AfterEvent(j) ==
    LET rest == IF j.event = "device_seen"
                THEN DetectedChanges(j.existing, j.device, now) ELSE j.todo
    IN  IF rest = {} THEN NextSighting(j)
        ELSE StartEvent(j, NextChange(rest), rest \ {NextChange(rest)})

(* The row, or None: no such row, or the read failed and was only logged. *)
ReadResult(mac) ==
    {devices[mac]} \cup (IF "read" \in Fault THEN {None} ELSE {})

ReadDevice ==
    /\ job.pc = "read"
    /\ \E mac \in Mac, ip \in Reported(job.scanner).ip,
          name \in Reported(job.scanner).name, age \in 0..ScanAge :
       \E vendor \in DeducedVendor(job.scanner, mac), recorded \in ReadResult(mac) :
           LET sighting == BuildDevice(ip, vendor, name, now - age)
           IN  /\ age <= now
               /\ job.scanner \in ActiveScanner \/ age = 0
               /\ job' = [job EXCEPT
                     !.pc       = IF recorded = None THEN "insert" ELSE "seen",
                     !.since    = now,
                     !.mac      = mac,
                     !.existing = recorded,
                     !.device   = IF recorded = None THEN sighting
                                  ELSE Reconcile(sighting, recorded)]
    /\ UNCHANGED <<now, store, queue, api, history>>

(* db::devices::seen: an UPDATE, so a row deleted meanwhile stays deleted. *)
RecordSeen ==
    /\ job.pc = "seen"
    /\ devices' = [devices EXCEPT ![job.mac] =
                      IF @ = None THEN None ELSE Seen(@, job.device, now)]
    /\ job' = StartEvent(job, "device_seen", {})
    /\ UNCHANGED <<now, events, notifications, queue, api, history>>

(* Mutant: INSERT OR REPLACE. *)
InsertOrReplace ==
    /\ job.pc = "insert"
    /\ devices' = [devices EXCEPT ![job.mac] = job.device]
    /\ job' = StartEvent(job, "new_device", {})
    /\ UNCHANGED <<now, events, notifications, queue, api, history>>

(* db::devices::insert: the MAC is the primary key, a conflict is an error. *)
InsertDevice ==
    /\ job.pc = "insert"
    /\ devices[job.mac] = None
    /\ devices' = [devices EXCEPT ![job.mac] = job.device]
    /\ job' = StartEvent(job, "new_device", {})
    /\ UNCHANGED <<now, events, notifications, queue, api, history>>

(* A sighting that cannot be stored is logged and dropped. *)
StoreFails ==
    /\ \/ job.pc \in {"seen", "insert"} /\ "store" \in Fault
       \/ job.pc = "insert" /\ devices[job.mac] # None
    /\ job' = NextSighting(job)
    /\ UNCHANGED <<now, store, queue, api, history>>

(* Mutant: the window excludes its first instant. *)
NewerDuplicateExists(j) ==
    \E e \in events : /\ e.mac = j.mac /\ e.scanner = j.scanner /\ e.type = j.event
                      /\ e.created_on > j.at - DedupWindow

(* The deduplication key is (MAC, scanner, type); the address is no part. *)
RecentDuplicateExists(j) ==
    \E e \in events : /\ e.mac = j.mac /\ e.scanner = j.scanner /\ e.type = j.event
                      /\ e.created_on >= j.at - DedupWindow

(* A failed check does not suppress the event. *)
CheckDuplicate ==
    /\ job.pc = "check"
    /\ \/ RecentDuplicateExists(job) /\ job' = AfterEvent(job)
       \/ /\ ~RecentDuplicateExists(job) \/ "check" \in Fault
          /\ job' = [job EXCEPT !.pc = "record"]
    /\ UNCHANGED <<now, store, queue, api, history>>

(* The change is returned whether or not its event could be inserted. *)
RecordEvent ==
    /\ job.pc = "record"
    /\ \/ events' = events \cup
              {[mac |-> job.mac, type |-> job.event, scanner |-> job.scanner,
                ipv4_address |-> job.device.ipv4_address, created_on |-> job.at]}
       \/ "record" \in Fault /\ events' = events
    /\ LET change == [id |-> Cardinality(raised), mac |-> job.mac, type |-> job.event,
                      scanner |-> job.scanner, at |-> job.at,
                      absent_since |-> IF job.event = "device_back_online"
                                       THEN job.existing.last_seen ELSE 0,
                      life |-> deletions[job.mac]]
           found  == IF job.event = "device_seen" THEN {} ELSE {change}
       IN  /\ job' = AfterEvent([job EXCEPT !.changes = @ \cup found])
           /\ raised' = raised \cup found
    /\ UNCHANGED <<now, devices, notifications, queue, api, lost, deletions>>

(* notify: one notification per type, in this order; db::notifications::insert
   and then try_send.  An alert that cannot be stored is not delivered, one that
   finds the channel full stays stored. *)
FirstAlert(changes) ==
    LET types == {c.type : c \in changes}
    IN  IF "new_device" \in types THEN "new_device" ELSE NextChange(types)

PersistAndDeliver ==
    /\ job.pc = "notify"
    /\ LET group == {c \in job.changes : c.type = FirstAlert(job.changes)}
           rest  == job.changes \ group
           alert == [type |-> FirstAlert(job.changes), about |-> group,
                     created_on |-> now]
       IN  /\ \/ /\ notifications' = notifications \cup {alert}
                 /\ queue' = IF Len(queue) < QueueCapacity
                             THEN Append(queue, alert) ELSE queue
                 /\ lost' = lost
              \/ /\ "notify" \in Fault
                 /\ lost' = lost \cup group
                 /\ UNCHANGED <<notifications, queue>>
           /\ job' = IF rest = {} THEN Idle ELSE [job EXCEPT !.changes = rest]
    /\ UNCHANGED <<now, devices, events, api, raised, deletions>>

(* The delivery loop is a future of the same task: it receives while no job
   runs.  What it does with the request is module Delivery's. *)
TakeRequest ==
    /\ job.pc = "idle" /\ queue # <<>>
    /\ queue' = Tail(queue)
    /\ UNCHANGED <<now, store, job, api, history>>
-----------------------------------------------------------------------------
(***************************************************************************)
(* The retention sweep: both tables are purged up to one cutoff, each by a *)
(* statement of its own that may fail alone.                               *)
(***************************************************************************)
Expired(row) == row.created_on < job.at - RetentionWindow

StartSweep ==
    /\ job.pc = "idle"
    /\ job' = [Idle EXCEPT !.pc = "purge_events", !.at = now]
    /\ UNCHANGED <<now, store, queue, api, history>>

PurgeEvents ==
    /\ job.pc = "purge_events"
    /\ \/ events' = {e \in events : ~Expired(e)}
       \/ "purge" \in Fault /\ events' = events
    /\ job' = [job EXCEPT !.pc = "purge_notifications"]
    /\ UNCHANGED <<now, devices, notifications, queue, api, history>>

PurgeNotifications ==
    /\ job.pc = "purge_notifications"
    /\ LET old == {n \in notifications : Expired(n)}
       IN  \/ /\ notifications' = notifications \ old
              /\ lost' = lost \cup UNION {n.about : n \in old}
           \/ "purge" \in Fault /\ UNCHANGED <<notifications, lost>>
    /\ job' = Idle
    /\ UNCHANGED <<now, devices, events, queue, api, raised, deletions>>
-----------------------------------------------------------------------------
(***************************************************************************)
(* The API: each handler reads the row, answers 404 or 409, or goes on to  *)
(* its one write, on another connection and later.                         *)
(***************************************************************************)
Form(op) ==
    [op: {op}, mac: Mac,
     owner: IF op \in {"register", "update"} THEN OptOwner ELSE {""},
     device_type: IF op \in {"register", "update"} THEN OptType ELSE {""},
     vendor: IF op = "update" THEN OptVendor ELSE {""},
     name: IF op \in {"register", "update"} THEN OptName ELSE {None}]

Accepted(request, row) ==
    /\ row # None
    /\ request.op = "register" => ~row.is_registered
    /\ request.op \in {"update", "unregister"} => row.is_registered

Deleting(m) == {c \in Client : api[c] # None /\ api[c].op = "delete" /\ api[c].mac = m}

ApiRead(c) ==
    /\ api[c] = None
    /\ \E op \in ApiOp : \E request \in Form(op) :
           /\ Accepted(request, devices[request.mac])
           /\ op = "delete" => deletions[request.mac] + Cardinality(Deleting(request.mac))
                                < MaxDeletions
           /\ api' = [api EXCEPT ![c] = request]
    /\ UNCHANGED <<now, store, queue, job, history>>

Written(request, row) ==
    CASE request.op = "register"   -> Register(row, request)
      [] request.op = "update"     -> Update(row, request)
      [] request.op = "unregister" -> Unregister(row)
      [] OTHER                     -> None

(* Mutant: the events of a deleted device are left behind. *)
ApiWriteKeepsEvents(c) ==
    /\ api[c] # None
    /\ LET m == api[c].mac
       IN  /\ devices' = [devices EXCEPT ![m] =
                             IF @ = None THEN None ELSE Written(api[c], @)]
           /\ deletions' = [deletions EXCEPT
                ![m] = IF api[c].op = "delete" /\ devices[m] # None THEN @ + 1 ELSE @]
    /\ api' = [api EXCEPT ![c] = None]
    /\ UNCHANGED <<now, events, notifications, queue, job, raised, lost>>

(* One UPDATE, which changes nothing when the row is gone; a deletion is one
   transaction that takes the events of the device along. *)
ApiWrite(c) ==
    /\ api[c] # None
    /\ LET m == api[c].mac
       IN  /\ devices' = [devices EXCEPT ![m] =
                             IF @ = None THEN None ELSE Written(api[c], @)]
           /\ IF api[c].op = "delete"
              THEN /\ events' = {e \in events : e.mac # m}
                   /\ deletions' = [deletions EXCEPT
                                      ![m] = IF devices[m] = None THEN @ ELSE @ + 1]
              ELSE UNCHANGED <<events, deletions>>
    /\ api' = [api EXCEPT ![c] = None]
    /\ UNCHANGED <<now, notifications, queue, job, raised, lost>>

ApiFails(c) ==
    /\ "api" \in Fault /\ api[c] # None
    /\ api' = [api EXCEPT ![c] = None]
    /\ UNCHANGED <<now, store, queue, job, history>>
-----------------------------------------------------------------------------
(* Time passes at any point, but the statements of one sighting are assumed not
   to take longer than JobTime altogether (the busy timeout of SQLite). *)
Tick ==
    /\ now < MaxClock
    /\ job.pc \in {"seen", "insert", "check", "record"} => now < job.since + JobTime
    /\ now' = now + 1
    /\ UNCHANGED <<store, queue, job, api, history>>

(* The process dies and starts again: what is in SQLite stays. *)
Crash ==
    /\ "crash" \in Fault
    /\ job' = Idle /\ queue' = <<>>
    /\ api' = [c \in Client |-> None]
    /\ lost' = lost \cup job.changes
    /\ UNCHANGED <<now, store, raised, deletions>>

Pipeline == \/ ReadDevice \/ RecordSeen \/ InsertDevice \/ StoreFails
            \/ CheckDuplicate \/ RecordEvent \/ PersistAndDeliver
Sweep    == PurgeEvents \/ PurgeNotifications
Api      == \E c \in Client : ApiRead(c) \/ ApiWrite(c) \/ ApiFails(c)

Next ==
    \/ \E s \in Scanner : StartScan(s)
    \/ Pipeline
    \/ StartSweep \/ Sweep \/ TakeRequest
    \/ Api
    \/ Tick \/ Crash

Spec == Init /\ [][Next]_vars

(* The main task is never suspended inside a job: the executor runs it on. *)
FairSpec == Spec /\ WF_vars(Pipeline \/ Sweep)
=============================================================================
