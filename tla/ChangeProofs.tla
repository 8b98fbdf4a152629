----------------------------- MODULE ChangeProofs -----------------------------
(***************************************************************************)
(* Theorems about the changes the pipeline raises: none is dropped or      *)
(* repeated on its way to a notification, a device is announced once per   *)
(* lifetime and not forgotten, and one absence is reported once.           *)
(***************************************************************************)
EXTENDS SightingsProofs

(* The change that RecordEvent raises, and nothing after a heartbeat. *)
NewChange ==
    [id |-> Cardinality(raised), mac |-> job.mac, type |-> job.event,
     scanner |-> job.scanner, at |-> job.at,
     absent_since |-> IF job.event = "device_back_online"
                      THEN job.existing.last_seen ELSE 0,
     life |-> deletions[job.mac]]

Found == IF job.event = "device_seen" THEN {} ELSE {NewChange}

(* The changes are numbered, so that a new one is not among the old. *)
Numbered == \A c \in raised : c.id < Cardinality(raised)
-----------------------------------------------------------------------------
LEMMA NextSightingKeeps ==
    ASSUME NEW j
    PROVE  /\ NextSighting(j).changes = j.changes
           /\ NextSighting(j).pc \in {"read", "notify", "idle"}
           /\ NextSighting(j).pc = "idle" => j.changes = {}
BY DEF NextSighting, Idle

LEMMA StartEventKeeps ==
    ASSUME NEW j \in Job, NEW S, NEW type, NEW todo
    PROVE  LET k == StartEvent([j EXCEPT !.changes = S], type, todo)
           IN  /\ k.pc = "check" /\ k.event = type /\ k.todo = todo /\ k.changes = S
               /\ k.mac = j.mac /\ k.existing = j.existing /\ k.device = j.device
               /\ k.since = j.since
BY DEF StartEvent, Job

(* What is left to report after the event of a job. *)
Rest == IF job.event = "device_seen" THEN DetectedChanges(job.existing, job.device, now)
        ELSE job.todo

(* After an event: the next device, or an event of the rest, never an announcement. *)
LEMMA AfterEventKeeps ==
    ASSUME job \in Job, NEW S
    PROVE  LET k == AfterEvent([job EXCEPT !.changes = S])
           IN  /\ k.changes = S
               /\ \/ k.pc \in {"read", "notify", "idle"} /\ (k.pc = "idle" => S = {})
                  \/ /\ k.pc = "check" /\ Rest # {}
                     /\ k.event = NextChange(Rest) /\ k.todo = Rest \ {NextChange(Rest)}
                     /\ k.mac = job.mac /\ k.existing = job.existing /\ k.since = job.since
<1> DEFINE j == [job EXCEPT !.changes = S]
           k == AfterEvent(j)
<1>1. /\ j.event = job.event /\ j.todo = job.todo /\ j.changes = S
      /\ j.existing = job.existing /\ j.device = job.device
  BY DEF Job
<1>2. k = IF Rest = {} THEN NextSighting(j)
          ELSE StartEvent(j, NextChange(Rest), Rest \ {NextChange(Rest)})
  BY <1>1 DEF AfterEvent, Rest
<1>3. CASE Rest = {}
  <2>1. k = NextSighting(j)
    BY <1>2, <1>3
  <2> HIDE DEF k, j
  <2>2. k.changes = S /\ k.pc \in {"read", "notify", "idle"} /\ (k.pc = "idle" => S = {})
    BY <1>1, <2>1, NextSightingKeeps
  <2> QED BY <2>2 DEF k, j
<1>4. CASE Rest # {}
  <2> DEFINE type == NextChange(Rest)
             todo == Rest \ {type}
  <2>1. k = StartEvent(j, type, todo)
    BY <1>2, <1>4
  <2> HIDE DEF type, todo, k
  <2>2. /\ k.pc = "check" /\ k.event = type /\ k.todo = todo /\ k.changes = S
        /\ k.mac = job.mac /\ k.existing = job.existing /\ k.since = job.since
    BY <2>1, StartEventKeeps
  <2> QED BY <1>4, <2>2 DEF type, todo, k
<1> QED BY <1>3, <1>4

(* The same after a suppressed event. *)
LEMMA AfterEventKeepsAll ==
    ASSUME job \in Job
    PROVE  LET k == AfterEvent(job)
           IN  /\ k.changes = job.changes
               /\ \/ /\ k.pc \in {"read", "notify", "idle"}
                     /\ k.pc = "idle" => job.changes = {}
                  \/ /\ k.pc = "check" /\ Rest # {}
                     /\ k.event = NextChange(Rest) /\ k.todo = Rest \ {NextChange(Rest)}
                     /\ k.mac = job.mac /\ k.existing = job.existing /\ k.since = job.since
<1>1. job = [job EXCEPT !.changes = job.changes]
  BY DEF Job
<1> QED BY <1>1, AfterEventKeeps

LEMMA Recorded ==
    ASSUME RecordEvent
    PROVE  /\ raised' = raised \cup Found
           /\ job' = AfterEvent([job EXCEPT !.changes = job.changes \cup Found])
BY DEF RecordEvent, Found, NewChange

LEMMA OnlyRecordEventRaises ==
    ASSUME [Next]_vars, raised' # raised
    PROVE  RecordEvent
BY DEF Next, Pipeline, Sweep, Api, vars, store, history, StartScan, ReadDevice, RecordSeen,
       InsertDevice, StoreFails, CheckDuplicate, PersistAndDeliver, StartSweep, PurgeEvents,
       PurgeNotifications, TakeRequest, ApiRead, ApiWrite, ApiFails, Tick, Crash

LEMMA FiniteRaised ==
    ASSUME TypeInv
    PROVE  /\ IsFiniteSet(raised) /\ Cardinality(raised) \in Nat
           /\ job \in Job /\ devices \in [Mac -> Device \cup {None}]
BY FS_CardinalityType DEF TypeInv, TypeOK

LEMMA NewChangeIsNew ==
    ASSUME TypeInv, Numbered
    PROVE  NewChange \notin raised
<1>1. NewChange.id = Cardinality(raised)
  BY DEF NewChange
<1> QED BY <1>1, FiniteRaised DEF Numbered

LEMMA NumberedStep == TypeInv /\ Numbered /\ [Next]_vars => Numbered'
<1> SUFFICES ASSUME TypeInv, Numbered, [Next]_vars PROVE Numbered'
  OBVIOUS
<1>1. CASE raised' = raised
  BY <1>1 DEF Numbered
<1>2. CASE raised' = raised \cup {NewChange}
  <2>1. Cardinality(raised') = Cardinality(raised) + 1
    BY <1>2, FiniteRaised, NewChangeIsNew, FS_AddElement
  <2>2. NewChange.id = Cardinality(raised)
    BY DEF NewChange
  <2>3. \A c \in raised : c.id < Cardinality(raised) + 1
    <3> TAKE c \in raised
    <3>1. c.id \in Nat
      BY DEF TypeInv, TypeOK, Change
    <3> QED BY <3>1, FiniteRaised DEF Numbered
  <2> QED BY <1>2, <2>1, <2>2, <2>3, FiniteRaised DEF Numbered
<1> QED BY <1>1, <1>2, OnlyRecordEventRaises, Recorded DEF Found
-----------------------------------------------------------------------------
(***************************************************************************)
(* Conservation.  AlertsConserved speaks of one change at a time; that a   *)
(* change never comes to a second place needs the places to be disjoint    *)
(* and to hold nothing but changes that were raised.                       *)
(***************************************************************************)
Ledger ==
    /\ job.pc \in {"idle", "purge_events", "purge_notifications"} => job.changes = {}
    /\ job.changes \subseteq raised /\ lost \subseteq raised
    /\ \A n \in notifications : n.about \subseteq raised
    /\ job.changes \cap lost = {}
    /\ \A n \in notifications : n.about \cap (job.changes \cup lost) = {}
    /\ \A n, k \in notifications : n # k => n.about \cap k.about = {}
    /\ \A c \in raised : \/ c \in job.changes \/ c \in lost
                          \/ \E n \in notifications : c \in n.about

(* A step that moves no change. *)
LEMMA LedgerKept ==
    ASSUME Ledger, UNCHANGED <<notifications, raised, lost>>,
           job'.changes = job.changes,
           \/ job'.changes = {}
           \/ job'.pc \notin {"idle", "purge_events", "purge_notifications"}
    PROVE  Ledger'
BY DEF Ledger

LEMMA LedgerStep == TypeInv /\ Numbered /\ Ledger /\ [Next]_vars => Ledger'
<1> SUFFICES ASSUME TypeInv, Numbered, Ledger, [Next]_vars PROVE Ledger'
  OBVIOUS
<1> USE DEF store, history
<1>0. job \in Job
  BY FiniteRaised
<1>1. ASSUME NEW s \in Scanner, StartScan(s) PROVE Ledger'
  <2>1. job'.changes = {} /\ job.changes = {}
    BY <1>1 DEF StartScan, Idle, Ledger
  <2> QED BY <1>1, <2>1, LedgerKept DEF StartScan
<1>2. CASE ReadDevice
  <2>1. job'.changes = job.changes /\ job'.pc \in {"insert", "seen"}
    BY <1>0, <1>2 DEF ReadDevice, Job
  <2> QED BY <1>2, <2>1, LedgerKept DEF ReadDevice
<1>3. CASE RecordSeen \/ InsertDevice
  <2>1. job'.changes = job.changes /\ job'.pc = "check"
    BY <1>0, <1>3 DEF RecordSeen, InsertDevice, StartEvent, Job
  <2> QED BY <1>3, <2>1, LedgerKept DEF RecordSeen, InsertDevice
<1>4. CASE StoreFails
  BY <1>4, NextSightingKeeps, LedgerKept DEF StoreFails
<1>5. CASE CheckDuplicate
  <2>1. CASE job' = AfterEvent(job)
    BY <1>0, <1>5, <2>1, AfterEventKeepsAll, LedgerKept DEF CheckDuplicate
  <2>2. CASE job' = [job EXCEPT !.pc = "record"]
    <3>1. job'.changes = job.changes /\ job'.pc = "record"
      BY <1>0, <2>2 DEF Job
    <3> QED BY <1>5, <3>1, LedgerKept DEF CheckDuplicate
  <2> QED BY <1>5, <2>1, <2>2 DEF CheckDuplicate
<1>6. CASE RecordEvent
  <2>1. /\ raised' = raised \cup Found
        /\ job' = AfterEvent([job EXCEPT !.changes = job.changes \cup Found])
        /\ notifications' = notifications /\ lost' = lost
    BY <1>6, Recorded DEF RecordEvent
  <2>2. /\ job'.changes = job.changes \cup Found
        /\ \/ job'.changes = {}
           \/ job'.pc \notin {"idle", "purge_events", "purge_notifications"}
    BY <1>0, <2>1, AfterEventKeeps
  <2>3. Found \cap raised = {}
    BY NewChangeIsNew DEF Found
  <2> QED BY <2>1, <2>2, <2>3 DEF Ledger
<1>7. CASE PersistAndDeliver
  <2> DEFINE group == {c \in job.changes : c.type = FirstAlert(job.changes)}
             rest  == job.changes \ group
             alert == [type |-> FirstAlert(job.changes), about |-> group,
                       created_on |-> now]
  <2>1. /\ job'.changes = rest
        /\ rest = {} \/ job'.pc = "notify"
        /\ raised' = raised
    BY <1>0, <1>7 DEF PersistAndDeliver, Job, Idle
  <2>2. group \subseteq job.changes /\ alert.about = group
    OBVIOUS
  <2>3. \/ notifications' = notifications \cup {alert} /\ lost' = lost
        \/ notifications' = notifications /\ lost' = lost \cup group
    BY <1>7 DEF PersistAndDeliver
  <2> HIDE DEF group, alert
  <2>4. CASE notifications' = notifications \cup {alert} /\ lost' = lost
    BY <2>1, <2>2, <2>4 DEF Ledger
  <2>5. CASE notifications' = notifications /\ lost' = lost \cup group
    BY <2>1, <2>2, <2>5 DEF Ledger
  <2> QED BY <2>3, <2>4, <2>5
<1>8. CASE StartSweep
  <2>1. job'.changes = {} /\ job.changes = {}
    BY <1>8 DEF StartSweep, Idle, Ledger
  <2> QED BY <1>8, <2>1, LedgerKept DEF StartSweep
<1>9. CASE PurgeEvents
  <2>1. job'.changes = job.changes /\ job.changes = {}
    BY <1>0, <1>9 DEF PurgeEvents, Job, Ledger
  <2> QED BY <1>9, <2>1, LedgerKept DEF PurgeEvents
<1>10. CASE PurgeNotifications
  <2> DEFINE old == {n \in notifications : Expired(n)}
  <2>1. job'.changes = {} /\ job.changes = {} /\ raised' = raised
    BY <1>10 DEF PurgeNotifications, Idle, Ledger
  <2>2. \/ notifications' = notifications \ old /\ lost' = lost \cup UNION {n.about : n \in old}
        \/ notifications' = notifications /\ lost' = lost
    BY <1>10 DEF PurgeNotifications
  <2>3. old \subseteq notifications
    OBVIOUS
  <2> HIDE DEF old
  <2>4. \A c : c \in UNION {n.about : n \in old} <=> \E n \in old : c \in n.about
    OBVIOUS
  <2> QED BY <2>1, <2>2, <2>3, <2>4 DEF Ledger
<1>11. CASE Crash
  <2>1. job'.changes = {} /\ lost' = lost \cup job.changes
        /\ UNCHANGED <<notifications, raised>>
    BY <1>11 DEF Crash, Idle
  <2> QED BY <2>1 DEF Ledger
<1>12. CASE UNCHANGED <<job, notifications, raised, lost>>
  BY <1>12 DEF Ledger
<1>13. TakeRequest \/ Tick \/ UNCHANGED vars
           \/ (\E c \in Client : ApiRead(c) \/ ApiWrite(c) \/ ApiFails(c))
           => UNCHANGED <<job, notifications, raised, lost>>
  BY DEF TakeRequest, Tick, vars, ApiRead, ApiWrite, ApiFails
<1> QED BY <1>1, <1>2, <1>3, <1>4, <1>5, <1>6, <1>7, <1>8, <1>9, <1>10, <1>11, <1>12,
           <1>13 DEF Next, Pipeline, Sweep, Api

(* notify and the history: each change that was raised is in one place, the job, one
   notification or among the lost, whatever fails, crashes and is purged. *)
THEOREM ChangesAreConserved == Spec => []AlertsConserved
<1>1. Init => TypeInv /\ Numbered /\ Ledger
  BY TypeInit DEF Init, Numbered, Ledger, Idle
<1>2. TypeInv /\ Numbered /\ Ledger /\ [Next]_vars => TypeInv' /\ Numbered' /\ Ledger'
  BY TypeStep, NumberedStep, LedgerStep
<1>3. Ledger => AlertsConserved
  <2> SUFFICES ASSUME Ledger, NEW c \in raised
               PROVE  LET holders == {n \in notifications : c \in n.about}
                      IN  \/ c \in job.changes /\ holders = {} /\ c \notin lost
                          \/ c \notin job.changes /\ Cardinality(holders) = 1 /\ c \notin lost
                          \/ c \notin job.changes /\ holders = {} /\ c \in lost
    BY DEF AlertsConserved
  <2> DEFINE holders == {n \in notifications : c \in n.about}
  <2>1. CASE c \in job.changes \cup lost
    BY <2>1 DEF Ledger
  <2>2. CASE c \notin job.changes \cup lost
    <3>1. PICK n \in notifications : c \in n.about
      BY <2>2 DEF Ledger
    <3>2. holders = {n}
      BY <3>1 DEF Ledger
    <3>3. Cardinality(holders) = 1
      BY <3>2, FS_Singleton
    <3> QED BY <2>2, <3>3
  <2> QED BY <2>1, <2>2
<1> QED BY <1>1, <1>2, <1>3, PTL DEF Spec
-----------------------------------------------------------------------------
(***************************************************************************)
(* New devices.  A row, or the job that has just inserted it, pays for one *)
(* announcement; a deletion moves the payment to the count of deletions.   *)
(***************************************************************************)
Announcements(m) == {c \in raised : c.type = "new_device" /\ c.mac = m}
Announcing(m)    == /\ job.pc \in {"check", "record"}
                    /\ job.event = "new_device" /\ job.mac = m

Paid(m) == IF devices[m] = None THEN deletions[m] ELSE deletions[m] + 1

OncePerInsertion ==
    \A m \in Mac :
        /\ Cardinality(Announcements(m)) <= Paid(m)
        /\ Announcing(m) => Cardinality(Announcements(m)) < Paid(m)

LEMMA FiniteAnnouncements ==
    ASSUME TypeInv, NEW m \in Mac
    PROVE  /\ IsFiniteSet(Announcements(m)) /\ Cardinality(Announcements(m)) \in Nat
           /\ deletions[m] \in Nat /\ Paid(m) \in Nat
<1>1. Announcements(m) \subseteq raised /\ IsFiniteSet(raised)
  BY FiniteRaised DEF Announcements
<1>2. IsFiniteSet(Announcements(m)) /\ Cardinality(Announcements(m)) \in Nat
  BY <1>1, FS_Subset, FS_CardinalityType
<1>3. deletions[m] \in Nat
  BY DEF TypeInv, TypeOK
<1> QED BY <1>2, <1>3 DEF Paid

(* A step that starts no announcement and takes no payment back. *)
LEMMA PaidKept ==
    ASSUME TypeInv, OncePerInsertion, raised' = raised,
           \A m \in Mac : /\ Announcing(m)' => Announcing(m)
                          /\ Paid(m)' \in Nat /\ Paid(m)' >= Paid(m)
    PROVE  OncePerInsertion'
<1>1. \A m \in Mac : Announcements(m)' = Announcements(m)
  BY DEF Announcements
<1> SUFFICES ASSUME NEW m \in Mac
             PROVE  /\ Cardinality(Announcements(m))' <= Paid(m)'
                    /\ Announcing(m)' => Cardinality(Announcements(m))' < Paid(m)'
  BY DEF OncePerInsertion
<1>3. /\ Cardinality(Announcements(m)) <= Paid(m)
      /\ Announcing(m) => Cardinality(Announcements(m)) < Paid(m)
  BY DEF OncePerInsertion
<1>4. (Announcing(m)' => Announcing(m)) /\ Paid(m)' \in Nat /\ Paid(m)' >= Paid(m)
  OBVIOUS
<1>5. Cardinality(Announcements(m)) \in Nat /\ Paid(m) \in Nat
  BY FiniteAnnouncements
<1> QED BY <1>1, <1>3, <1>4, <1>5

LEMMA PaidWhenKept ==
    ASSUME TypeInv, NEW m \in Mac, deletions'[m] = deletions[m],
           devices[m] # None => devices'[m] # None
    PROVE  Paid(m)' \in Nat /\ Paid(m)' >= Paid(m)
<1>1. deletions[m] \in Nat
  BY FiniteAnnouncements
<1> QED BY <1>1 DEF Paid

(* Only a deletion leaves no row. *)
LEMMA KeptRow ==
    ASSUME NEW request \in Request, request.op # "delete", NEW row \in Device
    PROVE  Written(request, row) # None
<1>1. request.op \in {"register", "update", "unregister"}
  BY DEF Request, ApiKind
<1>2. Written(request, row) \in Device
  BY <1>1 DEF Written, Request, Register, Update, Unregister, Device, OptOwner
<1> QED BY <1>2, NoneIsNoDevice

LEMMA OncePerInsertionStep ==
    TypeInv /\ Numbered /\ OncePerInsertion /\ [Next]_vars => OncePerInsertion'
<1> SUFFICES ASSUME TypeInv, Numbered, OncePerInsertion, [Next]_vars
             PROVE  OncePerInsertion'
  OBVIOUS
<1> USE DEF store, history
<1>0. job \in Job /\ devices \in [Mac -> Device \cup {None}]
  BY FiniteRaised
<1>1. ASSUME job'.pc \notin {"check", "record"} \/ job'.event # "new_device",
             UNCHANGED <<devices, deletions, raised>>
      PROVE  OncePerInsertion'
  BY <1>1, PaidKept, PaidWhenKept DEF Announcing
<1>2. ASSUME NEW s \in Scanner, StartScan(s) PROVE OncePerInsertion'
  BY <1>1, <1>2 DEF StartScan, Idle
<1>3. CASE ReadDevice
  <2>1. job'.pc \in {"insert", "seen"}
    BY <1>0, <1>3 DEF ReadDevice, Job
  <2> QED BY <1>1, <1>3, <2>1 DEF ReadDevice
<1>4. CASE RecordSeen
  <2>1. job'.event # "new_device"
    BY <1>0, <1>4 DEF RecordSeen, StartEvent, Job
  <2>2. job.mac \in Mac /\ job.device \in Device /\ job.existing \in Device
    BY <1>4 DEF RecordSeen, TypeInv, Shaped
  <2>3. now \in Nat
    BY SightingsAssumption DEF TypeInv, TypeOK
  <2>4. \A m \in Mac : devices[m] # None => devices'[m] # None
    BY <1>0, <1>4, <2>2, <2>3, SeenType, NoneIsNoDevice DEF RecordSeen
  <2> QED BY <1>4, <2>1, <2>4, PaidKept, PaidWhenKept DEF RecordSeen, Announcing
<1>5. CASE InsertDevice
  <2>1. PICK n \in Mac : n = job.mac
    BY <1>5 DEF InsertDevice, TypeInv, Shaped
  <2>2. /\ devices[n] = None /\ job.device # None
        /\ ~\E m \in Mac : Announcing(m)
    BY <1>5, <2>1, NoneIsNoDevice DEF InsertDevice, TypeInv, Shaped, Announcing
  <2>3. /\ job'.mac = n
        /\ devices'[n] # None
        /\ \A m \in Mac : m # n => devices'[m] = devices[m]
    BY <1>0, <1>5, <2>1, <2>2 DEF InsertDevice, StartEvent, Job
  <2>4. deletions' = deletions /\ raised' = raised
    BY <1>5 DEF InsertDevice
  <2>5. ASSUME NEW m \in Mac
        PROVE  /\ Cardinality(Announcements(m))' <= Paid(m)'
               /\ Announcing(m)' => Cardinality(Announcements(m))' < Paid(m)'
    <3>1. /\ Cardinality(Announcements(m)) <= Paid(m) /\ ~Announcing(m)
          /\ Cardinality(Announcements(m)) \in Nat /\ deletions[m] \in Nat
      BY <2>2, FiniteAnnouncements DEF OncePerInsertion
    <3>2. Announcements(m)' = Announcements(m)
      BY <2>4 DEF Announcements
    <3>3. CASE m = n
      <4>1. Paid(m) = deletions[m] /\ Paid(m)' = deletions[m] + 1
        BY <2>2, <2>3, <2>4, <3>3 DEF Paid
      <4> QED BY <3>1, <3>2, <4>1
    <3>4. CASE m # n
      <4>1. Paid(m)' = Paid(m) /\ ~Announcing(m)'
        BY <2>3, <2>4, <3>4 DEF Paid, Announcing
      <4> QED BY <3>1, <3>2, <4>1
    <3> QED BY <3>3, <3>4
  <2> QED BY <2>5 DEF OncePerInsertion
<1>6. CASE StoreFails
  BY <1>1, <1>6, NextSightingKeeps DEF StoreFails
<1>7. CASE CheckDuplicate
  <2>1. CASE job' = AfterEvent(job)
    <3>1. job'.pc \notin {"check", "record"} \/ job'.event # "new_device"
      BY <1>0, <2>1, AfterEventKeepsAll DEF NextChange
    <3> QED BY <1>1, <1>7, <3>1 DEF CheckDuplicate
  <2>2. CASE job' = [job EXCEPT !.pc = "record"]
    <3>1. \A m \in Mac : Announcing(m)' => Announcing(m)
      BY <1>0, <1>7, <2>2 DEF CheckDuplicate, Announcing, Job
    <3> QED BY <1>7, <3>1, PaidKept, PaidWhenKept DEF CheckDuplicate
  <2> QED BY <1>7, <2>1, <2>2 DEF CheckDuplicate
<1>8. CASE RecordEvent
  <2>1. /\ raised' = raised \cup Found
        /\ job' = AfterEvent([job EXCEPT !.changes = job.changes \cup Found])
        /\ job.pc = "record"
        /\ UNCHANGED <<devices, deletions>>
    BY <1>8, Recorded DEF RecordEvent
  <2>2. job'.pc \notin {"check", "record"} \/ job'.event # "new_device"
    BY <1>0, <2>1, AfterEventKeeps DEF NextChange
  <2>3. ASSUME NEW m \in Mac
        PROVE  /\ Cardinality(Announcements(m))' <= Paid(m)'
               /\ Announcing(m)' => Cardinality(Announcements(m))' < Paid(m)'
    <3>1. /\ Cardinality(Announcements(m)) <= Paid(m)
          /\ Announcing(m) => Cardinality(Announcements(m)) < Paid(m)
          /\ Paid(m)' = Paid(m) /\ ~Announcing(m)'
      BY <2>1, <2>2, <2>3 DEF OncePerInsertion, Paid, Announcing
    <3>2. /\ IsFiniteSet(Announcements(m)) /\ Cardinality(Announcements(m)) \in Nat
          /\ Paid(m) \in Nat
      BY FiniteAnnouncements
    <3>3. CASE Announcing(m)
      <4>1. Announcements(m)' = Announcements(m) \cup {NewChange}
        BY <2>1, <3>3 DEF Announcements, Announcing, Found, NewChange
      <4>2. NewChange \notin Announcements(m)
        BY NewChangeIsNew DEF Announcements
      <4>3. Cardinality(Announcements(m)') = Cardinality(Announcements(m)) + 1
        BY <3>2, <4>1, <4>2, FS_AddElement
      <4> QED BY <3>1, <3>2, <3>3, <4>3
    <3>4. CASE ~Announcing(m)
      <4>1. Announcements(m)' = Announcements(m)
        BY <2>1, <3>4 DEF Announcements, Announcing, Found, NewChange
      <4> QED BY <3>1, <3>2, <3>4, <4>1
    <3> QED BY <3>3, <3>4
  <2> QED BY <2>3 DEF OncePerInsertion
<1>9. CASE PersistAndDeliver
  <2>1. job'.pc \in {"idle", "notify"} /\ raised' = raised /\ UNCHANGED <<devices, deletions>>
    BY <1>0, <1>9 DEF PersistAndDeliver, Idle, Job
  <2> QED BY <1>1, <2>1
<1>10. CASE StartSweep \/ Sweep \/ Crash
  <2>1. job' = Idle \/ job' = [Idle EXCEPT !.pc = "purge_events", !.at = now]
            \/ job' = [job EXCEPT !.pc = "purge_notifications"]
    BY <1>10 DEF StartSweep, Sweep, PurgeEvents, PurgeNotifications, Crash
  <2>2. /\ Idle.pc = "idle"
        /\ [Idle EXCEPT !.pc = "purge_events", !.at = now].pc = "purge_events"
        /\ [job EXCEPT !.pc = "purge_notifications"].pc = "purge_notifications"
    BY <1>0 DEF Idle, Job
  <2>3. UNCHANGED <<devices, deletions, raised>>
    BY <1>10 DEF StartSweep, Sweep, PurgeEvents, PurgeNotifications, Crash
  <2> QED BY <1>1, <2>1, <2>2, <2>3
<1>11. ASSUME NEW c \in Client, ApiWrite(c) PROVE OncePerInsertion'
  <2>1. PICK m \in Mac : m = api[c].mac
    BY <1>11 DEF ApiWrite, TypeInv, TypeOK, Request
  <2>2. /\ api[c] \in Request /\ job' = job /\ raised' = raised
    BY <1>11 DEF ApiWrite, TypeInv, TypeOK
  <2>3. /\ devices'[m] = IF devices[m] = None THEN None ELSE Written(api[c], devices[m])
        /\ \A n \in Mac : n # m => devices'[n] = devices[n] /\ deletions'[n] = deletions[n]
    BY <1>0, <1>11, <2>1 DEF ApiWrite, TypeInv, TypeOK
  <2>4. Paid(m)' \in Nat /\ Paid(m)' >= Paid(m)
    <3>1. CASE api[c].op = "delete"
      <4>1. deletions'[m] = IF devices[m] = None THEN deletions[m] ELSE deletions[m] + 1
        BY <1>11, <2>1, <3>1 DEF ApiWrite, TypeInv, TypeOK
      <4>2. deletions[m] \in Nat /\ (devices[m] = None => devices'[m] = None)
        BY <2>3, FiniteAnnouncements
      <4>3. CASE devices[m] = None
        BY <4>1, <4>2, <4>3 DEF Paid
      <4>4. CASE devices[m] # None
        BY <4>1, <4>2, <4>4 DEF Paid
      <4> QED BY <4>3, <4>4
    <3>2. CASE api[c].op # "delete"
      <4>1. deletions' = deletions
        BY <1>11, <3>2 DEF ApiWrite
      <4>2. devices[m] # None => devices'[m] # None
        BY <1>0, <2>2, <2>3, <3>2, KeptRow
      <4> QED BY <4>1, <4>2, PaidWhenKept
    <3> QED BY <3>1, <3>2
  <2>5. \A n \in Mac : Paid(n)' \in Nat /\ Paid(n)' >= Paid(n)
    <3> TAKE n \in Mac
    <3>1. CASE n # m
      BY <2>3, <3>1, PaidWhenKept
    <3> QED BY <2>4, <3>1
  <2>6. \A n \in Mac : Announcing(n)' => Announcing(n)
    BY <2>2 DEF Announcing
  <2> QED BY <2>2, <2>5, <2>6, PaidKept
<1>12. CASE UNCHANGED <<job, devices, deletions, raised>>
  BY <1>12, PaidKept, PaidWhenKept DEF Announcing
<1>13. TakeRequest \/ Tick \/ UNCHANGED vars \/ (\E c \in Client : ApiRead(c) \/ ApiFails(c))
           => UNCHANGED <<job, devices, deletions, raised>>
  BY DEF TakeRequest, Tick, vars, ApiRead, ApiFails
<1> QED BY <1>2, <1>3, <1>4, <1>5, <1>6, <1>7, <1>8, <1>9, <1>10, <1>11, <1>12, <1>13
        DEF Next, Pipeline, Api

(* record_sighting and db::devices::delete: a device is announced as new at most once
   from its insertion to its deletion, for any number of scanners, clients and faults. *)
THEOREM NewDevicesAnnouncedOnce == Spec => []AnnouncedOncePerLifetime
<1>1. Init => TypeInv /\ Numbered /\ OncePerInsertion
  <2> SUFFICES ASSUME Init PROVE TypeInv /\ Numbered /\ OncePerInsertion
    OBVIOUS
  <2>1. TypeInv /\ Numbered
    BY TypeInit DEF Init, Numbered
  <2>2. \A m \in Mac : Announcements(m) = {} /\ ~Announcing(m) /\ Paid(m) = 0
    <3>1. \A m \in Mac : ~Announcing(m)
      BY DEF Init, Announcing, Idle
    <3>2. \A m \in Mac : Announcements(m) = {}
      BY DEF Init, Announcements
    <3>3. \A m \in Mac : Paid(m) = 0
      BY DEF Init, Paid
    <3> QED BY <3>1, <3>2, <3>3
  <2>3. \A m \in Mac : Cardinality(Announcements(m)) = 0
    BY <2>2, FS_EmptySet
  <2> QED BY <2>1, <2>2, <2>3 DEF OncePerInsertion
<1>2. TypeInv /\ Numbered /\ OncePerInsertion /\ [Next]_vars
          => TypeInv' /\ Numbered' /\ OncePerInsertion'
  BY TypeStep, NumberedStep, OncePerInsertionStep
<1>3. TypeInv /\ OncePerInsertion => AnnouncedOncePerLifetime
  <2> SUFFICES ASSUME TypeInv, OncePerInsertion, NEW m \in Mac
               PROVE  Cardinality(Announcements(m)) <= deletions[m] + 1
    BY DEF AnnouncedOncePerLifetime, Announcements
  <2>1. Cardinality(Announcements(m)) <= Paid(m)
    BY DEF OncePerInsertion
  <2>2. Cardinality(Announcements(m)) \in Nat /\ deletions[m] \in Nat
    BY FiniteAnnouncements
  <2> QED BY <2>1, <2>2 DEF Paid
<1> QED BY <1>1, <1>2, <1>3, PTL DEF Spec
-----------------------------------------------------------------------------
(***************************************************************************)
(* No new device is forgotten.  The announcement may be suppressed as a    *)
(* duplicate: then the event it duplicates announced the device, since a   *)
(* deletion takes the events along and an event is inserted in the step    *)
(* that raises its change.                                                 *)
(***************************************************************************)
Announced(m) == \E c \in Announcements(m) : c.life = deletions[m]

AnnouncedInv ==
    /\ \A e \in events : e.type = "new_device" => Announced(e.mac)
    /\ \A m \in Mac : devices[m] # None => Announced(m) \/ Announcing(m)

(* A step that deletes and inserts nothing and drops no announcement. *)
LEMMA AnnouncedKept ==
    ASSUME AnnouncedInv, raised \subseteq raised', deletions' = deletions,
           events' \subseteq events,
           \A m \in Mac : /\ devices'[m] # None => devices[m] # None
                          /\ Announcing(m) => Announcing(m)' \/ Announced(m)
    PROVE  AnnouncedInv'
<1>1. \A m : Announced(m) => Announced(m)'
  BY DEF Announced, Announcements
<1>2. \A e \in events' : e.type = "new_device" => Announced(e.mac)'
  BY <1>1 DEF AnnouncedInv
<1>3. \A m \in Mac : devices'[m] # None => Announced(m)' \/ Announcing(m)'
  BY <1>1 DEF AnnouncedInv
<1> QED BY <1>2, <1>3 DEF AnnouncedInv

LEMMA AnnouncedStep ==
    ASSUME "crash" \notin Fault, TypeInv, AnnouncedInv, [Next]_vars
    PROVE  AnnouncedInv'
<1> USE DEF store, history
<1>0. job \in Job /\ devices \in [Mac -> Device \cup {None}]
  BY FiniteRaised
<1>1. ASSUME job.pc \notin {"check", "record"}, events' \subseteq events,
             UNCHANGED <<devices, deletions, raised>>
      PROVE  AnnouncedInv'
  BY <1>1, AnnouncedKept DEF Announcing
<1>2. ASSUME NEW s \in Scanner, StartScan(s) PROVE AnnouncedInv'
  BY <1>1, <1>2 DEF StartScan
<1>3. CASE ReadDevice \/ StoreFails \/ PersistAndDeliver
  BY <1>1, <1>3 DEF ReadDevice, StoreFails, PersistAndDeliver
<1>4. CASE RecordSeen
  <2>1. \A m \in Mac : devices'[m] # None => devices[m] # None
    BY <1>0, <1>4 DEF RecordSeen
  <2> QED BY <1>4, <2>1, AnnouncedKept DEF RecordSeen, Announcing
<1>5. CASE InsertDevice
  <2>1. /\ job.pc = "insert" /\ job'.pc = "check" /\ job'.event = "new_device"
        /\ job'.mac = job.mac
        /\ \A m \in Mac : m # job.mac => devices'[m] = devices[m]
        /\ UNCHANGED <<events, deletions, raised>>
    BY <1>0, <1>5 DEF InsertDevice, StartEvent, Job
  <2>2. \A m : Announced(m)' = Announced(m)
    BY <2>1 DEF Announced, Announcements
  <2>3. Announcing(job.mac)' /\ \A m \in Mac : ~Announcing(m)
    BY <2>1 DEF Announcing
  <2>4. \A m \in Mac : m # job.mac /\ devices'[m] # None => Announced(m)'
    BY <2>1, <2>2, <2>3 DEF AnnouncedInv
  <2>5. \A m \in Mac : m = job.mac => Announcing(m)'
    BY <2>1 DEF Announcing
  <2>6. \A e \in events' : e.type = "new_device" => Announced(e.mac)'
    BY <2>1, <2>2 DEF AnnouncedInv
  <2> QED BY <2>4, <2>5, <2>6 DEF AnnouncedInv
<1>6. CASE CheckDuplicate
  <2>1. job.pc = "check" /\ UNCHANGED <<devices, events, deletions, raised>>
    BY <1>6 DEF CheckDuplicate
  <2>2. CASE RecentDuplicateExists(job)
    <3>1. \A m \in Mac : Announcing(m) => Announced(m)
      BY <2>2 DEF RecentDuplicateExists, Announcing, AnnouncedInv
    <3> QED BY <2>1, <3>1, AnnouncedKept
  <2>3. CASE job' = [job EXCEPT !.pc = "record"]
    <3>1. \A m \in Mac : Announcing(m) => Announcing(m)'
      BY <1>0, <2>3 DEF Announcing, Job
    <3> QED BY <2>1, <3>1, AnnouncedKept
  <2> QED BY <1>6, <2>2, <2>3 DEF CheckDuplicate
<1>7. CASE RecordEvent
  <2>1. /\ raised' = raised \cup Found /\ UNCHANGED <<devices, deletions>>
        /\ job.pc = "record"
    BY <1>7, Recorded DEF RecordEvent
  <2>2. \A m : Announced(m) => Announced(m)'
    BY <2>1 DEF Announced, Announcements
  <2>3. \A m : Announcing(m) => Announced(m)'
    <3> SUFFICES ASSUME NEW m, Announcing(m) PROVE Announced(m)'
      OBVIOUS
    <3>1. Found = {NewChange}
      BY DEF Announcing, Found
    <3>2. NewChange.type = "new_device" /\ NewChange.mac = m /\ NewChange.life = deletions[m]
      BY DEF Announcing, NewChange
    <3> HIDE DEF NewChange
    <3> QED BY <2>1, <3>1, <3>2 DEF Announced, Announcements
  <2>4. ASSUME NEW e \in events', e.type = "new_device" PROVE Announced(e.mac)'
    <3>1. CASE e \in events
      BY <2>2, <2>4, <3>1 DEF AnnouncedInv
    <3>2. CASE e \notin events
      <4>1. e.type = job.event /\ e.mac = job.mac
        BY <1>7, <3>2 DEF RecordEvent
      <4> QED BY <2>1, <2>3, <2>4, <4>1 DEF Announcing
    <3> QED BY <3>1, <3>2
  <2> QED BY <2>1, <2>2, <2>3, <2>4 DEF AnnouncedInv
<1>8. CASE StartSweep \/ Sweep
  <2>1. job.pc \notin {"check", "record"} /\ UNCHANGED <<devices, deletions, raised>>
    BY <1>8 DEF StartSweep, Sweep, PurgeEvents, PurgeNotifications
  <2>2. events' \subseteq events
    BY <1>8 DEF StartSweep, Sweep, PurgeEvents, PurgeNotifications
  <2> QED BY <1>1, <2>1, <2>2
<1>9. ASSUME NEW c \in Client, ApiWrite(c) PROVE AnnouncedInv'
  <2>1. PICK m \in Mac : m = api[c].mac
    BY <1>9 DEF ApiWrite, TypeInv, TypeOK, Request
  <2>2. job' = job /\ raised' = raised
    BY <1>9 DEF ApiWrite
  <2>3. \A n \in Mac : Announcing(n)' = Announcing(n)
    BY <2>2 DEF Announcing
  <2>4. /\ devices[m] = None => devices'[m] = None
        /\ \A n \in Mac : n # m => devices'[n] = devices[n]
    BY <1>0, <1>9, <2>1 DEF ApiWrite
  <2>5. CASE api[c].op = "delete"
    <3>1. /\ events' = {e \in events : e.mac # m}
          /\ \A n \in Mac : n # m => deletions'[n] = deletions[n]
          /\ devices'[m] = None
      BY <1>0, <1>9, <2>1, <2>5 DEF ApiWrite, Written, TypeInv, TypeOK
    <3>2. \A n \in Mac : n # m => Announced(n)' = Announced(n)
      BY <2>2, <3>1 DEF Announced, Announcements
    <3>3. \A e \in events : e.mac \in Mac
      BY DEF TypeInv, TypeOK, Event
    <3>4. \A e \in events' : e.type = "new_device" => Announced(e.mac)'
      BY <3>1, <3>2, <3>3 DEF AnnouncedInv
    <3>5. \A n \in Mac : devices'[n] # None => Announced(n)' \/ Announcing(n)'
      BY <2>3, <2>4, <3>1, <3>2 DEF AnnouncedInv
    <3> QED BY <3>4, <3>5 DEF AnnouncedInv
  <2>6. CASE api[c].op # "delete"
    <3>1. UNCHANGED <<events, deletions>>
      BY <1>9, <2>6 DEF ApiWrite
    <3> QED BY <2>2, <2>3, <2>4, <3>1, AnnouncedKept
  <2> QED BY <2>5, <2>6
<1>10. CASE UNCHANGED <<job, devices, events, deletions, raised>>
  BY <1>10, AnnouncedKept DEF Announcing
<1>11. TakeRequest \/ Tick \/ UNCHANGED vars \/ (\E c \in Client : ApiRead(c) \/ ApiFails(c))
           => UNCHANGED <<job, devices, events, deletions, raised>>
  BY DEF TakeRequest, Tick, vars, ApiRead, ApiFails
<1>12. ~Crash
  BY DEF Crash
<1> QED BY <1>2, <1>3, <1>4, <1>5, <1>6, <1>7, <1>8, <1>9, <1>10, <1>11, <1>12
        DEF Next, Pipeline, Api

(* README.md "Notifies you when a new device is found": unless the process dies between
   the insertion and the event, each stored device has been announced since it was last
   deleted, whatever fails, is deduplicated, deleted and purged. *)
THEOREM NewDevicesAreNotified ==
    ASSUME "crash" \notin Fault
    PROVE  Spec => []NewDevicesNotified
<1>1. Init => TypeInv /\ AnnouncedInv
  BY TypeInit DEF Init, AnnouncedInv
<1>2. TypeInv /\ AnnouncedInv /\ [Next]_vars => TypeInv' /\ AnnouncedInv'
  BY TypeStep, AnnouncedStep
<1>3. AnnouncedInv => NewDevicesNotified
  BY DEF AnnouncedInv, NewDevicesNotified, Announced, Announcements, Announcing
<1> QED BY <1>1, <1>2, <1>3, PTL DEF Spec
-----------------------------------------------------------------------------
(***************************************************************************)
(* One alert per absence.  An absence is named by the last_seen it was     *)
(* computed from; once it is reported, each later one of that device must  *)
(* begin after it.  That holds as long as the row has moved past it, which *)
(* the sighting that ended it saw to.                                      *)
(***************************************************************************)
Returns(m)  == {c \in raised : c.type = "device_back_online" /\ c.mac = m}
After(m, t) == \A c \in Returns(m) : c.absent_since < t

RowsInv ==
    /\ \A m : \A c \in Returns(m) : c.absent_since + AbsenceThreshold <= now
    /\ \A m \in Mac : devices[m] # None => After(m, devices[m].last_seen)
    /\ \A m : \A c, d \in Returns(m) : c.absent_since = d.absent_since => c = d

(* The event under way, or one that is to follow it, reports a return. *)
WillReturn == job.event = "device_back_online" \/ "device_back_online" \in job.todo

JobInv ==
    /\ job.pc \in {"seen", "insert", "check", "record"} =>
           job.since <= now /\ now <= job.since + JobTime
    /\ job.pc = "insert" => After(job.mac, job.device.last_seen)
    /\ job.pc = "seen" => After(job.mac, job.existing.last_seen)
    /\ job.pc \in {"check", "record"} /\ job.event = "new_device" => job.todo = {}
    /\ job.pc \in {"check", "record"} /\ job.event # "new_device" =>
           /\ devices[job.mac] # None => devices[job.mac].last_seen >= job.since
           /\ WillReturn => job.existing.last_seen + AbsenceThreshold <= now
           /\ job.event = "device_back_online" => "device_back_online" \notin job.todo
           /\ job.event = "device_seen" \/ WillReturn =>
                  After(job.mac, job.existing.last_seen)

Busy == {"seen", "insert", "check", "record"}

LEMMA AbsenceTypes ==
    ASSUME TypeInv
    PROVE  /\ now \in Nat /\ job \in Job /\ devices \in [Mac -> Device \cup {None}]
           /\ job.since \in Nat
           /\ \A m : \A c \in Returns(m) : c.absent_since \in Nat
           /\ \A m \in Mac : devices[m] # None => devices[m].last_seen \in Nat
           /\ AbsenceThreshold \in Nat /\ JobTime \in Nat /\ ScanAge \in Nat
<1>1. now \in Nat /\ JobTime \in Nat /\ ScanAge \in Nat
  BY SightingsAssumption DEF TypeInv, TypeOK
<1>2. job \in Job /\ devices \in [Mac -> Device \cup {None}]
  BY DEF TypeInv, TypeOK
<1>3. job.since \in Nat
  BY <1>2 DEF Job
<1>4. \A m : \A c \in Returns(m) : c.absent_since \in Nat
  BY DEF TypeInv, TypeOK, Change, Returns
<1>5. \A m \in Mac : devices[m] # None => devices[m].last_seen \in Nat
  BY <1>2 DEF Device
<1> QED BY <1>1, <1>2, <1>3, <1>4, <1>5, DeviceAssumption

(* A step that raises nothing and sets no row back. *)
LEMMA RowsKept ==
    ASSUME TypeInv, RowsInv, raised' = raised, now' = now,
           \A m \in Mac : devices'[m] # None =>
               \/ devices[m] # None /\ devices'[m].last_seen = devices[m].last_seen
               \/ After(m, devices'[m].last_seen)
    PROVE  RowsInv'
<1>1. \A m : Returns(m)' = Returns(m)
  BY DEF Returns
<1>2. \A m \in Mac : devices'[m] # None => After(m, devices[m].last_seen)'
  BY <1>1 DEF RowsInv, After
<1> QED BY <1>1, <1>2 DEF RowsInv

(* A step of others: the job stays as it is, and so do the times of its row. *)
LEMMA JobKept ==
    ASSUME JobInv, raised' = raised, now' = now, job' = job,
           \A m \in Mac : devices'[m] # None =>
               devices[m] # None /\ devices'[m].last_seen = devices[m].last_seen,
           job.pc \in {"check", "record"} => job.mac \in Mac
    PROVE  JobInv'
<1>1. \A m : Returns(m)' = Returns(m)
  BY DEF Returns
<1>2. \A m, t : After(m, t) => \A c \in Returns(m)' : c.absent_since < t
  BY <1>1 DEF After
<1>3. WillReturn' = WillReturn
  BY DEF WillReturn
<1> QED BY <1>1, <1>2, <1>3 DEF JobInv, After

LEMMA JobIdle ==
    ASSUME job'.pc \notin Busy
    PROVE  JobInv'
BY DEF JobInv, Busy

(* After an event that took no report of a return away from the rest. *)
LEMMA AfterEventAbsence ==
    ASSUME TypeInv, JobInv, job.pc \in {"check", "record"}, NEW S,
           job' = AfterEvent([job EXCEPT !.changes = S]), UNCHANGED <<devices, now>>,
           "device_back_online" \in Rest => \A m : Returns(m)' = Returns(m)
    PROVE  JobInv'
<1>1. CASE job'.pc \in {"read", "notify", "idle"}
  BY <1>1, JobIdle DEF Busy
<1>2. CASE job'.pc \notin {"read", "notify", "idle"}
  <2>1. /\ job'.pc = "check" /\ Rest # {}
        /\ job'.event = NextChange(Rest) /\ job'.todo = Rest \ {NextChange(Rest)}
        /\ job'.mac = job.mac /\ job'.existing = job.existing /\ job'.since = job.since
    BY <1>2, AfterEventKeeps, AbsenceTypes
  <2>2. job'.event # "new_device"
    BY <2>1 DEF NextChange
  <2>3. WillReturn' <=> "device_back_online" \in Rest
    BY <2>1 DEF WillReturn, NextChange
  <2>4. job'.event = "device_back_online" => "device_back_online" \notin job'.todo
    BY <2>1
  <2>5. job.event # "new_device"
    BY <2>1 DEF JobInv, Rest
  <2>6. "device_back_online" \in Rest =>
            /\ job.existing.last_seen + AbsenceThreshold <= now
            /\ After(job.mac, job.existing.last_seen)
    <3>1. CASE job.event = "device_seen"
      <4>1. job.existing \in Device
        BY <2>5 DEF TypeInv, Shaped
      <4>2. job.existing.last_seen \in Nat
        BY <4>1 DEF Device
      <4>3. "device_back_online" \in Rest => now - job.existing.last_seen >= AbsenceThreshold
        BY <3>1 DEF Rest, DetectedChanges
      <4> QED BY <2>5, <3>1, <4>2, <4>3, AbsenceTypes DEF JobInv
    <3>2. CASE job.event # "device_seen"
      BY <2>5, <3>2 DEF JobInv, Rest, WillReturn
    <3> QED BY <3>1, <3>2
  <2>7. "device_back_online" \in Rest => After(job.mac, job.existing.last_seen)'
    BY <2>1, <2>6 DEF After
  <2>8. job.since <= now /\ now <= job.since + JobTime
    BY DEF JobInv
  <2>9. devices[job.mac] # None => devices[job.mac].last_seen >= job.since
    BY <2>5 DEF JobInv
  <2>10. job'.event # "device_seen"
    BY <2>1 DEF NextChange
  <2> QED BY <2>1, <2>2, <2>3, <2>4, <2>6, <2>7, <2>8, <2>9, <2>10 DEF JobInv
<1> QED BY <1>1, <1>2

(* detect_known_device_changes: the sighting that found the device back has moved its
   row past the absence, or finds it deleted. *)
LEMMA AbsenceStep ==
    ASSUME ScanAge < AbsenceThreshold, JobTime < AbsenceThreshold,
           TypeInv, RowsInv, JobInv, [Next]_vars
    PROVE  RowsInv' /\ JobInv'
<1> USE DEF store, history
<1>0. /\ now \in Nat /\ job \in Job /\ devices \in [Mac -> Device \cup {None}]
      /\ AbsenceThreshold \in Nat /\ JobTime \in Nat /\ ScanAge \in Nat
  BY AbsenceTypes
<1>1. ASSUME UNCHANGED <<devices, raised, now>> PROVE RowsInv'
  BY <1>1, RowsKept
<1>2. ASSUME NEW s \in Scanner, StartScan(s) PROVE RowsInv' /\ JobInv'
  <2>1. job'.pc = "read"
    BY <1>2 DEF StartScan, Idle
  <2> QED BY <1>1, <1>2, <2>1, JobIdle DEF StartScan, Busy
(* No absence on record reaches into the last AbsenceThreshold. *)
<1>3. ASSUME NEW m, NEW t \in Nat, now < t + AbsenceThreshold PROVE After(m, t)
  <2>1. \A c \in Returns(m) :
            c.absent_since \in Nat /\ c.absent_since + AbsenceThreshold <= now
    BY AbsenceTypes DEF RowsInv
  <2> QED BY <1>0, <1>3, <2>1 DEF After
<1>4. CASE ReadDevice
  <2>1. PICK m \in Mac, sighting \in Device :
            \E recorded \in {devices[m], None} : ReadOutcome(m, sighting, recorded)
    BY <1>4, ReadDeviceOutcome
  <2>2. PICK recorded \in {devices[m], None} : ReadOutcome(m, sighting, recorded)
    BY <2>1
  <2>3. /\ job'.pc = IF recorded = None THEN "insert" ELSE "seen"
        /\ job'.since = now /\ job'.mac = m /\ job'.existing = recorded
        /\ recorded = None => job'.device = sighting
        /\ UNCHANGED <<devices, raised, now>>
    BY <1>0, <1>4, <2>2 DEF ReadOutcome, Job, ReadDevice
  <2>4. After(m, sighting.last_seen)
    <3>1. sighting.last_seen \in Nat /\ now <= sighting.last_seen + ScanAge
      BY <2>2 DEF ReadOutcome, Device
    <3>2. now < sighting.last_seen + AbsenceThreshold
      BY <1>0, <3>1
    <3> QED BY <1>3, <3>1, <3>2
  <2>5. recorded # None => After(m, recorded.last_seen)
    BY <2>2 DEF RowsInv
  <2>6. Returns(m)' = Returns(m)
    BY <2>3 DEF Returns
  <2>7. job'.pc = "insert" => After(job.mac, job.device.last_seen)'
    BY <2>3, <2>4, <2>6 DEF After
  <2>8. job'.pc = "seen" => After(job.mac, job.existing.last_seen)'
    BY <2>3, <2>5, <2>6 DEF After
  <2>9. job'.pc \in {"insert", "seen"} /\ job'.since <= now' /\ now' <= job'.since + JobTime
    BY <1>0, <2>3
  <2> QED BY <1>1, <2>3, <2>7, <2>8, <2>9 DEF JobInv
<1>5. CASE RecordSeen
  <2>1. PICK m \in Mac : m = job.mac
    BY <1>5 DEF RecordSeen, TypeInv, Shaped
  <2>2. /\ job'.pc = "check" /\ job'.event = "device_seen" /\ job'.todo = {}
        /\ job'.mac = m /\ job'.existing = job.existing /\ job'.since = job.since
        /\ job.pc = "seen" /\ UNCHANGED <<raised, now>>
    BY <1>0, <1>5, <2>1 DEF RecordSeen, StartEvent, Job
  <2>3. \A n \in Mac : n # m => devices'[n] = devices[n]
    BY <1>0, <1>5, <2>1 DEF RecordSeen
  <2>4. devices'[m] # None => devices[m] # None /\ devices'[m].last_seen = now
    BY <1>0, <1>5, <2>1 DEF RecordSeen, Seen, Device
  <2>5. After(m, now)
    BY <1>0, <1>3
  <2>6. RowsInv'
    BY <2>2, <2>3, <2>4, <2>5, RowsKept
  <2>7. ~WillReturn'
    BY <2>2 DEF WillReturn
  <2>8. job.since <= now /\ now <= job.since + JobTime /\ After(m, job.existing.last_seen)
    BY <2>1, <2>2 DEF JobInv
  <2>9. After(job.mac, job.existing.last_seen)'
    BY <2>2, <2>8 DEF After, Returns
  <2> QED BY <1>0, <2>2, <2>4, <2>6, <2>7, <2>8, <2>9, AbsenceTypes DEF JobInv
<1>6. CASE InsertDevice
  <2>1. PICK m \in Mac : m = job.mac
    BY <1>6 DEF InsertDevice, TypeInv, Shaped
  <2>2. /\ job'.pc = "check" /\ job'.event = "new_device" /\ job'.todo = {}
        /\ job'.since = job.since /\ job.pc = "insert" /\ UNCHANGED <<raised, now>>
    BY <1>0, <1>6 DEF InsertDevice, StartEvent, Job
  <2>3. devices' = [devices EXCEPT ![m] = job.device]
    BY <1>6, <2>1 DEF InsertDevice
  <2>4. After(m, job.device.last_seen)
    BY <2>1, <2>2 DEF JobInv
  <2>5. RowsInv'
    BY <1>0, <2>2, <2>3, <2>4, RowsKept
  <2>6. job.since <= now /\ now <= job.since + JobTime
    BY <2>2 DEF JobInv
  <2> QED BY <2>2, <2>5, <2>6 DEF JobInv
<1>7. CASE StoreFails
  <2>1. job'.pc \notin Busy
    BY <1>7, NextSightingKeeps DEF StoreFails, Busy
  <2> QED BY <1>1, <1>7, <2>1, JobIdle DEF StoreFails
<1>8. CASE CheckDuplicate
  <2>1. RowsInv' /\ job.pc = "check" /\ UNCHANGED <<devices, raised, now>>
    BY <1>1, <1>8 DEF CheckDuplicate
  <2>2. CASE job' = AfterEvent(job)
    <3>1. job' = AfterEvent([job EXCEPT !.changes = job.changes])
      <4>1. job = [job EXCEPT !.changes = job.changes]
        BY <1>0 DEF Job
      <4> QED BY <2>2, <4>1
    <3>2. \A m : Returns(m)' = Returns(m)
      BY <2>1 DEF Returns
    <3> QED BY <2>1, <3>1, <3>2, AfterEventAbsence
  <2>3. CASE job' = [job EXCEPT !.pc = "record"]
    <3>1. /\ job'.pc = "record" /\ job'.mac = job.mac /\ job'.event = job.event
          /\ job'.todo = job.todo /\ job'.existing = job.existing
          /\ job'.since = job.since
      BY <1>0, <2>3 DEF Job
    <3>2. \A m, t : After(m, t) => \A c \in Returns(m)' : c.absent_since < t
      BY <2>1 DEF After, Returns
    <3>3. WillReturn' = WillReturn
      BY <3>1 DEF WillReturn
    <3> QED BY <2>1, <3>1, <3>2, <3>3 DEF JobInv, After
  <2> QED BY <1>8, <2>2, <2>3, <2>1 DEF CheckDuplicate
<1>9. CASE RecordEvent
  <2>1. /\ raised' = raised \cup Found
        /\ job' = AfterEvent([job EXCEPT !.changes = job.changes \cup Found])
        /\ job.pc = "record" /\ UNCHANGED <<devices, now>>
    BY <1>9, Recorded DEF RecordEvent
  <2>2. CASE job.event # "device_back_online"
    <3>1. \A m : Returns(m)' = Returns(m)
      BY <2>1, <2>2 DEF Returns, Found, NewChange
    <3>2. RowsInv'
      BY <2>1, <3>1 DEF RowsInv, After
    <3>3. JobInv'
      BY <2>1, <3>1, AfterEventAbsence
    <3> QED BY <3>2, <3>3
  <2>3. CASE job.event = "device_back_online"
    <3>1. PICK m \in Mac : m = job.mac
      BY <2>1 DEF TypeInv, Shaped
    <3> DEFINE t == job.existing.last_seen
    <3>2. /\ devices[m] # None => devices[m].last_seen >= job.since
          /\ t + AbsenceThreshold <= now /\ After(m, t) /\ Rest = job.todo
          /\ "device_back_online" \notin job.todo
          /\ now <= job.since + JobTime
      BY <2>1, <2>3, <3>1 DEF JobInv, WillReturn, Rest
    <3>3. t \in Nat /\ job.since \in Nat
      BY <2>1, <2>3, AbsenceTypes DEF TypeInv, Shaped, Device
    <3>4. /\ NewChange.type = "device_back_online" /\ NewChange.mac = m
          /\ NewChange.absent_since = t
      BY <2>3, <3>1 DEF NewChange
    <3> HIDE DEF t
    <3>5. Found = {NewChange}
      BY <2>3 DEF Found
    <3>6. /\ Returns(m)' = Returns(m) \cup {NewChange}
          /\ \A n : n # m => Returns(n)' = Returns(n)
      <4> HIDE DEF NewChange
      <4> QED BY <2>1, <3>4, <3>5 DEF Returns
    <3>7. devices[m] # None => t < devices[m].last_seen
      <4>1. devices[m] # None => devices[m].last_seen \in Nat
        BY AbsenceTypes
      <4> QED BY <1>0, <3>2, <3>3, <4>1
    <3>8. \A c \in Returns(m) : c.absent_since # t
      BY <3>2, <3>3, AbsenceTypes DEF After
    <3> HIDE DEF NewChange
    <3>9. \A n : \A c \in Returns(n)' : c.absent_since + AbsenceThreshold <= now'
      BY <2>1, <3>2, <3>4, <3>6 DEF RowsInv
    <3>10. \A n \in Mac : devices'[n] # None => After(n, devices[n].last_seen)'
      BY <2>1, <3>4, <3>6, <3>7 DEF RowsInv, After
    <3>11. \A n : \A c, d \in Returns(n)' : c.absent_since = d.absent_since => c = d
      BY <3>4, <3>6, <3>8 DEF RowsInv
    <3>12. RowsInv'
      BY <3>9, <3>10, <3>11 DEF RowsInv
    <3>13. JobInv'
      BY <2>1, <3>2, AfterEventAbsence
    <3> QED BY <3>12, <3>13
  <2> QED BY <2>2, <2>3
<1>10. CASE PersistAndDeliver
  <2>1. job'.pc \in {"idle", "notify"} /\ UNCHANGED <<devices, raised, now>>
    BY <1>0, <1>10 DEF PersistAndDeliver, Idle, Job
  <2> QED BY <1>1, <2>1, JobIdle DEF Busy
<1>11. CASE StartSweep \/ Sweep \/ Crash
  <2>1. job' = Idle \/ job' = [Idle EXCEPT !.pc = "purge_events", !.at = now]
            \/ job' = [job EXCEPT !.pc = "purge_notifications"]
    BY <1>11 DEF StartSweep, Sweep, PurgeEvents, PurgeNotifications, Crash
  <2>2. /\ Idle.pc = "idle"
        /\ [Idle EXCEPT !.pc = "purge_events", !.at = now].pc = "purge_events"
        /\ [job EXCEPT !.pc = "purge_notifications"].pc = "purge_notifications"
    BY <1>0 DEF Idle, Job
  <2>3. UNCHANGED <<devices, raised, now>>
    BY <1>11 DEF StartSweep, Sweep, PurgeEvents, PurgeNotifications, Crash
  <2> QED BY <1>1, <2>1, <2>2, <2>3, JobIdle DEF Busy
<1>12. ASSUME job' = job, UNCHANGED <<raised, now>>,
              \A m \in Mac : devices'[m] # None =>
                  devices[m] # None /\ devices'[m].last_seen = devices[m].last_seen
       PROVE  RowsInv' /\ JobInv'
  <2>1. job.pc \in {"check", "record"} => job.mac \in Mac
    BY DEF TypeInv, Shaped
  <2> QED BY <1>12, <2>1, RowsKept, JobKept
<1>13. ASSUME NEW c \in Client, ApiWrite(c) PROVE RowsInv' /\ JobInv'
  <2>1. PICK m \in Mac : m = api[c].mac
    BY <1>13 DEF ApiWrite, TypeInv, TypeOK, Request
  <2>2. api[c] \in Request /\ job' = job /\ UNCHANGED <<raised, now>>
    BY <1>13 DEF ApiWrite, TypeInv, TypeOK
  <2>3. /\ devices'[m] = IF devices[m] = None THEN None ELSE Written(api[c], devices[m])
        /\ \A n \in Mac : n # m => devices'[n] = devices[n]
    BY <1>0, <1>13, <2>1 DEF ApiWrite
  <2>4. \A row \in Device :
            \/ Written(api[c], row) = None
            \/ Written(api[c], row).last_seen = row.last_seen
    BY <2>2 DEF Written, Request, ApiKind, Register, Update, Unregister, Device
  <2> QED BY <1>0, <1>12, <2>2, <2>3, <2>4
<1>14. CASE Tick
  <2>1. /\ now' = now + 1 /\ UNCHANGED <<devices, raised, job>>
        /\ job.pc \in Busy => now < job.since + JobTime
    BY <1>14 DEF Tick, Busy
  <2>2. /\ \A m : Returns(m)' = Returns(m)
        /\ \A m, t : After(m, t) => \A c \in Returns(m)' : c.absent_since < t
        /\ WillReturn' = WillReturn
    BY <2>1 DEF Returns, After, WillReturn
  <2>3. RowsInv'
    <3>1. \A m : \A c \in Returns(m)' : c.absent_since + AbsenceThreshold <= now'
      BY <1>0, <2>1, <2>2, AbsenceTypes DEF RowsInv
    <3> QED BY <2>1, <2>2, <3>1 DEF RowsInv, After
  <2>4. job.pc \in Busy => job.since <= now' /\ now' <= job.since + JobTime
    BY <1>0, <2>1, AbsenceTypes DEF JobInv, Busy
  <2>5. job.pc \in {"check", "record"} /\ job.event # "new_device" /\ WillReturn
            => job.existing.last_seen + AbsenceThreshold <= now'
    <3>1. job.pc \in {"check", "record"} /\ job.event # "new_device"
              => job.existing.last_seen \in Nat
      BY DEF TypeInv, Shaped, Device
    <3> QED BY <1>0, <2>1, <3>1 DEF JobInv
  <2>6. JobInv'
    BY <2>1, <2>2, <2>4, <2>5 DEF JobInv, Busy, After
  <2> QED BY <2>3, <2>6
<1>15. CASE UNCHANGED <<job, devices, raised, now>>
  BY <1>12, <1>15
<1>16. TakeRequest \/ UNCHANGED vars \/ (\E c \in Client : ApiRead(c) \/ ApiFails(c))
           => UNCHANGED <<job, devices, raised, now>>
  BY DEF TakeRequest, vars, ApiRead, ApiFails
<1> QED BY <1>2, <1>4, <1>5, <1>6, <1>7, <1>8, <1>9, <1>10, <1>11, <1>13, <1>14, <1>15,
           <1>16 DEF Next, Pipeline, Api

(* detect_known_device_changes after seen: one absence raises one back-online change,
   however many scanners see the device and whatever fails or is deleted meanwhile,
   when a scan and the pipeline are quick against the threshold. *)
THEOREM AbsencesReportedOnce == Spec => []OneAlertPerAbsence
<1> DEFINE Quick == ScanAge < AbsenceThreshold /\ JobTime < AbsenceThreshold
<1>1. Init => TypeInv /\ RowsInv /\ JobInv
  BY TypeInit DEF Init, RowsInv, JobInv, Returns, After, Idle
<1>2. Quick => (TypeInv /\ RowsInv /\ JobInv /\ [Next]_vars
                    => TypeInv' /\ RowsInv' /\ JobInv')
  BY TypeStep, AbsenceStep
<1>3. RowsInv => OneAlertPerAbsence
  BY DEF RowsInv, Returns, OneAlertPerAbsence
<1>4. CASE Quick
  <2>1. TypeInv /\ RowsInv /\ JobInv /\ [Next]_vars => TypeInv' /\ RowsInv' /\ JobInv'
    BY <1>2, <1>4
  <2> QED BY <1>1, <1>3, <2>1, PTL DEF Spec
<1>5. CASE ~Quick
  <2>1. OneAlertPerAbsence
    BY <1>5 DEF OneAlertPerAbsence
  <2> QED BY <2>1, PTL
<1> QED BY <1>4, <1>5
=============================================================================
