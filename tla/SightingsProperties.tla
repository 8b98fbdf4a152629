------------------------- MODULE SightingsProperties -------------------------
(***************************************************************************)
(* What the shared store promises.                                         *)
(***************************************************************************)
EXTENDS Sightings

SameKey(e, f) == e.mac = f.mac /\ e.scanner = f.scanner /\ e.type = f.type

(* record_event: a scanner never records the same type of event of a device
   twice within the deduplication window, whatever requests, deletions, sweeps,
   restarts and failing writes come in between.  One condition is needed: the check
   itself does not fail (then the event is recorded anyway). *)
EventsSpaced ==
    "check" \notin Fault =>
        \A e, f \in events :
            SameKey(e, f) /\ e.created_on <= f.created_on /\ e # f
                => f.created_on - e.created_on > DedupWindow

(* detect_known_device_changes after seen: however many scanners see a device
   come back, and whatever fails or is deleted meanwhile, one absence raises one
   back-online change.  Two things must be quick against the absence threshold: a
   scan (a device deleted and found again would bring its old last_seen back) and
   the pipeline (detection reads the clock later than seen did: were the threshold
   to pass in between, the next sighting would find the device absent again). *)
OneAlertPerAbsence ==
    ScanAge < AbsenceThreshold /\ JobTime < AbsenceThreshold =>
        \A c, d \in raised :
            /\ c.type = "device_back_online" /\ d.type = "device_back_online"
            /\ c.mac = d.mac /\ c.absent_since = d.absent_since
            => c = d

(* notify: every change the pipeline raised is in exactly one place: still in
   the running job, in one notification, or lost to a crash, a failed insert or
   the retention sweep; grouping by type neither drops nor repeats one. *)
AlertsConserved ==
    \A c \in raised :
        LET holders == {n \in notifications : c \in n.about}
        IN  \/ c \in job.changes /\ holders = {} /\ c \notin lost
            \/ c \notin job.changes /\ Cardinality(holders) = 1 /\ c \notin lost
            \/ c \notin job.changes /\ holders = {} /\ c \in lost

(* record_sighting: a device is announced as new at most once from its insertion
   to its deletion; neither a failed read nor a restart announces it again. *)
AnnouncedOncePerLifetime ==
    \A m \in Mac :
        Cardinality({c \in raised : c.type = "new_device" /\ c.mac = m})
            <= deletions[m] + 1

(* README.md "Notifies you when a new device is found": between two jobs of the
   main task, each stored device has been announced since it was last deleted,
   although the announcement depends on an event that a deduplication window can
   suppress and that a deletion may overtake. *)
NewDevicesNotified ==
    job.pc = "idle" =>
        \A m \in Mac : devices[m] # None =>
            \E c \in raised : c.type = "new_device" /\ c.mac = m /\ c.life = deletions[m]

Registration(row) == IF row = None THEN <<FALSE, "">>
                     ELSE <<row.is_registered, row.owner>>

(* db::devices::seen and insert: only a request changes who owns a device and
   whether it is registered, although the pipeline writes rows it read earlier. *)
ScannersNeverRegister ==
    [][api' = api =>
        \A m \in Mac : Registration(devices'[m]) = Registration(devices[m])]_vars

(* db::devices::seen: the device type a user chose survives every sighting, even
   one that read the row before the choice was stored. *)
DeviceTypeKept ==
    [][api' = api =>
        \A m \in Mac : devices[m] # None =>
            /\ devices'[m] # None
            /\ devices[m].device_type # "" =>
                   devices'[m].device_type = devices[m].device_type]_vars

(* seen and the reconciliation: a sighting that knows less (a DISCOVER without an
   address, a MAC without a vendor, an ARP reply without a name) never blanks what
   is stored. *)
SightingsNeverErase ==
    [][api' = api =>
        \A m \in Mac : devices[m] # None =>
            /\ devices'[m] # None
            /\ devices[m].ipv4_address # "" => devices'[m].ipv4_address # ""
            /\ devices[m].vendor # "" => devices'[m].vendor # ""
            /\ devices[m].name # None => devices'[m].name # None]_vars

(* The pipeline and notify: a change that was raised is not left behind in a job
   that hangs; it ends up in a notification, or lost with its job. *)
RaisedChangesSettle ==
    \A i \in 0..MaxChanges :
        (\E c \in raised : c.id = i) ~>
        (\E c \in raised : c.id = i /\ c \notin job.changes)
=============================================================================
