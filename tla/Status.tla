--------------------------------- MODULE Status ---------------------------------
(***************************************************************************)
(* What the web server answers about the scanners.  Every scanner owns one *)
(* status behind a mutex, None until the scanner's cell is initialised;    *)
(* the operations below are what the scanners and the handlers do to it,   *)
(* each at an instant t of Utc::now().                                     *)
(***************************************************************************)
EXTENDS Integers, FiniteSetsExt, SequencesExt

CONSTANTS
    None,
    RecentWindow        \* RECENT_WINDOW_SECONDS
-----------------------------------------------------------------------------
(* mDNS, SSDP, DHCP. *)
PassiveStatus(macs) ==
    [is_listening: BOOLEAN, listening_since: Int \cup {None},
     recent_sightings: UNION {[M -> Int] : M \in SUBSET macs},
     last_discovery_at: Int \cup {None}]

NewPassive == [is_listening |-> FALSE, listening_since |-> None,
               recent_sightings |-> [m \in {} |-> 0], last_discovery_at |-> None]

SetListening(s, t) == [s EXCEPT !.is_listening = TRUE, !.listening_since = t]

(* Mutant: a device keeps the time it was first seen at. *)
RecordFirstDiscovery(s, mac, t) ==
    [s EXCEPT !.recent_sightings =
                  [m \in DOMAIN @ \cup {mac} |-> IF m \in DOMAIN @ THEN @[m] ELSE t],
              !.last_discovery_at = t]

RecordDiscovery(s, mac, t) ==
    [s EXCEPT !.recent_sightings =
                  [m \in DOMAIN @ \cup {mac} |-> IF m = mac THEN t ELSE @[m]],
              !.last_discovery_at = t]

(* Sightings older than the window are dropped here, and only here. *)
Pruned(s, t) ==
    [s EXCEPT !.recent_sightings =
                  [m \in {k \in DOMAIN @ : @[k] >= t - RecentWindow} |-> @[m]]]

(* The response, and the status as the request leaves it; 500 without one. *)
PassiveResponse(s, t) ==
    IF s = None THEN None
    ELSE [listening_for   |-> IF s.is_listening THEN t - s.listening_since ELSE None,
          devices_seen    |-> Cardinality(DOMAIN Pruned(s, t).recent_sightings),
          last_device_ago |-> IF s.last_discovery_at = None THEN None
                              ELSE Max({t - s.last_discovery_at, 0})]
-----------------------------------------------------------------------------
(* ARP, SNMP. *)
ActiveStatus ==
    [is_running: BOOLEAN, scan_started_at: Int \cup {None}, next_scan_at: Int \cup {None},
     last_scan_devices_seen: Int \cup {None}, last_scan_at: Int \cup {None}]

NewActive == [is_running |-> FALSE, scan_started_at |-> None, next_scan_at |-> None,
              last_scan_devices_seen |-> None, last_scan_at |-> None]

SetRunning(s, t) ==
    [s EXCEPT !.is_running = TRUE, !.scan_started_at = t, !.next_scan_at = None]

(* Mutant: the scanner sleeps, and still says it runs. *)
SetWaitingRunning(s, next) ==
    [s EXCEPT !.scan_started_at = None, !.next_scan_at = next]

SetWaiting(s, next) ==
    [s EXCEPT !.is_running = FALSE, !.scan_started_at = None, !.next_scan_at = next]

(* The devices of a scan, by MAC. *)
RecordScan(s, macs, t) ==
    [s EXCEPT !.last_scan_devices_seen = Cardinality(ToSet(macs)), !.last_scan_at = t]

ActiveResponse(s, t) ==
    IF s = None THEN None
    ELSE [is_running        |-> s.is_running,
          running_for       |-> IF s.is_running /\ s.scan_started_at # None
                                THEN t - s.scan_started_at ELSE None,
          next_run_in       |-> IF ~s.is_running /\ s.next_scan_at # None
                                THEN Max({s.next_scan_at - t, 0}) ELSE None,
          last_scan_devices |-> s.last_scan_devices_seen,
          last_scan_ago     |-> IF s.last_scan_at = None THEN None
                                ELSE Max({t - s.last_scan_at, 0})]
-----------------------------------------------------------------------------
(***************************************************************************)
(* A history is a sequence of calls; each names an operation and its time. *)
(* Before the cell is initialised every operation is a no-op; a second     *)
(* init changes nothing.                                                   *)
(***************************************************************************)
PassiveCall(s, c) ==
    IF c.op = "init" THEN IF s = None THEN NewPassive ELSE s
    ELSE IF s = None THEN None
    ELSE CASE c.op = "listen"   -> SetListening(s, c.t)
           [] c.op = "discover" -> RecordDiscovery(s, c.mac, c.t)
           [] c.op = "get"      -> Pruned(s, c.t)

ActiveCall(s, c) ==
    IF c.op = "init" THEN IF s = None THEN NewActive ELSE s
    ELSE IF s = None THEN None
    ELSE CASE c.op = "run"    -> SetRunning(s, c.t)
           [] c.op = "wait"   -> SetWaiting(s, c.next)
           [] c.op = "record" -> RecordScan(s, c.macs, c.t)

PassiveAfter(calls) ==
    LET after[n \in 0..Len(calls)] ==
          IF n = 0 THEN None ELSE PassiveCall(after[n - 1], calls[n])
    IN  after[Len(calls)]

ActiveAfter(calls) ==
    LET after[n \in 0..Len(calls)] ==
          IF n = 0 THEN None ELSE ActiveCall(after[n - 1], calls[n])
    IN  after[Len(calls)]
=============================================================================
