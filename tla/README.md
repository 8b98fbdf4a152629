# OOTT in TLA+

OOTT watches a local network. A backend (Rust, tokio, SQLite) discovers devices with five
scanners, keeps a table of them, and notifies its users when a device is new, comes back or
changes. A push relay (TypeScript, a cloud function) forwards alerts to phones, and an app
(Flutter) shows devices and notifications and lets users register devices.

This directory holds the TLA+ modules of that program, the TLC configurations that check them
and the proofs TLAPS checks. `PROJECT.json` is the index: components, runs, the source lines of
each definition, hazards, findings, theorems.

    tlc -workers 2 -config alerts.cfg MCSightings.tla     # a run
    tlapm SightingsProofs.tla                             # the proofs of a module

## 1. Inventory

### 1.1 Parts, state and operations

| Part | Code | State it keeps | Operations |
|---|---|---|---|
| Sighting pipeline | `scanners/common/pipeline.rs`, `enrichment.rs`, `events.rs`, `events/detection.rs` | none between sightings; inside one, the row it read, the reconciled device, the changes | `record_sighting`, `record_and_notify`, `record_new_device`, `record_known_device` |
| Device store | `db/devices.rs` | table `devices`, keyed by MAC | `read insert seen register update unregister delete`, queries |
| Event store | `db/device_events.rs` | table `device_events` | `insert recent_duplicate_exists purge_older_than`, queries |
| Notification store | `notifications.rs`, `db/notifications.rs`, `web_server/notifications.rs` | table `notifications`, the new/old mark of each row | `notify` (group, persist, enqueue), mark, purge, queries |
| Device API | `web_server/devices.rs` | none: a check on one connection, a write on another | `PUT /devices`, `PUT`, `DELETE` of a device, its registration |
| Retention | `retention.rs` | none | a sweep of both tables every interval |
| ARP and SNMP scanners | `scanners/arp`, `scanners/snmp` | the changes of the scan, `active_status` | scan, process, sleep |
| mDNS, SSDP, DHCP listeners | `scanners/mdns`, `ssdp`, `dhcp` | a socket, `passive_status` | one sighting per packet |
| Delivery | `notifications/delivery.rs`, `push.rs`, `pushover.rs` | an mpsc channel of 100, the list of tokens it is posting to | `enqueue` (try_send), `run_delivery`, send, prune dead tokens |
| Push tokens | `db/push_tokens.rs`, `web_server/push_tokens.rs` | table `push_tokens` | register, unregister, list, delete many |
| Lifecycle | `main.rs`, `shutdown.rs`, `web_server.rs` | the shutdown token | start, join eight futures in ONE task, stop, close the database |
| Scanner status | `active_status.rs`, `passive_status.rs` | a process-wide record per scanner | started, found, slept, stopped |
| Push relay | `push_relay/src` | a counter per client and window, in memory or in Firestore | `POST /v1/push`: limit, validate, send |
| App | `frontend/lib` | polled values, whether the backend answers, pages of a list, the registered token | poll, pause, resume, page, filter, enable and disable push |

### 1.2 How the parts interact

`main.rs` joins the five scanners, the retention sweep, the delivery loop and the web server with
one `tokio::join!`: they are futures of one task and never run at once. The pipeline, `notify`
and the sweep contain no `.await`, so each runs from its first SQL statement to its last without
another future of that task in between. API handlers hand their work to the blocking pool: they
use connections of their own and step in between any two SQL statements of the main task and of
each other. A scan's changes reach `notify` as one list; `notify` stores one notification per
type and offers each to the delivery channel, which the delivery loop empties. Delivery posts to
the relay and deletes the tokens the relay calls dead; the app registers tokens meanwhile. The
app learns of everything by polling.

### 1.3 What is hard

* A row read at the start of a sighting is written back after a request changed it.
* A device is deleted in the middle of its own sighting, and found again.
* The row, its event and its notification are three statements; each may fail alone, the
  process may die between them, and a failed read is indistinguishable from "no such device".
* Time: the deduplication window is inclusive, the clock is read again after the row is
  written, and a scan's replies are older than the time they are processed at.
* Two scanners see the same device come back.
* Bounded channel, purges that fail independently, changes held until the end of a scan.
* Tokens that rotate or are pruned while lists and answers about them are old; a POST whose
  connection breaks and which FCM serves later; a toggle whose screen is left half-way.
* One task for eight futures, one of which blocks its thread: a signal, a full channel, an error
  or a slow answer of one concerns all of them.
* A rate limit counted by instances whose clocks differ, in transactions that conflict, are
  retried with a stale time, and give up.
* Pages requested before a filter change, a mark or a purge and answered after it, merged row by
  row into a list that has changed.
* Input nobody controls: options cut anywhere, a router that lists a MAC at two addresses, an
  ARP cache that is incomplete or out of date, replies meant for somebody else.

`hazards` in `PROJECT.json` gives each with its line and the properties that cover it, or why none
does: what the code promises nothing about, or what a run assumes away.

### 1.4 What makes each part correct

* Pipeline and stores: a scanner writes the same event of a device at most once per window; an
  absence is reported once; a new device is announced once, and always; a scanner never
  changes what only a user may set and never blanks what is known.
* Notifications: every change raised is in one notification, or its loss has one of three causes.
* Delivery: an alert reaches a phone at most once, a live token is not pruned.
* Push on a phone: the toggle and the backend's table agree once everything is at rest.
* Relay: no client gets more than the limit in a window, and a window is never resurrected.
* Lifecycle: every future ends after a shutdown, and a scanner that ended is not shown running.
* App: an older answer never replaces a newer one, no row of a list appears twice, and a list
  left alone comes to show what is on record.
* Parsers: what is read was sent; a MAC is attributed to an address only by a reply from it or by a
  complete line of the kernel's cache; what a scanner reports is what the store expects of it.
* Settings, status, queries, texts: a configuration that is accepted is followed, and one that leaves
  out the section of its method is not accepted; the status agrees with the calls that made it; pages
  show each row once and in order; an alert shows no address.

## 2. Modules

| Module | What it is |
|---|---|
| `Devices` | A row, a sighting, and what each SQL statement and each pure step makes of them. No state. |
| `Sightings` | The store, the clock, the main task and the API requests: the core state machine. EXTENDS `Devices`. |
| `SightingsProperties` | Its properties. |
| `MCSightings` | Functions that a cfg cannot write down, for the constants. |
| `SightingsProofs` | Types, spacing of events, and what a sighting may not overwrite, for every value of the constants. |
| `ChangeProofs` | The ledger of changes, announcements and absences. |
| `Delivery` | The channel, the delivery loop and the test push, the relay's answers, the table of tokens. No specification of its own. |
| `Push` | The phones on top of it: launch, toggle, rotation, requests in flight. EXTENDS `Delivery`; its `Spec` composes both, and its properties are at its end. |
| `PushProofs` | Types, that no live token is pruned, the toggle, and that no phone gets an alert twice. |
| `Lifecycle` | One run of the backend process: the eight futures of one task with their awaits, the signal, the delivery channel, what the status records say. |
| `LifecycleProofs` | Types, late scans, truthful status records, and when an alert is dropped. |
| `RateWindow` | The fixed window of the relay's rate limit. No state. |
| `RateLimiter` | The ABSTRACT specification of `RateLimitStore`: an atomic counter per key, which is the in-memory store. EXTENDS `RateWindow`. |
| `RelayLimit` | The relay's handler over the Firestore store: transactions, retries, stale clocks, the five answers. EXTENDS `RateWindow`; implements `RateLimiter` by `INSTANCE` (the variables have the same names, so the refinement mapping is the identity). |
| `MCRelayLimit` | The calls' source, for the cfg. |
| `RelayLimitProofs` | Types, the limit, windows that only move forward, and the refinement. |
| `Ordering` | The numbers of a set in order, and the elements of a sequence at some indices: what `filter` and `sort` do. No state. |
| `OrderProofs` | Induction over the naturals in a form that can be instantiated, and what `Ordering` gives for finite sets of any size. |
| `Inbox` | Table, handlers and app of the notifications list: overlapping requests, filters, pages, refreshes, marks. |
| `InboxProofs` | Types, the order of the rows, and that they fit the filter. |
| `Discovery` | Packets, table walks and caches to sightings: the parsers of the five scanners, the search for a MAC, the enrichment. No state. |
| `Settings` | The configuration file: defaults, required keys, validation, and what delivery makes of it. No state. |
| `Status` | Both status records, as functions of the calls made to them. No state. |
| `Queries` | Filters, sorting, paging and texts of the lists of devices and events. No state. |
| `Rendering` | Which facts the alerts' titles and bodies tell. No state. |
| `Algorithms` | Inputs for the five modules above, and the invariants that compare them with reference definitions; it also instantiates `Devices` to say that what a scanner reports is what the store expects. |
| `MCAlgorithms` | The inputs' alphabets, for the cfg. |
| `AlgorithmProofs` | Packets, scans, the search for a MAC, the settings, the status, the lists and the texts, for inputs of any size. |

The two state machines meet at the channel: `persist_and_deliver` in `Sightings` appends to `queue`
what `Enqueue` in `Delivery` appends. `Sightings` does not look at what becomes of an alert,
`Delivery` not at what it says, so they are checked apart. `Lifecycle` meets both there too: it has
the channel among the futures that fill and empty it, but neither rows nor tokens. `Algorithms`
ties `Discovery` to `Devices`: a set that `Sightings` takes reports from (`Reported`,
`DeducedVendor`) is checked to hold every report the parsers can make.

### 2.1 State and code

| Variable | Stands for |
|---|---|
| `devices`, `events`, `notifications` | the three tables; `devices[m]` is the row of a MAC or `None` |
| `queue` | the channel between `enqueue` and `run_delivery` |
| `job` | the main task's local variables: `pc` names the statement it runs next, `left` the sightings left of the scan, `existing` and `device` the row read and the device reconciled with it, `event` and `todo` the event being recorded and the changes after it, `at` the time `record_event` or `run` read, `changes` the list returned so far |
| `api` | for each request slot, a request that has passed its check and not yet written |
| `now` | `Utc::now()` |
| `raised`, `lost`, `deletions` | history: what the properties relate states to; no guard of a code action reads it, except bounds |

| Action | Code |
|---|---|
| `StartScan` | a scan of the active scanners (1..`MaxBatch` devices) or one packet of a listener |
| `ReadDevice` | `db::devices::read` and the reconciliation, `build_device` included |
| `RecordSeen`, `InsertDevice`, `StoreFails` | `db::devices::seen` and `insert`, and their error branches |
| `CheckDuplicate`, `RecordEvent` | the two statements of `record_event`; what follows the last event of a device (detection, the next device, the alerts) belongs to the same action because no statement or await separates them |
| `PersistAndDeliver` | one turn of `notify`: a group is stored and offered to the channel |
| `StartSweep`, `PurgeEvents`, `PurgeNotifications` | the retention sweep |
| `TakeRequest` | the delivery loop receives |
| `ApiRead`, `ApiWrite`, `ApiFails` | an API handler up to its write, its write, its failure |
| `Tick`, `Crash` | the environment |

In `Delivery` and `Push`:

| Variable | Stands for |
|---|---|
| `tokens` | the table `push_tokens` |
| `queue`, `alerts` | the channel, whose alerts are numbered, and how many were offered to it |
| `sends` | per caller of `push::send` (the loop, each test request) the local variables of the call: `pc`, the alert, the tokens it listed, those it was told are dead |
| `live`, `used` | FCM (external): each phone's token, every token ever minted |
| `stray` | POSTs that have left and whose caller is gone: a broken connection or a restart |
| `running`, `enabled`, `wired` | per phone: the app runs, `push_enabled`, `_tokenRefreshWired` |
| `ops` | per phone the calls of `initPushOnLaunch`, `enable` and `disable` in flight, each with the await it stands at and whether its settings screen is `mounted` |
| `requests` | PUT and DELETE of a token that the backend has not handled |
| `received`, `disturbed` | history: the alerts a phone got; has anything gone wrong since its last operation began alone |

| Action | Code |
|---|---|
| `Enqueue`, `TakeRequest`, `StartTest` | `enqueue`, one turn of `run_delivery`, `send_test_push` |
| `ListTokens`, `Post`, `Prune` | the three awaits of `push::send`; `Post` holds the relay's validation and FCM's answers too |
| `Serve` | the relay serves a POST whose caller is gone |
| `Launch`, `Toggle` | `initPushOnLaunch`; `_togglePush`, refused while `_pushBusy` |
| `GetToken`, `Continue`, `DeleteToken`, `Finish` | what follows each await of an operation |
| `FcmFails`, `GiveUp`, `Lose` | its exceptions: FCM, Dio's timeout, a request that never arrives |
| `Handle` | `register` and `unregister`, answered or with the answer lost |
| `Rotate`, `Leave`, `Kill`, `Restart` | FCM, the user and the operating systems |

In `Lifecycle`:

| Variable | Stands for |
|---|---|
| `config` | the settings: scanners that are on, whether delivery awaits, whether the file is valid; and whether the subnet is wide enough for `send_packet` to sleep |
| `phase` | of the process |
| `pc` | the await each of the eight futures stands at |
| `cancelled` | the shutdown token |
| `probe` | the locals of `find` and `listen_for_packets`: how long it runs (in scan durations), packets since its last await, whether it has found anything, and whether the token was cancelled when its `select!` was last polled |
| `status` | what each scanner's record says |
| `queue`, `raised`, `sent` | the channel with numbered alerts |
| `conns` | open HTTP connections |
| `late` | history: scans begun after the signal |

| Action | Code |
|---|---|
| `Boot`, `Signal`, `Exit` | `main` before and after `join!`, `watch_for_signals` |
| `Stop`, `Disabled` | the token's arm of each `select!`; a scanner that is off |
| `BeginArp`, `ResumeArp`, `Packet`, `PacketError`, `Elapse` | `scan`, `find`, `send_packet`, `listen_for_packets`; `ScanDone` (within them) is the rest of a scan: record, pipeline, `notify`, `set_waiting`, the first poll of the sleep |
| `BeginSnmp`, `PollEnds` | the SNMP loop |
| `StartListening`, `Hear`, `Resolve`, `Resolved` | the three listeners |
| `StartWeb`, `Accept`, `Close`, `Drain` | `serve` with graceful shutdown |
| `SweepThenSleep`, `StartDelivery`, `TakeRequest`, `Delivered` | retention and delivery loops |

`Polled(t)` says when the task polls `t`: never while the ARP receiver is between two of its awaits
(`pc = "receive"`), for the first time in the order of `join!`.

In `RelayLimit`: `windows` is the collection `rate_limits`, `calls` the locals of each handler,
`verdict` what `hit` returned to it, `clock` the fastest instance's clock. `Arrive` reads the time,
`Get` and `Commit` are the transaction, `CommitUnheard`, `Retry` and `StoreThrows` its failures,
`Decide` and `Send` the rest of the handler.

In `Inbox`: `store` is the table (ids stand for `created_on`, which grows with them), `requests` the
GETs under way, each with its `CancelToken` still current or not, and with the two statements of
its handler; `mark` the one request to mark; `app` the fields of the two `State` classes; `visible`
whether the timer runs. `Lists`, `Counts`, `Flags`, `ReadsBack` are the backend's statements;
`Answered`, `Failed`, `Cancelled`, `MarkAnswered`, `MarkAnsweredWithError` what comes back; the rest
is what the user, the timer, the dispatcher, the sweep and other clients do.

`Algorithms` has one variable, `sample`, the input taken; each of its actions takes an input of one
kind, and its invariants compute.

### 2.2 Abstractions

* A MAC, an address, a vendor, a name, an owner or a type is a model value; `""` and `None` are
  kept apart because the code keeps them apart. Data files (`data/`) are the constants `Oui`,
  `LocallyAdministered` and `TypeOf`.
* What a scanner reports is a set per protocol: ARP and SNMP carry an address and no name, mDNS
  an address and a name, SSDP an address and perhaps a name, DHCP perhaps either.
* A scan may name one MAC twice. ARP does not deduplicate its replies; SNMP does, so for SNMP the
  model allows more than the code.
* `record_event` reads the clock twice with nothing in between (the event's time, the window's
  start); the model reads it once.
* The wall clock never goes back.
* A request that is refused (404, 409) changes nothing and is not a step. A read that fails in a
  handler is answered like a missing row, so it is not a step either.
* The delivery channel is open: notifications are raised only after `main` has set it up.
* The new/old marks of notifications and the paged queries are in `Inbox` and `Queries`.

Of `Delivery` and `Push`:

* FCM is assumed to mint each token once, to keep one live token per phone, to deliver only to
  live tokens, and to call a token unregistered or invalid only when it is not live
  (`LiveTokensKept` rests on the last; `classifyFailure` also maps `invalid-argument` to invalid).
* The instant at which FCM takes the batch stands for the whole POST. A test's content is not
  remembered. A POST that is stray may never be served.
* The delivery method is `push`. Pushover and logging keep no state.
* A declined permission or a missing APNs token ends an operation like an FCM error.
* The preference is written at once; a request is handled at one instant (one SQL statement).

Of the others:

* `Lifecycle`: one action is one poll, from an await to the next; a `select!` whose arms are both
  ready takes either. Timers are nondeterministic; only the receiver's window is measured, in
  units of `scan_duration`, because its outer timeout is twice that. What a delivery or a handler
  does is elsewhere; here it is awaited. A sweep has no await of its own and is one step with the
  sleep after it. `rx.next()` may fail (`PacketError`) until the window is over. Panics and a
  second signal are left out.
* `RelayLimit`: Firestore (external) commits a transaction only if the document is as it was read,
  and runs it again otherwise, at most `MaxAttempts` times. The answer of a commit
  of a call in `Unheard` may be lost: such a call is counted again by its retry, or counted and
  answered 502. Instances' clocks are at most `Skew` apart.
* `Inbox`: one view; one mark at a time. A mark's flag and its read-back are two statements
  (`GET /api/notifications/{id}` flags first). SQLite reuses the greatest id after it was purged
  (`INTEGER PRIMARY KEY` without `AUTOINCREMENT`), as in the model. Animations are left out: rows
  change at once, as `_items` does.
* `Discovery`: octets are numbers, texts are opaque with their case where the code folds it; what
  octets read as is the constant `Display`, which only has to tell something from nothing. What
  crates parse (Ethernet and ARP frames, BER, DNS) arrives parsed; what the code parses itself
  (DHCP options, SSDP headers, the rows' indices, the kernel's cache) is modelled. A DHCP header is
  the first check it fails. A line of the kernel's cache is complete or not and tells any MAC of the
  network or none, true of its address or not; the frames the probe hears tell the truth.
* `Settings`: a text is given, empty, or left out (its default), a scanner's switch is on, off or left
  out; the parsing of durations and addresses is the crates'. An accepted file need not start a web
  server: the key `CHANGE_ME` is refused at every request, by the check that is not modelled.
* `Status`, `Queries`: instants are numbers. Two RFC 3339 texts are compared by SQLite as texts:
  of two equal instants the one with fewer digits is the lesser, which is why `AtOrBefore` leaves
  out a row of the very instant of a bound without nanoseconds. SQL leaves ties open, so a listing
  is a set of sequences and a property must hold for each.
* `Rendering`: a line is what it says and the value it shows.

### 2.3 Constants that bound

`MaxClock`, `MaxDeletions`, `MaxChanges` and `MaxBatch` bound the instance. `MaxChanges` stops new
jobs once so many changes were raised: no job is cut off. `ScanAge` and `JobTime` are not bounds
but assumptions on time: how old a reply may be when it is processed, and how long the statements
of one sighting take (SQLite gives up waiting for a lock after 5 s, and the absence threshold is
minutes). `Fault` and `ApiOp` choose which failures and which requests a run allows.

In `Push`, `MaxAlerts` bounds the alerts and `Slot` the operations one app has in flight; `Token`
is finite, so tokens rotate until none is left. `Fault` names what may go wrong in a run.

In `Lifecycle`, `MaxAlerts` bounds the alerts, `Enabled` names the configurations, and the
receiver yields after `PacketsPerYield` packets (ten in the code). In `RelayLimit`, each call is
made once and `Time` is finite. In `Inbox`, `MaxId`, `MaxInFlight` and `MaxChanges` bound; refreshes
and answers are not counted. In `Algorithms`, `MaxLength`, `MaxKnown`, `MaxFew`,
`MaxInstant`, `MaxRows` and `MaxListed` bound the inputs; lists there are shown by pages of one or two rows.

## 3. Runs

| Run | Question | Properties |
|---|---|---|
| `alerts` | two scanners, one device that is deleted, absent and found again; failing reads, stores and inserts, sweeps, restarts | `TypeOK EventsSpaced OneAlertPerAbsence AnnouncedOncePerLifetime` |
| `grouping` | a scan of up to two devices; failures, crashes and sweeps at any point | `AlertsConserved`, and under fairness `RaisedChangesSettle` |
| `announce` | two requests delete the device anywhere in a job; everything fails but the process lives | `NewDevicesNotified` |
| `registry` | every kind of request races sightings that know no name, address or vendor | `ScannersNeverRegister DeviceTypeKept SightingsNeverErase` |
| `delivery` | two alerts and tests through a channel of one, a rotating token, a relay and a database that fail, restarts | `TypeOK AlertsAtMostOnce LiveTokensKept` |
| `lifecycle` | three configurations of a process that starts, fails, scans, delivers and is told to stop at any moment | `TypeOK OneLateScan StatusTruthful DroppedOnlyAtCapacity`, and under fairness `ShutdownCompletes ChannelDrains` |
| `relay_limit` | three calls of one source, a limit of one, instances with skewed clocks, conflicting transactions of two attempts, a commit whose answer is lost | `TypeOK AtMostLimit WindowsMoveForward`, the refinement `CountsAtomically`, and under fairness `CallsAnswered` |
| `inbox` | filters, pages, refreshes and marks with two requests under way that are late, cancelled or lost, over a table that changes | `TypeOK SettledShowsFilter NewestFirst`, and under fairness `ListConverges` |
| `algorithms` | every input up to a bound | `WholeOptionsOnly SnmpSettles ResolvedMacIsTheSenders ReportsFit AcceptedIsFollowed CountsTheLastHour TellsTheScanUnderWay PagesPartition EventsReadBack NothingPrivate SummaryAccountsForAll` |
| `push` | toggles, launches, kills and screens left, with rotations, lost and late requests and FCM errors | `ToggleTruthful` |

Why the bounds are enough. The properties of `alerts` relate two events or two changes of one
device: one MAC, two scanners (the key of the deduplication has the scanner in it, detection has
not), three instants (an event at one end of a window of 1, one at its other end, one outside it;
an absence needs 2), one deletion and three changes (new, back, new again). `grouping` needs two
devices for a group with more than one member and a batch in which one alert is stored and the
next is lost. `announce` needs two deletions: one leaves an event behind, the other lets that event
suppress. `registry` is about one step that writes a stale row, so the clock stands still, but it
needs two device types, one of a vendor and one of a user's choice. `delivery`: phones do not
interact except through the size of a batch, so one phone with three tokens (the one pruned, the
one that replaces it, and one to be over the relay's maximum of two) and two senders, the loop and
a test, that prune from different lists; two alerts over a channel of one are a delivery, a full
channel and a POST that overtakes. `push`: one phone, two tokens for a rotation, two slots for an
operation that outlives its screen and its successor; backend faults are in `delivery`.

`lifecycle`: a scanner of each kind is enough with another that is on, off or failing beside it, so
three configurations; a channel of one is full after one alert, and two alerts make one that is
dropped; a receiver that yields after two packets has a poll with and a poll without an await.
SSDP differs from mDNS in nothing this module keeps. The state space is finite for these
constants and is searched to the end. `relay_limit`: three calls make a conflict, a retry and a
commit in between; with three instants and a window of two a window ends; a limit of one refuses
the second call. Sources do not interact, so one. Answers are lost for one call
(`Unheard`), which may then count twice against the other two. `inbox`: pages of two and three ids
make a second page that fills and empties; three changes are a filter change, a mark and an arrival or
purge in any order around two requests. `algorithms`: three chunks hold an option cut in its
length, one cut in its value, and a whole one after it; three rows of a walk are a MAC at two
addresses and another MAC, and the next walk is any of up to two rows; two lines of the kernel's cache,
or one and a frame, or two frames, are a usable and an unusable line of an address, or a line that is
of no use and the reply; three rows of a table make two pages with ties across them, three calls
any pair of operations around a third.

`ToggleTruthful` says what the code can promise: `disturbed` becomes true at every failure, late
request, screen left, unheard rotation or killed operation, and false when an operation starts
with the phone to itself; a phone at rest and not disturbed shows a toggle that agrees with the
backend. Rotations the listener hears, kills between operations and any number of earlier
disturbances are no excuse.

Fairness.

* `grouping`: weak fairness of `Pipeline \/ Sweep`. A job of the main task contains no await, so
  once started it is on a thread and runs on; that is all `WF` says. Nothing is assumed of starting
  scans, of requests or of time.
* `lifecycle`: `FairCode` is tokio's and the code's part: a future that is ready is polled, and a
  random `select!` does not pass over a ready arm for ever (hence `SF` for the arms that a blocked
  receiver disables again and again); the window of a receiver ends. Nothing makes a scan start.
  `FairAnswers` is what is awaited without a race with the token: a probe and a poll (they have
  time-outs), a handler, and the answer to a delivery, which has NO time-out in the code: without
  that assumption neither liveness property holds. `FairPackets` says that packets go on arriving
  at the interface; `shutdown_quiet` drops it.
* `relay_limit`: weak fairness of each call's own steps, for an instance that serves it and a
  Firestore that answers. Arrivals, the clock and lost answers (`CommitUnheard`) are free.
* `inbox`: the timer ticks and marks are answered (`WF`); the current request is listed, counted
  and answered infinitely often if it can be (`SF`), since refreshes replace it: the timer's period
  is a minute, a request's time-out seconds. `ListConverges` asks only of a list that stays in view.

### 3.1 Statements the code does not keep

Two are runs that TLC finds violated.

| Run | Statement | What happens |
|---|---|---|
| `shutdown_quiet` | `scanners/arp/scanner.rs:21` abandons the probe immediately on shutdown rather than waiting for every host to answer or time out | `rx.next()` blocks the thread of the whole task until a packet arrives; on a quiet network the probe, and with it the process, goes on waiting |
| `toggle_left` | `settings.dart:89` the toggle reflects user intent (persisted) | push is turned on, the settings screen is left before the backend has answered, and the preference is not written: the phone is registered and its toggle off |

Others follow from single steps of the modules and need no run:

* `pipeline.rs:37` says a non-empty stored vendor wins. `Reconcile` and `Seen` show that the
  sighting's vendor wins, in the reconciliation and in the `UPDATE`.
* `README.md:207` says the deduplication compares MAC and IPv4. `RecentDuplicateExists` compares no
  address: a sighting at a new address is suppressed by the event of the old one.
* `events.rs:87` says a change is returned only once its event is recorded. `RecordEvent` has the
  branch in which the insertion fails, is logged, and the change is returned.
* `README.md:24` notifies when a new device is found. `Crash` between `InsertDevice` and
  `PersistAndDeliver` leaves a device that is known and was never announced; `announce` therefore
  runs without crashes.
* `web_server/devices.rs:25` documents the date filters as RFC 3339. `ParseDate` drops one with a
  numeric offset: `Z` is appended to it, it no longer parses, and the list is not filtered.
* `notifications_list.dart:266` says the local decrement keeps the page count accurate.
  `RemoveAndSettle` decrements also when a refresh has removed the row already and has brought a
  total without it; the next refresh mends it (`ListConverges`).
* `main.rs:76` says delivery runs on its own task. It is a future of the common one: while the ARP
  receiver waits for a packet, nothing is delivered (`Polled`).

The models also exhibit, without a run: an update of a device that another request un-registers
between check and write, a registration that overwrites another, a user's new name overwritten by
the sighting that had read the old one, and the event of a device that was deleted while its
sighting was being recorded; in `Push`, a token that rotates between `getToken` and the attachment
of the listener (unknown to the backend until the next launch), push turned off on a screen that
is left (registered again at the next launch), a late request that undoes a later toggle, and a
batch over the relay's maximum that reaches nobody. In `Lifecycle`: an ARP scanner that has ended
with an error and is shown as running, devices found by a scan whose outer time-out fires and
thrown away, and the alerts of a first scan on a narrow subnet raised before the channel exists. In
`Inbox`: a page past the end after a purge, which shows the empty message without a bar to turn
back though there is news; "mark all as read" flags a notification that arrived unseen. In
`Discovery`: a REQUEST whose option 50 is 0.0.0.0 reports that address (`ciaddr` 0.0.0.0 does not),
a vendor prefix longer than the 24 bits looked up never matches, and a complete line of the kernel's
cache that is out of date lends the MAC of the host that had the address before (`resolve_mac` cannot
tell, and `ResolvedMacIsTheSenders` allows exactly that). In `Settings`: a file is accepted that leaves
Pushover's token and key, the relay's URL or the router's address and community empty; with an empty
address the SNMP scanner is enabled and does not start (`SnmpPolls`).

## 4. Theorems

All hold for every value of the constants that satisfies the named assumptions (`DeviceAssumption`,
`NoneIsNoDevice` and `SightingsAssumption`; `DeliveryAssumption` and `PushAssumption`;
`LifecycleAssumption`; `LimiterAssumption`, `NoWindow` and `RelayAssumption`; `InboxAssumption`; in
`Algorithms` `BoundsAssumption`, `MacAssumption`, `ChunkAssumption`, `RowAssumption`,
`PacketAssumption`, `TextAssumption`, `DatabaseAssumption`, `StatusAssumption`,
`NoneAssumption`, `TableAssumption`, `EventAssumption` and `SummaryAssumption`): any
set of devices, scanners of the five, any windows; any phones, tokens, senders, capacity; any
listeners and configurations; any sources, calls, clocks, limits, numbers of attempts and lost
answers; any faults; any page size and number of notifications; any packets, walks, caches, frames,
files, histories, tables and devices. The assumptions of `Algorithms` say only what kind of thing the
inputs are: that a DHCP option is as long as its length octet says (a packet may still cut it
anywhere), that a MAC has six octets, that octets which are there read as a text that is not empty, that
the databases' vendors are among `Vendor` and none of them is the empty text, that a column holds what
the database stores in it, and that `None` is none of the values it stands beside. `PagesShowEveryDevice` and
`EventsAreReadBack` are about tables of any size shown by pages of one or two rows. One theorem assumes more:
`NewDevicesAreNotified` excludes crashes, because with them the property is false (section 3.1).

| Theorem | Says | Argument |
|---|---|---|
| `TypeCorrect` | `Spec => []TypeOK` | `TypeOK` is not inductive: a job whose `scanner` were `None` would store a nonsense event. `Shaped` says which fields a job at each `pc` has filled in; `TypeInv == TypeOK /\ Shaped(job)` is inductive. `MaxBatch` bounds `left` because `NextSighting` only counts down. |
| `EventsAreSpaced` | `Spec => []EventsSpaced` | The check and the insertion are two statements. `Checked` says that while a job is at `record`, no event of its key is inside the window that ends at `job.at`: only the main task adds events, `job.at` is not read again, and deletions and purges only remove. |
| `ScannersDoNotRegister` | `Spec => ScannersNeverRegister` | `RowInv`: the device a job is about to insert is un-registered and unowned; `seen` names neither column. |
| `DeviceTypeIsKept` | `Spec => DeviceTypeKept` | the `CASE` in `seen` looks at the stored type, not at the one read before |
| `SightingsDoNotErase` | `Spec => SightingsNeverErase` | `RowInv` keeps the reconciled device at least as complete as the row it was read from, and a row only loses an address, a vendor or a name through a request |
| `ChangesAreConserved` | `Spec => []AlertsConserved` | `AlertsConserved` speaks of one change at a time. `Ledger` adds that the places are disjoint and hold only raised changes; `Numbered`, that a new change is not among the old ones. A notification takes over a whole group of the job's changes, and the groups partition them. |
| `NewDevicesAnnouncedOnce` | `Spec => []AnnouncedOncePerLifetime` | `OncePerInsertion` counts: a stored row pays for one announcement, a deletion moves that payment to `deletions`. While a job is about to announce, one payment is still open, whoever deletes the row meanwhile. |
| `NewDevicesAreNotified` | without crashes, `Spec => []NewDevicesNotified` | the announcement may be suppressed as a duplicate. `AnnouncedInv`: an event of type `new_device` that is on record has announced the device in its present life, since a deletion takes the events along; so what suppresses has announced. |
| `AbsencesReportedOnce` | `Spec => []OneAlertPerAbsence` | an absence is named by the `last_seen` it was computed from. `RowsInv`: each row has moved past every absence reported of its device; `JobInv` says the same of the row a job has read and is about to write or report. A scan older than `AbsenceThreshold`, or a job slower than it, would break this, hence the property's hypothesis. |
| `PushTypesCorrect` | `Spec => []TypeOK` of `Push` | by induction over all steps; the channel never holds more than its capacity |
| `LiveTokensAreKept` | `Spec => LiveTokensKept` | a call may prune long after it was told what is dead. `Known` follows the tokens: all were minted, and what a call holds as dead is not live. A live token can only be a new one, and a new one is in nobody's list. |
| `ToggleIsTruthful` | `Spec => []ToggleTruthful` | by `ToggleInv`. `Calm` is what a phone that is not disturbed looks like: at rest the preference and the backend agree, and `Midway` says for each pc of its only operation how far it has come. It needs to know which operations there can be (`Screens`), that no request carries another phone's token (`OwnTokens`), and that an operation waits for one answer, that of its own request (`Answered`). |
| `LifecycleTypeCorrect` | `Spec => []TypeOK` of `Lifecycle` | together with the fact that the channel holds only alerts that were raised |
| `AtMostOneLateScan` | `Spec => []OneLateScan` | `LateInv`: a scanner that began a scan after the signal has left, or holds the task with a `select!` that has passed the cancelled token over once |
| `StatusIsTruthful` | `Spec => []StatusTruthful` | `StatusInv` adds what holds before `main` spawns: nothing runs and nothing is shown |
| `AlertsDroppedOnlyAtCapacity` | `Spec => DroppedOnlyAtCapacity` | before the delivery loop is first polled the channel does not exist. `WideInv`: on a wide subnet the sender sleeps first, so by the time the receiver holds the task every future has been polled |
| `AlertsOnce` | `Spec => []AlertsAtMostOnce` | an alert is in one place only: the channel, the loop's call, a stray POST, or a phone (`Apart`). It moves along that chain and never back, and new alerts have new numbers (`Raised`). |
| `RelayTypeCorrect` | `Spec => []TypeOK` of `RelayLimit` | part of `Inv` below; a retry is counted before it is made, so `attempts` stays below `MaxAttempts` |
| `RelayedAtMostLimit` | `Spec => []AtMostLimit` | counted calls of one source and window have different counts (`Apart`), since none is ahead of the document (`NotAhead`) and a commit goes one beyond it. Those that reached FCM have counts in `1..Limit`, so there are at most `Limit`: an injection into an interval. |
| `WindowNeverMovesBack` | `Spec => WindowsMoveForward` | `nextWindow` opens a new window only `windowMs` after the old one, and a commit computes from the document it replaces |
| `TransactionsAreAtomic` | `Spec => CountsAtomically` | the refinement: a `Commit` is a `Hit`, because what it read is what it replaces and it has no verdict yet (`VerdictFits`); a `CommitUnheard` is a `HitUnheard`; `StoreThrows` is a `Fail`; every other step stutters |
| `InboxTypesCorrect` | `Spec => []TypeOK` of `Inbox` | part of `InboxInv` below; that a page merged into the list still has at most `PageSize` rows needs `ReconcileGivesWhatCame` |
| `RowsAreNewestFirst` | `Spec => []NewestFirst` | `ReconcileGivesWhatCame`: rows removed, updated and inserted one by one come out as the page that came, provided both are in order. Row by row: after `i` turns the first `i` rows are those of the page and the rest are the old ones below them (`PlaceKeepsMerging`) |
| `SettledListFits` | `Spec => []SettledShowsFilter` | `Asked`: an answer's rows fit the filter it was asked with, and the current request asks with the filter selected. `Shows`: what is on screen fits it, or a request or an error says otherwise |
| `PacketsAreReadWhole` | `Spec => []WholeOptionsOnly` | `LaidOut` places the chunks in the packet. By induction over the turns of the walk, the first `n` turns read the first `n` chunks (`WalkReads`), until an END, the end of the packet or a chunk that is cut off (`StopsThere`); there the walk rests (`WalkRests`) |
| `ScansSettle` | `Spec => []SnmpSettles` | `SettledAreListed` and `DedupSettles`: the addresses are ordered (`Below` is total on octets), so there is a lowest among the candidates of a MAC, and what is chosen is one of them; an address on record that is a candidate is chosen again |
| `ListenersCountTheLastHour` | `Spec => []CountsTheLastHour` | by induction over the calls: what `Pruned` has dropped is older than the window at every later question, since questions come in order of time |
| `ScannersTellTheScan` | `Spec => []TellsTheScanUnderWay` | by induction over the calls: each field says what the latest call of one kind said |
| `PagesShowEveryDevice` | `Spec => []PagesPartition` | a listing is a permutation of the rows that match, in an order that `DeviceBefore` admits; each place is on one page (`PlacesAreOnPages`). What stands on a later page, or further down on the same answer, stands at a later place (`PagesFollow`), so it is not before (`LaterDevicesFit`) |
| `EventsAreReadBack` | `Spec => []EventsReadBack` | the same, and the texts of types and scanners are read back as what was stored (`TextsAreReadBack`) |
| `SummariesAccountForAll` | `Spec => []SummaryAccountsForAll` | the devices named are a prefix, and the number of the rest is that of what is behind it |
| `MacsAreTheSenders` | `Spec => []ResolvedMacIsTheSenders` | `ResolvesTruly`, for any cache and frames: a search that succeeds ends at the least index that fits, which exists because the naturals are well founded (`LeastIsIn`), and the line or frame there names the address asked for; a line that lends its MAC is complete and has one (`LineFound`). When no line can be used the search goes on to the frames, and finds the reply if there is one (`ReplyIsFound`) |
| `ReportsAreFit` | `Spec => []ReportsFit` | per scanner. An address and a name are parts of what was sent (`PartOf`, through the DHCP option's cut, both trims and the last four numbers of an SNMP index), and no such part reads as the empty text; the MAC is one of the network (`ToldMacs`, `ArpTableIs`). `VendorDeduced` follows `deduce_vendor` to the vendors `Devices` allows for that scanner, and `ReportFits` shows the row to be the one `BuildDevice` builds |
| `AcceptedFilesAreFollowed` | `Spec => []AcceptedIsFollowed` | `LoadedIsFollowed`: an accepted file left out only `Options`, `Validate` ties one of them to the method, and a key is the file's or its default (`FilledAt`), for the relay (`RelayIsFollowed`) as for the router (`PollingIsFollowed`) |
| `AlertsTellNothingPrivate` | `Spec => []NothingPrivate` | `TextsTellTheSame`: every text is a function of fields in which the two devices agree (`Alike`) |

The inductive invariant of the four theorems about `RelayLimit` is `Inv`: types, the verdict each
handler may have at its `pc` (`VerdictFits`), `NotAhead` and `Apart`. The limit and the refinement are
not inductive alone: without `NotAhead` a commit could repeat a count, and without the pc's
verdict a call could be counted twice.

The inductive invariant of the three theorems about `Inbox` is `InboxInv`: types, the order of the rows
on screen and in answers (`Ordered`), one current request at most (`OneCurrent`), `Asked` and `Shows`.
The order of the rows is not inductive without that of the answers, nor is the filter without what each
request was asked for.

The provers cannot instantiate the library's theorems on induction, which take a predicate as a
parameter. `Induction` in `OrderProofs` takes a SET of numbers instead: if it holds 0 and with each number
the next, it is `Nat`. It follows from the naturals being well founded, and everything about sequences
of any length and about recursive functions rests on it.

Only model-checked: `RaisedChangesSettle`, `ShutdownCompletes`, `ChannelDrains`, `CallsAnswered` and
`ListConverges`. They are liveness properties under fairness, which the prover does not handle.

## 5. Plan

1. `Devices`, `Sightings`, `Delivery`, `Push`, `Lifecycle`, `RateLimiter` and `RelayLimit`, `Inbox`, and the
   pure modules under `Algorithms` are done.
2. Proved: every invariant and every action property that a run checks. To prove
   next: that the pipeline's ledger implements an abstract one (a change is pending, told or lost,
   and moves only forward).
3. To model next: the composition of `Sightings` and `Lifecycle` at the channel with rows and
   alerts at once, which needs a smaller store; several views of the app's lists.

## 6. Not modelled

* The web server's routing, OpenAPI document and bearer check, the schema `init_db` creates, and
  the dashboard's summary (five counts): they keep no state and relate no two.
* `polled_value.dart` and `backend_reachability.dart`: a value and a timer; the one race, a late
  answer, is settled by the token guard that `Inbox` models around a list.
* The device list and the event history of the app share `runFetch` with the notifications list
  and do less; they are not instantiated.
* Wording and layout of notifications, themes, screens, forms, deployment files.
* Pushover's and FCM's services, the parsers of third-party crates, the SNMP walk: external, seen
  only through how the code uses them.
