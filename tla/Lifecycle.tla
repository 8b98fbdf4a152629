------------------------------ MODULE Lifecycle ------------------------------
(***************************************************************************)
(* One run of the backend process: settings, database, the eight futures   *)
(* that main.rs joins, the termination signal, and the exit.  join! polls  *)
(* all eight in ONE task, for the first time in the order they are listed; *)
(* a future runs from one await to the next, so one action here is one     *)
(* poll.  The exception is listen_for_packets, which waits for a packet    *)
(* without an await: while it does, no other future is polled.  The signal *)
(* handler and the HTTP handlers run on threads of their own.              *)
(***************************************************************************)
EXTENDS Naturals, Sequences, SequencesExt

CONSTANTS
    Passive,            \* the listeners looked at: all, or some of PassiveScanner
    Connection,         \* HTTP connections that can be open at once
    PacketsPerYield,    \* listen_for_packets awaits after so many packets
    QueueCapacity,      \* DELIVERY_QUEUE_CAPACITY
    MaxAlerts,          \* bound: alerts raised
    Enabled,            \* bound: the sets of scanners a configuration switches on
    Fault               \* what may fail (see FaultKind)

PassiveScanner == {"mdns", "ssdp", "dhcp"}
FaultKind == {"settings", "database", "interface", "target", "socket", "bind",
              "receive"}

ASSUME LifecycleAssumption ==
    /\ Passive \subseteq PassiveScanner
    /\ {PacketsPerYield, QueueCapacity} \subseteq Nat \ {0}
    /\ MaxAlerts \in Nat
    /\ Enabled \subseteq SUBSET (Passive \cup {"arp", "snmp"})
    /\ Fault \subseteq FaultKind

Active  == {"arp", "snmp"}
Scanner == Active \cup Passive
Task    == Scanner \cup {"web", "retention", "delivery"}

(* The order of the futures in join!. *)
Joined == <<"arp", "mdns", "ssdp", "dhcp", "snmp", "web", "retention", "delivery">>

VARIABLES
    config,     \* the settings, and the size of the subnet
    phase,      \* the process: "boot", "running", "failed" or "exited"
    pc,         \* the await each future stands at
    cancelled,  \* the shutdown token
    probe,      \* the local variables of find and listen_for_packets
    status,     \* what each scanner's STATUS says
    queue,      \* the delivery channel: numbered alerts
    raised,     \* how many alerts were raised
    sent,       \* history: the alerts the loop has taken
    conns,      \* open HTTP connections
    late        \* history: scans each active scanner began after the signal

alerts == <<queue, raised, sent>>
vars   == <<config, phase, pc, cancelled, probe, status, alerts, conns, late>>

(* SNMP is off without its section, and does not start without a target. *)
Config == [on: Enabled, wide: BOOLEAN, posts: BOOLEAN, valid: BOOLEAN]

(* The receiver has run for 0, 1 or 2 times scan_duration; the packets since it last
   yielded; it has found devices; its select was last polled with the token cancelled. *)
Probe   == [elapsed: 0..2, packets: 0..PacketsPerYield - 1, found: BOOLEAN, last: BOOLEAN]
NoProbe == [elapsed |-> 0, packets |-> 0, found |-> FALSE, last |-> FALSE]

PC == {"new", "send", "receive", "pause", "poll", "sleep", "listen", "resolve",
       "serve", "drain", "recv", "deliver", "done"}

TypeOK ==
    /\ config \in Config
    /\ phase \in {"boot", "running", "failed", "exited"}
    /\ pc \in [Task -> PC]
    /\ cancelled \in BOOLEAN
    /\ probe \in Probe
    /\ status \in [Scanner -> {"off", "running", "waiting", "listening"}]
    /\ queue \in Seq(1..MaxAlerts) /\ Len(queue) <= QueueCapacity
    /\ raised \in 0..MaxAlerts /\ sent \subseteq 1..raised
    /\ conns \subseteq Connection
    /\ late \in [Active -> Nat]

Init ==
    /\ config \in Config
    /\ config.valid \/ "settings" \in Fault
    /\ phase = "boot"
    /\ pc = [t \in Task |-> "new"]
    /\ cancelled = FALSE
    /\ probe = NoProbe
    /\ status = [s \in Scanner |-> "off"]
    /\ queue = <<>> /\ raised = 0 /\ sent = {}
    /\ conns = {}
    /\ late = [s \in Active |-> 0]
-----------------------------------------------------------------------------
(* settings::init unwraps what Settings::new and validate say; init_db's error ends
   main.  Only then are there a signal handler and futures. *)
Boot ==
    /\ phase = "boot"
    /\ \/ phase' = "failed" /\ (~config.valid \/ "database" \in Fault)
       \/ phase' = "running" /\ config.valid
    /\ UNCHANGED <<config, pc, cancelled, probe, status, alerts, conns, late>>

(* watch_for_signals: the first SIGINT or SIGTERM. *)
Signal ==
    /\ phase = "running" /\ ~cancelled
    /\ cancelled' = TRUE
    /\ UNCHANGED <<config, phase, pc, probe, status, alerts, conns, late>>

(* Every future has ended: db::close, whose error is only logged. *)
Exit ==
    /\ phase = "running" /\ \A t \in Task : pc[t] = "done"
    /\ phase' = "exited"
    /\ UNCHANGED <<config, pc, cancelled, probe, status, alerts, conns, late>>

(* The main task can poll t: the ARP receiver does not hold its thread, and the
   first polls come first, in order. *)
Before(t, u) == \E i, j \in 1..Len(Joined) : i < j /\ Joined[i] = t /\ Joined[j] = u

Polled(t) ==
    /\ phase = "running" /\ pc["arp"] # "receive"
    /\ \A u \in Task : pc[u] = "new" => u = t \/ (pc[t] = "new" /\ Before(t, u))

GoTo(t, place) == pc' = [pc EXCEPT ![t] = place]

(* Mutant: the delivery loop awaits the next request only. *)
StopAllButDelivery(t) ==
    /\ Polled(t) /\ cancelled
    /\ pc[t] \in {"send", "pause", "poll", "sleep", "listen"}
    /\ GoTo(t, "done")
    /\ probe' = IF t = "arp" THEN NoProbe ELSE probe
    /\ UNCHANGED <<config, phase, cancelled, status, alerts, conns, late>>

(* The select of every loop: once the token is cancelled its arm is ready, but which
   ready arm is taken is random. *)
Stop(t) ==
    /\ Polled(t) /\ cancelled
    /\ pc[t] \in {"send", "pause", "poll", "sleep", "listen", "recv"}
    /\ GoTo(t, "done")
    /\ probe' = IF t = "arp" THEN NoProbe ELSE probe
    /\ UNCHANGED <<config, phase, cancelled, status, alerts, conns, late>>

Disabled(t) ==
    /\ Polled(t) /\ pc[t] = "new" /\ t \in Scanner \ config.on
    /\ GoTo(t, "done")
    /\ UNCHANGED <<config, phase, cancelled, probe, status, alerts, conns, late>>
-----------------------------------------------------------------------------
(* Mutant: the channel has no bound. *)
CanQueueAny == pc["delivery"] \notin {"new", "done"}

(* notify and enqueue: the alert is dropped when the channel is full, and when the
   loop has not made the channel yet or has ended. *)
CanQueue == Len(queue) < QueueCapacity /\ pc["delivery"] \notin {"new", "done"}

Notify(news) ==
    \/ UNCHANGED alerts
    \/ /\ news /\ raised < MaxAlerts
       /\ raised' = raised + 1
       /\ queue' = IF CanQueue THEN Append(queue, raised + 1) ELSE queue
       /\ sent' = sent

(* Mutant: the sleep between two scans is not raced with the token. *)
ScanDoneAsleep(s, news) ==
    /\ Notify(news)
    /\ status' = [status EXCEPT ![s] = "waiting"]
    /\ GoTo(s, "sleep")
    /\ probe' = IF s = "arp" THEN NoProbe ELSE probe

(* A scan of either active scanner has ended with a result: record_scan, the
   pipeline, the alerts, set_waiting, and the first poll of the sleep's select. *)
ScanDone(s, news) ==
    /\ Notify(news)
    /\ status' = [status EXCEPT ![s] = "waiting"]
    /\ GoTo(s, IF cancelled THEN "done" ELSE "sleep")
    /\ probe' = IF s = "arp" THEN NoProbe ELSE probe

(* Mutant: the sender never awaits. *)
BeginArpAtOnce ==
    /\ Polled("arp") /\ pc["arp"] \in {"new", "sleep"} /\ "arp" \in config.on
    /\ status' = [status EXCEPT !["arp"] = "running"]
    /\ late' = [late EXCEPT !["arp"] = IF cancelled THEN @ + 1 ELSE @]
    /\ GoTo("arp", "receive") /\ probe' = [NoProbe EXCEPT !.last = cancelled]
    /\ UNCHANGED <<config, phase, cancelled, alerts, conns>>

(* find: no interface, address, MAC or channel ends the scanner with its status as it
   is; a wide subnet makes send_packet sleep, a narrow one is asked without an await. *)
BeginArp ==
    /\ Polled("arp") /\ pc["arp"] \in {"new", "sleep"} /\ "arp" \in config.on
    /\ status' = [status EXCEPT !["arp"] = "running"]
    /\ late' = [late EXCEPT !["arp"] = IF cancelled THEN @ + 1 ELSE @]
    /\ \/ /\ GoTo("arp", "done") /\ probe' = probe
          /\ cancelled \/ "interface" \in Fault
       \/ /\ GoTo("arp", IF config.wide THEN "send" ELSE "receive")
          /\ config.wide => ~cancelled
          /\ probe' = [NoProbe EXCEPT !.last = cancelled]
    /\ UNCHANGED <<config, phase, cancelled, alerts, conns>>

(* The sender's or the receiver's millisecond is over: the next rx.next(), unless the
   window closed meanwhile. *)
ResumeArp ==
    /\ Polled("arp") /\ pc["arp"] \in {"send", "pause"}
    /\ IF probe.elapsed > 0
       THEN ScanDone("arp", probe.found)
       ELSE /\ GoTo("arp", "receive")
            /\ probe' = [probe EXCEPT !.last = cancelled]
            /\ UNCHANGED <<status, alerts>>
    /\ UNCHANGED <<config, phase, cancelled, conns, late>>

(* Every so many packets the receiver yields, and only then does the outer timeout,
   twice the window, look at the clock: it throws away what was found.  The probe is
   pending, and the other arm of its select is polled after it or was before it. *)
YieldArp(seen) ==
    \/ probe.elapsed = 2 /\ ScanDone("arp", FALSE)
    \/ /\ probe.elapsed < 2
       /\ UNCHANGED <<status, alerts>>
       /\ \/ cancelled /\ GoTo("arp", "done") /\ probe' = NoProbe
          \/ /\ ~probe.last /\ GoTo("arp", "pause")
             /\ probe' = [probe EXCEPT !.packets = 0, !.found = seen]

(* rx.next() returns; unless the receiver yields, it looks at the window next. *)
Packet ==
    /\ phase = "running" /\ pc["arp"] = "receive"
    /\ \E seen \in {probe.found, TRUE} :
          IF probe.packets + 1 = PacketsPerYield THEN YieldArp(seen)
          ELSE IF probe.elapsed > 0 THEN ScanDone("arp", seen)
          ELSE /\ probe' = [probe EXCEPT !.packets = @ + 1, !.found = seen]
               /\ UNCHANGED <<pc, status, alerts>>
    /\ UNCHANGED <<config, phase, cancelled, conns, late>>

(* rx.next() fails: it is called again until the window is over. *)
PacketError ==
    /\ "receive" \in Fault
    /\ phase = "running" /\ pc["arp"] = "receive" /\ probe.elapsed > 0
    /\ ScanDone("arp", probe.found)
    /\ UNCHANGED <<config, phase, cancelled, conns, late>>

Elapse ==
    /\ phase = "running" /\ pc["arp"] \in {"receive", "pause"} /\ probe.elapsed < 2
    /\ probe' = [probe EXCEPT !.elapsed = @ + 1]
    /\ UNCHANGED <<config, phase, pc, cancelled, status, alerts, conns, late>>
-----------------------------------------------------------------------------
(* A poll that is pending lets the other arm have its turn; a target that is no
   address fails at once. *)
BeginSnmp ==
    /\ Polled("snmp") /\ pc["snmp"] \in {"new", "sleep"} /\ "snmp" \in config.on
    /\ late' = [late EXCEPT !["snmp"] = IF cancelled THEN @ + 1 ELSE @]
    /\ \/ /\ GoTo("snmp", IF cancelled THEN "done" ELSE "poll")
          /\ status' = [status EXCEPT !["snmp"] = "running"] /\ UNCHANGED <<alerts, probe>>
       \/ "target" \in Fault /\ ScanDone("snmp", FALSE)
    /\ UNCHANGED <<config, phase, cancelled, conns>>

(* The walk is answered, or fails or times out, which is only logged. *)
PollEnds ==
    /\ Polled("snmp") /\ pc["snmp"] = "poll"
    /\ \E answered \in BOOLEAN : ScanDone("snmp", answered)
    /\ UNCHANGED <<config, phase, cancelled, conns, late>>

(* Mutant: set_listening comes before open_socket. *)
StartListeningEarly(s) ==
    /\ Polled(s) /\ s \in Passive /\ pc[s] = "new" /\ s \in config.on
    /\ \/ "socket" \in Fault /\ GoTo(s, "done")
       \/ GoTo(s, "listen")
    /\ status' = [status EXCEPT ![s] = "listening"]
    /\ UNCHANGED <<config, phase, cancelled, probe, alerts, conns, late>>

(* open_socket's error ends a listener before set_listening. *)
StartListening(s) ==
    /\ Polled(s) /\ s \in Passive /\ pc[s] = "new" /\ s \in config.on
    /\ \/ "socket" \in Fault /\ GoTo(s, "done") /\ status' = status
       \/ GoTo(s, "listen") /\ status' = [status EXCEPT ![s] = "listening"]
    /\ UNCHANGED <<config, phase, cancelled, probe, alerts, conns, late>>

(* A packet names a device, whose MAC is in it (DHCP) or in the system's cache. *)
Hear(s) ==
    /\ Polled(s) /\ s \in Passive /\ pc[s] = "listen"
    /\ Notify(TRUE)
    /\ UNCHANGED <<config, phase, pc, cancelled, probe, status, conns, late>>

(* Or it has to be asked for on the blocking pool; the wait is not raced with the
   token, and ends by itself after probe_timeout. *)
Resolve(s) ==
    /\ Polled(s) /\ s \in Passive \ {"dhcp"} /\ pc[s] = "listen"
    /\ GoTo(s, "resolve")
    /\ UNCHANGED <<config, phase, cancelled, probe, status, alerts, conns, late>>

Resolved(s) ==
    /\ Polled(s) /\ pc[s] = "resolve"
    /\ \E known \in BOOLEAN : Notify(known)
    /\ GoTo(s, "listen")
    /\ UNCHANGED <<config, phase, cancelled, probe, status, conns, late>>
-----------------------------------------------------------------------------
(* serve: a port that cannot be bound ends it; the process goes on. *)
StartWeb ==
    /\ Polled("web") /\ pc["web"] = "new"
    /\ \/ GoTo("web", "serve")
       \/ "bind" \in Fault /\ GoTo("web", "done")
    /\ UNCHANGED <<config, phase, cancelled, probe, status, alerts, conns, late>>

Accept(c) ==
    /\ Polled("web") /\ pc["web"] = "serve" /\ c \notin conns
    /\ conns' = conns \cup {c}
    /\ UNCHANGED <<config, phase, pc, cancelled, probe, status, alerts, late>>

(* A handler runs on a thread of its own and ends there. *)
Close(c) ==
    /\ phase = "running" /\ c \in conns
    /\ conns' = conns \ {c}
    /\ UNCHANGED <<config, phase, pc, cancelled, probe, status, alerts, late>>

(* with_graceful_shutdown: no more connections, then those that are open. *)
Drain ==
    /\ Polled("web")
    /\ \/ pc["web"] = "serve" /\ cancelled /\ GoTo("web", "drain")
       \/ pc["web"] = "drain" /\ conns = {} /\ GoTo("web", "done")
    /\ UNCHANGED <<config, phase, cancelled, probe, status, alerts, conns, late>>

(* The sweep itself is a job of module Sightings. *)
SweepThenSleep ==
    /\ Polled("retention") /\ pc["retention"] \in {"new", "sleep"}
    /\ GoTo("retention", IF cancelled THEN "done" ELSE "sleep")
    /\ UNCHANGED <<config, phase, cancelled, probe, status, alerts, conns, late>>

StartDelivery ==
    /\ Polled("delivery") /\ pc["delivery"] = "new"
    /\ GoTo("delivery", "recv")
    /\ UNCHANGED <<config, phase, cancelled, probe, status, alerts, conns, late>>

(* deliver: logging ends at once, a POST or the blocking pool is awaited. *)
TakeRequest ==
    /\ Polled("delivery") /\ pc["delivery"] = "recv" /\ queue # <<>>
    /\ queue' = Tail(queue) /\ sent' = sent \cup {Head(queue)}
    /\ GoTo("delivery", IF config.posts THEN "deliver" ELSE "recv")
    /\ UNCHANGED <<config, phase, cancelled, probe, status, raised, conns, late>>

(* Mutant: a delivery that failed ends the loop. *)
DeliveredOrEnds ==
    /\ Polled("delivery") /\ pc["delivery"] = "deliver"
    /\ \E next \in {"recv", "done"} : GoTo("delivery", next)
    /\ UNCHANGED <<config, phase, cancelled, probe, status, alerts, conns, late>>

Delivered ==
    /\ Polled("delivery") /\ pc["delivery"] = "deliver"
    /\ GoTo("delivery", "recv")
    /\ UNCHANGED <<config, phase, cancelled, probe, status, alerts, conns, late>>
-----------------------------------------------------------------------------
Listen(s) == StartListening(s) \/ Hear(s) \/ Resolve(s) \/ Resolved(s)

Next ==
    \/ Boot \/ Signal \/ Exit
    \/ \E t \in Task : Stop(t) \/ Disabled(t)
    \/ BeginArp \/ ResumeArp \/ Packet \/ PacketError \/ Elapse
    \/ BeginSnmp \/ PollEnds
    \/ \E s \in Passive : Listen(s)
    \/ StartWeb \/ Drain \/ \E c \in Connection : Accept(c) \/ Close(c)
    \/ SweepThenSleep
    \/ StartDelivery \/ TakeRequest \/ Delivered

Spec == Init /\ [][Next]_vars

Begin(t) ==
    /\ pc[t] = "new"
    /\ \/ Disabled(t) \/ StartListening(t)
       \/ t = "arp" /\ BeginArp
       \/ t = "snmp" /\ BeginSnmp
       \/ t = "web" /\ StartWeb
       \/ t = "retention" /\ SweepThenSleep
       \/ t = "delivery" /\ StartDelivery

(* What the code and tokio see to: a future that can be polled is polled, whatever the
   receiver does in between, and a random select does not pass over a ready arm for
   ever.  Timers between two scans may take as long as they like. *)
FairCode ==
    /\ WF_vars(Boot \/ Exit \/ \E t \in Task : Begin(t))
    /\ SF_vars(\E t \in Task : Stop(t))
    /\ WF_vars(ResumeArp) /\ WF_vars(Elapse)
    /\ SF_vars(Drain) /\ SF_vars(TakeRequest)

(* What is awaited without a race with the token ends: a probe and an SNMP poll by
   their timeouts, an HTTP handler, a delivery when the relay or Pushover answers. *)
FairAnswers ==
    /\ SF_vars(PollEnds \/ \E s \in Passive : Resolved(s))
    /\ SF_vars(Delivered)
    /\ WF_vars(\E c \in conns : Close(c))

(* Now and then a packet passes the interface. *)
FairPackets == WF_vars(Packet)

QuietSpec == Spec /\ FairCode /\ FairAnswers
FairSpec  == QuietSpec /\ FairPackets
-----------------------------------------------------------------------------
(* main.rs "every long-running task below watches it and winds down at its next safe
   point": after a signal, whatever the eight futures are doing and whichever scanners
   are off or have failed, the process closes its database and exits.  Needed: the
   relay answers and packets arrive. *)
ShutdownCompletes == cancelled ~> phase = "exited"

(* run_delivery: however busy the ARP receiver keeps the task, the channel empties
   once no more alerts are raised, unless the process is told to stop. *)
ChannelDrains == queue # <<>> ~> queue = <<>> \/ cancelled

(* enqueue: on a wide subnet an alert is dropped only because the channel is full or
   the loop has ended; none is raised before the loop has made the channel. *)
DroppedOnlyAtCapacity ==
    [][/\ config.wide /\ raised' # raised /\ raised' \notin ToSet(queue')
       => Len(queue) = QueueCapacity \/ pc["delivery"] = "done"]_vars

(* The selects of both active scanners: a signal that comes at any moment lets at most
   one more scan begin. *)
OneLateScan == \A s \in Active : late[s] <= 1

(* The status records: until a signal comes, what the settings screen shows of a
   listener or of SNMP is what its future does: a listener without a socket is off, a
   poll that failed is waited after.  ARP is not covered: an error of find ends its
   future with its status left at running. *)
StatusTruthful ==
    phase = "running" /\ ~cancelled =>
        \A s \in Scanner \ {"arp"} :
            /\ status[s] = "running"   <=> pc[s] = "poll"
            /\ status[s] = "waiting"   <=> pc[s] = "sleep"
            /\ status[s] = "listening" <=> pc[s] \in {"listen", "resolve"}

(* scanner.rs "abandoning the probe immediately on shutdown rather than waiting for
   every host to answer": not when no packet arrives. *)
ProbeAbandoned == cancelled ~> pc["arp"] = "done"
=============================================================================
