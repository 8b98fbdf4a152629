---------------------------- MODULE LifecycleProofs ----------------------------
(***************************************************************************)
(* Theorems about one run of the backend process, for all listeners,       *)
(* configurations, bounds and faults: what its state may be, what a signal *)
(* still lets begin, what the settings screen shows, and when an alert is  *)
(* dropped.                                                                *)
(***************************************************************************)
EXTENDS Lifecycle, TLAPS

(* An alert in the channel was raised: without it the history sent has no type. *)
TypeInv == TypeOK /\ queue \in Seq(1..raised)

(* A late ARP scan has left, or holds the task with a select that the token already
   lost to once; a late SNMP poll is abandoned in the step that begins it. *)
LateInv ==
    /\ late["arp"] = 0
       \/ /\ late["arp"] = 1 /\ cancelled
          /\ pc["arp"] = "done" \/ (pc["arp"] = "receive" /\ probe.last)
    /\ late["snmp"] = 0 \/ (late["snmp"] = 1 /\ cancelled /\ pc["snmp"] = "done")

(* Before main spawns anything nothing runs and nothing is shown. *)
StatusInv ==
    /\ phase = "boot" =>
           \A s \in Scanner : pc[s] = "new" /\ status[s] = "off"
    /\ StatusTruthful

(* A wide subnet makes the sender sleep first, so the other futures have been polled
   once by the time the receiver holds the task. *)
WideInv ==
    config.wide /\ pc["arp"] = "receive" => \A t \in Task : pc[t] # "new"
-----------------------------------------------------------------------------
(***************************************************************************)
(* Types.                                                                  *)
(***************************************************************************)
LEMMA Futures ==
    /\ Active \subseteq Scanner /\ Passive \subseteq Scanner /\ Scanner \subseteq Task
    /\ {"arp", "snmp", "web", "retention", "delivery"} \subseteq Task
    /\ {"web", "retention", "delivery"} \cap Scanner = {}
    /\ Active \cap Passive = {} /\ Active = {"arp", "snmp"}
BY LifecycleAssumption DEF Active, Scanner, Task, PassiveScanner

AlertsType ==
    /\ raised \in 0..MaxAlerts /\ sent \subseteq 1..raised
    /\ queue \in Seq(1..raised) /\ Len(queue) <= QueueCapacity

LEMMA WiderSeq ==
    ASSUME NEW S, NEW T, S \subseteq T, NEW q \in Seq(S)
    PROVE  q \in Seq(T)
OBVIOUS

LEMMA QueueType ==
    ASSUME NEW n \in 0..MaxAlerts, NEW q \in Seq(1..n)
    PROVE  q \in Seq(1..MaxAlerts)
<1>1. 1..n \subseteq 1..MaxAlerts
  BY LifecycleAssumption
<1> QED BY <1>1, WiderSeq

LEMMA NotifyType ==
    ASSUME AlertsType, NEW news, Notify(news)
    PROVE  AlertsType'
<1>1. CASE UNCHANGED alerts
  BY <1>1 DEF AlertsType, alerts
<1>2. CASE /\ raised < MaxAlerts /\ raised' = raised + 1 /\ sent' = sent
           /\ queue' = IF CanQueue THEN Append(queue, raised + 1) ELSE queue
  <2> DEFINE ids == 1..(raised + 1)
  <2>1. /\ raised \in Nat /\ raised' \in 0..MaxAlerts
        /\ 1..raised \subseteq ids /\ raised + 1 \in ids
    BY <1>2, LifecycleAssumption DEF AlertsType
  <2>2. queue \in Seq(ids) /\ sent \subseteq ids
    BY <2>1 DEF AlertsType
  <2> HIDE DEF ids
  <2>3. Append(queue, raised + 1) \in Seq(ids)
    BY <2>1, <2>2
  <2>4. Len(Append(queue, raised + 1)) = Len(queue) + 1 /\ Len(queue) \in Nat
    BY <2>2
  <2>5. queue' \in Seq(ids) /\ Len(queue') <= QueueCapacity
    BY <1>2, <2>2, <2>3, <2>4, LifecycleAssumption DEF AlertsType, CanQueue
  <2> QED BY <1>2, <2>1, <2>2, <2>5 DEF AlertsType, ids
<1> QED BY <1>1, <1>2 DEF Notify

LEMMA NoProbeType ==
    /\ NoProbe \in Probe
    /\ \A b \in BOOLEAN : [NoProbe EXCEPT !.last = b] \in Probe
<1>1. 0 \in 0..PacketsPerYield - 1 /\ 0 \in 0..2
  BY LifecycleAssumption
<1> QED BY <1>1 DEF NoProbe, Probe

(* The part of the state that a scan's end touches. *)
ScanType ==
    /\ pc \in [Task -> PC] /\ probe \in Probe /\ AlertsType
    /\ status \in [Scanner -> {"off", "running", "waiting", "listening"}]

LEMMA ScanDoneType ==
    ASSUME ScanType, NEW s \in Active, NEW news, ScanDone(s, news)
    PROVE  ScanType'
<1>1. pc' \in [Task -> PC]
  BY Futures DEF ScanDone, GoTo, ScanType, PC
<1>2. status' \in [Scanner -> {"off", "running", "waiting", "listening"}]
  BY Futures DEF ScanDone, ScanType
<1>3. probe' \in Probe
  BY NoProbeType DEF ScanDone, ScanType
<1>4. AlertsType'
  BY NotifyType DEF ScanDone, ScanType
<1> QED BY <1>1, <1>2, <1>3, <1>4 DEF ScanType

LEMMA GoToType ==
    ASSUME pc \in [Task -> PC], NEW t, NEW place \in PC, GoTo(t, place)
    PROVE  pc' \in [Task -> PC]
BY DEF GoTo

LEMMA TypeInit == Init => TypeInv
<1> SUFFICES ASSUME Init PROVE TypeInv
  OBVIOUS
<1>1. AlertsType
  BY LifecycleAssumption DEF Init, AlertsType
<1>3. queue \in Seq(1..MaxAlerts)
  BY DEF Init
<1>2. probe \in Probe
  BY NoProbeType DEF Init
<1>4. config \in Config /\ pc \in [Task -> PC]
  BY DEF Init, PC
<1> QED BY <1>1, <1>2, <1>3, <1>4 DEF Init, TypeInv, TypeOK, AlertsType

LEMMA TypeStep == TypeInv /\ [Next]_vars => TypeInv'
<1> SUFFICES ASSUME TypeInv, [Next]_vars PROVE TypeInv'
  OBVIOUS
<1> USE DEF alerts
<1>0. /\ config \in Config /\ phase \in {"boot", "running", "failed", "exited"}
      /\ pc \in [Task -> PC] /\ cancelled \in BOOLEAN /\ probe \in Probe
      /\ status \in [Scanner -> {"off", "running", "waiting", "listening"}]
      /\ conns \subseteq Connection /\ late \in [Active -> Nat]
      /\ AlertsType /\ ScanType
  BY DEF TypeInv, TypeOK, AlertsType, ScanType
(* Each action changes a few of these; the rest is unchanged. *)
<1>1. ASSUME config' = config, phase' \in {"boot", "running", "failed", "exited"},
             cancelled' \in BOOLEAN, conns' \subseteq Connection,
             late' \in [Active -> Nat], ScanType'
      PROVE  TypeInv'
  <2>1. queue' \in Seq(1..MaxAlerts)
    BY <1>1, QueueType DEF ScanType, AlertsType
  <2> QED BY <1>0, <1>1, <2>1 DEF ScanType, AlertsType, TypeInv, TypeOK
<1>2. CASE Boot \/ Signal \/ Exit
  BY <1>0, <1>1, <1>2 DEF Boot, Signal, Exit, ScanType, AlertsType
(* A step that moves one future and leaves the rest alone. *)
<1>3. ASSUME NEW t, NEW place \in PC, GoTo(t, place), probe' \in {probe, NoProbe},
             UNCHANGED <<config, phase, cancelled, status, alerts, conns, late>>
      PROVE  TypeInv'
  <2>1. pc' \in [Task -> PC]
    BY <1>0, <1>3, GoToType
  <2>2. probe' \in Probe
    BY <1>0, <1>3, NoProbeType
  <2> QED BY <1>0, <1>1, <1>3, <2>1, <2>2 DEF ScanType, AlertsType
<1>4. ASSUME NEW t \in Task, Stop(t) \/ Disabled(t) PROVE TypeInv'
  BY <1>3, <1>4 DEF Stop, Disabled, PC
<1>5. CASE BeginArp
  <2>1. late' \in [Active -> Nat]
    BY <1>0, <1>5, Futures DEF BeginArp
  <2>2. status' \in [Scanner -> {"off", "running", "waiting", "listening"}]
    BY <1>0, <1>5 DEF BeginArp
  <2>3. probe' \in Probe
    BY <1>0, <1>5, NoProbeType DEF BeginArp
  <2>4. pc' \in [Task -> PC]
    BY <1>0, <1>5, GoToType DEF BeginArp, PC
  <2> QED BY <1>0, <1>1, <1>5, <2>1, <2>2, <2>3, <2>4 DEF BeginArp, ScanType, AlertsType
<1>6. ASSUME NEW s \in Active, NEW news, ScanDone(s, news),
             UNCHANGED <<config, phase, cancelled, conns>>, late' \in [Active -> Nat]
      PROVE  TypeInv'
  BY <1>0, <1>1, <1>6, ScanDoneType
<1>7. "arp" \in Active /\ "snmp" \in Active
  BY DEF Active
<1>8. CASE ResumeArp
  <2>1. CASE ScanDone("arp", probe.found)
    BY <1>0, <1>6, <1>7, <1>8, <2>1 DEF ResumeArp
  <2>2. CASE /\ GoTo("arp", "receive") /\ probe' = [probe EXCEPT !.last = cancelled]
             /\ UNCHANGED <<status, alerts>>
    <3>1. pc' \in [Task -> PC]
      BY <1>0, <2>2, GoToType DEF PC
    <3>2. probe' \in Probe
      BY <1>0, <2>2 DEF Probe
    <3> QED BY <1>0, <1>1, <1>8, <2>2, <3>1, <3>2 DEF ResumeArp, ScanType, AlertsType
  <2> QED BY <1>8, <2>1, <2>2 DEF ResumeArp
<1>9. CASE Packet
  <2>1. PICK seen \in {probe.found, TRUE} :
            IF probe.packets + 1 = PacketsPerYield THEN YieldArp(seen)
            ELSE IF probe.elapsed > 0 THEN ScanDone("arp", seen)
            ELSE /\ probe' = [probe EXCEPT !.packets = @ + 1, !.found = seen]
                 /\ UNCHANGED <<pc, status, alerts>>
    BY <1>9 DEF Packet
  <2>2. UNCHANGED <<config, phase, cancelled, conns, late>> /\ seen \in BOOLEAN
    BY <1>0, <1>9 DEF Packet, Probe
  <2>3. ASSUME NEW b \in BOOLEAN, ScanDone("arp", b) PROVE TypeInv'
    BY <1>0, <1>6, <1>7, <2>2, <2>3
  <2>4. CASE YieldArp(seen)
    <3>1. CASE GoTo("arp", "done") /\ probe' = NoProbe /\ UNCHANGED <<status, alerts>>
      BY <1>3, <2>2, <3>1 DEF PC
    <3>2. CASE /\ GoTo("arp", "pause") /\ UNCHANGED <<status, alerts>>
               /\ probe' = [probe EXCEPT !.packets = 0, !.found = seen]
      <4>1. pc' \in [Task -> PC]
        BY <1>0, <3>2, GoToType DEF PC
      <4>2. 0 \in 0..PacketsPerYield - 1
        BY LifecycleAssumption
      <4>3. probe' \in Probe
        BY <1>0, <2>2, <3>2, <4>2 DEF Probe
      <4> QED BY <1>0, <1>1, <2>2, <3>2, <4>1, <4>3 DEF ScanType, AlertsType
    <3> QED BY <2>3, <2>4, <3>1, <3>2 DEF YieldArp
  <2>5. CASE /\ probe.packets + 1 # PacketsPerYield
             /\ probe' = [probe EXCEPT !.packets = @ + 1, !.found = seen]
             /\ UNCHANGED <<pc, status, alerts>>
    <3>1. probe.packets + 1 \in 0..PacketsPerYield - 1
      BY <1>0, <2>5, LifecycleAssumption DEF Probe
    <3>2. probe' \in Probe
      BY <1>0, <2>2, <2>5, <3>1 DEF Probe
    <3> QED BY <1>0, <1>1, <2>2, <2>5, <3>2 DEF ScanType, AlertsType
  <2> QED BY <2>1, <2>2, <2>3, <2>4, <2>5
<1>10. CASE PacketError
  BY <1>0, <1>6, <1>7, <1>10 DEF PacketError
<1>11. CASE Elapse
  <2>1. probe' \in Probe
    BY <1>0, <1>11 DEF Elapse, Probe
  <2> QED BY <1>0, <1>1, <1>11, <2>1 DEF Elapse, ScanType, AlertsType
<1>12. CASE BeginSnmp
  <2>1. late' \in [Active -> Nat]
    BY <1>0, <1>12, <1>7 DEF BeginSnmp
  <2>2. CASE ScanDone("snmp", FALSE)
    BY <1>6, <1>7, <1>12, <2>1, <2>2 DEF BeginSnmp
  <2>3. CASE /\ GoTo("snmp", IF cancelled THEN "done" ELSE "poll")
             /\ status' = [status EXCEPT !["snmp"] = "running"]
             /\ UNCHANGED <<alerts, probe>>
    <3>1. pc' \in [Task -> PC]
      BY <1>0, <2>3, GoToType DEF PC
    <3>2. status' \in [Scanner -> {"off", "running", "waiting", "listening"}]
      BY <1>0, <2>3
    <3> QED BY <1>0, <1>1, <1>12, <2>1, <2>3, <3>1, <3>2
            DEF BeginSnmp, ScanType, AlertsType
  <2> QED BY <1>12, <2>2, <2>3 DEF BeginSnmp
<1>13. CASE PollEnds
  BY <1>0, <1>6, <1>7, <1>13 DEF PollEnds
<1>14. ASSUME NEW s \in Passive, StartListening(s) PROVE TypeInv'
  <2>1. pc' \in [Task -> PC]
    BY <1>0, <1>14, GoToType DEF StartListening, PC
  <2>2. status' \in [Scanner -> {"off", "running", "waiting", "listening"}]
    BY <1>0, <1>14 DEF StartListening
  <2> QED BY <1>0, <1>1, <1>14, <2>1, <2>2 DEF StartListening, ScanType, AlertsType
<1>15. ASSUME NEW s \in Passive, Hear(s) \/ Resolved(s) PROVE TypeInv'
  <2>1. AlertsType'
    BY <1>0, <1>15, NotifyType DEF Hear, Resolved
  <2>2. pc' \in [Task -> PC]
    BY <1>0, <1>15, GoToType DEF Hear, Resolved, PC
  <2> QED BY <1>0, <1>1, <1>15, <2>1, <2>2 DEF Hear, Resolved, ScanType
<1>16. ASSUME NEW s \in Passive, Resolve(s) PROVE TypeInv'
  BY <1>3, <1>16 DEF Resolve, PC
<1>17. CASE StartWeb \/ Drain \/ SweepThenSleep \/ StartDelivery \/ Delivered
  BY <1>3, <1>17 DEF StartWeb, Drain, SweepThenSleep, StartDelivery, Delivered, PC
<1>18. ASSUME NEW c \in Connection, Accept(c) \/ Close(c) PROVE TypeInv'
  <2>1. conns' \subseteq Connection
    BY <1>0, <1>18 DEF Accept, Close
  <2> QED BY <1>0, <1>1, <1>18, <2>1 DEF Accept, Close, ScanType, AlertsType
<1>19. CASE TakeRequest
  <2> DEFINE ids == 1..raised
  <2>1. queue \in Seq(ids) /\ sent \subseteq ids /\ Len(queue) <= QueueCapacity
    BY <1>0 DEF AlertsType
  <2>2. /\ queue # <<>> /\ queue' = Tail(queue) /\ sent' = sent \cup {Head(queue)}
        /\ raised' = raised
    BY <1>19 DEF TakeRequest
  <2> HIDE DEF ids
  <2>3. queue' \in Seq(ids) /\ Head(queue) \in ids /\ Len(queue') = Len(queue) - 1
    BY <2>1, <2>2
  <2>4. Len(queue) \in Nat /\ QueueCapacity \in Nat
    BY <2>1, LifecycleAssumption
  <2>5. Len(queue') <= QueueCapacity
    BY <2>1, <2>3, <2>4
  <2>6. AlertsType'
    BY <1>0, <2>1, <2>2, <2>3, <2>5 DEF AlertsType, ids
  <2>7. pc' \in [Task -> PC]
    BY <1>0, <1>19, GoToType DEF TakeRequest, PC
  <2> QED BY <1>0, <1>1, <1>19, <2>6, <2>7 DEF TakeRequest, ScanType
<1>20. CASE UNCHANGED vars
  BY <1>0, <1>1, <1>20 DEF vars, ScanType, AlertsType
<1> QED BY <1>2, <1>4, <1>5, <1>8, <1>9, <1>10, <1>11, <1>12, <1>13, <1>14, <1>15, <1>16,
           <1>17, <1>18, <1>19, <1>20 DEF Next, Listen

(* main.rs: every future stands at one of its awaits, the channel never holds more than
   its capacity, and the loop takes only alerts that were raised. *)
THEOREM LifecycleTypeCorrect == Spec => []TypeOK
<1>1. TypeInv => TypeOK
  BY DEF TypeInv
<1> QED BY <1>1, TypeInit, TypeStep, PTL DEF Spec
-----------------------------------------------------------------------------
(***************************************************************************)
(* One late scan.                                                          *)
(***************************************************************************)
LEMMA LateKept ==
    ASSUME LateInv, late' = late, cancelled => cancelled',
           \/ ~cancelled \/ pc["arp"] \notin {"done", "receive"} \/ pc'["arp"] = "done"
           \/ pc'["arp"] = pc["arp"] /\ (pc["arp"] = "receive" => probe'.last = probe.last),
           ~cancelled \/ pc["snmp"] # "done" \/ pc'["snmp"] = "done"
    PROVE  LateInv'
BY DEF LateInv

LEMMA LateStep == TypeInv /\ LateInv /\ [Next]_vars => LateInv'
<1> SUFFICES ASSUME TypeInv, LateInv, [Next]_vars PROVE LateInv'
  OBVIOUS
<1>0. /\ pc \in [Task -> PC] /\ cancelled \in BOOLEAN /\ probe \in Probe
      /\ late \in [Active -> Nat]
  BY DEF TypeInv, TypeOK
<1>1. CASE UNCHANGED <<pc, probe, late>> /\ (cancelled => cancelled')
  BY <1>1, LateKept
<1>2. Boot \/ Signal \/ Exit \/ (\E c \in Connection : Accept(c) \/ Close(c))
          \/ (\E s \in Passive : Hear(s)) \/ UNCHANGED vars
          => UNCHANGED <<pc, probe, late>> /\ (cancelled => cancelled')
  <2>1. Boot \/ Signal \/ Exit \/ UNCHANGED vars
            => UNCHANGED <<pc, probe, late>> /\ (cancelled => cancelled')
    BY DEF Boot, Signal, Exit, vars
  <2>2. \A c \in Connection : Accept(c) \/ Close(c)
            => UNCHANGED <<pc, probe, late, cancelled>>
    BY DEF Accept, Close
  <2>3. \A s \in Passive : Hear(s) => UNCHANGED <<pc, probe, late, cancelled>>
    BY DEF Hear
  <2> QED BY <2>1, <2>2, <2>3
(* A future other than the active scanners moves. *)
<1>3. ASSUME NEW t \in Task \ Active, NEW place, GoTo(t, place),
             UNCHANGED <<cancelled, probe, late>>
      PROVE  LateInv'
  <2>1. pc'["arp"] = pc["arp"] /\ pc'["snmp"] = pc["snmp"]
    BY <1>0, <1>3, Futures DEF GoTo
  <2> QED BY <1>3, <2>1, LateKept
<1>4. ASSUME NEW s \in Passive, StartListening(s) \/ Resolve(s) \/ Resolved(s)
      PROVE  LateInv'
  <2>1. s \in Task \ Active
    BY Futures
  <2> QED BY <1>3, <1>4, <2>1 DEF StartListening, Resolve, Resolved
<1>5. CASE StartWeb \/ Drain \/ SweepThenSleep \/ StartDelivery \/ TakeRequest \/ Delivered
  <2>1. {"web", "retention", "delivery"} \subseteq Task \ Active
    BY Futures
  <2> QED BY <1>3, <1>5, <2>1
          DEF StartWeb, Drain, SweepThenSleep, StartDelivery, TakeRequest, Delivered
<1>6. ASSUME NEW t \in Task, Stop(t) \/ Disabled(t) PROVE LateInv'
  <2>1. CASE t \in Active
    <3>1. /\ pc'[t] = "done" /\ \A u \in Task : u # t => pc'[u] = pc[u]
          /\ UNCHANGED <<cancelled, late>> /\ (t # "arp" => probe' = probe)
      BY <1>0, <1>6 DEF Stop, Disabled, GoTo
    <3> QED BY <2>1, <3>1, LateKept, Futures
  <2>2. CASE t \notin Active
    <3>1. GoTo(t, "done") /\ UNCHANGED <<cancelled, probe, late>>
      BY <1>6, <2>2, Futures DEF Stop, Disabled
    <3> QED BY <1>3, <2>2, <3>1
  <2> QED BY <2>1, <2>2
(* The end of a scan: after a signal its scanner leaves. *)
<1>7. ASSUME NEW s \in Active, NEW news, ScanDone(s, news), UNCHANGED <<cancelled, late>>
      PROVE  LateInv'
  <2>1. /\ cancelled => pc'[s] = "done"
        /\ \A u \in Task : u # s => pc'[u] = pc[u]
        /\ s # "arp" => probe' = probe
    BY <1>0, <1>7, Futures DEF ScanDone, GoTo
  <2> QED BY <1>7, <2>1, LateKept, Futures
<1>8. "arp" \in Active /\ "snmp" \in Active
  BY DEF Active
<1>9. CASE PollEnds
  BY <1>7, <1>8, <1>9 DEF PollEnds
<1>10. CASE BeginArp
  <2>1. /\ late["arp"] = 0 /\ pc["arp"] \in {"new", "sleep"} /\ cancelled' = cancelled
    BY <1>10 DEF BeginArp, LateInv
  <2>2. pc'["snmp"] = pc["snmp"] /\ late'["snmp"] = late["snmp"]
    BY <1>0, <1>10, Futures DEF BeginArp, GoTo
  <2>3. late'["arp"] = IF cancelled THEN 1 ELSE 0
    BY <1>0, <1>8, <1>10, <2>1 DEF BeginArp
  <2>4. cancelled => pc'["arp"] = "done" \/ (pc'["arp"] = "receive" /\ probe'.last)
    <3>1. CASE GoTo("arp", "done")
      BY <1>0, <3>1, Futures DEF GoTo
    <3>2. CASE /\ GoTo("arp", IF config.wide THEN "send" ELSE "receive")
               /\ config.wide => ~cancelled
               /\ probe' = [NoProbe EXCEPT !.last = cancelled]
      <4>1. probe'.last = cancelled
        BY <3>2 DEF NoProbe
      <4> QED BY <1>0, <3>2, <4>1, Futures DEF GoTo
    <3> QED BY <1>10, <3>1, <3>2 DEF BeginArp
  <2> QED BY <2>1, <2>2, <2>3, <2>4 DEF LateInv
<1>11. CASE ResumeArp
  <2>1. pc["arp"] \in {"send", "pause"} /\ pc'["snmp"] = pc["snmp"]
        /\ UNCHANGED <<cancelled, late>>
    BY <1>0, <1>11, Futures DEF ResumeArp, ScanDone, GoTo
  <2> QED BY <2>1, LateKept
<1>12. CASE Packet
  <2>1. PICK seen \in {probe.found, TRUE} :
            IF probe.packets + 1 = PacketsPerYield THEN YieldArp(seen)
            ELSE IF probe.elapsed > 0 THEN ScanDone("arp", seen)
            ELSE /\ probe' = [probe EXCEPT !.packets = @ + 1, !.found = seen]
                 /\ UNCHANGED <<pc, status, alerts>>
    BY <1>12 DEF Packet
  <2>2. UNCHANGED <<cancelled, late>> /\ pc["arp"] = "receive"
    BY <1>12 DEF Packet
  <2>3. ASSUME NEW news, ScanDone("arp", news) PROVE LateInv'
    BY <1>7, <1>8, <2>2, <2>3
  <2>4. CASE YieldArp(seen)
    <3>1. CASE GoTo("arp", "done")
      <4>1. pc'["arp"] = "done" /\ pc'["snmp"] = pc["snmp"]
        BY <1>0, <3>1, Futures DEF GoTo
      <4> QED BY <2>2, <4>1, LateKept
    <3>2. CASE ~probe.last /\ GoTo("arp", "pause")
      <4>1. late["arp"] = 0 /\ pc'["snmp"] = pc["snmp"]
        BY <1>0, <2>2, <3>2, Futures DEF GoTo, LateInv
      <4> QED BY <2>2, <4>1 DEF LateInv
    <3> QED BY <2>3, <2>4, <3>1, <3>2 DEF YieldArp
  <2>5. CASE probe' = [probe EXCEPT !.packets = @ + 1, !.found = seen] /\ pc' = pc
    <3>1. probe'.last = probe.last
      BY <1>0, <2>5 DEF Probe
    <3> QED BY <2>2, <2>5, <3>1, LateKept
  <2> QED BY <2>1, <2>3, <2>4, <2>5
<1>13. CASE PacketError
  BY <1>7, <1>8, <1>13 DEF PacketError
<1>14. CASE Elapse
  <2>1. probe'.last = probe.last /\ UNCHANGED <<pc, cancelled, late>>
    BY <1>0, <1>14 DEF Elapse, Probe
  <2> QED BY <2>1, LateKept
<1>15. CASE BeginSnmp
  <2>1. late["snmp"] = 0 /\ pc["snmp"] \in {"new", "sleep"} /\ cancelled' = cancelled
    BY <1>15 DEF BeginSnmp, LateInv
  <2>2. /\ pc'["arp"] = pc["arp"] /\ probe' = probe /\ late'["arp"] = late["arp"]
    BY <1>0, <1>15, Futures DEF BeginSnmp, ScanDone, GoTo
  <2>3. late'["snmp"] = IF cancelled THEN 1 ELSE 0
    BY <1>0, <1>8, <1>15, <2>1 DEF BeginSnmp
  <2>4. cancelled => pc'["snmp"] = "done"
    BY <1>0, <1>15, Futures DEF BeginSnmp, ScanDone, GoTo
  <2> QED BY <2>1, <2>2, <2>3, <2>4 DEF LateInv
<1> QED BY <1>1, <1>2, <1>4, <1>5, <1>6, <1>9, <1>10, <1>11, <1>12, <1>13, <1>14, <1>15
        DEF Next, Listen

(* find_devices and poll_devices in a select with the token: a signal that comes at any
   moment lets each active scanner begin at most one more scan. *)
THEOREM AtMostOneLateScan == Spec => []OneLateScan
<1>1. Init => LateInv
  BY DEF Init, LateInv, Active
<1>2. LateInv => OneLateScan
  BY DEF LateInv, OneLateScan, Active
<1> QED BY <1>1, <1>2, TypeInit, TypeStep, LateStep, PTL DEF Spec
-----------------------------------------------------------------------------
(***************************************************************************)
(* The status records.                                                     *)
(***************************************************************************)
Truthful(s) ==
    /\ status[s] = "running"   <=> pc[s] = "poll"
    /\ status[s] = "waiting"   <=> pc[s] = "sleep"
    /\ status[s] = "listening" <=> pc[s] \in {"listen", "resolve"}

(* Each listener, and SNMP, stays as it was or moves with its status, while the
   process runs and no signal has come. *)
LEMMA StatusKept ==
    ASSUME StatusInv, phase = "running", phase' # "boot", cancelled => cancelled',
           \A s \in Scanner \ {"arp"} :
               \/ cancelled
               \/ pc'[s] = pc[s] /\ status'[s] = status[s]
               \/ Truthful(s)'
    PROVE  StatusInv'
BY DEF StatusInv, StatusTruthful, Truthful

LEMMA StatusStep == TypeInv /\ StatusInv /\ [Next]_vars => StatusInv'
<1> SUFFICES ASSUME TypeInv, StatusInv, [Next]_vars PROVE StatusInv'
  OBVIOUS
<1>0. /\ pc \in [Task -> PC] /\ cancelled \in BOOLEAN
      /\ status \in [Scanner -> {"off", "running", "waiting", "listening"}]
  BY DEF TypeInv, TypeOK
<1>1. CASE Boot
  <2>1. /\ phase = "boot" /\ phase' \in {"failed", "running"}
        /\ UNCHANGED <<pc, status, cancelled>>
    BY <1>1 DEF Boot
  <2>2. \A s \in Scanner : Truthful(s)'
    BY <2>1 DEF StatusInv, Truthful
  <2> QED BY <2>1, <2>2 DEF StatusInv, StatusTruthful, Truthful
<1>2. CASE Signal \/ Exit
  <2>1. /\ phase = "running" /\ phase' # "boot" /\ UNCHANGED <<pc, status>>
        /\ cancelled => cancelled'
    BY <1>2 DEF Signal, Exit
  <2> QED BY <2>1, StatusKept
<1>3. CASE UNCHANGED <<phase, cancelled, pc, status>>
  BY <1>3 DEF StatusInv, StatusTruthful
(* The futures without a status record, and ARP. *)
<1>4. ASSUME NEW t \in {"arp", "web", "retention", "delivery"}, NEW place, GoTo(t, place),
             phase = "running", phase' = phase, cancelled' = cancelled,
             \A s \in Scanner \ {"arp"} : status'[s] = status[s]
      PROVE  StatusInv'
  <2>1. \A s \in Scanner \ {"arp"} : pc'[s] = pc[s]
    BY <1>0, <1>4, Futures DEF GoTo
  <2> QED BY <1>4, <2>1, StatusKept
<1>5. ASSUME NEW t \in Task, Stop(t) PROVE StatusInv'
  <2>1. phase = "running" /\ phase' = "running" /\ cancelled /\ cancelled'
    BY <1>5 DEF Stop, Polled
  <2> QED BY <2>1, StatusKept
<1>6. ASSUME NEW t \in Task, Disabled(t) PROVE StatusInv'
  <2>1. /\ phase = "running" /\ phase' = "running" /\ UNCHANGED <<cancelled, status>>
        /\ pc[t] = "new" /\ pc'[t] = "done" /\ \A s \in Task : s # t => pc'[s] = pc[s]
    BY <1>0, <1>6 DEF Disabled, Polled, GoTo
  <2>2. \A s \in Scanner \ {"arp"} : ~cancelled => Truthful(s)
    BY <2>1 DEF StatusInv, StatusTruthful, Truthful
  <2>3. \A s \in Scanner \ {"arp"} :
            cancelled \/ (pc'[s] = pc[s] /\ status'[s] = status[s]) \/ Truthful(s)'
    BY <2>1, <2>2, Futures DEF Truthful
  <2> QED BY <2>1, <2>3, StatusKept
<1>7. ASSUME NEW news, ScanDone("arp", news),
             phase = "running", phase' = phase, cancelled' = cancelled
      PROVE  StatusInv'
  <2>1. \A s \in Scanner \ {"arp"} : status'[s] = status[s]
    BY <1>0, <1>7 DEF ScanDone
  <2> QED BY <1>4, <1>7, <2>1 DEF ScanDone
<1>8. CASE BeginArp
  <2>1. \A s \in Scanner \ {"arp"} : status'[s] = status[s]
    BY <1>0, <1>8 DEF BeginArp
  <2> QED BY <1>4, <1>8, <2>1 DEF BeginArp, Polled
<1>9. CASE ResumeArp
  BY <1>4, <1>7, <1>9 DEF ResumeArp, Polled
<1>10. CASE Packet
  <2>1. PICK seen \in {probe.found, TRUE} :
            IF probe.packets + 1 = PacketsPerYield THEN YieldArp(seen)
            ELSE IF probe.elapsed > 0 THEN ScanDone("arp", seen)
            ELSE /\ probe' = [probe EXCEPT !.packets = @ + 1, !.found = seen]
                 /\ UNCHANGED <<pc, status, alerts>>
    BY <1>10 DEF Packet
  <2>2. phase = "running" /\ UNCHANGED <<phase, cancelled>>
    BY <1>10 DEF Packet
  <2>3. CASE YieldArp(seen)
    BY <1>4, <1>7, <2>2, <2>3 DEF YieldArp
  <2> QED BY <1>3, <1>7, <2>1, <2>2, <2>3
<1>11. CASE PacketError
  BY <1>7, <1>11 DEF PacketError
(* A poll of SNMP ends, and before a signal the sleep follows. *)
<1>12. ASSUME NEW news, ScanDone("snmp", news),
              phase = "running", phase' = phase, cancelled' = cancelled
       PROVE  StatusInv'
  <2>1. /\ pc'["snmp"] = IF cancelled THEN "done" ELSE "sleep"
        /\ status'["snmp"] = "waiting"
        /\ \A s \in Scanner : s # "snmp" => pc'[s] = pc[s] /\ status'[s] = status[s]
    BY <1>0, <1>12, Futures DEF ScanDone, GoTo
  <2>2. cancelled \/ Truthful("snmp")'
    BY <2>1 DEF Truthful
  <2> QED BY <1>12, <2>1, <2>2, StatusKept
<1>13. CASE BeginSnmp
  <2>1. phase = "running" /\ UNCHANGED <<phase, cancelled>>
    BY <1>13 DEF BeginSnmp, Polled
  <2>2. CASE /\ GoTo("snmp", IF cancelled THEN "done" ELSE "poll")
             /\ status' = [status EXCEPT !["snmp"] = "running"]
    <3>1. /\ pc'["snmp"] = IF cancelled THEN "done" ELSE "poll"
          /\ status'["snmp"] = "running"
          /\ \A s \in Scanner : s # "snmp" => pc'[s] = pc[s] /\ status'[s] = status[s]
      BY <1>0, <2>2, Futures DEF GoTo
    <3>2. cancelled \/ Truthful("snmp")'
      BY <3>1 DEF Truthful
    <3> QED BY <2>1, <3>1, <3>2, StatusKept
  <2> QED BY <1>12, <1>13, <2>1, <2>2 DEF BeginSnmp
<1>14. CASE PollEnds
  BY <1>12, <1>14 DEF PollEnds, Polled
<1>15. ASSUME NEW s \in Passive, StartListening(s) PROVE StatusInv'
  <2>1. /\ phase = "running" /\ phase' = "running" /\ cancelled' = cancelled
        /\ pc[s] = "new"
        /\ \A u \in Scanner : u # s => pc'[u] = pc[u] /\ status'[u] = status[u]
        /\ \/ pc'[s] = "done" /\ status'[s] = status[s]
           \/ pc'[s] = "listen" /\ status'[s] = "listening"
    BY <1>0, <1>15, Futures DEF StartListening, Polled, GoTo
  <2>2. s \in Scanner \ {"arp"} /\ (~cancelled => Truthful(s))
    BY <2>1, Futures DEF StatusInv, StatusTruthful, Truthful
  <2>3. cancelled \/ Truthful(s)'
    BY <2>1, <2>2 DEF Truthful
  <2> QED BY <2>1, <2>3, StatusKept
<1>16. ASSUME NEW s \in Passive, Resolve(s) \/ Resolved(s) PROVE StatusInv'
  <2>1. /\ phase = "running" /\ phase' = "running" /\ UNCHANGED <<cancelled, status>>
        /\ pc[s] \in {"listen", "resolve"} /\ pc'[s] \in {"listen", "resolve"}
        /\ \A u \in Scanner : u # s => pc'[u] = pc[u]
    BY <1>0, <1>16, Futures DEF Resolve, Resolved, Polled, GoTo
  <2>2. s \in Scanner \ {"arp"} /\ (~cancelled => Truthful(s))
    BY <2>1, Futures DEF StatusInv, StatusTruthful, Truthful
  <2>3. cancelled \/ Truthful(s)'
    BY <2>1, <2>2 DEF Truthful
  <2> QED BY <2>1, <2>3, StatusKept
<1>17. CASE StartWeb \/ Drain \/ SweepThenSleep \/ StartDelivery \/ TakeRequest \/ Delivered
  BY <1>4, <1>17 DEF StartWeb, Drain, SweepThenSleep, StartDelivery, TakeRequest,
                     Delivered, Polled
<1>18. Elapse \/ UNCHANGED vars \/ (\E c \in Connection : Accept(c) \/ Close(c))
           => UNCHANGED <<phase, cancelled, pc, status>>
  BY DEF Elapse, vars, Accept, Close
<1>19. \A s \in Passive : Hear(s) => UNCHANGED <<phase, cancelled, pc, status>>
  BY DEF Hear
<1> QED BY <1>1, <1>2, <1>3, <1>5, <1>6, <1>8, <1>9, <1>10, <1>11, <1>13, <1>14, <1>15,
           <1>16, <1>17, <1>18, <1>19 DEF Next, Listen

(* record_scan, set_waiting and set_listening: until a signal comes, what the settings
   screen shows of a listener or of SNMP is what its future does. *)
THEOREM StatusIsTruthful == Spec => []StatusTruthful
<1>1. Init => StatusInv
  BY Futures DEF Init, StatusInv, StatusTruthful
<1>2. StatusInv => StatusTruthful
  BY DEF StatusInv
<1> QED BY <1>1, <1>2, TypeInit, TypeStep, StatusStep, PTL DEF Spec
-----------------------------------------------------------------------------
(***************************************************************************)
(* Dropped alerts.                                                         *)
(***************************************************************************)
LEMMA PolledOnce ==
    ASSUME NEW t \in Task, Polled(t), pc[t] # "new"
    PROVE  \A u \in Task : pc[u] # "new"
BY DEF Polled

(* The end of a scan does not bring a future back to its beginning. *)
LEMMA WideKept ==
    ASSUME TypeInv, WideInv, config' = config,
           \A u \in Task : pc'[u] = "new" => pc[u] = "new",
           pc'["arp"] = "receive" =>
               \/ pc["arp"] = "receive"
               \/ ~config.wide
               \/ \A u \in Task : pc[u] # "new"
    PROVE  WideInv'
BY DEF WideInv

LEMMA WideStep == TypeInv /\ WideInv /\ [Next]_vars => WideInv'
<1> SUFFICES ASSUME TypeInv, WideInv, [Next]_vars PROVE WideInv'
  OBVIOUS
<1>0. pc \in [Task -> PC]
  BY DEF TypeInv, TypeOK
<1>1. CASE UNCHANGED <<config, pc>>
  BY <1>1 DEF WideInv
<1>2. Boot \/ Signal \/ Exit \/ Elapse \/ UNCHANGED vars
          \/ (\E c \in Connection : Accept(c) \/ Close(c))
          => UNCHANGED <<config, pc>>
  BY DEF Boot, Signal, Exit, Elapse, vars, Accept, Close
<1>3. \A s \in Passive : Hear(s) => UNCHANGED <<config, pc>>
  BY DEF Hear
<1>4. ASSUME NEW t, NEW place \in PC \ {"new", "receive"}, GoTo(t, place),
             config' = config
      PROVE  WideInv'
  <2>1. \A u \in Task : pc'[u] \in {pc[u], place}
    BY <1>0, <1>4 DEF GoTo
  <2> QED BY <1>4, <2>1, WideKept, Futures
<1>5. ASSUME NEW s, NEW news, ScanDone(s, news), config' = config PROVE WideInv'
  BY <1>4, <1>5 DEF ScanDone, PC
<1>6. CASE BeginArp
  <2>1. CASE GoTo("arp", "done")
    BY <1>4, <1>6, <2>1 DEF BeginArp, PC
  <2>2. CASE GoTo("arp", IF config.wide THEN "send" ELSE "receive")
    <3>1. \A u \in Task : pc'[u] \in {pc[u], IF config.wide THEN "send" ELSE "receive"}
      BY <1>0, <2>2 DEF GoTo
    <3>2. pc'["arp"] = "receive" => ~config.wide
      BY <1>0, <2>2, Futures DEF GoTo
    <3> QED BY <1>6, <3>1, <3>2, WideKept DEF BeginArp
  <2> QED BY <1>6, <2>1, <2>2 DEF BeginArp
<1>7. CASE ResumeArp
  <2>1. CASE GoTo("arp", "receive")
    <3>1. \A u \in Task : pc[u] # "new"
      BY <1>7, PolledOnce, Futures DEF ResumeArp
    <3>2. \A u \in Task : pc'[u] \in {pc[u], "receive"}
      BY <1>0, <2>1 DEF GoTo
    <3> QED BY <1>7, <3>1, <3>2, WideKept DEF ResumeArp
  <2> QED BY <1>5, <1>7, <2>1 DEF ResumeArp
<1>8. CASE Packet
  BY <1>1, <1>4, <1>5, <1>8 DEF Packet, YieldArp, PC
<1>9. CASE BeginSnmp
  <2>1. (IF cancelled THEN "done" ELSE "poll") \in PC \ {"new", "receive"}
    BY DEF PC
  <2> QED BY <1>4, <1>5, <1>9, <2>1 DEF BeginSnmp
<1>10. CASE PacketError \/ PollEnds
  BY <1>5, <1>10 DEF PacketError, PollEnds
<1>11. ASSUME NEW t \in Task, Stop(t) \/ Disabled(t) PROVE WideInv'
  BY <1>4, <1>11 DEF Stop, Disabled, PC
<1>12. ASSUME NEW s \in Passive, StartListening(s) \/ Resolve(s) \/ Resolved(s)
       PROVE  WideInv'
  BY <1>4, <1>12 DEF StartListening, Resolve, Resolved, PC
<1>13. CASE StartWeb \/ Drain \/ SweepThenSleep \/ StartDelivery \/ TakeRequest \/ Delivered
  <2>1. {"serve", "done", "drain", "sleep", "recv", "deliver"} \subseteq PC \ {"new", "receive"}
    BY DEF PC
  <2> QED BY <1>4, <1>13, <2>1
          DEF StartWeb, Drain, SweepThenSleep, StartDelivery, TakeRequest, Delivered
<1> QED BY <1>1, <1>2, <1>3, <1>6, <1>7, <1>8, <1>9, <1>10, <1>11, <1>12, <1>13
        DEF Next, Listen

(* An alert that is raised reaches the channel, if it can. *)
LEMMA NotifyDrops ==
    ASSUME TypeInv, NEW news, Notify(news), raised' # raised, raised' \notin ToSet(queue'),
           pc["delivery"] # "new"
    PROVE  Len(queue) = QueueCapacity \/ pc["delivery"] = "done"
<1>1. raised' = raised + 1 /\ queue' = IF CanQueue THEN Append(queue, raised + 1) ELSE queue
  BY DEF Notify, alerts
<1>2. queue \in Seq(1..MaxAlerts) /\ Len(queue) <= QueueCapacity
  BY DEF TypeInv, TypeOK
<1>3. Append(queue, raised + 1)[Len(queue) + 1] = raised + 1
      /\ Len(queue) + 1 \in DOMAIN Append(queue, raised + 1)
  BY <1>2
<1>4. raised + 1 \in ToSet(Append(queue, raised + 1))
  BY <1>3 DEF ToSet
<1>5. ~CanQueue
  BY <1>1, <1>4
<1> QED BY <1>2, <1>5, LifecycleAssumption DEF CanQueue

(* Who raises an alert on a wide subnet: nobody before the loop has made its channel. *)
LEMMA RaisedLate ==
    ASSUME TypeInv, WideInv, [Next]_vars, config.wide, raised' # raised
    PROVE  \E news : Notify(news) /\ pc["delivery"] # "new"
<1>0. "delivery" \in Task
  BY Futures
<1>1. ASSUME NEW t \in Task, Polled(t), pc[t] # "new", NEW news, Notify(news)
      PROVE  \E n : Notify(n) /\ pc["delivery"] # "new"
  BY <1>0, <1>1, PolledOnce
<1>2. CASE ResumeArp
  BY <1>1, <1>2, Futures DEF ResumeArp, ScanDone, alerts
<1>3. CASE Packet \/ PacketError
  <2>1. pc["arp"] = "receive"
    BY <1>3 DEF Packet, PacketError
  <2>2. \E news : Notify(news)
    BY <1>3 DEF Packet, PacketError, YieldArp, ScanDone, alerts
  <2> QED BY <1>0, <2>1, <2>2 DEF WideInv
<1>4. ~BeginSnmp
  BY DEF BeginSnmp, ScanDone, Notify, alerts
<1>5. CASE PollEnds
  BY <1>1, <1>5, Futures DEF PollEnds, ScanDone
<1>6. ASSUME NEW s \in Passive, Hear(s) \/ Resolved(s)
      PROVE  \E n : Notify(n) /\ pc["delivery"] # "new"
  BY <1>1, <1>6, Futures DEF Hear, Resolved
<1>7. ~(Boot \/ Signal \/ Exit \/ Elapse \/ BeginArp \/ UNCHANGED vars)
  BY DEF Boot, Signal, Exit, Elapse, BeginArp, vars, alerts
<1>8. /\ \A t \in Task : ~(Stop(t) \/ Disabled(t))
      /\ \A s \in Passive : ~(StartListening(s) \/ Resolve(s))
      /\ \A c \in Connection : ~(Accept(c) \/ Close(c))
  BY DEF Stop, Disabled, StartListening, Resolve, Accept, Close, alerts
<1>9. ~(StartWeb \/ Drain \/ SweepThenSleep \/ StartDelivery \/ TakeRequest \/ Delivered)
  BY DEF StartWeb, Drain, SweepThenSleep, StartDelivery, TakeRequest, Delivered, alerts
<1> QED BY <1>2, <1>3, <1>4, <1>5, <1>6, <1>7, <1>8, <1>9 DEF Next, Listen

(* enqueue: on a wide subnet an alert is dropped only because the channel is full or the
   loop has ended, since no alert is raised before main's first round of polls is over. *)
THEOREM AlertsDroppedOnlyAtCapacity == Spec => DroppedOnlyAtCapacity
<1>1. Init => WideInv
  BY Futures DEF Init, WideInv
<1>2. TypeInv /\ WideInv /\ [Next]_vars =>
          [config.wide /\ raised' # raised /\ raised' \notin ToSet(queue')
               => Len(queue) = QueueCapacity \/ pc["delivery"] = "done"]_vars
  BY RaisedLate, NotifyDrops
<1> QED BY <1>1, <1>2, TypeInit, TypeStep, WideStep, PTL DEF Spec, DroppedOnlyAtCapacity
=============================================================================
