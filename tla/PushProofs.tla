------------------------------ MODULE PushProofs ------------------------------
(***************************************************************************)
(* Theorems about Push, for all phones, tokens, senders, bounds and faults. *)
(***************************************************************************)
EXTENDS Push, TLAPS

(* FCM never reuses a token, so what was dead when the relay said so is dead when
   it is pruned; Known follows every token from FCM to where it is pruned. *)
Known ==
    /\ tokens \subseteq used
    /\ LiveTokens \subseteq used
    /\ \A r \in requests : r.token \in used
    /\ \A s \in Sender : /\ sends[s].batch \subseteq used
                         /\ sends[s].dead \subseteq used
                         /\ sends[s].dead \cap LiveTokens = {}

PushInv == TypeOK /\ Known
-----------------------------------------------------------------------------
LEMMA NoSendType == NoSend \in Send
BY DeliveryAssumption DEF NoSend, Send

LEMMA NoOpType == NoOp \in Op
BY DEF NoOp, Op

LEMMA StartType ==
    ASSUME NEW kind \in {"launch", "on", "off"}
    PROVE  Start(kind) \in Op
BY DEF Start, NoOp, Op

LEMMA PushInit == Init => PushInv
<1> SUFFICES ASSUME Init PROVE PushInv
  OBVIOUS
<1> USE DEF Init, DeliveryInit
<1>1. DeliveryTypeOK
  <2>1. queue \in Seq(1..MaxAlerts) /\ Len(queue) <= QueueCapacity
    BY DeliveryAssumption
  <2>2. \A p \in Phone : received[p] \in Seq(1..MaxAlerts)
    OBVIOUS
  <2>3. alerts \in 0..MaxAlerts
    BY DeliveryAssumption
  <2> QED BY <2>1, <2>2, <2>3, NoSendType DEF DeliveryTypeOK
<1>2. TypeOK
  BY <1>1, NoOpType DEF TypeOK
<1>3. Known
  BY DEF Known, LiveTokens, NoSend
<1> QED BY <1>2, <1>3 DEF PushInv

-----------------------------------------------------------------------------
(***************************************************************************)
(* Types: one lemma for the backend's steps, one for the phones'.          *)
(***************************************************************************)
LEMMA ReachType ==
    ASSUME DeliveryTypeOK, NEW alert \in 0..MaxAlerts, NEW served, Reach(alert, served)
    PROVE  received' \in [Phone -> Seq(1..MaxAlerts)]
<1>1. ASSUME NEW p \in Phone, alert > 0
      PROVE  Append(received[p], alert) \in Seq(1..MaxAlerts)
  <2>1. alert \in 1..MaxAlerts /\ received[p] \in Seq(1..MaxAlerts)
    BY <1>1, DeliveryAssumption DEF DeliveryTypeOK
  <2> QED BY <2>1
<1> QED BY <1>1 DEF Reach, DeliveryTypeOK

LEMMA StrayType ==
    ASSUME DeliveryTypeOK, NEW s \in Sender
    PROVE  Stray(sends[s]) \subseteq [alert: 1..MaxAlerts, batch: SUBSET Token]
<1>1. sends[s].alert \in 0..MaxAlerts /\ sends[s].batch \in SUBSET Token
  BY DEF DeliveryTypeOK, Send
<1>2. CASE sends[s].alert > 0
  <2>1. sends[s].alert \in 1..MaxAlerts
    BY <1>1, <1>2, DeliveryAssumption
  <2> QED BY <1>1, <2>1 DEF Stray
<1>3. CASE ~(sends[s].alert > 0)
  BY <1>3 DEF Stray
<1> QED BY <1>2, <1>3

LEMMA BackendTypes == TypeOK /\ DeliveryNext => DeliveryTypeOK'
<1> SUFFICES ASSUME TypeOK, DeliveryNext PROVE DeliveryTypeOK'
  OBVIOUS
<1> USE DEF TypeOK, DeliveryTypeOK, fcm, heard
<1>0. NoSend \in Send /\ MaxAlerts \in Nat /\ QueueCapacity \in Nat
  BY NoSendType, DeliveryAssumption
<1>1. CASE Enqueue
  <2>1. alerts' \in 0..MaxAlerts /\ alerts + 1 \in 1..MaxAlerts
    BY <1>0, <1>1 DEF Enqueue
  <2>2. CASE Len(queue) < QueueCapacity
    <3>1. queue' = Append(queue, alerts + 1)
      BY <1>1, <2>2 DEF Enqueue
    <3>2. queue' \in Seq(1..MaxAlerts)
      BY <2>1, <3>1
    <3>3. Len(queue') = Len(queue) + 1 /\ Len(queue) \in Nat
      BY <3>1
    <3>4. Len(queue') <= QueueCapacity
      BY <1>0, <2>2, <3>3
    <3> QED BY <1>1, <2>1, <3>2, <3>4 DEF Enqueue
  <2>3. CASE ~(Len(queue) < QueueCapacity)
    BY <1>1, <2>1, <2>3 DEF Enqueue
  <2> QED BY <2>2, <2>3
<1>2. CASE TakeRequest
  <2>1. Head(queue) \in 1..MaxAlerts /\ Tail(queue) \in Seq(1..MaxAlerts)
        /\ Len(Tail(queue)) <= QueueCapacity
    BY <1>0, <1>2 DEF TakeRequest
  <2>2. [NoSend EXCEPT !.pc = "list", !.alert = Head(queue)] \in Send
    <3>1. Head(queue) \in 0..MaxAlerts
      BY <1>0, <2>1
    <3> HIDE DEF TypeOK, DeliveryTypeOK
    <3> QED BY <3>1 DEF NoSend, Send
  <2>3. sends' \in [Sender -> Send]
    BY <1>2, <2>2 DEF TakeRequest
  <2> QED BY <1>2, <2>1, <2>3 DEF TakeRequest
<1>3. CASE Restart
  <2>1. <<>> \in Seq(1..MaxAlerts) /\ Len(<<>>) <= QueueCapacity
    BY <1>0
  <2>2. sends' \in [Sender -> Send]
    BY <1>0, <1>3 DEF Restart
  <2>3. stray' \subseteq [alert: 1..MaxAlerts, batch: SUBSET Token]
    BY <1>3, StrayType DEF Restart
  <2> QED BY <1>3, <2>1, <2>2, <2>3 DEF Restart
<1>4. ASSUME NEW s \in Sender, StartTest(s) PROVE DeliveryTypeOK'
  <2>1. [NoSend EXCEPT !.pc = "list"] \in Send
    BY <1>0 DEF NoSend, Send
  <2>2. sends' \in [Sender -> Send]
    BY <1>4, <2>1 DEF StartTest
  <2> QED BY <1>4, <2>2 DEF StartTest
<1>5. ASSUME NEW s \in Sender, ListTokens(s) PROVE DeliveryTypeOK'
  <2>1. [sends[s] EXCEPT !.pc = "post", !.batch = tokens] \in Send
    BY DEF Send
  <2>2. sends' \in [Sender -> Send]
    BY <1>0, <1>5, <2>1 DEF ListTokens
  <2> QED BY <1>5, <2>2 DEF ListTokens
<1>6. ASSUME NEW s \in Sender, Post(s) PROVE DeliveryTypeOK'
  <2>1. ASSUME NEW failed \in SUBSET sends[s].batch
        PROVE  [sends[s] EXCEPT !.pc = "prune", !.dead = Dead(sends[s].batch, failed)] \in Send
    BY DEF Send, Dead
  <2>2. sends' \in [Sender -> Send]
    BY <1>0, <1>6, <2>1 DEF Post
  <2>3. sends[s].alert \in 0..MaxAlerts
    BY DEF Send
  <2>4. received' \in [Phone -> Seq(1..MaxAlerts)]
    BY <1>6, <2>3, ReachType DEF Post
  <2>5. stray' \subseteq [alert: 1..MaxAlerts, batch: SUBSET Token]
    BY <1>6, StrayType DEF Post
  <2> QED BY <1>6, <2>2, <2>4, <2>5 DEF Post
<1>7. ASSUME NEW s \in Sender, Prune(s) PROVE DeliveryTypeOK'
  <2>1. sends' \in [Sender -> Send]
    BY <1>0, <1>7 DEF Prune
  <2> QED BY <1>7, <2>1 DEF Prune
<1>8. CASE Serve
  <2>1. \A q \in stray : q.alert \in 0..MaxAlerts
    OBVIOUS
  <2>2. received' \in [Phone -> Seq(1..MaxAlerts)]
    BY <1>8, <2>1, ReachType DEF Serve
  <2>3. stray' \subseteq stray
    BY <1>8 DEF Serve
  <2> QED BY <1>8, <2>2, <2>3 DEF Serve, backend
<1> QED BY <1>1, <1>2, <1>3, <1>4, <1>5, <1>6, <1>7, <1>8 DEF DeliveryNext
-----------------------------------------------------------------------------
LEMMA RequestType ==
    ASSUME NEW op \in {"register", "unregister"}, NEW token \in Token,
           NEW p \in Phone, NEW i \in Slot \cup {0}, NEW late \in BOOLEAN
    PROVE  [op |-> op, token |-> token, phone |-> p, slot |-> i, late |-> late] \in Request
BY DEF Request

LEMMA HeardType ==
    ASSUME NEW p \in Phone, NEW token \in Token
    PROVE  Heard(p, token) \subseteq Request
<1>1. [op |-> "register", token |-> token, phone |-> p, slot |-> 0, late |-> FALSE] \in Request
  BY RequestType
<1> QED BY <1>1 DEF Heard

LEMMA DeliveryTypesKept ==
    ASSUME DeliveryTypeOK, UNCHANGED <<backend, fcm, heard>>
    PROVE  DeliveryTypeOK'
BY DEF DeliveryTypeOK, backend, fcm, heard

LEMMA MintTypes ==
    ASSUME DeliveryTypeOK, UNCHANGED <<backend, heard>>, NEW p \in Phone,
           NEW token \in Token, Mint(p, token)
    PROVE  DeliveryTypeOK'
BY DEF DeliveryTypeOK, backend, heard, Mint

LEMMA OpUpdateTypes ==
    ASSUME NEW op \in Op
    PROVE  /\ [op EXCEPT !.mounted = FALSE] \in Op
           /\ \A pc \in {"get", "wait", "ok", "delete", "finish"} :
                 /\ [op EXCEPT !.pc = pc] \in Op
                 /\ \A token \in Token : [op EXCEPT !.pc = pc, !.token = token] \in Op
<1>1. [op EXCEPT !.mounted = FALSE] \in Op
  BY DEF Op
<1>2. ASSUME NEW pc \in {"get", "wait", "ok", "delete", "finish"}
      PROVE  /\ [op EXCEPT !.pc = pc] \in Op
             /\ \A token \in Token : [op EXCEPT !.pc = pc, !.token = token] \in Op
  <2>1. [op EXCEPT !.pc = pc] \in Op
    BY DEF Op
  <2>2. ASSUME NEW token \in Token PROVE [op EXCEPT !.pc = pc, !.token = token] \in Op
    BY DEF Op
  <2> QED BY <2>1, <2>2
<1> QED BY <1>1, <1>2

LEMMA OpTypes ==
    ASSUME TypeOK, NEW p \in Phone, NEW i \in Slot, NEW op \in Op,
           ops' = [ops EXCEPT ![p][i] = op]
    PROVE  ops' \in [Phone -> [Slot -> Op]]
BY DEF TypeOK

LEMMA DisturbType ==
    ASSUME TypeOK, NEW p \in Phone, Disturb(p)
    PROVE  disturbed' \in [Phone -> BOOLEAN]
BY DEF TypeOK, Disturb

LEMMA TypeStep == TypeOK /\ [Next]_vars => TypeOK'
<1> SUFFICES ASSUME TypeOK, [Next]_vars PROVE TypeOK'
  OBVIOUS
<1>0. /\ DeliveryTypeOK
      /\ {running, enabled, wired, disturbed} \subseteq [Phone -> BOOLEAN]
      /\ ops \in [Phone -> [Slot -> Op]] /\ requests \subseteq Request
      /\ NoOp \in Op /\ 1 \in Slot
  BY NoOpType, PushAssumption DEF TypeOK
<1>1. CASE Backend
  BY <1>0, <1>1, BackendTypes DEF Backend, app, TypeOK
<1>2. ASSUME NEW p \in Phone, Launch(p) PROVE TypeOK'
  <2>1. ops' \in [Phone -> [Slot -> Op]]
    BY <1>0, <1>2, StartType, OpTypes DEF Launch
  <2>2. running' \in [Phone -> BOOLEAN]
    BY <1>0, <1>2 DEF Launch
  <2> QED BY <1>0, <1>2, <2>1, <2>2, DeliveryTypesKept DEF Launch, TypeOK
<1>3. ASSUME NEW p \in Phone, Toggle(p) PROVE TypeOK'
  <2>1. ops' \in [Phone -> [Slot -> Op]]
    BY <1>3, StartType, OpTypes DEF Toggle
  <2> QED BY <1>0, <1>3, <2>1, DeliveryTypesKept DEF Toggle, TypeOK
<1>4. ASSUME NEW p \in Phone, Rotate(p) PROVE TypeOK'
  <2>1. PICK token \in Token : Mint(p, token) /\ requests' = requests \cup Heard(p, token)
    BY <1>4 DEF Rotate
  <2>2. DeliveryTypeOK'
    BY <1>0, <1>4, <2>1, MintTypes DEF Rotate
  <2>3. requests' \subseteq Request
    BY <1>0, <2>1, HeardType
  <2>4. disturbed' \in [Phone -> BOOLEAN]
    BY <1>0, <1>4, DisturbType DEF Rotate
  <2> QED BY <1>0, <1>4, <2>2, <2>3, <2>4 DEF Rotate, TypeOK
<1>5. ASSUME NEW p \in Phone, Leave(p) PROVE TypeOK'
  <2>1. PICK i \in Slot : ops' = [ops EXCEPT ![p][i].mounted = FALSE]
    BY <1>5 DEF Leave, Busy
  <2>2. ops' \in [Phone -> [Slot -> Op]]
    <3>0. ops[p][i] \in Op
      BY <1>0
    <3>1. [ops[p][i] EXCEPT !.mounted = FALSE] \in Op
      BY <3>0, OpUpdateTypes
    <3> QED BY <1>0, <2>1, <3>1
  <2>3. disturbed' \in [Phone -> BOOLEAN]
    BY <1>5, DisturbType DEF Leave
  <2> QED BY <1>0, <1>5, <2>2, <2>3, DeliveryTypesKept DEF Leave, TypeOK
<1>6. ASSUME NEW p \in Phone, Kill(p) PROVE TypeOK'
  <2>1. ops' \in [Phone -> [Slot -> Op]]
    BY <1>0, <1>6 DEF Kill
  <2>2. requests' \subseteq Request
    <3>1. ASSUME NEW r \in requests
          PROVE  [r EXCEPT !.slot = 0, !.late = TRUE] \in Request
      BY <1>0 DEF Request
    <3> QED BY <1>0, <1>6, <3>1 DEF Kill
  <2>3. disturbed' \in [Phone -> BOOLEAN]
    BY <1>0, <1>6, DisturbType DEF Kill
  <2>4. running' \in [Phone -> BOOLEAN] /\ wired' \in [Phone -> BOOLEAN]
    BY <1>0, <1>6 DEF Kill
  <2> QED BY <1>0, <1>6, <2>1, <2>2, <2>3, <2>4, DeliveryTypesKept DEF Kill, TypeOK
<1>7. ASSUME NEW p \in Phone, NEW i \in Slot, Operation(p, i) PROVE TypeOK'
  <2>0. \A pc \in {"get", "wait", "ok", "delete", "finish"} :
            /\ [ops[p][i] EXCEPT !.pc = pc] \in Op
            /\ \A token \in Token : [ops[p][i] EXCEPT !.pc = pc, !.token = token] \in Op
    <3>1. ops[p][i] \in Op
      BY <1>0
    <3> QED BY <3>1, OpUpdateTypes
  <2>1. CASE GetToken(p, i)
    <3>1. PICK token \in Token :
            /\ IF live[p] = None THEN Mint(p, token) ELSE token = live[p] /\ UNCHANGED fcm
            /\ ops' = [ops EXCEPT ![p][i].pc = "wait", ![p][i].token = token]
            /\ requests' = requests
                  \cup (IF live[p] = None THEN Heard(p, token) ELSE {})
                  \cup {[op    |-> IF ops[p][i].kind = "off" THEN "unregister" ELSE "register",
                         token |-> token, phone |-> p, slot |-> i, late |-> FALSE]}
      BY <2>1 DEF GetToken
    <3>2. ops' \in [Phone -> [Slot -> Op]]
      <4>1. [ops[p][i] EXCEPT !.pc = "wait", !.token = token] \in Op
        BY <2>0
      <4> QED BY <1>0, <3>1, <4>1
    <3>3. requests' \subseteq Request
      BY <1>0, <3>1, HeardType, RequestType
    <3>4. DeliveryTypeOK'
      BY <1>0, <2>1, <3>1, MintTypes, DeliveryTypesKept DEF GetToken
    <3>5. disturbed' \in [Phone -> BOOLEAN]
      BY <1>0, <2>1 DEF GetToken
    <3> QED BY <1>0, <2>1, <3>2, <3>3, <3>4, <3>5 DEF GetToken, TypeOK
  <2>2. CASE Continue(p, i)
    <3>1. ops' \in [Phone -> [Slot -> Op]]
      BY <1>0, <2>0, <2>2, OpTypes DEF Continue, End
    <3>2. wired' \in [Phone -> BOOLEAN]
      BY <1>0, <2>2 DEF Continue
    <3> QED BY <1>0, <2>2, <3>1, <3>2, DeliveryTypesKept DEF Continue, TypeOK
  <2>3. CASE DeleteToken(p, i)
    <3>1. ops' \in [Phone -> [Slot -> Op]]
      BY <1>0, <2>0, <2>3 DEF DeleteToken
    <3>2. DeliveryTypeOK'
      BY <1>0, <2>3 DEF DeleteToken, DeliveryTypeOK, backend, heard
    <3> QED BY <1>0, <2>3, <3>1, <3>2 DEF DeleteToken, TypeOK
  <2>4. CASE Finish(p, i)
    <3>1. ops' \in [Phone -> [Slot -> Op]]
      BY <1>0, <2>4, OpTypes DEF Finish, End
    <3>2. enabled' \in [Phone -> BOOLEAN]
      BY <1>0, <2>4 DEF Finish
    <3> QED BY <1>0, <2>4, <3>1, <3>2, DeliveryTypesKept DEF Finish, TypeOK
  <2>5. CASE FcmFails(p, i)
    <3>1. ops' \in [Phone -> [Slot -> Op]]
      BY <1>0, <2>5, OpTypes DEF FcmFails, End
    <3>2. disturbed' \in [Phone -> BOOLEAN]
      BY <2>5, DisturbType DEF FcmFails
    <3> QED BY <1>0, <2>5, <3>1, <3>2, DeliveryTypesKept DEF FcmFails, TypeOK
  <2>6. CASE GiveUp(p, i)
    <3>1. ops' \in [Phone -> [Slot -> Op]]
      BY <1>0, <2>6, OpTypes DEF GiveUp, End
    <3>2. disturbed' \in [Phone -> BOOLEAN]
      BY <2>6, DisturbType DEF GiveUp
    <3>3. requests' \subseteq Request
      <4>1. PICK r \in requests :
              requests' = (requests \ {r}) \cup {[r EXCEPT !.slot = 0, !.late = TRUE]}
        BY <2>6 DEF GiveUp
      <4>2. [r EXCEPT !.slot = 0, !.late = TRUE] \in Request
        BY <1>0 DEF Request
      <4> QED BY <1>0, <4>1, <4>2
    <3> QED BY <1>0, <2>6, <3>1, <3>2, <3>3, DeliveryTypesKept DEF GiveUp, TypeOK
  <2> QED BY <1>7, <2>1, <2>2, <2>3, <2>4, <2>5, <2>6 DEF Operation
<1>8. ASSUME NEW r \in requests, Handle(r) \/ Lose(r) PROVE TypeOK'
  <2>1. r.phone \in Phone /\ r.token \in Token /\ r.slot \in Slot \cup {0}
    BY <1>0 DEF Request
  <2>2. ASSUME NEW good \in BOOLEAN, Answer(r, good) PROVE ops' \in [Phone -> [Slot -> Op]]
    <3>1. CASE r.slot = 0
      BY <1>0, <2>2, <3>1 DEF Answer
    <3>2. CASE r.slot # 0
      <4>1. r.slot \in Slot /\ ops[r.phone][r.slot] \in Op
        BY <1>0, <2>1, <3>2
      <4>2. [ops[r.phone][r.slot] EXCEPT !.pc = "ok"] \in Op
        BY <4>1, OpUpdateTypes
      <4>3. CASE good
        <5>1. ops' = [ops EXCEPT ![r.phone][r.slot] = [@ EXCEPT !.pc = "ok"]]
          BY <2>2, <3>2, <4>3 DEF Answer
        <5> QED BY <1>0, <2>1, <4>1, <4>2, <5>1
      <4>4. CASE ~good
        <5>1. ops' = [ops EXCEPT ![r.phone][r.slot] = NoOp]
          BY <2>2, <3>2, <4>4 DEF Answer
        <5> QED BY <1>0, <2>1, <4>1, <5>1, OpTypes
      <4> QED BY <4>3, <4>4
    <3> QED BY <3>1, <3>2
  <2>3. ops' \in [Phone -> [Slot -> Op]]
    BY <1>8, <2>2 DEF Handle, Lose
  <2>4. disturbed' \in [Phone -> BOOLEAN]
    BY <1>0, <1>8, <2>1, DisturbType DEF Handle, Lose
  <2>5. requests' \subseteq Request
    BY <1>0, <1>8 DEF Handle, Lose
  <2>6. tokens' \subseteq Token
    BY <1>0, <1>8, <2>1 DEF Handle, Lose, Apply, backend, DeliveryTypeOK
  <2>7. DeliveryTypeOK'
    BY <1>0, <1>8, <2>6 DEF Handle, Lose, DeliveryTypeOK, backend, fcm, heard
  <2> QED BY <1>0, <1>8, <2>3, <2>4, <2>5, <2>7 DEF Handle, Lose, TypeOK
<1>9. CASE UNCHANGED vars
  BY <1>0, <1>9, DeliveryTypesKept DEF vars, app, TypeOK
<1> QED BY <1>1, <1>2, <1>3, <1>4, <1>5, <1>6, <1>7, <1>8, <1>9 DEF Next

-----------------------------------------------------------------------------
(***************************************************************************)
(* Known: each step of the backend, then of FCM and the phones.            *)
(***************************************************************************)
SendKnown(send) ==
    send.batch \subseteq used /\ send.dead \subseteq used /\ send.dead \cap LiveTokens = {}

(* A step that leaves FCM alone and whose tokens, requests and sends are known. *)
LEMMA KnownKept ==
    ASSUME Known, UNCHANGED fcm, tokens' \subseteq used,
           \A r \in requests' : r.token \in used,
           \A s \in Sender : SendKnown(sends'[s])
    PROVE  Known'
BY DEF Known, fcm, LiveTokens, SendKnown

LEMMA SendsKnown ==
    ASSUME Known
    PROVE  (\A s \in Sender : SendKnown(sends[s])) /\ SendKnown(NoSend)
BY DEF Known, SendKnown, NoSend

(* One sender's call goes on; the others, and FCM, stay as they are. *)
LEMMA OneSendKnown ==
    ASSUME TypeOK, Known, NEW s \in Sender, UNCHANGED <<fcm, requests>>,
           tokens' \subseteq tokens,
           NEW send, SendKnown(send), sends' = [sends EXCEPT ![s] = send]
    PROVE  Known'
<1>1. \A q \in Sender : SendKnown(sends'[q])
  BY SendsKnown DEF TypeOK, DeliveryTypeOK
<1> QED BY <1>1, KnownKept DEF Known

LEMMA BackendKnown == TypeOK /\ Known /\ DeliveryNext /\ UNCHANGED requests => Known'
<1> SUFFICES ASSUME TypeOK, Known, DeliveryNext, UNCHANGED requests PROVE Known'
  OBVIOUS
<1>0. /\ SendKnown(NoSend) /\ \A s \in Sender : SendKnown(sends[s])
      /\ tokens \subseteq used /\ "loop" \in Sender
      /\ sends \in [Sender -> Send]
  BY SendsKnown, DeliveryAssumption DEF Known, TypeOK, DeliveryTypeOK
<1>1. CASE Enqueue
  BY <1>0, <1>1, KnownKept DEF Enqueue, Known
<1>2. CASE TakeRequest
  <2>1. SendKnown([NoSend EXCEPT !.pc = "list", !.alert = Head(queue)])
    BY DEF SendKnown, NoSend
  <2> QED BY <1>0, <1>2, <2>1, OneSendKnown DEF TakeRequest
<1>3. CASE Restart
  <2>1. \A s \in Sender : sends'[s] = NoSend
    BY <1>3 DEF Restart
  <2> QED BY <1>0, <1>3, <2>1, KnownKept DEF Restart, Known
<1>4. ASSUME NEW s \in Sender, StartTest(s) PROVE Known'
  <2>1. SendKnown([NoSend EXCEPT !.pc = "list"])
    BY DEF SendKnown, NoSend
  <2> QED BY <1>0, <1>4, <2>1, OneSendKnown DEF StartTest
<1>5. ASSUME NEW s \in Sender, ListTokens(s) PROVE Known'
  <2>0. UNCHANGED <<fcm, requests>> /\ tokens' \subseteq tokens
    BY <1>5 DEF ListTokens
  <2>1. SendKnown([sends[s] EXCEPT !.pc = "post", !.batch = tokens])
    BY <1>0 DEF SendKnown, Send
  <2>2. CASE sends' = [sends EXCEPT ![s] = NoSend]
    BY <1>0, <2>0, <2>2, OneSendKnown
  <2>3. CASE sends' = [sends EXCEPT ![s] = [@ EXCEPT !.pc = "post", !.batch = tokens]]
    <3>1. sends' = [sends EXCEPT ![s] = [sends[s] EXCEPT !.pc = "post", !.batch = tokens]]
      BY <2>3
    <3> QED BY <2>0, <2>1, <3>1, OneSendKnown
  <2> QED BY <1>5, <2>2, <2>3 DEF ListTokens
<1>6. ASSUME NEW s \in Sender, Post(s) PROVE Known'
  <2>0. UNCHANGED <<fcm, requests>> /\ tokens' \subseteq tokens
    BY <1>6 DEF Post
  <2>1. CASE sends' = [sends EXCEPT ![s] = NoSend]
    BY <1>0, <2>0, <2>1, OneSendKnown
  <2>2. CASE \E failed \in SUBSET sends[s].batch :
               sends' = [sends EXCEPT ![s] = [@ EXCEPT !.pc = "prune",
                                              !.dead = Dead(sends[s].batch, failed)]]
    <3>1. PICK failed \in SUBSET sends[s].batch :
               sends' = [sends EXCEPT ![s] = [sends[s] EXCEPT !.pc = "prune",
                                              !.dead = Dead(sends[s].batch, failed)]]
      BY <2>2
    <3>2. SendKnown([sends[s] EXCEPT !.pc = "prune", !.dead = Dead(sends[s].batch, failed)])
      BY <1>0 DEF SendKnown, Send, Dead
    <3> QED BY <2>0, <3>1, <3>2, OneSendKnown
  <2> QED BY <1>6, <2>1, <2>2 DEF Post
<1>7. ASSUME NEW s \in Sender, Prune(s) PROVE Known'
  BY <1>0, <1>7, OneSendKnown DEF Prune
<1>8. CASE Serve
  <2>1. UNCHANGED <<tokens, sends, fcm>>
    BY <1>8 DEF Serve, backend
  <2> QED BY <1>0, <2>1, KnownKept, SendsKnown DEF Known
<1> QED BY <1>1, <1>2, <1>3, <1>4, <1>5, <1>6, <1>7, <1>8 DEF DeliveryNext

(* A new token cannot be one that somebody called dead: those were used before. *)
LEMMA MintKnown ==
    ASSUME TypeOK, Known, UNCHANGED <<tokens, sends>>, NEW p \in Phone, NEW token,
           Mint(p, token), \A r \in requests' : r.token \in used \cup {token}
    PROVE  Known'
<1>1. used' = used \cup {token} /\ token \notin used
  BY DEF Mint
<1>2. LiveTokens' \subseteq LiveTokens \cup {token}
  BY DEF Mint, LiveTokens, TypeOK, DeliveryTypeOK
<1> QED BY <1>1, <1>2 DEF Known

LEMMA HeardKnown ==
    ASSUME NEW p, NEW token
    PROVE  \A r \in Heard(p, token) : r.token = token
BY DEF Heard

(* A step of a phone that takes or changes requests but names no new token. *)
LEMMA PhoneKnown ==
    ASSUME Known, UNCHANGED <<backend, fcm>>, \A r \in requests' : r.token \in used
    PROVE  Known'
BY KnownKept, SendsKnown DEF backend, Known

LEMMA KnownStep == PushInv /\ [Next]_vars => Known'
<1> SUFFICES ASSUME TypeOK, Known, [Next]_vars PROVE Known'
  BY DEF PushInv
<1>0. (\A r \in requests : r.token \in used /\ r \in Request) /\ LiveTokens \subseteq used
  BY DEF Known, TypeOK
<1>1. CASE Backend
  BY <1>1, BackendKnown DEF Backend, app
<1>2. ASSUME NEW p \in Phone, Launch(p) \/ Toggle(p) \/ Leave(p) PROVE Known'
  <2>1. UNCHANGED <<backend, fcm, requests>>
    BY <1>2 DEF Launch, Toggle, Leave
  <2> QED BY <1>0, <2>1, PhoneKnown
<1>3. ASSUME NEW p \in Phone, Rotate(p) PROVE Known'
  <2>1. PICK token \in Token : Mint(p, token) /\ requests' = requests \cup Heard(p, token)
    BY <1>3 DEF Rotate
  <2>2. \A r \in requests' : r.token \in used \cup {token}
    BY <1>0, <2>1, HeardKnown
  <2> QED BY <1>3, <2>1, <2>2, MintKnown DEF Rotate, backend
<1>4. ASSUME NEW p \in Phone, Kill(p) PROVE Known'
  <2>1. ASSUME NEW r \in requests PROVE [r EXCEPT !.slot = 0, !.late = TRUE].token \in used
    BY <1>0 DEF Request
  <2>2. \A r \in requests' : r.token \in used
    BY <1>0, <1>4, <2>1 DEF Kill
  <2> QED BY <1>4, <2>2, PhoneKnown DEF Kill
<1>5. ASSUME NEW p \in Phone, NEW i \in Slot, Operation(p, i) PROVE Known'
  <2>1. CASE GetToken(p, i)
    <3>1. PICK token \in Token :
            /\ IF live[p] = None THEN Mint(p, token) ELSE token = live[p] /\ UNCHANGED fcm
            /\ ops' = [ops EXCEPT ![p][i].pc = "wait", ![p][i].token = token]
            /\ requests' = requests
                  \cup (IF live[p] = None THEN Heard(p, token) ELSE {})
                  \cup {[op    |-> IF ops[p][i].kind = "off" THEN "unregister" ELSE "register",
                         token |-> token, phone |-> p, slot |-> i, late |-> FALSE]}
      BY <2>1 DEF GetToken
    <3>2. \A r \in requests' : r.token \in used \cup {token}
      BY <1>0, <3>1, HeardKnown
    <3>3. UNCHANGED backend
      BY <2>1 DEF GetToken
    <3>4. CASE live[p] = None
      BY <3>1, <3>2, <3>3, <3>4, MintKnown DEF backend
    <3>5. CASE live[p] # None
      <4>1. token \in used
        BY <1>0, <3>1, <3>5 DEF LiveTokens
      <4> QED BY <3>1, <3>2, <3>3, <3>5, <4>1, PhoneKnown
    <3> QED BY <3>4, <3>5
  <2>2. CASE Continue(p, i) \/ Finish(p, i) \/ FcmFails(p, i)
    <3>1. UNCHANGED <<backend, fcm, requests>>
      BY <2>2 DEF Continue, Finish, FcmFails
    <3> QED BY <1>0, <3>1, PhoneKnown
  <2>3. CASE DeleteToken(p, i)
    <3>1. LiveTokens' \subseteq LiveTokens
      BY <2>3 DEF DeleteToken, LiveTokens, TypeOK, DeliveryTypeOK
    <3> QED BY <2>3, <3>1 DEF DeleteToken, Known, backend
  <2>4. CASE GiveUp(p, i)
    <3>1. PICK r \in requests :
            requests' = (requests \ {r}) \cup {[r EXCEPT !.slot = 0, !.late = TRUE]}
      BY <2>4 DEF GiveUp
    <3>2. [r EXCEPT !.slot = 0, !.late = TRUE].token = r.token
      BY <1>0 DEF Request
    <3>3. \A q \in requests' : q.token \in used
      BY <1>0, <3>1, <3>2
    <3> QED BY <2>4, <3>3, PhoneKnown DEF GiveUp
  <2> QED BY <1>5, <2>1, <2>2, <2>3, <2>4 DEF Operation
<1>6. ASSUME NEW r \in requests, Handle(r) PROVE Known'
  <2>1. tokens' \subseteq used
    <3>1. tokens' = Apply(r) \/ tokens' = tokens
      BY <1>6 DEF Handle
    <3>2. Apply(r) \subseteq tokens \cup {r.token}
      BY DEF Apply
    <3> QED BY <1>0, <3>1, <3>2 DEF Known
  <2>2. UNCHANGED <<fcm, sends>> /\ requests' \subseteq requests
    BY <1>6 DEF Handle
  <2> QED BY <1>0, <2>1, <2>2, KnownKept, SendsKnown
<1>7. ASSUME NEW r \in requests, Lose(r) PROVE Known'
  BY <1>0, <1>7, PhoneKnown DEF Lose
<1>8. CASE UNCHANGED vars
  BY <1>0, <1>8, PhoneKnown DEF vars, app
<1> QED BY <1>1, <1>2, <1>3, <1>4, <1>5, <1>6, <1>7, <1>8 DEF Next
-----------------------------------------------------------------------------
LEMMA PushInductive == Spec => []PushInv
<1>1. Init => PushInv
  BY PushInit
<1>2. PushInv /\ [Next]_vars => PushInv'
  BY TypeStep, KnownStep DEF PushInv
<1> QED BY <1>1, <1>2, PTL DEF Spec

(* In every execution the backend's and the phones' data keep their types; the
   channel of delivery.rs never holds more than its capacity. *)
THEOREM PushTypesCorrect == Spec => []TypeOK
<1>1. PushInv => TypeOK
  BY DEF PushInv
<1> QED BY <1>1, PushInductive, PTL

(* The step that prunes drops only tokens that are dead at that moment, however old
   the answer it acts on. *)
LEMMA LiveTokenKeptStep ==
    PushInv /\ [Next]_vars =>
        \A t \in LiveTokens : t \in tokens /\ t \notin tokens' =>
            \E r \in requests \ requests' : r.op = "unregister" /\ r.token = t
<1> SUFFICES ASSUME PushInv, [Next]_vars, NEW t \in LiveTokens, t \in tokens, t \notin tokens'
             PROVE  \E r \in requests \ requests' : r.op = "unregister" /\ r.token = t
  OBVIOUS
<1>1. CASE Backend
  <2>1. ASSUME NEW s \in Sender, Prune(s) PROVE FALSE
    BY <2>1 DEF Prune, PushInv, Known
  <2>2. tokens' = tokens \/ \E s \in Sender : Prune(s)
    BY <1>1 DEF Backend, DeliveryNext, Enqueue, TakeRequest, Restart, StartTest,
                ListTokens, Post, Serve, backend
  <2> QED BY <2>1, <2>2
<1>2. ASSUME NEW r \in requests, Handle(r)
      PROVE  \E q \in requests \ requests' : q.op = "unregister" /\ q.token = t
  <2>1. r \in requests \ requests'
    BY <1>2 DEF Handle
  <2>2. r.op # "register" /\ r.token = t
    BY <1>2 DEF Handle, Apply
  <2>3. r.op = "unregister"
    BY <2>2 DEF PushInv, TypeOK, Request
  <2> QED BY <2>1, <2>2, <2>3
<1>3. CASE tokens' = tokens
  BY <1>3
<1>4. Backend \/ (\E r \in requests : Handle(r)) \/ tokens' = tokens
  <2>1. ASSUME NEW p \in Phone,
               Launch(p) \/ Toggle(p) \/ Rotate(p) \/ Leave(p) \/ Kill(p)
        PROVE  tokens' = tokens
    BY <2>1 DEF Launch, Toggle, Rotate, Leave, Kill, backend
  <2>2. ASSUME NEW p \in Phone, NEW i \in Slot, Operation(p, i) PROVE tokens' = tokens
    BY <2>2 DEF Operation, GetToken, Continue, DeleteToken, Finish, FcmFails, GiveUp, backend
  <2>3. ASSUME NEW r \in requests, Lose(r) PROVE tokens' = tokens
    BY <2>3 DEF Lose, backend
  <2>4. CASE UNCHANGED vars
    BY <2>4 DEF vars, backend
  <2> QED BY <2>1, <2>2, <2>3, <2>4 DEF Next
<1> QED BY <1>1, <1>2, <1>3, <1>4

(* dead_tokens and delete_many, from answers that may be old, never unregister a
   phone whose token works: that only its own request can do. *)
THEOREM LiveTokensAreKept == Spec => LiveTokensKept
<1> DEFINE A == \A t \in LiveTokens : t \in tokens /\ t \notin tokens' =>
                   \E r \in requests \ requests' : r.op = "unregister" /\ r.token = t
<1>1. PushInv /\ [Next]_vars => A
  BY LiveTokenKeptStep
<1>2. LiveTokensKept <=> [][A]_vars
  BY DEF LiveTokensKept
<1> HIDE DEF A
<1>3. Spec => [][A]_vars
  BY <1>1, PushInductive, PTL DEF Spec
<1> QED BY <1>2, <1>3
-----------------------------------------------------------------------------
(***************************************************************************)
(* The toggle.  What a phone at rest shows can only be explained by what   *)
(* it was in the middle of: Calm says, for a phone that nothing has        *)
(* disturbed, how far its one operation has come with the registration.    *)
(* Screens says which operations there can be, OwnTokens that none has     *)
(* another's token, and Answered which request an operation waits for.     *)
(***************************************************************************)
Screens ==
    \A p \in Phone :
        /\ ~running[p] => Busy(p) = {}
        /\ \A i \in Busy(p) :
              /\ ops[p][i].kind = "launch" => Busy(p) = {i} /\ enabled[p]
              /\ ops[p][i].pc = "delete" => ops[p][i].kind = "off"
              /\ ops[p][i].pc = "finish" => ops[p][i].kind # "launch"

OwnTokens ==
    /\ \A r \in requests, p \in Phone : r.token = live[p] => r.phone = p
    /\ \A p, q \in Phone : live[p] = live[q] /\ live[p] # None => p = q

Waits(op, r) ==
    /\ op.kind # "none" /\ op.pc = "wait"
    /\ r.op = IF op.kind = "off" THEN "unregister" ELSE "register"

Answered ==
    /\ \A r \in requests : r.slot # 0 => Waits(ops[r.phone][r.slot], r)
    /\ \A r \in requests : r.slot = 0 /\ ~r.late => r.op = "register"
    /\ \A r, q \in requests : r.phone = q.phone /\ r.slot = q.slot /\ r.slot # 0 => r = q

Registered(p) ==
    /\ live[p] # None
    /\ \/ live[p] \in tokens
       \/ \E r \in requests : r.phone = p /\ r.op = "register" /\ r.token = live[p]

Rest(p) == IF enabled[p] THEN Registered(p) ELSE live[p] = None

Midway(p, op) ==
    /\ op.mounted \/ op.kind = "launch"
    /\ op.pc = "get" => Rest(p)
    /\ op.pc # "get" /\ op.kind # "off" => Registered(p)
    /\ op.pc = "finish" /\ op.kind = "off" => live[p] = None

Calm(p) ==
    /\ Busy(p) = {} => Rest(p)
    /\ \A i \in Busy(p) : Busy(p) = {i} /\ Midway(p, ops[p][i])

CalmInv == \A p \in Phone : ~disturbed[p] => Calm(p)

ToggleInv == Screens /\ OwnTokens /\ Answered /\ CalmInv
-----------------------------------------------------------------------------
(* One operation becomes op, the others stay as they are. *)
OneOp(p, i, op) ==
    /\ ops'[p][i] = op
    /\ \A q \in Phone, j \in Slot : q # p \/ j # i => ops'[q][j] = ops[q][j]

LEMMA OpsUpdated ==
    ASSUME TypeOK, NEW p \in Phone, NEW i \in Slot, NEW op,
           ops' = [ops EXCEPT ![p][i] = op]
    PROVE  OneOp(p, i, op)
BY DEF TypeOK, OneOp

LEMMA OpStep ==
    ASSUME TypeOK, NEW p \in Phone, NEW i \in Slot
    PROVE  /\ \A pc, token : ops' = [ops EXCEPT ![p][i].pc = pc, ![p][i].token = token]
                  => OneOp(p, i, [ops[p][i] EXCEPT !.pc = pc, !.token = token])
           /\ \A pc : ops' = [ops EXCEPT ![p][i].pc = pc]
                  => OneOp(p, i, [ops[p][i] EXCEPT !.pc = pc])
           /\ ops' = [ops EXCEPT ![p][i].mounted = FALSE]
                  => OneOp(p, i, [ops[p][i] EXCEPT !.mounted = FALSE])
           /\ ops[p][i] \in Op
<1>0. ops \in [Phone -> [Slot -> Op]]
  BY DEF TypeOK
<1>1. ASSUME NEW pc, NEW token,
             ops' = [ops EXCEPT ![p][i].pc = pc, ![p][i].token = token]
      PROVE  OneOp(p, i, [ops[p][i] EXCEPT !.pc = pc, !.token = token])
  BY <1>0, <1>1 DEF OneOp
<1>2. ASSUME NEW pc, ops' = [ops EXCEPT ![p][i].pc = pc]
      PROVE  OneOp(p, i, [ops[p][i] EXCEPT !.pc = pc])
  BY <1>0, <1>2 DEF OneOp
<1>3. ASSUME ops' = [ops EXCEPT ![p][i].mounted = FALSE]
      PROVE  OneOp(p, i, [ops[p][i] EXCEPT !.mounted = FALSE])
  BY <1>0, <1>3 DEF OneOp
<1> QED BY <1>0, <1>1, <1>2, <1>3

(* The steps of a phone's operations, as far as the toggle is concerned. *)
LEMMA OperationEffect ==
    ASSUME TypeOK, Answered, NEW p \in Phone, NEW i \in Slot, Operation(p, i)
    PROVE  /\ i \in Busy(p) /\ UNCHANGED <<tokens, running>>
           /\ enabled' # enabled => Finish(p, i)
           /\ \E op : /\ OneOp(p, i, op)
                      /\ \/ /\ op.kind = ops[p][i].kind /\ op.mounted = ops[p][i].mounted
                            /\ \/ ops[p][i].pc = "get" /\ op.pc = "wait"
                               \/ /\ ops[p][i].pc = "ok"
                                  /\ op.kind # "launch"
                                  /\ op.pc = IF op.kind = "on" THEN "finish" ELSE "delete"
                               \/ ops[p][i].pc = "delete" /\ op.pc = "finish"
                         \/ op = NoOp
<1>0. ops[p][i] \in Op
  BY OpStep
<1>1. CASE GetToken(p, i)
  <2>1. PICK token \in Token :
            ops' = [ops EXCEPT ![p][i].pc = "wait", ![p][i].token = token]
    BY <1>1 DEF GetToken
  <2>2. OneOp(p, i, [ops[p][i] EXCEPT !.pc = "wait", !.token = token])
    BY <2>1, OpStep
  <2>3. /\ ops[p][i].pc = "get" /\ i \in Busy(p)
        /\ UNCHANGED <<tokens, running, enabled>>
    BY <1>1 DEF GetToken, backend
  <2>4. LET op == [ops[p][i] EXCEPT !.pc = "wait", !.token = token]
        IN  op.kind = ops[p][i].kind /\ op.mounted = ops[p][i].mounted /\ op.pc = "wait"
    BY <1>0 DEF Op
  <2> QED BY <2>2, <2>3, <2>4
<1>2. CASE Continue(p, i)
  <2>1. /\ ops[p][i].pc = "ok" /\ i \in Busy(p)
        /\ UNCHANGED <<tokens, running, enabled>>
    BY <1>2 DEF Continue, backend
  <2>2. ops[p][i].kind \in {"launch", "on", "off"}
    BY <1>0, <2>1 DEF Busy, Op
  <2>3. CASE ops[p][i].kind = "launch"
    <3>1. OneOp(p, i, NoOp)
      BY <1>2, <2>3, OpsUpdated DEF Continue, End
    <3> QED BY <2>1, <3>1
  <2>4. CASE ops[p][i].kind # "launch"
    <3> DEFINE pc == IF ops[p][i].kind = "on" THEN "finish" ELSE "delete"
               op == [ops[p][i] EXCEPT !.pc = pc]
    <3>1. OneOp(p, i, op)
      BY <1>2, <2>2, <2>4, OpStep DEF Continue
    <3>2. op.kind = ops[p][i].kind /\ op.mounted = ops[p][i].mounted /\ op.pc = pc
      BY <1>0 DEF Op
    <3> QED BY <2>1, <2>4, <3>1, <3>2
  <2> QED BY <2>3, <2>4
<1>3. CASE DeleteToken(p, i)
  <2>1. OneOp(p, i, [ops[p][i] EXCEPT !.pc = "finish"])
    BY <1>3, OpStep DEF DeleteToken
  <2>2. /\ ops[p][i].pc = "delete" /\ i \in Busy(p)
        /\ UNCHANGED <<tokens, running, enabled>>
    BY <1>3 DEF DeleteToken, backend
  <2>3. LET op == [ops[p][i] EXCEPT !.pc = "finish"]
        IN  op.kind = ops[p][i].kind /\ op.mounted = ops[p][i].mounted /\ op.pc = "finish"
    BY <1>0 DEF Op
  <2> QED BY <2>1, <2>2, <2>3
<1>4. CASE Finish(p, i) \/ FcmFails(p, i)
  <2>1. OneOp(p, i, NoOp)
    BY <1>4, OpsUpdated DEF Finish, FcmFails, End
  <2>2. /\ i \in Busy(p) /\ UNCHANGED <<tokens, running>>
        /\ enabled' # enabled => Finish(p, i)
    BY <1>4 DEF Finish, FcmFails, backend
  <2> QED BY <2>1, <2>2
<1>5. CASE GiveUp(p, i)
  <2>1. OneOp(p, i, NoOp)
    BY <1>5, OpsUpdated DEF GiveUp, End
  <2>2. UNCHANGED <<tokens, running, enabled>>
    BY <1>5 DEF GiveUp, backend
  <2>3. i \in Busy(p)
    BY <1>5, PushAssumption DEF GiveUp, Answered, Waits, Busy
  <2> QED BY <2>1, <2>2, <2>3
<1> QED BY <1>1, <1>2, <1>3, <1>4, <1>5 DEF Operation

(* The answer reaches the operation that waits for it, if there is one. *)
LEMMA AnswerEffect ==
    ASSUME TypeOK, NEW r \in requests, NEW good \in BOOLEAN, Answer(r, good)
    PROVE  /\ r.phone \in Phone /\ r.slot \in Slot \cup {0}
           /\ r.slot = 0 => ops' = ops
           /\ r.slot # 0 => \E op : /\ OneOp(r.phone, r.slot, op)
                                    /\ good => /\ op.kind = ops[r.phone][r.slot].kind
                                               /\ op.mounted = ops[r.phone][r.slot].mounted
                                               /\ op.pc = "ok"
                                    /\ ~good => op = NoOp
<1>1. r.phone \in Phone /\ r.slot \in Slot \cup {0}
  BY DEF TypeOK, Request
<1>2. CASE r.slot = 0
  BY <1>1, <1>2 DEF Answer
<1>3. CASE r.slot # 0 /\ good
  <2>1. r.slot \in Slot /\ ops' = [ops EXCEPT ![r.phone][r.slot].pc = "ok"]
    BY <1>1, <1>3 DEF Answer
  <2>2. OneOp(r.phone, r.slot, [ops[r.phone][r.slot] EXCEPT !.pc = "ok"])
    BY <1>1, <2>1, OpStep
  <2>3. LET op == [ops[r.phone][r.slot] EXCEPT !.pc = "ok"]
        IN  /\ op.kind = ops[r.phone][r.slot].kind
            /\ op.mounted = ops[r.phone][r.slot].mounted /\ op.pc = "ok"
    <3>1. ops[r.phone][r.slot] \in Op
      BY <1>1, <2>1, OpStep
    <3> QED BY <3>1 DEF Op
  <2> QED BY <1>1, <1>3, <2>2, <2>3
<1>4. CASE r.slot # 0 /\ ~good
  <2>1. OneOp(r.phone, r.slot, NoOp)
    BY <1>1, <1>4, OpsUpdated DEF Answer
  <2> QED BY <1>1, <1>4, <2>1
<1> QED BY <1>2, <1>3, <1>4
-----------------------------------------------------------------------------
(* An operation goes on as far as Screens is concerned. *)
GoesOn(old, new) ==
    \/ new.kind = "none"
    \/ /\ new.kind = old.kind
       /\ new.pc = "delete" => old.pc = "delete" \/ old.kind = "off"
       /\ new.pc = "finish" => old.pc = "finish" \/ old.kind # "launch"

LEMMA NoOpIsFree == NoOp.kind = "none"
BY DEF NoOp

LEMMA ScreensKept ==
    ASSUME Screens, UNCHANGED <<running, enabled>>,
           \A p \in Phone, i \in Slot : GoesOn(ops[p][i], ops'[p][i])
    PROVE  Screens'
<1>1. \A p \in Phone : Busy(p)' \subseteq Busy(p)
  BY DEF Busy, GoesOn
<1> SUFFICES ASSUME NEW p \in Phone
             PROVE  /\ ~running[p] => Busy(p)' = {}
                    /\ \A i \in Busy(p)' :
                          /\ ops'[p][i].kind = "launch" => Busy(p)' = {i} /\ enabled[p]
                          /\ ops'[p][i].pc = "delete" => ops'[p][i].kind = "off"
                          /\ ops'[p][i].pc = "finish" => ops'[p][i].kind # "launch"
  BY DEF Screens
<1>2. ~running[p] => Busy(p)' = {}
  BY <1>1 DEF Screens
<1>3. ASSUME NEW i \in Busy(p)'
      PROVE  /\ ops'[p][i].kind = "launch" => Busy(p)' = {i} /\ enabled[p]
             /\ ops'[p][i].pc = "delete" => ops'[p][i].kind = "off"
             /\ ops'[p][i].pc = "finish" => ops'[p][i].kind # "launch"
  <2>1. i \in Slot /\ ops'[p][i].kind # "none" /\ i \in Busy(p)
    BY <1>1, <1>3 DEF Busy
  <2>2. GoesOn(ops[p][i], ops'[p][i])
    BY <2>1
  <2>3. ops'[p][i].kind = "launch" => Busy(p) = {i} /\ enabled[p]
    BY <2>1, <2>2 DEF GoesOn, Screens
  <2>4. Busy(p) = {i} => Busy(p)' = {i}
    BY <1>1, <1>3
  <2> QED BY <2>1, <2>2, <2>3, <2>4 DEF GoesOn, Screens
<1> QED BY <1>2, <1>3

LEMMA ScreensStep == TypeOK /\ Answered /\ Screens /\ [Next]_vars => Screens'
<1> SUFFICES ASSUME TypeOK, Answered, Screens, [Next]_vars PROVE Screens'
  OBVIOUS
<1>0. /\ ops \in [Phone -> [Slot -> Op]] /\ running \in [Phone -> BOOLEAN]
      /\ enabled \in [Phone -> BOOLEAN]
  BY DEF TypeOK
<1>1. CASE UNCHANGED <<running, enabled, ops>>
  BY <1>1 DEF Screens, Busy
<1>2. Backend \/ (\E p \in Phone : Rotate(p)) \/ UNCHANGED vars
          => UNCHANGED <<running, enabled, ops>>
  BY DEF Backend, Rotate, vars, app
(* An operation starts. *)
<1>3. ASSUME NEW p \in Phone, NEW i \in Slot, NEW kind \in {"launch", "on", "off"},
             OneOp(p, i, Start(kind)), enabled' = enabled, running'[p],
             \A q \in Phone : q # p => running'[q] = running[q],
             \A j \in Busy(p) : ops[p][j].kind # "launch",
             kind = "launch" => Busy(p) = {} /\ enabled[p]
      PROVE  Screens'
  <2>1. Start(kind).kind = kind /\ Start(kind).pc = "get"
    BY DEF Start, NoOp
  <2>2. Busy(p)' = Busy(p) \cup {i}
    BY <1>3, <2>1 DEF OneOp, Busy
  <2>3. \A q \in Phone : q # p => Busy(q)' = Busy(q)
    BY <1>3 DEF OneOp, Busy
  <2>4. \A j \in Busy(p)' : j # i => j \in Busy(p) /\ ops'[p][j] = ops[p][j]
    BY <1>3, <2>2 DEF OneOp, Busy
  <2>5. \A q \in Phone, j \in Slot : q # p => ops'[q][j] = ops[q][j]
    BY <1>3 DEF OneOp
  <2>6. ops'[p][i] = Start(kind)
    BY <1>3 DEF OneOp
  <2>7. \A j \in Busy(p)' :
            /\ ops'[p][j].kind = "launch" => Busy(p)' = {j} /\ enabled'[p]
            /\ ops'[p][j].pc = "delete" => ops'[p][j].kind = "off"
            /\ ops'[p][j].pc = "finish" => ops'[p][j].kind # "launch"
    BY <1>3, <2>1, <2>2, <2>4, <2>6 DEF Screens
  <2>8. \A q \in Phone : q # p =>
            \A j \in Busy(q)' :
                /\ ops'[q][j].kind = "launch" => Busy(q)' = {j} /\ enabled'[q]
                /\ ops'[q][j].pc = "delete" => ops'[q][j].kind = "off"
                /\ ops'[q][j].pc = "finish" => ops'[q][j].kind # "launch"
    <3> TAKE q \in Phone
    <3> HAVE q # p
    <3> TAKE j \in Busy(q)'
    <3>1. j \in Slot /\ j \in Busy(q) /\ ops'[q][j] = ops[q][j]
      BY <2>3, <2>5 DEF Busy
    <3> QED BY <1>3, <2>3, <3>1 DEF Screens
  <2>9. \A q \in Phone : ~running'[q] => Busy(q)' = {}
    BY <1>3, <2>3 DEF Screens
  <2> QED BY <2>7, <2>8, <2>9 DEF Screens
<1>4. ASSUME NEW p \in Phone, Launch(p) PROVE Screens'
  <2>1. /\ running' = [running EXCEPT ![p] = TRUE] /\ enabled' = enabled /\ ~running[p]
        /\ Busy(p) = {}
    BY <1>4 DEF Launch, Screens
  <2>2. CASE enabled[p]
    <3>1. 1 \in Slot /\ OneOp(p, 1, Start("launch"))
      BY <1>4, <2>2, OpsUpdated, PushAssumption DEF Launch
    <3> QED BY <1>0, <1>3, <2>1, <2>2, <3>1
  <2>3. CASE ~enabled[p]
    <3>1. ops' = ops
      BY <1>4, <2>3 DEF Launch
    <3>2. \A q \in Phone : ~running'[q] => ~running[q]
      BY <1>0, <2>1
    <3> QED BY <2>1, <3>1, <3>2 DEF Screens, Busy
  <2> QED BY <2>2, <2>3
<1>5. ASSUME NEW p \in Phone, Toggle(p) PROVE Screens'
  <2>1. PICK i \in Slot \ Busy(p) :
            ops' = [ops EXCEPT ![p][i] = Start(IF enabled[p] THEN "off" ELSE "on")]
    BY <1>5 DEF Toggle
  <2> DEFINE kind == IF enabled[p] THEN "off" ELSE "on"
  <2>2. OneOp(p, i, Start(kind)) /\ kind \in {"on", "off"}
    BY <2>1, OpsUpdated
  <2> HIDE DEF kind
  <2> QED BY <1>3, <1>5, <2>2 DEF Toggle
<1>6. ASSUME NEW p \in Phone, NEW i \in Slot, NEW op, OneOp(p, i, op),
             GoesOn(ops[p][i], op), UNCHANGED <<running, enabled>>
      PROVE  Screens'
  BY <1>6, ScreensKept DEF OneOp, GoesOn
<1>7. ASSUME NEW p \in Phone, NEW i \in Slot, Operation(p, i) PROVE Screens'
  <2>1. PICK op : /\ OneOp(p, i, op)
                  /\ \/ /\ op.kind = ops[p][i].kind /\ op.mounted = ops[p][i].mounted
                        /\ \/ ops[p][i].pc = "get" /\ op.pc = "wait"
                           \/ /\ ops[p][i].pc = "ok"
                              /\ op.kind # "launch"
                              /\ op.pc = IF op.kind = "on" THEN "finish" ELSE "delete"
                           \/ ops[p][i].pc = "delete" /\ op.pc = "finish"
                     \/ op = NoOp
    BY <1>7, OperationEffect
  <2>2. i \in Busy(p) /\ ops[p][i].kind \in {"launch", "on", "off"} /\ running' = running
    BY <1>0, <1>7, OperationEffect DEF Busy, Op
  <2>3. GoesOn(ops[p][i], op)
    BY <2>1, <2>2, NoOpIsFree DEF GoesOn, Screens
  <2>4. CASE enabled' = enabled
    BY <1>6, <2>1, <2>2, <2>3, <2>4
  <2>5. CASE Finish(p, i)
    <3>1. /\ ops[p][i].pc = "finish" /\ \A q \in Phone : q # p => enabled'[q] = enabled[q]
          /\ ops'[p][i].kind = "none"
      <4>1. OneOp(p, i, NoOp)
        BY <2>5, OpsUpdated DEF Finish, End
      <4> QED BY <1>0, <2>5, <4>1, NoOpIsFree DEF Finish, OneOp
    <3>2. Busy(p)' \subseteq Busy(p) \ {i} /\ \A q \in Phone : q # p => Busy(q)' = Busy(q)
      BY <2>1, <3>1 DEF OneOp, Busy
    <3>3. \A j \in Busy(p) : ops[p][j].kind = "launch" => j = i
      BY <2>2 DEF Screens
    <3>4. \A q \in Phone, j \in Slot : q # p \/ j # i => ops'[q][j] = ops[q][j]
      BY <2>1 DEF OneOp
    <3>5. \A q \in Phone : ~running'[q] => Busy(q)' = {}
      BY <2>2, <3>2 DEF Screens
    <3>6. ASSUME NEW q \in Phone, NEW j \in Busy(q)'
          PROVE  /\ ops'[q][j].kind = "launch" => Busy(q)' = {j} /\ enabled'[q]
                 /\ ops'[q][j].pc = "delete" => ops'[q][j].kind = "off"
                 /\ ops'[q][j].pc = "finish" => ops'[q][j].kind # "launch"
      <4>1. j \in Slot
        BY <3>6 DEF Busy
      <4>2. CASE q = p
        <5>1. j \in Busy(p) /\ j # i /\ ops'[p][j] = ops[p][j]
          BY <3>2, <3>4, <3>6, <4>1, <4>2
        <5> QED BY <3>3, <4>2, <5>1 DEF Screens
      <4>3. CASE q # p
        <5>1. j \in Busy(q) /\ ops'[q][j] = ops[q][j] /\ enabled'[q] = enabled[q]
          BY <3>1, <3>2, <3>4, <3>6, <4>1, <4>3
        <5> QED BY <3>2, <4>3, <5>1 DEF Screens
      <4> QED BY <4>2, <4>3
    <3> QED BY <3>5, <3>6 DEF Screens
  <2> QED BY <1>7, <2>4, <2>5, OperationEffect
<1>8. ASSUME NEW p \in Phone, Leave(p) PROVE Screens'
  <2>1. PICK i \in Busy(p) : ops' = [ops EXCEPT ![p][i].mounted = FALSE]
    BY <1>8 DEF Leave
  <2>2. i \in Slot
    BY DEF Busy
  <2>3. OneOp(p, i, [ops[p][i] EXCEPT !.mounted = FALSE]) /\ ops[p][i] \in Op
    BY <2>1, <2>2, OpStep
  <2>4. GoesOn(ops[p][i], [ops[p][i] EXCEPT !.mounted = FALSE])
    BY <2>3 DEF GoesOn, Op
  <2> QED BY <1>6, <1>8, <2>2, <2>3, <2>4 DEF Leave
<1>9. ASSUME NEW p \in Phone, Kill(p) PROVE Screens'
  <2>1. /\ \A q \in Phone : q # p => /\ running'[q] = running[q]
                                     /\ \A j \in Slot : ops'[q][j] = ops[q][j]
        /\ \A j \in Slot : ops'[p][j].kind = "none"
        /\ enabled' = enabled
    BY <1>0, <1>9, NoOpIsFree DEF Kill
  <2>2. Busy(p)' = {} /\ \A q \in Phone : q # p => Busy(q)' = Busy(q)
    BY <2>1 DEF Busy
  <2>3. ASSUME NEW q \in Phone, q # p
        PROVE  /\ ~running'[q] => Busy(q)' = {}
               /\ \A j \in Busy(q)' :
                    /\ ops'[q][j].kind = "launch" => Busy(q)' = {j} /\ enabled'[q]
                    /\ ops'[q][j].pc = "delete" => ops'[q][j].kind = "off"
                    /\ ops'[q][j].pc = "finish" => ops'[q][j].kind # "launch"
    <3>1. \A j \in Busy(q)' : j \in Busy(q) /\ ops'[q][j] = ops[q][j]
      BY <2>1, <2>2, <2>3 DEF Busy
    <3> QED BY <2>1, <2>2, <2>3, <3>1 DEF Screens
  <2> QED BY <2>2, <2>3 DEF Screens
<1>10. ASSUME NEW r \in requests, Handle(r) \/ Lose(r) PROVE Screens'
  <2>1. PICK good \in BOOLEAN : Answer(r, good)
    BY <1>10 DEF Handle, Lose
  <2>2. UNCHANGED <<running, enabled>>
    BY <1>10 DEF Handle, Lose
  <2>3. CASE r.slot = 0
    BY <1>1, <2>1, <2>2, <2>3, AnswerEffect
  <2>4. CASE r.slot # 0
    <3>1. PICK op : /\ OneOp(r.phone, r.slot, op)
                    /\ good => /\ op.kind = ops[r.phone][r.slot].kind /\ op.pc = "ok"
                    /\ ~good => op = NoOp
      BY <2>1, <2>4, AnswerEffect
    <3>2. GoesOn(ops[r.phone][r.slot], op)
      BY <3>1, NoOpIsFree DEF GoesOn
    <3>3. r.phone \in Phone /\ r.slot \in Slot
      BY <2>1, <2>4, AnswerEffect
    <3> QED BY <1>6, <2>2, <3>1, <3>2, <3>3
  <2> QED BY <2>3, <2>4
<1> QED BY <1>1, <1>2, <1>4, <1>5, <1>7, <1>8, <1>9, <1>10 DEF Next
-----------------------------------------------------------------------------
(* What an operation asks of the backend, and what the listener does. *)
Asks(p, i, token) ==
    [op |-> IF ops[p][i].kind = "off" THEN "unregister" ELSE "register",
     token |-> token, phone |-> p, slot |-> i, late |-> FALSE]

LEMMA HeardRequests ==
    ASSUME NEW p, NEW token
    PROVE  /\ \A r \in Heard(p, token) : /\ r.token = token /\ r.phone = p
                                         /\ r.op = "register" /\ r.slot = 0 /\ ~r.late
           /\ running[p] /\ wired[p] => \E r \in Heard(p, token) : TRUE
<1> DEFINE it == [op |-> "register", token |-> token, phone |-> p, slot |-> 0, late |-> FALSE]
<1>1. /\ it.token = token /\ it.phone = p /\ it.op = "register" /\ it.slot = 0 /\ ~it.late
  OBVIOUS
<1>2. Heard(p, token) = IF running[p] /\ wired[p] THEN {it} ELSE {}
  BY DEF Heard
<1> HIDE DEF it
<1> QED BY <1>1, <1>2

LEMMA GetTokenEffect ==
    ASSUME TypeOK, NEW p \in Phone, NEW i \in Slot, GetToken(p, i)
    PROVE  /\ ops[p][i].pc = "get" /\ ops[p][i].kind # "none"
           /\ \E token \in Token :
                /\ token = live'[p] /\ token # None
                /\ \/ Mint(p, token)
                   \/ live[p] = token /\ UNCHANGED fcm
                /\ \E heardOf \in {{}, Heard(p, token)} :
                        requests' = requests \cup heardOf \cup {Asks(p, i, token)}
                /\ OneOp(p, i, [ops[p][i] EXCEPT !.pc = "wait", !.token = token])
<1>1. PICK token \in Token :
        /\ IF live[p] = None THEN Mint(p, token) ELSE token = live[p] /\ UNCHANGED fcm
        /\ ops' = [ops EXCEPT ![p][i].pc = "wait", ![p][i].token = token]
        /\ requests' = requests
              \cup (IF live[p] = None THEN Heard(p, token) ELSE {}) \cup {Asks(p, i, token)}
  BY DEF GetToken, Asks
<1>2. OneOp(p, i, [ops[p][i] EXCEPT !.pc = "wait", !.token = token])
  BY <1>1, OpStep
<1>3. token # None
  BY DeliveryAssumption
<1>4. token = live'[p]
  BY <1>1 DEF Mint, fcm, TypeOK, DeliveryTypeOK
<1>5. ops[p][i].pc = "get" /\ ops[p][i].kind # "none"
  BY DEF GetToken, Busy
<1>6. \E heardOf \in {{}, Heard(p, token)} :
            requests' = requests \cup heardOf \cup {Asks(p, i, token)}
  <2>1. CASE live[p] = None
    BY <1>1, <2>1
  <2>2. CASE live[p] # None
    BY <1>1, <2>2
  <2> QED BY <2>1, <2>2
<1>7. Mint(p, token) \/ (live[p] = token /\ UNCHANGED fcm)
  BY <1>1
<1> QED BY <1>2, <1>3, <1>4, <1>5, <1>6, <1>7

(* A caller that is gone leaves its request behind, late and unanswered. *)
Abandoned(r) == [r EXCEPT !.slot = 0, !.late = TRUE]

LEMMA AbandonedFields ==
    ASSUME TypeOK, NEW r \in requests
    PROVE  /\ Abandoned(r).token = r.token /\ Abandoned(r).phone = r.phone
           /\ Abandoned(r).op = r.op /\ Abandoned(r).slot = 0 /\ Abandoned(r).late
BY DEF TypeOK, Request, Abandoned

LEMMA OwnTokensKept ==
    ASSUME OwnTokens, UNCHANGED live,
           \A r \in requests' : \E q \in requests : r.token = q.token /\ r.phone = q.phone
    PROVE  OwnTokens'
BY DEF OwnTokens

LEMMA OwnTokensMint ==
    ASSUME TypeOK, Known, OwnTokens, NEW p \in Phone, NEW token \in Token, Mint(p, token),
           \A r \in requests' : r \in requests \/ (r.token = token /\ r.phone = p)
    PROVE  OwnTokens'
<1>1. /\ live'[p] = token /\ \A q \in Phone : q # p => live'[q] = live[q]
      /\ token \notin used
  BY DEF Mint, TypeOK, DeliveryTypeOK
<1>2. \A q \in Phone : live[q] # token
  BY <1>1, DeliveryAssumption DEF Known, LiveTokens
<1>3. \A r \in requests : r.token # token
  BY <1>1 DEF Known
<1>4. ASSUME NEW r \in requests', NEW q \in Phone, r.token = live'[q] PROVE r.phone = q
  <2>1. CASE r \in requests
    BY <1>1, <1>3, <1>4, <2>1 DEF OwnTokens
  <2>2. CASE r.token = token /\ r.phone = p
    BY <1>1, <1>2, <1>4, <2>2
  <2> QED BY <2>1, <2>2
<1>5. \A q, s \in Phone : live'[q] = live'[s] /\ live'[q] # None => q = s
  BY <1>1, <1>2 DEF OwnTokens
<1> QED BY <1>4, <1>5 DEF OwnTokens

LEMMA OwnTokensStep == PushInv /\ OwnTokens /\ [Next]_vars => OwnTokens'
<1> SUFFICES ASSUME TypeOK, Known, OwnTokens, [Next]_vars PROVE OwnTokens'
  BY DEF PushInv
<1>1. ASSUME UNCHANGED live, requests' \subseteq requests PROVE OwnTokens'
  BY <1>1, OwnTokensKept
<1>2. CASE Backend
  <2>1. UNCHANGED <<live, requests>>
    BY <1>2 DEF Backend, app, DeliveryNext, Enqueue, TakeRequest, Serve, Restart,
                StartTest, ListTokens, Post, Prune, fcm
  <2> QED BY <1>1, <2>1
<1>3. ASSUME NEW p \in Phone, Launch(p) \/ Toggle(p) \/ Leave(p) PROVE OwnTokens'
  BY <1>1, <1>3 DEF Launch, Toggle, Leave, fcm
<1>4. ASSUME NEW p \in Phone, Rotate(p) PROVE OwnTokens'
  <2>1. PICK token \in Token : Mint(p, token) /\ requests' = requests \cup Heard(p, token)
    BY <1>4 DEF Rotate
  <2> QED BY <2>1, OwnTokensMint, HeardRequests
<1>5. ASSUME NEW p \in Phone, Kill(p) PROVE OwnTokens'
  <2>1. \A r \in requests' : r \in requests \/ \E q \in requests : r = Abandoned(q)
    BY <1>5 DEF Kill, Abandoned
  <2> QED BY <1>5, <2>1, AbandonedFields, OwnTokensKept DEF Kill, fcm
<1>6. ASSUME NEW p \in Phone, NEW i \in Slot, GetToken(p, i) PROVE OwnTokens'
  <2>1. PICK token \in Token :
            /\ token = live'[p] /\ token # None
            /\ Mint(p, token) \/ (live[p] = token /\ UNCHANGED fcm)
            /\ \E heardOf \in {{}, Heard(p, token)} :
                    requests' = requests \cup heardOf \cup {Asks(p, i, token)}
    BY <1>6, GetTokenEffect
  <2>2. \A r \in requests' : r \in requests \/ (r.token = token /\ r.phone = p)
    BY <2>1, HeardRequests DEF Asks
  <2>3. CASE Mint(p, token)
    BY <2>2, <2>3, OwnTokensMint
  <2>4. CASE live[p] = token /\ UNCHANGED fcm
    <3>1. UNCHANGED live
      BY <2>4 DEF fcm
    <3>2. \A q \in Phone : live[q] = token => q = p
      BY <2>1, <2>4 DEF OwnTokens
    <3> QED BY <2>2, <3>1, <3>2 DEF OwnTokens
  <2> QED BY <2>1, <2>3, <2>4
<1>7. ASSUME NEW p \in Phone, NEW i \in Slot, Continue(p, i) \/ Finish(p, i) \/ FcmFails(p, i)
      PROVE  OwnTokens'
  BY <1>1, <1>7 DEF Continue, Finish, FcmFails, fcm
<1>8. ASSUME NEW p \in Phone, NEW i \in Slot, DeleteToken(p, i) PROVE OwnTokens'
  <2>1. /\ \A q \in Phone : live'[q] = IF q = p THEN None ELSE live[q]
        /\ requests' = requests
    BY <1>8 DEF DeleteToken, TypeOK, DeliveryTypeOK
  <2>2. \A r \in requests : r.token # None
    BY DeliveryAssumption DEF TypeOK, Request
  <2> QED BY <2>1, <2>2 DEF OwnTokens
<1>9. ASSUME NEW p \in Phone, NEW i \in Slot, GiveUp(p, i) PROVE OwnTokens'
  <2>1. PICK q \in requests : requests' = (requests \ {q}) \cup {Abandoned(q)}
    BY <1>9 DEF GiveUp, Abandoned
  <2>2. UNCHANGED live
    BY <1>9 DEF GiveUp, fcm
  <2> QED BY <2>1, <2>2, AbandonedFields, OwnTokensKept
<1>10. ASSUME NEW r \in requests, Handle(r) \/ Lose(r) PROVE OwnTokens'
  BY <1>1, <1>10 DEF Handle, Lose, fcm
<1>11. CASE UNCHANGED vars
  BY <1>1, <1>11 DEF vars, fcm, app
<1> QED BY <1>2, <1>3, <1>4, <1>5, <1>6, <1>7, <1>8, <1>9, <1>10, <1>11 DEF Next, Operation
-----------------------------------------------------------------------------
(* The requests there were are still waited for, and the new ones by nobody. *)
LEMMA AnsweredKept ==
    ASSUME Answered,
           \A r \in requests' :
              \/ /\ r \in requests
                 /\ r.slot # 0 => /\ ops'[r.phone][r.slot].kind = ops[r.phone][r.slot].kind
                                  /\ ops'[r.phone][r.slot].pc = ops[r.phone][r.slot].pc
              \/ r.slot = 0 /\ (r.late \/ r.op = "register")
    PROVE  Answered'
<1>1. \A r \in requests' : r.slot # 0 => r \in requests /\ Waits(ops'[r.phone][r.slot], r)
  BY DEF Answered, Waits
<1>2. \A r \in requests' : r.slot = 0 /\ ~r.late => r.op = "register"
  BY DEF Answered
<1>3. \A r, q \in requests' : r.phone = q.phone /\ r.slot = q.slot /\ r.slot # 0 => r = q
  BY <1>1 DEF Answered
<1> QED BY <1>1, <1>2, <1>3 DEF Answered

(* An operation that waits for no answer has no request. *)
LEMMA NobodyAnswers ==
    ASSUME Answered, NEW p \in Phone, NEW i \in Slot, NEW op, OneOp(p, i, op),
           ops[p][i].kind = "none" \/ ops[p][i].pc # "wait", TypeOK,
           \A r \in requests' : r \in requests \/ (r.slot = 0 /\ r.op = "register")
    PROVE  Answered'
<1>1. \A r \in requests : r.slot # 0 => /\ r.phone \in Phone /\ r.slot \in Slot
                                        /\ (r.phone # p \/ r.slot # i)
  BY DEF Answered, Waits, TypeOK, Request
<1>2. \A r \in requests : r.slot # 0 => ops'[r.phone][r.slot] = ops[r.phone][r.slot]
  BY <1>1 DEF OneOp
<1> QED BY <1>2, AnsweredKept

LEMMA AnsweredStep == PushInv /\ Screens /\ Answered /\ [Next]_vars => Answered'
<1> SUFFICES ASSUME TypeOK, Screens, Answered, [Next]_vars PROVE Answered'
  BY DEF PushInv
<1>0. /\ \A r \in requests : r.phone \in Phone /\ r.slot \in Slot \cup {0}
      /\ ops \in [Phone -> [Slot -> Op]] /\ 0 \notin Slot /\ 1 \in Slot
  BY PushAssumption DEF TypeOK, Request
<1>1. ASSUME ops' = ops, \A r \in requests' : r \in requests \/ (r.slot = 0 /\ r.op = "register")
      PROVE  Answered'
  BY <1>1, AnsweredKept
<1>2. CASE Backend
  BY <1>1, <1>2 DEF Backend, app
<1>3. ASSUME NEW p \in Phone, Launch(p) PROVE Answered'
  <2>1. CASE enabled[p]
    <3>1. OneOp(p, 1, Start("launch"))
      BY <1>0, <1>3, <2>1, OpsUpdated DEF Launch
    <3>2. ops[p][1].kind = "none"
      BY <1>0, <1>3 DEF Launch, Screens, Busy
    <3> QED BY <1>0, <1>3, <3>1, <3>2, NobodyAnswers DEF Launch
  <2>2. CASE ~enabled[p]
    BY <1>1, <1>3, <2>2 DEF Launch
  <2> QED BY <2>1, <2>2
<1>4. ASSUME NEW p \in Phone, Toggle(p) PROVE Answered'
  <2>1. PICK i \in Slot \ Busy(p) :
            ops' = [ops EXCEPT ![p][i] = Start(IF enabled[p] THEN "off" ELSE "on")]
    BY <1>4 DEF Toggle
  <2>2. OneOp(p, i, Start(IF enabled[p] THEN "off" ELSE "on"))
    BY <2>1, OpsUpdated
  <2>3. ops[p][i].kind = "none" /\ i \in Slot
    BY <2>1 DEF Busy
  <2> QED BY <1>4, <2>2, <2>3, NobodyAnswers DEF Toggle
<1>5. ASSUME NEW p \in Phone, Rotate(p) PROVE Answered'
  BY <1>1, <1>5, HeardRequests DEF Rotate
<1>6. ASSUME NEW p \in Phone, Leave(p) PROVE Answered'
  <2>1. PICK i \in Busy(p) : ops' = [ops EXCEPT ![p][i].mounted = FALSE]
    BY <1>6 DEF Leave
  <2>2. i \in Slot
    BY DEF Busy
  <2>3. OneOp(p, i, [ops[p][i] EXCEPT !.mounted = FALSE]) /\ ops[p][i] \in Op
    BY <2>1, <2>2, OpStep
  <2>4. ops'[p][i].kind = ops[p][i].kind /\ ops'[p][i].pc = ops[p][i].pc
    BY <2>3 DEF OneOp, Op
  <2>5. \A q \in Phone, j \in Slot : /\ ops'[q][j].kind = ops[q][j].kind
                                     /\ ops'[q][j].pc = ops[q][j].pc
    BY <2>3, <2>4 DEF OneOp
  <2> QED BY <1>0, <1>6, <2>5, AnsweredKept DEF Leave
<1>7. ASSUME NEW p \in Phone, Kill(p) PROVE Answered'
  <2>1. \A r \in requests' : \/ r \in requests /\ r.phone # p
                             \/ \E q \in requests : r = Abandoned(q)
    BY <1>7 DEF Kill, Abandoned
  <2>2. \A q \in Phone : q # p => ops'[q] = ops[q]
    BY <1>0, <1>7 DEF Kill
  <2> QED BY <1>0, <2>1, <2>2, AbandonedFields, AnsweredKept
<1>8. ASSUME NEW p \in Phone, NEW i \in Slot, GetToken(p, i) PROVE Answered'
  <2>1. PICK token \in Token :
            /\ \E heardOf \in {{}, Heard(p, token)} :
                    requests' = requests \cup heardOf \cup {Asks(p, i, token)}
            /\ OneOp(p, i, [ops[p][i] EXCEPT !.pc = "wait", !.token = token])
    BY <1>8, GetTokenEffect
  <2> DEFINE it == Asks(p, i, token)
  <2>2. /\ it.phone = p /\ it.slot = i /\ it.token = token
        /\ it.op = IF ops[p][i].kind = "off" THEN "unregister" ELSE "register"
    BY DEF Asks
  <2>3. \A r \in requests' : \/ r \in requests
                             \/ r.slot = 0 /\ r.op = "register"
                             \/ r = it
    BY <2>1, HeardRequests
  <2>4. ops[p][i].pc = "get" /\ ops[p][i].kind # "none" /\ ops[p][i] \in Op
    BY <1>0, <1>8, GetTokenEffect
  <2>5. ops'[p][i].kind = ops[p][i].kind /\ ops'[p][i].pc = "wait"
    BY <2>1, <2>4 DEF OneOp, Op
  <2> HIDE DEF it
  <2>6. \A r \in requests : r.slot # 0 => r.phone # p \/ r.slot # i
    BY <2>4 DEF Answered, Waits
  <2>7. \A r \in requests : r.slot # 0 => ops'[r.phone][r.slot] = ops[r.phone][r.slot]
    BY <1>0, <2>1, <2>6 DEF OneOp
  <2>8. \A r \in requests' : r.slot # 0 => Waits(ops'[r.phone][r.slot], r)
    BY <2>2, <2>3, <2>4, <2>5, <2>7 DEF Answered, Waits
  <2>9. \A r \in requests' : r.slot = 0 /\ ~r.late => r.op = "register"
    BY <1>0, <2>2, <2>3 DEF Answered
  <2>10. \A r, q \in requests' : r.phone = q.phone /\ r.slot = q.slot /\ r.slot # 0 => r = q
    BY <2>2, <2>3, <2>6 DEF Answered
  <2> QED BY <2>8, <2>9, <2>10 DEF Answered
<1>9. ASSUME NEW p \in Phone, NEW i \in Slot,
             Continue(p, i) \/ DeleteToken(p, i) \/ Finish(p, i) \/ FcmFails(p, i)
      PROVE  Answered'
  <2>1. Operation(p, i)
    BY <1>9 DEF Operation
  <2>2. PICK op : OneOp(p, i, op)
    BY <2>1, OperationEffect
  <2>3. ops[p][i].pc # "wait" /\ requests' = requests
    BY <1>9 DEF Continue, DeleteToken, Finish, FcmFails
  <2> QED BY <2>2, <2>3, NobodyAnswers
<1>10. ASSUME NEW p \in Phone, NEW i \in Slot, NEW r \in requests, NEW op,
              r.phone = p, r.slot = i, OneOp(p, i, op),
              \A q \in requests' : q \in requests \ {r} \/ q = Abandoned(r)
       PROVE  Answered'
  <2>1. \A q \in requests \ {r} : q.slot # 0 => ops'[q.phone][q.slot] = ops[q.phone][q.slot]
    BY <1>0, <1>10 DEF Answered, OneOp
  <2> QED BY <1>10, <2>1, AbandonedFields, AnsweredKept
<1>11. ASSUME NEW p \in Phone, NEW i \in Slot, GiveUp(p, i) PROVE Answered'
  <2>1. PICK r \in requests : /\ r.phone = p /\ r.slot = i
                              /\ requests' = (requests \ {r}) \cup {Abandoned(r)}
    BY <1>11 DEF GiveUp, Abandoned
  <2>2. OneOp(p, i, NoOp)
    BY <1>11, OpsUpdated DEF GiveUp, End
  <2> QED BY <1>10, <2>1, <2>2
<1>12. ASSUME NEW r \in requests, Handle(r) \/ Lose(r) PROVE Answered'
  <2>1. PICK good \in BOOLEAN : Answer(r, good)
    BY <1>12 DEF Handle, Lose
  <2>2. requests' = requests \ {r}
    BY <1>12 DEF Handle, Lose
  <2>3. CASE r.slot = 0
    BY <1>1, <2>1, <2>2, <2>3, AnswerEffect
  <2>4. CASE r.slot # 0
    <3>1. PICK op : OneOp(r.phone, r.slot, op)
      BY <2>1, <2>4, AnswerEffect
    <3> QED BY <1>0, <1>10, <2>2, <2>4, <3>1
  <2> QED BY <2>3, <2>4
<1>13. CASE UNCHANGED vars
  BY <1>1, <1>13 DEF vars, app
<1> QED BY <1>2, <1>3, <1>4, <1>5, <1>6, <1>7, <1>8, <1>9, <1>11, <1>12, <1>13
        DEF Next, Operation
-----------------------------------------------------------------------------
(* What keeps the registration of a phone: its token, and whoever carries it. *)
LEMMA RegisteredKept ==
    ASSUME NEW q \in Phone, live'[q] = live[q], live[q] \in tokens => live[q] \in tokens',
           \A r \in requests : r.phone = q /\ r.op = "register" /\ r.token = live[q] =>
              \/ live[q] \in tokens'
              \/ \E s \in requests' : s.phone = q /\ s.op = "register" /\ s.token = live[q]
    PROVE  Registered(q) => Registered(q)'
BY DEF Registered

LEMMA CalmKept ==
    ASSUME NEW q \in Phone, Calm(q), enabled'[q] = enabled[q],
           \A i \in Slot : ops'[q][i] = ops[q][i],
           Registered(q) => Registered(q)', live[q] = None => live'[q] = None
    PROVE  Calm(q)'
<1>1. Busy(q)' = Busy(q) /\ \A i \in Busy(q) : i \in Slot /\ ops'[q][i] = ops[q][i]
  BY DEF Busy
<1>2. Rest(q) => Rest(q)'
  BY DEF Rest
<1> HIDE DEF Registered, Rest
<1>3. ASSUME NEW i \in Busy(q), Midway(q, ops[q][i]) PROVE Midway(q, ops[q][i])'
  BY <1>1, <1>2, <1>3 DEF Midway
<1>4. ASSUME NEW i \in Busy(q)' PROVE Busy(q)' = {i} /\ Midway(q, ops[q][i])'
  BY <1>1, <1>3, <1>4 DEF Calm
<1> QED BY <1>1, <1>2, <1>4 DEF Calm

(* The phone's one operation, after its step. *)
LEMMA CalmWithOne ==
    ASSUME NEW q \in Phone, NEW i \in Slot, NEW op, OneOp(q, i, op), Busy(q) \subseteq {i},
           op.kind = "none" => Rest(q)',
           op.kind # "none" => Midway(q, op)'
    PROVE  Calm(q)'
<1>1. CASE op.kind = "none"
  <2>1. Busy(q)' = {}
    BY <1>1 DEF OneOp, Busy
  <2> QED BY <1>1, <2>1 DEF Calm
<1>2. CASE op.kind # "none"
  <2>1. Busy(q)' = {i}
    BY <1>2 DEF OneOp, Busy
  <2>2. Midway(q, ops[q][i])'
    BY <1>2 DEF OneOp, Midway
  <2>3. \A j \in Busy(q)' : j = i
    BY <2>1
  <2> QED BY <2>1, <2>2, <2>3 DEF Calm
<1> QED BY <1>1, <1>2

(* A phone's step leaves the other phones alone. *)
LEMMA OthersKept ==
    ASSUME TypeOK, Answered, NEW p \in Phone, NEW q \in Phone, p # q,
           \/ Launch(p) \/ Toggle(p) \/ Rotate(p) \/ Leave(p) \/ Kill(p)
           \/ \E i \in Slot : Operation(p, i)
    PROVE  /\ enabled'[q] = enabled[q] /\ live'[q] = live[q] /\ tokens' = tokens
           /\ disturbed'[q] = disturbed[q]
           /\ \A i \in Slot : ops'[q][i] = ops[q][i]
           /\ \A r \in requests : r.phone = q => r \in requests'
<1>0. /\ {enabled, disturbed} \subseteq [Phone -> BOOLEAN] /\ ops \in [Phone -> [Slot -> Op]]
      /\ live \in [Phone -> Token \cup {None}] /\ 1 \in Slot
  BY PushAssumption DEF TypeOK, DeliveryTypeOK
<1>1. CASE Launch(p)
  BY <1>0, <1>1 DEF Launch, backend, fcm
<1>2. CASE Toggle(p)
  BY <1>0, <1>2 DEF Toggle, backend, fcm
<1>3. CASE Rotate(p)
  BY <1>0, <1>3 DEF Rotate, Mint, Disturb, backend
<1>4. CASE Leave(p)
  BY <1>0, <1>4 DEF Leave, Disturb, backend, fcm
<1>5. CASE Kill(p)
  BY <1>0, <1>5 DEF Kill, Disturb, backend, fcm
<1>6. ASSUME NEW i \in Slot, Operation(p, i)
      PROVE  /\ enabled'[q] = enabled[q] /\ live'[q] = live[q] /\ tokens' = tokens
             /\ disturbed'[q] = disturbed[q]
             /\ \A j \in Slot : ops'[q][j] = ops[q][j]
             /\ \A r \in requests : r.phone = q => r \in requests'
  <2>1. \A j \in Slot : ops'[q][j] = ops[q][j]
    BY <1>6, OperationEffect DEF OneOp
  <2>2. tokens' = tokens
    BY <1>6, OperationEffect
  <2>3. enabled'[q] = enabled[q]
    BY <1>0, <1>6, OperationEffect DEF Finish
  <2>4. live'[q] = live[q] /\ disturbed'[q] = disturbed[q]
    BY <1>0, <1>6 DEF Operation, GetToken, Continue, DeleteToken, Finish, FcmFails, GiveUp,
                      Mint, Disturb, fcm
  <2>5. \A r \in requests : r.phone = q => r \in requests'
    BY <1>6 DEF Operation, GetToken, Continue, DeleteToken, Finish, FcmFails, GiveUp
  <2> QED BY <2>1, <2>2, <2>3, <2>4, <2>5
<1> QED BY <1>1, <1>2, <1>3, <1>4, <1>5, <1>6
-----------------------------------------------------------------------------
(* The phone's own operation: it goes on as Midway says it must. *)
LEMMA OperationCalm ==
    ASSUME PushInv, Screens, Answered, NEW q \in Phone, NEW i \in Slot, Operation(q, i),
           ~disturbed[q] => Calm(q), ~disturbed'[q]
    PROVE  Calm(q)'
<1>0. /\ TypeOK /\ ops[q][i] \in Op /\ disturbed \in [Phone -> BOOLEAN]
      /\ enabled \in [Phone -> BOOLEAN] /\ live \in [Phone -> Token \cup {None}]
      /\ i \in Busy(q) /\ ops[q][i].kind \in {"launch", "on", "off"}
  <2>1. i \in Busy(q) /\ ops[q][i] \in Op
    BY OperationEffect, OpStep DEF PushInv
  <2> QED BY <2>1 DEF PushInv, TypeOK, DeliveryTypeOK, Busy, Op
<1>1. ASSUME UNCHANGED <<backend, fcm, requests>> PROVE Registered(q) => Registered(q)'
  BY <1>1 DEF Registered, backend, fcm
<1>2. CASE GetToken(q, i)
  <2>1. Busy(q) = {i} /\ (ops[q][i].mounted \/ ops[q][i].kind = "launch")
    <3>1. disturbed'[q] = (disturbed[q] /\ ~Alone(q, i))
      BY <1>0, <1>2 DEF GetToken
    <3>2. CASE Alone(q, i)
      BY <3>2 DEF Alone
    <3>3. CASE Calm(q)
      BY <1>0, <3>3 DEF Calm, Midway
    <3> QED BY <3>1, <3>2, <3>3
  <2>2. PICK token \in Token :
            /\ token = live'[q] /\ token # None
            /\ \E heardOf \in {{}, Heard(q, token)} :
                    requests' = requests \cup heardOf \cup {Asks(q, i, token)}
            /\ OneOp(q, i, [ops[q][i] EXCEPT !.pc = "wait", !.token = token])
    BY <1>0, <1>2, GetTokenEffect
  <2>3. PICK op : /\ OneOp(q, i, op) /\ op.pc = "wait"
                  /\ op.kind = ops[q][i].kind /\ op.mounted = ops[q][i].mounted
    <3>1. LET op == [ops[q][i] EXCEPT !.pc = "wait", !.token = token]
          IN  /\ op.kind = ops[q][i].kind /\ op.mounted = ops[q][i].mounted
              /\ op.pc = "wait"
      BY <1>0 DEF Op
    <3> QED BY <2>2, <3>1
  <2>4. ops[q][i].kind # "off" => Registered(q)'
    <3> SUFFICES ASSUME ops[q][i].kind # "off" PROVE Registered(q)'
      OBVIOUS
    <3>1. /\ Asks(q, i, token) \in requests' /\ Asks(q, i, token).phone = q
          /\ Asks(q, i, token).op = "register" /\ Asks(q, i, token).token = live'[q]
      BY <2>2 DEF Asks
    <3> QED BY <2>2, <3>1 DEF Registered
  <2>5. Midway(q, op)'
    BY <2>1, <2>3, <2>4 DEF Midway
  <2> QED BY <1>0, <2>1, <2>3, <2>5, CalmWithOne
<1>3. ASSUME ~GetToken(q, i), ~FcmFails(q, i), ~GiveUp(q, i)
      PROVE  Calm(q) /\ Busy(q) = {i} /\ Midway(q, ops[q][i])
  <2>1. disturbed' = disturbed
    BY <1>3 DEF Operation, Continue, DeleteToken, Finish
  <2>2. Calm(q)
    BY <2>1
  <2> QED BY <1>0, <2>2 DEF Calm
<1>4. CASE Continue(q, i)
  <2>1. /\ ops[q][i].pc = "ok" /\ Busy(q) = {i} /\ Midway(q, ops[q][i])
        /\ UNCHANGED <<backend, fcm, requests, enabled>>
    <3>1. ops[q][i].pc = "ok"
      BY <1>4 DEF Continue
    <3>2. ~GetToken(q, i) /\ ~FcmFails(q, i)
      BY <3>1 DEF GetToken, FcmFails
    <3>3. ~GiveUp(q, i)
      BY <3>1, PushAssumption DEF GiveUp, Answered, Waits
    <3> QED BY <1>3, <1>4, <3>1, <3>2, <3>3 DEF Continue
  <2>2. ops[q][i].kind # "off" => Registered(q)'
    BY <1>1, <2>1 DEF Midway
  <2>3. CASE ops[q][i].kind = "launch"
    <3>1. OneOp(q, i, NoOp)
      BY <1>0, <1>4, <2>3, OpsUpdated DEF Continue, End
    <3>2. Rest(q)'
      BY <1>0, <2>1, <2>2, <2>3 DEF Screens, Rest
    <3> QED BY <2>1, <3>1, <3>2, NoOpIsFree, CalmWithOne
  <2>4. ASSUME NEW pc \in {"finish", "delete"}, ops' = [ops EXCEPT ![q][i].pc = pc],
               ops[q][i].mounted, pc = "finish" => ops[q][i].kind = "on"
        PROVE  Calm(q)'
    <3>1. OneOp(q, i, [ops[q][i] EXCEPT !.pc = pc])
      BY <1>0, <2>4, OpStep
    <3>2. PICK op : OneOp(q, i, op) /\ op.kind = ops[q][i].kind /\ op.mounted /\ op.pc = pc
      BY <1>0, <2>4, <3>1 DEF Op
    <3>3. Midway(q, op)'
      BY <2>2, <2>4, <3>2 DEF Midway
    <3> QED BY <1>0, <2>1, <3>2, <3>3, CalmWithOne
  <2>5. CASE ops[q][i].kind # "launch"
    BY <1>0, <1>4, <2>1, <2>4, <2>5 DEF Continue, Midway
  <2> QED BY <2>3, <2>5
<1>5. CASE DeleteToken(q, i)
  <2>1. ops[q][i].pc = "delete" /\ ops[q][i].kind = "off" /\ live'[q] = None
    BY <1>0, <1>5 DEF DeleteToken, Screens
  <2>2. Busy(q) = {i} /\ Midway(q, ops[q][i])
    <3>1. ~GetToken(q, i) /\ ~GiveUp(q, i)
      BY <2>1, PushAssumption DEF GetToken, GiveUp, Answered, Waits
    <3>2. ~FcmFails(q, i)
      BY <1>0 DEF FcmFails, Disturb
    <3> QED BY <1>3, <3>1, <3>2
  <2>3. OneOp(q, i, [ops[q][i] EXCEPT !.pc = "finish"])
    BY <1>0, <1>5, OpStep DEF DeleteToken
  <2>4. PICK op : /\ OneOp(q, i, op) /\ op.kind = "off" /\ op.pc = "finish"
                  /\ op.mounted = ops[q][i].mounted
    BY <1>0, <2>1, <2>3 DEF Op
  <2>5. Midway(q, op)'
    BY <2>1, <2>2, <2>4 DEF Midway
  <2> QED BY <1>0, <2>2, <2>4, <2>5, CalmWithOne
<1>6. CASE Finish(q, i)
  <2>1. ops[q][i].pc = "finish" /\ ops[q][i].kind \in {"on", "off"}
    BY <1>0, <1>6 DEF Finish, Screens
  <2>2. Busy(q) = {i} /\ Midway(q, ops[q][i])
    <3>1. ~GetToken(q, i) /\ ~GiveUp(q, i) /\ ~FcmFails(q, i)
      BY <2>1, PushAssumption DEF GetToken, GiveUp, FcmFails, Answered, Waits
    <3> QED BY <1>3, <3>1
  <2>3. /\ enabled'[q] = (ops[q][i].kind = "on")
        /\ UNCHANGED <<backend, fcm, requests>>
    BY <1>0, <1>6, <2>1, <2>2 DEF Finish, Midway
  <2>4. Rest(q)'
    BY <1>1, <2>1, <2>2, <2>3 DEF Midway, Rest, fcm
  <2>5. OneOp(q, i, NoOp)
    BY <1>0, <1>6, OpsUpdated DEF Finish, End
  <2> QED BY <2>2, <2>4, <2>5, NoOpIsFree, CalmWithOne
<1>7. ~FcmFails(q, i) /\ ~GiveUp(q, i)
  BY <1>0 DEF FcmFails, GiveUp, Disturb
<1> QED BY <1>2, <1>4, <1>5, <1>6, <1>7 DEF Operation

(* The backend answers a request of the phone: with yes, in time. *)
LEMMA AnsweredCalm ==
    ASSUME PushInv, Answered, NEW q \in Phone, NEW r \in requests, r.phone = q, ~r.late,
           tokens' = Apply(r), Answer(r, TRUE), requests' = requests \ {r},
           UNCHANGED <<live, enabled>>, Calm(q)
    PROVE  Calm(q)'
<1>0. /\ TypeOK /\ r \in Request /\ ops \in [Phone -> [Slot -> Op]] /\ 0 \notin Slot
  BY PushAssumption DEF PushInv, TypeOK
<1>1. CASE r.op = "register"
  <2>1. tokens' = tokens \cup {r.token}
    BY <1>1 DEF Apply
  <2>2. Registered(q) => Registered(q)'
    BY <2>1, RegisteredKept
  <2>3. CASE r.slot = 0
    BY <1>0, <2>2, <2>3, AnswerEffect, CalmKept
  <2>4. CASE r.slot # 0
    <3>1. PICK op : /\ OneOp(q, r.slot, op) /\ op.pc = "ok"
                    /\ op.kind = ops[q][r.slot].kind /\ op.mounted = ops[q][r.slot].mounted
      BY <1>0, <2>4, AnswerEffect
    <3>2. /\ r.slot \in Busy(q) /\ ops[q][r.slot].kind # "off"
          /\ ops[q][r.slot].pc = "wait"
      BY <1>0, <1>1, <2>4 DEF Answered, Waits, Busy, Request
    <3>3. Busy(q) = {r.slot} /\ Midway(q, ops[q][r.slot])
      BY <3>2 DEF Calm
    <3>4. Midway(q, op)'
      BY <2>2, <3>1, <3>2, <3>3 DEF Midway
    <3>5. r.slot \in Slot /\ op.kind # "none"
      BY <3>1, <3>2 DEF Busy
    <3>6. PICK i \in Slot : i = r.slot
      BY <3>5
    <3> QED BY <3>1, <3>3, <3>4, <3>5, <3>6, CalmWithOne
  <2> QED BY <2>3, <2>4
<1>2. CASE r.op # "register"
  <2>1. r.slot # 0
    BY <1>2 DEF Answered
  <2>2. PICK op : /\ OneOp(q, r.slot, op) /\ op.pc = "ok"
                  /\ op.kind = ops[q][r.slot].kind /\ op.mounted = ops[q][r.slot].mounted
    BY <1>0, <2>1, AnswerEffect
  <2>3. r.slot \in Busy(q) /\ ops[q][r.slot].kind = "off"
    BY <1>0, <1>2, <2>1 DEF Answered, Waits, Busy, Request
  <2>4. Busy(q) = {r.slot} /\ Midway(q, ops[q][r.slot])
    BY <2>3 DEF Calm
  <2>5. Midway(q, op)'
    BY <2>2, <2>3, <2>4 DEF Midway
  <2>6. PICK i \in Slot : i = r.slot
    BY <2>3 DEF Busy
  <2>7. op.kind # "none"
    BY <2>2, <2>3
  <2> QED BY <2>2, <2>4, <2>5, <2>6, <2>7, CalmWithOne
<1> QED BY <1>1, <1>2

LEMMA StartFields ==
    ASSUME NEW kind
    PROVE  /\ Start(kind).kind = kind /\ Start(kind).pc = "get"
           /\ Start(kind).mounted = (kind # "launch")
BY DEF Start, NoOp

LEMMA CalmStep ==
    PushInv /\ ToggleInv /\ [Next]_vars => CalmInv'
<1> SUFFICES ASSUME PushInv, ToggleInv, [Next]_vars, NEW q \in Phone, ~disturbed'[q]
             PROVE  Calm(q)'
  BY DEF CalmInv
<1>0. /\ TypeOK /\ Known /\ Screens /\ OwnTokens /\ Answered /\ (~disturbed[q] => Calm(q))
      /\ {running, enabled, wired, disturbed} \subseteq [Phone -> BOOLEAN]
      /\ ops \in [Phone -> [Slot -> Op]] /\ live \in [Phone -> Token \cup {None}]
      /\ 1 \in Slot /\ tokens \subseteq Token /\ requests \subseteq Request
      /\ None \notin Token
  BY PushAssumption, DeliveryAssumption
     DEF PushInv, ToggleInv, CalmInv, TypeOK, DeliveryTypeOK
<1>1. CASE Backend
  <2>1. UNCHANGED <<live, requests, enabled, ops, disturbed>>
    BY <1>1 DEF Backend, app, DeliveryNext, Enqueue, TakeRequest, Serve, Restart,
                StartTest, ListTokens, Post, Prune, fcm
  <2>2. live[q] \in tokens => live[q] \in tokens'
    <3>1. live[q] \in tokens => live[q] \in LiveTokens
      BY <1>0 DEF LiveTokens
    <3>2. ASSUME NEW s \in Sender, Prune(s), live[q] \in tokens PROVE live[q] \in tokens'
      BY <1>0, <3>1, <3>2 DEF Prune, Known
    <3>3. tokens' = tokens \/ \E s \in Sender : Prune(s)
      BY <1>1 DEF Backend, DeliveryNext, Enqueue, TakeRequest, Restart, StartTest,
                  ListTokens, Post, Serve, backend
    <3> QED BY <3>2, <3>3
  <2>3. Registered(q) => Registered(q)'
    BY <2>1, <2>2, RegisteredKept
  <2> QED BY <1>0, <2>1, <2>3, CalmKept
<1>2. ASSUME NEW p \in Phone, p # q,
             \/ Launch(p) \/ Toggle(p) \/ Rotate(p) \/ Leave(p) \/ Kill(p)
             \/ \E i \in Slot : Operation(p, i)
      PROVE  Calm(q)'
  <2>1. /\ enabled'[q] = enabled[q] /\ live'[q] = live[q] /\ tokens' = tokens
        /\ disturbed'[q] = disturbed[q]
        /\ \A i \in Slot : ops'[q][i] = ops[q][i]
        /\ \A r \in requests : r.phone = q => r \in requests'
    BY <1>0, <1>2, OthersKept
  <2>2. Registered(q) => Registered(q)'
    BY <2>1, RegisteredKept
  <2> QED BY <1>0, <2>1, <2>2, CalmKept
<1>3. CASE Launch(q)
  <2>1. /\ Calm(q) /\ Busy(q) = {} /\ Rest(q)
        /\ UNCHANGED <<backend, fcm, requests, enabled>>
    BY <1>0, <1>3 DEF Launch, Screens, Calm
  <2>2. Rest(q)' /\ (Registered(q) => Registered(q)')
    BY <2>1 DEF Rest, Registered, backend, fcm
  <2>3. CASE enabled[q]
    <3>1. OneOp(q, 1, Start("launch"))
      BY <1>0, <1>3, <2>3, OpsUpdated DEF Launch
    <3>2. PICK op : OneOp(q, 1, op) /\ op.kind = "launch" /\ op.pc = "get"
      BY <3>1, StartFields
    <3>3. Midway(q, op)'
      BY <2>2, <3>2 DEF Midway
    <3> QED BY <1>0, <2>1, <3>2, <3>3, CalmWithOne
  <2>4. CASE ~enabled[q]
    BY <1>3, <2>1, <2>2, <2>4, CalmKept DEF Launch, fcm
  <2> QED BY <2>3, <2>4
<1>4. CASE Toggle(q)
  <2>1. Calm(q) /\ UNCHANGED <<backend, fcm, requests, enabled>>
    BY <1>0, <1>4 DEF Toggle
  <2>2. Busy(q) = {}
    BY <1>4, <2>1 DEF Toggle, Calm, Midway
  <2>3. Rest(q)'
    BY <2>1, <2>2 DEF Calm, Rest, Registered, backend, fcm
  <2>4. PICK i \in Slot : ops' = [ops EXCEPT ![q][i] = Start(IF enabled[q] THEN "off" ELSE "on")]
    BY <1>4 DEF Toggle
  <2>5. PICK op : OneOp(q, i, op) /\ op.kind \in {"on", "off"} /\ op.pc = "get" /\ op.mounted
    <3>1. OneOp(q, i, Start(IF enabled[q] THEN "off" ELSE "on"))
      BY <1>0, <2>4, OpsUpdated
    <3>2. PICK kind \in {"on", "off"} : OneOp(q, i, Start(kind))
      BY <3>1
    <3>3. Start(kind).mounted
      BY StartFields
    <3> QED BY <3>2, <3>3, StartFields
  <2>6. Midway(q, op)'
    BY <2>3, <2>5 DEF Midway
  <2> QED BY <2>2, <2>5, <2>6, CalmWithOne
<1>5. CASE Rotate(q)
  <2>1. PICK token \in Token : Mint(q, token) /\ requests' = requests \cup Heard(q, token)
    BY <1>5 DEF Rotate
  <2>2. running[q] /\ wired[q] /\ disturbed' = disturbed
    BY <1>0, <1>5 DEF Rotate, Disturb
  <2>3. live'[q] = token /\ token # None
    BY <1>0, <2>1 DEF Mint
  <2>4. Registered(q)'
    BY <2>1, <2>2, <2>3, HeardRequests DEF Registered
  <2> QED BY <1>0, <1>5, <2>2, <2>4, CalmKept DEF Rotate
<1>6. ~Leave(q)
  BY <1>0 DEF Leave, Disturb
<1>7. CASE Kill(q)
  <2>1. Busy(q) = {} /\ Calm(q) /\ Rest(q)
    BY <1>0, <1>7 DEF Kill, Disturb, Calm
  <2>2. UNCHANGED <<tokens, live, enabled>>
    BY <1>7 DEF Kill, backend, fcm
  <2>3. \A r \in requests : r.phone = q => Abandoned(r) \in requests'
    BY <1>7 DEF Kill, Abandoned
  <2>4. Registered(q) => Registered(q)'
    BY <1>0, <2>2, <2>3, AbandonedFields, RegisteredKept
  <2>5. Rest(q)'
    BY <2>1, <2>2, <2>4 DEF Rest
  <2>6. \A i \in Slot : ops'[q][i] = NoOp
    BY <1>0, <1>7 DEF Kill
  <2>7. Busy(q)' = {}
    BY <2>6, NoOpIsFree DEF Busy
  <2> QED BY <2>5, <2>7 DEF Calm
<1>8. ASSUME NEW i \in Slot, Operation(q, i) PROVE Calm(q)'
  BY <1>0, <1>8, OperationCalm
<1>9. ASSUME NEW r \in requests, Handle(r) PROVE Calm(q)'
  <2>1. UNCHANGED <<live, enabled>> /\ requests' = requests \ {r}
    BY <1>9 DEF Handle, fcm
  <2>2. CASE r.phone = q
    <3>1. /\ tokens' = Apply(r) /\ Answer(r, TRUE) /\ ~r.late /\ disturbed' = disturbed
      BY <1>0, <1>9, <2>2 DEF Handle, Disturb
    <3> QED BY <1>0, <2>1, <2>2, <3>1, AnsweredCalm
  <2>3. CASE r.phone # q
    <3>1. live[q] \in tokens => live[q] \in tokens'
      <4>1. r.token # live[q]
        BY <1>0, <2>3 DEF OwnTokens
      <4> QED BY <1>9, <4>1 DEF Handle, Apply
    <3>2. disturbed'[q] = disturbed[q]
      BY <1>0, <1>9, <2>3 DEF Handle, Disturb
    <3>3. \A i \in Slot : ops'[q][i] = ops[q][i]
      BY <1>0, <1>9, <2>3, AnswerEffect DEF Handle, OneOp
    <3>4. Registered(q) => Registered(q)'
      BY <2>1, <2>3, <3>1, RegisteredKept
    <3> QED BY <1>0, <2>1, <3>2, <3>3, <3>4, CalmKept
  <2> QED BY <2>2, <2>3
<1>10. ASSUME NEW r \in requests, Lose(r) PROVE Calm(q)'
  <2>1. r.phone # q
    BY <1>0, <1>10 DEF Lose, Disturb
  <2>2. /\ UNCHANGED <<tokens, live, enabled>> /\ requests' = requests \ {r}
        /\ disturbed'[q] = disturbed[q]
    BY <1>0, <1>10, <2>1 DEF Lose, Disturb, backend, fcm
  <2>3. \A i \in Slot : ops'[q][i] = ops[q][i]
    BY <1>0, <1>10, <2>1, AnswerEffect DEF Lose, OneOp
  <2>4. Registered(q) => Registered(q)'
    BY <2>1, <2>2, RegisteredKept
  <2> QED BY <1>0, <2>2, <2>3, <2>4, CalmKept
<1>11. CASE UNCHANGED vars
  BY <1>0, <1>11, CalmKept DEF vars, app, backend, fcm, Registered
<1>12. ASSUME NEW p \in Phone,
              \/ Launch(p) \/ Toggle(p) \/ Rotate(p) \/ Leave(p) \/ Kill(p)
              \/ \E i \in Slot : Operation(p, i)
       PROVE  Calm(q)'
  <2>1. CASE p = q
    BY <1>3, <1>4, <1>5, <1>6, <1>7, <1>8, <1>12, <2>1
  <2> QED BY <1>2, <1>12, <2>1
<1> QED BY <1>1, <1>9, <1>10, <1>11, <1>12 DEF Next

LEMMA ToggleInit == Init => ToggleInv
<1> SUFFICES ASSUME Init PROVE ToggleInv
  OBVIOUS
<1>1. \A p \in Phone : Busy(p) = {} /\ ~enabled[p] /\ live[p] = None
  BY NoOpIsFree DEF Init, DeliveryInit, Busy
<1>2. requests = {}
  BY DEF Init
<1>3. Screens
  BY <1>1 DEF Screens
<1>4. OwnTokens /\ Answered
  BY <1>1, <1>2 DEF OwnTokens, Answered
<1>5. CalmInv
  BY <1>1 DEF CalmInv, Calm, Rest
<1> QED BY <1>3, <1>4, <1>5 DEF ToggleInv

(* A phone at rest whose token the backend has shows that push is on, and one whose
   token it has not, that it is off: whatever happened, once _togglePush or
   initPushOnLaunch has had the phone to itself and come to its end, and until
   something disturbs it again. *)
THEOREM ToggleIsTruthful == Spec => []ToggleTruthful
<1>1. PushInv /\ ToggleInv /\ [Next]_vars => ToggleInv'
  BY ScreensStep, OwnTokensStep, AnsweredStep, CalmStep DEF ToggleInv, PushInv
<1>2. PushInv /\ ToggleInv => ToggleTruthful
  <2> SUFFICES ASSUME PushInv, ToggleInv, NEW p \in Phone, Settled(p), ~disturbed[p]
               PROVE  enabled[p] <=> live[p] \in tokens
    BY DEF ToggleTruthful
  <2>1. Rest(p) /\ \A r \in requests : r.phone # p
    BY DEF ToggleInv, CalmInv, Calm, Settled
  <2>2. None \notin tokens
    BY DeliveryAssumption DEF PushInv, TypeOK, DeliveryTypeOK
  <2>3. enabled[p] \in BOOLEAN
    BY DEF PushInv, TypeOK
  <2>4. CASE enabled[p]
    BY <2>1, <2>4 DEF Rest, Registered
  <2>5. CASE ~enabled[p]
    BY <2>1, <2>2, <2>5 DEF Rest
  <2> QED BY <2>3, <2>4, <2>5
<1> QED BY <1>1, <1>2, ToggleInit, PushInductive, PTL DEF Spec

-----------------------------------------------------------------------------
(***************************************************************************)
(* No phone gets an alert twice.                                           *)
(***************************************************************************)
Elements(s) == {s[i] : i \in 1..Len(s)}
Distinct(s) == \A i, j \in 1..Len(s) : s[i] = s[j] => i = j

Waiting == Elements(queue)
Sending == IF sends["loop"].pc \in {"list", "post"} THEN {sends["loop"].alert} ELSE {}
Strayed == {q.alert : q \in stray}
Got(p)  == Elements(received[p])

Raised ==
    /\ Waiting \subseteq 1..alerts /\ Sending \subseteq 1..alerts /\ Strayed \subseteq 1..alerts
    /\ \A p \in Phone : Got(p) \subseteq 1..alerts

(* An alert is in one place: in the channel, with the loop, on its way with nobody
   who waits for it, or where it came from there.  It only ever moves on. *)
Apart ==
    /\ Waiting \cap Sending = {} /\ Waiting \cap Strayed = {} /\ Sending \cap Strayed = {}
    /\ \A p \in Phone : (Waiting \cup Sending \cup Strayed) \cap Got(p) = {}

OnePost == \A q, r \in stray : q.alert = r.alert => q = r

AlertInv ==
    /\ Raised /\ Apart /\ OnePost
    /\ Distinct(queue) /\ \A p \in Phone : Distinct(received[p])
    /\ \A s \in Sender \ {"loop"} : sends[s].alert = 0
-----------------------------------------------------------------------------
LEMMA AppendDistinct ==
    ASSUME NEW s \in Seq(1..MaxAlerts), NEW e \in 1..MaxAlerts
    PROVE  /\ Elements(Append(s, e)) = Elements(s) \cup {e}
           /\ Distinct(s) /\ e \notin Elements(s) => Distinct(Append(s, e))
<1>1. Len(Append(s, e)) = Len(s) + 1 /\ Len(s) \in Nat
  OBVIOUS
<1>2. \A i \in 1..Len(s) : Append(s, e)[i] = s[i]
  OBVIOUS
<1>3. Append(s, e)[Len(s) + 1] = e
  OBVIOUS
<1>4. \A i \in 1..Len(s) + 1 : i \in 1..Len(s) \/ i = Len(s) + 1
  BY <1>1
<1>5. 1..Len(s) \subseteq 1..Len(s) + 1 /\ Len(s) + 1 \in 1..Len(s) + 1
  BY <1>1
<1>6. Elements(Append(s, e)) = Elements(s) \cup {e}
  BY <1>1, <1>2, <1>3, <1>4, <1>5 DEF Elements
<1>7. ASSUME Distinct(s), e \notin Elements(s) PROVE Distinct(Append(s, e))
  BY <1>1, <1>2, <1>3, <1>4, <1>7 DEF Elements, Distinct
<1> QED BY <1>6, <1>7

LEMMA TailDistinct ==
    ASSUME NEW s \in Seq(1..MaxAlerts), s # <<>>
    PROVE  /\ Elements(Tail(s)) \subseteq Elements(s) /\ Head(s) \in Elements(s)
           /\ Distinct(s) => Distinct(Tail(s)) /\ Head(s) \notin Elements(Tail(s))
<1>1. Len(Tail(s)) = Len(s) - 1 /\ Len(s) \in Nat /\ Len(s) >= 1 /\ Head(s) = s[1]
  OBVIOUS
<1>2. \A i \in 1..Len(s) - 1 : Tail(s)[i] = s[i + 1] /\ i + 1 \in 1..Len(s) /\ i + 1 # 1
  BY <1>1
<1>3. Elements(Tail(s)) \subseteq Elements(s) /\ Head(s) \in Elements(s)
  BY <1>1, <1>2 DEF Elements
<1>4. ASSUME Distinct(s) PROVE Distinct(Tail(s)) /\ Head(s) \notin Elements(Tail(s))
  <2>1. \A i, j \in 1..Len(s) - 1 : i + 1 = j + 1 => i = j
    BY <1>1
  <2>2. Distinct(Tail(s))
    BY <1>1, <1>2, <1>4, <2>1 DEF Distinct
  <2>3. Head(s) \notin Elements(Tail(s))
    BY <1>1, <1>2, <1>4 DEF Distinct, Elements
  <2> QED BY <2>2, <2>3
<1> QED BY <1>3, <1>4

(* What FCM takes reaches each phone at most once more. *)
LEMMA ReachDistinct ==
    ASSUME TypeOK, NEW alert \in 0..MaxAlerts, NEW served, Reach(alert, served),
           \A p \in Phone : alert \notin Got(p) /\ Distinct(received[p])
    PROVE  /\ \A p \in Phone : Distinct(received'[p])
           /\ \A p \in Phone : Got(p)' \subseteq Got(p) \cup ({alert} \ {0})
<1> SUFFICES ASSUME NEW p \in Phone
             PROVE  Distinct(received'[p]) /\ Got(p)' \subseteq Got(p) \cup ({alert} \ {0})
  OBVIOUS
<1>0. received[p] \in Seq(1..MaxAlerts)
  BY DEF TypeOK, DeliveryTypeOK
<1>1. CASE alert > 0 /\ live[p] \in served
  <2>1. received'[p] = Append(received[p], alert)
    BY <1>1 DEF Reach
  <2>2. alert \in 1..MaxAlerts /\ alert # 0
    BY <1>1, DeliveryAssumption
  <2>3. Distinct(received[p]) /\ alert \notin Elements(received[p])
    BY DEF Got
  <2>4. Elements(Append(received[p], alert)) = Elements(received[p]) \cup {alert}
        /\ Distinct(Append(received[p], alert))
    <3> DEFINE s == received[p]
    <3>1. s \in Seq(1..MaxAlerts) /\ Distinct(s) /\ alert \notin Elements(s)
      BY <1>0, <2>3
    <3> HIDE DEF s
    <3>2. Elements(Append(s, alert)) = Elements(s) \cup {alert} /\ Distinct(Append(s, alert))
      BY <2>2, <3>1, AppendDistinct
    <3> QED BY <3>2 DEF s
  <2> QED BY <2>1, <2>2, <2>4 DEF Got
<1>2. CASE ~(alert > 0 /\ live[p] \in served)
  BY <1>2 DEF Reach, Got
<1> QED BY <1>1, <1>2
-----------------------------------------------------------------------------
LEMMA AlertInit == Init => AlertInv
<1> SUFFICES ASSUME Init PROVE AlertInv
  OBVIOUS
<1> USE DEF Init, DeliveryInit
<1>1. Waiting = {} /\ Sending = {} /\ Strayed = {} /\ \A p \in Phone : Got(p) = {}
  BY DeliveryAssumption DEF Waiting, Sending, Strayed, Got, Elements, NoSend
<1>2. Distinct(queue) /\ \A p \in Phone : Distinct(received[p])
  BY DEF Distinct
<1> QED BY <1>1, <1>2 DEF AlertInv, Raised, Apart, OnePost, NoSend

(* An alert that leaves the channel goes to the loop, from there to FCM or astray, and
   from there to FCM. *)
LEMMA MovesApart ==
    ASSUME Raised, Apart, alerts' = alerts,
           Waiting' \subseteq Waiting,
           Sending' \subseteq Sending \cup (Waiting \ Waiting'),
           Strayed' \subseteq Strayed \cup (Sending \ Sending'),
           \A p \in Phone : Got(p)' \subseteq Got(p) \cup (Sending \ (Sending' \cup Strayed'))
                                                     \cup (Strayed \ (Sending' \cup Strayed'))
    PROVE  Raised' /\ Apart'
<1>1. Raised'
  BY DEF Raised
<1>2. Waiting' \cap Sending' = {} /\ Waiting' \cap Strayed' = {} /\ Sending' \cap Strayed' = {}
  BY DEF Apart
<1>3. ASSUME NEW p \in Phone
      PROVE  (Waiting' \cup Sending' \cup Strayed') \cap Got(p)' = {}
  <2>1. /\ (Waiting \cup Sending \cup Strayed) \cap Got(p) = {}
        /\ Got(p)' \subseteq Got(p) \cup (Sending \ (Sending' \cup Strayed'))
                                     \cup (Strayed \ (Sending' \cup Strayed'))
    BY DEF Apart
  <2>2. Waiting \cap Sending = {} /\ Waiting \cap Strayed = {}
    BY DEF Apart
  <2> QED BY <2>1, <2>2
<1> QED BY <1>1, <1>2, <1>3 DEF Apart

(* A step of push::send that hands nothing on. *)
LEMMA SendGoesOn ==
    ASSUME AlertInv, UNCHANGED <<queue, alerts, heard>>, Sending' \subseteq Sending,
           \A s \in Sender \ {"loop"} : sends'[s].alert = 0
    PROVE  AlertInv'
<1>1. Waiting' = Waiting /\ Strayed' = Strayed /\ \A p \in Phone : Got(p)' = Got(p)
  BY DEF Waiting, Strayed, Got, heard
<1>2. Raised' /\ Apart'
  BY <1>1, MovesApart DEF AlertInv
<1> QED BY <1>2 DEF AlertInv, OnePost, heard

LEMMA AlertsKept ==
    ASSUME AlertInv, UNCHANGED <<queue, alerts, sends, heard>>
    PROVE  AlertInv'
<1>1. Sending' = Sending
  BY DEF Sending
<1> QED BY <1>1, SendGoesOn DEF AlertInv

LEMMA EnqueueOnce == TypeOK /\ AlertInv /\ Enqueue => AlertInv'
<1> SUFFICES ASSUME TypeOK, AlertInv, Enqueue PROVE AlertInv'
  OBVIOUS
<1>0. queue \in Seq(1..MaxAlerts) /\ alerts \in Nat /\ alerts + 1 \in 1..MaxAlerts
  BY DeliveryAssumption DEF TypeOK, DeliveryTypeOK, Enqueue
<1>1. 1..alerts \subseteq 1..alerts' /\ alerts' = alerts + 1 /\ alerts' \in 1..alerts'
      /\ alerts + 1 \notin 1..alerts
  BY <1>0 DEF Enqueue
<1>2. Sending' = Sending /\ Strayed' = Strayed /\ \A p \in Phone : Got(p)' = Got(p)
  BY DEF Enqueue, Sending, Strayed, Got, heard
<1>3. Waiting' \subseteq Waiting \cup {alerts + 1} /\ Distinct(queue')
  <2>1. CASE queue' = queue
    BY <2>1 DEF Waiting, AlertInv
  <2>2. CASE queue' = Append(queue, alerts + 1)
    <3>1. alerts + 1 \notin Elements(queue) /\ Distinct(queue)
      BY <1>1 DEF AlertInv, Raised, Waiting
    <3>2. /\ Elements(Append(queue, alerts + 1)) = Elements(queue) \cup {alerts + 1}
          /\ Distinct(Append(queue, alerts + 1))
      BY <1>0, <3>1, AppendDistinct
    <3> QED BY <2>2, <3>2 DEF Waiting
  <2> QED BY <2>1, <2>2 DEF Enqueue
<1>4. Raised'
  BY <1>1, <1>2, <1>3 DEF AlertInv, Raised
<1>5. Apart'
  BY <1>1, <1>2, <1>3 DEF AlertInv, Raised, Apart
<1> QED BY <1>3, <1>4, <1>5 DEF AlertInv, OnePost, Enqueue, heard

LEMMA TakeOnce == TypeOK /\ AlertInv /\ TakeRequest => AlertInv'
<1> SUFFICES ASSUME TypeOK, AlertInv, TakeRequest PROVE AlertInv'
  OBVIOUS
<1>0. queue \in Seq(1..MaxAlerts) /\ queue # <<>> /\ "loop" \in Sender
      /\ sends \in [Sender -> Send] /\ Distinct(queue)
  BY DeliveryAssumption DEF TypeOK, DeliveryTypeOK, TakeRequest, AlertInv
<1>1. /\ Waiting' \subseteq Waiting /\ Head(queue) \in Waiting
      /\ Head(queue) \notin Waiting' /\ Distinct(queue')
  BY <1>0, TailDistinct DEF TakeRequest, Waiting
<1>2. sends'["loop"].alert = Head(queue) /\ \A s \in Sender \ {"loop"} : sends'[s] = sends[s]
  BY <1>0 DEF TakeRequest, NoSend
<1>3. Sending' \subseteq {Head(queue)}
  BY <1>2 DEF Sending
<1>4. Strayed' = Strayed /\ \A p \in Phone : Got(p)' = Got(p)
  BY DEF TakeRequest, Strayed, Got, heard
<1>5. Raised' /\ Apart'
  BY <1>1, <1>3, <1>4, MovesApart DEF AlertInv, TakeRequest
<1> QED BY <1>1, <1>2, <1>5 DEF AlertInv, OnePost, TakeRequest, heard

(* One sender's call ends, or goes on with the alert it had. *)
LEMMA SendingShrinks ==
    ASSUME TypeOK, AlertInv, NEW s \in Sender, NEW send, sends' = [sends EXCEPT ![s] = send],
           send.pc \in {"list", "post"} => /\ send.alert = sends[s].alert
                                           /\ sends[s].pc \in {"list", "post"},
           send.alert \in {0, sends[s].alert}
    PROVE  /\ Sending' \subseteq Sending
           /\ \A q \in Sender \ {"loop"} : sends'[q].alert = 0
<1>0. sends \in [Sender -> Send] /\ "loop" \in Sender
  BY DeliveryAssumption DEF TypeOK, DeliveryTypeOK
<1>1. sends'[s] = send /\ \A q \in Sender \ {s} : sends'[q] = sends[q]
  BY <1>0
<1>2. Sending' \subseteq Sending
  BY <1>0, <1>1 DEF Sending
<1>3. \A q \in Sender \ {"loop"} : sends'[q].alert = 0
  BY <1>1 DEF AlertInv
<1> QED BY <1>2, <1>3

LEMMA NoSendShrinks ==
    ASSUME TypeOK, AlertInv, NEW s \in Sender, sends' = [sends EXCEPT ![s] = NoSend]
    PROVE  /\ Sending' \subseteq Sending
           /\ \A q \in Sender \ {"loop"} : sends'[q].alert = 0
<1>1. NoSend.pc = "idle" /\ NoSend.alert = 0
  BY DEF NoSend
<1> QED BY <1>1, SendingShrinks

LEMMA QuietSends ==
    ASSUME TypeOK, AlertInv, NEW s \in Sender, StartTest(s) \/ ListTokens(s) \/ Prune(s)
    PROVE  AlertInv'
<1>0. sends[s] \in Send /\ UNCHANGED <<queue, alerts, heard>>
  BY DEF TypeOK, DeliveryTypeOK, StartTest, ListTokens, Prune
<1>1. CASE sends' = [sends EXCEPT ![s] = NoSend]
  BY <1>0, <1>1, NoSendShrinks, SendGoesOn
<1>2. CASE StartTest(s)
  <2>1. sends' = [sends EXCEPT ![s] = [NoSend EXCEPT !.pc = "list"]] /\ s # "loop"
    BY <1>2 DEF StartTest
  <2>2. \A q \in Sender \ {s} : sends'[q] = sends[q]
    BY <2>1 DEF TypeOK, DeliveryTypeOK
  <2>3. sends'[s].alert = 0
    BY <2>1 DEF TypeOK, DeliveryTypeOK, NoSend
  <2>4. Sending' = Sending /\ \A q \in Sender \ {"loop"} : sends'[q].alert = 0
    BY <2>1, <2>2, <2>3, DeliveryAssumption DEF Sending, AlertInv
  <2> QED BY <1>0, <2>4, SendGoesOn
<1>3. CASE ListTokens(s) /\ sends' = [sends EXCEPT ![s] = [@ EXCEPT !.pc = "post", !.batch = tokens]]
  <2>1. sends' = [sends EXCEPT ![s] = [sends[s] EXCEPT !.pc = "post", !.batch = tokens]]
        /\ sends[s].pc = "list"
    BY <1>3 DEF ListTokens
  <2>2. [sends[s] EXCEPT !.pc = "post", !.batch = tokens].alert = sends[s].alert
    BY <1>0 DEF Send
  <2> QED BY <1>0, <2>1, <2>2, SendingShrinks, SendGoesOn
<1> QED BY <1>1, <1>2, <1>3 DEF ListTokens, Prune

(* Whose alert is on its way: the loop's, which leaves it there or takes it along. *)
LEMMA StrayOf ==
    ASSUME TypeOK, AlertInv, NEW s \in Sender
    PROVE  /\ {q.alert : q \in Stray(sends[s])} \subseteq Sending
           /\ \A q, r \in Stray(sends[s]) : q = r
           /\ s # "loop" => Stray(sends[s]) = {}
BY DEF Stray, Sending, AlertInv

LEMMA PostOnce == \A s \in Sender : TypeOK /\ AlertInv /\ Post(s) => AlertInv'
<1> SUFFICES ASSUME NEW s \in Sender, TypeOK, AlertInv, Post(s) PROVE AlertInv'
  OBVIOUS
<1>0. /\ sends \in [Sender -> Send] /\ sends[s] \in Send /\ sends[s].pc = "post"
      /\ UNCHANGED <<queue, alerts>>
  BY DEF TypeOK, DeliveryTypeOK, Post
<1>1. CASE sends' = [sends EXCEPT ![s] = NoSend] /\ UNCHANGED heard
  BY <1>0, <1>1, NoSendShrinks, SendGoesOn
<1>2. CASE sends' = [sends EXCEPT ![s] = NoSend]
           /\ stray' = stray \cup Stray(sends[s]) /\ received' = received
  <2>1. Waiting' = Waiting /\ \A p \in Phone : Got(p)' = Got(p)
    BY <1>0, <1>2 DEF Waiting, Got
  <2>2. Sending' \subseteq Sending /\ \A q \in Sender \ {"loop"} : sends'[q].alert = 0
    BY <1>2, NoSendShrinks
  <2>3. s = "loop" => Sending' = {}
    BY <1>0, <1>2 DEF Sending, NoSend
  <2>4. Strayed' \subseteq Strayed \cup (Sending \ Sending')
    <3>1. CASE s = "loop"
      BY <1>2, <2>3, <3>1, StrayOf DEF Strayed
    <3>2. CASE s # "loop"
      BY <1>2, <3>2, StrayOf DEF Strayed
    <3> QED BY <3>1, <3>2
  <2>5. Raised' /\ Apart'
    BY <1>0, <2>1, <2>2, <2>4, MovesApart DEF AlertInv
  <2>6. OnePost'
    <3>1. ASSUME NEW q \in stray, NEW r \in Stray(sends[s]) PROVE q.alert # r.alert
      BY StrayOf DEF AlertInv, Apart, Strayed
    <3> QED BY <1>2, <3>1, StrayOf DEF AlertInv, OnePost
  <2> QED BY <1>0, <1>2, <2>2, <2>5, <2>6 DEF AlertInv
<1>3. ASSUME NEW failed \in SUBSET sends[s].batch, NEW dead,
             Reach(sends[s].alert, sends[s].batch \ failed), stray' = stray,
             sends' = [sends EXCEPT ![s] = IF dead = {} THEN NoSend
                                           ELSE [@ EXCEPT !.pc = "prune", !.dead = dead]]
      PROVE  AlertInv'
  <2>0. /\ sends[s].alert \in 0..MaxAlerts /\ "loop" \in Sender
        /\ s = "loop" => Sending = {sends[s].alert}
        /\ s # "loop" => sends[s].alert = 0
    BY <1>0, DeliveryAssumption DEF Send, Sending, AlertInv
  <2>1. \A p \in Phone : sends[s].alert \notin Got(p) /\ Distinct(received[p])
    BY <2>0 DEF AlertInv, Apart, Raised
  <2>2. /\ \A p \in Phone : Distinct(received'[p])
        /\ \A p \in Phone : Got(p)' \subseteq Got(p) \cup ({sends[s].alert} \ {0})
    BY <1>3, <2>0, <2>1, ReachDistinct
  <2>3. \E send : /\ sends' = [sends EXCEPT ![s] = send]
                  /\ send.pc \in {"idle", "prune"} /\ send.alert \in {0, sends[s].alert}
    <3>1. NoSend.pc = "idle" /\ NoSend.alert = 0
      BY DEF NoSend
    <3>2. /\ [sends[s] EXCEPT !.pc = "prune", !.dead = dead].pc = "prune"
          /\ [sends[s] EXCEPT !.pc = "prune", !.dead = dead].alert = sends[s].alert
      BY <1>0 DEF Send
    <3>3. CASE dead = {}
      BY <1>3, <3>1, <3>3
    <3>4. CASE dead # {}
      <4>1. sends' = [sends EXCEPT ![s] = [sends[s] EXCEPT !.pc = "prune", !.dead = dead]]
        BY <1>3, <3>4
      <4> QED BY <3>2, <4>1
    <3> QED BY <3>3, <3>4
  <2>4. Sending' \subseteq Sending /\ \A q \in Sender \ {"loop"} : sends'[q].alert = 0
    BY <2>3, SendingShrinks
  <2>5. s = "loop" => Sending' = {}
    BY <1>0, <2>3 DEF Sending
  <2>6. Waiting' = Waiting /\ Strayed' = Strayed
    BY <1>0, <1>3 DEF Waiting, Strayed
  <2>7. \A p \in Phone : Got(p)' \subseteq Got(p) \cup (Sending \ (Sending' \cup Strayed'))
    BY <2>0, <2>2, <2>5, <2>6 DEF AlertInv, Apart
  <2>8. Raised' /\ Apart'
    BY <1>0, <2>4, <2>6, <2>7, MovesApart DEF AlertInv
  <2> QED BY <1>0, <1>3, <2>2, <2>4, <2>8 DEF AlertInv, OnePost
<1> QED BY <1>1, <1>2, <1>3 DEF Post

LEMMA ServeOnce == TypeOK /\ AlertInv /\ Serve => AlertInv'
<1> SUFFICES ASSUME TypeOK, AlertInv, Serve PROVE AlertInv'
  OBVIOUS
<1>1. PICK q \in stray :
        /\ Cardinality(q.batch) <= RelayMax
        /\ stray' = stray \ {q}
        /\ \E failed \in SUBSET q.batch :
              (failed = {} \/ "relay" \in Fault) /\ Reach(q.alert, q.batch \ failed)
  BY DEF Serve
<1>2. q.alert \in 0..MaxAlerts /\ q.alert \in Strayed
  BY DEF TypeOK, DeliveryTypeOK, Strayed
<1>3. \A p \in Phone : q.alert \notin Got(p) /\ Distinct(received[p])
  BY <1>2 DEF AlertInv, Apart
<1>4. /\ \A p \in Phone : Distinct(received'[p])
      /\ \A p \in Phone : Got(p)' \subseteq Got(p) \cup ({q.alert} \ {0})
  BY <1>1, <1>2, <1>3, ReachDistinct
<1>5. UNCHANGED <<queue, alerts, sends>> /\ Waiting' = Waiting /\ Sending' = Sending
  BY DEF Serve, backend, Waiting, Sending
<1>6. Strayed' \subseteq Strayed \ {q.alert}
  BY <1>1 DEF Strayed, AlertInv, OnePost
<1>7. q.alert \notin Sending
  BY <1>2 DEF AlertInv, Apart
<1>8. Raised' /\ Apart'
  BY <1>2, <1>4, <1>5, <1>6, <1>7, MovesApart DEF AlertInv
<1> QED BY <1>1, <1>4, <1>5, <1>8 DEF AlertInv, OnePost

LEMMA RestartOnce == TypeOK /\ AlertInv /\ Restart => AlertInv'
<1> SUFFICES ASSUME TypeOK, AlertInv, Restart PROVE AlertInv'
  OBVIOUS
<1>0. "loop" \in Sender
  BY DeliveryAssumption
<1>1. Waiting' = {} /\ Distinct(queue')
  BY DEF Restart, Waiting, Elements, Distinct
<1>2. Sending' = {} /\ \A s \in Sender \ {"loop"} : sends'[s].alert = 0
  BY <1>0 DEF Restart, Sending, NoSend
<1>3. UNION {Stray(sends[s]) : s \in Sender} = Stray(sends["loop"])
  BY <1>0, StrayOf
<1>4. stray' = stray \cup Stray(sends["loop"])
  BY <1>3 DEF Restart
<1>5. Strayed' \subseteq Strayed \cup Sending
  BY <1>0, <1>4, StrayOf DEF Strayed
<1>6. OnePost'
  <2>1. ASSUME NEW q \in stray, NEW r \in Stray(sends["loop"]) PROVE q.alert # r.alert
    BY <1>0, StrayOf DEF AlertInv, Apart, Strayed
  <2> QED BY <1>0, <1>4, <2>1, StrayOf DEF AlertInv, OnePost
<1>7. alerts' = alerts /\ received' = received /\ \A p \in Phone : Got(p)' = Got(p)
  BY DEF Restart, Got
<1>8. Raised' /\ Apart'
  BY <1>1, <1>2, <1>5, <1>7, MovesApart DEF AlertInv
<1> QED BY <1>1, <1>2, <1>6, <1>7, <1>8 DEF AlertInv
-----------------------------------------------------------------------------
LEMMA AlertStep == TypeOK /\ AlertInv /\ [Next]_vars => AlertInv'
<1> SUFFICES ASSUME TypeOK, AlertInv, [Next]_vars PROVE AlertInv'
  OBVIOUS
<1>1. CASE DeliveryNext
  BY <1>1, EnqueueOnce, TakeOnce, ServeOnce, RestartOnce, QuietSends, PostOnce DEF DeliveryNext
<1>2. CASE UNCHANGED <<queue, alerts, sends, heard>>
  BY <1>2, AlertsKept
<1>3. DeliveryNext \/ UNCHANGED <<queue, alerts, sends, heard>>
  <2>1. ASSUME NEW p \in Phone,
               Launch(p) \/ Toggle(p) \/ Rotate(p) \/ Leave(p) \/ Kill(p)
        PROVE  UNCHANGED <<queue, alerts, sends, heard>>
    BY <2>1 DEF Launch, Toggle, Rotate, Leave, Kill, backend
  <2>2. ASSUME NEW p \in Phone, NEW i \in Slot, Operation(p, i)
        PROVE  UNCHANGED <<queue, alerts, sends, heard>>
    BY <2>2 DEF Operation, GetToken, Continue, DeleteToken, Finish, FcmFails, GiveUp, backend
  <2>3. ASSUME NEW r \in requests, Handle(r) \/ Lose(r)
        PROVE  UNCHANGED <<queue, alerts, sends, heard>>
    BY <2>3 DEF Handle, Lose, backend
  <2>4. CASE UNCHANGED vars
    BY <2>4 DEF vars, backend
  <2> QED BY <2>1, <2>2, <2>3, <2>4 DEF Next, Backend
<1> QED BY <1>1, <1>2, <1>3

(* delivery.rs and push::send: no phone gets an alert twice, however often connections
   break, tokens rotate or the backend restarts. *)
THEOREM AlertsOnce == Spec => []AlertsAtMostOnce
<1>1. Init => AlertInv
  BY AlertInit
<1>2. TypeOK /\ AlertInv /\ [Next]_vars => AlertInv'
  BY AlertStep
<1>3. AlertInv => AlertsAtMostOnce
  BY DEF AlertInv, AlertsAtMostOnce, Distinct
<1> QED BY <1>1, <1>2, <1>3, PushTypesCorrect, PTL DEF Spec
=============================================================================
