------------------------------- MODULE Delivery -------------------------------
(***************************************************************************)
(* The backend's side of push: the table of tokens, the bounded channel,   *)
(* the loop that takes one alert after another to the relay, the test push *)
(* a request sends meanwhile, and the pruning of the tokens the relay      *)
(* calls dead.  The relay and FCM are external: FCM knows one live token   *)
(* per phone and never reuses one.  Module Push adds the phones.           *)
(***************************************************************************)
EXTENDS Naturals, Sequences, FiniteSets

CONSTANTS
    Phone,          \* installations of the app
    Token,          \* FCM tokens, each minted at most once
    None,           \* Option::None, null
    QueueCapacity,  \* DELIVERY_QUEUE_CAPACITY
    RelayMax,       \* MAX_TOKENS of the relay
    MaxAlerts,      \* bound: alerts raised
    Sender,         \* who calls push::send: the loop, requests for a test
    Fault           \* the faults that may happen (see FaultKind)

FaultKind == {"database", "relay", "restart", "network", "late", "leave", "kill", "rotate"}

ASSUME DeliveryAssumption ==
    /\ None \notin Phone \cup Token
    /\ {QueueCapacity, RelayMax} \subseteq Nat \ {0}
    /\ MaxAlerts \in Nat
    /\ "loop" \in Sender
    /\ Fault \subseteq FaultKind

VARIABLES
    tokens,     \* table push_tokens
    queue,      \* the delivery channel: numbered alerts
    alerts,     \* how many alerts were offered to the channel
    sends,      \* the calls of push::send: the loop's and a test's
    live,       \* FCM: the token of each phone, or None
    used,       \* FCM: every token it ever minted
    stray,      \* POSTs of alerts whose caller is gone and which FCM may yet serve
    received    \* history: the alerts each phone got

backend == <<tokens, queue, alerts, sends>>
fcm     == <<live, used>>
heard   == <<stray, received>>

Send   == [pc: {"idle", "list", "post", "prune"}, alert: 0..MaxAlerts,
           batch: SUBSET Token, dead: SUBSET Token]
NoSend == [pc |-> "idle", alert |-> 0, batch |-> {}, dead |-> {}]

DeliveryTypeOK ==
    /\ tokens \subseteq Token
    /\ queue \in Seq(1..MaxAlerts) /\ Len(queue) <= QueueCapacity
    /\ alerts \in 0..MaxAlerts
    /\ sends \in [Sender -> Send]
    /\ live \in [Phone -> Token \cup {None}]
    /\ used \subseteq Token
    /\ stray \subseteq [alert: 1..MaxAlerts, batch: SUBSET Token]
    /\ received \in [Phone -> Seq(1..MaxAlerts)]

DeliveryInit ==
    /\ tokens = {} /\ queue = <<>> /\ alerts = 0
    /\ sends = [s \in Sender |-> NoSend]
    /\ live = [p \in Phone |-> None] /\ used = {}
    /\ stray = {} /\ received = [p \in Phone |-> <<>>]

LiveTokens == {live[p] : p \in Phone} \ {None}
-----------------------------------------------------------------------------
(* Mutant: the channel has no bound. *)
EnqueueUnbounded ==
    /\ alerts < MaxAlerts
    /\ alerts' = alerts + 1
    /\ queue' = Append(queue, alerts + 1)
    /\ UNCHANGED <<tokens, sends, fcm, heard>>

(* enqueue: try_send, dropped when the channel is full. *)
Enqueue ==
    /\ alerts < MaxAlerts
    /\ alerts' = alerts + 1
    /\ queue' = IF Len(queue) < QueueCapacity THEN Append(queue, alerts + 1) ELSE queue
    /\ UNCHANGED <<tokens, sends, fcm, heard>>

(* Mutant: the request stays in the channel until it is delivered. *)
PeekRequest ==
    /\ sends["loop"].pc = "idle" /\ queue # <<>>
    /\ sends' = [sends EXCEPT !["loop"] = [NoSend EXCEPT !.pc = "list", !.alert = Head(queue)]]
    /\ UNCHANGED <<tokens, queue, alerts, fcm, heard>>

(* run_delivery: one request at a time, the next after deliver has returned. *)
TakeRequest ==
    /\ sends["loop"].pc = "idle" /\ queue # <<>>
    /\ queue' = Tail(queue)
    /\ sends' = [sends EXCEPT !["loop"] = [NoSend EXCEPT !.pc = "list", !.alert = Head(queue)]]
    /\ UNCHANGED <<tokens, alerts, fcm, heard>>

(* POST /api/notifications/test calls push::send from its own handler. *)
StartTest(s) ==
    /\ s # "loop" /\ sends[s].pc = "idle"
    /\ sends' = [sends EXCEPT ![s] = [NoSend EXCEPT !.pc = "list"]]
    /\ UNCHANGED <<tokens, queue, alerts, fcm, heard>>

ListTokens(s) ==
    /\ sends[s].pc = "list"
    /\ \/ sends' = [sends EXCEPT ![s] = IF tokens = {} THEN NoSend
                                        ELSE [@ EXCEPT !.pc = "post", !.batch = tokens]]
       \/ "database" \in Fault /\ sends' = [sends EXCEPT ![s] = NoSend]
    /\ UNCHANGED <<tokens, queue, alerts, fcm, heard>>

(* Mutant: a token the relay merely failed on counts as dead. *)
DeadOrFailed(batch, failed) == (batch \ LiveTokens) \cup failed

(* is_dead_status over the relay's answer.  FCM calls a token unregistered or
   invalid only when it is not live; one it fails on for now is an error. *)
Dead(batch, failed) == (batch \ LiveTokens) \ failed

(* The alert reaches the phones whose live tokens FCM does not fail on.  Only
   numbered alerts are remembered, not tests. *)
Reach(alert, served) ==
    received' = [p \in Phone |-> IF alert > 0 /\ live[p] \in served
                                 THEN Append(received[p], alert) ELSE received[p]]

Stray(send) ==
    IF send.pc = "post" /\ send.alert > 0
    THEN {[alert |-> send.alert, batch |-> send.batch]} ELSE {}

(* send: a batch above MAX_TOKENS, or a caller above its rate, is refused; an
   accepted batch is answered token by token; a broken connection leaves the POST on
   its way without anyone who waits for its answer. *)
Post(s) ==
    /\ sends[s].pc = "post"
    /\ \/ /\ Cardinality(sends[s].batch) > RelayMax \/ "relay" \in Fault
          /\ sends' = [sends EXCEPT ![s] = NoSend]
          /\ UNCHANGED heard
       \/ /\ Cardinality(sends[s].batch) <= RelayMax
          /\ \E failed \in SUBSET sends[s].batch :
                LET dead == Dead(sends[s].batch, failed)
                IN  /\ failed = {} \/ "relay" \in Fault
                    /\ Reach(sends[s].alert, sends[s].batch \ failed)
                    /\ sends' = [sends EXCEPT ![s] =
                           IF dead = {} THEN NoSend
                           ELSE [@ EXCEPT !.pc = "prune", !.dead = dead]]
          /\ stray' = stray
       \/ /\ "relay" \in Fault
          /\ sends' = [sends EXCEPT ![s] = NoSend]
          /\ stray' = stray \cup Stray(sends[s]) /\ received' = received
    /\ UNCHANGED <<tokens, queue, alerts, fcm>>

(* FCM serves a POST whose caller is gone. *)
Serve ==
    /\ \E q \in stray :
        /\ Cardinality(q.batch) <= RelayMax
        /\ stray' = stray \ {q}
        /\ \E failed \in SUBSET q.batch :
              (failed = {} \/ "relay" \in Fault) /\ Reach(q.alert, q.batch \ failed)
    /\ UNCHANGED <<backend, fcm>>

(* delete_many: one transaction, by token, whatever happened to it since. *)
Prune(s) ==
    /\ sends[s].pc = "prune"
    /\ \/ tokens' = tokens \ sends[s].dead
       \/ "database" \in Fault /\ tokens' = tokens
    /\ sends' = [sends EXCEPT ![s] = NoSend]
    /\ UNCHANGED <<queue, alerts, fcm, heard>>

(* The backend dies and starts again: the table stays, the channel does not, and a
   POST it has sent goes on. *)
Restart ==
    /\ "restart" \in Fault
    /\ queue' = <<>> /\ sends' = [s \in Sender |-> NoSend]
    /\ stray' = stray \cup UNION {Stray(sends[s]) : s \in Sender}
    /\ UNCHANGED <<tokens, alerts, fcm, received>>

DeliveryNext ==
    \/ Enqueue \/ TakeRequest \/ Serve \/ Restart
    \/ \E s \in Sender : StartTest(s) \/ ListTokens(s) \/ Post(s) \/ Prune(s)
=============================================================================
