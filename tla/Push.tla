--------------------------------- MODULE Push ---------------------------------
(***************************************************************************)
(* The phones' side of push, on top of Delivery: push_service.dart and the *)
(* toggle of settings.dart.  An operation (the app's launch, turning push  *)
(* on, turning it off) is a chain of awaits: ask FCM for the token, tell   *)
(* the backend, wait for its answer, delete the token, store the user's    *)
(* choice.  Beside it a listener registers rotated tokens without waiting. *)
(* FCM, the network and the operating system are external.                 *)
(***************************************************************************)
EXTENDS Delivery

CONSTANT Slot           \* operations one app can have in flight

ASSUME PushAssumption == Slot \subseteq Nat \ {0} /\ 1 \in Slot

VARIABLES
    running,    \* is the app running
    enabled,    \* preference push_enabled, which the toggle shows
    wired,      \* is the token-rotation listener attached
    ops,        \* the operations of each phone
    requests,   \* API requests of the apps that the backend has not handled
    disturbed   \* history: see ToggleTruthful

app  == <<running, enabled, wired, ops, requests>>
vars == <<backend, fcm, heard, app, disturbed>>

Op   == [kind: {"none", "launch", "on", "off"}, pc: {"get", "wait", "ok", "delete", "finish"},
         token: Token \cup {None}, mounted: BOOLEAN]
NoOp == [kind |-> "none", pc |-> "get", token |-> None, mounted |-> FALSE]
Start(kind) == [NoOp EXCEPT !.kind = kind, !.mounted = kind # "launch"]

(* slot is the operation that awaits the answer, 0 when none does: the listener's
   requests, and those whose caller has given up. *)
Request == [op: {"register", "unregister"}, token: Token, phone: Phone,
            slot: Slot \cup {0}, late: BOOLEAN]

TypeOK ==
    /\ DeliveryTypeOK
    /\ {running, enabled, wired, disturbed} \subseteq [Phone -> BOOLEAN]
    /\ ops \in [Phone -> [Slot -> Op]]
    /\ requests \subseteq Request

Init ==
    /\ DeliveryInit
    /\ running = [p \in Phone |-> FALSE] /\ enabled = [p \in Phone |-> FALSE]
    /\ wired = [p \in Phone |-> FALSE]
    /\ ops = [p \in Phone |-> [i \in Slot |-> NoOp]]
    /\ requests = {}
    /\ disturbed = [p \in Phone |-> FALSE]

Busy(p) == {i \in Slot : ops[p][i].kind # "none"}

(* The operation has the phone to itself, and nobody has left its screen. *)
Alone(p, i) == Busy(p) = {i} /\ (ops[p][i].mounted \/ ops[p][i].kind = "launch")

Disturb(p) == disturbed' = [disturbed EXCEPT ![p] = TRUE]
End(p, i)  == ops' = [ops EXCEPT ![p][i] = NoOp]
-----------------------------------------------------------------------------
(* initPushOnLaunch, awaited before the first screen is built. *)
Launch(p) ==
    /\ ~running[p]
    /\ running' = [running EXCEPT ![p] = TRUE]
    /\ ops' = IF enabled[p] THEN [ops EXCEPT ![p][1] = Start("launch")] ELSE ops
    /\ UNCHANGED <<backend, fcm, heard, enabled, wired, requests, disturbed>>

(* _togglePush: one at a time per settings screen, but a screen opened anew does
   not know of the operation that its predecessor started. *)
Toggle(p) ==
    /\ running[p]
    /\ \A i \in Busy(p) : ops[p][i].kind # "launch" /\ ~ops[p][i].mounted
    /\ \E i \in Slot \ Busy(p) :
           ops' = [ops EXCEPT ![p][i] = Start(IF enabled[p] THEN "off" ELSE "on")]
    /\ UNCHANGED <<backend, fcm, heard, running, enabled, wired, requests, disturbed>>

Heard(p, token) ==
    IF running[p] /\ wired[p]
    THEN {[op |-> "register", token |-> token, phone |-> p, slot |-> 0, late |-> FALSE]}
    ELSE {}

Mint(p, token) ==
    /\ token \in Token \ used
    /\ live' = [live EXCEPT ![p] = token] /\ used' = used \cup {token}

(* getToken mints a token when there is none; the request goes out with it. *)
GetToken(p, i) ==
    /\ i \in Busy(p) /\ ops[p][i].pc = "get"
    /\ \E token \in Token :
        /\ IF live[p] = None THEN Mint(p, token) ELSE token = live[p] /\ UNCHANGED fcm
        /\ ops' = [ops EXCEPT ![p][i].pc = "wait", ![p][i].token = token]
        /\ requests' = requests
              \cup (IF live[p] = None THEN Heard(p, token) ELSE {})
              \cup {[op    |-> IF ops[p][i].kind = "off" THEN "unregister" ELSE "register",
                     token |-> token, phone |-> p, slot |-> i, late |-> FALSE]}
    /\ disturbed' = [disturbed EXCEPT ![p] = @ /\ ~Alone(p, i)]
    /\ UNCHANGED <<backend, heard, running, enabled, wired>>

(* Mutant: turning push off leaves the token with FCM. *)
ContinueWithoutDelete(p, i) ==
    /\ i \in Busy(p) /\ ops[p][i].pc = "ok"
    /\ IF ops[p][i].kind = "launch" THEN End(p, i)
       ELSE ops' = [ops EXCEPT ![p][i].pc = "finish"]
    /\ wired' = [wired EXCEPT ![p] = @ \/ ops[p][i].kind # "off"]
    /\ UNCHANGED <<backend, fcm, heard, running, enabled, requests, disturbed>>

(* The backend said yes: the listener is attached, or the token deleted. *)
Continue(p, i) ==
    /\ i \in Busy(p) /\ ops[p][i].pc = "ok"
    /\ CASE ops[p][i].kind = "launch" -> End(p, i)
         [] ops[p][i].kind = "on"     -> ops' = [ops EXCEPT ![p][i].pc = "finish"]
         [] OTHER                     -> ops' = [ops EXCEPT ![p][i].pc = "delete"]
    /\ wired' = [wired EXCEPT ![p] = @ \/ ops[p][i].kind # "off"]
    /\ UNCHANGED <<backend, fcm, heard, running, enabled, requests, disturbed>>

DeleteToken(p, i) ==
    /\ i \in Busy(p) /\ ops[p][i].pc = "delete"
    /\ live' = [live EXCEPT ![p] = None]
    /\ ops' = [ops EXCEPT ![p][i].pc = "finish"]
    /\ UNCHANGED <<backend, used, heard, running, enabled, wired, requests, disturbed>>

(* The choice is stored only if the settings screen is still there. *)
Finish(p, i) ==
    /\ i \in Busy(p) /\ ops[p][i].pc = "finish"
    /\ enabled' = IF ops[p][i].mounted
                  THEN [enabled EXCEPT ![p] = ops[p][i].kind = "on"] ELSE enabled
    /\ End(p, i)
    /\ UNCHANGED <<backend, fcm, heard, running, wired, requests, disturbed>>

(* An exception ends the operation where it stands: FCM cannot be reached. *)
FcmFails(p, i) ==
    /\ "network" \in Fault
    /\ i \in Busy(p) /\ ops[p][i].pc \in {"get", "delete"}
    /\ End(p, i) /\ Disturb(p)
    /\ UNCHANGED <<backend, fcm, heard, running, enabled, wired, requests>>

(* Dio's timeout: the operation fails, the request may still arrive. *)
GiveUp(p, i) ==
    /\ "late" \in Fault
    /\ \E r \in requests :
        /\ r.phone = p /\ r.slot = i
        /\ requests' = (requests \ {r}) \cup {[r EXCEPT !.slot = 0, !.late = TRUE]}
    /\ End(p, i) /\ Disturb(p)
    /\ UNCHANGED <<backend, fcm, heard, running, enabled, wired>>
-----------------------------------------------------------------------------
Answer(r, good) ==
    IF r.slot = 0 THEN ops' = ops
    ELSE ops' = [ops EXCEPT ![r.phone][r.slot] =
                    IF good THEN [@ EXCEPT !.pc = "ok"] ELSE NoOp]

Apply(r) == IF r.op = "register" THEN tokens \cup {r.token} ELSE tokens \ {r.token}

(* PUT and DELETE of a push token: upsert, delete; both idempotent. *)
Handle(r) ==
    /\ requests' = requests \ {r}
    /\ \/ /\ tokens' = Apply(r)
          /\ Answer(r, TRUE)
          /\ IF r.late THEN Disturb(r.phone) ELSE disturbed' = disturbed
       \/ /\ \/ "network" \in Fault /\ tokens' = Apply(r)
             \/ "database" \in Fault /\ tokens' = tokens
          /\ Answer(r, FALSE)
          /\ Disturb(r.phone)
    /\ UNCHANGED <<queue, alerts, sends, fcm, heard, running, enabled, wired>>

Lose(r) ==
    /\ "network" \in Fault
    /\ requests' = requests \ {r}
    /\ Answer(r, FALSE) /\ Disturb(r.phone)
    /\ UNCHANGED <<backend, fcm, heard, running, enabled, wired>>

(* FCM replaces a token whenever it likes; the app hears of it if its listener is
   attached. *)
Rotate(p) ==
    /\ "rotate" \in Fault
    /\ live[p] # None
    /\ \E token \in Token : Mint(p, token) /\ requests' = requests \cup Heard(p, token)
    /\ IF running[p] /\ wired[p] THEN disturbed' = disturbed ELSE Disturb(p)
    /\ UNCHANGED <<backend, heard, running, enabled, wired, ops>>

(* The user goes to another screen while an operation runs. *)
Leave(p) ==
    /\ "leave" \in Fault
    /\ \E i \in Busy(p) : ops[p][i].mounted /\ ops' = [ops EXCEPT ![p][i].mounted = FALSE]
    /\ Disturb(p)
    /\ UNCHANGED <<backend, fcm, heard, running, enabled, wired, requests>>

Kill(p) ==
    /\ "kill" \in Fault
    /\ running[p]
    /\ running' = [running EXCEPT ![p] = FALSE] /\ wired' = [wired EXCEPT ![p] = FALSE]
    /\ ops' = [ops EXCEPT ![p] = [i \in Slot |-> NoOp]]
    /\ requests' = {r \in requests : r.phone # p} \cup
                   {[r EXCEPT !.slot = 0, !.late = TRUE] : r \in {q \in requests : q.phone = p}}
    /\ IF Busy(p) = {} THEN disturbed' = disturbed ELSE Disturb(p)
    /\ UNCHANGED <<backend, fcm, heard, enabled>>

Backend == DeliveryNext /\ UNCHANGED <<app, disturbed>>

Operation(p, i) ==
    \/ GetToken(p, i) \/ Continue(p, i) \/ DeleteToken(p, i) \/ Finish(p, i)
    \/ FcmFails(p, i) \/ GiveUp(p, i)

Next ==
    \/ Backend
    \/ \E p \in Phone : \/ Launch(p) \/ Toggle(p) \/ Rotate(p) \/ Leave(p) \/ Kill(p)
                        \/ \E i \in Slot : Operation(p, i)
    \/ \E r \in requests : Handle(r) \/ Lose(r)

Spec == Init /\ [][Next]_vars
-----------------------------------------------------------------------------
(* is_dead_status and delete_many: a token that is live when it leaves the table
   left by its own app's request.  The loop and a test may prune at once, from
   lists and answers that are old by then. *)
LiveTokensKept ==
    [][\A t \in LiveTokens :
        t \in tokens /\ t \notin tokens' =>
            \E r \in requests \ requests' : r.op = "unregister" /\ r.token = t]_vars

(* delivery.rs: "delivery is best-effort", so at most once: no phone gets an alert
   twice, whatever is cut off, pruned, rotated or restarted between.  (In order it is
   not: an alert whose connection broke may arrive after the next one.) *)
AlertsAtMostOnce ==
    \A p \in Phone : \A i, j \in 1..Len(received[p]) :
        received[p][i] = received[p][j] => i = j

(* The toggle is truthful once everything has come to rest: the backend has the
   phone's live token exactly when push is on.  A disturbance (a failure, a late
   request, a screen left, an unheard rotation) may break that, and the next
   operation that has the phone to itself and completes restores it. *)
Settled(p) == Busy(p) = {} /\ \A r \in requests : r.phone # p

ToggleTruthful ==
    \A p \in Phone : Settled(p) /\ ~disturbed[p] => (enabled[p] <=> live[p] \in tokens)

(* push_service.dart "Whether the user has turned push on for this device (persisted
   intent)": a phone whose toggle is off, and at rest, is not registered. *)
OffMeansSilent ==
    \A p \in Phone : Settled(p) /\ ~enabled[p] => live[p] \notin tokens
=============================================================================
