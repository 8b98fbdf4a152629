------------------------------ MODULE RelayLimit ------------------------------
(***************************************************************************)
(* The relay's POST /v1/push on many instances of the cloud function: the  *)
(* time is read first, then a Firestore transaction counts the call, is    *)
(* tried again when another instance was quicker, and may give up; then    *)
(* the request is validated and handed to FCM.  Firestore is external: a   *)
(* transaction commits only if the document is still as it was read, and   *)
(* the answer of a commit may be lost.                                     *)
(***************************************************************************)
EXTENDS RateWindow, FiniteSets

CONSTANTS
    Limit,          \* RateLimitOptions.limit
    Skew,           \* how far the instances' clocks are behind at most
    MaxAttempts,    \* Firestore: how often a transaction is tried
    Unheard         \* the calls whose commit's answer may be lost

VARIABLES
    clock,      \* the latest of the instances' Date.now()
    windows,    \* the collection rate_limits
    verdict,    \* what hit returned to each call
    calls       \* the local variables of each handler

Atomic == INSTANCE RateLimiter

ASSUME RelayAssumption ==
    /\ Limit \in Nat
    /\ Skew \in Nat
    /\ MaxAttempts \in Nat \ {0}
    /\ Unheard \subseteq Call

vars == <<clock, windows, verdict, calls>>

PC    == {"idle", "get", "commit", "decide", "send", "answered"}
Reply == {0, 200, 400, 429, 502}
Handler == [pc: PC, now: Time, snapshot: Window \cup {None},
            attempts: 0..MaxAttempts - 1, reply: Reply, sent: BOOLEAN]

TypeOK ==
    /\ clock \in Time
    /\ windows \in [Key -> Window \cup {None}]
    /\ verdict \in [Call -> Window \cup {None, Failed}]
    /\ calls \in [Call -> Handler]

Init ==
    /\ clock \in Time
    /\ windows = [k \in Key |-> None]
    /\ verdict = [c \in Call |-> None]
    /\ calls \in [Call -> [pc: {"idle"}, now: {clock}, snapshot: {None},
                           attempts: {0}, reply: {0}, sent: {FALSE}]]

Step(c, pc, handler) == calls[c].pc = pc /\ calls' = [calls EXCEPT ![c] = handler]

Tick ==
    /\ \E t \in Time : t > clock /\ clock' = t
    /\ UNCHANGED <<windows, verdict, calls>>

(* checkRateLimit's default argument: the time is read when the handler begins. *)
Arrive(c) ==
    /\ \E t \in Time :
          /\ t <= clock /\ t + Skew >= clock
          /\ Step(c, "idle", [calls[c] EXCEPT !.pc = "get", !.now = t])
    /\ UNCHANGED <<clock, windows, verdict>>

Get(c) ==
    /\ Step(c, "get", [calls[c] EXCEPT !.pc = "commit", !.snapshot = windows[KeyOf[c]]])
    /\ UNCHANGED <<clock, windows, verdict>>

(* Mutant: a get and a set without a transaction. *)
CommitBlindly(c) ==
    LET state == NextWindow(calls[c].snapshot, calls[c].now)
    IN  /\ Step(c, "commit", [calls[c] EXCEPT !.pc = "decide"])
        /\ windows' = [windows EXCEPT ![KeyOf[c]] = state]
        /\ verdict' = [verdict EXCEPT ![c] = state]
        /\ clock' = clock

Commit(c) ==
    LET state == NextWindow(calls[c].snapshot, calls[c].now)
    IN  /\ Step(c, "commit", [calls[c] EXCEPT !.pc = "decide"])
        /\ windows[KeyOf[c]] = calls[c].snapshot
        /\ windows' = [windows EXCEPT ![KeyOf[c]] = state]
        /\ verdict' = [verdict EXCEPT ![c] = state]
        /\ clock' = clock

(* Firestore commits and the answer is lost: the call is counted and its handler, which
   finds another document than it read, tries again or gives up. *)
CommitUnheard(c) ==
    /\ c \in Unheard
    /\ calls[c].pc = "commit"
    /\ windows[KeyOf[c]] = calls[c].snapshot
    /\ windows' = [windows EXCEPT ![KeyOf[c]] = NextWindow(@, calls[c].now)]
    /\ UNCHANGED <<clock, verdict, calls>>

(* Mutant: the transaction is tried again for ever. *)
RetryForEver(c) ==
    /\ Step(c, "commit", [calls[c] EXCEPT !.pc = "get", !.attempts = @ + 1])
    /\ windows[KeyOf[c]] # calls[c].snapshot
    /\ UNCHANGED <<clock, windows, verdict>>

(* Another instance wrote the document, or this one did and did not hear: the function
   runs again, with the time and the key it closed over. *)
Retry(c) ==
    /\ Step(c, "commit", [calls[c] EXCEPT !.pc = "get", !.attempts = @ + 1])
    /\ windows[KeyOf[c]] # calls[c].snapshot
    /\ calls[c].attempts + 1 < MaxAttempts
    /\ UNCHANGED <<clock, windows, verdict>>

(* runTransaction throws, after the document was or was not written: 502. *)
StoreThrows(c) ==
    /\ \E pc \in {"get", "commit"} :
          Step(c, pc, [calls[c] EXCEPT !.pc = "answered", !.reply = 502])
    /\ verdict' = [verdict EXCEPT ![c] = Failed]
    /\ UNCHANGED <<clock, windows>>

(* Mutant: one call too many. *)
AllowedOneMore(state) == state.count <= Limit + 1

Allowed(state) == state.count <= Limit

(* Mutant: a refused call is not answered. *)
DecideSilently(c) ==
    /\ \/ Step(c, "decide", [calls[c] EXCEPT !.pc = "answered", !.reply = 400])
       \/ Step(c, "decide", [calls[c] EXCEPT !.pc = "send", !.sent = TRUE])
    /\ Allowed(verdict[c])
    /\ UNCHANGED <<clock, windows, verdict>>

(* A refused call is answered 429, one that is malformed or names too many tokens 400:
   both have been counted. *)
Decide(c) ==
    /\ \/ /\ Step(c, "decide", [calls[c] EXCEPT !.pc = "answered", !.reply = 429])
          /\ ~Allowed(verdict[c])
       \/ /\ Step(c, "decide", [calls[c] EXCEPT !.pc = "answered", !.reply = 400])
          /\ Allowed(verdict[c])
       \/ /\ Step(c, "decide", [calls[c] EXCEPT !.pc = "send", !.sent = TRUE])
          /\ Allowed(verdict[c])
    /\ UNCHANGED <<clock, windows, verdict>>

(* sendPush: FCM answers token by token, or the messenger throws. *)
Send(c) ==
    /\ \E reply \in {200, 502} :
          Step(c, "send", [calls[c] EXCEPT !.pc = "answered", !.reply = reply])
    /\ UNCHANGED <<clock, windows, verdict>>

Handle(c) == \/ Get(c) \/ Commit(c) \/ Retry(c) \/ StoreThrows(c)
             \/ Decide(c) \/ Send(c)

Next == Tick \/ \E c \in Call : Arrive(c) \/ Handle(c) \/ CommitUnheard(c)

Spec == Init /\ [][Next]_vars

(* An instance runs its handlers, and Firestore and FCM answer them. *)
FairSpec == Spec /\ \A c \in Call : WF_vars(Handle(c))
-----------------------------------------------------------------------------
Reached(k, start) ==
    {c \in Call : calls[c].sent /\ KeyOf[c] = k /\ verdict[c].windowStart = start}

(* rateLimit.ts "one abuser cannot starve other deployments": however many instances
   serve a source, with whichever stale clocks and retries, FCM is asked for it at most
   Limit times in one window. *)
AtMostLimit ==
    \A k \in Key, start \in Time : Cardinality(Reached(k, start)) <= Limit

(* nextWindow: a window never moves back, although a transaction that was delayed, or
   an instance whose clock is behind, counts with a time from before the window. *)
WindowsMoveForward ==
    [][\A k \in Key : windows[k] # None =>
          /\ windows'[k] # None
          /\ windows'[k].windowStart >= windows[k].windowStart]_vars

(* rateLimit.ts "concurrent function instances increment the same counter atomically":
   the transactions, with their retries, failures and lost answers, do what the atomic
   counter does. *)
CountsAtomically == Atomic!Spec

(* The handler: every call is answered, also when the transaction keeps losing. *)
CallsAnswered ==
    \A c \in Call : calls[c].pc = "get" ~> calls[c].pc = "answered"
=============================================================================
