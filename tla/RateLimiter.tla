----------------------------- MODULE RateLimiter -----------------------------
(***************************************************************************)
(* What the relay's RateLimitStore promises: `an atomic per-key counter'.  *)
(* A call that returns was counted at one instant; one that fails may or   *)
(* may not have been.  The in-memory store does Hit alone; RelayLimit      *)
(* shows that the Firestore store does no more than this.                  *)
(***************************************************************************)
EXTENDS RateWindow

VARIABLES
    windows,    \* the counters: a WindowState per key
    verdict     \* what hit returned to each call, with the window it was counted in

vars == <<windows, verdict>>

Init ==
    /\ windows = [k \in Key |-> None]
    /\ verdict = [c \in Call |-> None]

Hit(c) ==
    /\ verdict[c] = None
    /\ \E now \in Time :
          LET state == NextWindow(windows[KeyOf[c]], now)
          IN  /\ windows' = [windows EXCEPT ![KeyOf[c]] = state]
              /\ verdict' = [verdict EXCEPT ![c] = state]

(* Counted by a store whose answer is lost: the caller does not know. *)
HitUnheard(c) ==
    /\ verdict[c] = None
    /\ \E now \in Time :
          windows' = [windows EXCEPT ![KeyOf[c]] = NextWindow(@, now)]
    /\ verdict' = verdict

Fail(c) ==
    /\ verdict[c] = None
    /\ verdict' = [verdict EXCEPT ![c] = Failed]
    /\ windows' = windows

Next == \E c \in Call : Hit(c) \/ HitUnheard(c) \/ Fail(c)

Spec == Init /\ [][Next]_vars
=============================================================================
