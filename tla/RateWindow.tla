------------------------------ MODULE RateWindow ------------------------------
(***************************************************************************)
(* The fixed window of the relay's rate limit: who is counted, over which  *)
(* instants, and what one more call makes of a counter.                    *)
(***************************************************************************)
EXTENDS Integers

CONSTANTS
    Key,        \* source addresses
    Call,       \* calls of POST /v1/push, each made once
    KeyOf,      \* [Call -> Key]: clientKey
    Time,       \* instants, in any unit: a set of naturals
    WindowMs,   \* RateLimitOptions.windowMs, in the same unit
    None,       \* no document; no verdict
    Failed      \* the store threw

ASSUME LimiterAssumption ==
    /\ KeyOf \in [Call -> Key]
    /\ Time \subseteq Nat
    /\ WindowMs \in Nat \ {0}

Window == [count: Nat \ {0}, windowStart: Time]

ASSUME NoWindow == None \notin Window /\ Failed \notin Window /\ None # Failed

(* Mutant: a call from before the window starts one of its own. *)
NextWindowOfItsOwn(previous, now) ==
    IF previous # None /\ now >= previous.windowStart
                       /\ now - previous.windowStart < WindowMs
    THEN [count |-> previous.count + 1, windowStart |-> previous.windowStart]
    ELSE [count |-> 1, windowStart |-> now]

NextWindow(previous, now) ==
    IF previous # None /\ now - previous.windowStart < WindowMs
    THEN [count |-> previous.count + 1, windowStart |-> previous.windowStart]
    ELSE [count |-> 1, windowStart |-> now]
=============================================================================
