--------------------------- MODULE RelayLimitProofs ---------------------------
(***************************************************************************)
(* The relay counts atomically: the transactions of RelayLimit implement   *)
(* RateLimiter, no window moves back, and FCM is asked for a source at     *)
(* most Limit times in one window; for every number of calls, sources,     *)
(* instants and attempts.                                                  *)
(***************************************************************************)
EXTENDS RelayLimit, TLAPS, FiniteSetTheorems, FunctionTheorems

Counted(c) == verdict[c] \in Window

(* Which verdict a handler at each pc has; only an allowed one reached FCM. *)
VerdictFits(c) ==
    /\ calls[c].pc \in {"idle", "get", "commit"} => verdict[c] = None
    /\ calls[c].pc \in {"idle", "get", "commit"} => ~calls[c].sent
    /\ calls[c].pc = "decide" => Counted(c)
    /\ calls[c].sent => Counted(c) /\ Allowed(verdict[c])

(* Nothing is counted beyond the document as it stands now. *)
NotAhead(c) ==
    LET doc == windows[KeyOf[c]]
    IN  /\ doc # None
        /\ \/ verdict[c].windowStart < doc.windowStart
           \/ /\ verdict[c].windowStart = doc.windowStart
              /\ verdict[c].count <= doc.count

Apart(c, d) ==
    c # d /\ KeyOf[c] = KeyOf[d] /\ verdict[c].windowStart = verdict[d].windowStart
        => verdict[c].count # verdict[d].count

Inv ==
    /\ TypeOK
    /\ \A c \in Call : VerdictFits(c)
    /\ \A c \in Call : Counted(c) => NotAhead(c)
    /\ \A c, d \in Call : Counted(c) /\ Counted(d) => Apart(c, d)
-----------------------------------------------------------------------------
(* A handler's record stays well-typed through the updates the actions make. *)
LEMMA HandlerTyped ==
    ASSUME NEW h \in Handler
    PROVE  /\ \A p \in PC : [h EXCEPT !.pc = p] \in Handler
           /\ \A t \in Time : [h EXCEPT !.pc = "get", !.now = t] \in Handler
           /\ \A w \in Window \cup {None} :
                 [h EXCEPT !.pc = "commit", !.snapshot = w] \in Handler
           /\ \A n \in 0..MaxAttempts - 1 :
                 [h EXCEPT !.pc = "get", !.attempts = n] \in Handler
           /\ \A r \in Reply : [h EXCEPT !.pc = "answered", !.reply = r] \in Handler
           /\ [h EXCEPT !.pc = "send", !.sent = TRUE] \in Handler
<1>1. \A p \in PC : [h EXCEPT !.pc = p] \in Handler
  BY DEF Handler
<1>2. \A t \in Time : [h EXCEPT !.pc = "get", !.now = t] \in Handler
  BY DEF Handler, PC
<1>3. \A w \in Window \cup {None} : [h EXCEPT !.pc = "commit", !.snapshot = w] \in Handler
  BY DEF Handler, PC
<1>4. \A n \in 0..MaxAttempts - 1 : [h EXCEPT !.pc = "get", !.attempts = n] \in Handler
  BY DEF Handler, PC
<1>5. \A r \in Reply : [h EXCEPT !.pc = "answered", !.reply = r] \in Handler
  BY DEF Handler, PC
<1>6. [h EXCEPT !.pc = "send", !.sent = TRUE] \in Handler
  BY DEF Handler, PC
<1> QED BY <1>1, <1>2, <1>3, <1>4, <1>5, <1>6

LEMMA AnsweredTyped ==
    ASSUME NEW h \in Handler, NEW r \in Reply
    PROVE  [h EXCEPT !.pc = "answered", !.reply = r] \in Handler
  BY HandlerTyped

(* The window after a call: of the same key, later or with one call more. *)
LEMMA NextWindowAdvances ==
    ASSUME NEW previous \in Window \cup {None}, NEW now \in Time
    PROVE  LET next == NextWindow(previous, now)
           IN  /\ next \in Window
               /\ previous # None =>
                    \/ next.windowStart > previous.windowStart
                    \/ /\ next.windowStart = previous.windowStart
                       /\ next.count = previous.count + 1
<1>1. Time \subseteq Nat /\ WindowMs \in Nat \ {0}
  BY LimiterAssumption
<1>2. CASE previous = None
  BY <1>1, <1>2 DEF NextWindow, Window
<1>3. CASE previous # None
  <2>1. previous \in Window /\ previous.windowStart \in Nat /\ previous.count \in Nat \ {0}
    BY <1>1, <1>3 DEF Window
  <2> QED BY <1>1, <1>3, <2>1 DEF NextWindow, Window
<1> QED BY <1>2, <1>3
-----------------------------------------------------------------------------
LEMMA InitInv == Init => Inv
<1> SUFFICES ASSUME Init PROVE Inv
  OBVIOUS
<1>1. TypeOK
  <2> DEFINE Idle == [pc: {"idle"}, now: {clock}, snapshot: {None},
                      attempts: {0}, reply: {0}, sent: {FALSE}]
  <2>1. clock \in Time /\ 0 \in 0..MaxAttempts - 1 /\ "idle" \in PC /\ 0 \in Reply
    BY RelayAssumption DEF Init, PC, Reply
  <2>2. ASSUME NEW h \in Idle
        PROVE  h \in Handler
    BY <2>1, <2>2 DEF Handler
  <2>3. calls \in [Call -> Idle]
    BY DEF Init
  <2> HIDE DEF Idle
  <2>4. calls \in [Call -> Handler]
    BY <2>2, <2>3
  <2> QED BY <2>4 DEF Init, TypeOK
<1>2. \A c \in Call : ~Counted(c)
  BY NoWindow DEF Init, Counted
<1>3. \A c \in Call : calls[c].pc = "idle" /\ calls[c].sent = FALSE /\ verdict[c] = None
  BY DEF Init
<1> QED BY <1>1, <1>2, <1>3 DEF Inv, VerdictFits

(* A step of one handler that counts nothing. *)
LEMMA QuietStep ==
    ASSUME Inv, NEW c \in Call, NEW h \in Handler, clock' \in Time,
           windows' = windows, verdict' = verdict, calls' = [calls EXCEPT ![c] = h],
           h.pc \in {"idle", "get", "commit"} => verdict[c] = None /\ ~h.sent,
           h.pc = "decide" => Counted(c),
           h.sent => Counted(c) /\ Allowed(verdict[c])
    PROVE  Inv'
<1>1. TypeOK'
  BY DEF Inv, TypeOK
<1>2. \A d \in Call : VerdictFits(d)'
  <2> TAKE d \in Call
  <2>1. calls'[d] = IF d = c THEN h ELSE calls[d]
    BY DEF Inv, TypeOK
  <2> QED BY <2>1 DEF Inv, VerdictFits, Counted, Allowed
<1>3. \A d \in Call : Counted(d)' => NotAhead(d)'
  BY DEF Inv, Counted, NotAhead
<1>4. \A d, e \in Call : Counted(d)' /\ Counted(e)' => Apart(d, e)'
  BY DEF Inv, Counted, Apart
<1> QED BY <1>1, <1>2, <1>3, <1>4 DEF Inv

LEMMA CommitInv ==
    ASSUME Inv, NEW c \in Call, Commit(c)
    PROVE  Inv'
<1> DEFINE k    == KeyOf[c]
           next == NextWindow(calls[c].snapshot, calls[c].now)
           h    == [calls[c] EXCEPT !.pc = "decide"]
<1>1. /\ k \in Key /\ calls[c] \in Handler /\ calls[c].now \in Time
      /\ windows[k] \in Window \cup {None} /\ windows[k] = calls[c].snapshot
      /\ verdict[c] = None /\ ~calls[c].sent /\ calls[c].pc = "commit"
  BY LimiterAssumption DEF Inv, TypeOK, Handler, Commit, Step, VerdictFits
<1>2. /\ next \in Window
      /\ windows[k] # None =>
           \/ next.windowStart > windows[k].windowStart
           \/ /\ next.windowStart = windows[k].windowStart
              /\ next.count = windows[k].count + 1
  BY <1>1, NextWindowAdvances
<1>3. /\ windows' = [windows EXCEPT ![k] = next] /\ verdict' = [verdict EXCEPT ![c] = next]
      /\ calls' = [calls EXCEPT ![c] = h] /\ clock' = clock
  BY DEF Commit, Step
<1>4. h \in Handler /\ h.pc = "decide" /\ ~h.sent
  <2>1. h \in Handler
    BY <1>1, HandlerTyped DEF PC
  <2>2. h.pc = "decide" /\ h.sent = calls[c].sent
    BY <1>1 DEF Handler
  <2> QED BY <1>1, <2>1, <2>2
<1>5. windows \in [Key -> Window \cup {None}] /\ verdict \in [Call -> Window \cup {None, Failed}]
  BY DEF Inv, TypeOK
<1>6. /\ \A d \in Call : verdict'[d] = IF d = c THEN next ELSE verdict[d]
      /\ \A j \in Key : windows'[j] = IF j = k THEN next ELSE windows[j]
      /\ \A d \in Call : calls'[d] = IF d = c THEN h ELSE calls[d]
  BY <1>3, <1>5 DEF Inv, TypeOK
<1>7. Time \subseteq Nat
  BY LimiterAssumption
<1> HIDE DEF k, next, h
<1>8. TypeOK'
  BY <1>2, <1>3, <1>4 DEF Inv, TypeOK
<1>9. \A d \in Call : VerdictFits(d)'
  <2> TAKE d \in Call
  <2> QED BY <1>2, <1>4, <1>6 DEF Inv, VerdictFits, Counted, Allowed
<1>10. ASSUME NEW d \in Call, Counted(d)'
       PROVE  NotAhead(d)'
  <2>1. CASE d = c
    BY <1>1, <1>2, <1>6, <1>7, <2>1, NoWindow DEF NotAhead, Window, k
  <2>2. CASE d # c /\ KeyOf[d] = k
    <3>1. Counted(d) /\ NotAhead(d) /\ verdict'[d] = verdict[d]
      BY <1>6, <1>10, <2>2 DEF Inv, Counted
    <3>2. /\ verdict[d] \in Window /\ windows[k] \in Window /\ windows[k] # None
      BY <1>1, <2>2, <3>1 DEF NotAhead, Counted
    <3>3. windows'[KeyOf[d]] = next /\ next # None
      BY <1>1, <1>2, <1>6, <2>2, NoWindow
    <3>4. /\ {verdict[d].windowStart, windows[k].windowStart, next.windowStart} \subseteq Nat
          /\ {verdict[d].count, windows[k].count, next.count} \subseteq Nat
      BY <1>2, <1>7, <3>2 DEF Window
    <3> QED BY <1>2, <2>2, <3>1, <3>2, <3>3, <3>4 DEF NotAhead
  <2>3. CASE KeyOf[d] # k
    BY <1>6, <1>10, <2>3, LimiterAssumption DEF Inv, Counted, NotAhead, k
  <2> QED BY <2>1, <2>2, <2>3
<1>11. ASSUME NEW d \in Call, d # c, Counted(d), KeyOf[d] = k,
              verdict[d].windowStart = next.windowStart
       PROVE  verdict[d].count # next.count
  <2>1. NotAhead(d)
    BY <1>11 DEF Inv
  <2>2. verdict[d] \in Window /\ windows[k] \in Window /\ windows[k] # None
    BY <1>1, <1>11, <2>1 DEF NotAhead, Counted
  <2>3. /\ {verdict[d].windowStart, windows[k].windowStart, next.windowStart} \subseteq Nat
        /\ {verdict[d].count, windows[k].count, next.count} \subseteq Nat
    BY <1>2, <1>7, <2>2 DEF Window
  <2> QED BY <1>2, <1>11, <2>1, <2>2, <2>3 DEF NotAhead
<1>12. \A d, e \in Call : Counted(d)' /\ Counted(e)' => Apart(d, e)'
  <2> SUFFICES ASSUME NEW d \in Call, NEW e \in Call, Counted(d)', Counted(e)'
               PROVE  Apart(d, e)'
    OBVIOUS
  <2>1. CASE d # c /\ e # c
    BY <1>6, <2>1 DEF Inv, Counted, Apart
  <2>2. CASE d = c /\ e # c
    BY <1>6, <1>11, <2>2 DEF Counted, Apart, k
  <2>3. CASE d # c /\ e = c
    BY <1>6, <1>11, <2>3 DEF Counted, Apart, k
  <2>4. CASE d = c /\ e = c
    BY <2>4 DEF Apart
  <2> QED BY <2>1, <2>2, <2>3, <2>4
<1> QED BY <1>8, <1>9, <1>10, <1>12 DEF Inv

(* The store counts and is not heard: only the document moves, and moves on. *)
LEMMA UnheardInv ==
    ASSUME Inv, NEW c \in Call, CommitUnheard(c)
    PROVE  Inv'
<1> DEFINE k    == KeyOf[c]
           next == NextWindow(windows[k], calls[c].now)
<1>1. /\ k \in Key /\ calls[c].now \in Time /\ windows[k] \in Window \cup {None}
      /\ windows \in [Key -> Window \cup {None}]
  BY LimiterAssumption DEF Inv, TypeOK, Handler
<1>2. /\ next \in Window
      /\ windows[k] # None =>
           \/ next.windowStart > windows[k].windowStart
           \/ /\ next.windowStart = windows[k].windowStart
              /\ next.count = windows[k].count + 1
  BY <1>1, NextWindowAdvances
<1>3. /\ windows' = [windows EXCEPT ![k] = next]
      /\ verdict' = verdict /\ calls' = calls /\ clock' = clock
  BY DEF CommitUnheard
<1>4. \A j \in Key : windows'[j] = IF j = k THEN next ELSE windows[j]
  BY <1>1, <1>3
<1>5. Time \subseteq Nat
  BY LimiterAssumption
<1> HIDE DEF next
<1>6. TypeOK'
  BY <1>1, <1>2, <1>3 DEF Inv, TypeOK
<1>7. \A d \in Call : VerdictFits(d)'
  BY <1>3 DEF Inv, VerdictFits, Counted, Allowed
<1>8. ASSUME NEW d \in Call, Counted(d)'
      PROVE  NotAhead(d)'
  <2>1. Counted(d) /\ NotAhead(d) /\ verdict'[d] = verdict[d] /\ KeyOf[d] \in Key
    BY <1>3, <1>8, LimiterAssumption DEF Inv, Counted
  <2>2. CASE KeyOf[d] = k
    <3>1. verdict[d] \in Window /\ windows[k] \in Window /\ windows[k] # None
      BY <1>1, <2>1, <2>2 DEF NotAhead, Counted
    <3>2. windows'[KeyOf[d]] = next /\ next # None
      BY <1>1, <1>2, <1>4, <2>2, NoWindow
    <3>3. /\ {verdict[d].windowStart, windows[k].windowStart, next.windowStart} \subseteq Nat
          /\ {verdict[d].count, windows[k].count, next.count} \subseteq Nat
      BY <1>2, <1>5, <3>1 DEF Window
    <3> QED BY <1>2, <2>1, <2>2, <3>1, <3>2, <3>3 DEF NotAhead
  <2>3. CASE KeyOf[d] # k
    BY <1>4, <2>1, <2>3 DEF NotAhead
  <2> QED BY <2>2, <2>3
<1>9. \A d, e \in Call : Counted(d)' /\ Counted(e)' => Apart(d, e)'
  BY <1>3 DEF Inv, Counted, Apart
<1> QED BY <1>6, <1>7, <1>8, <1>9 DEF Inv

(* The store throws: no verdict will come. *)
LEMMA FailureInv ==
    ASSUME Inv, NEW c \in Call, StoreThrows(c)
    PROVE  Inv'
<1> DEFINE h == [calls[c] EXCEPT !.pc = "answered", !.reply = 502]
<1>1. /\ calls[c] \in Handler /\ calls[c].pc \in {"get", "commit"}
      /\ verdict[c] = None /\ ~calls[c].sent
  BY DEF Inv, TypeOK, StoreThrows, Step, VerdictFits
<1>2. /\ clock' = clock /\ windows' = windows
      /\ calls' = [calls EXCEPT ![c] = h] /\ verdict' = [verdict EXCEPT ![c] = Failed]
  BY DEF StoreThrows, Step
<1>3. h \in Handler
  <2>1. 502 \in Reply
    BY DEF Reply
  <2>2. \A r \in Reply : [calls[c] EXCEPT !.pc = "answered", !.reply = r] \in Handler
    BY <1>1, AnsweredTyped
  <2> QED BY <2>1, <2>2, Zenon
<1>4. h.pc = "answered" /\ ~h.sent
  BY <1>1 DEF Handler
<1>5. /\ \A d \in Call : verdict'[d] = IF d = c THEN Failed ELSE verdict[d]
      /\ \A d \in Call : calls'[d] = IF d = c THEN h ELSE calls[d]
  BY <1>2 DEF Inv, TypeOK
<1> HIDE DEF h
<1>6. TypeOK'
  BY <1>2, <1>3 DEF Inv, TypeOK
<1>7. \A d \in Call : VerdictFits(d)'
  <2> TAKE d \in Call
  <2> QED BY <1>4, <1>5 DEF Inv, VerdictFits, Counted, Allowed
<1>8. \A d \in Call : Counted(d)' => d # c /\ Counted(d)
  BY <1>5, NoWindow DEF Counted
<1>9. \A d \in Call : Counted(d)' => NotAhead(d)'
  BY <1>2, <1>5, <1>8 DEF Inv, NotAhead
<1>10. \A d, e \in Call : Counted(d)' /\ Counted(e)' => Apart(d, e)'
  BY <1>5, <1>8 DEF Inv, Apart
<1> QED BY <1>6, <1>7, <1>9, <1>10 DEF Inv

LEMMA NextInv == Inv /\ [Next]_vars => Inv'
<1> SUFFICES ASSUME Inv, [Next]_vars PROVE Inv'
  OBVIOUS
<1>1. CASE UNCHANGED vars
  BY <1>1 DEF vars, Inv, TypeOK, VerdictFits, Counted, NotAhead, Apart, Allowed
<1>2. CASE Tick
  BY <1>2 DEF Tick, Inv, TypeOK, VerdictFits, Counted, NotAhead, Apart, Allowed
<1>3. ASSUME NEW c \in Call, Arrive(c) \/ Handle(c)
      PROVE  Inv'
  <2> DEFINE h == calls[c]
  <2>1. h \in Handler /\ VerdictFits(c) /\ clock \in Time
    BY DEF Inv, TypeOK
  <2>2. CASE Arrive(c)
    <3>1. PICK t \in Time : Step(c, "idle", [h EXCEPT !.pc = "get", !.now = t])
      BY <2>2 DEF Arrive
    <3> DEFINE g == [h EXCEPT !.pc = "get", !.now = t]
    <3>2. g \in Handler
      BY <2>1, HandlerTyped
    <3>3. g.pc = "get" /\ g.sent = h.sent
      BY <2>1 DEF Handler
    <3>4. h.pc = "idle" /\ calls' = [calls EXCEPT ![c] = g]
      BY <3>1 DEF Step
    <3>5. clock' = clock /\ windows' = windows /\ verdict' = verdict
      BY <2>2 DEF Arrive
    <3> HIDE DEF g
    <3> QED BY <2>1, <3>2, <3>3, <3>4, <3>5, QuietStep DEF VerdictFits
  <2>3. CASE Get(c)
    <3> DEFINE g == [h EXCEPT !.pc = "commit", !.snapshot = windows[KeyOf[c]]]
    <3>1. windows[KeyOf[c]] \in Window \cup {None}
      BY LimiterAssumption DEF Inv, TypeOK
    <3>2. g \in Handler
      BY <2>1, <3>1, HandlerTyped
    <3>3. g.pc = "commit" /\ g.sent = h.sent
      BY <2>1 DEF Handler
    <3>4. h.pc = "get" /\ calls' = [calls EXCEPT ![c] = g]
      BY <2>3 DEF Get, Step
    <3>5. clock' = clock /\ windows' = windows /\ verdict' = verdict
      BY <2>3 DEF Get
    <3> HIDE DEF g
    <3> QED BY <2>1, <3>2, <3>3, <3>4, <3>5, QuietStep DEF VerdictFits
  <2>4. CASE Commit(c)
    BY <2>4, CommitInv
  <2>5. CASE Retry(c)
    <3> DEFINE g == [h EXCEPT !.pc = "get", !.attempts = @ + 1]
    <3>1. h.attempts + 1 \in 0..MaxAttempts - 1
      BY <2>1, <2>5, RelayAssumption DEF Retry, Handler
    <3>2. g \in Handler
      BY <2>1, <3>1, HandlerTyped
    <3>3. g.pc = "get" /\ g.sent = h.sent
      BY <2>1 DEF Handler
    <3>4. h.pc = "commit" /\ calls' = [calls EXCEPT ![c] = g]
      BY <2>5 DEF Retry, Step
    <3>5. clock' = clock /\ windows' = windows /\ verdict' = verdict
      BY <2>5 DEF Retry
    <3> HIDE DEF g
    <3> QED BY <2>1, <3>2, <3>3, <3>4, <3>5, QuietStep DEF VerdictFits
  <2>6. CASE StoreThrows(c)
    BY <2>6, FailureInv
  <2>7. ASSUME NEW r \in Reply,
               calls' = [calls EXCEPT ![c] = [h EXCEPT !.pc = "answered", !.reply = r]],
               UNCHANGED <<clock, windows, verdict>>
        PROVE  Inv'
    <3> DEFINE g == [h EXCEPT !.pc = "answered", !.reply = r]
    <3>1. g \in Handler
      BY <2>1, HandlerTyped
    <3>2. g.pc = "answered" /\ g.sent = h.sent
      BY <2>1 DEF Handler
    <3>3. calls' = [calls EXCEPT ![c] = g]
      BY <2>7
    <3>4. clock' = clock /\ windows' = windows /\ verdict' = verdict
      BY <2>7
    <3> HIDE DEF g
    <3> QED BY <2>1, <3>1, <3>2, <3>3, <3>4, QuietStep DEF VerdictFits
  <2>8. CASE Decide(c)
    <3>1. CASE Step(c, "decide", [h EXCEPT !.pc = "send", !.sent = TRUE])
                 /\ Allowed(verdict[c])
      <4> DEFINE g == [h EXCEPT !.pc = "send", !.sent = TRUE]
      <4>1. g \in Handler
        BY <2>1, HandlerTyped
      <4>2. g.pc = "send" /\ g.sent
        BY <2>1 DEF Handler
      <4>3. h.pc = "decide" /\ calls' = [calls EXCEPT ![c] = g]
        BY <3>1 DEF Step
      <4>4. clock' = clock /\ windows' = windows /\ verdict' = verdict
        BY <2>8 DEF Decide
      <4>5. Counted(c) /\ Allowed(verdict[c])
        BY <2>1, <3>1, <4>3 DEF VerdictFits
      <4> HIDE DEF g
      <4> QED BY <2>1, <4>1, <4>2, <4>3, <4>4, <4>5, QuietStep DEF VerdictFits
    <3>2. CASE \E r \in {400, 429} :
                 Step(c, "decide", [h EXCEPT !.pc = "answered", !.reply = r])
      <4>1. UNCHANGED <<clock, windows, verdict>> /\ {400, 429} \subseteq Reply
        BY <2>8 DEF Decide, Reply
      <4>2. PICK r \in {400, 429} :
                   Step(c, "decide", [h EXCEPT !.pc = "answered", !.reply = r])
        BY <3>2
      <4>3. r \in Reply
        BY <4>1
      <4> QED BY <2>7, <4>1, <4>2, <4>3 DEF Step
    <3> QED BY <2>8, <3>1, <3>2 DEF Decide
  <2>9. CASE Send(c)
    <3>1. UNCHANGED <<clock, windows, verdict>> /\ {200, 502} \subseteq Reply
      BY <2>9 DEF Send, Reply
    <3>2. PICK r \in {200, 502} : Step(c, "send", [h EXCEPT !.pc = "answered", !.reply = r])
      BY <2>9 DEF Send
    <3>3. r \in Reply
      BY <3>1
    <3> QED BY <2>7, <3>1, <3>2, <3>3 DEF Step
  <2> QED BY <1>3, <2>2, <2>3, <2>4, <2>5, <2>6, <2>8, <2>9 DEF Handle
<1>4. ASSUME NEW c \in Call, CommitUnheard(c)
      PROVE  Inv'
  BY <1>4, UnheardInv
<1> QED BY <1>1, <1>2, <1>3, <1>4 DEF Next
-----------------------------------------------------------------------------
LEMMA RelayInv == Spec => []Inv
  BY InitInv, NextInv, PTL DEF Spec

(* A transaction is tried MaxAttempts times at most, for every MaxAttempts; every other
   variable keeps its type as well. *)
THEOREM RelayTypeCorrect == Spec => []TypeOK
<1>1. Inv => TypeOK
  BY DEF Inv
<1> QED BY <1>1, RelayInv, PTL

(* Of several calls of one source counted in one window no two got the same count, so
   that of those FCM is asked for none got more than Limit: they are at most Limit. *)
THEOREM RelayedAtMostLimit == Spec => []AtMostLimit
<1>1. Inv => AtMostLimit
  <2> SUFFICES ASSUME Inv, NEW k \in Key, NEW start \in Time
               PROVE  Cardinality(Reached(k, start)) <= Limit
    BY DEF AtMostLimit
  <2> DEFINE f == [c \in Reached(k, start) |-> verdict[c].count]
  <2>1. ASSUME NEW c \in Reached(k, start)
        PROVE  Counted(c) /\ verdict[c].count \in 1..Limit
    <3>1. c \in Call /\ Counted(c) /\ Allowed(verdict[c])
      BY DEF Reached, Inv, VerdictFits
    <3>2. verdict[c].count \in Nat \ {0}
      BY <3>1 DEF Counted, Window
    <3> QED BY <3>1, <3>2, RelayAssumption DEF Allowed
  <2>2. ASSUME NEW c \in Reached(k, start), NEW d \in Reached(k, start), f[c] = f[d]
        PROVE  c = d
    BY <2>1, <2>2 DEF Reached, Inv, Apart
  <2>3. f \in Injection(Reached(k, start), 1..Limit)
    <3>1. f \in [Reached(k, start) -> 1..Limit]
      BY <2>1
    <3> HIDE DEF f
    <3> QED BY <2>2, <3>1, Fun_IsInj, Zenon
  <2>4. IsFiniteSet(1..Limit) /\ Cardinality(1..Limit) = Limit
    BY FS_Interval, RelayAssumption
  <2>5. Cardinality(Reached(k, start)) <= Cardinality(1..Limit)
    BY <2>3, <2>4, FS_Injection, Zenon
  <2> QED BY <2>4, <2>5
<1> QED BY <1>1, RelayInv, PTL

(* No call, retry or clock that is behind moves a source's window back. *)
THEOREM WindowNeverMovesBack == Spec => WindowsMoveForward
<1> DEFINE Forward == \A k \in Key : windows[k] # None =>
                          /\ windows'[k] # None
                          /\ windows'[k].windowStart >= windows[k].windowStart
<1>1. Inv /\ [Next]_vars => [Forward]_vars
  <2> SUFFICES ASSUME Inv, [Next]_vars, NEW k \in Key, windows[k] # None
               PROVE  /\ windows'[k] # None
                      /\ windows'[k].windowStart >= windows[k].windowStart
    OBVIOUS
  <2>1. windows[k] \in Window /\ windows[k].windowStart \in Nat
    BY LimiterAssumption DEF Inv, TypeOK, Window
  <2>2. CASE windows' = windows
    BY <2>1, <2>2
  <2>3. ASSUME NEW c \in Call, Commit(c) \/ CommitUnheard(c)
        PROVE  /\ windows'[k] # None
               /\ windows'[k].windowStart >= windows[k].windowStart
    <3> DEFINE next == NextWindow(calls[c].snapshot, calls[c].now)
    <3>1. calls[c].now \in Time /\ calls[c].snapshot = windows[KeyOf[c]]
      BY <2>3 DEF Inv, TypeOK, Handler, Commit, CommitUnheard
    <3>2. windows' = [windows EXCEPT ![KeyOf[c]] = next]
      BY <2>3, <3>1 DEF Commit, CommitUnheard
    <3>3. /\ KeyOf[c] = k => /\ next \in Window
                            /\ \/ next.windowStart > windows[k].windowStart
                               \/ next.windowStart = windows[k].windowStart
      BY <2>1, <3>1, NextWindowAdvances
    <3>4. windows'[k] = IF KeyOf[c] = k THEN next ELSE windows[k]
      BY <3>2 DEF Inv, TypeOK
    <3> HIDE DEF next
    <3>5. CASE KeyOf[c] = k
      <4>1. next.windowStart \in Nat
        BY <3>3, <3>5, LimiterAssumption DEF Window
      <4> QED BY <2>1, <3>3, <3>4, <3>5, <4>1, NoWindow
    <3>6. CASE KeyOf[c] # k
      BY <2>1, <3>4, <3>6
    <3> QED BY <3>5, <3>6
  <2> QED BY <2>2, <2>3
          DEF Next, Tick, Arrive, Handle, Get, Retry, StoreThrows, Decide, Send, vars
<1>2. WindowsMoveForward <=> [][Forward]_vars
  BY DEF WindowsMoveForward
<1> HIDE DEF Forward
<1> QED BY <1>1, <1>2, RelayInv, PTL DEF Spec

(* The transactions implement the atomic counter: a commit is a Hit, one whose answer is
   lost a HitUnheard, a transaction that throws a Fail, and every other step leaves the
   counters alone. *)
THEOREM TransactionsAreAtomic == Spec => CountsAtomically
<1>1. Init => Atomic!Init
  BY DEF Init, Atomic!Init
<1>2. Inv /\ [Next]_vars => [Atomic!Next]_(Atomic!vars)
  <2> SUFFICES ASSUME Inv, [Next]_vars
               PROVE  Atomic!Next \/ UNCHANGED <<windows, verdict>>
    BY DEF Atomic!vars
  <2>1. ASSUME NEW c \in Call, Commit(c)
        PROVE  Atomic!Hit(c)
    <3> DEFINE next == NextWindow(windows[KeyOf[c]], calls[c].now)
    <3>1. verdict[c] = None /\ calls[c].now \in Time
      BY <2>1 DEF Inv, TypeOK, Handler, VerdictFits, Commit, Step
    <3>2. /\ windows' = [windows EXCEPT ![KeyOf[c]] = next]
          /\ verdict' = [verdict EXCEPT ![c] = next]
      BY <2>1 DEF Commit
    <3> QED BY <3>1, <3>2 DEF Atomic!Hit, Atomic!NextWindow, NextWindow
  <2>2. ASSUME NEW c \in Call, StoreThrows(c)
        PROVE  Atomic!Fail(c)
    BY <2>2 DEF Inv, VerdictFits, StoreThrows, Step, Atomic!Fail
  <2>3. ASSUME NEW c \in Call, CommitUnheard(c)
        PROVE  Atomic!HitUnheard(c)
    <3>1. verdict[c] = None /\ calls[c].now \in Time
      BY <2>3 DEF Inv, TypeOK, Handler, VerdictFits, CommitUnheard
    <3>2. /\ windows' = [windows EXCEPT ![KeyOf[c]] =
                           NextWindow(windows[KeyOf[c]], calls[c].now)]
          /\ verdict' = verdict
      BY <2>3 DEF CommitUnheard
    <3> QED BY <3>1, <3>2 DEF Atomic!HitUnheard, Atomic!NextWindow, NextWindow
  <2> QED BY <2>1, <2>2, <2>3
          DEF Next, Tick, Arrive, Handle, Get, Retry, Decide, Send, vars, Atomic!Next
<1> QED BY <1>1, <1>2, RelayInv, PTL DEF Spec, CountsAtomically, Atomic!Spec
=============================================================================
