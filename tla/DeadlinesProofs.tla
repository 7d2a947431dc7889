--------------------------- MODULE DeadlinesProofs ---------------------------
(* Theorems about Deadlines, for every longest timer, default and set of sends. *)
EXTENDS Deadlines, TLAPS

(***************************************************************************)
(* The inductive invariant, in named parts.                                *)
(***************************************************************************)

StepsOf(s) ==
  CASE s = "client" -> {"sends", "receivers", "lateSends"}
    [] s = "server" -> {"stopping", "inFlight", "drained", "replies"}
    [] OTHER -> {"reply", "replyTimer"}

\* The type invariant, with what it leaves to the shape of the module.
Typed ==
  /\ TypeOK
  /\ side \in {"client", "server", "request"} /\ option \in Option
  /\ now \in Nat /\ started = 0
  /\ timer \in Nat
  /\ step \in {"new", "refused", "closed", "done"} \union StepsOf(side)
  /\ side # "client" => calls = {}

\* Whoever waits does so with the documented limit of a valid option.
OptionWasRead ==
  IF step \in {"new", "refused"}
  THEN limit = Infinity /\ now = 0 /\ timer = Infinity
  ELSE limit = DocumentedLimit

\* How many seconds this step and those before it add to the limit.
Extra ==
  CASE side = "request" -> 0
    [] side # "request" /\ step \in {"inFlight", "receivers", "drained"} -> 1
    [] side # "request" /\ step \in {"lateSends", "replies"} -> 2
    [] side # "request" /\ step \in {"closed", "done"} -> 3
    [] OTHER -> 0

\* The time by which this step is over, but for work that is waited for
\* without a timer.
Bound ==
  (IF step \in {"stopping", "inFlight", "reply"} \/ limit = Infinity THEN 0 ELSE limit) + Extra

InTime ==
  /\ now <= Bound
  /\ timer # Infinity => timer <= Bound

\* What the timers and the work that is awaited say of the work to be cut.
Awaits ==
  /\ step = "drained" => awaited = {"handler", "reply"} /\ timer >= limit
  /\ step = "replies" =>
       /\ awaited = {"reply"}
       /\ "reply" \in busy => limit # Infinity /\ timer >= limit + Grace
  /\ step = "replyTimer" => awaited = {"response"} /\ timer >= limit

TimeInv == Typed /\ OptionWasRead /\ InTime /\ Awaits

-----------------------------------------------------------------------------
(* Numbers *)

\* No time that is ever reached is taken for "no timer".
LEMMA InfinityIsFar == Infinity \in Nat /\ Infinity > 2 * MaxTimer + 4 /\ MaxTimer \in Nat
BY DeadlinesAssumption DEF Infinity

\* Math.max() of two numbers.
LEMMA MaxOfTwo ==
  ASSUME NEW a \in Int, NEW b \in Int
  PROVE  Max({a, b}) = IF a >= b THEN a ELSE b
<1> DEFINE m == IF a >= b THEN a ELSE b
<1>1. m \in {a, b} /\ \A y \in {a, b} : m >= y
  OBVIOUS
<1>2. \A x \in {a, b} : (\A y \in {a, b} : x >= y) => x = m
  OBVIOUS
<1> HIDE DEF m
<1>3. (CHOOSE x \in {a, b} : \A y \in {a, b} : x >= y) = m
  BY <1>1, <1>2
<1> QED BY <1>3 DEF Max, m

\* Math.min() of two numbers.
LEMMA MinOfTwo ==
  ASSUME NEW a \in Int, NEW b \in Int
  PROVE  Min({a, b}) = IF a <= b THEN a ELSE b
<1> DEFINE m == IF a <= b THEN a ELSE b
<1>1. m \in {a, b} /\ \A y \in {a, b} : m =< y
  OBVIOUS
<1>2. \A x \in {a, b} : (\A y \in {a, b} : x =< y) => x = m
  OBVIOUS
<1> HIDE DEF m
<1>3. (CHOOSE x \in {a, b} : \A y \in {a, b} : x =< y) = m
  BY <1>1, <1>2
<1> QED BY <1>3 DEF Min, m

\* A timer of WaitUpTo() fires after the time it was given, or after as much of
\* it as a timer can keep, and at once when that time is over.
LEMMA TimerOfWait ==
  ASSUME NEW next, NEW work, NEW ms \in Int, now \in Nat, WaitUpTo(next, ms, work)
  PROVE  /\ step' = next /\ awaited' = work
         /\ ms = Infinity => timer' = Infinity
         /\ ms # Infinity =>
              timer' = now + IF ms < 0 THEN 0 ELSE IF ms > MaxTimer THEN MaxTimer ELSE ms
<1>1. MaxTimer \in Nat /\ Infinity \in Nat
  BY InfinityIsFar
<1> DEFINE atLeast0 == IF ms >= 0 THEN ms ELSE 0
           delay == IF atLeast0 <= MaxTimer THEN atLeast0 ELSE MaxTimer
<1>2. Max({ms, 0}) = atLeast0 /\ atLeast0 \in Nat
  BY MaxOfTwo
<1>3. Min({atLeast0, MaxTimer}) = delay
  <2>1. atLeast0 \in Int /\ MaxTimer \in Int
    BY <1>1
  <2> HIDE DEF atLeast0
  <2> QED BY <2>1, MinOfTwo
<1>4. delay \in Nat /\ ~(delay > MaxTimer)
  BY <1>1
<1>5. Min({Max({ms, 0}), MaxTimer}) = delay
  BY <1>2, <1>3
<1>6. SetTimeout(Min({Max({ms, 0}), MaxTimer})) = now + delay
  <2> HIDE DEF delay
  <2> QED BY <1>4, <1>5 DEF SetTimeout
<1>7. step' = next /\ awaited' = work
      /\ timer' = IF ms = Infinity THEN Infinity ELSE now + delay
  BY <1>6 DEF WaitUpTo
<1> QED BY <1>7, <1>1

\* Going on needs no timer.
LEMMA NoTimer ==
  ASSUME NEW next, now \in Nat, GoesTo(next)
  PROVE  step' = next /\ awaited' = {} /\ timer' = Infinity
BY InfinityIsFar, TimerOfWait DEF GoesTo

\* waitUpTo() with a limit that readTimerOption() accepted never starts a timer
\* that Node.js would fire at once.
LEMMA TimerOnTimer ==
  ASSUME NEW next, NEW work, now \in Nat, limit \in 0 .. MaxTimer \union {Infinity},
         WaitOnTimer(next, work)
  PROVE  /\ step' = next /\ awaited' = work
         /\ timer' = IF limit = Infinity THEN Infinity ELSE now + limit
BY InfinityIsFar DEF WaitOnTimer, SetTimeout

\* The bounds themselves are shorter than "no timer".
LEMMA Times ==
  ASSUME Typed, OptionWasRead, InTime
  PROVE  /\ now \in Nat /\ now < Infinity
         /\ limit \in Nat /\ (limit # Infinity => limit <= MaxTimer)
         /\ Extra \in 0 .. 3
         /\ limit # Infinity => now <= limit + 3
<1>1. limit \in Nat /\ (limit # Infinity => limit <= MaxTimer) /\ now \in Nat
  BY InfinityIsFar DEF Typed, TypeOK
<1>2. Extra \in 0 .. 3
  BY DEF Extra
<1>3. Bound \in Nat /\ Bound <= MaxTimer + 3 /\ (limit # Infinity => Bound <= limit + 3)
  BY <1>1, <1>2, InfinityIsFar DEF Bound
<1> QED BY <1>1, <1>2, <1>3, InfinityIsFar DEF InTime

\* What the options make of their values is a limit that a timer can keep.
LEMMA ReadLimit ==
  ASSUME IsTimerOption(option)
  PROVE  /\ ReadOption(side, option) = DocumentedLimit
         /\ ReadOption(side, option) \in 0 .. MaxTimer \union {Infinity}
<1>1. Default \in 0 .. MaxTimer /\ Infinity \in Nat /\ Infinity # 0 /\ MaxTimer \in Nat
  BY DeadlinesAssumption, InfinityIsFar
<1>2. CASE side = "request"
  BY <1>1, <1>2 DEF IsTimerOption, ReadOption, DocumentedLimit, Unset
<1>3. CASE side # "request"
  BY <1>1, <1>3 DEF IsTimerOption, ReadOption, DocumentedLimit, Unset
<1> QED BY <1>2, <1>3

-----------------------------------------------------------------------------
(* Every step keeps the invariant *)

\* Nothing waits before the option was read.
LEMMA InitTimes == Init => TimeInv
<1> SUFFICES ASSUME Init PROVE TimeInv
  OBVIOUS
<1> USE DEF Init
<1>1. Infinity \in Nat
  BY InfinityIsFar
<1>2. TypeOK
  <2>1. calls \subseteq Send /\ busy \subseteq Work(side)
    OBVIOUS
  <2> QED BY <2>1 DEF TypeOK
<1>3. Typed
  BY <1>1, <1>2 DEF Typed
<1>4. OptionWasRead /\ Awaits
  BY DEF OptionWasRead, Awaits
<1>5. InTime
  BY DEF InTime, Bound, Extra
<1> QED BY <1>3, <1>4, <1>5 DEF TimeInv

\* The constructors read the option into a limit within the timer range.
LEMMA ConstructTimes == TimeInv /\ Construct => TimeInv'
<1> SUFFICES ASSUME TimeInv, Construct PROVE TimeInv'
  OBVIOUS
<1> USE DEF TimeInv
<1>1. /\ step = "new" /\ limit = Infinity
      /\ UNCHANGED <<side, option, now, started, awaited, timer, busy, calls, cut>>
  BY DEF Construct
<1>2. now = 0 /\ timer = Infinity /\ Infinity \in Nat
  BY <1>1, InfinityIsFar DEF OptionWasRead
<1>3. CASE IsTimerOption(option)
  <2>1. /\ limit' = ReadOption(side, option)
        /\ step' = CASE side = "client" -> "sends" [] side = "server" -> "stopping"
                     [] OTHER -> "reply"
    BY <1>3 DEF Construct
  <2>2. limit' = DocumentedLimit /\ limit' \in 0 .. MaxTimer \union {Infinity}
    BY <1>3, <2>1, ReadLimit
  <2>3. /\ step' \in {"sends", "stopping", "reply"} /\ step' \in StepsOf(side)
    BY <2>1 DEF Typed, StepsOf
  <2>4. Typed'
    <3>1. TypeOK'
      <4>1. limit' \in 0 .. MaxTimer \union {Infinity} /\ timer' = Infinity
        BY <1>1, <1>2, <2>2
      <4> QED BY <1>1, <4>1, Zenon DEF Typed, TypeOK
    <3>2. StepsOf(side)' = StepsOf(side)
      BY <1>1 DEF StepsOf
    <3> QED BY <1>1, <2>3, <3>1, <3>2 DEF Typed
  <2>5. OptionWasRead' /\ Awaits'
    BY <1>1, <2>2, <2>3 DEF OptionWasRead, Awaits, DocumentedLimit
  <2>6. InTime'
    <3>1. limit' \in Nat /\ now' = 0 /\ timer' = Infinity
      BY <1>1, <1>2, <2>2, InfinityIsFar
    <3>2. Bound' \in Nat
      BY <2>3, <3>1 DEF Bound, Extra
    <3> QED BY <3>1, <3>2 DEF InTime
  <2> QED BY <2>4, <2>5, <2>6
<1>4. CASE ~IsTimerOption(option)
  <2>1. step' = "refused" /\ limit' = limit
    BY <1>4 DEF Construct
  <2>2. Typed'
    BY <1>1, <2>1 DEF Typed, TypeOK, StepsOf
  <2>3. OptionWasRead' /\ Awaits'
    BY <1>1, <1>2, <2>1 DEF OptionWasRead, Awaits
  <2>4. InTime'
    BY <1>1, <1>2, <2>1 DEF InTime, Bound, Extra
  <2> QED BY <2>2, <2>3, <2>4
<1> QED BY <1>3, <1>4

\* Work that ends is cut no more; a send that starts is no reply.
LEMMA WorkTimes ==
  ASSUME TimeInv,
         \/ \E w \in busy : WorkEnds(w)
         \/ LateSend
  PROVE  TimeInv'
<1> USE DEF TimeInv
<1>1. /\ UNCHANGED <<side, option, limit, now, started, step, awaited, timer, cut>>
      /\ calls' \subseteq calls
      /\ busy' \subseteq Work(side)
      /\ side # "client" => busy' \subseteq busy
  <2>1. CASE \E w \in busy : WorkEnds(w)
    BY <2>1 DEF WorkEnds, Typed, TypeOK
  <2>2. CASE LateSend
    BY <2>2 DEF LateSend, Typed, TypeOK, Work
  <2> QED BY <2>1, <2>2
<1>2. Typed'
  BY <1>1 DEF Typed, TypeOK
<1>3. OptionWasRead' /\ InTime'
  BY <1>1 DEF OptionWasRead, InTime, Bound, Extra, DocumentedLimit
<1>4. Awaits'
  <2>1. step = "replies" => side = "server"
    BY DEF Typed, StepsOf
  <2> QED BY <1>1, <2>1 DEF Awaits
<1> QED BY <1>2, <1>3, <1>4

\* Time passes only up to the timer.
LEMMA TickTimes == TimeInv /\ Tick => TimeInv'
<1> SUFFICES ASSUME TimeInv, Tick PROVE TimeInv'
  OBVIOUS
<1> USE DEF TimeInv
<1>1. /\ Waits /\ timer # Infinity /\ ~(timer <= now) /\ now' = now + 1
      /\ UNCHANGED <<side, option, limit, started, step, awaited, timer, busy, calls, cut>>
  BY DEF Tick, Woken
<1>2. now \in Nat /\ timer \in Nat /\ now' <= timer /\ MaxTimer \in Nat /\ Infinity \in Nat
  BY <1>1, InfinityIsFar DEF Typed
<1>3. Bound \in Nat /\ Bound' = Bound
  BY <1>1, Times DEF Bound, Extra
<1>4. Typed'
  BY <1>1, <1>2 DEF Typed, TypeOK
<1>5. OptionWasRead' /\ Awaits'
  BY <1>1 DEF OptionWasRead, Awaits, DocumentedLimit, Waits
<1>6. InTime'
  BY <1>1, <1>2, <1>3 DEF InTime
<1> QED BY <1>4, <1>5, <1>6

\* A step that makes the next wait a short one, for what is not cut.
LEMMA GoesOnTimes ==
  ASSUME TimeInv, Waits,
         UNCHANGED <<side, option, limit, now, started, busy, calls>>,
         step' \in StepsOf(side) \union {"closed", "done"},
         awaited' \subseteq Work(side), cut' \subseteq Work(side),
         timer' \in Nat, timer' = Infinity \/ timer' \in now .. now + MaxTimer,
         now <= Bound', timer' # Infinity => timer' <= Bound',
         Awaits'
  PROVE  TimeInv'
<1> USE DEF TimeInv
<1>1. Typed'
  <2>1. now \in Nat /\ started = 0 /\ MaxTimer \in Nat
    BY InfinityIsFar DEF Typed
  <2>2. timer' = Infinity \/ timer' \in started' .. now' + MaxTimer
    BY <2>1
  <2>3. TypeOK'
    BY <2>2 DEF Typed, TypeOK
  <2>4. StepsOf(side)' = StepsOf(side)
    BY DEF StepsOf
  <2> QED BY <2>3, <2>4 DEF Typed
<1>2. OptionWasRead'
  <2>1. step' \notin {"new", "refused"} /\ step \notin {"new", "refused"}
    BY DEF StepsOf, Waits
  <2> QED BY <2>1 DEF OptionWasRead, DocumentedLimit
<1>3. InTime'
  BY DEF InTime
<1> QED BY <1>1, <1>2, <1>3

\* Either wait of settleSends() ends by the deadline of close().
LEMMA SettleSendsTimes ==
  ASSUME TimeInv, side = "client", NEW next,
         UNCHANGED <<side, option, limit, now, started, busy, calls>>,
         \/ SettleSends("sends", next) /\ next = "receivers"
         \/ SettleSends("lateSends", next) /\ next = "closed"
  PROVE  TimeInv'
<1> USE DEF TimeInv
<1>1. /\ step \in {"sends", "lateSends"} /\ Waits
      /\ next = IF step = "sends" THEN "receivers" ELSE "closed"
      /\ SettleSends(step, next)
  BY DEF SettleSends, Waits
<1>2. /\ now \in Nat /\ now < Infinity /\ started = 0 /\ limit \in Nat
      /\ (limit # Infinity => limit <= MaxTimer)
      /\ MaxTimer \in Nat /\ MaxTimer >= 1 /\ Infinity \in Nat /\ Infinity > 1
  BY Times, InfinityIsFar, DeadlinesAssumption DEF Typed, Grace
<1>3. /\ deadline = limit
      /\ Minus(deadline, now) = IF limit = Infinity THEN Infinity ELSE limit - now
  BY <1>2 DEF deadline, Plus, Minus
<1>4. Live \subseteq Work(side) /\ cut \subseteq Work(side)
  BY DEF Live, Work, Typed, TypeOK
<1>5. now <= Bound /\ Bound = IF limit = Infinity THEN Extra ELSE limit + Extra
  BY <1>1, <1>2, Times DEF InTime, Bound
<1>6. Extra = IF step = "sends" THEN 0 ELSE 2
  BY <1>1 DEF Extra
<1>7. CASE Live = {}
  <2>1. step' = next /\ awaited' = {} /\ timer' = Infinity /\ cut' = cut
    BY <1>1, <1>2, <1>7, NoTimer DEF SettleSends
  <2>2. Extra' = IF step = "sends" THEN 1 ELSE 3
    BY <1>1, <2>1 DEF Extra
  <2>3. now <= Bound'
    BY <1>1, <1>2, <1>5, <1>6, <2>1, <2>2 DEF Bound
  <2> QED BY <1>1, <1>2, <1>4, <2>1, <2>3, GoesOnTimes DEF StepsOf, Awaits
<1>8. CASE Live # {} /\ now < deadline
  <2>1. /\ step' = step /\ awaited' = Live /\ cut' = cut
        /\ timer' = IF limit = Infinity THEN Infinity ELSE limit
    <3>1. WaitUpTo(step, Minus(deadline, now), Live) /\ cut' = cut
      BY <1>1, <1>8 DEF SettleSends
    <3>2. Minus(deadline, now) \in Int
      BY <1>2, <1>3
    <3>3. limit # Infinity => Minus(deadline, now) # Infinity /\ now + Minus(deadline, now) = limit
                              /\ Minus(deadline, now) >= 0 /\ Minus(deadline, now) <= MaxTimer
      BY <1>2, <1>3, <1>8, InfinityIsFar
    <3> HIDE DEF WaitUpTo
    <3> QED BY <1>2, <1>3, <3>1, <3>2, <3>3, TimerOfWait
  <2>2. Extra' = Extra /\ Bound' = Bound
    BY <2>1 DEF Extra, Bound
  <2>3. timer' # Infinity => timer' <= Bound' /\ timer' \in now .. now + MaxTimer
    BY <1>2, <1>3, <1>5, <1>6, <1>8, <2>1, <2>2
  <2> QED BY <1>1, <1>2, <1>4, <1>5, <2>1, <2>2, <2>3, GoesOnTimes DEF StepsOf, Awaits
<1>9. CASE Live # {} /\ ~(now < deadline)
  <2>1. step' = next /\ awaited' = Live /\ timer' = now + 1 /\ cut' = cut \union Live
    BY <1>1, <1>2, <1>9, TimerOfWait DEF SettleSends, Grace
  <2>2. Extra' = IF step = "sends" THEN 1 ELSE 3
    BY <1>1, <2>1 DEF Extra
  <2>3. limit # Infinity
    BY <1>2, <1>3, <1>9
  <2>4. timer' <= Bound' /\ now <= Bound' /\ timer' \in now .. now + MaxTimer
    BY <1>1, <1>2, <1>5, <1>6, <2>1, <2>2, <2>3 DEF Bound
  <2> QED BY <1>1, <1>2, <1>4, <2>1, <2>4, GoesOnTimes DEF StepsOf, Awaits
<1> QED BY <1>7, <1>8, <1>9

\* The waits of the client's close() stay within its deadline.
LEMMA ClientTimes == TimeInv /\ ClientCloses => TimeInv'
<1> SUFFICES ASSUME TimeInv, ClientCloses PROVE TimeInv'
  OBVIOUS
<1> USE DEF TimeInv
<1>1. side = "client" /\ UNCHANGED <<side, option, limit, now, started, busy, calls>>
  BY DEF ClientCloses
<1>2. CASE SettleSends("sends", "receivers") \/ SettleSends("lateSends", "closed")
  BY <1>1, <1>2, SettleSendsTimes
<1>3. CASE SettleReceivers
  <2>1. step = "receivers" /\ Waits /\ cut' = cut
    BY <1>3 DEF SettleReceivers, Waits
  <2>2. /\ now \in Nat /\ started = 0 /\ limit \in Nat
        /\ (limit # Infinity => limit <= MaxTimer)
        /\ MaxTimer \in Nat /\ MaxTimer >= 1 /\ Infinity \in Nat /\ Infinity > MaxTimer + 1
    BY Times, InfinityIsFar, DeadlinesAssumption DEF Typed, Grace
  <2>3. Minus(deadline, now) = IF limit = Infinity THEN Infinity ELSE limit - now
    BY <2>2 DEF deadline, Plus, Minus
  <2>4. now <= IF limit = Infinity THEN 1 ELSE limit + 1
    BY <1>1, <2>1, <2>2 DEF InTime, Bound, Extra
  <2>5. step' = "lateSends" /\ awaited' \subseteq {"receiver"}
        /\ (timer' = Infinity \/ (limit # Infinity /\ timer' \in now .. now + MaxTimer
                                  /\ (timer' <= limit \/ timer' <= now + 1)))
    <3>1. CASE "receiver" \notin busy
      BY <1>3, <2>2, <3>1, NoTimer DEF SettleReceivers
    <3>2. CASE "receiver" \in busy
      <4> DEFINE ms == Max({Minus(deadline, now), Grace})
      <4>1. WaitUpTo("lateSends", ms, {"receiver"})
        BY <1>3, <3>2 DEF SettleReceivers
      <4>2. CASE limit = Infinity
        <5>1. Minus(deadline, now) = Infinity /\ ms = Infinity
          BY <2>2, <2>3, <4>2, MaxOfTwo DEF Grace
        <5> HIDE DEF ms
        <5> QED BY <2>2, <4>1, <5>1, TimerOfWait
      <4>3. CASE limit # Infinity
        <5>1. ms = IF limit - now >= 1 THEN limit - now ELSE 1
          BY <2>2, <2>3, <4>3, MaxOfTwo DEF Grace
        <5>2. ms \in Int /\ ms >= 1 /\ ms <= MaxTimer /\ ms # Infinity
              /\ (now + ms = limit \/ ms = 1)
          BY <2>2, <4>3, <5>1
        <5> HIDE DEF ms
        <5>3. step' = "lateSends" /\ awaited' = {"receiver"} /\ timer' = now + ms
          BY <2>2, <4>1, <5>2, TimerOfWait
        <5> QED BY <2>2, <4>3, <5>2, <5>3
      <4> QED BY <4>2, <4>3
    <3> QED BY <3>1, <3>2
  <2>6. Bound' = IF limit = Infinity THEN 2 ELSE limit + 2
    BY <1>1, <2>2, <2>5 DEF Bound, Extra
  <2>7. now <= Bound' /\ (timer' # Infinity => timer' <= Bound')
    BY <2>2, <2>4, <2>5, <2>6
  <2>8. awaited' \subseteq Work(side) /\ cut' \subseteq Work(side) /\ timer' \in Nat
    BY <1>1, <2>1, <2>2, <2>5 DEF Work, Typed, TypeOK
  <2> QED BY <1>1, <2>1, <2>5, <2>7, <2>8, GoesOnTimes DEF StepsOf, Awaits
<1> QED BY <1>2, <1>3 DEF ClientCloses

\* The waits of the server's close() stay within theirs.
LEMMA ServerTimes == TimeInv /\ ServerCloses => TimeInv'
<1> SUFFICES ASSUME TimeInv, ServerCloses PROVE TimeInv'
  OBVIOUS
<1> USE DEF TimeInv
<1>1. side = "server" /\ UNCHANGED <<side, option, limit, now, started, busy, calls>>
  BY DEF ServerCloses
<1>2. /\ now \in Nat /\ now < Infinity /\ limit \in Nat
      /\ (limit # Infinity => limit <= MaxTimer)
      /\ MaxTimer \in Nat /\ MaxTimer >= 1 /\ Infinity \in Nat /\ Infinity > MaxTimer + 1
  BY Times, InfinityIsFar, DeadlinesAssumption DEF Grace
<1>3. cut \subseteq Work(side)
  BY DEF Typed, TypeOK
<1>4. CASE StopReceiving
  <2>1. step = "stopping" /\ Waits
    BY <1>4 DEF StopReceiving, Waits
  <2>2. now = 0
    BY <1>1, <1>2, <2>1 DEF InTime, Bound, Extra
  <2>3. step' = "inFlight" /\ awaited' = {"subscription"} /\ timer' = now + 1 /\ cut' = cut
    BY <1>2, <1>4, TimerOfWait DEF StopReceiving, Grace
  <2>4. Bound' = 1
    BY <1>1, <2>3 DEF Bound, Extra
  <2> QED BY <1>1, <1>2, <1>3, <2>1, <2>2, <2>3, <2>4, GoesOnTimes DEF StepsOf, Awaits, Work
<1>5. CASE WaitForInFlight
  <2>1. step = "inFlight" /\ Waits
    BY <1>5 DEF WaitForInFlight, Waits
  <2>2. now <= 1
    BY <1>1, <1>2, <2>1 DEF InTime, Bound, Extra
  <2>3. limit \in 0 .. MaxTimer \union {Infinity}
    BY DEF Typed, TypeOK
  <2>4. /\ step' = "drained" /\ awaited' = {"handler", "reply"} /\ cut' = cut
        /\ timer' = IF limit = Infinity THEN Infinity ELSE now + limit
    BY <1>2, <1>5, <2>3, TimerOnTimer DEF WaitForInFlight
  <2>5. Bound' = IF limit = Infinity THEN 1 ELSE limit + 1
    BY <1>1, <1>2, <2>4 DEF Bound, Extra
  <2>6. /\ timer' \in Nat /\ timer' >= limit /\ now <= Bound'
        /\ timer' # Infinity => timer' <= Bound' /\ timer' \in now .. now + MaxTimer
    BY <1>2, <2>2, <2>4, <2>5
  <2>7. Awaits' /\ awaited' \subseteq Work(side) /\ step' \in StepsOf(side)
    BY <1>1, <2>4, <2>6 DEF Awaits, Work, StepsOf
  <2> QED BY <1>1, <1>3, <2>1, <2>4, <2>6, <2>7, GoesOnTimes
<1>6. CASE GiveUpOnInFlight
  <2>1. step = "drained" /\ Waits /\ Woken
    BY <1>6 DEF GiveUpOnInFlight, Waits
  <2>2. now <= IF limit = Infinity THEN 1 ELSE limit + 1
    BY <1>1, <1>2, <2>1 DEF InTime, Bound, Extra
  <2>3. /\ step' = "replies" /\ awaited' = {"reply"} /\ timer' = now + 1
        /\ cut' = cut \union (busy \intersect {"handler"})
    BY <1>2, <1>6, TimerOfWait DEF GiveUpOnInFlight, Grace
  <2>4. Bound' = IF limit = Infinity THEN 2 ELSE limit + 2
    BY <1>1, <1>2, <2>3 DEF Bound, Extra
  <2>5. "reply" \in busy => limit # Infinity /\ timer' >= limit + Grace
    <3> SUFFICES ASSUME "reply" \in busy PROVE limit # Infinity /\ timer' >= limit + Grace
      OBVIOUS
    <3>1. awaited = {"handler", "reply"} /\ timer >= limit /\ timer \in Nat
      BY <2>1 DEF Awaits, Typed
    <3>2. timer <= now
      BY <2>1, <3>1 DEF Woken
    <3> QED BY <1>2, <2>3, <3>1, <3>2 DEF Grace
  <2>6. /\ timer' \in Nat /\ now <= Bound' /\ timer' <= Bound' /\ timer' \in now .. now + MaxTimer
    BY <1>2, <2>2, <2>3, <2>4
  <2>7. Awaits' /\ awaited' \subseteq Work(side) /\ step' \in StepsOf(side)
        /\ cut' \subseteq Work(side)
    BY <1>1, <1>3, <2>3, <2>5 DEF Awaits, Work, StepsOf
  <2> QED BY <1>1, <2>1, <2>6, <2>7, GoesOnTimes
<1>7. CASE CancelReplies
  <2>1. step = "replies" /\ Waits
    BY <1>7 DEF CancelReplies, Waits
  <2>2. now <= IF limit = Infinity THEN 2 ELSE limit + 2
    BY <1>1, <1>2, <2>1 DEF InTime, Bound, Extra
  <2>3. /\ step' = "closed" /\ awaited' = {"reply"} /\ timer' = now + 1
        /\ cut' = cut \union (busy \intersect {"reply"})
    BY <1>2, <1>7, TimerOfWait DEF CancelReplies, Grace
  <2>4. Bound' = IF limit = Infinity THEN 3 ELSE limit + 3
    BY <1>1, <1>2, <2>3 DEF Bound, Extra
  <2>5. /\ timer' \in Nat /\ now <= Bound' /\ timer' <= Bound' /\ timer' \in now .. now + MaxTimer
    BY <1>2, <2>2, <2>3, <2>4
  <2>6. Awaits' /\ awaited' \subseteq Work(side) /\ cut' \subseteq Work(side)
    BY <1>1, <1>3, <2>3 DEF Awaits, Work
  <2> QED BY <1>1, <2>1, <2>3, <2>5, <2>6, GoesOnTimes
<1> QED BY <1>4, <1>5, <1>6, <1>7 DEF ServerCloses

\* The wait for a reply stays within the reply timeout.
LEMMA RequestTimes == TimeInv /\ RequestWaits => TimeInv'
<1> SUFFICES ASSUME TimeInv, RequestWaits PROVE TimeInv'
  OBVIOUS
<1> USE DEF TimeInv
<1>1. side = "request" /\ UNCHANGED <<side, option, limit, now, started, busy, calls>>
  BY DEF RequestWaits
<1>2. /\ now \in Nat /\ limit \in Nat /\ (limit # Infinity => limit <= MaxTimer)
      /\ MaxTimer \in Nat /\ Infinity \in Nat
  BY Times, InfinityIsFar
<1>3. cut \subseteq Work(side) /\ busy \subseteq Work(side)
  BY DEF Typed, TypeOK
<1>4. CASE StartTimer
  <2>1. step = "reply" /\ Waits
    BY <1>4 DEF StartTimer, Waits
  <2>2. now = 0
    BY <1>1, <1>2, <2>1 DEF InTime, Bound, Extra
  <2>3. limit \in 0 .. MaxTimer \union {Infinity}
    BY DEF Typed, TypeOK
  <2>4. /\ step' = "replyTimer" /\ awaited' = {"response"} /\ timer' = limit /\ cut' = cut
    BY <1>2, <1>4, <2>2, <2>3, TimerOnTimer DEF StartTimer
  <2>5. Bound' = IF limit = Infinity THEN 0 ELSE limit
    BY <1>1, <1>2, <2>4 DEF Bound, Extra
  <2>6. /\ timer' \in Nat /\ timer' >= limit /\ now <= Bound'
        /\ timer' # Infinity => timer' <= Bound' /\ timer' \in now .. now + MaxTimer
    BY <1>2, <2>2, <2>4, <2>5
  <2>7. Awaits' /\ awaited' \subseteq Work(side) /\ step' \in StepsOf(side)
    BY <1>1, <2>4, <2>6 DEF Awaits, Work, StepsOf
  <2> QED BY <1>1, <1>3, <2>1, <2>4, <2>6, <2>7, GoesOnTimes
<1>5. CASE ReplyOrTimeout
  <2>1. step = "replyTimer" /\ Waits
    BY <1>5 DEF ReplyOrTimeout, Waits
  <2>2. step' = "closed" /\ awaited' = {} /\ timer' = Infinity /\ cut' = cut \union busy
    BY <1>2, <1>5, NoTimer DEF ReplyOrTimeout
  <2>3. Bound' = Bound
    BY <1>1, <2>1, <2>2 DEF Bound, Extra
  <2>4. Awaits' /\ awaited' \subseteq Work(side) /\ cut' \subseteq Work(side) /\ now <= Bound'
    BY <1>3, <2>2, <2>3 DEF Awaits, InTime
  <2> QED BY <1>1, <1>2, <2>1, <2>2, <2>4, GoesOnTimes
<1> QED BY <1>4, <1>5 DEF RequestWaits

\* Returning needs no further time.
LEMMA ReturnTimes == TimeInv /\ Return => TimeInv'
<1> SUFFICES ASSUME TimeInv, Return PROVE TimeInv'
  OBVIOUS
<1> USE DEF TimeInv
<1>1. step = "closed" /\ Waits
      /\ UNCHANGED <<side, option, limit, now, started, busy, calls, cut>>
  BY DEF Return, Waits
<1>2. now \in Nat /\ Infinity \in Nat /\ cut \subseteq Work(side)
  BY InfinityIsFar DEF Typed, TypeOK
<1>3. step' = "done" /\ awaited' = {} /\ timer' = Infinity
  BY <1>2, NoTimer DEF Return
<1>4. Bound' = Bound
  BY <1>1, <1>3 DEF Bound, Extra
<1>5. Awaits' /\ awaited' \subseteq Work(side) /\ now <= Bound'
  BY <1>3, <1>4 DEF Awaits, InTime
<1> QED BY <1>1, <1>2, <1>3, <1>5, GoesOnTimes

\* Time, timers and what they wait for are consistent at every step.
THEOREM TimesKept == Spec => []TimeInv
<1>1. TimeInv /\ [Next]_vars => TimeInv'
  <2> SUFFICES ASSUME TimeInv, [Next]_vars PROVE TimeInv'
    OBVIOUS
  <2>1. CASE Construct
    BY <2>1, ConstructTimes
  <2>2. CASE (\E w \in busy : WorkEnds(w)) \/ LateSend
    BY <2>2, WorkTimes
  <2>3. CASE Tick
    BY <2>3, TickTimes
  <2>4. CASE Goes
    BY <2>4, ClientTimes, ServerTimes, RequestTimes, ReturnTimes DEF Goes
  <2>5. CASE UNCHANGED vars
    BY <2>5 DEF vars, TimeInv, Typed, TypeOK, OptionWasRead, InTime, Bound, Extra, Awaits,
                DocumentedLimit, StepsOf, Work
  <2> QED BY <2>1, <2>2, <2>3, <2>4, <2>5 DEF Next
<1> QED BY InitTimes, <1>1, PTL DEF Spec

-----------------------------------------------------------------------------
(* What the invariant gives *)

\* Every accepted option is a limit that a timer can keep.
THEOREM LimitsAreKept == Spec => []TypeOK
<1>1. TimeInv => TypeOK
  BY DEF TimeInv, Typed
<1> QED BY TimesKept, <1>1, PTL

\* However long the limit is, close() adds three seconds to it at most.
THEOREM BackByTheDeadline == Spec => []BackInTime
<1>1. TimeInv => BackInTime
  <2> SUFFICES ASSUME TimeInv, Waits, DocumentedLimit # Infinity
               PROVE  now <= started + DocumentedLimit + IF side = "request" THEN 0 ELSE 3 * Grace
    BY DEF BackInTime
  <2>1. limit = DocumentedLimit
    BY DEF TimeInv, OptionWasRead, Waits
  <2>2. now \in Nat /\ limit \in Nat /\ started = 0 /\ now <= Bound
    BY Times DEF TimeInv, InTime, Typed
  <2>3. Bound <= limit + IF side = "request" THEN 0 ELSE 3
    BY <2>1, <2>2, Times DEF Bound, Extra, TimeInv
  <2>4. Bound \in Nat
    BY <2>2, Times DEF Bound, TimeInv
  <2> DEFINE b == Bound
  <2>5. b \in Nat /\ b <= limit + (IF side = "request" THEN 0 ELSE 3) /\ now <= b
    BY <2>2, <2>3, <2>4
  <2> HIDE DEF b
  <2> QED BY <2>1, <2>2, <2>5 DEF Grace
<1> QED BY TimesKept, <1>1, PTL

\* What is cut had the time that the option gives it.
LEMMA CutInTime ==
  ASSUME TimeInv, Next, NEW w \in cut' \ cut
  PROVE  /\ DocumentedLimit # Infinity
         /\ now >= started + DocumentedLimit + IF w = "reply" THEN Grace ELSE 0
<1> USE DEF TimeInv
<1>1. /\ now \in Nat /\ now < Infinity /\ limit \in Nat /\ started = 0
      /\ timer \in Nat /\ Infinity \in Nat
  BY Times, InfinityIsFar DEF Typed
<1>2. Goes
  BY DEF Next, Construct, WorkEnds, LateSend, Tick
<1>3. Waits /\ limit = DocumentedLimit
  <2>1. step \notin {"new", "refused", "done"}
    BY <1>2 DEF Goes, ClientCloses, ServerCloses, RequestWaits, Return, SettleSends,
                SettleReceivers, StopReceiving, WaitForInFlight, GiveUpOnInFlight,
                CancelReplies, StartTimer, ReplyOrTimeout
  <2> QED BY <2>1 DEF Waits, OptionWasRead
<1>4. SUFFICES /\ limit # Infinity
               /\ now >= limit + IF w = "reply" THEN Grace ELSE 0
  BY <1>1, <1>3
<1>5. CASE ClientCloses
  <2>1. w \in Live /\ ~(now < deadline)
    BY <1>5 DEF ClientCloses, SettleSends, SettleReceivers
  <2>2. w # "reply"
    BY <2>1, DeadlinesAssumption DEF Live
  <2>3. deadline = limit
    BY <1>1 DEF deadline, Plus
  <2> QED BY <1>1, <2>1, <2>2, <2>3
<1>6. CASE ServerCloses
  <2>1. CASE GiveUpOnInFlight
    <3>1. w = "handler" /\ w \in busy /\ Woken /\ step = "drained"
      BY <2>1 DEF GiveUpOnInFlight
    <3>2. awaited = {"handler", "reply"} /\ timer >= limit
      BY <3>1 DEF Awaits
    <3>3. timer <= now
      BY <3>1, <3>2 DEF Woken
    <3> QED BY <1>1, <3>1, <3>2, <3>3
  <2>2. CASE CancelReplies
    <3>1. w = "reply" /\ w \in busy /\ Woken /\ step = "replies"
      BY <2>2 DEF CancelReplies
    <3>2. awaited = {"reply"} /\ limit # Infinity /\ timer >= limit + Grace
      BY <3>1 DEF Awaits
    <3>3. timer <= now
      BY <3>1, <3>2 DEF Woken
    <3> QED BY <1>1, <3>1, <3>2, <3>3 DEF Grace
  <2> QED BY <1>6, <2>1, <2>2 DEF ServerCloses, StopReceiving, WaitForInFlight
<1>7. CASE RequestWaits
  <2>1. side = "request" /\ w \in busy /\ Woken /\ step = "replyTimer"
    BY <1>7 DEF RequestWaits, StartTimer, ReplyOrTimeout
  <2>2. w = "response"
    BY <2>1 DEF Typed, TypeOK, Work
  <2>3. awaited = {"response"} /\ timer >= limit
    BY <2>1 DEF Awaits
  <2>4. timer <= now
    BY <2>1, <2>2, <2>3 DEF Woken
  <2> QED BY <1>1, <2>2, <2>3, <2>4
<1>8. CASE Return
  BY <1>8 DEF Return
<1> QED BY <1>2, <1>5, <1>6, <1>7, <1>8 DEF Goes

\* Nothing is cancelled or given up before the time the option gives it.
THEOREM NothingCutEarly == Spec => NotCutEarly
<1>1. TimeInv /\ [Next]_vars =>
        [\A w \in cut' \ cut :
           /\ DocumentedLimit # Infinity
           /\ now >= started + DocumentedLimit + IF w = "reply" THEN Grace ELSE 0]_vars
  BY CutInTime
<1> QED BY TimesKept, <1>1, PTL DEF Spec, NotCutEarly
=============================================================================
