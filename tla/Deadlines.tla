------------------------------- MODULE Deadlines -------------------------------
(***************************************************************************)
(* Time: the options closeTimeoutInMs and replyTimeoutInMs                 *)
(* (readTimerOption()), the timers made of them, and how long the close()  *)
(* of a client, the close() of a server and the wait for a reply take.     *)
(* Each behaviour is one of these three (`side`), with one option value.   *)
(*                                                                         *)
(* The unit of time is the second that close() gives to cancelled work;    *)
(* MaxTimer stands for 2^31-1 ms.  Code runs as soon as what it awaits is  *)
(* over (Woken): time passes only while it waits.                          *)
(*                                                                         *)
(* External: setTimeout, which fires at once when the delay is longer than *)
(* MaxTimer; the work (sends, receivers, handlers, replies), which ends at *)
(* any time or never, whether or not it was cancelled.  What close()       *)
(* awaits of the SDK without a limit of its own (receivers, connection)    *)
(* takes no time here; of these, the subscription of a server that was     *)
(* already asked to stop is there, since it may outlast its first wait.    *)
(***************************************************************************)
EXTENDS Integers, FiniteSetsExt

CONSTANTS
  MaxTimer,   \* MAX_TIMER_MS
  Default,    \* DEFAULT_CLOSE_TIMEOUT_MS
  Send        \* the sends of a client

\* SEND_CANCEL_WAIT_MS, STOP_RECEIVING_WAIT_MS and REPLY_CANCEL_WAIT_MS
Grace == 1

\* Timers can be that long, and no send is called like other work.
ASSUME DeadlinesAssumption ==
  /\ MaxTimer \in Nat /\ MaxTimer >= Grace
  /\ Default \in 0 .. MaxTimer
  /\ Send \intersect {"receiver", "subscription", "handler", "reply", "response"} = {}

Infinity == 10 * (MaxTimer + 1)
Unset == -1
NoNumber == -2   \* NaN, a string, null
Negative == -3

Option == {Unset, NoNumber, Negative, Infinity} \union 0 .. MaxTimer + 1

VARIABLES
  side,      \* "client", "server" or "request"
  option,    \* the option as the application gave it
  limit,     \* what the constructor made of it
  now,       \* Date.now()
  started,   \* when the waiting began
  step,      \* how far it is; "refused": the constructor threw
  awaited,   \* the work that is being waited for
  timer,     \* when the timer of that waiting fires (Infinity: no timer)
  busy,      \* the work in progress
  calls,     \* the sends still to come
  cut        \* the work that was cancelled or given up

vars == <<side, option, limit, now, started, step, awaited, timer, busy, calls, cut>>

Work(s) ==
  CASE s = "client" -> Send \union {"receiver"}
    [] s = "server" -> {"subscription", "handler", "reply"}
    [] OTHER -> {"response"}

-----------------------------------------------------------------------------
(* The options *)

\* Mutant: a number is a number.
TakesAnyNumber(value) == value # NoNumber

\* readTimerOption() accepts the value.
IsTimerOption(value) == value \in {Unset, Infinity} \union 0 .. MaxTimer

\* Mutant: || for ??.
ZeroIsUnset(s, value) ==
  CASE s = "request" -> IF value \in {Unset, 0} THEN Infinity ELSE value
    [] OTHER -> IF value \in {Unset, 0} THEN Default ELSE value

\* The constructors: no option is no limit for a reply, as are 0 and Infinity;
\* for close() it is the default.
ReadOption(s, value) ==
  CASE s = "request" -> IF value \in {Unset, 0} THEN Infinity ELSE value
    [] OTHER -> IF value = Unset THEN Default ELSE value

Plus(t, ms) == IF ms = Infinity THEN Infinity ELSE t + ms
Minus(t, ms) == IF t = Infinity THEN Infinity ELSE t - ms

deadline == Plus(started, limit)

\* When setTimeout(ms) fires.
SetTimeout(ms) == IF ms > MaxTimer THEN now ELSE now + ms

\* The code stays, or goes to `next`, and waits for `work` for at most ms.
WaitUpTo(next, ms, work) ==
  /\ step' = next
  /\ awaited' = work
  /\ timer' = IF ms = Infinity THEN Infinity ELSE SetTimeout(Min({Max({ms, 0}), MaxTimer}))

\* waitForInFlight() and publish() make their timer themselves.
WaitOnTimer(next, work) ==
  /\ step' = next
  /\ awaited' = work
  /\ timer' = IF limit = Infinity THEN Infinity ELSE SetTimeout(limit)

GoesTo(next) == WaitUpTo(next, Infinity, {})

Woken == awaited \intersect busy = {} \/ timer <= now

Waits == step \notin {"new", "refused", "done"}

-----------------------------------------------------------------------------

Init ==
  /\ side \in {"client", "server", "request"}
  /\ option \in Option
  /\ limit = Infinity
  /\ now = 0 /\ started = 0
  /\ step = "new" /\ awaited = {} /\ timer = Infinity
  /\ busy \in SUBSET Work(side)
  /\ calls = IF side = "client" THEN Send \ busy ELSE {}
  /\ cut = {}

\* The client, the server or the request comes to be, or a RangeError is thrown.
Construct ==
  /\ step = "new" /\ limit = Infinity
  /\ IF IsTimerOption(option)
     THEN /\ limit' = ReadOption(side, option)
          /\ step' = CASE side = "client" -> "sends" [] side = "server" -> "stopping"
                       [] OTHER -> "reply"
     ELSE step' = "refused" /\ UNCHANGED limit
  /\ UNCHANGED <<side, option, now, started, awaited, timer, busy, calls, cut>>

\* Work ends whenever it wants to, and a call during close() starts another send.
WorkEnds(w) ==
  /\ Waits
  /\ w \in busy
  /\ busy' = busy \ {w}
  /\ UNCHANGED <<side, option, limit, now, started, step, awaited, timer, calls, cut>>

LateSend ==
  /\ side = "client" /\ Waits
  /\ \E s \in calls : busy' = busy \union {s} /\ calls' = calls \ {s}
  /\ UNCHANGED <<side, option, limit, now, started, step, awaited, timer, cut>>

\* Without a timer nothing depends on the time.
Tick ==
  /\ Waits /\ ~Woken
  /\ timer # Infinity
  /\ now' = now + 1
  /\ UNCHANGED <<side, option, limit, started, step, awaited, timer, busy, calls, cut>>

-----------------------------------------------------------------------------
(* close() of the client *)

Live == (busy \intersect Send) \ cut

\* Mutant: the loop of settleSends() does not look at the clock.
WaitsForAll(here, next) ==
  /\ step = here /\ Woken
  /\ IF Live = {} THEN GoesTo(next) ELSE WaitUpTo(here, Minus(deadline, now), Live)
  /\ UNCHANGED cut

\* A turn of settleSends(): the sends are over; or the deadline is not; or the
\* ones left are cancelled and get some more time.
SettleSends(here, next) ==
  /\ step = here /\ Woken
  /\ IF Live = {} THEN GoesTo(next) /\ UNCHANGED cut
     ELSE IF now < deadline
     THEN WaitUpTo(here, Minus(deadline, now), Live) /\ UNCHANGED cut
     ELSE /\ cut' = cut \union Live
          /\ WaitUpTo(next, Grace, Live)

SettleReceivers ==
  /\ step = "receivers" /\ Woken
  /\ IF "receiver" \notin busy THEN GoesTo("lateSends")
     ELSE WaitUpTo("lateSends", Max({Minus(deadline, now), Grace}), {"receiver"})
  /\ UNCHANGED cut

ClientCloses ==
  /\ side = "client"
  /\ SettleSends("sends", "receivers") \/ SettleReceivers \/ SettleSends("lateSends", "closed")
  /\ UNCHANGED <<side, option, limit, now, started, busy, calls>>

-----------------------------------------------------------------------------
(* close() of the server *)

StopReceiving ==
  /\ step = "stopping" /\ Woken
  /\ WaitUpTo("inFlight", Grace, {"subscription"})
  /\ UNCHANGED cut

WaitForInFlight ==
  /\ step = "inFlight" /\ Woken
  /\ WaitOnTimer("drained", {"handler", "reply"})
  /\ UNCHANGED cut

\* giveUpOnInFlight(), unless all is done; the replies of the responses that it
\* stopped get some more time: settleReplies() begins.
GiveUpOnInFlight ==
  /\ step = "drained" /\ Woken
  /\ cut' = cut \union (busy \intersect {"handler"})
  /\ WaitUpTo("replies", Grace, {"reply"})

CancelReplies ==
  /\ step = "replies" /\ Woken
  /\ cut' = cut \union (busy \intersect {"reply"})
  /\ WaitUpTo("closed", Grace, {"reply"})

ServerCloses ==
  /\ side = "server"
  /\ StopReceiving \/ WaitForInFlight \/ GiveUpOnInFlight \/ CancelReplies
  /\ UNCHANGED <<side, option, limit, now, started, busy, calls>>

-----------------------------------------------------------------------------
(* The wait for a reply *)

StartTimer ==
  /\ step = "reply"
  /\ WaitOnTimer("replyTimer", {"response"})
  /\ UNCHANGED cut

\* The response ended, or the timer fired: ReplyTimeoutError.
ReplyOrTimeout ==
  /\ step = "replyTimer" /\ Woken
  /\ cut' = cut \union busy
  /\ GoesTo("closed")

RequestWaits ==
  /\ side = "request"
  /\ StartTimer \/ ReplyOrTimeout
  /\ UNCHANGED <<side, option, limit, now, started, busy, calls>>

\* It is over: close() returns, or the call has its outcome.
Return ==
  /\ step = "closed" /\ Woken
  /\ "subscription" \notin busy
  /\ GoesTo("done")
  /\ UNCHANGED <<side, option, limit, now, started, busy, calls, cut>>

Goes == ClientCloses \/ ServerCloses \/ RequestWaits \/ Return

Next == Construct \/ (\E w \in busy : WorkEnds(w)) \/ LateSend \/ Tick \/ Goes

\* Time passes, code runs when it is woken, and the SDK does stop a subscription.
Fairness == WF_vars(Tick) /\ WF_vars(Goes) /\ WF_vars(WorkEnds("subscription"))

Spec == Init /\ [][Next]_vars

FairSpec == Spec /\ Fairness

-----------------------------------------------------------------------------
(* Properties *)

\* The limit in the words of the README: `0` cancels at once and no option is
\* the default for close(); `0`, like no option, is no limit for a reply.
DocumentedLimit ==
  CASE side = "request" /\ option \in {Unset, 0} -> Infinity
    [] side # "request" /\ option = Unset -> Default
    [] OTHER -> option

\* Every variable has its type: no limit a timer cannot keep is accepted.
TypeOK ==
  /\ limit \in 0 .. MaxTimer \union {Infinity}
  /\ busy \subseteq Work(side) /\ calls \subseteq Send /\ cut \subseteq Work(side) /\ awaited \subseteq Work(side)
  /\ timer = Infinity \/ timer \in started .. now + MaxTimer

\* Work is cancelled or given up only when the time that the option gives it
\* is over (for a reply of the server, and the second it gets then), and never
\* with Infinity: no timer of an accepted option fires early, and no send that
\* finishes in time is affected.
NotCutEarly ==
  [][\A w \in cut' \ cut :
       /\ DocumentedLimit # Infinity
       /\ now >= started + DocumentedLimit + IF w = "reply" THEN Grace ELSE 0]_vars

\* close() is back at most three seconds after its time limit (what it cancels,
\* receivers or subscriptions, and calls made meanwhile get one each), and a
\* reply is waited for no longer than its limit: the waits do not add up to more.
\* (The SDK's closing of receivers and connections comes on top.)
BackInTime ==
  Waits /\ DocumentedLimit # Infinity =>
    now <= started + DocumentedLimit + IF side = "request" THEN 0 ELSE 3 * Grace

\* It does come back when it has a limit, although sends, receivers being
\* attached, handlers, replies and responses never end.
ComesBack ==
  (Waits /\ DocumentedLimit # Infinity) ~> (step = "done")
=============================================================================
