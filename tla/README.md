# nestjs-service-bus: specification and proofs

The library is an Azure Service Bus transport for NestJS: a **server** that runs
handlers for the messages of queues and subscriptions, and a **client** whose
`send()` is a request with replies over a reply queue and whose `emit()` is an
event. Both are single-threaded Node programs. What is hard in them is time:
promises of the SDK that settle late, in another order or with an error;
callbacks of the broker during a shutdown; `close()`, `listen()` and `send()`
that overlap; time limits that give up on work which then goes on.

Line numbers below are those of the files under `src/`.

## 1. Inventory

| Component | State | Operations | Talks to |
|---|---|---|---|
| Reply router (`lib/client/reply-router.ts`) | `listeners`, `closing` (maps by reply queue), `finished` (last 1000 ids), and per listener `waiters`, `closed`, `receiver`, `opened`, `abortController` | `wait()` and the function it returns, `open()`, `processMessage`, `processError`, `failAll()`, `closeListener()`, `close()` | client (`getClient`, `track`), SDK receivers, waiting requests |
| Client (`lib/client/azure-service-bus.client.ts`, `…-client-proxy.ts`) | `sbClient`, `sending`, `inFlight` | `connect()`, `publish()`, `dispatchEvent()`, `sendTo()`, `close()` with `settleSends()` and `settleReceivers()` | router, SDK senders, connection |
| Server life cycle (`lib/server/azure-service-bus.server.ts`) | `sbClient`, `receivers`, `inFlight`, `following`, `sending`, `generation`, `replyAbort`, `closing` | `listen()`, `bindEvents()`, `processMessage`, `handleMessage()`, `handleEvent()`, `close()` | SDK receivers, handlers, deserializer, responses |
| Server responses (`sendReply()`, `getPublisher()`, `replyFailed()`, `FollowedObservable`) | per request: `batch`, the chain `publishing`, `failed`, `cancelled`, `replied`, `first`, `ended` | subscribe, batch per tick, publish one after another, replace a failed reply by an error, stop | the handler's Observable, SDK senders, `close()` |
| Reply wire format (`getPublisher()`, `readReply()`, `deliverReply()`, `toRequests()`) | none | write and read a reply | client, server |
| Utilities (`lib/utils/index.ts`) | `RateLimitedWarning` | `waitUpTo()`, option readers, quoting, redaction | everything |
| Decorators and metadata (`lib/decorators`, `lib/metadata`), `parsePattern()`, `createReceiver()` | the patterns NestJS registers; `ignoredPatterns` | declare a handler, read it back, open its receiver | NestJS, `bindEvents()` |
| Context, module, errors, constants | none of their own | – | NestJS |

What makes each part correct:

* **Router**: a waiting request always has a listener that will route its
  replies; no receiver outlives its requests; a reply reaches its own request
  and is not taken for a stranger's; with reply sessions one receiver at a time
  asks for the session; the SDK is never aborted under a link; closings end.
* **Client**: `close()` leaves no call behind, closes no connection under a
  link, returns in time; a call made later gets a connection of its own.
* **Server life cycle**: a handler of this transport is bound or reported, one
  of another transport left alone; no receiver is forgotten; a message is settled with
  the receiver it came from, or left to its lock when `close()` cut its
  handler; nothing goes on after `close()`; `close()` ends.
* **Responses**: the client sees a gap-free prefix of the values with a
  truthful end; an old client gets one reply; the request is completed exactly
  when it was answered (or could not be).
* **Wire format and the whole exchange**: the caller gets the values the handler
  produced, in order, once each and as what they were, and completion only of a
  response that completed; a response that ended ends the call.
* **Time limits**: for every accepted option, nothing is cut before its time and
  no wait takes longer than documented.

The hazards, each at its line and with the properties that would notice it, are
in `PROJECT.json`.

## 2. Modules

| Module | Models | Granularity |
|---|---|---|
| `ReplyRouter` | the router, its SDK receivers, the replies in the broker | a piece of code between two awaits of something external |
| `ReplyStream` | one response: `sendReply()` and what it uses, and `close()` giving up on it | ticks, promise callbacks and SDK settlements |
| `Server` | `listen()`, messages and their settlement, `close()` | as the router |
| `Client` | connections, sends, overlapping `close()` calls, **composed with** `ReplyRouter` (`R == INSTANCE ReplyRouter WITH …`) | as the router |
| `Patterns` | handler declarations and what `bindEvents()` makes of each; **used by** `Server` | pure operators |
| `ReplyWire` | `toRequests()`, `getPublisher()`, `readReply()`, `deliverReply()`; **used by** `Exchange` | pure operators |
| `Exchange` | a request and its response from end to end, **composed with** `ReplyStream` (`S == INSTANCE ReplyStream`) | as `ReplyStream` on the server, a piece of code between two awaits on the client |
| `Response` | what `send()` promises its caller: the abstract specification that `Exchange` implements | values and outcomes |
| `Deadlines` | timer options, `waitUpTo()`, and the waits of both `close()` and of a request, with a clock | seconds |
| `ReplyRouterProofs`, `ReplyStreamProofs`, `ServerProofs`, `DeadlinesProofs` | theorems about the module of that name | – |
| `ExchangeProofs` | theorems about `Exchange`, the refinement of `Response` among them; **uses** `ReplyStreamProofs` (`R == INSTANCE …`) | – |
| `ClientProofs` | theorems about `Client`; **uses** `ReplyRouterProofs` (`P == INSTANCE … WITH …`) | – |
| `MCReplyRouter`, `MCServer`, `MCClient`, `MCExchange`, `MCDeadlines` | instances for TLC | – |

Definitions named in comments as *mutants* are wrong variants of the definition
that follows them. No specification uses them: they exist to show that each
property fails when the code has that error (`PROJECT.json`, "mutants").

### ReplyRouter

A listener is a number, in the order in which listeners are made; the maps
`listeners` and `closing` go from queues to listeners. A closing is named by its
listener, so `closing.get(replyTo) === closing` is an equality of numbers.
`opened` is how far the async function of `open()` is (`"previous"`: it waits
for the closing before it; `"accepting"`: for `acceptSession()`), `closeStep`
how far that of `closeListener()` is (`"opened"`, `"receiver"`,
`"subscription"`: what it waits for). `Join`/`Open` are `wait()`; `StopWaiting`
is the function it returns, whatever called it (end of the response, timeout,
unsubscription, failed send). `FailAll` is used by `Close`, `OpenFails`,
`SubscribeFails` and `ReceiveError`; the ids it remembers come in any order.
A reply goes `queued → completing/abandoning/deadLettering → …`; the settlement
may fail (it is then delivered again, up to `MaxDeliveryCount`) or succeed
without the client hearing of it (`"lost"`).

### ReplyStream

`batch` holds the replies of the current tick, `queue` the chain `publishing`,
`sent` what reached the reply queue. SDK settlements and the timer of `close()`
are macrotasks: they wait until no tick and no promise callback is left
(`Quiet`). Emissions of the Observable may come at any time. A send that fails
may nevertheless have reached the broker. `singleReply` is chosen in `Init`:
both kinds of client are in every run.

### Server

`phase` is where the handling of a delivery is; `from` the receiver that
delivered it, `settler` the one `processMessage` looked up, `context` the one
`handleMessage()` looked up after the deserializer. `startedIn` is the
generation read by `handleMessage()` (before the deserializer) or by
`handleEvent()` (after it). A response is reduced to whether it is followed,
whether a reply is being sent, whether one failed; `ReplyStream` has the rest. A
redelivery is another member of `Delivery`. `AsyncDeserializer` and `MayOverlap`
select the environment: a deserializer that returns promises, and an
application that calls `close()` before `listen()` is done. `declared` is how
the handler of each pattern was declared, chosen in `Init` from the constant
`Declarations` (functions from patterns to the declarations of `Patterns`):
`bindEvents()` skips, binds or fails by `Binding`. `ignoredPatterns` only
remembers what was logged, and is left out. `ListenFails` is every way in which
`listen()` ends in its `catch`: there is no client, some patterns are bound and
the next one is not, or all are and the callback throws.

### Client

Each call goes `connecting → sending → senderClosing → done`; between
`connecting` and `sending` a few promise callbacks pass, and `close()` may run
there. `close()` calls (`Closer`) do not share work: each settles sends, closes
the router, settles the receivers, settles sends again, takes `sbClient` and
closes it, at once or after what is stuck. Between the sends being settled and
what comes next a promise callback passes, and other code may run. The router's
actions are those of `ReplyRouter`, without replies. `CallsWhileClosing` selects
whether calls are made while a `close()` is in progress.

### ReplyWire and Exchange

`ReplyWire` knows a payload by what the code tells apart (`undefined`, `null`,
another falsy value, a value, an `Error`), a packet by its `err`, `response` and
`isDisposed`, and a property that is not there as `Absent`. JSON turns
`undefined` into `null`; a deserializer of the application may turn it back,
which is why `deliverReply()` has a case for it.

In `Exchange`, `wire` has the message of each reply that `ReplyStream` has in
`sent`. The broker delivers one at a time and in order (reply sessions);
`processMessage` completes it and then hands it to the chain `delivering`. A
failed completion is delivered again, a completion or an expiry can lose the
reply. `Turn` is whose deserializer runs. `RequestFails` includes the send that
`close()` cancelled and that arrives nevertheless; `CallFails` is the reply
timeout, a failed listener and the client's `close()`. A server before 1.2.0 is
chosen in `Init`, and answers once, by `messageId`. (It would not know the
sessions that keep the order: the combination allows more than can happen, and
an old server's only reply has no order to keep.)

`Response` has five variables that `Exchange` maps to: how many values there
are, whether the response is over, which values lost their message, what the
caller got, and its outcome. A falsy error (only a custom exception filter can
produce one) is sent as `"none"`, that is, as the end of the response: the
mapping (`ReadsAsCompleted`) says so.

### Deadlines

Each behaviour is the `close()` of a client, the `close()` of a server or the
wait for a reply (`side`), with one value of the option. `step` is which wait
the code is in, `awaited` what for, `timer` when its timer fires. Time advances
only while the code waits for a timer (`Woken` is false): JavaScript that can
run does. The second that cancelled work gets is the unit of time; `MaxTimer`
stands for 2^31-1 ms, and `SetTimeout` fires at once beyond it, as Node.js does.
`DocumentedLimit` repeats the option's meaning in the words of the interface's
documentation, independently of the code of the constructors.

## 3. Runs

| Run | Asks | Bounds |
|---|---|---|
| `router_sessions` | routing, no leaks, session exclusivity, order of aborts, `ClosingEnds`, `ReplyArrives` | 3 requests on a queue, 3 listeners (a chain of two closings, with a skipped opening in between), a reply to the second, 2 remembered ids |
| `router_shared` | `ReplyReachesItsRequest`, `LateReplyIsOwn` on queues shared with other clients (the routing of several queues is proved in 5) | 2 queues, 3 requests, a reply of this client's, a foreign and an invalid one; 1 remembered id so that eviction happens |
| `reply_stream` | order, truthful end, one reply for old clients, settlement, end of the response | 4 values: two ticks with two values each, and all splits between |
| `server_shutdown` | receivers, handlers bound or reported, settlement, quiet after `close()` | 3 patterns (one without auto-completion, one declared in each way `HybridApplications` lists), an event, a request and a request that is not allowed; 3 receivers, 2 closings, failed and repeated `listen()` |
| `server_slow_input` | replies when the deserializer outlasts `close()`, and `CloseEnds` | 1 pattern, an event and a request, 2 receivers, 2 closings |
| `client_close` | nothing left behind, no connection closed under a link | 2 requests, 2 overlapping `close()`, 2 listeners, 2 connections, sessions; symmetric requests and closers |
| `client_busy` | `CloseReturns` | a request and an event that overlap `close()` |
| `exchange` | `ImplementsResponse`, intact values, no reply forgotten, `CallIsAnswered` | 2 values (a batch, two batches, an end of its own or on the last value), 4 payloads that cover each kind of value, `null` included, the kinds of error that the code tells apart and both choices of the `messageId`, both versions of the server |
| `deadlines` | nothing cut early, back in time, comes back | every option value from 0 past `MaxTimer = 4`, with `Infinity`, unset and the invalid ones; 2 sends, each before or during `close()`, a stuck receiver, a handler, a reply |
| `client_late_send`, `server_late_event`, `server_overlap` | disagreements, see 4 | smallest instances that show them |

The interesting interleavings need few actors: two listeners to confuse, a
third behind a listener that was skipped, two closings so that something of the
first meets the second. Constants bound listeners, receivers, connections and
closings (`MaxListeners`, `MaxReceivers`, `MaxConnections`, `MaxCloses`): past
the bound no further one is made. Deadlock is not checked: all these systems may
stop when every call was made and every message handled.

Properties, besides one `TypeOK` per module (each includes a bound that is not a
type: remembered ids, a generation per closing, the current connection is not a
closed one):

* `WaitingIsListenedTo`, `ListenerInUse`, `ReplyReachesItsRequest`,
  `LateReplyIsOwn`, `SessionExclusive`, `ClosingIsRemembered`, `AbortsOnlyWithoutLink`,
  `ClosingEnds`, `ReplyArrives` (router);
* `GapFree`, `NoFalseEnd`, `OneReplyForOldClients`, `SettledAsAnswered`,
  `NothingStartsAfterCut`, `ResponseIsOver`, `ClientHearsTheEnd` (responses);
* `ReceiversAreKnown`, `HandlersAreServed`, `ClosedIsQuiet`,
  `SettledWhereReceived`, `CutIsLeftUnsettled`, `NotClosedUnderReplies`,
  `CloseEnds` (server);
* `WaitingIsConnected`, `NothingLeftBehind`, `NotClosedUnderLinks`,
  `CloseReturns` (client);
* `ImplementsResponse` (the refinement), `ValuesIntact`, `TakenIsAccountedFor`,
  `CallIsAnswered` (exchange);
* `NotCutEarly`, `BackInTime`, `ComesBack` (deadlines). `BackInTime` leaves out
  what the SDK takes to close receivers and connections: the code sets no limit
  to it.

### Fairness

* Router: the SDK's promises settle (each has an SDK time limit) and the broker
  delivers to an open receiver. Nothing is assumed of the requests.
* Responses: ticks and promise callbacks run (the event loop), sends settle.
  The Observable need not end.
* Server: the timers of `close()` fire, the SDK's closings settle, a `listen()`
  with nothing to wait for goes on. Nothing is assumed of handlers,
  deserializer, Observables and replies.
* Client: the timers and callbacks of `close()` run. Sends and closings of
  receivers may stay stuck for ever.
* Exchange: as responses, the broker delivers what is queued, and the
  deserializer settles. Completing a reply is strongly fair: it may fail and be
  delivered again, but only up to the max delivery count, after which the reply
  is gone (`LosesReply`). Neither the Observable nor the timeout of the caller
  is assumed to end anything.
* Deadlines: time passes, code runs when it is woken, and the SDK does stop a
  server's subscription (`close()` awaits it without a limit in the end). No
  send, receiver, handler, reply or response has to end.

## 4. Where the code and its documentation disagree

* **`client_late_send`**: a `send()` subscribed in the same tick as `close()`
  starts waiting after `close()` failed the waiting requests. It is sent, the
  connection is closed, and it waits on a dead receiver; the listener stays in
  the map, so later `send()` calls to that entity join it.
* **`server_late_event`**: `handleEvent()` reads the generation after the
  deserializer was awaited. When the deserializer outlasts `closeTimeoutInMs`,
  the event's Observable is followed after `close()` returned. For the same
  reason its context has no receiver, or that of a later `listen()`
  (`handleMessage()` looks it up at line 539).
* **`server_overlap`**: a `close()` in the same tick after `listen()` clears the
  map with the receivers that `listen()` opened meanwhile, without closing them.

The passing runs of the same properties exclude exactly these environments
(`CallsWhileClosing`, `AsyncDeserializer`, `MayOverlap`).

## 5. Proofs

Every safety invariant and every action property that a passing run checks is
proved, for every value of the constants, and so is the refinement
`ImplementsResponse`. Each inductive invariant was checked by TLC on the run of
its module first. Six modules hold the proofs; two of them rest on others:
`ExchangeProofs` instantiates `ReplyStreamProofs` (the response is one of
`ReplyStream`, step for step), `ClientProofs` instantiates `ReplyRouterProofs`
without replies (the client's router is a router, whatever the client does
around it: `ClientRouter`).

| Module | Theorem | States | Hypothesis |
|---|---|---|---|
| `ReplyRouterProofs` | `RouterInvariant` | `[]RouterInv` | |
| | `TypeCorrect` | `[]TypeOK` | |
| | `NoRequestStranded` | `[]WaitingIsListenedTo` | |
| | `NoReceiverLeaked` | `[]ListenerInUse` | |
| | `RepliesReachRequests` | `[]ReplyReachesItsRequest` | |
| | `LateRepliesAreKnown` | `[]LateReplyIsOwn` | |
| | `OneSessionReceiver` | `[]SessionExclusive` | |
| | `ClosingsRemembered` | `[]ClosingIsRemembered` | |
| | `NoAbortUnderLink` | `AbortsOnlyWithoutLink` | |
| `ReplyStreamProofs` | `StreamInvariant` | `[]StreamInv` | |
| | `StreamTypes` | `[]TypeOK` | |
| | `NoGap` | `[]GapFree` | |
| | `NoEarlyEnd` | `[]NoFalseEnd` | |
| | `OneReply` | `[]OneReplyForOldClients` | |
| | `RequestSettledAsAnswered` | `[]SettledAsAnswered` | |
| | `NothingAfterCut` | `NothingStartsAfterCut` | |
| `ExchangeProofs` | `ExchangeInvariant` | `[]ExchangeInv` | |
| | `ExchangeTypes` | `[]TypeOK` | |
| | `PayloadsArrive` | `[]ValuesIntact` | |
| | `NoReplyForgotten` | `[]TakenIsAccountedFor` | |
| | `ResponsePromised` | `ImplementsResponse` | |
| `ServerProofs` | `MessagesInvariant` | `[]MessagesInv` | |
| | `ServerTypes` | `[]TypeOK` | |
| | `CutIsLeft` | `CutIsLeftUnsettled` | |
| | `ClosingInvariant` | `[]ClosingInv` | `~MayOverlap` |
| | `NoReceiverForgotten` | `[]ReceiversAreKnown` | `~MayOverlap` |
| | `SettlesWhereReceived` | `[]SettledWhereReceived` | `~MayOverlap` |
| | `HandlersAreReceivedFor` | `[]HandlersAreServed` | `~MayOverlap` |
| | `ClosedAfterReplies` | `NotClosedUnderReplies` | `~MayOverlap` |
| | `QuietWhenClosed` | `[]ClosedIsQuiet` | `~MayOverlap`, `~AsyncDeserializer` |
| `ClientProofs` | `ClientTypes` | `[]TypeOK` | |
| | `ClientRouter` | `[]P!RouterInv` | |
| | `ClientInvariant` | `[]ClientInv` | `~CallsWhileClosing` |
| | `NobodyWaitsInVain` | `[]WaitingIsConnected` | `~CallsWhileClosing` |
| | `ClosedLeavesNothing` | `[]NothingLeftBehind` | `~CallsWhileClosing` |
| | `LinksFirst` | `NotClosedUnderLinks` | `~CallsWhileClosing` |
| `DeadlinesProofs` | `TimesKept` | `[]TimeInv` | |
| | `LimitsAreKept` | `[]TypeOK` | |
| | `BackByTheDeadline` | `[]BackInTime` | |
| | `NothingCutEarly` | `NotCutEarly` | |

A statement without a hypothesis holds of `Spec` of the module; the temporal
hypotheses of `Spec`, its fairness, are not used.

### Assumptions and hypotheses

Of the constants, the proofs use only what their modules assume by name:

* `RequestAssumption` (finitely many requests, each with a queue),
  `ReplyAssumption` (a server replies to the `replyTo` of the request; only
  servers that got a request know the session), `BoundsAssumption` (the limits
  are positive);
* `MaxValuesAssumption` and `PayloadAssumption` (a bound on the number of
  values, and the kinds of payload that the code tells apart);
* `ServerAssumption` (finitely many patterns and at least one: a server without
  handlers opens nothing);
* `ClientAssumption` (finitely many requests, each with a queue, none of them an
  event);
* `DeadlinesAssumption` (a timer can be as long as the second that cancelled
  work gets, and as the default of the option).

The hypotheses of some theorems are environments, and section 4 has for each the
run that shows what happens in the other one: `~MayOverlap` is
`close()` never being called while `listen()` runs, as NestJS does it
(`server_overlap`); `~AsyncDeserializer`, a deserializer that returns no promise
(`server_late_event`); `~CallsWhileClosing`, no call being made while a
`close()` is in progress (`client_late_send`). The passing runs have the same
values.

### The inductive invariants

**`RouterInv`** is the conjunction of

* `TypeOK`;
* `Routing`: the listener in use is open and made for its queue
  (`InUseIsOpen`), an open listener is in use and has waiters
  (`ListenerInUse`), one not made yet has no history (`NotMadeYet`), waiters
  wait for the queue of their listener (`WaitersWait`), and
  `WaitingIsListenedTo`. The two properties need each other: a request that
  joins relies on the listener in the map being open, one that stops relies on
  being known to exactly one listener;
* `Replies`: a reply exists only after its request was sent, and a held one has
  a listener; needed for `ReplyReachesItsRequest`;
* `Phases`: how far opening, receiver and closing can be together; needed to
  know that a settled closing left no receiver;
* with sessions, `SessionChain`: what a listener waits for (`previous`) and what
  the router remembers (`closing`) is the *latest* closing of the queue, and a
  listener that went past `previous` has all earlier ones over. Mutual exclusion
  follows although a listener waits for one other only: that one did not settle
  before those it waited for itself.

`LateRepliesAreKnown` adds `Remembers` to it: the remembered ids are of requests
that stopped waiting, each once, and one is forgotten only when there is no
room. So a late reply that `processMessage` does not recognise means that the
remembered ids and the forgotten one are more than `FinishedLimit`.

**`StreamInv`** reads `sent \o queue \o batch` as one response. `Proper` says
what belongs at a position of it: the value of that number, or an end that the
Observable really had and all of whose values came before. `SentIsProper`,
`QueueIsProper` and `BatchIsProper` say so of the three parts (the last of
`sent` may instead be the error for a reply that failed; the queue only counts
while it will still be sent), `NothingMissing` that the parts together hold
every value emitted so far. `GapFree` and `NoFalseEnd` only speak of `sent`, and are
not inductive without what stands behind it. `AtMostOne` is the same for an old
client. `Cuts`, `Turns` and `Calls` relate failure, stop and cancellation, the
turns of the chain, and where `sendReply()` is: `SettledAsAnswered` needs them,
since its answer is given at the end of a turn from flags set much earlier.

**`ExchangeInv`** has `StreamInv` (`OneResponse`; or the one reply of an old
server), and follows a reply on: each message in `wire` shows its
reply, whatever the deserializer makes of it (`WireIsSent`, by cases over the
kinds of payload, which is where JSON's `undefined` and falsy errors are);
what the caller got was taken, not lost, and is the same value, and what is still to be delivered is
in order (`InOrder`); while the caller waits, each reply that was taken is a
value it has, is lost, or comes after these (`NoneForgotten`, which is stronger
than `TakenIsAccountedFor`: it knows the order); only a reply in the queue is
being completed (`CompletesOne`).

*The refinement.* `Over`, `LostValues` and `GotValues` are the mapping. `Init`
maps to `Init`, and each step is shown to be one of `Response` or a stutter: a step of the
response that emits or ends is `Produce` (for an old server, in one step),
`LosesReply` of a value `Lose`, a delivery `Receive`, `Complete` or `Stop`
according to what its packet shows; everything between (ticks, sends, failures
of a send, completions, deserializers) stutters. The delivery is the difficult
one: that the caller has, or has lost, every earlier value is `NoneForgotten`
together with `SentIsProper`; that a completion is true is `WireIsSent`.

**`MessagesInv`** (types, `NotGivenUp`: a closing that still waits did not take
its generation; `Followed`: what is followed left its handler, what was cut is
settled, or its first reply is being sent) holds however `listen()` and
`close()` overlap. **`ClosingInv`** adds what needs them apart: while a
closing is in progress `listen()` can only wait for that one (`ListensAlone`);
an open receiver is in the map, and in the snapshot of the closing
(`OpenIsKnown`), and what is in the map is open, right for its pattern, and gone
after the closing (`MapIsRight`); both are needed for either, because
`bindEvents()` skips patterns that are in the map and `close()` clears it. A
handler that `close()` gave up on is in no later generation (`GivenUpIsOld`),
which is why nothing starts afterwards (`QuietAfterWait`); a reply still being
sent when `close()` went on is cancelled (`RepliesAreSettled`).

**`ClientInv`** has `RouterInv` of the client's router and says what each
`close()` achieved so far: sends are cancelled (`SendsAreSettled`), no listener
in use (`ListenersAreClosed`). Without calls made meanwhile, what one of several
overlapping `close()` achieved is not undone, and whoever takes the connection
knows all that goes on on it (`StuckIsWaitedFor`), because listeners in use only
receive on the current one (`ListensOnCurrent`) and no call is between its
connection and its send (`CallsAreConnected`).

**`TimeInv`** gives each step of a wait the latest time at which it can be
(`Bound`: the documented limit, if the wait is one that has it, and a second for
each wait of cancelled work before it): neither the clock nor a timer is past it
(`InTime`). `Awaits` says what the last timers were for; `OptionWasRead`, that
the limit the code uses is the documented one.

### Only model-checked

Liveness is out of the prover's reach: `ClosingEnds`, `ReplyArrives`,
`ResponseIsOver`, `ClientHearsTheEnd`, `CloseEnds`, `CloseReturns`,
`CallIsAnswered` and `ComesBack` are checked by TLC on the instances of section
3, as are the disagreements of section 4.

## 6. What is not modelled

* Logging, wording, quoting, redaction, `util.inspect` output and rate-limited
  warnings (`RateLimitedWarning`).
* `readDurationOption()`: its result only becomes the time to live of a reply,
  whose effect (an expired reply) is in `Exchange`. `readAllowedReplyTo()`: how
  the list is compared is string handling; a request of `Server` is allowed or
  not.
* The NestJS module: dependency injection, and a shutdown hook that is `close()`.
  Interfaces, errors and constants: declarations. The metadata that the
  decorators keep on the class: nothing in the library reads it.
* A request that is delivered again. When `close()` cuts a response whose first
  reply is not confirmed, the message is left to its lock and its handler runs
  again, so that a caller who still waits may see a first value twice. The
  documentation asks for idempotent handlers; `Exchange` has one delivery.
* Several messages in one `send()`: each is answered, and the replies of all
  reach the one call, whose Observable ends with the first end.
* A server before 1.2.0 together with a `messageId` of the application's own: it
  answers an id that no request has. Only the request id property of 1.2.0
  makes this combination work.
* Serializers, handlers, Observables, the SDK and the broker are environment:
  nondeterministic within what the headers of the modules assume of them.

## 7. Plan

1. *Done*: router, responses, server life cycle with handler declarations,
   client, wire format, end-to-end exchange with its abstract specification,
   time limits.
2. *Done*: theorems for every safety invariant and action property of the
   passing runs, and the step simulation of `Response` by `Exchange`.
3. An abstract specification of the reply session (one holder at a time, handed
   on in the order of the listeners) that `ReplyRouter` implements, with the step
   simulation proved.
4. The exchange of several requests over one router: `Exchange` with the
   listener of `ReplyRouter` in place of its single call, so that a reply of one
   call cannot be delivered to another whatever the deserializer does.
