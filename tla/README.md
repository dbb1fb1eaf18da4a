# DeviceAgent.iOS in TLA+

DeviceAgent is an XCTest bundle.  Its one test method starts an HTTP server and
keeps a run loop turning; clients send it gestures, queries, sessions and device
events, which it carries out with XCTest and testmanagerd.  This directory holds
TLA+ modules translated from its source, the configurations with which TLC checks
them on small instances, and proofs that TLAPS checks.

`PROJECT.json` lists the components, the runs, one mutation of the model for each
property that the property catches, the source lines of every definition, the
disagreements between code and documentation, the hazards and the theorems.

## 1. Inventory

| component | state it keeps | operations | what is hard |
|---|---|---|---|
| HTTP server and run loop (`CBXCUITestServer.m`, vendored CocoaHTTPServer, GCDAsyncSocket, RoutingHTTPServer) | listener, array of connections, sockets, three serial GCD queues, `isFinishedTesting` | start, accept, read, route, reply, close, `POST /shutdown`, stop | `dispatch_sync` edges between the queues, a delegate that changes during accept, disconnects that race stops |
| SpringBoard alerts (`SpringBoard.m`, `SpringBoardAlerts.m`, three routes) | the automatic/manual switch; the screen belongs to SpringBoard | `handleAlertsOrThrow`, dismiss one, dismiss all, set the mode | every XCUIElement is a query resolved again at each use while alerts come and go; a bounded retry loop |
| Application and session (`Application.m`, `SessionRoutes.m`, `CBXWaiter.m`) | `currentApplication` | `POST /session`, `DELETE /session`, `POST /terminate`, look-ups by `/query` | launches that are refused and tried again, terminations that time out, an application that comes back |
| Event synthesis (`Gesture.m`, `EnterText.m`, `ClearText.m`, `SetPickerWheelValue.m`, `DeviceEventRoutes.m`, `ThreadUtils.m`) | the events testmanagerd has not performed, `outerError`, the flag `runSync` polls | touch, `enter_text`, `clear_text`, picker wheels, home, volume | completions on another thread, requests that do not wait for their event, a caret and focus that move between two deletions |
| Gesture timelines (`Touch.m`, `DoubleTap.m`, `TwoFingerTap.m`, `Drag.m`, `Pinch.m`, `Rotate.m`, `Gesture+Options.m`, `TouchPath.m`) | the event being built, the clock of its current finger | refuse a request, build the paths of the fingers, send them | one running offset for all times of a path, last points, limits on fingers, durations and repetitions |
| Queries and specifiers (`QueryRoutes.m`, `Query/`) | the recipe a query consists of, the number of elements found, the snapshots taken so far | check the keys, sort the specifiers, apply them, count, take a snapshot of each element; `GET /tree` | an order that comes from a hash table; elements that are looked up again by their position while the screen changes |
| Key validation and JSON (`JSONKeyValidator.m`, `JSONUtils.m`) | none | refuse unknown and missing keys, saturate numbers | limits of floats |
| Alert dictionary (`SpringBoardAlerts.m`) | the entries loaded at start | map a locale to files, match titles | the chain of languages, regular expressions |
| Orientation (`CBXOrientation.m`, two routes) | the device's orientation | read, rotate | two enumerations with left and right exchanged |
| Test failure interception (`FBFailureProofTestCase.m`) | one flag, kept from request to request | swallow a failure or raise | a failure of one request decides what a later one makes of its own |
| Device information, health, testmanagerd accessors, logging, exceptions, XCTest additions | caches | read and format | nothing a model would show |
| Test application, stubs, cucumber, scripts, other vendored code | - | - | outside the agent |

How they interact: a client's request travels from a socket's queue to
connectionQueue, and by `dispatch_sync` to the main queue, where a route handler
runs it.  `/gesture`, `/query` and `/tree` begin with `handleAlertsOrThrow`.
Handlers look at applications with XCTest queries, and send events to
testmanagerd, whose completion blocks set `__block` variables from another
thread while the handler polls them in `ThreadUtils.runSync`.  A handler never
runs beside another one: the only concurrency is with the queues, with
testmanagerd and with the device.  The modules below follow that division: the
first is about the queues, with a handler as a black box; each of the others is
about what one kind of handler does while the rest of the device moves.

What makes each component correct:

* server: a response for each request in the order of the requests, no response
  without its handler, no connection that is open and forgotten, a shutdown that
  ends and that does not cut replies, no queue that waits for itself;
* alerts: a gesture is not sent into an alert, an alert nobody recognized is not
  touched, manual mode touches only what was asked for, and the loop ends without
  giving up on alerts it could have dismissed;
* session: "launched!" is said of an application that was launched, a failure
  after all the attempts, and a termination after all its time;
* events: success means performed, the first error ends a sequence of events,
  cleared text is empty, a picker wheel is set if it is there and no other is,
  every handler returns;
* queries: on a screen that keeps still, what is listed is what matches all the
  keys, in order, whatever order a hash table gives them; no element is listed
  twice or out of order unless something came up meanwhile, and no empty entry
  unless something went or a look failed; each deadlock exception has a failure
  before it that has led to no other;
* timelines: time runs forward along a path, taps are separate, the fingers of a
  gesture keep in step and apart, a drag passes the coordinates it was given and
  a rotation turns as far as it was asked, and building a gesture ends.

## 2. Modules and the code they model

### CBXCUITestServer

Parameters: the connections (`Conn`), the bound on requests (`MaxRequests`) and
the kinds of request (`Kinds`).  A kind is what the queues can tell apart: a handler that
returns by itself, one whose client closes, one whose response is larger than a
socket's buffer, one that waits for testmanagerd, `POST /shutdown`, and a request
that is refused before it is routed.

| variables | code |
|---|---|
| `serverQueue`, `connectionQueue`, `mainQueue` | the GCD queues; the head is the block being executed |
| `dispatched`, `mainBlock` | how far `dispatch_sync(routeQueue)` and the block on the main queue are |
| `connections`, `sock` | `HTTPServer.connections` and each connection's GCDAsyncSocket |
| `reading`, `writing`, `delivered` | the outstanding `readData` and `writeData`, what was handed to the delegate |
| `requests`, `taken`, `answered` | what a client sent, what a handler took up, what the client got back |
| `runner`, `isRunning`, `isFinishedTesting`, `timers` | the test method's run loop and the `dispatch_after` of `-stop` |

An action is a block of a queue, a step of a socket, or a step of the test
method.  Accepting is three actions (`doAccept`, `initWithAsyncSocket`,
`didAcceptNewSocket`) because the socket lives on its own queue between them and
may read end-of-file while its delegate is still the HTTPServer.  A stop is two
halves of `stop` with `stopServer` between them, because the main thread waits
for serverQueue.  Routing is `didReadData`, `handleRoute`, `returnFromRoute`,
`replyToHTTPRequest`, with `setToTrueWhenDone` inside a handler that spins in
`runSync`.  Reading a request header by header is one action, since the socket
hands the parts to one delegate in order.

### SerialService

What a client may rely on, without queues: one request is served at a time;
the requests of a connection are taken up in order, none twice, none before the
response to the one before it.  `ImplementsService` says that CBXCUITestServer
implements it, with `busy` the connection whose handler runs and `link` the state
of its socket; TLC checks it and `CBXCUITestServerRefinement` proves it.

### SpringBoard

Parameters: the alerts, their buttons, the dictionary (`Entry`), `MaxTries` (20
in the code) and `MaxShowing`.  `showing` is the screen with the alert in front
first.  A handler's step is one look at the screen or one touch
(`queryForAlert`, `alertMatchingTitle`, `findDismissButtonOnAlert`,
`defaultButton`, `resolve`, `tap`); between two steps `appear` and `vanish`
change the screen.  `button` is a query (a title or an index), not an object, and
is resolved on the alert that is in front when it is used.  `current` is the
loop of `handleAlertsOrThrow`: what it does with a result of `handleAlert`.
`still` and `obeyed` record what the device has done since the request came, so
that properties can say "if nothing interfered"; no step reads them.  Titles are
model values: which alerts are recognized is a parameter.

### Application

Parameters: the bundles, `MaxAttempts` (12 in the code) and `MaxPolls`.
`installed` and `running` are the device; `install`, `open` and `exit` change it
at any time.  `pc` says where the handler is: asking to terminate, polling
(`waitUntilTrue`), reading the state again (`reportState`), launching, looking at
the error, sleeping between attempts.  `terminated` is what follows a
termination, for a session and for the two routes that end applications.
`refused`, `launched`, `stopped` and `sessions` record what happened.

### TextGestures

Parameters: the fields, `MaxText`, the pickers (`Wheels`), the device buttons and
`MaxPending`.  `text`, `behind`, `focus` and `deleteKey` are the application:
lengths of texts, characters behind the caret, the focused field and the keyboard's
delete key.  `queue` is testmanagerd's; `synthesize` performs or refuses its
first event and has its completion called.  A completion runs on a thread of its own and
has two statements (`statement`): the first assigns the error, the second raises the flag
(`finishCompletion`), while the handler polls between them; `completion` is the one
that is between.  The completion of a button has no flag.  An event is `mine` while the
handler that sent it runs: the completion of any other event assigns a variable that
nobody reads again.  `runSync` sends and waits; `home` and `volume` do not.
`clearText`, `readValue`, `findDeleteKey`, `deleteCharacter` are the four moments
at which `clear_text` looks at the screen; `readValue` resolves the query of the first
responder again, and so reads whichever field has the focus by then, or raises.  `lessThan` is the comparison of an
unsigned count with a converted `int`.

### GestureEvents

Parameters: the requests clients send (`Request`), and the paths and the points of
a circle the runner has memory for (`MaxPaths`, `MaxPoints`).  A request is a gesture, its options split into numbers
and words, and what its specifiers say of a position.  Times are milliseconds,
distances points, angles quarters of a degree; the points of a rotation are pairs
of angle and radius around the center, since their sines would add nothing to what
is asked of them.  Degrees and angles are floats in the code, and what is added to or
subtracted from them is rounded to 24 bits (`float`, `ulp`): from 2^24 on, a
whole number less one may be the number itself.  Times are not rounded; the division that
gives the time between two points of a rotation rounds down.

`valid` is everything that refuses a request before an event is built, in
whichever class: the keys of the class (`optionalKeys`), the position, the limits
of `validate`, and the exceptions raised while points are made.  All of these are
`refused`; the status codes (200 with an error in the body, or 500) are not told
apart.  Then each turn of a loop of `cbxEventWithCoordinates:` is an action:
`touch` is one repetition, `beginDrag`, `dragToCoordinate` and `liftDrag` are the
loop over fingers and coordinates, `countDown` makes the points of a rotation as long as
there are degrees `left`, `beginRotation`, `rotate` and `liftRotation` are the loop over
these `count` points, `pinch` one of its two fingers; a
`doubleTap` and a `twoFingerTap` have no loop.  `steps` and `offset` are the path
and the clock of the finger at hand, `event` the paths that have been added.
`lessThan` compares the unsigned index of a touch with a signed count.  Drags
have one repetition, because the key that would ask for more is refused.
The code counts down once for each finger, with the same numbers; the model does it once.
`killed` is the end of a runner that has no memory for another path or point.
What becomes of the event is `synthesize`, in one step: waiting for testmanagerd is
TextGestures.

### Query

Parameters: the elements the application may show (`Element`), their order in the
hierarchy (`Place`), what each is inside of (`Ancestors`), the bodies clients send
and `MaxFailures`.  A body is a set of specifiers: a name, whether its value can be
understood, and the elements it matches.

| variables | code |
|---|---|
| `screen` | what XCTest would find, changed by `appear` and `vanish` at any time |
| `selectors` | the specifiers of `QueryConfiguration` that are still to be applied |
| `query` | the XCUIElementQuery: a function from screens to the elements selected |
| `count`, `results` | the elements of `allElementsBoundByIndex`, the snapshots taken |
| `didRegisterAXTestFailure` | the flag of `FBFailureProofTestCase` |

That a query is a recipe and not a set is the point of the module.
`applyToQuery` extends it and looks at nothing; `allElementsBoundByIndex` is one look, and
`elementSnapshot` another for each element, by its position on the screen of that
moment.  `IsNext` lets any specifier of the least priority be the next, which is all
that sorting the keys of a dictionary promises.  A request goes through
`receive`, `handleAlertsOrThrow`, `configWithJSON`, `cbxQueryForDescendantsOfAnyType`
(a look whose result is dropped), the specifiers, the count, the snapshots and
`respond`, or ends early in `tree`, an error or an exception.

A look at the screen `works`, or fails and is taken for one that `findsNothing`, or
`raises`: `enqueueFailure` is the test case's answer to a failure XCTest reports.  A
snapshot that cannot be refreshed raises if the flag is up, and takes it down; any
other failure puts it up.  `registerFailure` is a failure that changes nothing
else, or one in another handler.  `appeared`, `vanished` and `failed` record what has
happened since the request came, `failures` and `alarms` what ever happened; no step
reads them.

### MC modules

`MCServer` adds the symmetry of the connections; `MCAlerts` a dictionary with an
alert of three buttons, one that is denied, one whose buttons were renamed, and
one that is unknown; `MCApplication` two applications; `MCTextGestures` two fields
and pickers of two wheels, of none and of one; `MCGestureEvents` the requests: for each
gesture, every subset of its options with values at and beside each limit, and every
wrong position or key; `MCQuery` a keyboard with a row and a key in it, a button with the
key's label and a text field, and fourteen bodies: filters with and without an index,
descendants with and without filters, and bodies that are refused at each stage.

Definitions whose comment begins with "Fault:" are no part of a specification.
Each is an action with a plausible mistake (a dropped guard, a count that is off
by one, a reset that is missing), put in the place of the real one to see that
the property named in `PROJECT.json` notices.

## 3. Runs

Passing runs:

| run | asks | bounds | states, about |
|---|---|---|---|
| `server` | types, `PipelineOrder`, `HandlerServesTheHead`, `OpenSocketIsOwned`, `NobodyWaitsInVain`, `StopKeepsReplies` | 2 connections, 3 requests of 5 kinds, symmetric | 2.4 million |
| `server_live` | `EveryRequestSettles`, `ShutdownEnds`, `QueuedDisconnectsArrive`, `ImplementsService` | 2 connections, 2 requests of 3 kinds | 200 000 |
| `alerts` | types, `GestureIsUnblocked`, `ManualTouchIsAsked`, `StillAlertsAreKnown`, `MarksComeFirst`, `KnownAlertsAreCleared`, `HandlerReturns` | 4 alerts, 3 at a time, 4 tries | 266 000 |
| `session` | types, `ReplyTellsLaunch`, `FailureIsEarned`, `TerminationHadTime`, `RequestReturns` | 2 applications, 3 attempts, 2 polls | 12 000 |
| `text` | types, `SuccessMeansPerformed`, `StopsAtTheFirstError`, `ClearedIsEmpty`, `PickerIsSetIfThere`, `RequestReturns` | 1 field of 3 characters, 2 events nobody waits for, 3 pickers | 177 000 |
| `gestures` | types, `WellTimed`, `TapsAreApart`, `FingersMoveTogether`, `DragPassesThrough`, `RotationKeepsItsMeasure`, `GesturesEnd` | 3 repetitions, 5 fingers, 4 coordinates, up to 10 degrees or beyond 2^24; 20 paths, 12 points | 7 300 |
| `queries` | types, `QuietQueryIsExact`, `InOrderUnlessAppeared`, `NothingUnlessVanished`, `AlarmsArePaid` | 5 elements, 14 bodies, 2 failures | 630 000 |

Why these bounds are enough to see the interesting cases:

* server: with two connections, one handler can hold the main queue while the
  other connection is accepted, reads, is closed or is stopped; with three
  requests one connection can pipeline two while the other shuts the server
  down, or two can ask for a shutdown.  The live run has no symmetry, which TLC does not allow
  with liveness, and so one request less.  A gesture, a large reply and a
  shutdown are the kinds that wait for something; the other kinds differ from
  them by steps they do not take.
* alerts: `MaxShowing` is below `MaxTries` because `KnownAlertsAreCleared` is a
  promise about fewer alerts than tries; the code has 20 tries.  The unknown alert, the
  renamed one and two kinds of entry meet in every order, in front of each other
  or behind.
* session: three attempts have a first, a middle and a last one; two polls have
  one that is early and one that is last.
* text: three characters are a first, a middle and a last deletion; two pending
  events can be one of home and one of volume before the first event of a
  gesture.  One field is enough since a focus that is elsewhere is `NoField`;
  `text_home` has two.  Indices of pickers and wheels go from -2, the first that is
  taken for a large number, to 2, the first that is missing.
* gestures: a request does not depend on the one before it, so one at a time is
  all there is; three repetitions have a first, a second whose beginning depends
  on the first, and a third that depends on an offset advanced twice.  Twenty paths
  and twelve points are more than any of the requests that end and are not out of
  all proportion needs (12 paths, 10 points), so that no fault is noticed for the lack of memory only.
  Of two rotations beyond 2^24 degrees, one by 2^24 + 2 is the last that has an end, and is
  killed because it asks for 2^24 points; one by 2^24 + 4 is the first that has none.  That the latter never
  ends whatever memory there is, is the proof's part.  Drags go straight, turn a corner, and come back to where
  they were, with durations that are negative, zero and positive; rotations are of
  one, two and several increments, with and without a remainder.
* queries: five elements are three that contain each other and two beside them, so that
  one may go before, at or behind the position that is looked up next, with or
  without others inside of it.  Two failures are one that raises the flag and one that
  finds it up, in one request or in two.

Runs that show a disagreement, each with the one property that fails:

| run | the code is said to | what it does |
|---|---|---|
| `server_leak` | release a connection that has died (HTTPConnection.m:2656, HTTPServer.m:499) | a socket that closes before the connection is its delegate tells nobody; the connection stays in the array |
| `alerts_swap` | use a default button "only if we recognize this alert" (SpringBoard.m:195) | another alert may come in front after the title was read; the button is found and touched on that one |
| `text_home` | answer "Error touching home button" (DeviceEventRoutes.m:64) | the error is read before the event is performed |
| `gestures_touch` | make a touch a little longer than its duration, for long presses (Touch.m:67) | the second and later repetitions last as long as a pause |
| `queries_order` | AND the keys of a query (QuerySpecifier.h:76), in any order (QuerySpecifier.h:14) | a filter beside a `descendant_element` selects the parents or the descendants, as the hash table has it (QuerySpecifierByDescendantType.m:28) |

Further disagreements that the models show in their actions, without a run: the
two branches of the log of `-stop` are exchanged (CBXCUITestServer.m:118); the
counter of `handleAlertsOrThrow` decides even if its last call found no alert
(SpringBoard.m:103); a button that is gone is read as "no alert"
(SpringBoard.m:245); a touch that raises in `dismissAlertByTappingButtonWithTitle:`
is answered with status 500 and not with `DismissTouchFailed` (SpringBoard.m:272, SpringBoard.h:78); a
failed session speaks of one attempt more than were made (Application.m:81); the
result of a termination before a session is dropped (Application.m:183); a caret
that is not at the end leaves text behind a cleared field (ClearText.m:148);
`repetitions` is documented for drag and rotate and refused by both (Drag.h:14,
Rotate.h:24); a touch with the five fingers its message allows is refused
(Touch.m:44); a rotation ends one increment before the degrees it was asked
(Rotate.h:20), and one of no degrees raises an exception (Rotate.m:80); a
two-finger tap adds a pause to the time the fingers are down, so that durations
from 0.39 seconds pass the check for long presses and are one (TwoFingerTap.m:68);
a touch of negative repetitions never ends (Touch.m:81), nor does a rotation by more than
2^24 + 2 degrees, from whose float one cannot be subtracted (Rotate.m:84).  Each segment
of a drag takes `duration` seconds, and a hold adds `duration` to its own time: Drag.h:16 calls the
first a known bug and intends the entire gesture to take exactly `duration`, and Drag.m:24 says that
`duration` does not include the hold, which Drag.m:84 has it do.  `DragPassesThrough`
therefore says only that a drag takes the duration at least, and nothing of its
segments.  The way back from the halt takes 50 milliseconds (Drag.m:92), not the 100 of
Gesture+Options.h:47.  On the second repetition
a double tap lasts a pause too (DoubleTap.m:63), whatever its duration.  The application
that "launched app" is said of is current before its first launch is tried, and stays
current when all have failed (Application.h:16, Application.m:188); the error for a picker
or wheel that is missing is made and dropped, and the gesture succeeds
(Application.m:218, SetPickerWheelValue.m:60); a `query` string, commented "Support for
calabash query strings", is taken out of the body and nothing is put in its place
(QueryConfiguration.m:65); without a session `/query` answers an error and `/tree` an empty
entry.

Three more concern code that is not modelled: `orientationForString:` is documented to raise
for a string that is no orientation (CBXOrientation.h:40) and answers "unknown"
(CBXOrientation.m:140); the dictionary is said to follow the chain 'pt_PT', 'pt', 'en'
(SpringBoardAlerts.m:83) and never loads the last; and the warning that
`matchingType:identifier:` raises for a nil identifier (QuerySpecifierByType.m:13) is not
heeded where `descendant_element` passes nil.

Deadlock is checked in the runs of the alerts, the session, the text and the queries, where a
client can always send another request.  The server's runs do not check it: the
test method really ends, and clients may stop sending.  That no queue waits for
itself, nor for a block that is gone, is `NobodyWaitsInVain` there: as long as the run
loop turns and no handler waits for testmanagerd, something that is queued can run.  The runs of the gestures do
not check it either, since a runner that was killed stops.

## 4. Fairness

* Server: GCD runs the blocks that are queued (`ServerStep`, `ConnectionStep`,
  `MainStep`, `stopServer`, `stop`), sockets finish reads and writes that can
  finish, the test method's loop turns, a `dispatch_after` fires, and
  testmanagerd calls back (`DaemonFairness`).  All of them weak.  Clients are
  free: they need not connect, send, or stay.  `EveryRequestSettles` needs the
  daemon, because `runSync` has no timeout: without its answer one gesture holds
  the main queue and, through `dispatch_sync`, all connections for ever.
* Alerts and session: weak fairness of the handler's own next step, that is, the
  main thread runs.  SpringBoard, the device and clients owe nothing.  Every look
  and every launch has an outcome in the model, so the handler's step is never
  disabled by the device.
* Text: weak fairness of the handler, of `synthesize`, testmanagerd's next
  event, and of `finishCompletion`, the thread of a completion; the application owes
  nothing.  That testmanagerd answers is an assumption: `runSync` has no timeout, and
  a handler whose event is never answered does not return.
* Gestures: weak fairness of the handler, whose loops never wait, and of
  `synthesize`.  `GesturesEnd` says of the two requests that build for ever (`Endless`:
  a touch of negative repetitions, a rotation whose float stands still) that
  they end with the runner, nothing of them sent.  The same fairness of the handler is
  what fills the memory.
* Queries: none; each step of the handler is one look, and no property says that something
  must happen.

## 5. Proofs

For every value of the constants that satisfies the named assumption of the
module (`ServerAssumption`, `AlertAssumption`, `ApplicationAssumption`,
`TextAssumption`, `GestureAssumption`, `QueryAssumption`), which TLC evaluates on the runs,
every safety and action property of the passing runs is a theorem, and so are, under
hypotheses that are named below, the liveness properties of the handlers:

* **CBXCUITestServerProofs** proves types, `PipelineOrder`, `HandlerServesTheHead`,
  `OpenSocketIsOwned`, `NobodyWaitsInVain` and `StopKeepsReplies`.  None of them is inductive: that a
  response belongs to the request at hand depends on there being one of
  everything.  The invariant (`IInv`, in the component's module) says that a live
  connection has one turn: a block of connectionQueue that will act on it, or a
  read, or a write, never two (`OneTurn`); that this turn is about the current
  request (`TurnIsCurrent`, `ServedIsTaken`, `SocketIsCurrent`); that a
  connection does nothing before it is in the array (`AcceptIsPending`,
  `NewIsIdle`); and that a `dispatch_sync` and the block it waits for come
  together (`SyncIsPaired`).  Lemmas about what a queue holds after its head is
  taken and a block is appended carry most steps.  `StopKeepsReplies` follows
  because a stop queues behind the reply of a request that was taken up.
  `NobodyWaitsInVain` needs one part more, `SyncIsAnswerable`: the block a
  `dispatch_sync` waits for is still queued.  If connectionQueue waits, the main queue
  holds its route block; if the main queue waits, serverQueue holds its stop, and
  serverQueue waits for nobody (`SomethingCanRun`).
* **CBXCUITestServerRefinement** proves `ImplementsService`.  The header of the module lists
  which action of the server is which step of the service; every other action leaves what
  clients see as it is.  What makes an action the service's step is `IInv`: while a handler
  runs, the block at the head of connectionQueue, the route block of the main queue
  and the current request of the connection are the same (`ServingFacts`), so `Begin`
  and `End` frame one request, and `OneTurn` keeps an answer from coming twice.
* **SerialServiceProofs** proves that the abstract service never takes up a request
  ahead (`InStep`) and serves only what it owes a response (`BusyIsOwed`), if
  `NoConn` is no connection.  No run checks these two; TLC checks the service as
  what the server implements.
* **SpringBoardProofs** proves types, and with them that the counter is below its limit
  whenever the loop goes on; then `GestureIsUnblocked`, `StillAlertsAreKnown` and
  `MarksComeFirst` from the invariant that, while the screen has kept still, the
  alert in front is the one that was looked up, and the button was chosen among
  those its entry names if there is one.  These three assume `Labelled`: every
  recognized alert has at least one button.  Without it the code takes an alert
  without buttons for no alert, and lets a gesture go ahead under it.
  `ManualTouchIsAsked` needs no such assumption: only an automatic handler looks
  for alerts, and only a request that names a button asks for one (`TouchIsMeant`).
  `KnownAlertsAreCleared` assumes `Labelled` and `FewAlerts`: fewer alerts can show than there
  are tries.  In the loop, unless an unknown alert is in front, the tries made and the
  alerts left are together less than the screen has room for (`TriesArePaid`), because each
  try has taken one off and the call before the loop took the first.
* **ApplicationProofs** proves types, `FailureIsEarned`, `ReplyTellsLaunch` and
  `TerminationHadTime`.  The invariant ties the counter to what testmanagerd did:
  an attempt is counted when it is over, so in each state of the loop the number
  of refusals is the counter or one less (`AttemptsAreRefusals`), nothing was
  launched while terminating, and an application that is not running was seen
  stopped.
* **TextGesturesProofs** proves types, `SuccessMeansPerformed`, `StopsAtTheFirstError`,
  `ClearedIsEmpty` and `PickerIsSetIfThere`.  The invariant: the handler has at most one event out, none
  when it is not waiting, and the error of an earlier event is not overwritten
  (`OneIsOut`, `ErrorsAreKept`).  A completion is between its statements only while the
  handler waits for it, and by then the error it has assigned is that of its event (`Called`), so the
  flag tells of an error that is there to be read.  For `ClearedIsEmpty` it also says that, if
  nothing interfered, the text's length plus the deletions performed is what was
  read.  That a wheel is set if and only if it is there is a fact about the
  comparisons of an unsigned count with an index one too large (`CountsFindMissing`).
* **GestureEventsProofs** proves types, `WellTimed`, `TapsAreApart`, `FingersMoveTogether`,
  `DragPassesThrough` and `RotationKeepsItsMeasure`, for any requests and any number of
  fingers, coordinates and repetitions.  There are two invariants.  `IInv` is about
  the clock: an idle handler has built nothing (`IdleIsEmpty`), what is built was
  valid (`BuiltIsValid`), only drags and rotations have a path in the making
  (`PathIsDrawn`), the clock of touches and taps begins at the end of the first one
  (`FirstTouch`) and of a touch stays a pause ahead of all lifts (`TouchIsAhead`), and
  every other finger touches once (`FingersTouchOnce`).  `SInv` says of every
  finger, finished or in the making, which points it consists of: those of a drag are
  an initial part of a sequence that depends on the request, but for the shift of the
  finger (`DragIsDrawn`); those of a rotation lie on the circle at the increments the
  request asks for, and its last one is the last there is (`RotationIsDrawn`); how
  many degrees are left for the points counted is part of it (`CountsDown`).  The angles
  themselves are exact only if they are too small to be rounded (`Precise`).  The
  others have one point or two (`PinchIsDrawn`, `TapsAreDrawn`, `TouchIsDrawn`).
  Fingers then move together because the sequence is the same for all of them.
* **QueryProofs** proves types, `QuietQueryIsExact`, `InOrderUnlessAppeared`,
  `NothingUnlessVanished` and `AlarmsArePaid`, for any hierarchy and any bodies.  The
  invariant says on every screen, not only the current one, that the recipe selects what
  the specifiers applied so far ask for (`RecipeIsExact`), for which an index has to be
  the last of them (`IndexIsLast`).  A recipe without an index is `Monotone`: of more on the
  screen it selects more; one with an index is `Small` and has one position.  From this, while
  nothing appears, at most as many elements as there are results come up to the
  last result (`ListIsAhead`), so the next position lies behind it; and while nothing
  goes, every position that was counted is taken (`PositionsAreTaken`).  While
  nothing changes, each result is the element at its position (`ListIsExact`).  The flag is
  up only after a failure that no exception has used (`AlarmsLag`).  The lemmas about
  `Rank` hold for every finite set.

That handlers return is proved in two parts, in the same way for SpringBoard, Application,
TextGestures and GestureEvents.

* The work is bounded (`RequestsAreBounded`, `GesturesAreFinite`): `StepsLeft` counts the
  steps a handler may still take.  Each of its steps makes the count smaller, no step of
  anybody else changes it, and it is nothing when the handler is idle.  Neither fairness
  nor a hypothesis is needed.  For the alerts it counts the looks that are left of this pass
  and six for each try that is left; for a session three for each attempt, and the polls; for
  `clear_text` two for each character; for gestures it counts from the memory and not from
  the request, which may have no end: the paths that are left for a touch, the points that are left
  for a circle, and for each finger of a drag or rotation the most points of a path, the first touch
  and the lift (`PointsLeft`, `PathWork`, `WorkLeft`).  This takes the two invariants and one more:
  a finger draws no path twice, and a touch has a path for each of its fingers and repetitions
  (`Counted`).  The count holds of every request, those that build for ever too: what
  they come to is `killed`.
* Fairness takes the steps (`HandlersReturn`, `RequestsReturn`, `GesturesReturn`): whoever
  has n + 1 steps left comes to have n.  A `clear_text` that waits needs the same argument
  once more inside a step, for the queue in front of its event (`EventIsPending`, `Awakes`).

The second part has hypotheses.  `NeverStuck` says that what is due (the handler, or
testmanagerd while the handler waits for it) can take a step: the provers do not expand
ENABLED.  A run's own liveness property shows `NeverStuck` for its instance, since a
state without such a step would be a fair end of a behaviour.  The counts are
below `Reach`, 2^40: single steps are put together by doubling, forty times, because
induction over their number would need the set of the numbers for which a temporal formula
fails, which is no set in TLA+.  With the limits of the code (20 tries, 12 attempts, 100 polls) the counts
are below 150.  For gestures `MemoryIsShort` says that the memory holds fewer than 2^40 paths and a
third as many points, and that drags have no more coordinates.  `GesturesEnd` itself is then in two
parts.  A request that has an end and fits in the memory (`Fits`) is answered: it is never
killed (`NotKilled`), for which the degrees left are what has not been counted yet.  A
request that has no end is never complete (`NeverComplete`): one less than a float beyond 2^24 + 2
is rounded to a float beyond 2^24 + 2 (`FloatStays`), while up to there each step goes
down by one at least (`FloatGoesDown`); so the degrees never reach zero and, the work being
finite, the runner is killed.

Only model-checked: the liveness properties of the server, `EveryRequestSettles`, `ShutdownEnds`
and `QueuedDisconnectsArrive`, for which the steps of four queues, all connections and
all requests would have to be counted together; that what is due can take a step
(`NeverStuck`); and the properties of the runs that fail, which are no theorems.

## 6. What is abstracted and what is not modelled

* HTTP parsing, bodies, chunking, TLS, Bonjour, WebSocket upgrades and
  authentication: a request is valid or it is not.  A response either fits the
  socket's buffer or does not.
* Timeouts of sockets are among the reasons for `hangUp`; clocks are steps that
  may happen any time.  The shutdown delay may be over at once or late.
* Regular expressions and languages of the dictionary: a constant function.
* The predicates filters build: the set of elements each matches.  Negative indices, the
  fields of a snapshot, and what `/springboard-alert` answers (it reads the alert in front
  several times, as the handlers in SpringBoard do, and touches nothing).
* Launch arguments, environment, trees of elements and everything else a response only formats.
* Floats are rounded where a loop depends on them, in the degrees and angles of a rotation.
  Times are whole milliseconds: what a float loses of a sum of seconds is not modelled, nor are
  rotations by fractions of half a degree.
* `findDeleteKey` is one step, though the code asks for the key, its frame and its siblings one
  after the other; an exception XCTest raises in these looks is left out, as only
  `readValue` raises.  `findDismissButtonOnAlert` is one look too, without the look whether
  its button is still there (SpringBoard.m:191), and a request to dismiss an alert always names a button
  (GestureRoutes.m:40).
* `isRunning` of the server waits for serverQueue as `stopServer` does (CBXCUITestServer.m:104
  and 118).  The edge from the main queue to serverQueue is modelled once, in the stop.
* A refused HTTP request always closes its connection; of some that the code refuses (HTTPConnection.m:1768) it answers
  and keeps the connection.
* XCTest and testmanagerd are external: their actions are what the calls in
  `Application.m`, `SpringBoard.m`, `Gesture.m` and `ThreadUtils.m` rely on, plus
  failure at each call that can report or raise one.
* The data race on the flag of `runSync`, written by one thread and polled by
  another, is modelled as a write that the poll sees at some later turn.
* Not modelled: the alert dictionary, loaded once from the plists of a locale and never changed,
  is the parameter `Entry` of SpringBoard, and what is left of it is text and regular
  expressions; orientation is a table of names and one assignment to XCUIDevice without a
  state of its own; of key validation, what a query and a gesture refuse is in their
  modules, and the rest, with JSON conversion, is copying and rounding; device
  information, health, testmanagerd's accessors, logging, exceptions and the XCTest
  additions keep no state a model would show anything about.  The other components with that status
  in `PROJECT.json` are outside the agent.

## 7. Plan

1. Done: the server with its abstract service, alerts, sessions, event
   synthesis, gesture timelines, and queries with the interception of failures; proofs of all
   safety and action properties, of the refinement, and that handlers return.
2. Possible: a composition in which the handler of SerialService is the alert loop or
   the session, for what a request that waits does to the others.  `EveryRequestSettles` says
   already that the others wait no longer than it does.
3. Possible: the chain of languages of the alert dictionary as an operator over sets of files,
   compared with the chain its comment promises.

## 8. Running

`tlc -config MCServer.cfg MCServer` and likewise for the other pairs named in
`PROJECT.json`; `tlapm CBXCUITestServerProofs.tla` and likewise for the other
modules whose name ends in Proofs or Refinement.  The longest run takes about a minute, the
longest proof a few minutes.
