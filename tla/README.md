# Verification of niri-pypc

TLA+ models of niri-pypc, a Python client of the niri compositor's IPC, with the
TLC runs that check them on small instances and the TLAPS proofs that hold for
every instance. Paths below are relative to the repository's root unless they
start with `src/niri_pypc/`, which is the library itself.

## The system

The library talks newline-delimited JSON over a Unix socket, on one asyncio event
loop. There is no thread: what runs concurrently are tasks, and a task loses
control only where an `await` really suspends.

| component | state | operations | what makes it hard |
|---|---|---|---|
| `UnixConnection` (`transport/connection.py`) | `_closed`; the socket behind the writer | `connect`, `write_frame`, `read_frame`, `close` | `_closed` and the socket part ways on errors; `drain` and `wait_closed` wait for the peer |
| `LifecycleManager` (`api/lifecycle.py`) | `_state`, a lock | `transition_to` | shared by connect, reader and close |
| `NiriEventStream` (`api/event_stream.py`) | lifecycle, connection, bounded queue, terminal cause and event, reader task | `connect`, `next`, `close`, the reader | four kinds of tasks on one queue; overflow; cancellation at every `await`; a terminal item in the same queue as the events |
| `NiriClient` (`api/client.py`) | `_socket_path`, `_closed` | `request`, `close` | concurrent calls, timeouts, cancellation, close with calls in flight |
| `NiriConnectionBundle` (`api/bundle.py`) | client, stream, `_closed` | `open`, `close` | one part failing or being cancelled |
| `NiriConfig` (`config.py`) | frozen fields | `resolve_socket_path` | the environment changes under it |
| codec and base types (`types/codec.py`, `types/base.py`) | none | encode and decode externally tagged enums | unknown variants, unit variants as bare strings |
| generated types, action builders, errors | none | declarations | the tables of variants; otherwise no control flow |
| nested compositor harness and its fixture (`tests/helpers/nested_niri.py`, `tests/conftest.py`), demo (`demo/visual_demo.py`) | compositor process, directory, socket, lock file, circuit breaker | start, probe, stop | a failure at each step; several programs on one desktop |
| generation pipeline (`tools/*.py`) | the schema, the IR, the generated files | normalise, generate, verify | type strings taken apart; runs that stop half-way, edited files |

How they interact: `request()` opens a connection of its own, writes, reads and
closes it. `connect()` of the stream opens one connection, shakes hands on it and
hands it to the reader task, which fills an `asyncio.Queue` that `next()` empties.
The reader, when it fails, and `close()` both tear the stream down: they move the
lifecycle, close the connection, set the terminal event and put a terminal item
into the queue. The bundle calls both.

What makes each correct: events reach the consumer in wire order, only the
documented ones are lost, nothing follows the end, a failure is seen and is not
taken for a clean end, no task waits for ever, a closed stream is really at rest,
each socket is let go, every request settles, a frame is refused only for its
size, a value keeps its meaning through the codec, what the generator check
accepts is complete and consistent, and a visible compositor runs under its lock.
The hazards behind these, with their lines, are in `PROJECT.json`.

## The modules

| module | models |
|---|---|
| `Lifecycle` | the lifecycle states, the transition table and `transition_to` as operators |
| `UnixConnection` | a connection as a value, its failures and what each leaves behind, `close()` |
| `EventStream` | `NiriEventStream`: constants, state, one action per code segment, fairness |
| `EventSubscription` | the abstract specification: a bounded, lossy, ordered subscription |
| `EventStreamProperties` | the properties of the stream, its inductive invariants and the refinement mapping |
| `NiriClient` | concurrent `request()` calls, `close()`, and their properties |
| `ConnectionBundle` | `NiriConnectionBundle`: extends `EventStream` with the client's flag and the bundle's, and the members closed on their own |
| `FrameReader` | `read_frame` over a byte stream that arrives in chunks, with its two size limits |
| `Codec` | the externally tagged enums: decode, encode, and what callers make of the result |
| `CodecExchange` | one value through decode, its caller, encode and decode again, with the properties of the codec |
| `SchemaTypes` | types on their way from the JSON schema to the IR to Python annotations and imports |
| `SchemaGrowth` | schemas grown by nesting, beside the types they are exported for, with the properties of the translation |
| `VariantShapes` | how `classify_variants` tells the kind of a variant from its JSON, and what the exporter writes for it |
| `TypePipeline` | the classes and imports of each generated file; export, normalise, generate, verify |
| `NestedSessions` | pytest sessions and demos that run nested compositors: lock, start, circuit, stop |
| `EventStreamProofs`, `ConnectionBundleProofs`, `NiriClientProofs`, `FrameReaderProofs`, `CodecProofs`, `SchemaTypesProofs`, `TypePipelineProofs`, `NestedSessionsProofs` | the theorems |
| `MCEventStream`, `MCNiriClient`, `MCConnectionBundle`, `MCFrameReader`, `MCCodec`, `MCTypePipeline`, `MCNestedSessions` | the modules TLC runs (the types are run as they are); those of the codec and the pipeline also hold the inputs |

Definitions marked `\* Mutant:` are altered copies of the definition that follows;
they are used to see that each property notices a plausible slip in the code.

### What an action is

In the library's modules an action is the code a task runs between two points
where it really suspends. `transition_to` takes an `asyncio.Lock` that is never held
across a suspension, so it never suspends; `put_nowait`, `get_nowait` and the flag
tests do not either. The suspensions are `open_unix_connection`, `drain`,
`readuntil`, `wait_closed`, `queue.get` and the await of the reader task.

A connection (`UnixConnection`) is its flag, its socket and one piece of history:
`poisoned` says that a failed read has set `_closed` and left the writer alone. A `close()`
sets the same flag, so without it a socket that a failed read left could not be told from one
that a `close()` forgot.

`EventStream`, state by state:

* `lifecycle`, `connRef`, `terminalCause`, `terminalEvent` are the fields of the
  same names; `conn` is the connection.
* `connector`, `reader`, `closer[k]` say at which `await` each task is. The reader
  can be `scheduled` (created, not yet run), `reading`, `closing` (in `wait_closed`
  of its finally clause), `unwinding` (cancelled in `read_frame`: the finally clause
  is still to run) or `aborting` (cancelled before its first step or inside the
  finally clause: no line of it runs any more).
* `items`, `waiters`, `woken` are the `asyncio.Queue`: its items, the parked
  getters, and the getters that a put has woken and that have not run yet. A woken
  getter looks at the queue again and may have to park again behind the others.
* `outcome[c]` is what the last `next()` of a consumer returned or raised.
* `received`, `taken`, `dropped`, `discarded` are history: events accepted, items
  obtained, events evicted with the overflow warning, events evicted by
  `_enqueue_terminal`. No guard but the bound on `received` reads them.

Events are numbered in wire order and carry nothing else. The compositor may send,
send something that does not decode, or go away in every way `read_frame` knows.
A timeout and a cancellation of `next()` leave the same state and are one action,
`NextAbandoned`, enabled as long as the call waits.

`NiriClient` has one record of state per call: `pc`, the path it connects to, its
connection, its outcome and `backlog`, how much of the request the transport still
holds. `drain()` suspends on a high backlog, a closing socket is released once the
backlog is gone, and only the compositor reduces it.

`ConnectionBundle` reuses every action of the stream: a closer is a task in `close()`
of the bundle, which sets `_closed`, closes the client and enters `close()` of the
stream without a suspension in between. The bundle also hands out its members:
`BundleClosers` are the closers that call `close()` of the bundle, the other closers call
`bundle.events.close()`, and `ClientClosedAlone` is `bundle.client.close()`. Of the client only
`_closed` matters, as its `close()` does not suspend.

`FrameReader` knows a frame by its length. `whole` and `part` are the buffer of the
`StreamReader`: the lengths of the complete frames in it and the bytes of one whose
delimiter has not come. A chunk is whatever arrives between two reads. A read that
is cancelled changes nothing and has no action. `results` keeps how every read ended, in
order, so that a read can be compared with the ones before it.

`Codec` has values, not state. A JSON value is the path of its single-key objects and
what is at the end of it; `decode_externally_tagged` calls itself through pydantic
for an enum inside an enum. Enums nest two deep in the protocol
(`NestingAssumption`), so `Decode` is given what the inner enum decodes to, and
`DecodeRoot` gives it that. `CodecExchange` moves any value of JSON through decode, the
caller, encode and decode again; `MCCodec` has the frames of the run. A key called
`root` is an error even for events, because `_decode_root` takes it for a direct
construction; what is said about unknown events is said of other names.

`SchemaTypes` keeps a type string as its tokens, so that slicing it (`[7:-1]`) and
splitting it at commas are operations on sequences, and go wrong where the code goes
wrong; a reference `ref:Name` is one token, the name. `canonical_type`,
`ir_type_to_python` and `_extract_refs_from_type` call themselves for what is inside,
and are written as one level (`CanonicalType`, `PythonOf`, `RefsOf`) that takes the
results of these calls as a function; `ToPython` and `RefsIn` are the recursive
functions that result. `SchemaGrowth` builds a schema step by step the way the exporter
nests options, lists, maps and tuples, next to the annotation it stands for. A schema
only ever wraps what was translated before (`Translated`), so `ir` is `canonical_type` of
the schema at every step.

`VariantShapes` keeps a declared variant (its name, kind, fields and the names in its type)
beside the JSON the exporter writes for it: which keys it has, its `type`, and what is below
them. A payload may pass several of the tests of `classify_variants`: an inline struct has
`properties` and a `type`, a map has the `type` of an object. `ClassifyPayload` takes the tests
in the order of the code, the last branch included. `Exported` says which JSON goes with which
declaration, so that a test in the wrong place, or without its guard, gives a variant that is
not the declared one.

`TypePipeline` numbers the published schemas. Normalising and generating are
functions of the schema (`Types`, `Classes`, `Imports`), so the IR and a file are known
by the number of the schema they come from and by whether the file was edited. Files
are written one at a time; a run may stop between two or inside one. `Touched`
bounds which file is edited, deleted or cut short: all files are treated alike.

`NestedSessions` is about operating-system processes. A session is a pytest run or a
demo, and one step is what it does between two awaits. Of a compositor it keeps the
process, the socket file, whether stderr holds a known message, helper processes, the
directory and the last signal its group was sent. A compositor may exit at any time and its
helpers need not end with it. `_terminate_process_tree` does not happen at once: the compositor and its
helpers go on while it waits. It sends SIGTERM to the group if the compositor still runs
(`SendsTerm`), waits for the compositor alone, and kills the group only if that wait timed out
(`SendsKill`). `start()` and `stop()` go on from there (`StartAbandoned`, `Stopped`). `left` and `broken` are history:
what the last compositor of a session left behind, after what and after which signal, and
whether a start failed with a known message.

### What is left out

* The order in which the loop runs tasks that are ready. The models let it run
  them in any order, so what holds does not depend on it. One property does need
  something instead: with a queue smaller than the number of closers plus one,
  `close()` items alone could evict the error item before its consumer runs, and
  `TerminalReportsAgree` is checked at a capacity above that.
* `next()` before `connect()` has returned (`InternalError`): the object is not
  available to callers then. `next(timeout=0)` cannot get an item and changes nothing.
* Cancellation of the reader by anything but `close()`, as at the shutdown of the
  loop.
* The stream's socket is released without waiting for the compositor: the only
  thing the stream ever writes is the short handshake.
* The fields of structs: a payload is accepted by its model or it is not.
* Reserved field names and class names that start with a digit in the generator
  (the exported schema has neither), and the layout of the files.
* Which of several sockets a headless start takes.
* `_terminate_process_tree` without a process group (`nested_niri.py:348`, `:362`): the
  compositor gets one of its own, which is there until somebody waits for it. A directory
  that cannot be removed is left out too.

## The runs

| run | instance | checks |
|---|---|---|
| `stream_drop_oldest` | 2 consumers, 2 closers (one cancellable), capacity 2, 3 events, DROP_OLDEST | `TypeOK`, `NoLostWakeup`, `ClosedIsQuiescent`, `TerminalLast`, `WireOrder`, `KeepsNewest`, `OnlyPoisonedSocketsLeak`, `ImplementsSubscription` |
| `stream_fail_fast` | 1 consumer, 2 closers, capacity 3, 4 events, FAIL_FAST, fair | `GaplessWhileOpen`, `FailureStaysObservable`, `NobodyParkedAfterTerminal`, `TerminalReportsAgree`, `CloseReturns`, `ParkedNextSettles`, `ClosingEnds` |
| `client_calls` | 2 calls, 2 paths, fair, a compositor that reads | `OnlyFailedReadsLeak`, `RequestSettles` |
| `bundle_open_close` | 1 consumer, 2 closers of the bundle (one cancellable) and one of its stream, the client closed at any time, capacity 1, 2 events, fair | `UncancelledCloseCloses`, `EventsCloseRepairs`, `BundleCloseReturns` |
| `frame_limits` | `max_frame_size` 3, default limit 2, frames up to 6 bytes, 3 frames, 3 reads | `LimitsAgree`, `FramesInOrder`, `PoisonIsFinal` |
| `codec_round_trip` | every variant of every enum but most actions, unknown ones, every shape of payload | `RoundTrip`, `EncodedIsCanonical`, `OnlyModelsRejectBare`, `CanonicalIsFixed`, `UnknownEventsSurvive` |
| `types_translation` | types nested four deep, tuples of one and two, a primitive and a name beside a type | `FlatTypesSurvive`, `ImportsMatchUses` |
| `pipeline_workflow` | 3 schemas that reach every branch of `classify_variants`, one file that is touched | `GeneratedIsClosed`, `NothingDropped`, `AdviceWorksButForStrays` |
| `sessions_visible_tests` | 2 pytest sessions with visible tests, one of which keeps artifacts, 2 starts each, fair | `LockedWhileVisible`, `CleanedUp`, `NoRelaunchAfterSignature`, `StartSettles` |
| `sessions_demo` | a demo and a headless session that keeps artifacts, 1 start each, fair | `DemoEnds` |
| `stream_silent_drop` | capacity 1, 1 event | `OnlyWarnedDrops` fails |
| `client_leaks` | 1 call | `RequestReleasesSocket` fails |

Why the bounds are enough for what they are meant for:

* **Stream.** More events than places overflow the queue, so evictions, the overflow
  of FAIL_FAST and terminal items that meet a full queue all happen; two consumers
  are what it takes for one to steal an item from another that was woken for it; two
  closers are what it takes for one to find the other anywhere in `close()`.
  `MaxEvents` is the only bound on the behaviour: everything else is finite by
  itself, since a consumer that calls `next()` again is in a state it has been in.
* **Bundle.** One closer that can be cancelled and one that cannot are what it takes for a
  second `close()` to find the first one's half-closed stream; the third meets both inside
  `close()` of the stream.
* **Client.** The calls share nothing but `_closed` and the path.
* **Frames.** The limit of the `StreamReader` is `max_frame_size + 1` here, and lengths
  reach well past both limits. That a default limit that is the larger one changes
  nothing is part of the theorem.
* **Codec.** Enums nest two deep in the protocol, and every variant is there but for the
  actions, which are structs alike and of which one of each shape stands for all.
* **Types.** Each constructor occurs above each other one, with another above and
  below. That longer tuples and deeper types change nothing is part of the theorems.
* **Pipeline.** Three schemas give a file of an older generation a newer and an older
  companion. Between them the schemas hold a variant for each way through
  `classify_variants`, the three that lose something included.
* **Sessions.** Two sessions contend for one lock; two starts let the second see what
  the first left behind.

No run of the library checks for deadlock: a stream that is closed, and a client
whose calls are over, may rest for ever, and so may sessions that have ended,
a value that has been through the codec and a type that has grown to the bound. That nothing stops too early is what the
liveness properties are for. The pipeline never stops, and its run checks
that; the frame reader is stopped by the bounds of its own run.

### What the failing runs show

1. **A silent drop** (`event_stream.py:113`). The terminal item evicts an event of a
   full queue without the warning that the overflow policy promises.
2. **A failed request leaks its socket** (`client.py:122`). A failed read sets `_closed`
   and leaves the writer open; the `close()` that should clean up returns at its first
   test.

### Where passing properties stop short of the documents

Several properties carry an exception. Each exception is a place where the models,
following the code, do something else than a document or a docstring says:

* `OnlyPoisonedSocketsLeak` exempts the poisoned connection, and `OnlyFailedReadsLeak` that of a
  request: those on which a read timed out, met the end of the stream or overran. A
  handshake that fails in `read_frame` (`event_stream.py:78`) leaks its socket for the same
  reason as a request. The first says nothing of a *cancelled* `connect()`: `except Exception` (`event_stream.py:77`)
  does not catch `CancelledError`, so the stream stays CONNECTING with an open socket
  and there is no object to call `close()` on.
* `NobodyParkedAfterTerminal` and `ParkedNextSettles` are about one consumer. A reader
  that fails puts one error item (`event_stream.py:142`, `:200`); of two calls of `next()`
  in flight the second stays parked in `get()` of a CLOSED stream. The concept
  document restricts a stream to one consumer; the code does not enforce it and
  `tests/api/test_event_stream.py:327` runs two.
* `UncancelledCloseCloses` exempts a cancelled close. `close()` of the bundle sets `_closed`
  first (`bundle.py:54`), so when it is cancelled in `events.close()` the stream may stay
  CLOSING and the next `close()` of the bundle returns at once. What still closes the stream is
  `bundle.events.close()`: that is `EventsCloseRepairs`. Nothing is stated about a part that is
  closed, or ends, on its own: the other stays open, as `tests/api/test_bundle.py:86` expects.
* `RequestSettles` assumes a compositor that reads. `request_timeout` covers the read, not
  `drain()` or `wait_closed()` (`connection.py:79`, `:175`).
* `close()` of the client does not affect calls in flight: a reply may be returned after
  it (`client.py:97`), and the path is resolved once, not per request (`client.py:52`,
  against `README.md:116`). No property is stated about either.
* `RoundTrip` exempts one event: the bare string `"root"` is decoded to an `UnknownEvent`
  like any other unknown name, but the object it is encoded as, `{"root": "root"}`, is
  refused (`base.py:51`).
* `OnlyModelsRejectBare` tells which replies reach the caller as pydantic's
  `ValidationError` and not as a `NiriError` (`client.py:119`). `UnknownEventsSurvive` is about
  events: an unknown *response* is a `DecodeError` (`reply.py:90`), though the concept
  document asks for a sentinel there too.
* `FlatTypesSurvive` and `ImportsMatchUses` exempt a comma inside a tuple element, where the
  generator cuts the element in two (`generate_types.py:87`). The present schema has none.
* `NothingDropped` exempts three declarations that `classify_variants` has no branch for: units
  without comments, which the exporter writes as one `enum` entry (`normalize_ir.py:159`), and
  values exported without `$ref`, `anyOf` and `type`, or as a map of anything, which become
  empty structs (`normalize_ir.py:236`, `:218`). The present schema has none.
* `NothingDropped` and `GeneratedIsClosed` speak of the schema that the IR was made from. A check
  that passes says nothing about the exported one, which it never reads
  (`verify_generated.py:35`).
* `AdviceWorksButForStrays`: the generator removes nothing, so a file that should not be
  there survives the commands the check recommends (`verify_generated.py:97`).
* `LockedWhileVisible` is about the lock of the session's own kind. The demo and the tests
  lock different files (`visual_demo.py:62`, `conftest.py:196`) and can both run, although
  `README.md:310` speaks of a lock that prevents concurrent visible nested runs. Nor does it
  cover a compositor that the session no longer knows of (see `CleanedUp`).
* `NoRelaunchAfterSignature` covers failures with a known message while no socket has
  appeared; any other death of the compositor does not open the circuit
  (`nested_niri.py:221`).
* `CleanedUp` is about starts that time out waiting for the socket, and stops. Those leave no
  compositor, but they leave the helpers of one that ended by itself or on SIGTERM, as only its
  own process is polled and waited for (`nested_niri.py:341`, `:352`). A start that fails in the
  readiness probe, or is interrupted, leaves everything (`nested_niri.py:235`).

## Fairness

`Fairness` of the stream is weak fairness of each step that the event loop runs by
itself: the reader's start, unwinding, abort and the end of its `wait_closed`, a
woken `get()`, a `close()` whose awaited reader or socket is done, and
`connection_lost`. A ready task stays ready until it runs and the loop's ready
queue is FIFO, so weak fairness is what asyncio gives. Nothing obliges the
compositor to send or to fail, a consumer to call `next()`, a timeout of `next()` to
expire (it has none by default) or anybody to call `close()`. `BundleFairness` is the
part of it that `close()` of the bundle needs.

`LoopFairness` of the client adds the two timers the code sets, around the
connection and around the read. `ResponsiveSpec` adds that the compositor goes on
reading; without it a request can wait for ever (see above).

`SessionsSpec` has weak fairness of the steps of each session: every wait of the
harness has a timeout, the calls of the demo end by the timeouts of the client, and
a demo has a duration or a user who stops it. It obliges no compositor to listen,
answer or die.

The framing, the codec, the types and the pipeline state safety only.

## The proofs

`tlapm` proves the theorems below from the named assumptions of the modules:
any finite set of consumers, any set of closers, any capacity above zero, both modes
and any `MaxEvents` (`EventStream`); any calls and a non-empty set of paths
(`NiriClient`); any positive frame limit and any default (`FrameReader`); any values of
JSON, each for an enum that is decoded at the top level (`CodecExchange`); any names
apart from the tokens of the notation, any depth and tuples of any length
(`SchemaGrowth`); any non-empty sequence of schemas and any files that are touched
(`TypePipeline`); any sessions and any bound on starts (`NestedSessions`). Hypotheses
beyond these are in the last column.

| module | theorem | states | supposing |
|---|---|---|---|
| `EventStreamProofs` | `TypeCorrect` | `Spec => []TypeOK`: in particular the queue never exceeds its capacity | |
| | `WakeupsKept` | `Spec => []NoLostWakeup` | |
| | `ClosedMeansQuiescent` | `Spec => []ClosedIsQuiescent` | |
| | `UnpoisonedSocketsGo` | `Spec => []OnlyPoisonedSocketsLeak` | |
| | `NothingAfterTheEnd` | `Spec => []TerminalLast` | |
| | `OrderPreserved` | `Spec => []WireOrder` | |
| | `FailureNotLost` | `Spec => []FailureStaysObservable` | |
| | `NoGapWhileOpen` | `Spec => []GaplessWhileOpen` | |
| | `NewestKept` | `Spec => []KeepsNewest` | |
| | `StreamImplementsSubscription` | `Spec => ImplementsSubscription` | |
| | `TerminalUnparks` | `Spec => []NobodyParkedAfterTerminal` | one consumer |
| | `ReportsAgree` | `Spec => []TerminalReportsAgree` | one consumer, fewer closers than `Capacity` |
| `ConnectionBundleProofs` | `BundleRunsStream` | `BundleSpec => Spec` | |
| | `ReturnedUncancelledCloses`, `EventsCloseAlwaysRepairs` | `BundleSpec => []` of `UncancelledCloseCloses`, `EventsCloseRepairs` | |
| `NiriClientProofs` | `ClientTypeCorrect`, `OnlyReadsLeak` | `Spec => []TypeOK`, `Spec => []OnlyFailedReadsLeak` | |
| `FrameReaderProofs` | `FrameTypeCorrect`, `FrameLimitsAgree`, `FrameIntegrity`, `NothingAfterPoison` | `FrameSpec => []` of `FrameTypeOK`, `LimitsAgree`, `FramesInOrder`, `PoisonIsFinal` | |
| `CodecProofs` | `CodecRoundTrip`, `WritesCanonical`, `BareErrorsAreOfModels` | `CodecSpec => []` of `RoundTrip`, `EncodedIsCanonical`, `OnlyModelsRejectBare` | |
| | `CanonicalFixed`, `UnknownEventsReturned` | `CodecSpec =>` the action properties `CanonicalIsFixed`, `UnknownEventsSurvive` | |
| `SchemaTypesProofs` | `FlatTypesAreTranslated`, `ImportsAreUsed` | `TypesSpec => []` of `FlatTypesSurvive`, `ImportsMatchUses` | |
| | `ToPythonDefined`, `RefsDefined` | the two recursions of the generator have a value, of the right type, on every sequence of tokens | |
| | `SplitUndoesJoin` | `SplitAtCommas[Joined[parts]] = parts` | some parts, none with a comma |
| `TypePipelineProofs` | `AdviceWorks` | `PipelineSpec => []AdviceWorksButForStrays` | |
| | `NothingIsDropped` | `PipelineSpec => []NothingDropped` | `WellExported` of every schema |
| | `GeneratedFilesAreClosed` | `PipelineSpec => []GeneratedIsClosed` | `NamesResolve` in every schema |
| `NestedSessionsProofs` | `VisibleRunsLocked`, `StoppedMeansGone`, `SignatureStopsRelaunch` | `LockedWhileVisible`, `CleanedUp`, `NoRelaunchAfterSignature` | |

Why the hypotheses are there. The two about one consumer fail with two (a closed item
wakes one getter, an error item is taken by one), and the concept document allows one;
with as many closers as places their items can push the error item out before its
consumer runs. `WellExported` says what the exporter can write for a declaration, the forms
that the code has no branch for included: those are excepted by the property and not by the
hypothesis. An annotation can only resolve if the schema declares the name; the schemas of `pipeline_workflow` satisfy
both (`SupportedIsWellFormed`, which TLC evaluates), and so does the run with one
consumer, two closers and capacity 3.

The arguments:

* `NoLostWakeup` is not inductive alone. `WakeupInv` adds that a task is parked at
  most once and never parked and woken at a time (`WaitersDistinct`): without it, a
  wake-up could go to a task that is already woken and the number of woken tasks
  would not grow with the number of items. The lemmas are about cardinalities of
  `woken` and about removing one waiter from a sequence; each action then adds an
  item and a wake-up together, or takes an item with the wake-up it used, or hands
  the wake-up on.
* `ClosedIsQuiescent` holds because of which states go together, `LifecycleInv`: a
  reader that can still read sees READY, one that was cancelled sees CLOSING, and a
  closer touches the connection only once the reader is gone. `OnlyPoisonedSocketsLeak`
  adds `ConnectInv`: a `connect()` that has raised has a closed connection, and a closed
  connection has let go of its writer or is poisoned (`ReleasedOrPoisoned`).
* `TerminalLast` and `WireOrder` follow from `LogInv` about `Log`, what was taken
  followed by what is queued: while the reader can publish there are only events in
  it, all from the past. An eviction removes one element of it, a put appends a
  larger one, a get moves the border. The two need only the reader's part of the
  model, which is why neither rests on `WakeupInv`.
* The delivery theorems rest on one lemma, `StepEffect`: whatever the task, a step does
  one of five things. It leaves the queue and the terminal state alone, a `get()` takes
  the head, the reader accepts the next event (over the oldest one when the queue is
  full), a failing reader puts its error item, or `close()` puts the closed item. Each
  invariant is then shown for the five and not for every action. `FailureInv` adds to
  `FailureStaysObservable` that a reader that can still publish has set no
  `terminalCause`; `NewestInv` says that the newest `m` events are an interval at the end
  of the queue that ends with `received`, and are the whole queue while the reader can
  publish.
* The refinement maps each of the five to a step of the subscription or to a
  stutter. With `NewestInv` the pending set is the interval
  `received - m + 1 .. received`, so that the oldest pending event is the one at the
  head of the queue, which is what the abstract eviction and delivery take.
* `NobodyParkedAfterTerminal` is about the waiters, and becomes inductive with
  `ParkedInv`: a consumer that was woken finds an item. With one consumer the first
  terminal item unparks everybody there is, and nobody parks behind it.
* `TerminalReportsAgree` needs three things. `KindsInv`: an error item carries the cause
  the stream recorded, a closed item is only queued in CLOSED. `ReportsInv`: a consumer
  that was told of a clean end sees no cause, and none can be recorded any more.
  `AheadInv`, the one that needs the hypotheses: as long as the consumer is woken and
  has not run, an error item is ahead of every closed item, and the places behind it
  that are taken, together with the closers that can still put an item
  (`StillClosing`), are fewer than `Capacity`. So no item of a closer ever evicts it.
* Every action of the bundle is one of the stream's, or leaves the stream alone, so the
  theorems of the stream hold in it. `BundleInv` says that, once `close()` of the bundle has
  begun, the client is closed and the stream is too, unless a closer of the bundle is on its
  way to that or was cancelled (`Unfinished`); and that `close()` of the stream only returns
  with the stream CLOSED, for which `ClosedIsQuiescent` gives the rest.
* A call of the client touches its own fields only (`LocalStep`), so the invariant,
  `TypeOK` and `Holds(r)` for each call, is shown for one call at a time.
* `LimitsAgree` follows from `StreamLimit > MaxFrame`: what `readuntil` refuses is longer
  than the frame limit, and what it lets through is measured once more.
  `PoisonIsFinal` becomes inductive with `PoisonInv`: after a read that poisoned it the
  connection is closed, so that every later read is refused.
* The theorems about the codec are about values, not about some frames:
  `ModelOf(e, m)` says what a decoded model of an enum can be (a flat variant, an unknown
  event, an inner enum under its key). `RootYields` shows that decoding yields nothing
  else, `ModelRoundTrip` that what is encoded of such a model is canonical and decodes to
  it, `CanonicalForm` that every canonical value is the encoding of such a model. All go
  through the tables once, for the facts that the kinds of variants exclude each other and
  that no variant is called like another leaf or `root`. `CodecInv` then only says which
  of these values each stage holds.
* `AdviceInv` says that whoever has followed the advice since it was given has an IR of the
  exported schema, and that during a generation each file is fresh or is still due
  (`WrittenOrDue`), so that a generation that ends has written all of them.
* `ClassifiedAsMeant` goes through the forms of `Exported`, and shows for each that every test
  the code makes before the right one fails on it. `NothingDropped` and `GeneratedIsClosed` are
  then about the functions `Types`, `Classes` and `Imports`: with names that resolve, a class of
  a top-level file that uses a name makes its file import it, and `models` holds the rest.
* `LockInv` says which stages of a session hold the lock; `CircuitInv` that a recorded
  signature means an open circuit, so that `Launch` is refused. `CleanInv` carries the fact that
  makes a killed group harmless, from the signal to the step that forgets the instance
  (`KilledInv`): behind a SIGKILL there is neither a compositor nor a helper, and nothing
  the environment does brings one back.
* The functions of the generator recur over the tokens of a type. The induction
  theorems of the library cannot be instantiated by the installed provers, but that a
  non-empty set of numbers has a least element can be had from them, and a least
  counterexample serves for an induction. `RecursiveFunction` shows with it that a recursive
  definition has a solution when it uses its results for arguments of a smaller measure
  only, and `InnerIsShorter` that the generator calls itself for shorter sequences
  only, wherever its slices cut. With the defining equations at hand, `WrapsInOption`,
  `WrapsInArray`, `WrapsInMap` and `WrapsInTuple` say what it makes of each form that
  `canonical_type` writes, and the `Canonical...` lemmas which form that is. Only the tuple
  needs that no element has a comma, for `SplitUndoesJoin`.
* `FlatTypesSurvive` and `ImportsMatchUses` become inductive with `TypesInv`: a type string has a
  comma only if its type shows a tuple or a map (`CommasAreShown`, which is why `nested`
  covers every comma in a tuple), a schema of which an option can be made has a single
  type or is a `$ref` (`Canonical`), and a schema that is a leaf is translated like that
  leaf (`LeafIsTranslated`).

Only model-checked: every liveness property, as liveness under fairness is out of the
proof system's reach. Every invariant and every safety property of the runs that pass
is proved.

## The abstract specification

`EventSubscription` is what a caller of `next()` may rely on: events are accepted one
by one, at most `Capacity` wait, the oldest is delivered first, an overflow costs
the oldest (or, when not lossy, the subscription), and announcing the end may cost
the oldest once per announcement. `ImplementsSubscription` maps it onto the stream:
pending are the events in the queue, delivered those taken, lost those evicted, and
it is over once the reader can no longer publish.

## Not modelled

* **Action builders** (`actions.py`). Each of the 140 functions builds one value from its
  arguments and keeps no state; what the codec makes of such a value is in `Codec`.
* **Generated types** beyond the tables of variants and `Reply.unwrap`: the fields of the
  structs are declarations that pydantic checks.
* **Errors**: classes that carry fields. The models name them.
* **Validation of `NiriConfig`**: pydantic's, on frozen fields; `resolve_socket_path` is in
  `NiriClient`.
* **The fake socket of the tests** plays the compositor, which is the nondeterministic
  environment of every module.
* **What the demo shows** is one step, as each of its calls is a `_safe_call`; the live tests
  are plain requests.
* **The schema exporter** is a Rust program outside the package; `Export` stands for it.
