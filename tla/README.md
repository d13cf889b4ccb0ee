# A specification of the OpenSearch integration for Home Assistant

The custom component `opensearch` (`src/custom_components/opensearch`) listens
to the state changes of a Home Assistant (HA) installation, polls its states,
filters them, turns them into documents and stores these in OpenSearch data
streams. This directory holds TLA+ models of the parts of it that decide what
is published, when, and what happens when something fails; TLC configurations
that check the models on small instances; and proofs of the most important
safety properties for every instance, checked by TLAPS.

## The system

All of the component runs on HA's event loop: code between two `await`s is
atomic, and everything else interleaves. The parts, with the state they keep:

| Part | State | Operations | Talks to |
|---|---|---|---|
| `Pipeline.Manager` (`os_publish_pipeline.py`) | the event queue, settings, static fields | `async_init`, `sip_queue`, `reload_config_entry`, `stop` | builds and starts the next four, schedules reloads in HA |
| `Pipeline.Filterer` | sets of targets, change detection types | `passes_filter` | HA's entity and device registries |
| `Pipeline.Listener` | the subscription | `async_init`, `_handle_event`, `stop` | HA's bus calls it, it puts events on the queue |
| `Pipeline.Poller` | a `LoopHandler` in a background task | `async_init`, `poll` | reads HA's state machine, puts events on the queue |
| `Pipeline.Formatter` | static fields | `format` and the coercions of a state | `ExtendedEntityDetails`, called through `sip_queue` |
| `Pipeline.Publisher` | a `LoopHandler` in a background task | `async_init`, `publish` | takes from the queue, calls the gateway |
| `LoopHandler` (`loop.py`) | flags, run count, time of the next run | `start`, `stop`, `wait_for_first_run` | calls `poll` or `publish` |
| `OpenSearchGateway` (`os_gateway.py`) | the client, `_previous_ping` | `async_init`, `check_connection`, `ping`, `bulk`, template and data stream requests, `stop` | opensearch-py, and through it the cluster |
| `DatastreamManager` (`os_datastream_manager.py`) | none; the state is the cluster's | `async_init` | the gateway |
| `OpenSearchIntegration`, set-up and unload (`os_integration.py`, `__init__.py`) | gateway, data stream manager and pipeline of one life | `async_init`, `async_shutdown`, `async_setup_entry`, `async_unload_entry` | HA's config entries |
| Migration (`__init__.py`) | the stored data and options | `async_migrate_entry`, six steps | HA's config entries |
| Config and options flows (`config_flow.py`) | the prospective configuration | the steps of creation, re-authentication and options | the gateway, HA's flow manager |
| Entity details, encoder, helpers, system information, diagnostics, logging | none | conversions and look-ups | |

What is hard here:

* **Ordering and loss.** Two producers share a queue that one consumer empties
  across the awaits of a bulk request, while documents are resent after a 429,
  single documents are rejected, requests fail as a whole, one document can
  poison its chunk, and an unload can cut in at any await.
* **Staleness.** The registry is consulted when an event is accepted and again
  a publishing period later; the index template is read twice in one set-up;
  credentials may be refused before the entry counts as loaded.
* **Partial failure.** A template update is several requests; a migration is
  six steps; a set-up builds three parts; a test of the connection can fail in
  every step of a flow.
* **Classes of exceptions.** A fault passes two hierarchies and up to three rounds
  of `except` clauses before it decides whether a form is shown, the entry is set
  up again or the user is asked for credentials.
* **Scheduling.** `LoopHandler` sleeps in steps of a second, its flags are read
  at some of its steps only, and a cancellation can be swallowed.

What each part has to get right is stated with its module below.

## Modules

| Module | Models | Runs |
|---|---|---|
| `EventDelivery` | the promise of the pipeline: in order, at most once | refined by the next |
| `PublishPipeline` | one life of `Pipeline.Manager` with gateway and publisher | through `MCPublishPipeline` |
| `MCPublishPipeline` | small instances of it | `pipeline`, `pipeline_liveness`, `pipeline_teardown` |
| `PublishPipelineProofs` | proofs: invariants, refinement, what a step may not do | |
| `Filterer` | `Pipeline.Filterer` as pure operators | used by `PublishPipeline` and the next |
| `FilterOptions` | the filter while a user edits options and registry | `filter_no_targets` |
| `Formatter` | `Pipeline.Formatter`, entity details, encoder, helpers and the mapped fields as pure operators | used by the next |
| `Documents` | one entity from the filter through the queue to its document | through `MCDocuments` |
| `MCDocuments` | a small instance of it | `documents` |
| `FormatterProofs`, `DocumentsProofs` | proofs: lemmas about the operators of `Formatter`; the theorems | |
| `ErrorConverter` | the gateway's error converter, the classes of exceptions, `except` clauses | used by the next two |
| `ConfigFlow` | the flow that creates an entry and the one that re-authenticates it | `config_flow`, `config_flow_verification` |
| `ConfigEntryLifecycle` | set-ups, retries, reloads and unloads of an entry, re-authentication, options | `lifecycle`; refined by `ConfigFlow` |
| `ConfigFlowProofs`, `ConfigEntryLifecycleProofs` | proofs | |
| `Migration`, `MigrationProofs` | `async_migrate_entry`, and the set-up that reads its result; proofs | `migration` |
| `LoopHandler`, `LoopHandlerProofs` | class `LoopHandler`; proofs | `loop` |
| `DatastreamManager`, `DatastreamManagerProofs` | `DatastreamManager.async_init` in several installations; proofs | `datastream`, `datastream_partial` |

`PublishPipeline` is the inside of one life of an entry, `ConfigEntryLifecycle`
the sequence of lives seen from outside; the latter reduces the publisher to
"a run meets a refusal or does not". `ConfigFlow` is where the entry comes from,
and `ConfigEntryLifecycle` knows its re-authentication flow by four actions, which
`FlowsRefineTheLifecycle` holds it to. `Documents` follows a single state through
the queue that `PublishPipeline` models with many. `LoopHandler` is the loop both
tasks of the pipeline run in; `PublishPipeline` uses of it only that runs follow
each other and that a function may be followed by another run after an unload.

### PublishPipeline

An event is its place in the order of acceptance, a document carries nothing
else. Variables mirror the code: `queue` is the `EventQueue`, `listening` is
`Listener._cancel_listener is not None`, `previousPing` is
`OpenSearchGateway._previous_ping`, `buffer`, `chunk` and `attempt` are the state
of `async_streaming_bulk`, `publisher` and `poller` say at which await the tasks
are. `settled` is history: which outcome each event met. Where the code has a
loop without awaits (a poll over all states; the bulk helper filling a chunk
from the generator) the model takes one action per element and `LoopIsFree` keeps
every other action out meanwhile.

* `EachEventOnce`: every accepted event is in exactly one place - queue, buffer,
  request, or one outcome.
* `DocumentsInOrder`: a document has met its outcome at OpenSearch only if every older
  one has, or is still in the request that is being sent. Within a request a document
  may pass an older one, when that one has to be resent after a 429; no later
  request overtakes it.
* `LossIsBounded`: one step of any failure loses at most a chunk and the document
  that did not fit.
* `OutagesKeepTheQueue`: an event leaves the queue only in a run whose ping has
  succeeded.
* `NothingGatheredAfterUnload`: once the unload has ended the queue does not grow.
* `DeliversAtMostOnce`: the pipeline implements `EventDelivery`.
* `EveryEventSettles`: while the entry stays loaded every event meets an outcome.

A state has attributes that can be sent, that break the serialisation of the request
(`SipBreaks`), or that break their own conversion, inside the formatter (`SipSkips`).
The bulk helper is opensearch-py's; its chunking, its splitting of a document
that does not fit and its resending of documents that met a 429 are modelled as
the code uses them (`max_retries=3`, `raise_on_error=False`) and are marked
external, as are HA's bus, registries and task cancellation.

### Filterer and FilterOptions

`passes_filter` translated check by check. `FilterOptions` reaches every combination
of options and registry contents over one entity, area, label and device by single
edits. `AnyTargetMatches` compares the filter with a definition written
independently of the order of the checks. It leaves out options that switch the
inclusion on and choose no target: there the documentation says one thing and the
code another, which is the subject of `NoTargetsPublishesAll`.
`ExcludingMoreNeverAdmits` is about pairs of consecutive states: an edit that only
excludes more never admits an entity that was refused. Both are checked in
`Documents`, which extends the module.

### Formatter and Documents

A document is a function from paths to values, which is what `flatten_dict` makes of
nested dictionaries. Values are kinds: a text, a number, a list, an empty list.
`Formatter` follows the code from the registry entry (`EntityDict`, `DeviceDict`,
`AreaDict`), the attributes (`FilterAttribute`, `NormalizeAttributeName`,
`ConvertSetToList`) and the state (`Coerced`) to the document (`Format`,
`PrepareDict`), and has beside it the fields of the index template (`Mapped`).
`dict.update` and the `**` of a literal are `Merged`: of the dictionaries that have a
path the last one gives the value. What `re.sub` and the ASCII codec keep of a name
is `Picked`, the characters at the positions kept.
Names of attributes are sequences of characters, one character for each class that
the normalisation tells apart.

In `Documents` a pipeline is built from the options that are stored when its entry is
set up (`built`); it queues one entity's state under those and formats it later,
with options saved and the registry edited in between. Saving options and the unload
that follows are two actions, and until the second the old pipeline goes on under
its own options. The unload drops its queue, or leaves it to a publisher that
survives the cancellation (`outlived`, see `TeardownStopsPublisher`). One pipeline is
followed at a time: a survivor until its queue is empty.

* `EveryFieldIsMapped`: every field of every document, attributes aside, is in the
  index template, whose mapping is not dynamic, with its value if it is constant.
* `AttributeKeysAreNormal`: no name leads to a key that is not ECS-compliant, and an
  empty key comes only of a name without a letter or digit that ASCII knows: nothing
  but underscores, blanks, marks and characters without an equivalent.
* `AttributesYieldToLaterOnes`: an allowed attribute is in the document, with its own
  value, unless a later one has come to the same key.
* `PublishedAsConfigured`: what the stored options refuse is published only by a
  pipeline that was built from other options; no newer pipeline gets what an older
  one has gathered. An edited registry does reach what is queued.

### ErrorConverter and ConfigFlow

`ErrorConverter` has the superclass of every exception of opensearch-py and of the
integration, and the `except` clauses of converter and callers as sequences of
which the first that matches catches (`CaughtBy`). The faults are classified on
their own: who refuses, whose certificate is not trusted, who does not answer.

A step of `ConfigFlow` is two actions, before and after the `await` of its
connection test, with `asked` the settings under test. The test meets any fault
its settings allow: certificate faults only where certificates are verified, a
refusal only of credentials that OpenSearch does not accept at that moment.
`prospective` is `_prospective_config`, and a key that a dictionary lacks has the value
`None`. An exception that no clause catches leaves the form as it is, and drops a flow
that has not shown one yet.

* `EntryIsTested`: the entry holds the settings of a test that succeeded, all of
  them and no others.
* `FormsFitTheFault`: form and complaint fit the class of the fault behind them.
* `EntryAcceptsWhatWasTested`: the client that a set-up builds of the stored entry is
  the one tested, or does not verify where that one did.
* `ReauthKeepsTheRest`: re-authentication changes nothing but credentials.
* `FlowsRefineTheLifecycle`: once the entry exists every step is one that
  `ConfigEntryLifecycle` allows.

### LoopHandler

Time is relative: seconds to the next run (`due`), to the end of the sleep and since
the last run; `odd` is the parity of the run count, so that a run that begins in the
same second as the one before is seen as well. A task may wake late, the function
may take any time. `RunsAreSpaced`, `StopAllowsOneMoreRun`, `StopEndsTheLoop`,
`KeepsRunning`.

### DatastreamManager

One action per request, and for each request that it fails, with or without
OpenSearch having acted on it (`LostAnswer`). HA's retries, restarts, a second
installation of the same release, the creation of streams by publishing and one
deletion of the template by an operator interleave with them. A request that is
refused (401, 403) ends the set-up until the entry is reloaded, any other failure
has it retried.

* `RolloversAreBounded`: however many set-ups interleave and are retried, a stream is
  rolled over at most once per installation.
* `UndisturbedUpdateIsComplete`: an update that nothing disturbed leaves no stream on
  old mappings.
* `OnlyDeletionsAreFatal`: the `KeyError` of the second look at the template (line 65),
  which HA does not retry, needs an operator's deletion between the two looks.
* `SetupConverges`: every set-up ends as ready, refused or in that error.

All installations run one release, so nothing here is about templates that replace
each other.

### Migration

Entries of versions 1, 2, 4, 5 and 6 are functions from the keys the migrations look
at to small sets of values; in version 1 a publish mode may be in the data already,
which the first migration overwrites, as `tests/test_init.py:472` expects. One
action per step of the chain, an interruption at any of them, the storing of the
result, and the set-up that then reads the entry. `EntryWithFrequencyIsUsable`,
`DetectionIsPreserved` and `TargetsArePreserved` relate the migrated entry to the
one it came from; `MigrationIsAllOrNothing` says that what is stored is never half
migrated.

### ConfigEntryLifecycle

HA serialises set-up and unload of an entry, so one task `pc` is enough; the
publisher, the flows, the user and the cluster interleave with it. What the
options say of the pipeline is whether it publishes at all (`Publishing`: a
`publish_frequency` of 0 starts nothing) and whether it listens (`Detecting`: an empty
`change_detection_type` starts no listener).

When HA cancels the tasks of an entry, a publisher caught in its ping survives
(`CancelTasks`); it is then one of the `strays`, remembered by whether its client is
open, and each later cancellation gives it another chance to end.

The options flow schedules the reload before it stores the options. HA may carry
the reload out later, or start it eagerly, up to its first await, before the
options are stored; an entry with nothing to unload and no task to wait for then
builds its integration from the old options, and nothing reloads it again.
`overtaken` marks that set-up.

* `ClientsAreClosed`: clients given up unclosed are at most as many as set-ups that
  ended with an unexpected error.
* `OnePipelineAtATime`: of all lives of the entry at most one gathers events and has an
  open client; a loaded entry has listener and publisher exactly if its options ask
  for them; a stray's client is closed. That opensearch-py does not open a closed
  client again on its next request is taken from outside the repository.
* `RefusalReachesTheUser`: credentials refused while the entry is loaded and publishes
  lead to the form that asks for new ones, also when the first refusal comes before
  the entry counts as loaded, where the code only logs. Without a user name the
  code aborts the flow (`config_flow.py:281`), and a flow whose first test meets a lost
  connection is dropped (`broken`): there nobody is asked, and the property says so.
* `RetriesUntilLoaded`: a set-up that could not connect is tried again until it loads.
* `OptionsTakeEffect`: a loaded entry does not stay on older options than those stored,
  unless it was overtaken. This exception is what the code does; it is not counted as a
  finding because whether HA starts the reload eagerly is decided outside of `src`.

## Runs and bounds

| Run | Bounds | Why they suffice |
|---|---|---|
| `pipeline` | 2 entities, 4 events, chunk of 2, 1 resend | a full chunk with an event that does not fit and one behind it on the queue; a document that is resent beside one that is not; poisonous documents; polls of several states around the listener; symmetric in the entities |
| `pipeline_liveness` | 1 entity, 2 events, one of two states cannot be formatted | one event that waits for another's request and its resend, or stands behind one that is skipped |
| `pipeline_teardown` | 1 entity, 2 events, listening only | violated, see below |
| `documents` | 1 entity, area with a floor, label, device; every kind of value; names of up to 2 characters; 2 attributes; pipelines are built from options whose exclusion of the area is switched off or on, one edit apart (`DocumentedSettings`) | each check of the filter is about one membership, each step of the formatter about one value; a name has a beginning and an end, and what holds of longer names is proved |
| `filter_no_targets` | 1 entity, area, label, device | violated, see below |
| `datastream` | 2 installations, 2 streams, 1 deletion | an update that overlaps another at each of its requests, with a stream done and one to do |
| `datastream_partial` | 1 installation, 2 streams | violated, see below |
| `loop` | period of 3 seconds | more than two sleeps between runs |
| `migration` | 1 entity; every key absent or with each value that matters | every branch of the steps |
| `lifecycle` | 3 contents of the options: publishing with and without a listener, and not publishing; 2 counted errors, 1 broken flow | every change between them and back, an error before and after a leak |
| `config_flow` | an address with TLS and one without, 2 credentials, 1 CA file, 2 contents of the options | a wrong password after a right one, an address given up for another, options saved during a re-authentication |
| `config_flow_verification` | 1 of each | violated, see below |

`MaxEvents`, `MaxDeletions`, `MaxErrors`, `MaxBroken` and `DocumentedSettings` are
the bounds that a module knows of; the others are the sizes of its constants.
`ConfigFlow` follows one entry and one flow at a time, and credentials that the
entry holds and OpenSearch no longer accepts are not accepted again, as in
`ConfigEntryLifecycle`. No run switches the deadlock check off.

Four runs look for a violation, and TLC finds it:

* `pipeline_teardown` - `TeardownStopsPublisher`. `ping` has a bare `except`
  (`os_gateway.py:229`) that also catches `CancelledError`. A publisher cancelled
  while it checks the connection takes it for a failed ping and loops on after
  the unload ("Teardown integration.", `__init__.py:73`).
* `filter_no_targets` - `NoTargetsPublishesAll`. `docs/configure.md:82`: "If you select
  no targets, all events will be published." With the toggle on and nothing
  selected nothing is published (`os_publish_pipeline.py:399`).
* `datastream_partial` - `ReadyMeansRolledOver`. The template is stored before the
  streams are rolled over (`os_datastream_manager.py:93`); when the rest fails, the
  retry sees the new version and never rolls the remaining streams over, against
  the purpose stated at line 97.
* `config_flow_verification` - `EntryRunsAsTested`. A flow without the certificate form
  tests with verification (`verify_certs: bool = True`, `os_gateway.py:138`) and stores
  no `verify_ssl`; the set-up reads the missing key as `False` (`os_integration.py:112`),
  so the running client verifies nothing. `docs/configure.md:92`: "This component will
  use the system's default certificate authority (CA) bundle to verify the
  OpenSearch server's certificate."

That a loop stopped during its last sleep makes the run it was waiting for
(`loop.py:57`) is not counted among these: `StopAllowsOneMoreRun` states it, no
document promises less, and in this code nobody calls `stop()` but the loop itself
after an exception.

## Fairness

* The event loop runs what is ready, timers fire, and requests end with an answer
  or a time-out (they have one): weak fairness of each task's steps.
* OpenSearch: a request repeated for ever is some time answered (strong fairness of
  ping, of a bulk answer, of reading and storing the template). No run assumes
  that a given attempt succeeds, that rollovers ever succeed, or that users or
  operators do anything. A loaded entry whose credentials are refused meets the
  refusal in some run (strong fairness of `RunRefused`), and HA brings a
  re-authentication flow to its first form or its end.
* HA retries a set-up that raised `ConfigEntryNotReady`, and carries out a reload
  it has scheduled when set-ups and unloads of the entry leave it room.

Safety properties are checked and proved without fairness.

## What is proved

`PublishPipelineProofs`, for every set of entities, states, registry entries and
settings, every chunk size, number of resends and number of events, from the
assumptions in `PublishPipeline`:

* `TypeCorrect`, `EventsAreAccountedFor` (`EachEventOnce`) and `OrderIsKept`
  (`DocumentsInOrder`). Neither of the last two is inductive: that a request's events
  are settled without meeting those already settled needs that buffer, request and
  outcomes are disjoint; that the next event taken is new needs that the queue
  holds exactly the events after `Taken`; and both need that a request exists only
  while the publisher is at the awaits that own it. The invariant `Inv` is the
  conjunction of `TypeOK`, that last fact (`PhasesOK`), `EachEventOnce` and
  `EventsWaitInOrder` - what waits in request, buffer and queue is in the order of
  acceptance - with one lemma per group of actions; `DocumentsInOrder` follows from it.
* `PipelineImplementsDelivery`: the initial states map to those of `EventDelivery`,
  and under `Inv` every step maps to one of its steps or to none. The mapping takes
  `held` to the events in buffer and request and `taken` to what has left the queue.
* `LossesAreBounded` (`LossIsBounded`): `Inv` bounds the buffer in each phase; the added
  `ChunkFits` bounds the request, as its events are the first of the buffer or
  some of an earlier attempt.
* `OutagesLeaveTheQueue` (`OutagesKeepTheQueue`): added is that a run that sips, sends
  or backs off follows a successful check (`RunIsConnected`).
* `UnloadEndsGathering` (`NothingGatheredAfterUnload`): added is that listener and poller
  end in the two steps of the unload (`GatheringIsOver`), whichever of them
  the poller is caught in.

`LoopHandlerProofs`, for every period: `TypeCorrect`, `StopIsPrompt` and `SpacedRuns`.
The invariant adds that the time to the next run and the time since the last make
up at least a period, and that a loop that sleeps has not begun a run late.

`DatastreamManagerProofs`, for any finite set of installations, any streams and any
two different versions: `TypeCorrect`, `RolloversStayBounded`,
`UndisturbedUpdatesComplete` and `DeletionsAlone` (`OnlyDeletionsAreFatal`). The
bound on rollovers is not inductive; a budget is: the rollovers of a stream so far
and the installations that may still roll it over are together at most all
installations, since an installation that stops being able to never becomes able
again once the old template is gone. Completeness needs that every stream with old
mappings is awaited by some installation, also when a second one creates streams or
repeats the update meanwhile. That only deletions are fatal needs that a set-up
which compares versions has a template to compare, or an operator has been there
(`DeletionsExplain`).

`ConfigEntryLifecycleProofs`, for any options, publishing or not: `TypeCorrect`,
`ClientsGetClosed` and `PipelinesDoNotOverlap` (`OnePipelineAtATime`). The invariant
adds exactly when client, listener and publisher exist (`ObjectIsWhole`), and that a
publisher that survives its cancellation has no open client (`StraysAreShut`), which
needs that the client is closed before the tasks are cancelled; `ClientsAreClosed`
is inductive on top of it.

`ConfigFlowProofs`, for any addresses, credentials, CA files and options:
`TypeCorrect`, `EntryGetsTested`, `FormsFit`, `EntryIsNoStricter`, `ReauthIsConfined` and
`FlowsImplementTheLifecycle`. The invariant adds what each form knows: that the settings
under test are those of `prospective` with the input of the form, that the flow of an
existing entry carries the entry's own data, and which keys are filled in by then.
The classes of exceptions are a recursive function; a table of it (`Ancestors`
unfolded once and for all) is proved first, and with it what each clause catches.
`EntryIsNoStricter` follows from `EntryIsTested` by the ways the two places read a missing
key.

`DocumentsProofs`, for any areas, labels and devices, any set of states and attributes
of any number and length, from `KnownIsStatic`, `NoneIsNoValueKind` and
`StatesHaveAttributes`:

* `FilterGoesByTargets` (`AnyTargetMatches`) and `ExclusionIsMonotonic`, about the filter
  alone, and `PublishedUnderOptionsOfThePipeline` (`PublishedAsConfigured`), which needs
  that what is queued passes the filter of the pipeline that has the queue, unless
  the registry has been edited since (`QueuedPasses`).
* `DocumentsFitTheTemplate` (`EveryFieldIsMapped`). The invariant has no part in it: a
  dictionary fits the template that has its keys and is fitted key by key
  (`DictFits`, `AtPathFits`). The proof goes through the nine dictionaries that `Format`
  merges, in the order of the code, and finds the place of each one.
* `KeysOfAttributesAreNormal` (`AttributeKeysAreNormal`). Each of the four steps of
  `NormalizeAttributeName` has a lemma: which characters it leaves, which of the name's
  it keeps, and that it changes nothing of a name that is normal already.
* `NoAttributeIsLost` (`AttributesYieldToLaterOnes`). The last entry with a key stays in
  `StateToAttributes` (`LastAttributeStays`), nothing that `Format` merges later has
  a path among the attributes (`AttributesStay`), and no allowed value becomes one
  that is skipped.

The last two need that what is formatted is one of the states of the entity
(`StatesOnly`). Nothing in them is an induction over a name or a list: the items of a
sequence at some of its positions keep their order by their rank, the number of
such positions up to one, and what is last or least exists because naturals are
well-ordered (`FormatterProofs`).

`MigrationProofs`, for any entities: `TypeCorrect`, `FrequencyIsEnough`,
`DetectionSurvives`, `TargetsSurvive` and `MigrationIsAtomic`. The entry that a step leads
from looks different in each version, so the invariant (`Faithful`) says by version
what an entry still holds of the one stored by the earlier release: where its
frequency, mode, detection types and lists are now. Each migration step has a
lemma that carries it to the next version.

Model-checked only: the seven liveness properties, `EveryEventSettles`, `SetupConverges`,
`KeepsRunning`, `StopEndsTheLoop`, `RetriesUntilLoaded`, `OptionsTakeEffect` and
`RefusalReachesTheUser`, as liveness under fairness and ENABLED are out of this prover's
reach. Every invariant and every action property of the runs that pass has its
theorem.

## Not modelled

* The text of the JSON and of the converted values: two texts, dates or numbers that
  the code treats alike are one value. `keep_dict_keys` is never called with keys.
* The sizes of fields and what OpenSearch does with a value that does not fit its
  mapping (`ignore_malformed`, `ignore_above`), and what it makes of an attribute
  whose key is empty.
* The layout and wording of the forms, the title of an entry, and several flows or
  entries at a time: HA keeps their handlers apart.
* System information and diagnostics: they read and return values once, and keep no
  state. Logging: nothing depends on it.
* Installations of different releases on one cluster: the versions are compared with
  `!=`, so that two would replace each other's template for ever.
* The limits of memory, and repetitions of a request inside opensearch-py's transport.

## Plan

The components that keep state or decide anything are modelled. What would be worth
adding, in this order: two releases on one cluster in `DatastreamManager`, with the
property the code would need; repetitions by the transport in `PublishPipeline`, which
need a decision on document ids first; what a dynamic mapping does to attributes
that change their type.
