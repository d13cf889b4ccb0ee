--------------------------- MODULE PublishPipeline ---------------------------
(***************************************************************************)
(* One life of Pipeline.Manager (os_publish_pipeline.py): the listener and *)
(* the poller put states on a queue, the publisher loop checks the         *)
(* connection, sips the queue through the formatter and hands the          *)
(* documents to OpenSearch in bulk requests, until the config entry is     *)
(* unloaded.                                                               *)
(*                                                                         *)
(* Everything runs on Home Assistant's event loop, so an action is the     *)
(* code between two awaits.  Where that code is itself a loop (polling all *)
(* states, filling a bulk chunk) it is cut into one action per element and *)
(* LoopIsFree keeps everybody else out until the loop awaits again.        *)
(*                                                                         *)
(* An event is identified by its place in the order of acceptance: the     *)
(* n-th item ever put on the queue is event n.                             *)
(***************************************************************************)
EXTENDS Integers, Sequences, FiniteSets

CONSTANTS
    Entities,           \* entity ids
    States,             \* what the state machine can hold for an entity:
                        \* a value, and attributes of one of these kinds
    RegistryEntries,    \* what the entity registry can hold for an entity
    Settings,           \* the settings a user may have chosen
    None,               \* no state, no registry entry, no area, no device
    ChunkSize,          \* documents per bulk request (opensearch-py: 500)
    MaxRetries,         \* resends of throttled documents (bulk: 3)
    MaxEvents           \* bound: events accepted in one life of the manager

ASSUME SizesAssumption ==
    /\ ChunkSize \in Nat \ {0}
    /\ MaxRetries \in Nat
    /\ MaxEvents \in Nat
    /\ IsFiniteSet(Entities)

\* Attributes that reach a request, those the JSON of a request cannot express,
\* and those that raise when their sets and dictionaries are converted.
AttributeKinds == {"serialisable", "opaque", "unconvertible"}

ASSUME StatesAssumption ==
    /\ None \notin States
    /\ \A s \in States : s.attributes \in AttributeKinds

INSTANCE Filterer

VARIABLES
    settings,       \* the PipelineSettings of this config entry
    entry,          \* life of the config entry
    reloading,      \* HA has been asked to reload the config entry
    states,         \* HA's state machine: entity -> state or None
    registry,       \* HA's entity registry: entity -> entry or None
    listening,      \* Listener._cancel_listener is not None
    poller,         \* where the polling task is
    toPoll,         \* states the current poll has still to look at
    queue,          \* the EventQueue
    accepted,       \* how many events were ever put on the queue
    publisher,      \* where the publishing task is
    previousPing,   \* OpenSearchGateway._previous_ping
    buffer,         \* formatted documents not yet in a request, oldest first
    exhausted,      \* the document generator of this run has ended
    chunk,          \* documents of the bulk request being sent
    attempt,        \* resends of that request so far
    settled         \* outcome -> events that met it

entryVars == <<settings, entry, reloading>>
hassVars == <<states, registry>>
gatherVars == <<listening, poller, toPoll>>
queueVars == <<queue, accepted>>
requestVars == <<buffer, exhausted, chunk, attempt>>
vars == <<entryVars, hassVars, gatherVars, queueVars, publisher,
          previousPing, requestVars, settled>>

-----------------------------------------------------------------------------
\* The shape of the state.

Outcomes == {"published",   \* acknowledged by OpenSearch
             "failed",      \* rejected by OpenSearch, logged one by one
             "skipped",     \* could not be formatted
             "abandoned"}   \* taken off the queue by a run that then failed

Item == [id : Nat, entity : Entities, attributes : AttributeKinds]

PublisherStates == {"off", "disabled", "starting", "waiting", "pinging",
                    "sipping", "sending", "backoff", "cancelled"}

Init ==
    /\ settings \in Settings
    /\ entry = "setup"
    /\ reloading = FALSE
    /\ states \in [Entities -> States \cup {None}]
    /\ registry \in [Entities -> RegistryEntries \cup {None}]
    /\ listening = FALSE
    /\ poller = "off"
    /\ toPoll = {}
    /\ queue = <<>>
    /\ accepted = 0
    /\ publisher = "off"
    /\ previousPing = TRUE      \* OpenSearchGateway.async_init has succeeded
    /\ buffer = <<>>
    /\ exhausted = FALSE
    /\ chunk = {}
    /\ attempt = 0
    /\ settled = [o \in Outcomes |-> {}]

\* No callback is in the middle of its synchronous work.
LoopIsFree == publisher # "sipping" /\ poller # "polling"

Settle(outcome, events) ==
    settled' = [settled EXCEPT ![outcome] = @ \cup events]

-----------------------------------------------------------------------------
\* Listener and poller: gather and filter.

Accepts(e, reason) == PassesFilter(settings, e, registry[e], reason)

\* A plausible slip: the newest event is published first.
PutFirst(e, state) ==
    /\ accepted < MaxEvents
    /\ queue' = <<[id |-> accepted + 1, entity |-> e,
                   attributes |-> state.attributes]>> \o queue
    /\ accepted' = accepted + 1

\* Queue.put_nowait
Put(e, state) ==
    /\ accepted < MaxEvents
    /\ queue' = Append(queue, [id |-> accepted + 1, entity |-> e,
                               attributes |-> state.attributes])
    /\ accepted' = accepted + 1

\* Why the listener reports a state: first seen or a new value is a state
\* change, the rest are attribute changes.
ChangeReason(old, new) ==
    IF old = None \/ old.value # new.value THEN "STATE" ELSE "ATTRIBUTE"

\* HA writes a state and fires state_changed; the listener handles the event
\* before the loop does anything else.
StateWritten(e, new) ==
    /\ LoopIsFree
    /\ states' = [states EXCEPT ![e] = new]
    /\ IF listening /\ Accepts(e, ChangeReason(states[e], new))
       THEN Put(e, new)
       ELSE UNCHANGED queueVars
    /\ UNCHANGED <<entryVars, registry, gatherVars, publisher, previousPing,
                   requestVars, settled>>

\* The event of a removed state has no new_state: the listener returns.
StateRemoved(e) ==
    /\ LoopIsFree
    /\ states' = [states EXCEPT ![e] = None]
    /\ UNCHANGED <<entryVars, registry, gatherVars, queueVars, publisher,
                   previousPing, requestVars, settled>>

\* The user edits, adds or removes the entity in HA's registry.
RegistryUpdated(e, new) ==
    /\ LoopIsFree
    /\ registry' = [registry EXCEPT ![e] = new]
    /\ UNCHANGED <<entryVars, states, gatherVars, queueVars, publisher,
                   previousPing, requestVars, settled>>

\* Poller.poll starts: all current states are looked at without an await.
\* A poll starts only when MaxEvents leaves room for all it may accept.
PollStarts ==
    /\ LoopIsFree
    /\ poller = "waiting"
    /\ accepted + Cardinality(Entities) <= MaxEvents
    /\ poller' = "polling"
    /\ toPoll' = {e \in Entities : states[e] # None}
    /\ UNCHANGED <<entryVars, hassVars, listening, queueVars, publisher,
                   previousPing, requestVars, settled>>

PollOne(e) ==
    /\ poller = "polling"
    /\ e \in toPoll
    /\ toPoll' = toPoll \ {e}
    /\ IF Accepts(e, "NO_CHANGE")
       THEN Put(e, states[e])
       ELSE UNCHANGED queueVars
    /\ UNCHANGED <<entryVars, hassVars, listening, poller, publisher,
                   previousPing, requestVars, settled>>

PollEnds ==
    /\ poller = "polling"
    /\ toPoll = {}
    /\ poller' = "waiting"
    /\ UNCHANGED <<entryVars, hassVars, listening, toPoll, queueVars,
                   publisher, previousPing, requestVars, settled>>

-----------------------------------------------------------------------------
\* Set-up.

\* Manager.async_init up to its first await.  The polling task starts with a
\* poll; a publish frequency of 0 disables everything.
ManagerInit ==
    /\ entry = "setup"
    /\ publisher = "off"
    /\ IF settings.publish_frequency = 0
       THEN /\ publisher' = "disabled"
            /\ UNCHANGED gatherVars
       ELSE /\ publisher' = "starting"
            /\ listening' = (settings.change_detection_type # {})
            /\ IF settings.polling_frequency > 0
               THEN /\ poller' = "polling"
                    /\ toPoll' = {e \in Entities : states[e] # None}
               ELSE UNCHANGED <<poller, toPoll>>
    /\ UNCHANGED <<entryVars, hassVars, queueVars, previousPing, requestVars,
                   settled>>

\* Publisher.async_init: the first run of the loop is due at once.
PublisherInit ==
    /\ LoopIsFree
    /\ publisher = "starting"
    /\ publisher' = "pinging"
    /\ UNCHANGED <<entryVars, hassVars, gatherVars, queueVars, previousPing,
                   requestVars, settled>>

\* async_setup_entry has returned: HA marks the entry LOADED.  A first run may
\* have failed before that.
EntryLoaded ==
    /\ LoopIsFree
    /\ entry = "setup"
    /\ publisher \notin {"off", "starting"}
    /\ entry' = "loaded"
    /\ UNCHANGED <<settings, reloading, hassVars, gatherVars, queueVars,
                   publisher, previousPing, requestVars, settled>>

-----------------------------------------------------------------------------
\* A run of the publisher: connection check.

\* The loop's next run is due.  Time is not modelled: a run may follow the
\* previous one after any delay.
RunStarts ==
    /\ LoopIsFree
    /\ publisher = "waiting"
    /\ publisher' = "pinging"
    /\ UNCHANGED <<entryVars, hassVars, gatherVars, queueVars, previousPing,
                   requestVars, settled>>

\* Manager.reload_config_entry asks HA for a reload of a loaded entry only.
ReloadConfigEntry == reloading' = (reloading \/ entry = "loaded")

PingSucceeds ==
    /\ LoopIsFree
    /\ publisher = "pinging"
    /\ publisher' = "sipping"
    /\ previousPing' = TRUE
    /\ exhausted' = FALSE
    /\ UNCHANGED <<entryVars, hassVars, gatherVars, queueVars, buffer, chunk,
                   attempt, settled>>

\* A plausible slip: the result of the check is ignored.
PingFailsIgnored ==
    /\ LoopIsFree
    /\ publisher = "pinging"
    /\ publisher' = "sipping"
    /\ previousPing' = FALSE
    /\ exhausted' = FALSE
    /\ UNCHANGED <<entryVars, hassVars, gatherVars, queueVars, buffer, chunk,
                   attempt, settled>>

\* Any error but a refused authentication: this run is over.
PingFails ==
    /\ LoopIsFree
    /\ publisher = "pinging"
    /\ publisher' = "waiting"
    /\ previousPing' = FALSE
    /\ UNCHANGED <<entryVars, hassVars, gatherVars, queueVars, requestVars,
                   settled>>

\* AuthenticationRequired or InsufficientPrivileges.
PingRefused ==
    /\ LoopIsFree
    /\ publisher = "pinging"
    /\ publisher' = "waiting"
    /\ previousPing' = FALSE
    /\ ReloadConfigEntry
    /\ UNCHANGED <<settings, entry, hassVars, gatherVars, queueVars,
                   requestVars, settled>>

-----------------------------------------------------------------------------
\* A run of the publisher: documents and bulk requests.  async_streaming_bulk
\* pulls documents until one no longer fits: a full chunk goes out with that
\* document already taken off the queue.

\* A plausible slip: the whole queue is formatted before anything is sent.
SipEverything ==
    /\ publisher = "sipping"
    /\ queue # <<>>
    /\ queue' = Tail(queue)
    /\ UNCHANGED <<entryVars, hassVars, gatherVars, accepted, previousPing,
                   exhausted, chunk, attempt>>

Sip ==
    /\ publisher = "sipping"
    /\ Len(buffer) <= ChunkSize
    /\ queue # <<>>
    /\ queue' = Tail(queue)
    /\ UNCHANGED <<entryVars, hassVars, gatherVars, accepted, previousPing,
                   exhausted, chunk, attempt>>

\* Formatting needs the registry entry of the entity: async_get of
\* entity_details.py raises without it; convert_set_to_list of encoder.py raises
\* on what it cannot sort or write as JSON.
IsFormattable(item) ==
    registry[item.entity] # None /\ item.attributes # "unconvertible"

SipDocument ==
    /\ Sip
    /\ IsFormattable(Head(queue))
    /\ Head(queue).attributes = "serialisable"
    /\ buffer' = Append(buffer, Head(queue).id)
    /\ UNCHANGED <<publisher, settled>>

\* Formatting raised: sip_queue skips the document and goes on.
SipSkips ==
    /\ Sip
    /\ ~IsFormattable(Head(queue))
    /\ Settle("skipped", {Head(queue).id})
    /\ UNCHANGED <<buffer, publisher>>

Buffered == {buffer[i] : i \in 1..Len(buffer)}

\* The document does not serialise: the error ends the run, and with it goes
\* every document that was waiting for its chunk to fill.
SipBreaks ==
    /\ Sip
    /\ IsFormattable(Head(queue))
    /\ Head(queue).attributes = "opaque"
    /\ Settle("abandoned", Buffered \cup {Head(queue).id})
    /\ buffer' = <<>>
    /\ publisher' = "waiting"

\* A plausible slip: the document that did not fit goes out with its chunk
\* and starts the next one as well.
SendChunkTwiceTheLast ==
    /\ publisher = "sipping"
    /\ Len(buffer) > ChunkSize
    /\ chunk' = Buffered
    /\ buffer' = <<buffer[ChunkSize + 1]>>
    /\ attempt' = 0
    /\ publisher' = "sending"
    /\ UNCHANGED <<entryVars, hassVars, gatherVars, queueVars, previousPing,
                   exhausted, settled>>

SendChunk ==
    /\ publisher = "sipping"
    /\ Len(buffer) > ChunkSize
    /\ chunk' = {buffer[i] : i \in 1..ChunkSize}
    /\ buffer' = <<buffer[ChunkSize + 1]>>
    /\ attempt' = 0
    /\ publisher' = "sending"
    /\ UNCHANGED <<entryVars, hassVars, gatherVars, queueVars, previousPing,
                   exhausted, settled>>

\* The queue is empty: the generator ends and what is left goes out.  Events
\* accepted from now on wait for the next run.
SendRest ==
    /\ publisher = "sipping"
    /\ queue = <<>>
    /\ Len(buffer) \in 1..ChunkSize
    /\ exhausted' = TRUE
    /\ chunk' = Buffered
    /\ buffer' = <<>>
    /\ attempt' = 0
    /\ publisher' = "sending"
    /\ UNCHANGED <<entryVars, hassVars, gatherVars, queueVars, previousPing,
                   settled>>

RunEnds ==
    /\ publisher = "sipping"
    /\ buffer = <<>>
    /\ queue = <<>>
    /\ publisher' = "waiting"
    /\ UNCHANGED <<entryVars, hassVars, gatherVars, queueVars, previousPing,
                   requestVars, settled>>

\* The helper goes on pulling documents unless the generator has ended.
ChunkIsSettled ==
    /\ chunk' = {}
    /\ publisher' = IF exhausted THEN "waiting" ELSE "sipping"
    /\ UNCHANGED attempt

\* A plausible slip: one throttled document has the whole chunk sent again.
RespondRetryingAll ==
    /\ LoopIsFree
    /\ publisher = "sending"
    /\ \E ok, throttled \in SUBSET chunk :
        LET retried == IF attempt < MaxRetries THEN throttled ELSE {}
        IN  /\ ok \cap throttled = {}
            /\ IF retried # {}
               THEN /\ publisher' = "backoff"
                    /\ UNCHANGED <<chunk, attempt>>
               ELSE ChunkIsSettled
            /\ settled' = [settled EXCEPT
                             !["published"] = @ \cup ok,
                             !["failed"] = @ \cup (chunk \ (ok \cup retried))]
    /\ UNCHANGED <<entryVars, hassVars, gatherVars, queueVars, previousPing,
                   buffer, exhausted>>

\* A plausible slip: one resend too many.
RespondRetryingOnceMore ==
    /\ LoopIsFree
    /\ publisher = "sending"
    /\ \E ok, throttled \in SUBSET chunk :
        LET retried == IF attempt <= MaxRetries THEN throttled ELSE {}
        IN  /\ ok \cap throttled = {}
            /\ IF retried # {}
               THEN /\ chunk' = retried
                    /\ publisher' = "backoff"
                    /\ UNCHANGED attempt
               ELSE ChunkIsSettled
            /\ settled' = [settled EXCEPT
                             !["published"] = @ \cup ok,
                             !["failed"] = @ \cup (chunk \ (ok \cup retried))]
    /\ UNCHANGED <<entryVars, hassVars, gatherVars, queueVars, previousPing,
                   buffer, exhausted>>

\* OpenSearch answers: every document is acknowledged, throttled (429) or
\* rejected.  Throttled documents are sent again while retries are left; a 429
\* for the whole request throttles all of its documents.
Respond ==
    /\ LoopIsFree
    /\ publisher = "sending"
    /\ \E ok, throttled \in SUBSET chunk :
        LET retried == IF attempt < MaxRetries THEN throttled ELSE {}
        IN  /\ ok \cap throttled = {}
            /\ IF retried # {}
               THEN /\ chunk' = retried
                    /\ publisher' = "backoff"
                    /\ UNCHANGED attempt
               ELSE ChunkIsSettled
            /\ settled' = [settled EXCEPT
                             !["published"] = @ \cup ok,
                             !["failed"] = @ \cup (chunk \ (ok \cup retried))]
    /\ UNCHANGED <<entryVars, hassVars, gatherVars, queueVars, previousPing,
                   buffer, exhausted>>

\* A plausible slip: the retries are not counted.
ResendForever ==
    /\ LoopIsFree
    /\ publisher = "backoff"
    /\ publisher' = "sending"
    /\ UNCHANGED <<entryVars, hassVars, gatherVars, queueVars, previousPing,
                   requestVars, settled>>

\* The back-off sleep is over.
Resend ==
    /\ LoopIsFree
    /\ publisher = "backoff"
    /\ publisher' = "sending"
    /\ attempt' = attempt + 1
    /\ UNCHANGED <<entryVars, hassVars, gatherVars, queueVars, previousPing,
                   buffer, exhausted, chunk, settled>>

\* The request raises and the exception leaves the helper: what it held is
\* gone, whether or not OpenSearch has indexed it.
AbandonRun ==
    /\ Settle("abandoned", chunk \cup Buffered)
    /\ chunk' = {}
    /\ buffer' = <<>>

\* CannotConnect, ServerError and everything unexpected: logged.
RequestFails ==
    /\ LoopIsFree
    /\ publisher = "sending"
    /\ AbandonRun
    /\ publisher' = "waiting"
    /\ UNCHANGED <<entryVars, hassVars, gatherVars, queueVars, previousPing,
                   exhausted, attempt>>

\* AuthenticationRequired, InsufficientPrivileges: logged, and a reload.
RequestRefused ==
    /\ LoopIsFree
    /\ publisher = "sending"
    /\ AbandonRun
    /\ publisher' = "waiting"
    /\ ReloadConfigEntry
    /\ UNCHANGED <<settings, entry, hassVars, gatherVars, queueVars,
                   previousPing, exhausted, attempt>>

-----------------------------------------------------------------------------
\* Teardown.  HA calls async_unload_entry, which stops the listener and closes
\* the client, and then cancels the background tasks of the entry.

\* A plausible slip: async_shutdown only closes the client.
UnloadKeepsListening ==
    /\ LoopIsFree
    /\ entry = "loaded"
    /\ entry' = "unloading"
    /\ UNCHANGED <<settings, reloading, hassVars, gatherVars, queueVars,
                   publisher, previousPing, requestVars, settled>>

Unload ==
    /\ LoopIsFree
    /\ entry = "loaded"
    /\ entry' = "unloading"
    /\ listening' = FALSE
    /\ UNCHANGED <<settings, reloading, hassVars, poller, toPoll, queueVars,
                   publisher, previousPing, requestVars, settled>>

\* The bare except of OpenSearchGateway.ping also catches the cancellation:
\* the ping reports a lost connection and the loop carries on.
CancelPublisher ==
    \/ /\ publisher = "pinging"
       /\ publisher' = "waiting"
       /\ previousPing' = FALSE
       /\ UNCHANGED <<buffer, chunk, settled>>
    \/ /\ publisher \in {"sending", "backoff"}
       /\ publisher' = "cancelled"
       /\ AbandonRun
       /\ UNCHANGED previousPing
    \/ /\ publisher = "waiting"
       /\ publisher' = "cancelled"
       /\ UNCHANGED <<previousPing, buffer, chunk, settled>>
    \/ /\ publisher = "disabled"
       /\ UNCHANGED <<publisher, previousPing, buffer, chunk, settled>>

TasksCancelled ==
    /\ LoopIsFree
    /\ entry = "unloading"
    /\ entry' = "unloaded"
    /\ poller' = IF poller = "waiting" THEN "cancelled" ELSE poller
    /\ CancelPublisher
    /\ UNCHANGED <<settings, reloading, hassVars, listening, toPoll, queueVars,
                   exhausted, attempt>>

-----------------------------------------------------------------------------
\* Home Assistant and its users.
Hass ==
    \/ \E e \in Entities, new \in States : StateWritten(e, new)
    \/ \E e \in Entities : StateRemoved(e)
    \/ \E e \in Entities, new \in RegistryEntries \cup {None} :
          RegistryUpdated(e, new)

\* The life of the config entry.
Lifecycle == ManagerInit \/ PublisherInit \/ EntryLoaded \/ Unload \/ TasksCancelled

Poll == PollStarts \/ (\E e \in Entities : PollOne(e)) \/ PollEnds

CheckConnection == RunStarts \/ PingSucceeds \/ PingFails \/ PingRefused

\* The synchronous work between two requests.
FillChunk == SipDocument \/ SipSkips \/ SipBreaks \/ SendChunk \/ SendRest \/ RunEnds

AwaitRequest == Respond \/ Resend \/ RequestFails \/ RequestRefused

Next == Hass \/ Lifecycle \/ Poll \/ CheckConnection \/ FillChunk \/ AwaitRequest

(***************************************************************************)
(* Fairness.  asyncio runs ready callbacks first come, first served: a     *)
(* task that is ready again and again runs, even if a poll keeps the loop  *)
(* busy in between (strong fairness); a synchronous stretch ends.  Timers  *)
(* fire, a request is answered or times out, HA finishes what it started.  *)
(* The one assumption about OpenSearch is the third conjunct: a publisher  *)
(* that keeps checking the connection finds it working again and again.    *)
(***************************************************************************)
Fairness ==
    /\ WF_vars(ManagerInit)
    /\ WF_vars((\E e \in Entities : PollOne(e)) \/ PollEnds \/ FillChunk)
    /\ SF_vars(PingSucceeds)
    /\ SF_vars(PublisherInit)
    /\ SF_vars(EntryLoaded)
    /\ SF_vars(RunStarts)
    /\ SF_vars(PingSucceeds \/ PingFails \/ PingRefused)
    /\ SF_vars(Respond \/ RequestFails \/ RequestRefused)
    /\ SF_vars(Resend)
    /\ SF_vars(reloading /\ Unload)
    /\ SF_vars(TasksCancelled)

Spec == Init /\ [][Next]_vars

FairSpec == Spec /\ Fairness

-----------------------------------------------------------------------------
\* Properties.

\* The events off the queue are 1..Taken.
Taken == accepted - Len(queue)

\* Documents taken off the queue whose fate is open.
Held == chunk \cup Buffered

IsSettled(n) == \E o \in Outcomes : n \in settled[o]

\* Every variable stays in its type, whatever listener, poller, publisher and
\* Home Assistant do.
TypeOK ==
    /\ settings \in Settings
    /\ entry \in {"setup", "loaded", "unloading", "unloaded"}
    /\ reloading \in BOOLEAN
    /\ states \in [Entities -> States \cup {None}]
    /\ registry \in [Entities -> RegistryEntries \cup {None}]
    /\ listening \in BOOLEAN
    /\ poller \in {"off", "waiting", "polling", "cancelled"}
    /\ toPoll \in SUBSET Entities
    /\ queue \in Seq(Item)
    /\ accepted \in Nat
    /\ publisher \in PublisherStates
    /\ previousPing \in BOOLEAN
    /\ buffer \in Seq(Nat)
    /\ exhausted \in BOOLEAN
    /\ chunk \in SUBSET Nat
    /\ attempt \in 0..MaxRetries
    /\ settled \in [Outcomes -> SUBSET Nat]

\* Every accepted event is in exactly one place: on the queue, waiting for its
\* chunk to fill, in the request being sent, or settled with one outcome.  No
\* path through sip_queue, the bulk helper's retries, the error handlers of
\* publish or a cancellation loses track of an event or handles it twice.
EachEventOnce ==
    /\ \A n \in 1..Taken : n \in Held \/ IsSettled(n)
    /\ Held \subseteq 1..Taken
    /\ \A o \in Outcomes : settled[o] \subseteq 1..Taken
    /\ \A o1, o2 \in Outcomes : o1 # o2 => settled[o1] \cap settled[o2] = {}
    /\ \A o \in Outcomes : settled[o] \cap Held = {}
    /\ chunk \cap Buffered = {}

\* OpenSearch stores or rejects a document only when every event accepted
\* before it has met its outcome or is throttled in the same request: what is
\* sent again after a 429 may be passed by others of its own request, never by
\* a later one, nor by what listener and poller have put on the queue since.
DocumentsInOrder ==
    \A n \in settled["published"] \cup settled["failed"] :
        \A m \in 1..n : IsSettled(m) \/ m \in chunk

\* However a run ends, by an error, a poisonous document or a cancellation, it
\* abandons at most the chunk being sent and the document that did not fit.
LossIsBounded ==
    [][Cardinality(settled'["abandoned"] \ settled["abandoned"]) <= ChunkSize + 1]_vars

\* While OpenSearch cannot be reached the queue only grows: publish takes an
\* event off the queue only in a run whose connection check has succeeded.
OutagesKeepTheQueue ==
    [][Len(queue') < Len(queue) => publisher = "sipping" /\ previousPing]_vars

\* Once the entry is unloaded neither the listener, which async_shutdown has
\* stopped, nor the poller, which HA has cancelled, puts anything on the queue.
NothingGatheredAfterUnload ==
    [][entry = "unloaded" => accepted' = accepted]_vars

\* As long as the entry stays loaded every accepted event is eventually taken,
\* formatted and settled, whatever outages and throttling happen on the way.
EveryEventSettles ==
    \A n \in 1..MaxEvents :
        accepted >= n ~> (IsSettled(n) \/ entry \in {"unloading", "unloaded"})

\* async_unload_entry says "Teardown integration.": after HA has unloaded the
\* entry and cancelled its tasks the publishing loop no longer runs.
TeardownStopsPublisher ==
    entry = "unloaded" => publisher \in {"disabled", "cancelled"}

\* The pipeline implements the at-most-once promise of EventDelivery.
Delivery == INSTANCE EventDelivery WITH taken <- Taken, held <- Held

DeliversAtMostOnce == Delivery!Spec
=============================================================================
