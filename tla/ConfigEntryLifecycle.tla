------------------------ MODULE ConfigEntryLifecycle ------------------------
(***************************************************************************)
(* The lives of a config entry: Home Assistant sets it up, tries again,    *)
(* reloads it and unloads it; each set-up builds a new                     *)
(* OpenSearchIntegration (os_integration.py, __init__.py) with a gateway   *)
(* and a pipeline of its own; the publisher asks for a reload when its     *)
(* credentials are refused, and the user enters new ones in a              *)
(* re-authentication flow (config_flow.py).                                *)
(*                                                                         *)
(* HA does one set-up or unload of an entry at a time (its setup_lock).    *)
(* An action is the code between two awaits of that task, of the publisher *)
(* or of a flow.  What the publisher does with events is the subject of    *)
(* PublishPipeline; here it meets refusals, and may outlive its entry.     *)
(***************************************************************************)
EXTENDS ErrorConverter

CONSTANTS
    Options,        \* contents of the options form
    Publishing,     \* those with a publish_frequency other than 0
    Detecting,      \* those with a change_detection_type
    MaxErrors,      \* bound: unexpected errors and leaked clients counted
    MaxBroken       \* bound: broken re-authentication flows counted

ASSUME BoundsAssumption == MaxErrors \in Nat /\ MaxBroken \in Nat

ASSUME OptionsAssumption == Publishing \subseteq Options /\ Detecting \subseteq Options

VARIABLES
    \* the config entry and what HA has to do with it
    entry,          \* ConfigEntryState
    enabled,        \* the user wants the entry set up
    reload,         \* a reload has been scheduled
    accepted,       \* OpenSearch accepts the stored credentials
    hasUsername,    \* the entry has credentials at all
    options,        \* the stored options
    reauth,         \* the re-authentication flow
    \* the task that sets up or unloads, and its integration object
    pc,             \* where the task is
    failure,        \* the exception that a failed set-up raises
    client,         \* the client of the current integration object is open
    clientAccepted, \* OpenSearch accepts the credentials of that client
    used,           \* the options that object was built with
    listening,      \* a listener is registered for its queue
    publisher,      \* its publishing task
    strays,         \* publishers of earlier lives: is their client open
    \* history
    leaked,         \* clients given up without having been closed
    errors,         \* set-ups that ended with an unexpected error
    broken,         \* re-authentication flows that broke
    overtaken       \* used was read just before newer options were stored

entryVars == <<entry, enabled, reload>>
userVars == <<accepted, hasUsername, options, reauth>>
clientVars == <<client, clientAccepted, used, leaked>>
taskVars == <<listening, publisher, strays>>
objectVars == <<clientVars, taskVars, overtaken>>
history == <<errors, broken>>
vars == <<entryVars, userVars, pc, failure, objectVars, history>>

EntryStates == {"not_loaded", "setup_in_progress", "loaded", "setup_retry",
                "setup_error", "unload_in_progress"}

Init ==
    /\ entry = "not_loaded"
    /\ enabled = TRUE
    /\ reload = FALSE
    /\ accepted \in BOOLEAN
    /\ hasUsername \in BOOLEAN
    /\ options \in Options
    /\ reauth = "none"
    /\ pc = "idle"
    /\ failure = "none"
    /\ client = FALSE
    /\ clientAccepted = FALSE
    /\ used = options
    /\ listening = FALSE
    /\ publisher = "none"
    /\ strays = {}
    /\ leaked = 0
    /\ errors = 0
    /\ broken = 0
    /\ overtaken = FALSE

Counted(n, max) == IF n < max THEN n + 1 ELSE n

-----------------------------------------------------------------------------
\* Set-up.

\* async_setup_entry builds an integration from the stored data and options and
\* comes to the first request.  The object of an earlier life is forgotten,
\* with a client that may still be open.
BeginSetup(open) ==
    /\ entry' = "setup_in_progress"
    /\ pc' = "gateway"
    /\ client' = TRUE
    /\ clientAccepted' = accepted
    /\ used' = options
    /\ leaked' = IF open THEN Counted(leaked, MaxErrors) ELSE leaked

\* A new entry, or the retry timer
SetupStarts ==
    /\ pc = "idle"
    /\ enabled /\ ~reload
    /\ entry \in {"not_loaded", "setup_retry"}
    /\ BeginSetup(client)
    /\ overtaken' = FALSE
    /\ UNCHANGED <<enabled, reload, userVars, failure, taskVars, history>>

\* The gateway checks version and privileges, the data stream manager looks
\* after the index template.
RequestsSucceed ==
    /\ clientAccepted
    /\ \/ pc = "gateway" /\ pc' = "datastream"
       \/ pc = "datastream" /\ pc' = "pipeline"
    /\ UNCHANGED <<entryVars, userVars, failure, objectVars, history>>

\* OpenSearchIntegration.async_init catches its own exceptions and shuts down:
\* the listener is stopped at once, closing the client is awaited.
SetupGivesUp(exception) ==
    /\ pc \in {"gateway", "datastream"}
    /\ IsA(exception, "OSIntegrationException")
    /\ failure' = SetupRaises(exception)
    /\ pc' = "giving_up"
    /\ listening' = FALSE
    /\ UNCHANGED <<entryVars, userVars, clientVars, publisher, strays, overtaken, history>>

RequestRefused ==
    /\ ~clientAccepted
    /\ \E fault \in Refusals : SetupGivesUp(Converted(fault))

RequestFails ==
    \/ \E fault \in CertificateFaults \cup ConnectionFaults : SetupGivesUp(Converted(fault))
    \/ pc = "gateway" /\ SetupGivesUp("UnsupportedVersion")

\* A plausible slip: the unknown exception is logged and not raised.
SetupBreaksUnnoticed ==
    /\ pc \in {"gateway", "datastream", "pipeline"}
    /\ pc' = "idle"
    /\ errors' = Counted(errors, MaxErrors)
    /\ UNCHANGED <<entryVars, userVars, failure, objectVars, broken>>

\* Any other exception is not caught by OpenSearchIntegration: nobody shuts
\* it down, and HA does not try again.
SetupBreaks ==
    /\ pc \in {"gateway", "datastream", "pipeline"}
    /\ entry' = "setup_error"
    /\ pc' = "idle"
    /\ errors' = Counted(errors, MaxErrors)
    /\ UNCHANGED <<enabled, reload, userVars, failure, objectVars, broken>>

\* async_start_reauth, unless a flow is under way
StartReauth == reauth' = IF reauth = "none" THEN "started" ELSE reauth

\* HA cancels the background tasks of the entry and waits for them, ten
\* seconds at most.  A publisher whose ping is interrupted takes that for a
\* failed ping and stays.
CancelTasks(tasks) == strays' \in SUBSET tasks

\* A plausible slip: the exception is raised before the shutdown.
SetupFailedStillOpen ==
    /\ pc = "giving_up"
    /\ pc' = "idle"
    /\ failure' = "none"
    /\ entry' = IF failure = "not_ready" THEN "setup_retry" ELSE "setup_error"
    /\ IF failure = "auth_failed" THEN StartReauth ELSE UNCHANGED reauth
    /\ CancelTasks(strays)
    /\ UNCHANGED <<enabled, reload, accepted, hasUsername, options, clientVars,
                   listening, publisher, overtaken, history>>

\* A plausible slip: a lost connection is reported like an unknown error.
SetupFailedForGood ==
    /\ pc = "giving_up"
    /\ pc' = "idle"
    /\ client' = FALSE
    /\ failure' = "none"
    /\ entry' = "setup_error"
    /\ IF failure = "auth_failed" THEN StartReauth ELSE UNCHANGED reauth
    /\ CancelTasks(strays)
    /\ UNCHANGED <<enabled, reload, accepted, hasUsername, options, clientAccepted,
                   used, leaked, listening, publisher, overtaken, history>>

\* The client is closed; async_setup_entry raises what HA understands.
SetupFailed ==
    /\ pc = "giving_up"
    /\ pc' = "idle"
    /\ client' = FALSE
    /\ failure' = "none"
    /\ entry' = IF failure = "not_ready" THEN "setup_retry" ELSE "setup_error"
    /\ IF failure = "auth_failed" THEN StartReauth ELSE UNCHANGED reauth
    /\ CancelTasks(strays)
    /\ UNCHANGED <<enabled, reload, accepted, hasUsername, options, clientAccepted,
                   used, leaked, listening, publisher, overtaken, history>>

\* A plausible slip: the listener is started before the publish frequency is
\* looked at.
PipelineStartsListening ==
    /\ pc = "pipeline"
    /\ pc' = "first_run"
    /\ listening' = (used \in Detecting)
    /\ publisher' = IF used \in Publishing THEN "running" ELSE "none"
    /\ UNCHANGED <<entryVars, userVars, failure, clientVars, strays, overtaken, history>>

\* Pipeline.Manager.async_init: a publish frequency of 0 starts nothing, no
\* change detection no listener.  The first run of the publisher is due at once.
PipelineStarts ==
    /\ pc = "pipeline"
    /\ pc' = "first_run"
    /\ listening' = (used \in Publishing \cap Detecting)
    /\ publisher' = IF used \in Publishing THEN "running" ELSE "none"
    /\ UNCHANGED <<entryVars, userVars, failure, clientVars, strays, overtaken, history>>

SetupEnds ==
    /\ pc = "first_run"
    /\ pc' = "idle"
    /\ entry' = "loaded"
    /\ UNCHANGED <<enabled, reload, userVars, failure, objectVars, history>>

-----------------------------------------------------------------------------
\* The publisher.

PublisherRuns ==
    /\ publisher = "waiting"
    /\ publisher' = "running"
    /\ UNCHANGED <<entryVars, userVars, pc, failure, clientVars, listening, strays,
                   overtaken, history>>

\* A run that ends in any way but a refusal.
RunEnds ==
    /\ publisher = "running"
    /\ publisher' = "waiting"
    /\ UNCHANGED <<entryVars, userVars, pc, failure, clientVars, listening, strays,
                   overtaken, history>>

\* AuthenticationRequired: reload_config_entry acts on a loaded entry only.
RunRefused ==
    /\ publisher = "running"
    /\ client /\ ~clientAccepted
    /\ \E fault \in Refusals :
        CaughtBy(Converted(fault), PublishClauses) = "AuthenticationRequired"
    /\ publisher' = "waiting"
    /\ reload' = (reload \/ entry = "loaded")
    /\ UNCHANGED <<entry, enabled, userVars, pc, failure, clientVars, listening,
                   strays, overtaken, history>>

-----------------------------------------------------------------------------
\* Unload and reload.

\* What a reload does once the entry is unloaded: a disabled entry stays so.
GoOn(open) ==
    IF enabled THEN BeginSetup(open)
    ELSE /\ entry' = "not_loaded"
         /\ pc' = "idle"
         /\ client' = open
         /\ UNCHANGED <<clientAccepted, used, leaked>>

\* A plausible slip: async_shutdown forgets the pipeline manager.
BeginReloadListening ==
    \/ /\ entry = "loaded"
       /\ entry' = "unload_in_progress"
       /\ pc' = "unloading"
       /\ UNCHANGED <<listening, clientVars>>
    \/ /\ entry = "loaded" /\ publisher = "none" /\ strays = {}
       /\ GoOn(FALSE)
       /\ UNCHANGED listening
    \/ /\ entry # "loaded"
       /\ GoOn(client)
       /\ UNCHANGED listening

\* A reload up to its first await.  async_unload_entry stops the listener and
\* closes the client, which is awaited, as is the end of the entry's tasks;
\* with no task to wait for, it may all be done at once.  An entry that is not
\* loaded is not unloaded by the integration.
BeginReload ==
    \/ /\ entry = "loaded"
       /\ entry' = "unload_in_progress"
       /\ pc' = "unloading"
       /\ listening' = FALSE
       /\ UNCHANGED clientVars
    \/ /\ entry = "loaded" /\ publisher = "none" /\ strays = {}
       /\ listening' = FALSE
       /\ GoOn(FALSE)
    \/ /\ entry # "loaded"
       /\ GoOn(client)
       /\ UNCHANGED listening

\* A scheduled reload gets its turn.
ReloadStarts ==
    /\ pc = "idle"
    /\ reload
    /\ reload' = FALSE
    /\ BeginReload
    /\ overtaken' = FALSE
    /\ UNCHANGED <<enabled, userVars, failure, publisher, strays, history>>

\* A plausible slip: async_shutdown forgets the gateway.
ClientStaysOpen ==
    /\ pc = "unloading"
    /\ pc' = "cancelling"
    /\ UNCHANGED <<entryVars, userVars, failure, objectVars, history>>

\* The client is closed, async_unload_entry returns.
ClientCloses ==
    /\ pc = "unloading"
    /\ pc' = "cancelling"
    /\ client' = FALSE
    /\ UNCHANGED <<entryVars, userVars, failure, clientAccepted, used, leaked,
                   taskVars, overtaken, history>>

\* HA has cancelled the tasks and goes on with the reload.
UnloadEnds ==
    /\ pc = "cancelling"
    /\ CancelTasks(strays \cup {c \in {client} : publisher = "running"})
    /\ publisher' = "none"
    /\ GoOn(client)
    /\ overtaken' = FALSE
    /\ UNCHANGED <<enabled, reload, userVars, failure, listening, history>>

-----------------------------------------------------------------------------
\* Users and OpenSearch.

\* A plausible slip: the options are stored and nothing is reloaded.
OptionsOnlyStored ==
    \E o \in Options \ {options} :
        /\ options' = o
        /\ UNCHANGED <<entryVars, accepted, hasUsername, reauth, pc, failure,
                       objectVars, history>>

\* The options flow schedules a reload and then stores the options, with no
\* await in between.  The reload waits for its turn, or HA starts it eagerly:
\* then it gets to its first await before the options are stored, and if that
\* is in the set-up, the integration is built from the old ones.
OptionsSaved ==
    /\ options' \in Options \ {options}
    /\ \/ /\ reload' = TRUE
          /\ UNCHANGED <<entry, pc, clientVars, listening, overtaken>>
       \/ /\ pc = "idle"
          /\ BeginReload
          /\ overtaken' = (pc' = "gateway")
          /\ UNCHANGED reload
    /\ UNCHANGED <<enabled, accepted, hasUsername, reauth, failure, publisher,
                   strays, history>>

\* HA reloads an entry that is enabled or disabled; a disabled one is only
\* unloaded.
EnabledToggled ==
    /\ enabled' = ~enabled
    /\ reload' = TRUE
    /\ UNCHANGED <<entry, userVars, pc, failure, objectVars, history>>

\* The password changes in OpenSearch, or security is switched on there.
CredentialsRevoked ==
    /\ accepted' = FALSE
    /\ clientAccepted' = FALSE
    /\ UNCHANGED <<entryVars, hasUsername, options, reauth, pc, failure, client,
                   used, leaked, taskVars, overtaken, history>>

\* async_step_reauth without a username ends the flow.
ReauthAborts ==
    /\ reauth = "started"
    /\ ~hasUsername
    /\ reauth' = "none"
    /\ UNCHANGED <<entryVars, accepted, hasUsername, options, pc, failure,
                   objectVars, history>>

\* The stored credentials are tried first; refused, the form is shown.
ReauthAsks ==
    /\ reauth = "started"
    /\ hasUsername
    /\ ~accepted
    /\ reauth' = "form"
    /\ UNCHANGED <<entryVars, accepted, hasUsername, options, pc, failure,
                   objectVars, history>>

\* async_step_basic_auth does not catch a lost connection: HA drops a flow
\* whose first step raises, and the user is not asked.
ReauthBreaks ==
    /\ reauth = "started"
    /\ hasUsername
    /\ reauth' = "none"
    /\ broken' = Counted(broken, MaxBroken)
    /\ UNCHANGED <<entryVars, accepted, hasUsername, options, pc, failure,
                   objectVars, errors>>

\* Credentials that OpenSearch accepts are stored and the entry is reloaded.
ReauthSucceeds ==
    /\ reauth = "form" \/ (reauth = "started" /\ hasUsername /\ accepted)
    /\ reauth' = "none"
    /\ accepted' = TRUE
    /\ reload' = TRUE
    /\ UNCHANGED <<entry, enabled, hasUsername, options, pc, failure, objectVars,
                   history>>

Setup ==
    \/ SetupStarts \/ RequestsSucceed \/ RequestRefused \/ RequestFails
    \/ SetupBreaks \/ SetupFailed \/ PipelineStarts \/ SetupEnds

Publisher == PublisherRuns \/ RunEnds \/ RunRefused

Unload == ReloadStarts \/ ClientCloses \/ UnloadEnds

Reauth == ReauthAborts \/ ReauthAsks \/ ReauthBreaks \/ ReauthSucceeds

Users == OptionsSaved \/ EnabledToggled \/ CredentialsRevoked

Next == Setup \/ Publisher \/ Unload \/ Reauth \/ Users

Spec == Init /\ [][Next]_vars

(***************************************************************************)
(* HA carries on with what it has started, timers fire, requests end, that *)
(* of a re-authentication too.  A request that is made again and again is  *)
(* not always lost: OpenSearch answers it some time, with a result or with *)
(* a refusal.                                                              *)
(***************************************************************************)
Fairness ==
    /\ SF_vars(SetupStarts)
    /\ WF_vars(SetupFailed)
    /\ WF_vars(SetupEnds)
    /\ WF_vars(PipelineStarts \/ SetupBreaks)
    /\ WF_vars(ClientCloses)
    /\ WF_vars(UnloadEnds)
    /\ SF_vars(ReloadStarts)
    /\ WF_vars(RequestsSucceed \/ RequestRefused \/ RequestFails)
    /\ SF_vars(pc = "gateway" /\ RequestsSucceed)
    /\ SF_vars(pc = "datastream" /\ RequestsSucceed)
    /\ SF_vars(pc = "gateway" /\ RequestRefused)
    /\ WF_vars(PublisherRuns)
    /\ SF_vars(entry = "loaded" /\ RunRefused)
    /\ WF_vars(reauth = "started" /\ Reauth)

FairSpec == Spec /\ Fairness

-----------------------------------------------------------------------------
\* Properties.

InSetup == {"gateway", "datastream", "pipeline", "first_run", "giving_up"}

\* Every variable stays in its type, and what HA shows of the entry agrees
\* with what its task is doing.
TypeOK ==
    /\ entry \in EntryStates
    /\ entry = "setup_in_progress" <=> pc \in InSetup
    /\ entry = "unload_in_progress" <=> pc \in {"unloading", "cancelling"}
    /\ reauth \in {"none", "started", "form"}
    /\ pc \in {"idle", "unloading", "cancelling"} \cup InSetup
    /\ failure \in {"none", "auth_failed", "not_ready", "error"}
    /\ options \in Options /\ used \in Options
    /\ publisher \in {"none", "waiting", "running"}
    /\ strays \subseteq BOOLEAN
    /\ leaked \in 0..MaxErrors /\ errors \in 0..MaxErrors /\ broken \in 0..MaxBroken
    /\ {enabled, reload, accepted, hasUsername, client, clientAccepted, listening,
        overtaken} \subseteq BOOLEAN

\* The current client is open although nothing is left that will close it.
ClientIsAbandoned == client /\ pc = "idle" /\ entry # "loaded"

\* Through failures, retries, reloads and unloads, a client is given up
\* without having been closed only by a set-up that broke unexpectedly, and
\* each of those costs one client.
ClientsAreClosed ==
    \/ leaked + (IF ClientIsAbandoned THEN 1 ELSE 0) <= errors
    \/ errors = MaxErrors

\* Of all lives of an entry at most one gathers events and has an open client,
\* that of the entry that is set up or loaded; loaded, it does what its options
\* ask for.  A listener is stopped before the next set-up begins; a publisher
\* may outlive its entry, because a ping takes a cancellation for a lost
\* connection, but async_shutdown has closed its client before that.
OnePipelineAtATime ==
    /\ listening => /\ entry \in {"setup_in_progress", "loaded"}
                    /\ pc \in {"idle", "first_run"}
    /\ entry = "loaded" => /\ client
                           /\ listening <=> used \in Publishing \cap Detecting
                           /\ publisher # "none" <=> used \in Publishing
    /\ TRUE \notin strays

\* Credentials that stop being accepted while the entry is loaded and publishes
\* get the user asked for new ones: the publisher has the entry reloaded and
\* the set-up starts a flow that shows its form, even when the first refusal
\* came before the entry was loaded.  Not so without a username, without
\* publishing, when the set-up breaks, or when OpenSearch is away as the flow
\* tries the old credentials.
RefusalReachesTheUser ==
    \A n \in 0..(MaxBroken - 1) :
        entry = "loaded" /\ ~clientAccepted /\ used \in Publishing /\ hasUsername
            /\ broken = n
            ~> reauth = "form" \/ broken # n \/ ClientIsAbandoned \/ accepted \/ ~enabled

\* A set-up that could not connect is tried again until the entry is loaded,
\* the credentials are refused or an attempt breaks unexpectedly.
RetriesUntilLoaded ==
    failure = "not_ready"
        ~> entry = "loaded" \/ failure = "auth_failed" \/ ClientIsAbandoned \/ ~enabled

\* Saved options get into force: the pipeline of a loaded entry does not go on
\* with older ones, unless they were saved while nothing held up the reload
\* and it ran ahead of them (overtaken).
OptionsTakeEffect ==
    entry = "loaded" /\ used # options /\ ~overtaken
        ~> used = options \/ entry # "loaded"
=============================================================================
