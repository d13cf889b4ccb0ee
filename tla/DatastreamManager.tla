-------------------------- MODULE DatastreamManager --------------------------
(***************************************************************************)
(* Setting up OpenSearch for the integration: DatastreamManager.async_init *)
(* (os_datastream_manager.py), as HA runs it on every setup of a config    *)
(* entry and again after a setup that failed.  Several Home Assistant      *)
(* installations may share the cluster, all with the same version of the   *)
(* integration; each request is one await, and any request may fail before *)
(* or after OpenSearch has acted on it.                                    *)
(***************************************************************************)
EXTENDS Integers, FiniteSets

CONSTANTS
    Instances,          \* Home Assistant installations using the cluster
    Streams,            \* names of data streams the index pattern covers
    None,               \* no index template, no data stream
    Version,            \* version of the template the integration ships
    OldVersion,         \* version of the template of an earlier release
    MaxDeletions        \* bound: how often an operator deletes the template

ASSUME VersionAssumption ==
    /\ Version \in Nat /\ OldVersion \in Nat /\ OldVersion # Version
    /\ None \notin Nat
    /\ MaxDeletions \in Nat

ASSUME FiniteAssumption == IsFiniteSet(Instances)

VARIABLES
    template,       \* version of the installed index template, or None
    mapping,        \* stream -> template version of its write index, or None
    pc,             \* where the setup of an instance is
    toRoll,         \* data streams an instance has still to roll over
    rollovers,      \* stream -> how often it was rolled over
    deletions,      \* how often the template was deleted
    interrupted     \* some update did not run to its end undisturbed

clusterVars == <<template, mapping, rollovers, deletions>>
vars == <<clusterVars, pc, toRoll, interrupted>>

\* "failed" setups are retried by HA; one that was "refused" waits for new
\* credentials, one that ended in an "error" for a restart.
SetupStates == {"idle", "checking", "comparing", "installing", "updating",
                "listing", "rolling", "ready", "failed", "refused", "error"}
Requesting == {"checking", "comparing", "installing", "updating", "listing",
               "rolling"}

ExistingStreams == {s \in Streams : mapping[s] # None}

\* The cluster as an earlier setup, or an earlier release, has left it.
Init ==
    /\ template \in {None, OldVersion, Version}
    /\ mapping \in [Streams -> {None, template}]
    /\ pc = [i \in Instances |-> "idle"]
    /\ toRoll = [i \in Instances |-> {}]
    /\ rollovers = [s \in Streams |-> 0]
    /\ deletions = 0
    /\ interrupted = FALSE

Goto(i, state) == pc' = [pc EXCEPT ![i] = state]

\* A plausible slip: the error reaches HA as one it does not answer with a retry.
SetupStartsOnce(i) ==
    /\ pc[i] = "idle"
    /\ Goto(i, "checking")
    /\ UNCHANGED <<clusterVars, toRoll, interrupted>>

\* HA sets the entry up, for the first time or again after ConfigEntryNotReady.
SetupStarts(i) ==
    /\ pc[i] \in {"idle", "failed"}
    /\ Goto(i, "checking")
    /\ UNCHANGED <<clusterVars, toRoll, interrupted>>

\* A plausible slip: a template that is not there is taken for an old one.
NeedsIndexTemplateNotAsked(i) ==
    /\ pc[i] = "checking"
    /\ Goto(i, "comparing")
    /\ UNCHANGED <<clusterVars, toRoll, interrupted>>

\* _needs_index_template
NeedsIndexTemplate(i) ==
    /\ pc[i] = "checking"
    /\ Goto(i, IF template = None THEN "installing" ELSE "comparing")
    /\ UNCHANGED <<clusterVars, toRoll, interrupted>>

\* A plausible slip: the version is never compared.
AlwaysUpdate(i) ==
    /\ pc[i] = "comparing"
    /\ Goto(i, IF template = None THEN "error" ELSE "updating")
    /\ UNCHANGED <<clusterVars, toRoll, interrupted>>

\* _needs_index_template_update reads the template a second time.  When it has
\* been deleted in between, the lookup raises a KeyError, which HA does not
\* answer with a retry.
NeedsIndexTemplateUpdate(i) ==
    /\ pc[i] = "comparing"
    /\ Goto(i, CASE template = None -> "error"
                 [] template = Version -> "ready"
                 [] OTHER -> "updating")
    /\ UNCHANGED <<clusterVars, toRoll, interrupted>>

\* A plausible slip: the version is counted up from the installed one.
PutNextVersion ==
    /\ template' = IF template = None THEN Version ELSE template + 1
    /\ UNCHANGED <<mapping, rollovers, deletions>>

\* OpenSearch stores the template.
PutIndexTemplate ==
    /\ template' = Version
    /\ UNCHANGED <<mapping, rollovers, deletions>>

\* _install_index_template, called by async_init itself
InstallIndexTemplate(i) ==
    /\ pc[i] = "installing"
    /\ PutIndexTemplate
    /\ Goto(i, "ready")
    /\ UNCHANGED <<toRoll, interrupted>>

\* _install_index_template, called by _update_index_template
UpdateIndexTemplate(i) ==
    /\ pc[i] = "updating"
    /\ PutIndexTemplate
    /\ Goto(i, "listing")
    /\ UNCHANGED <<toRoll, interrupted>>

\* get_datastream of the wildcard
ListDatastreams(i) ==
    /\ pc[i] = "listing"
    /\ toRoll' = [toRoll EXCEPT ![i] = ExistingStreams]
    /\ Goto(i, "rolling")
    /\ UNCHANGED <<clusterVars, interrupted>>

\* OpenSearch creates a new write index from the current template, without
\* which it refuses.
Rollover(s) ==
    /\ template # None
    /\ mapping' = [mapping EXCEPT ![s] = template]
    /\ rollovers' = [rollovers EXCEPT ![s] = @ + 1]
    /\ UNCHANGED <<template, deletions>>

\* rollover_datastream, one request per listed stream
RolloverDatastream(i, s) ==
    /\ pc[i] = "rolling"
    /\ s \in toRoll[i]
    /\ Rollover(s)
    /\ toRoll' = [toRoll EXCEPT ![i] = @ \ {s}]
    /\ UNCHANGED <<pc, interrupted>>

\* A plausible slip: the loop over the data streams stops one early.
UpdateEndsEarly(i) ==
    /\ pc[i] = "rolling"
    /\ Cardinality(toRoll[i]) <= 1
    /\ toRoll' = [toRoll EXCEPT ![i] = {}]
    /\ Goto(i, "ready")
    /\ UNCHANGED <<clusterVars, interrupted>>

UpdateEnds(i) ==
    /\ pc[i] = "rolling"
    /\ toRoll[i] = {}
    /\ Goto(i, "ready")
    /\ UNCHANGED <<clusterVars, toRoll, interrupted>>

\* What OpenSearch may have done for a request whose answer is an error.
LostAnswer(i) ==
    \/ UNCHANGED clusterVars
    \/ pc[i] \in {"installing", "updating"} /\ PutIndexTemplate
    \/ pc[i] = "rolling" /\ (\E s \in toRoll[i] : Rollover(s))

\* The gateway raises CannotConnect: async_setup_entry gives up and HA will
\* retry.  (An exception that the gateway does not convert ends a setup for
\* good, whatever it was doing: ConfigEntryLifecycle has those.)
RequestFails(i) ==
    /\ pc[i] \in Requesting
    /\ pc[i] = "rolling" => toRoll[i] # {}
    /\ LostAnswer(i)
    /\ toRoll' = [toRoll EXCEPT ![i] = {}]
    /\ Goto(i, "failed")
    /\ interrupted' = (interrupted \/ pc[i] \in {"updating", "listing", "rolling"})

\* 401 or 403: OpenSearch has not acted, AuthenticationRequired becomes
\* ConfigEntryAuthFailed, and HA does not retry before the user has answered.
RequestRefused(i) ==
    /\ pc[i] \in Requesting
    /\ pc[i] = "rolling" => toRoll[i] # {}
    /\ toRoll' = [toRoll EXCEPT ![i] = {}]
    /\ Goto(i, "refused")
    /\ interrupted' = (interrupted \/ pc[i] \in {"updating", "listing", "rolling"})
    /\ UNCHANGED clusterVars

\* HA restarts, or the entry is reloaded, by the user or with new credentials.
Restarts(i) ==
    /\ pc[i] # "idle"
    /\ toRoll' = [toRoll EXCEPT ![i] = {}]
    /\ Goto(i, "idle")
    /\ interrupted' = (interrupted \/ pc[i] \in {"updating", "listing", "rolling"})
    /\ UNCHANGED clusterVars

\* Publishing to a data stream that does not exist yet creates it.
StreamCreated(i, s) ==
    /\ pc[i] = "ready"
    /\ template # None
    /\ mapping[s] = None
    /\ mapping' = [mapping EXCEPT ![s] = template]
    /\ UNCHANGED <<template, rollovers, deletions, pc, toRoll, interrupted>>

\* An operator deletes the index template.
TemplateDeleted ==
    /\ deletions < MaxDeletions
    /\ template # None
    /\ template' = None
    /\ deletions' = deletions + 1
    /\ interrupted' = TRUE
    /\ UNCHANGED <<mapping, rollovers, pc, toRoll>>

RequestSucceeds(i) ==
    \/ NeedsIndexTemplate(i)
    \/ NeedsIndexTemplateUpdate(i)
    \/ InstallIndexTemplate(i)
    \/ UpdateIndexTemplate(i)
    \/ ListDatastreams(i)
    \/ \E s \in Streams : RolloverDatastream(i, s)

Setup(i) ==
    \/ SetupStarts(i)
    \/ RequestSucceeds(i)
    \/ RequestFails(i)
    \/ RequestRefused(i)
    \/ UpdateEnds(i)

Next ==
    \/ \E i \in Instances :
        \/ Setup(i)
        \/ Restarts(i)
        \/ \E s \in Streams : StreamCreated(i, s)
    \/ TemplateDeleted

Spec == Init /\ [][Next]_vars

(***************************************************************************)
(* HA starts a setup that is due, every request is answered or times out,  *)
(* and reading and storing the template do not fail for ever when they are *)
(* tried again and again.  Rollovers may fail every time.                  *)
(***************************************************************************)
Fairness ==
    \A i \in Instances :
        /\ WF_vars(SetupStarts(i))
        /\ WF_vars(RequestSucceeds(i) \/ RequestFails(i) \/ RequestRefused(i))
        /\ SF_vars(NeedsIndexTemplate(i))
        /\ SF_vars(NeedsIndexTemplateUpdate(i))
        /\ SF_vars(InstallIndexTemplate(i) \/ UpdateIndexTemplate(i))
        /\ WF_vars(UpdateEnds(i))

FairSpec == Spec /\ Fairness

-----------------------------------------------------------------------------
\* Properties.

\* Every variable stays in its type.
TypeOK ==
    /\ template \in {None, OldVersion, Version}
    /\ mapping \in [Streams -> {None, OldVersion, Version}]
    /\ pc \in [Instances -> SetupStates]
    /\ toRoll \in [Instances -> SUBSET Streams]
    /\ rollovers \in [Streams -> Nat]
    /\ deletions \in 0..MaxDeletions
    /\ interrupted \in BOOLEAN

\* Restarts, retries after failures and concurrent setups do not pile up write
\* indices: an upgrade of the template costs a data stream at most one
\* rollover per Home Assistant installation, however often async_init runs.
RolloversAreBounded ==
    \A s \in Streams : rollovers[s] <= Cardinality(Instances)

StreamsAreCurrent == \A s \in ExistingStreams : mapping[s] = Version

\* A setup gives up for good only when an operator has deleted the template:
\* in between its two looks at the template, since the second one raises a
\* KeyError, never because the template was not there to begin with.
OnlyDeletionsAreFatal ==
    \A i \in Instances : pc[i] = "error" => deletions > 0

\* When no update of the template was disturbed and none is under way, every
\* data stream has been rolled over, those included that another installation
\* created while the update was running.
UndisturbedUpdateIsComplete ==
    /\ ~interrupted
    /\ template = Version
    /\ \A i \in Instances : pc[i] \notin {"listing", "rolling"}
    => StreamsAreCurrent

\* _update_index_template says "Rollover all Home Assistant datastreams to
\* ensure we don't get mapping conflicts": after a successful setup no data
\* stream is left with the mappings of the older template.
ReadyMeansRolledOver ==
    \A i \in Instances :
        pc[i] = "ready" /\ deletions = 0 => StreamsAreCurrent

\* A setup that has started comes to an end when requests do not fail for
\* ever, whatever is retried: the entry is set up, or waits for credentials, or
\* has met the deleted template.
SetupConverges ==
    \A i \in Instances : pc[i] = "checking" ~> pc[i] \in {"ready", "refused", "error"}
=============================================================================
