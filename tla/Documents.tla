------------------------------ MODULE Documents ------------------------------
(***************************************************************************)
(* One entity from its state to its document.  A pipeline is built from    *)
(* the options that are stored when its config entry is set up; its filter *)
(* looks at the registries when a state is queued, the formatter looks at  *)
(* them again when the publisher has got to it, and in between the user    *)
(* edits both options and registries (FilterOptions).  Saved options have  *)
(* the entry reloaded some time later; until then, and if its publisher    *)
(* outlives the unload, the old pipeline goes on with its queue.           *)
(*                                                                         *)
(* One pipeline is followed at a time, and one state in its queue.         *)
(***************************************************************************)
EXTENDS FilterOptions, Formatter

CONSTANTS
    States,         \* states that the entity may have
    DocumentedSettings  \* bound: the options of the pipelines, and those
                        \* that are saved while there is one

ASSUME StatesHaveAttributes ==
    \A state \in States :
        state.attributes \in Seq([key : {"named", "skipped", "not_a_string"},
                                 name : Seq(Characters), value : ValueKinds])

VARIABLES
    built,      \* the options the pipeline was built from, None if there is none
    outlived,   \* its entry is unloaded and its publisher goes on
    queued,     \* the state in its queue, or None
    edited,     \* history: the registry has changed since then
    document    \* what the last step has made of the queue, if anything

docVars == <<vars, built, outlived, queued, edited, document>>

DocInit ==
    /\ Init
    /\ built = None
    /\ outlived = FALSE
    /\ queued = None
    /\ edited = FALSE
    /\ document = None

\* A set-up builds a pipeline from the stored options.  One that was left to
\* its publisher is no longer followed once its queue is empty.
PipelineBuilt ==
    /\ settings \in DocumentedSettings
    /\ document = None
    /\ built = None \/ (outlived /\ queued = None)
    /\ built' = settings
    /\ outlived' = FALSE
    /\ UNCHANGED <<vars, queued, edited, document>>

\* The listener or the poller queues a state that passes.  One will do.
Gather ==
    /\ built # None /\ ~outlived
    /\ queued = None /\ document = None
    /\ \E state \in States :
        /\ PassesFilter(built, Entity, entry, state.reason)
        /\ queued' = state
    /\ edited' = FALSE
    /\ UNCHANGED <<vars, built, outlived, document>>

\* sip_queue: a state that cannot be formatted is logged and skipped.
Sip ==
    /\ built # None
    /\ queued # None
    /\ queued' = None
    /\ document' = IF FormatRaises(entry, queued) THEN [skipped |-> queued]
                   ELSE [made_of |-> queued]
    /\ UNCHANGED <<vars, built, outlived, edited>>

\* bulk has it.
Taken ==
    /\ document # None
    /\ document' = None
    /\ UNCHANGED <<vars, built, outlived, queued, edited>>

\* A plausible slip: what is on the queue is kept for the next pipeline.
PipelineUnloadedQueueKept ==
    /\ built # None /\ ~outlived
    /\ \/ built' = None /\ UNCHANGED <<outlived, queued, edited>>
       \/ outlived' = TRUE /\ UNCHANGED <<built, queued, edited>>
    /\ document' = None
    /\ UNCHANGED vars

\* The entry is unloaded, for a reload or for good: nothing gathers for this
\* pipeline any more, and its queue is gone, unless its publisher survives the
\* cancellation and keeps it.
PipelineUnloaded ==
    /\ built # None /\ ~outlived
    /\ \/ /\ built' = None /\ queued' = None /\ edited' = FALSE
          /\ UNCHANGED outlived
       \/ /\ outlived' = TRUE
          /\ UNCHANGED <<built, queued, edited>>
    /\ document' = None
    /\ UNCHANGED vars

\* The options are stored; the reload they were saved with comes before or
\* after.
DocOptionsSaved ==
    /\ OptionsSaved
    /\ built # None => settings' \in DocumentedSettings
    /\ document' = None
    /\ UNCHANGED <<built, outlived, queued, edited>>

DocRegistryEdited ==
    /\ RegistryEdited
    /\ edited' = TRUE
    /\ document' = None
    /\ UNCHANGED <<built, outlived, queued>>

DocNext ==
    \/ PipelineBuilt \/ Gather \/ Sip \/ Taken \/ PipelineUnloaded
    \/ DocOptionsSaved \/ DocRegistryEdited

DocSpec == DocInit /\ [][DocNext]_docVars

-----------------------------------------------------------------------------
\* Properties.

Published == document # None /\ "made_of" \in DOMAIN document

\* Every field of a document has a place in the index template, which ignores
\* the others, and the constant keywords have their one value.
EveryFieldIsMapped ==
    Published =>
        LET fields == Format(entry, document.made_of) IN
        \A path \in DOMAIN fields :
            \/ IsAttribute(path)
            \/ /\ path \in DOMAIN Mapped
               /\ Mapped[path] \in {"metrics", "default"} => fields[path] = Mapped[path]

\* The keys of attributes are ECS-compliant whatever the names are; a key is
\* empty only where the name has no letter and no digit that ASCII knows: it is
\* made of underscores, blanks, marks and characters without an equivalent.
AttributeKeysAreNormal ==
    Published =>
        \A path \in DOMAIN StateToAttributes(document.made_of.attributes) :
            LET key == Head(path) IN
            /\ \A i \in DOMAIN key : key[i] \in {"a", "1", "underscore"}
            /\ key # <<>> => key[1] # "underscore" /\ key[Len(key)] # "underscore"
            /\ key = <<>> =>
                 \E i \in DOMAIN document.made_of.attributes :
                     \A j \in DOMAIN document.made_of.attributes[i].name :
                         document.made_of.attributes[i].name[j] \in {"kanji", "underscore", "blank", "mark"}
            /\ NormalizeAttributeName(key) = key

\* What the stored options refuse is published only by a pipeline that was
\* built from other ones: a queue goes with its pipeline, or stays with the
\* publisher that outlives it, and no newer pipeline gets what was gathered
\* under older options.  (An edit of the registry does reach a state that is
\* queued already.)
PublishedAsConfigured ==
    Published /\ ~edited /\ built = settings =>
        PassesFilter(settings, Entity, entry, document.made_of.reason)

\* An attribute that is allowed is found in the document, with its own value,
\* unless it is empty or a later attribute has come to the same key.
AttributesYieldToLaterOnes ==
    Published =>
        LET attributes == document.made_of.attributes
            fields == Format(entry, document.made_of)
            KeyOf(i) == NormalizeAttributeName(attributes[i].name)
        IN  \A i \in DOMAIN attributes :
                /\ FilterAttribute(attributes[i])
                /\ attributes[i].value \notin {"none", "empty_list", "empty_set"}
                /\ \A j \in DOMAIN attributes :
                        j > i /\ FilterAttribute(attributes[j]) => KeyOf(j) # KeyOf(i)
                => LET path == <<"hass", "entity", "attributes", KeyOf(i)>> IN
                   /\ path \in DOMAIN fields
                   /\ fields[path] = ConvertSetToList(attributes[i].value)
=============================================================================
