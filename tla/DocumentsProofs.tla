-------------------------- MODULE DocumentsProofs --------------------------
(***************************************************************************)
(* Proofs about Documents, for any areas, labels, devices, states and      *)
(* attributes: the filter goes by the targets chosen, what is published    *)
(* has passed it under the options of its pipeline, and the document that  *)
(* is made of it fits the index template and keeps the attributes.         *)
(***************************************************************************)
EXTENDS Documents, FormatterProofs

-----------------------------------------------------------------------------
\* The filter.

\* The four lists of targets and what the entity answers to, list by list
LEMMA TargetedAnswers ==
    ASSUME entry # None, NEW targets
    PROVE  IsTargeted(targets, Entity, entry) <=> Chosen(targets) \cap AnswersTo # {}
<1>1. ASSUME IsTargeted(targets, Entity, entry)
      PROVE  Chosen(targets) \cap AnswersTo # {}
  <2>1. CASE Entity \in targets.entities
    BY <2>1 DEF Chosen, AnswersTo
  <2>2. CASE entry.area \in targets.areas
    BY <2>2 DEF Chosen, AnswersTo
  <2>3. CASE entry.labels \cap targets.labels # {}
    <3>1. PICK label : label \in entry.labels /\ label \in targets.labels
      BY <2>3
    <3>2. <<"label", label>> \in Chosen(targets) \cap AnswersTo
      BY <3>1 DEF Chosen, AnswersTo
    <3> QED
      BY <3>2
  <2>4. CASE entry.device # None /\ entry.device.id \in targets.devices
    BY <2>4 DEF Chosen, AnswersTo
  <2>5. CASE entry.device # None /\ entry.device.labels \cap targets.labels # {}
    <3>1. PICK label : label \in entry.device.labels /\ label \in targets.labels
      BY <2>5
    <3>2. <<"label", label>> \in Chosen(targets) \cap AnswersTo
      BY <2>5, <3>1 DEF Chosen, AnswersTo
    <3> QED
      BY <3>2
  <2> QED
    BY <1>1, <2>1, <2>2, <2>3, <2>4, <2>5 DEF IsTargeted
<1>2. ASSUME NEW target \in Chosen(targets) \cap AnswersTo
      PROVE  IsTargeted(targets, Entity, entry)
  <2>1. CASE target = <<"entity", Entity>>
    BY <1>2, <2>1 DEF Chosen, IsTargeted
  <2>2. CASE target = <<"area", entry.area>>
    BY <1>2, <2>2 DEF Chosen, IsTargeted
  <2>3. CASE target \in {"label"} \X entry.labels
    BY <1>2, <2>3 DEF Chosen, IsTargeted
  <2>4. CASE entry.device # None /\ target = <<"device", entry.device.id>>
    BY <1>2, <2>4 DEF Chosen, IsTargeted
  <2>5. CASE entry.device # None /\ target \in {"label"} \X entry.device.labels
    BY <1>2, <2>5 DEF Chosen, IsTargeted
  <2> QED
    BY <1>2, <2>1, <2>2, <2>3, <2>4, <2>5 DEF AnswersTo
<1> QED
  BY <1>1, <1>2

\* What the filter decides, with no target chosen too
GoesByTargets ==
    \A reason \in Reasons :
        Passes(reason) <=>
            /\ reason \in settings.change_detection_type \cup {"NO_CHANGE"}
            /\ entry # None
            /\ settings.include_targets =>
                 Chosen(settings.included) \cap AnswersTo # {}
            /\ settings.exclude_targets =>
                 Chosen(settings.excluded) \cap AnswersTo = {}

LEMMA FilterDecides == GoesByTargets
<1> SUFFICES ASSUME NEW reason \in Reasons
             PROVE  Passes(reason) <=>
                      /\ reason \in settings.change_detection_type \cup {"NO_CHANGE"}
                      /\ entry # None
                      /\ settings.include_targets =>
                           Chosen(settings.included) \cap AnswersTo # {}
                      /\ settings.exclude_targets =>
                           Chosen(settings.excluded) \cap AnswersTo = {}
  BY DEF GoesByTargets
<1>1. PassesChangeDetectionType(settings, reason) <=>
        reason \in settings.change_detection_type \cup {"NO_CHANGE"}
  BY DEF PassesChangeDetectionType
<1> QED
  BY <1>1, TargetedAnswers
  DEF Passes, PassesFilter, PassesIncludeTargets, PassesExcludeTargets

-----------------------------------------------------------------------------
\* The inductive invariant.

SettingsType ==
    settings \in [include_targets : BOOLEAN, exclude_targets : BOOLEAN,
                  included : Targets, excluded : Targets,
                  change_detection_type : SUBSET ChangeTypes]

\* A state in the queue, and what the document is made of, has passed the
\* filter of its pipeline and passes it still, as long as the registry is as it
\* was.
QueuedPasses ==
    /\ built = None => queued = None
    /\ queued # None /\ ~edited => PassesFilter(built, Entity, entry, queued.reason)
    /\ Published /\ ~edited => PassesFilter(built, Entity, entry, document.made_of.reason)

\* What is queued, and what a document is made of, is a state of the entity.
StatesOnly ==
    /\ queued # None => queued \in States
    /\ Published => document.made_of \in States

DocInv == SettingsType /\ QueuedPasses /\ StatesOnly

\* It holds at first.
LEMMA InitDocInv == DocInit => DocInv
<1>1. NoTargets \in Targets
  BY DEF NoTargets, Targets
<1> QED
  BY <1>1 DEF DocInit, Init, DocInv, SettingsType, QueuedPasses, Published, StatesOnly

\* Whatever option is saved, the options keep their type.
LEMMA OptionsSavedType ==
    ASSUME SettingsType, OptionsSaved
    PROVE  SettingsType'
<1> USE DEF SettingsType
<1>1. CASE IncludeToggled \/ ExcludeToggled
  BY <1>1 DEF IncludeToggled, ExcludeToggled
<1>2. CASE ChangeTypesChosen
  BY <1>2 DEF ChangeTypesChosen
<1>3. CASE IncludedEdited \/ ExcludedEdited
  BY <1>3 DEF IncludedEdited, ExcludedEdited, Edited
<1> QED
  BY <1>1, <1>2, <1>3 DEF OptionsSaved

\* Every step keeps it.
LEMMA NextDocInv ==
    ASSUME DocInv, [DocNext]_docVars
    PROVE  DocInv'
<1> USE DEF DocInv, QueuedPasses, Published, StatesOnly, vars
<1>1. CASE PipelineBuilt
  BY <1>1 DEF PipelineBuilt, SettingsType
<1>2. CASE Gather
  BY <1>2 DEF Gather, SettingsType
<1>3. CASE Sip
  BY <1>3 DEF Sip, SettingsType
<1>4. CASE Taken
  BY <1>4 DEF Taken, SettingsType
<1>5. CASE PipelineUnloaded
  BY <1>5 DEF PipelineUnloaded, SettingsType
<1>6. CASE DocOptionsSaved
  <2>1. entry' = entry
    BY <1>6 DEF DocOptionsSaved, OptionsSaved
  <2> QED
    BY <1>6, <2>1, OptionsSavedType DEF DocOptionsSaved
<1>7. CASE DocRegistryEdited
  BY <1>7 DEF DocRegistryEdited, RegistryEdited, SettingsType
<1>8. CASE UNCHANGED docVars
  BY <1>8 DEF docVars, SettingsType
<1> QED
  BY <1>1, <1>2, <1>3, <1>4, <1>5, <1>6, <1>7, <1>8 DEF DocNext

\* It holds always.
LEMMA SpecDocInv == DocSpec => []DocInv
BY InitDocInv, NextDocInv, PTL DEF DocSpec

-----------------------------------------------------------------------------
\* The document.

\* What the assumption on the states says of each attribute.
LEMMA AttributesOfStates ==
    ASSUME NEW state \in States
    PROVE  /\ DOMAIN state.attributes \subseteq Nat
           /\ \A i \in DOMAIN state.attributes :
                /\ state.attributes[i].name \in Seq(Characters)
                /\ state.attributes[i].value \in ValueKinds
<1>1. PICK Attributes : /\ Attributes = [key : {"named", "skipped", "not_a_string"},
                                         name : Seq(Characters), value : ValueKinds]
                        /\ state.attributes \in Seq(Attributes)
  BY StatesHaveAttributes
<1>2. DOMAIN state.attributes \subseteq Nat
  BY <1>1
<1>3. ASSUME NEW i \in DOMAIN state.attributes
      PROVE  state.attributes[i] \in Attributes
  <2>1. PICK attributes \in Seq(Attributes) : attributes = state.attributes
    BY <1>1
  <2>2. i \in 1..Len(attributes)
    BY <2>1
  <2>3. attributes[i] \in Attributes
    BY <2>2, ElementOfSeq
  <2> QED
    BY <2>1, <2>3
<1> QED
  BY <1>1, <1>2, <1>3

\* The keys of what is published are those of its names.
LEMMA KeysAreNormal ==
    ASSUME StatesOnly
    PROVE  AttributeKeysAreNormal
<1> SUFFICES ASSUME Published, NEW path \in DOMAIN StateToAttributes(document.made_of.attributes)
             PROVE  LET key == Head(path) IN
                    /\ \A i \in DOMAIN key : key[i] \in {"a", "1", "underscore"}
                    /\ key # <<>> => key[1] # "underscore" /\ key[Len(key)] # "underscore"
                    /\ key = <<>> =>
                         \E i \in DOMAIN document.made_of.attributes :
                            \A j \in DOMAIN document.made_of.attributes[i].name :
                                document.made_of.attributes[i].name[j]
                                    \in {"kanji", "underscore", "blank", "mark"}
                    /\ NormalizeAttributeName(key) = key
  BY DEF AttributeKeysAreNormal
<1>1. PICK attributes : attributes = document.made_of.attributes
  OBVIOUS
<1>2. PICK i \in DOMAIN attributes : path = <<NormalizeAttributeName(attributes[i].name)>>
  BY <1>1, AttributePaths
<1>3. PICK name \in Seq(Characters) : name = attributes[i].name
  BY <1>1, AttributesOfStates DEF StatesOnly
<1>4. PICK key : key = NormalizeAttributeName(name)
  OBVIOUS
<1>5. Head(path) = key
  BY <1>2, <1>3, <1>4
<1>6. /\ \A k \in DOMAIN key : key[k] \in {"a", "1", "underscore"}
      /\ key # <<>> => key[1] # "underscore" /\ key[Len(key)] # "underscore"
      /\ key = <<>> =>
           \A j \in DOMAIN name : name[j] \in {"kanji", "underscore", "blank", "mark"}
      /\ NormalizeAttributeName(key) = key
  BY <1>4, NamesAreNormalized
<1> QED
  BY <1>1, <1>3, <1>5, <1>6

\* What is published is a state, so its attributes are kept.
LEMMA AttributesYield ==
    ASSUME StatesOnly
    PROVE  AttributesYieldToLaterOnes
<1>1. ASSUME Published, NEW i \in DOMAIN document.made_of.attributes,
             FilterAttribute(document.made_of.attributes[i]),
             document.made_of.attributes[i].value \notin {"none", "empty_list", "empty_set"},
             \A j \in DOMAIN document.made_of.attributes :
                j > i /\ FilterAttribute(document.made_of.attributes[j]) =>
                    NormalizeAttributeName(document.made_of.attributes[j].name)
                        # NormalizeAttributeName(document.made_of.attributes[i].name)
      PROVE  LET key == NormalizeAttributeName(document.made_of.attributes[i].name)
                 path == <<"hass", "entity", "attributes", key>>
             IN  /\ path \in DOMAIN Format(entry, document.made_of)
                 /\ Format(entry, document.made_of)[path]
                        = ConvertSetToList(document.made_of.attributes[i].value)
  <2>1. PICK state \in States : state = document.made_of
    BY <1>1 DEF StatesOnly
  <2>2. /\ DOMAIN state.attributes \subseteq Nat
        /\ state.attributes[i].value \in ValueKinds \ {"none", "empty_list", "empty_set"}
    BY <1>1, <2>1, AttributesOfStates
  <2>3. /\ i \in DOMAIN state.attributes
        /\ FilterAttribute(state.attributes[i])
        /\ \A j \in DOMAIN state.attributes :
                j > i /\ FilterAttribute(state.attributes[j]) =>
                    NormalizeAttributeName(state.attributes[j].name)
                        # NormalizeAttributeName(state.attributes[i].name)
    BY <1>1, <2>1
  <2>4. LET key == NormalizeAttributeName(state.attributes[i].name)
            path == <<"hass", "entity", "attributes", key>>
        IN  /\ path \in DOMAIN Format(entry, state)
            /\ Format(entry, state)[path] = ConvertSetToList(state.attributes[i].value)
    BY <2>2, <2>3, AttributesAreKept
  <2> QED
    BY <2>1, <2>4
<1> QED
  BY <1>1 DEF AttributesYieldToLaterOnes

-----------------------------------------------------------------------------
\* The theorems.

\* The filter lets pass what the chosen targets say, whatever targets, areas,
\* labels and devices there are, as long as some target is chosen where only
\* the chosen ones are to be published.
THEOREM FilterGoesByTargets == DocSpec => []AnyTargetMatches
<1>1. AnyTargetMatches
  BY FilterDecides DEF GoesByTargets, AnyTargetMatches
<1> QED
  BY <1>1, PTL

\* Saved options do not reach a pipeline that was built before, and its queue
\* does not reach the one that is built from them: what the stored options
\* refuse is published by an older pipeline or not at all.
THEOREM PublishedUnderOptionsOfThePipeline == DocSpec => []PublishedAsConfigured
<1>1. DocInv => PublishedAsConfigured
  BY DEF DocInv, QueuedPasses, PublishedAsConfigured
<1> QED
  BY <1>1, SpecDocInv, PTL

\* A longer list of excluded targets never admits what a shorter one did not.
THEOREM ExclusionIsMonotonic == DocSpec => ExcludingMoreNeverAdmits
<1>1. ASSUME SettingsType, OptionsSaved,
             settings' = [settings EXCEPT !.excluded = settings'.excluded],
             Chosen(settings.excluded) \subseteq Chosen(settings'.excluded),
             NEW reason \in Reasons, Passes(reason)'
      PROVE  Passes(reason)
  <2>1. /\ entry' = entry
        /\ settings'.include_targets = settings.include_targets
        /\ settings'.exclude_targets = settings.exclude_targets
        /\ settings'.included = settings.included
        /\ settings'.change_detection_type = settings.change_detection_type
    BY <1>1 DEF SettingsType, OptionsSaved
  <2>2. GoesByTargets /\ GoesByTargets'
    BY FilterDecides, PTL
  <2>3. AnswersTo' = AnswersTo
    BY <2>1 DEF AnswersTo
  <2>4. /\ reason \in settings'.change_detection_type \cup {"NO_CHANGE"}
        /\ entry' # None
        /\ settings'.include_targets => Chosen(settings'.included) \cap AnswersTo' # {}
        /\ settings'.exclude_targets => Chosen(settings'.excluded) \cap AnswersTo' = {}
    BY <1>1, <2>2 DEF GoesByTargets, Chosen
  <2> QED
    BY <1>1, <2>1, <2>2, <2>3, <2>4 DEF GoesByTargets
<1>2. DocInv /\ [DocNext]_docVars =>
        [/\ OptionsSaved
         /\ settings' = [settings EXCEPT !.excluded = settings'.excluded]
         /\ Chosen(settings.excluded) \subseteq Chosen(settings'.excluded)
         => \A reason \in Reasons : Passes(reason)' => Passes(reason)]_vars
  BY <1>1 DEF DocInv
<1> QED
  BY <1>2, SpecDocInv, PTL DEF DocSpec, ExcludingMoreNeverAdmits

\* No field of any document is lost because the index template has no place for
\* it, and the constant keywords of the data stream are never given another
\* value: whatever the registries, the state and its attributes are.
THEOREM DocumentsFitTheTemplate == DocSpec => []EveryFieldIsMapped
<1>1. EveryFieldIsMapped
  BY FieldsAreMapped DEF EveryFieldIsMapped
<1> QED
  BY <1>1, PTL

\* normalize_attribute_name makes a compliant key of a name of any length,
\* leaves its own keys as they are, and comes to the empty key only for a name
\* of underscores, blanks, marks and characters without an ASCII equivalent.
THEOREM KeysOfAttributesAreNormal == DocSpec => []AttributeKeysAreNormal
<1>1. DocInv => AttributeKeysAreNormal
  BY KeysAreNormal DEF DocInv
<1> QED
  BY <1>1, SpecDocInv, PTL

\* However many attributes a state has, one that is allowed is in the document
\* with its own value, unless it is empty or a later one has the same key: no
\* other part of the document overwrites it.
THEOREM NoAttributeIsLost == DocSpec => []AttributesYieldToLaterOnes
<1>1. DocInv => AttributesYieldToLaterOnes
  BY AttributesYield DEF DocInv
<1> QED
  BY <1>1, SpecDocInv, PTL
=============================================================================
