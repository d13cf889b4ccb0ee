---------------------------- MODULE FilterOptions ----------------------------
(***************************************************************************)
(* One entity under the filter while the user edits the options of the     *)
(* integration and Home Assistant's registries, one field at a time.  The  *)
(* filter here is the one that a pipeline built now would have; Documents  *)
(* has the pipelines that were built from earlier options.                 *)
(***************************************************************************)
EXTENDS Filterer

CONSTANTS
    Entity,     \* the entity
    Areas, Labels, Devices

VARIABLES
    settings,   \* the part of PipelineSettings the Filterer copies
    entry       \* the registry entry of Entity, or None

vars == <<settings, entry>>

Targets == [entities : SUBSET {Entity}, areas : SUBSET Areas,
            labels : SUBSET Labels, devices : SUBSET Devices]

DeviceEntries == [id : Devices, area : Areas \cup {None}, labels : SUBSET Labels]

RegistryEntries == [area : Areas \cup {None}, labels : SUBSET Labels,
                    device : DeviceEntries \cup {None}]

\* The options of a fresh config entry: no targets, both toggles off.
NoTargets == [entities |-> {}, areas |-> {}, labels |-> {}, devices |-> {}]

Init ==
    /\ settings = [include_targets |-> FALSE, exclude_targets |-> FALSE,
                   included |-> NoTargets, excluded |-> NoTargets,
                   change_detection_type |-> ChangeTypes]
    /\ entry \in RegistryEntries \cup {None}

\* The user edits one option.
IncludeToggled ==
    settings' = [settings EXCEPT !.include_targets = ~@]

ExcludeToggled ==
    settings' = [settings EXCEPT !.exclude_targets = ~@]

ChangeTypesChosen ==
    \E types \in SUBSET ChangeTypes :
        settings' = [settings EXCEPT !.change_detection_type = types]

\* One list of targets gets a new value.
Edited(targets) ==
    {t \in Targets : \E kind \in DOMAIN targets :
                        \A k \in DOMAIN targets \ {kind} : t[k] = targets[k]}

IncludedEdited ==
    \E t \in Edited(settings.included) :
        settings' = [settings EXCEPT !.included = t]

ExcludedEdited ==
    \E t \in Edited(settings.excluded) :
        settings' = [settings EXCEPT !.excluded = t]

OptionsSaved ==
    /\ \/ IncludeToggled
       \/ ExcludeToggled
       \/ ChangeTypesChosen
       \/ IncludedEdited
       \/ ExcludedEdited
    /\ UNCHANGED entry

RegistryEdited ==
    /\ entry' \in RegistryEntries \cup {None}
    /\ UNCHANGED settings

Next == OptionsSaved \/ RegistryEdited

Spec == Init /\ [][Next]_vars

-----------------------------------------------------------------------------
\* Properties.

Passes(reason) == PassesFilter(settings, Entity, entry, reason)

\* A target list as a set, and all the targets an entity answers to.
Chosen(targets) ==
    ({"entity"} \X targets.entities) \cup ({"area"} \X targets.areas)
        \cup ({"label"} \X targets.labels) \cup ({"device"} \X targets.devices)

AnswersTo ==
    {<<"entity", Entity>>, <<"area", entry.area>>}
        \cup ({"label"} \X entry.labels)
        \cup (IF entry.device = None THEN {}
              ELSE {<<"device", entry.device.id>>}
                     \cup ({"label"} \X entry.device.labels))

\* docs/configure.md: one chosen target the entity answers to is enough to be
\* included, one is enough to be excluded, and exclusion has the last word; an
\* entity without a registry entry is never published.  What the include toggle
\* does with no target chosen is the subject of NoTargetsPublishesAll.
AnyTargetMatches ==
    (settings.include_targets => settings.included # NoTargets) =>
        \A reason \in Reasons :
            Passes(reason) <=>
                /\ reason \in settings.change_detection_type \cup {"NO_CHANGE"}
                /\ entry # None
                /\ settings.include_targets =>
                     Chosen(settings.included) \cap AnswersTo # {}
                /\ settings.exclude_targets =>
                     Chosen(settings.excluded) \cap AnswersTo = {}

\* Choosing one more target to exclude never lets an entity in.
ExcludingMoreNeverAdmits ==
    [][/\ OptionsSaved
       /\ settings' = [settings EXCEPT !.excluded = settings'.excluded]
       /\ Chosen(settings.excluded) \subseteq Chosen(settings'.excluded)
       => \A reason \in Reasons : Passes(reason)' => Passes(reason)]_vars

\* docs/configure.md: "If you select no targets, all events will be published."
NoTargetsPublishesAll ==
    /\ settings.include_targets /\ settings.included = NoTargets
    /\ ~settings.exclude_targets /\ entry # None
    => Passes("NO_CHANGE")
=============================================================================
