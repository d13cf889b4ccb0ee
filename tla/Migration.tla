------------------------------ MODULE Migration ------------------------------
(***************************************************************************)
(* A stored config entry on its way to a running integration: migration    *)
(* from the version an earlier release has written (__init__.py), and the  *)
(* settings the integration then reads from it (os_integration.py).        *)
(*                                                                         *)
(* data and options are Python dictionaries: functions whose domain is the *)
(* set of keys that are present.                                           *)
(***************************************************************************)
EXTENDS Integers, Functions

CONSTANTS
    None,           \* a key whose value is None
    Entities        \* entity ids in the target lists

VERSION == 7        \* OpenSearchFlowHandler.VERSION

VARIABLES
    original,       \* the entry as it was stored by the earlier release
    stored,         \* the config entry in Home Assistant
    working,        \* the copy that the migration changes
    state,          \* where the set-up of the entry is
    settings        \* the PipelineSettings, empty until they are built

vars == <<original, stored, working, state, settings>>

-----------------------------------------------------------------------------
\* Dictionaries.

Empty == [k \in {} |-> None]

Single(key, value) == [k \in {key} |-> value]

\* dict.update
Updated(dict, new) ==
    [k \in DOMAIN dict \cup DOMAIN new |-> IF k \in DOMAIN new THEN new[k] ELSE dict[k]]

Without(dict, keys) == Restrict(dict, DOMAIN dict \ keys)

\* dict.get(key, default)
Lookup(dict, key, default) == IF key \in DOMAIN dict THEN dict[key] ELSE default

-----------------------------------------------------------------------------
\* Entries of earlier releases: the keys the migrations look for, in data up
\* to version 4 and in options from version 5 on.  Users had an options form
\* all along, which overrides the publish mode.

Modes == {"All", "Any changes", "State changes"}

\* Keys of older releases that the migrations only ever delete.
RetiredData == {"health_sensor_enabled", "ilm_max_size", "ilm_delete_after",
                "datastream_type", "datastream_name_prefix", "datastream_namespace"}
RetiredOptions == {"ilm_enabled", "ilm_policy_name", "publish_enabled",
                   "index_format", "index_mode", "alias"}
RetiredFilters == {"excluded_domains", "included_domains"}

Present(keys) == {Empty, [k \in keys |-> "present"]}

\* A key that may be missing, with one of the values.
Optional(key, values) == {Empty} \cup {Single(key, v) : v \in values}

Frequencies == Optional("publish_frequency", {60})

\* included_entities and excluded_entities
EntityLists == {{}, Entities}
TargetLists ==
    {Updated(i, x) : i \in Optional("included_entities", EntityLists),
                     x \in Optional("excluded_entities", EntityLists)}

UserNames == {"", "user"}
Credentials == Optional("username", UserNames)

\* publish_mode in the options, or chosen by no mode
ModeOptions == Optional("publish_mode", Modes \cup {None})

OldEntries(v, mode) ==
    {[version |-> v,
      data |-> Updated(Updated(Updated(m, f), t), Updated(r, c)),
      options |-> o] :
        m \in mode, f \in Frequencies, t \in TargetLists,
        r \in Present(RetiredData), c \in Credentials, o \in ModeOptions}

EntriesOfVersion5 ==
    {[version |-> 5, data |-> Empty,
      options |-> Updated(Updated(m, f), Updated(t, r))] :
        m \in ModeOptions, f \in Frequencies, t \in TargetLists,
        r \in Present(RetiredOptions \cup RetiredFilters)}

\* The options form of version 6 always stores all of its fields.
FormOptions ==
    [publish_frequency : {60}, polling_frequency : {0, 60},
     change_detection_type : SUBSET {"STATE", "ATTRIBUTE"}]

EntriesOfVersion6 ==
    {[version |-> 6, data |-> Empty, options |-> Updated(o, Updated(t, r))] :
        o \in FormOptions, t \in TargetLists, r \in Present(RetiredFilters)}

\* The first migration overwrites a publish mode that is in data already.
ModesOfVersion1 ==
    {Updated(changed, mode) : changed \in Optional("only_publish_changed", BOOLEAN),
                              mode \in Optional("publish_mode", Modes)}

StoredEntries ==
    OldEntries(1, ModesOfVersion1)
        \cup OldEntries(2, Optional("publish_mode", Modes))
        \cup OldEntries(4, Optional("publish_mode", Modes))
        \cup EntriesOfVersion5 \cup EntriesOfVersion6

Init ==
    /\ original \in StoredEntries
    /\ stored = original
    /\ working = original
    /\ state = "not loaded"
    /\ settings = Empty

-----------------------------------------------------------------------------
\* The migration steps.

MigrateToVersion2(e) ==
    [version |-> 2,
     data |-> Updated(Without(e.data, {"only_publish_changed"}),
                [publish_mode |-> IF Lookup(e.data, "only_publish_changed", FALSE)
                                  THEN "Any changes" ELSE "All"]),
     options |-> e.options]

MigrateToVersion3(e) ==
    [version |-> 3,
     data |-> Without(e.data, {"health_sensor_enabled"}),
     options |-> e.options]

MigrateToVersion4(e) ==
    [version |-> 4,
     data |-> Updated([index_mode |-> "index"],
                      Without(e.data, {"ilm_max_size", "ilm_delete_after"})),
     options |-> e.options]

KeysToMigrate == {"publish_enabled", "publish_frequency", "publish_mode",
                  "excluded_domains", "excluded_entities", "included_domains",
                  "included_entities"}

EmptyCredentials(data) ==
    {k \in {"username", "password", "api_key"} \cap DOMAIN data : data[k] = ""}

DataKept(data) ==
    Without(data, KeysToMigrate \cup EmptyCredentials(data) \cup
              {"datastream_type", "datastream_name_prefix", "datastream_namespace"})

\* A plausible slip: what data holds overrides the options.
MigrateToVersion5DataFirst(e) ==
    [version |-> 5,
     data |-> DataKept(e.data),
     options |-> Updated(e.options, Restrict(e.data, KeysToMigrate \cap DOMAIN e.data))]

\* A plausible slip: the keys are taken out of data and put nowhere.
MigrateToVersion5Forgetting(e) ==
    [version |-> 5,
     data |-> DataKept(e.data),
     options |-> e.options]

\* What data holds moves to the options, which keep what they have.
MigrateToVersion5(e) ==
    [version |-> 5,
     data |-> DataKept(e.data),
     options |-> Updated(Restrict(e.data, KeysToMigrate \cap DOMAIN e.data), e.options)]

PublishMode(options) == Lookup(options, "publish_mode", None)

\* options["publish_frequency"] of a polling entry that has none
RaisesKeyError(e) ==
    /\ e.version = 5
    /\ PublishMode(e.options) = "All"
    /\ "publish_frequency" \notin DOMAIN e.options

OptionsToRemove == {"ilm_enabled", "ilm_policy_name", "publish_mode",
                    "publish_enabled", "index_format", "index_mode", "alias"}

\* The publish mode becomes a polling frequency and change detection types.
MigrateToVersion6(e) ==
    LET mode == PublishMode(e.options)
    IN  [version |-> 6,
         data |-> Without(e.data, {"index_mode"}),
         options |-> Updated(Without(e.options, OptionsToRemove),
            [polling_frequency |-> IF mode = "All" THEN e.options.publish_frequency ELSE 0,
             change_detection_type |-> IF mode = "State changes" THEN {"STATE"}
                                       ELSE {"STATE", "ATTRIBUTE"}])]

Lower(type) == CASE type = "STATE" -> "state" [] type = "ATTRIBUTE" -> "attribute"

TargetsOf(entities) == IF entities = {} THEN Empty ELSE Single("entity_id", entities)

\* The entity lists become targets, and a list that names one is switched on.
\* The entities of the third list decide whether the second is in force.
OptionsOfVersion7(options, included, excluded, excluding) ==
    Updated(Without(options, {"excluded_domains", "excluded_entities",
                              "included_domains", "included_entities"}),
       [include_targets |-> included # {},
        exclude_targets |-> excluding # {},
        targets_to_include |-> TargetsOf(included),
        targets_to_exclude |-> TargetsOf(excluded),
        tags |-> Lookup(options, "tags", {}),
        change_detection_type |-> {Lower(t) : t \in options.change_detection_type}])

\* A plausible slip: both lists are tested for the included entities.
MigrateToVersion7Copied(e) ==
    LET included == Lookup(e.options, "included_entities", {})
        excluded == Lookup(e.options, "excluded_entities", {})
    IN  [version |-> 7,
         data |-> e.data,
         options |-> OptionsOfVersion7(e.options, included, excluded, included)]

MigrateToVersion7(e) ==
    LET included == Lookup(e.options, "included_entities", {})
        excluded == Lookup(e.options, "excluded_entities", {})
    IN  [version |-> 7,
         data |-> e.data,
         options |-> OptionsOfVersion7(e.options, included, excluded, excluded)]

MigrateOneVersion(e) ==
    CASE e.version = 1 -> MigrateToVersion2(e)
      [] e.version = 2 -> MigrateToVersion3(e)
      [] e.version = 3 -> MigrateToVersion4(e)
      [] e.version = 4 -> MigrateToVersion5(e)
      [] e.version = 5 -> MigrateToVersion6(e)
      [] e.version = 6 -> MigrateToVersion7(e)

-----------------------------------------------------------------------------
\* async_migrate_entry, one version at a time on a copy.

MigrationStarts ==
    /\ state = "not loaded"
    /\ stored.version # VERSION
    /\ working' = stored
    /\ state' = "migrating"
    /\ UNCHANGED <<original, stored, settings>>

\* A plausible slip: the entry is updated after every step.
MigrationStepSaving ==
    /\ state = "migrating"
    /\ working.version < VERSION
    /\ ~RaisesKeyError(working)
    /\ working' = MigrateOneVersion(working)
    /\ stored' = MigrateOneVersion(working)
    /\ UNCHANGED <<original, state, settings>>

MigrationStep ==
    /\ state = "migrating"
    /\ working.version < VERSION
    /\ ~RaisesKeyError(working)
    /\ working' = MigrateOneVersion(working)
    /\ UNCHANGED <<original, stored, state, settings>>

\* The exception is logged and HA marks the entry; the next restart of HA
\* tries again.
MigrationFails ==
    /\ state = "migrating"
    /\ RaisesKeyError(working)
    /\ state' = "migration error"
    /\ UNCHANGED <<original, stored, working, settings>>

MigrationEnds ==
    /\ state = "migrating"
    /\ working.version = VERSION
    /\ stored' = working
    /\ state' = "not loaded"
    /\ UNCHANGED <<original, working, settings>>

\* HA restarts.
Restarts ==
    /\ state # "not loaded"
    /\ state' = "not loaded"
    /\ settings' = Empty
    /\ UNCHANGED <<original, stored, working>>

\* The keys that build_pipeline_manager_parameters reads without a default.
RequiredOptions == {"polling_frequency", "publish_frequency",
                    "change_detection_type", "tags", "include_targets",
                    "exclude_targets", "targets_to_include", "targets_to_exclude"}

PipelineSettings(options) ==
    [polling_frequency |-> options.polling_frequency,
     publish_frequency |-> options.publish_frequency,
     change_detection_type |-> options.change_detection_type,
     include_targets |-> options.include_targets,
     exclude_targets |-> options.exclude_targets,
     included_entities |-> Lookup(options.targets_to_include, "entity_id", {}),
     excluded_entities |-> Lookup(options.targets_to_exclude, "entity_id", {})]

\* OpenSearchIntegration reads the options of an entry of the current version.
SetUp ==
    /\ state = "not loaded"
    /\ stored.version = VERSION
    /\ RequiredOptions \subseteq DOMAIN stored.options
    /\ settings' = PipelineSettings(stored.options)
    /\ state' = "set up"
    /\ UNCHANGED <<original, stored, working>>

\* A KeyError: async_setup_entry reports an unknown error.
SetUpFails ==
    /\ state = "not loaded"
    /\ stored.version = VERSION
    /\ ~(RequiredOptions \subseteq DOMAIN stored.options)
    /\ state' = "setup error"
    /\ UNCHANGED <<original, stored, working, settings>>

Next ==
    \/ MigrationStarts \/ MigrationStep \/ MigrationFails \/ MigrationEnds
    \/ Restarts \/ SetUp \/ SetUpFails

Spec == Init /\ [][Next]_vars

-----------------------------------------------------------------------------
\* Properties.

\* An option of the earlier release, which data provided when the options did
\* not.
Chosen(key, default) ==
    Lookup(original.options, key, Lookup(original.data, key, default))

\* Migration and set-up go through their states with an entry of a known
\* version, and settings exist exactly when the entry is set up.
TypeOK ==
    /\ stored.version \in 1..VERSION /\ working.version \in 1..VERSION
    /\ state \in {"not loaded", "migrating", "migration error", "set up", "setup error"}
    /\ settings # Empty <=> state = "set up"

\* An entry that says how often to publish always migrates and sets up,
\* whatever release has written it and whatever else it holds.
EntryWithFrequencyIsUsable ==
    Chosen("publish_frequency", 0) # 0 => state \notin {"migration error", "setup error"}

\* The publish mode that an entry had before version 6, in whichever
\* dictionary; in version 1 only_publish_changed decides where the options have
\* none, over a mode in data.
OldMode ==
    IF original.version = 1
    THEN Lookup(original.options, "publish_mode",
                IF Chosen("only_publish_changed", FALSE) THEN "Any changes" ELSE "All")
    ELSE Chosen("publish_mode", None)

\* The user's publish mode survives the migrations: an entry polls exactly if
\* it published everything, and watches attributes unless it published state
\* changes only.
DetectionIsPreserved ==
    state = "set up" /\ original.version < 6 =>
        /\ settings.polling_frequency =
             (IF OldMode = "All" THEN settings.publish_frequency ELSE 0)
        /\ "attribute" \in settings.change_detection_type <=> OldMode # "State changes"
        /\ "state" \in settings.change_detection_type

\* The entities the user included and excluded keep their effect: a list is in
\* force exactly if it names an entity.
TargetsArePreserved ==
    state = "set up" =>
        /\ settings.included_entities = Chosen("included_entities", {})
        /\ settings.excluded_entities = Chosen("excluded_entities", {})
        /\ settings.include_targets <=> settings.included_entities # {}
        /\ settings.exclude_targets <=> settings.excluded_entities # {}

\* A migration takes effect as a whole or not at all: a failure or a restart
\* half-way leaves the entry as the earlier release has stored it.
MigrationIsAllOrNothing ==
    [][stored' # stored => stored = original /\ stored'.version = VERSION]_vars
=============================================================================
