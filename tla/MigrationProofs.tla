-------------------------- MODULE MigrationProofs --------------------------
(***************************************************************************)
(* Proofs about Migration.  The invariant says, for an entry of any        *)
(* version, what it still holds of the entry that an earlier release has   *)
(* stored; each migration step carries that to the next version.           *)
(***************************************************************************)
EXTENDS Migration, TLAPS

-----------------------------------------------------------------------------
\* Dictionaries.

LEMMA LookupUpdated ==
    ASSUME NEW dict, NEW new, NEW key, NEW default
    PROVE  Lookup(Updated(dict, new), key, default) =
             Lookup(new, key, Lookup(dict, key, default))
BY DEF Lookup, Updated

LEMMA LookupWithout ==
    ASSUME NEW dict, NEW keys, NEW key, NEW default
    PROVE  Lookup(Without(dict, keys), key, default) =
             IF key \in keys THEN default ELSE Lookup(dict, key, default)
BY DEF Lookup, Without, Restrict

LEMMA LookupRestricted ==
    ASSUME NEW dict, NEW keys, NEW key, NEW default
    PROVE  Lookup(Restrict(dict, keys \cap DOMAIN dict), key, default) =
             IF key \in keys THEN Lookup(dict, key, default) ELSE default
BY DEF Lookup, Restrict

LEMMA UpdatedDomain ==
    ASSUME NEW dict, NEW new
    PROVE  DOMAIN Updated(dict, new) = DOMAIN dict \cup DOMAIN new
BY DEF Updated

LEMMA UpdatedKey ==
    ASSUME NEW dict, NEW new, NEW key \in DOMAIN new
    PROVE  key \in DOMAIN Updated(dict, new) /\ Updated(dict, new)[key] = new[key]
BY DEF Updated

LEMMA KeyNotUpdated ==
    ASSUME NEW dict, NEW new, NEW key \in DOMAIN dict, key \notin DOMAIN new
    PROVE  key \in DOMAIN Updated(dict, new) /\ Updated(dict, new)[key] = dict[key]
BY DEF Updated

-----------------------------------------------------------------------------
\* Entries of earlier releases.

IsEntry(e) == e = [version |-> e.version, data |-> e.data, options |-> e.options]

\* An option of an entry, which data provide when the options do not.
Held(e, key, default) == Lookup(e.options, key, Lookup(e.data, key, default))

\* In version 1 another key decides, unless the options have a publish mode.
ModeOf(e) ==
    IF e.version = 1
    THEN Lookup(e.options, "publish_mode",
                IF Held(e, "only_publish_changed", FALSE) THEN "Any changes" ELSE "All")
    ELSE Held(e, "publish_mode", None)

\* Keys that only some versions have
Shaped(e) ==
    /\ IsEntry(e)
    /\ e.version \in 1..VERSION
    /\ e.version = 1 => "only_publish_changed" \notin DOMAIN e.options
    /\ e.version >= 5 => DOMAIN e.data \cap KeysToMigrate = {}
    /\ e.version = 6 =>
         {"polling_frequency", "change_detection_type"} \subseteq DOMAIN e.options
    /\ e.version = 7 => RequiredOptions \ {"publish_frequency"} \subseteq DOMAIN e.options

LEMMA EmptyDomain == DOMAIN Empty = {}
BY DEF Empty

LEMMA OptionalDomain ==
    ASSUME NEW key, NEW values, NEW dict \in Optional(key, values)
    PROVE  DOMAIN dict \subseteq {key}
BY EmptyDomain DEF Optional, Single

LEMMA StoredShape ==
    ASSUME NEW e \in StoredEntries
    PROVE  Shaped(e) /\ e.version \in 1..6
<1>1. ASSUME NEW v \in {1, 2, 4}, NEW mode, e \in OldEntries(v, mode)
      PROVE  /\ IsEntry(e) /\ e.version = v
             /\ DOMAIN e.options \subseteq {"publish_mode"}
             /\ \E m \in mode : DOMAIN e.data \subseteq
                  DOMAIN m \cup {"publish_frequency", "included_entities", "excluded_entities",
                                 "username"} \cup RetiredData
  <2>1. PICK m \in mode, f \in Frequencies, t \in TargetLists, r \in Present(RetiredData),
             c \in Credentials, o \in ModeOptions :
          e = [version |-> v,
               data |-> Updated(Updated(Updated(m, f), t), Updated(r, c)),
               options |-> o]
    BY <1>1 DEF OldEntries
  <2>2. DOMAIN f \subseteq {"publish_frequency"} /\ DOMAIN c \subseteq {"username"}
    BY <2>1, OptionalDomain DEF Frequencies, Credentials
  <2>3. DOMAIN r \subseteq RetiredData
    BY <2>1, EmptyDomain DEF Present
  <2>4. DOMAIN t \subseteq {"included_entities", "excluded_entities"}
    <3>1. PICK i \in Optional("included_entities", EntityLists),
               x \in Optional("excluded_entities", EntityLists) : t = Updated(i, x)
      BY <2>1 DEF TargetLists
    <3>2. DOMAIN i \subseteq {"included_entities"} /\ DOMAIN x \subseteq {"excluded_entities"}
      BY <3>1, OptionalDomain
    <3> QED
      BY <3>1, <3>2, UpdatedDomain
  <2>5. DOMAIN o \subseteq {"publish_mode"}
    BY <2>1, OptionalDomain DEF ModeOptions
  <2>6. DOMAIN e.data = DOMAIN m \cup DOMAIN f \cup DOMAIN t \cup DOMAIN r \cup DOMAIN c
    <3>1. e.data = Updated(Updated(Updated(m, f), t), Updated(r, c))
      BY <2>1
    <3>2. DOMAIN e.data = DOMAIN Updated(Updated(m, f), t) \cup DOMAIN Updated(r, c)
      BY <3>1, UpdatedDomain
    <3>3. DOMAIN Updated(Updated(m, f), t) = DOMAIN Updated(m, f) \cup DOMAIN t
      BY UpdatedDomain
    <3>4. DOMAIN Updated(m, f) = DOMAIN m \cup DOMAIN f
      BY UpdatedDomain
    <3>5. DOMAIN Updated(r, c) = DOMAIN r \cup DOMAIN c
      BY UpdatedDomain
    <3> QED
      BY <3>2, <3>3, <3>4, <3>5
  <2> QED
    BY <2>1, <2>2, <2>3, <2>4, <2>5, <2>6 DEF IsEntry
<1>2. CASE e \in OldEntries(1, ModesOfVersion1)
  BY <1>1, <1>2 DEF Shaped, VERSION
<1>3. CASE e \in OldEntries(2, Optional("publish_mode", Modes))
  BY <1>1, <1>3 DEF Shaped, VERSION
<1>4. CASE e \in OldEntries(4, Optional("publish_mode", Modes))
  BY <1>1, <1>4 DEF Shaped, VERSION
<1>5. CASE e \in EntriesOfVersion5
  <2>1. IsEntry(e) /\ e.version = 5 /\ e.data = Empty
    BY <1>5 DEF EntriesOfVersion5, IsEntry
  <2> QED
    BY <2>1, EmptyDomain DEF Shaped, VERSION
<1>6. CASE e \in EntriesOfVersion6
  <2>1. PICK o \in FormOptions, t \in TargetLists, r \in Present(RetiredFilters) :
          e = [version |-> 6, data |-> Empty, options |-> Updated(o, Updated(t, r))]
    BY <1>6 DEF EntriesOfVersion6
  <2>2. {"polling_frequency", "change_detection_type"} \subseteq DOMAIN e.options
    <3>1. DOMAIN o \subseteq DOMAIN e.options
      BY <2>1, UpdatedDomain
    <3>2. {"polling_frequency", "change_detection_type"} \subseteq DOMAIN o
      BY <2>1 DEF FormOptions
    <3> QED
      BY <3>1, <3>2
  <2> QED
    BY <2>1, <2>2, EmptyDomain DEF Shaped, VERSION, IsEntry
<1> QED
  BY <1>2, <1>3, <1>4, <1>5, <1>6 DEF StoredEntries

-----------------------------------------------------------------------------
\* What an entry still holds of the entry that was stored.

DetectionHeld(o) ==
    /\ OldMode = "All" => "publish_frequency" \in DOMAIN o
    /\ o.polling_frequency = (IF OldMode = "All" THEN o.publish_frequency ELSE 0)

ListsHeld(e) ==
    \A key \in {"included_entities", "excluded_entities"} :
      Held(e, key, {}) = Chosen(key, {})

ChangesDetected(e, state_changes, attribute_changes) ==
    e.options.change_detection_type =
      (IF OldMode = "State changes" THEN {state_changes}
       ELSE {state_changes, attribute_changes})

TargetsHeld(o) ==
    /\ Lookup(o.targets_to_include, "entity_id", {}) = Chosen("included_entities", {})
    /\ Lookup(o.targets_to_exclude, "entity_id", {}) = Chosen("excluded_entities", {})
    /\ o.include_targets = (Chosen("included_entities", {}) # {})
    /\ o.exclude_targets = (Chosen("excluded_entities", {}) # {})

Faithful(e) ==
    /\ Shaped(e)
    /\ Held(e, "publish_frequency", 0) = Chosen("publish_frequency", 0)
    /\ e.version <= 6 => ListsHeld(e)
    /\ e.version <= 5 => ModeOf(e) = OldMode
    /\ e.version >= 6 /\ original.version < 6 => DetectionHeld(e.options)
    /\ e.version = 6 /\ original.version < 6 => ChangesDetected(e, "STATE", "ATTRIBUTE")
    /\ e.version = 7 /\ original.version < 6 => ChangesDetected(e, "state", "attribute")
    /\ e.version = 7 => TargetsHeld(e.options)

LEMMA StoredIsFaithful ==
    ASSUME original \in StoredEntries
    PROVE  Faithful(original) /\ original.version \in 1..6
<1>1. Shaped(original) /\ original.version \in 1..6
  BY StoredShape
<1>2. \A key, default : Held(original, key, default) = Chosen(key, default)
  BY DEF Held, Chosen
<1>3. ModeOf(original) = OldMode
  BY DEF ModeOf, OldMode, Held, Chosen
<1>4. original.version # 7 /\ ~(original.version >= 6 /\ original.version < 6)
      /\ ~(original.version = 6 /\ original.version < 6)
  BY <1>1
<1> HIDE DEF Held, Chosen
<1> QED
  BY <1>1, <1>2, <1>3, <1>4, Zenon DEF Faithful, ListsHeld

-----------------------------------------------------------------------------
\* The steps keep it.

LEMMA KeepsVersion2 ==
    ASSUME NEW e, Faithful(e), e.version = 1
    PROVE  Faithful(MigrateToVersion2(e)) /\ MigrateToVersion2(e).version = 2
<1> DEFINE new == [publish_mode |-> IF Lookup(e.data, "only_publish_changed", FALSE)
                                    THEN "Any changes" ELSE "All"]
           data == Updated(Without(e.data, {"only_publish_changed"}), new)
           next == [version |-> 2, data |-> data, options |-> e.options]
<1>1. MigrateToVersion2(e) = next
  BY DEF MigrateToVersion2
<1>2. \A key, default : key \notin {"publish_mode", "only_publish_changed"} =>
        Lookup(data, key, default) = Lookup(e.data, key, default)
  <2>1. \A key, default : key # "publish_mode" => Lookup(new, key, default) = default
    BY DEF Lookup
  <2> HIDE DEF new
  <2> QED
    BY <2>1, LookupUpdated, LookupWithout
<1>3. \A default : Lookup(data, "publish_mode", default) = new.publish_mode
  <2>1. \A default : Lookup(new, "publish_mode", default) = new.publish_mode
    BY DEF Lookup
  <2> HIDE DEF new
  <2> QED
    BY <2>1, LookupUpdated
<1>4. Shaped(next)
  BY DEF Shaped, VERSION, IsEntry
<1>5. ModeOf(next) = ModeOf(e)
  <2>1. \A default : Lookup(e.options, "only_publish_changed", default) = default
    BY DEF Lookup, Faithful, Shaped
  <2>2. ModeOf(next) = Lookup(e.options, "publish_mode", new.publish_mode)
    <3> HIDE DEF data, new
    <3> QED
      BY <1>3 DEF ModeOf, Held
  <2>3. ModeOf(e) = Lookup(e.options, "publish_mode", new.publish_mode)
    BY <2>1 DEF ModeOf, Held
  <2> QED
    BY <2>2, <2>3
<1>6. \A key \in {"publish_frequency", "included_entities", "excluded_entities"} : \A default :
        Held(next, key, default) = Held(e, key, default)
  <2> HIDE DEF data
  <2> QED
    BY <1>2 DEF Held
<1> HIDE DEF next
<1>7. next.version = 2
  BY DEF next
<1> QED
  BY <1>1, <1>4, <1>5, <1>6, <1>7 DEF Faithful, ListsHeld

\* The keys that the first steps leave alone.
CarriedKeys == {"publish_frequency", "publish_mode", "included_entities", "excluded_entities"}

LEMMA KeepsVersion3 ==
    ASSUME NEW e, Faithful(e), e.version = 2
    PROVE  Faithful(MigrateToVersion3(e)) /\ MigrateToVersion3(e).version = 3
<1> DEFINE data == Without(e.data, {"health_sensor_enabled"})
           next == [version |-> 3, data |-> data, options |-> e.options]
<1>1. MigrateToVersion3(e) = next
  BY DEF MigrateToVersion3
<1>2. \A key \in CarriedKeys : \A default : Lookup(data, key, default) = Lookup(e.data, key, default)
  BY LookupWithout DEF CarriedKeys
<1>3. \A key \in CarriedKeys : \A default : Held(next, key, default) = Held(e, key, default)
  <2> HIDE DEF data
  <2> QED
    BY <1>2 DEF Held
<1>4. Shaped(next)
  BY DEF Shaped, VERSION, IsEntry
<1>5. next.version = 3
  OBVIOUS
<1> HIDE DEF next
<1>6. ModeOf(next) = ModeOf(e)
  BY <1>3, <1>5 DEF ModeOf, CarriedKeys
<1> QED
  BY <1>1, <1>3, <1>4, <1>5, <1>6 DEF Faithful, CarriedKeys, ListsHeld

LEMMA KeepsVersion4 ==
    ASSUME NEW e, Faithful(e), e.version = 3
    PROVE  Faithful(MigrateToVersion4(e)) /\ MigrateToVersion4(e).version = 4
<1> DEFINE rest == Without(e.data, {"ilm_max_size", "ilm_delete_after"})
           data == Updated([index_mode |-> "index"], rest)
           next == [version |-> 4, data |-> data, options |-> e.options]
<1>1. MigrateToVersion4(e) = next
  BY DEF MigrateToVersion4
<1>2. \A key \in CarriedKeys : \A default : Lookup(data, key, default) = Lookup(e.data, key, default)
  <2>1. \A key \in CarriedKeys : \A default : Lookup([index_mode |-> "index"], key, default) = default
    BY DEF Lookup, CarriedKeys
  <2>2. \A key \in CarriedKeys : \A default : Lookup(rest, key, default) = Lookup(e.data, key, default)
    BY LookupWithout DEF CarriedKeys
  <2> HIDE DEF rest
  <2>3. \A key, default : Lookup(data, key, default) =
          Lookup(rest, key, Lookup([index_mode |-> "index"], key, default))
    BY LookupUpdated
  <2> QED
    BY <2>1, <2>2, <2>3
<1>3. \A key \in CarriedKeys : \A default : Held(next, key, default) = Held(e, key, default)
  <2> HIDE DEF data
  <2> QED
    BY <1>2 DEF Held
<1>4. Shaped(next)
  BY DEF Shaped, VERSION, IsEntry
<1>5. next.version = 4
  OBVIOUS
<1> HIDE DEF next
<1>6. ModeOf(next) = ModeOf(e)
  BY <1>3, <1>5 DEF ModeOf, CarriedKeys
<1> QED
  BY <1>1, <1>3, <1>4, <1>5, <1>6 DEF Faithful, CarriedKeys, ListsHeld

LEMMA KeepsVersion5 ==
    ASSUME NEW e, Faithful(e), e.version = 4
    PROVE  Faithful(MigrateToVersion5(e)) /\ MigrateToVersion5(e).version = 5
<1> DEFINE data == DataKept(e.data)
           moved == Restrict(e.data, KeysToMigrate \cap DOMAIN e.data)
           options == Updated(moved, e.options)
           next == [version |-> 5, data |-> data, options |-> options]
<1>1. MigrateToVersion5(e) = next
  BY DEF MigrateToVersion5
<1>2. DOMAIN data \cap KeysToMigrate = {}
  BY DEF DataKept, Without, Restrict
<1>3. \A key \in KeysToMigrate : \A default : Lookup(data, key, default) = default
  <2> HIDE DEF data
  <2> QED
    BY <1>2 DEF Lookup
<1>4. \A key \in KeysToMigrate : \A default :
        Lookup(options, key, default) = Lookup(e.options, key, Lookup(e.data, key, default))
  <2>1. \A key \in KeysToMigrate : \A default :
          Lookup(moved, key, default) = Lookup(e.data, key, default)
    BY LookupRestricted
  <2> HIDE DEF moved
  <2> QED
    BY <2>1, LookupUpdated
<1>5. \A key \in KeysToMigrate : \A default : Held(next, key, default) = Held(e, key, default)
  <2> HIDE DEF data, options
  <2> QED
    BY <1>3, <1>4 DEF Held
<1>6. Shaped(next)
  <2> HIDE DEF data, options
  <2> QED
    BY <1>2 DEF Shaped, VERSION, IsEntry
<1>7. next.version = 5
  OBVIOUS
<1>8. CarriedKeys \subseteq KeysToMigrate
  BY DEF CarriedKeys, KeysToMigrate
<1> HIDE DEF next
<1>9. ModeOf(next) = ModeOf(e)
  BY <1>5, <1>7, <1>8 DEF ModeOf, CarriedKeys
<1>10. \A key \in CarriedKeys : \A default : Held(next, key, default) = Held(e, key, default)
  BY <1>5, <1>8
<1> QED
  BY <1>1, <1>6, <1>7, <1>9, <1>10 DEF Faithful, CarriedKeys, ListsHeld

LEMMA KeepsVersion6 ==
    ASSUME NEW e, Faithful(e), e.version = 5, ~RaisesKeyError(e)
    PROVE  Faithful(MigrateToVersion6(e)) /\ MigrateToVersion6(e).version = 6
<1> DEFINE mode == PublishMode(e.options)
           kept == Without(e.options, OptionsToRemove)
           new == [polling_frequency |-> IF mode = "All" THEN e.options.publish_frequency ELSE 0,
                   change_detection_type |-> IF mode = "State changes" THEN {"STATE"}
                                             ELSE {"STATE", "ATTRIBUTE"}]
           data == Without(e.data, {"index_mode"})
           options == Updated(kept, new)
           next == [version |-> 6, data |-> data, options |-> options]
           Lists == {"publish_frequency", "included_entities", "excluded_entities"}
<1>1. MigrateToVersion6(e) = next
  BY DEF MigrateToVersion6
<1>2. DOMAIN e.data \cap KeysToMigrate = {}
  BY DEF Faithful, Shaped
<1>3. DOMAIN data \cap KeysToMigrate = {}
  BY <1>2 DEF Without, Restrict
<1>4. \A key \in KeysToMigrate : \A default :
        Lookup(e.data, key, default) = default /\ Lookup(data, key, default) = default
  <2> HIDE DEF data
  <2> QED
    BY <1>2, <1>3 DEF Lookup
<1>5. mode = OldMode
  <2>1. Held(e, "publish_mode", None) = OldMode
    BY DEF Faithful, ModeOf
  <2>2. "publish_mode" \in KeysToMigrate
    BY DEF KeysToMigrate
  <2> QED
    BY <2>1, <2>2, <1>4 DEF Held, PublishMode
<1>6. \A key \in Lists : \A default : Lookup(options, key, default) = Lookup(e.options, key, default)
  <2>1. \A key \in Lists : \A default : Lookup(kept, key, default) = Lookup(e.options, key, default)
    BY LookupWithout DEF OptionsToRemove
  <2>2. \A key \in Lists : \A default : Lookup(new, key, default) = default
    BY DEF Lookup
  <2> HIDE DEF kept, new, Lists
  <2>3. \A key, default : Lookup(options, key, default) = Lookup(new, key, Lookup(kept, key, default))
    BY LookupUpdated
  <2> QED
    BY <2>1, <2>2, <2>3
<1>7. \A key \in Lists : \A default : Held(next, key, default) = Held(e, key, default)
  <2>1. Lists \subseteq KeysToMigrate
    BY DEF KeysToMigrate
  <2> HIDE DEF data, options, Lists
  <2> QED
    BY <2>1, <1>4, <1>6 DEF Held
<1>8. /\ {"polling_frequency", "change_detection_type"} \subseteq DOMAIN options
      /\ options.polling_frequency = new.polling_frequency
      /\ options.change_detection_type = new.change_detection_type
  <2>1. {"polling_frequency", "change_detection_type"} = DOMAIN new
    OBVIOUS
  <2> HIDE DEF new, kept
  <2> QED
    BY <2>1, UpdatedKey
<1>9. DetectionHeld(options)
  <2>1. CASE OldMode = "All"
    <3>1. "publish_frequency" \in DOMAIN e.options
      BY <2>1, <1>5 DEF RaisesKeyError
    <3>2. /\ "publish_frequency" \in DOMAIN options
          /\ options.publish_frequency = e.options.publish_frequency
      <4>1. "publish_frequency" \in DOMAIN kept /\ kept.publish_frequency = e.options.publish_frequency
        BY <3>1 DEF Without, Restrict, OptionsToRemove
      <4>2. "publish_frequency" \notin DOMAIN new
        OBVIOUS
      <4> HIDE DEF kept, new
      <4> QED
        BY <4>1, <4>2, KeyNotUpdated
    <3>3. new.polling_frequency = e.options.publish_frequency
      BY <2>1, <1>5
    <3> HIDE DEF options, new
    <3> QED
      BY <3>2, <3>3, <2>1, <1>8 DEF DetectionHeld
  <2>2. CASE OldMode # "All"
    <3>1. new.polling_frequency = 0
      BY <2>2, <1>5
    <3> HIDE DEF options, new
    <3> QED
      BY <3>1, <2>2, <1>8 DEF DetectionHeld
  <2> QED
    BY <2>1, <2>2
<1>10. options.change_detection_type =
         (IF OldMode = "State changes" THEN {"STATE"} ELSE {"STATE", "ATTRIBUTE"})
  <2>1. new.change_detection_type =
          (IF OldMode = "State changes" THEN {"STATE"} ELSE {"STATE", "ATTRIBUTE"})
    BY <1>5
  <2> QED
    BY <2>1, <1>8
<1>11. Shaped(next)
  <2> HIDE DEF data, options
  <2>1. IsEntry(next) /\ next.version = 6 /\ next.data = data /\ next.options = options
    BY DEF IsEntry
  <2>2. {"polling_frequency", "change_detection_type"} \subseteq DOMAIN options
    BY <1>8
  <2> HIDE DEF next, new
  <2>3. IsEntry(next) /\ next.version \in 1..VERSION /\ next.version # 1 /\ next.version # 7
    BY <2>1 DEF VERSION
  <2> QED
    BY <2>1, <2>2, <2>3, <1>3, Zenon DEF Shaped
<1>12. next.version = 6 /\ next.options = options
  OBVIOUS
<1> HIDE DEF next, options
<1>13. ListsHeld(next)
  <2>1. ListsHeld(e)
    BY DEF Faithful
  <2> QED
    BY <2>1, <1>7 DEF ListsHeld
<1>14. ChangesDetected(next, "STATE", "ATTRIBUTE")
  BY <1>10, <1>12 DEF ChangesDetected
<1>15. Held(next, "publish_frequency", 0) = Chosen("publish_frequency", 0)
  BY <1>7 DEF Faithful
<1> QED
  BY <1>1, <1>9, <1>11, <1>12, <1>13, <1>14, <1>15 DEF Faithful

LEMMA KeepsVersion7 ==
    ASSUME NEW e, Faithful(e), e.version = 6
    PROVE  Faithful(MigrateToVersion7(e)) /\ MigrateToVersion7(e).version = 7
<1> DEFINE included == Lookup(e.options, "included_entities", {})
           excluded == Lookup(e.options, "excluded_entities", {})
           lists == {"excluded_domains", "excluded_entities",
                     "included_domains", "included_entities"}
           kept == Without(e.options, lists)
           new == [include_targets |-> included # {},
                   exclude_targets |-> excluded # {},
                   targets_to_include |-> TargetsOf(included),
                   targets_to_exclude |-> TargetsOf(excluded),
                   tags |-> Lookup(e.options, "tags", {}),
                   change_detection_type |-> {Lower(t) : t \in e.options.change_detection_type}]
           options == Updated(kept, new)
           next == [version |-> 7, data |-> e.data, options |-> options]
<1>1. MigrateToVersion7(e) = next
  BY DEF MigrateToVersion7, OptionsOfVersion7
<1>2. /\ DOMAIN e.data \cap KeysToMigrate = {}
      /\ \A key \in KeysToMigrate : \A default : Lookup(e.data, key, default) = default
  <2>1. Shaped(e)
    BY DEF Faithful
  <2>2. DOMAIN e.data \cap KeysToMigrate = {}
    BY <2>1 DEF Shaped
  <2> QED
    BY <2>2 DEF Lookup
<1>3. /\ included = Chosen("included_entities", {})
      /\ excluded = Chosen("excluded_entities", {})
  <2>1. /\ Held(e, "included_entities", {}) = Chosen("included_entities", {})
        /\ Held(e, "excluded_entities", {}) = Chosen("excluded_entities", {})
    BY DEF Faithful, ListsHeld
  <2>2. {"included_entities", "excluded_entities"} \subseteq KeysToMigrate
    BY DEF KeysToMigrate
  <2> QED
    BY <2>1, <2>2, <1>2 DEF Held
<1>4. DOMAIN new = {"include_targets", "exclude_targets", "targets_to_include",
                    "targets_to_exclude", "tags", "change_detection_type"}
  OBVIOUS
<1>5. /\ new.include_targets = (included # {}) /\ new.exclude_targets = (excluded # {})
      /\ new.targets_to_include = TargetsOf(included)
      /\ new.targets_to_exclude = TargetsOf(excluded)
      /\ new.change_detection_type = {Lower(t) : t \in e.options.change_detection_type}
  OBVIOUS
<1>6. \A key \in DOMAIN new : key \in DOMAIN options /\ options[key] = new[key]
  <2> HIDE DEF new, kept
  <2> QED
    BY UpdatedKey
<1>7. \A key \in DOMAIN e.options \ (DOMAIN new \cup lists) :
        key \in DOMAIN options /\ options[key] = e.options[key]
  <2>1. \A key \in DOMAIN e.options \ lists : key \in DOMAIN kept /\ kept[key] = e.options[key]
    BY DEF Without, Restrict
  <2> HIDE DEF new, kept, lists
  <2> QED
    BY <2>1, KeyNotUpdated
<1>8. {"polling_frequency", "change_detection_type"} \subseteq DOMAIN e.options
  BY DEF Faithful, Shaped
<1>9. \A default : Lookup(options, "publish_frequency", default) =
                   Lookup(e.options, "publish_frequency", default)
  <2>1. \A default : Lookup(kept, "publish_frequency", default) =
                     Lookup(e.options, "publish_frequency", default)
    BY LookupWithout
  <2>2. \A default : Lookup(new, "publish_frequency", default) = default
    BY <1>4 DEF Lookup
  <2> HIDE DEF new, kept
  <2>3. \A default : Lookup(options, "publish_frequency", default) =
          Lookup(new, "publish_frequency", Lookup(kept, "publish_frequency", default))
    BY LookupUpdated
  <2> QED
    BY <2>1, <2>2, <2>3
<1> HIDE DEF options, kept, included, excluded
<1>10. Held(next, "publish_frequency", 0) = Chosen("publish_frequency", 0)
  BY <1>9 DEF Held, Faithful
<1>11. ASSUME original.version < 6
       PROVE  /\ DetectionHeld(options)
              /\ options.change_detection_type =
                   (IF OldMode = "State changes" THEN {"state"} ELSE {"state", "attribute"})
  <2>1. DetectionHeld(e.options)
    BY <1>11 DEF Faithful
  <2>2. options.polling_frequency = e.options.polling_frequency
    BY <1>4, <1>7, <1>8
  <2>3. "publish_frequency" \in DOMAIN e.options =>
          /\ "publish_frequency" \in DOMAIN options
          /\ options.publish_frequency = e.options.publish_frequency
    BY <1>4, <1>7
  <2>4. e.options.change_detection_type =
          (IF OldMode = "State changes" THEN {"STATE"} ELSE {"STATE", "ATTRIBUTE"})
    BY <1>11 DEF Faithful, ChangesDetected
  <2>5. Lower("STATE") = "state" /\ Lower("ATTRIBUTE") = "attribute"
    BY DEF Lower
  <2>6. options.change_detection_type = {Lower(t) : t \in e.options.change_detection_type}
    BY <1>4, <1>5, <1>6
  <2> QED
    BY <2>1, <2>2, <2>3, <2>4, <2>5, <2>6 DEF DetectionHeld
<1>12. /\ Lookup(options.targets_to_include, "entity_id", {}) = included
       /\ Lookup(options.targets_to_exclude, "entity_id", {}) = excluded
  <2>1. \A entities : Lookup(TargetsOf(entities), "entity_id", {}) = entities
    BY DEF Lookup, TargetsOf, Single, Empty
  <2> QED
    BY <2>1, <1>4, <1>5, <1>6
<1>13. /\ options.include_targets = (included # {})
       /\ options.exclude_targets = (excluded # {})
  BY <1>4, <1>5, <1>6
<1>14. Shaped(next)
  <2>1. RequiredOptions \ {"publish_frequency"} \subseteq DOMAIN options
    BY <1>4, <1>6, <1>7, <1>8 DEF RequiredOptions
  <2>2. /\ IsEntry(next) /\ next.version = 7
        /\ next.data = e.data /\ next.options = options
    BY DEF IsEntry
  <2> HIDE DEF next, new
  <2> QED
    BY <2>1, <2>2, <1>2 DEF Shaped, VERSION
<1>15. next.version = 7 /\ next.options = options
  OBVIOUS
<1> HIDE DEF next, new
<1>16. TargetsHeld(options)
  BY <1>3, <1>12, <1>13 DEF TargetsHeld
<1>17. original.version < 6 => ChangesDetected(next, "state", "attribute")
  BY <1>11, <1>15 DEF ChangesDetected
<1>18. original.version < 6 => DetectionHeld(next.options)
  BY <1>11, <1>15
<1>19. TargetsHeld(next.options)
  BY <1>15, <1>16
<1>20. next.version = 7
  BY <1>15
<1>21. ~(next.version <= 6) /\ ~(next.version <= 5) /\ ~(next.version = 6)
  BY <1>20
<1> QED
  BY <1>1, <1>10, <1>14, <1>17, <1>18, <1>19, <1>20, <1>21, Zenon DEF Faithful

LEMMA StepKeeps ==
    ASSUME NEW e, Faithful(e), e.version < VERSION, ~RaisesKeyError(e)
    PROVE  Faithful(MigrateOneVersion(e)) /\ MigrateOneVersion(e).version \in 1..VERSION
<1>1. e.version \in 1..6
  BY DEF Faithful, Shaped, VERSION
<1>2. CASE e.version = 1
  BY <1>2, KeepsVersion2 DEF MigrateOneVersion, VERSION
<1>3. CASE e.version = 2
  BY <1>3, KeepsVersion3 DEF MigrateOneVersion, VERSION
<1>4. CASE e.version = 3
  BY <1>4, KeepsVersion4 DEF MigrateOneVersion, VERSION
<1>5. CASE e.version = 4
  BY <1>5, KeepsVersion5 DEF MigrateOneVersion, VERSION
<1>6. CASE e.version = 5
  BY <1>6, KeepsVersion6 DEF MigrateOneVersion, VERSION
<1>7. CASE e.version = 6
  BY <1>7, KeepsVersion7 DEF MigrateOneVersion, VERSION
<1> QED
  BY <1>1, <1>2, <1>3, <1>4, <1>5, <1>6, <1>7

-----------------------------------------------------------------------------
\* An entry that says how often to publish gets through.

LEMMA FrequencyIsRead ==
    ASSUME NEW e, Faithful(e), Chosen("publish_frequency", 0) # 0, e.version >= 5
    PROVE  "publish_frequency" \in DOMAIN e.options
<1>1. DOMAIN e.data \cap KeysToMigrate = {}
  BY DEF Faithful, Shaped
<1>2. Lookup(e.data, "publish_frequency", 0) = 0
  BY <1>1 DEF Lookup, KeysToMigrate
<1>3. Held(e, "publish_frequency", 0) # 0
  BY DEF Faithful
<1> QED
  BY <1>2, <1>3 DEF Held, Lookup

LEMMA FrequencyMigrates ==
    ASSUME NEW e, Faithful(e), Chosen("publish_frequency", 0) # 0
    PROVE  ~RaisesKeyError(e)
BY FrequencyIsRead DEF RaisesKeyError

LEMMA FrequencySetsUp ==
    ASSUME NEW e, Faithful(e), Chosen("publish_frequency", 0) # 0, e.version = VERSION
    PROVE  RequiredOptions \subseteq DOMAIN e.options
<1>1. "publish_frequency" \in DOMAIN e.options
  BY FrequencyIsRead DEF VERSION
<1>2. RequiredOptions \ {"publish_frequency"} \subseteq DOMAIN e.options
  BY DEF Faithful, Shaped, VERSION
<1> QED
  BY <1>1, <1>2

-----------------------------------------------------------------------------
\* The invariant.

AllOrNothing == stored = original \/ stored.version = VERSION

SettingsAreRead ==
    /\ state = "set up" =>
         /\ stored.version = VERSION
         /\ settings = PipelineSettings(stored.options)
    /\ state # "set up" => settings = Empty

Inv ==
    /\ original.version \in 1..6
    /\ state \in {"not loaded", "migrating", "migration error", "set up", "setup error"}
    /\ Faithful(stored) /\ Faithful(working)
    /\ AllOrNothing
    /\ state = "migrating" => stored.version # VERSION
    /\ SettingsAreRead
    /\ EntryWithFrequencyIsUsable

LEMMA InitInv == Init => Inv
<1> SUFFICES ASSUME Init PROVE Inv
  OBVIOUS
<1>1. Faithful(original) /\ original.version \in 1..6
  BY StoredIsFaithful DEF Init
<1> QED
  BY <1>1 DEF Init, Inv, AllOrNothing, SettingsAreRead, EntryWithFrequencyIsUsable

\* The entry that was stored stays what it was.
LEMMA OriginalStays ==
    ASSUME [Next]_vars
    PROVE  original' = original
BY DEF Next, vars, MigrationStarts, MigrationStep, MigrationFails, MigrationEnds,
       Restarts, SetUp, SetUpFails

LEMMA WorkingStaysFaithful ==
    ASSUME original' = original, Faithful(working')
    PROVE  Faithful(working)'
BY DEF Faithful, ListsHeld, DetectionHeld, ChangesDetected, TargetsHeld, OldMode, Chosen

LEMMA StoredStaysFaithful ==
    ASSUME original' = original, Faithful(stored')
    PROVE  Faithful(stored)'
BY DEF Faithful, ListsHeld, DetectionHeld, ChangesDetected, TargetsHeld, OldMode, Chosen

LEMMA FrequencyStays ==
    ASSUME original' = original
    PROVE  Chosen("publish_frequency", 0)' = Chosen("publish_frequency", 0)
BY DEF Chosen

LEMMA StepInv == Inv /\ [Next]_vars => Inv'
<1> SUFFICES ASSUME Inv, [Next]_vars PROVE Inv'
  OBVIOUS
<1> USE DEF Inv
<1>0. /\ original' = original
      /\ Chosen("publish_frequency", 0)' = Chosen("publish_frequency", 0)
  BY OriginalStays, FrequencyStays
<1>1. CASE MigrationStarts
  <2>1. Faithful(working') /\ Faithful(stored')
    BY <1>1 DEF MigrationStarts
  <2>2. Faithful(working)' /\ Faithful(stored)'
    BY <2>1, <1>0, WorkingStaysFaithful, StoredStaysFaithful
  <2> QED
    BY <2>2, <1>0, <1>1 DEF MigrationStarts, AllOrNothing, SettingsAreRead,
       EntryWithFrequencyIsUsable
<1>2. CASE MigrationStep
  <2>1. Faithful(working') /\ Faithful(stored')
    BY <1>2, StepKeeps DEF MigrationStep
  <2>2. Faithful(working)' /\ Faithful(stored)'
    BY <2>1, <1>0, WorkingStaysFaithful, StoredStaysFaithful
  <2> QED
    BY <2>2, <1>0, <1>2 DEF MigrationStep, AllOrNothing, SettingsAreRead,
       EntryWithFrequencyIsUsable
<1>3. CASE MigrationFails
  <2>1. Faithful(working') /\ Faithful(stored')
    BY <1>3 DEF MigrationFails
  <2>2. Faithful(working)' /\ Faithful(stored)'
    BY <2>1, <1>0, WorkingStaysFaithful, StoredStaysFaithful
  <2>3. Chosen("publish_frequency", 0) = 0
    BY <1>3, FrequencyMigrates DEF MigrationFails
  <2> QED
    BY <2>2, <2>3, <1>0, <1>3 DEF MigrationFails, AllOrNothing, SettingsAreRead,
       EntryWithFrequencyIsUsable
<1>4. CASE MigrationEnds
  <2>1. Faithful(working') /\ Faithful(stored')
    BY <1>4 DEF MigrationEnds
  <2>2. Faithful(working)' /\ Faithful(stored)'
    BY <2>1, <1>0, WorkingStaysFaithful, StoredStaysFaithful
  <2> QED
    BY <2>2, <1>0, <1>4 DEF MigrationEnds, AllOrNothing, SettingsAreRead,
       EntryWithFrequencyIsUsable
<1>5. CASE Restarts
  <2>1. Faithful(working') /\ Faithful(stored')
    BY <1>5 DEF Restarts
  <2>2. Faithful(working)' /\ Faithful(stored)'
    BY <2>1, <1>0, WorkingStaysFaithful, StoredStaysFaithful
  <2> QED
    BY <2>2, <1>0, <1>5 DEF Restarts, AllOrNothing, SettingsAreRead,
       EntryWithFrequencyIsUsable
<1>6. CASE SetUp
  <2>1. Faithful(working') /\ Faithful(stored')
    BY <1>6 DEF SetUp
  <2>2. Faithful(working)' /\ Faithful(stored)'
    BY <2>1, <1>0, WorkingStaysFaithful, StoredStaysFaithful
  <2>3. SettingsAreRead'
    BY <1>6 DEF SetUp, SettingsAreRead, PipelineSettings
  <2> QED
    BY <2>2, <2>3, <1>0, <1>6 DEF SetUp, AllOrNothing, EntryWithFrequencyIsUsable
<1>7. CASE SetUpFails
  <2>1. Faithful(working') /\ Faithful(stored')
    BY <1>7 DEF SetUpFails
  <2>2. Faithful(working)' /\ Faithful(stored)'
    BY <2>1, <1>0, WorkingStaysFaithful, StoredStaysFaithful
  <2>3. Chosen("publish_frequency", 0) = 0
    BY <1>7, FrequencySetsUp DEF SetUpFails
  <2> QED
    BY <2>2, <2>3, <1>0, <1>7 DEF SetUpFails, AllOrNothing, SettingsAreRead,
       EntryWithFrequencyIsUsable
<1>8. CASE UNCHANGED vars
  <2>1. Faithful(working') /\ Faithful(stored')
    BY <1>8 DEF vars
  <2>2. Faithful(working)' /\ Faithful(stored)'
    BY <2>1, <1>0, WorkingStaysFaithful, StoredStaysFaithful
  <2> QED
    BY <2>2, <1>0, <1>8 DEF vars, AllOrNothing, SettingsAreRead,
       EntryWithFrequencyIsUsable
<1> QED
  BY <1>1, <1>2, <1>3, <1>4, <1>5, <1>6, <1>7, <1>8 DEF Next

LEMMA Invariance == Spec => []Inv
  BY InitInv, StepInv, PTL DEF Spec

-----------------------------------------------------------------------------
\* The state of the set-up and the entry agree, whatever the entry holds.
THEOREM TypeCorrect == Spec => []TypeOK
<1>1. Inv => TypeOK
  <2> SUFFICES ASSUME Inv PROVE TypeOK
    OBVIOUS
  <2>1. stored.version \in 1..VERSION /\ working.version \in 1..VERSION
    BY DEF Inv, Faithful, Shaped
  <2>2. \A options : PipelineSettings(options) # Empty
    BY EmptyDomain DEF PipelineSettings
  <2> QED
    BY <2>1, <2>2 DEF Inv, TypeOK, SettingsAreRead
<1> QED
  BY <1>1, Invariance, PTL

\* Every entry of an earlier release that says how often to publish gets
\* through async_migrate_entry and the reading of its settings.
THEOREM FrequencyIsEnough == Spec => []EntryWithFrequencyIsUsable
<1>1. Inv => EntryWithFrequencyIsUsable
  BY DEF Inv
<1> QED
  BY <1>1, Invariance, PTL

\* The publish mode of an old entry lives on in its polling frequency and its
\* change detection types, whichever dictionary it was in.
THEOREM DetectionSurvives == Spec => []DetectionIsPreserved
<1>0. 7 >= 6
  OBVIOUS
<1>1. Inv => DetectionIsPreserved
  <2> SUFFICES ASSUME Inv, state = "set up", original.version < 6
               PROVE  /\ settings.polling_frequency =
                           (IF OldMode = "All" THEN settings.publish_frequency ELSE 0)
                      /\ "attribute" \in settings.change_detection_type
                           <=> OldMode # "State changes"
                      /\ "state" \in settings.change_detection_type
    BY DEF DetectionIsPreserved
  <2>1. stored.version = 7 /\ settings = PipelineSettings(stored.options)
    BY DEF Inv, SettingsAreRead, VERSION
  <2>0. Faithful(stored)
    BY DEF Inv
  <2>2. DetectionHeld(stored.options) /\ ChangesDetected(stored, "state", "attribute")
    <3>1. stored.version = 7
      BY <2>1
    <3>3. stored.version >= 6
      BY <1>0, <3>1, Zenon
    <3> QED
      BY <2>0, <3>1, <3>3 DEF Faithful
  <2>3. /\ settings.polling_frequency = stored.options.polling_frequency
        /\ settings.publish_frequency = stored.options.publish_frequency
        /\ settings.change_detection_type = stored.options.change_detection_type
    BY <2>1 DEF PipelineSettings
  <2>4. settings.polling_frequency =
          (IF OldMode = "All" THEN settings.publish_frequency ELSE 0)
    BY <2>2, <2>3 DEF DetectionHeld
  <2>5. settings.change_detection_type =
          (IF OldMode = "State changes" THEN {"state"} ELSE {"state", "attribute"})
    BY <2>2, <2>3 DEF ChangesDetected
  <2>6. "attribute" \in settings.change_detection_type <=> OldMode # "State changes"
    <3>1. "attribute" \notin {"state"} /\ "attribute" \in {"state", "attribute"}
      OBVIOUS
    <3> QED
      BY <2>5, <3>1, Zenon
  <2>7. "state" \in settings.change_detection_type
    BY <2>5
  <2> QED
    BY <2>4, <2>6, <2>7
<1> QED
  BY <1>1, Invariance, PTL

\* The lists of entities of an old entry are the targets of the new one, each
\* in force exactly if it names an entity.
THEOREM TargetsSurvive == Spec => []TargetsArePreserved
<1>1. Inv => TargetsArePreserved
  <2> SUFFICES ASSUME Inv, state = "set up"
               PROVE  /\ settings.included_entities = Chosen("included_entities", {})
                      /\ settings.excluded_entities = Chosen("excluded_entities", {})
                      /\ settings.include_targets <=> settings.included_entities # {}
                      /\ settings.exclude_targets <=> settings.excluded_entities # {}
    BY DEF TargetsArePreserved
  <2>1. stored.version = 7 /\ settings = PipelineSettings(stored.options)
    BY DEF Inv, SettingsAreRead, VERSION
  <2>2. TargetsHeld(stored.options)
    BY <2>1 DEF Inv, Faithful
  <2>3. /\ settings.include_targets = stored.options.include_targets
        /\ settings.exclude_targets = stored.options.exclude_targets
        /\ settings.included_entities =
             Lookup(stored.options.targets_to_include, "entity_id", {})
        /\ settings.excluded_entities =
             Lookup(stored.options.targets_to_exclude, "entity_id", {})
    BY <2>1 DEF PipelineSettings
  <2> QED
    BY <2>2, <2>3 DEF TargetsHeld
<1> QED
  BY <1>1, Invariance, PTL

\* Whenever the stored entry changes, a whole migration is saved over the
\* entry of the earlier release.
THEOREM MigrationIsAtomic == Spec => MigrationIsAllOrNothing
<1>1. Inv /\ [Next]_vars =>
        [stored' # stored => stored = original /\ stored'.version = VERSION]_vars
  <2> SUFFICES ASSUME Inv, Next, stored' # stored
               PROVE  stored = original /\ stored'.version = VERSION
    OBVIOUS
  <2>1. MigrationEnds
    BY DEF Next, MigrationStarts, MigrationStep, MigrationFails, Restarts, SetUp, SetUpFails
  <2> QED
    BY <2>1 DEF MigrationEnds, Inv, AllOrNothing
<1> QED
  BY <1>1, Invariance, PTL DEF Spec, MigrationIsAllOrNothing
=============================================================================
