------------------------------ MODULE Formatter ------------------------------
(***************************************************************************)
(* How a queued state becomes a document: Pipeline.Formatter of            *)
(* os_publish_pipeline.py, with entity_details.py, encoder.py and utils.py *)
(* as far as it uses them, and the fields that the index template maps     *)
(* (datastreams/index_template.py).  The module is pure.                   *)
(*                                                                         *)
(* A nested dictionary is the function it is flattened to, from the path   *)
(* of a value, a sequence of keys, to the value.                           *)
(***************************************************************************)
EXTENDS Filterer, Integers, Sequences, FiniteSets

CONSTANTS
    FloorOf,    \* the floor of each area, or None
    Known       \* which of the static fields are known and not empty

Leaf(value) == [path \in {<<>>} |-> value]

Dict(children) ==
    [path \in UNION {{<<key>> \o p : p \in DOMAIN children[key]} : key \in DOMAIN children} |->
        children[Head(path)][Tail(path)]]

At(prefix, dict) ==
    [path \in {prefix \o p : p \in DOMAIN dict} |->
        dict[SubSeq(path, Len(prefix) + 1, Len(path))]]

\* A dictionary updated with one after another.  An empty one has no path.
Merged(dicts) ==
    [path \in UNION {DOMAIN dicts[i] : i \in DOMAIN dicts} |->
        LET last == CHOOSE i \in DOMAIN dicts :
                        /\ path \in DOMAIN dicts[i]
                        /\ \A j \in DOMAIN dicts : path \in DOMAIN dicts[j] => j <= i
        IN  dicts[last][path]]

-----------------------------------------------------------------------------
\* entity_details.py.

Listed(set) == IF set = {} THEN "empty_list" ELSE "list"

AreaDict(area) ==
    IF area = None THEN Leaf(None)
    ELSE Dict([id |-> Leaf(area), name |-> Leaf("text"),
               floor |-> IF FloorOf[area] = None THEN Leaf(None)
                         ELSE Dict([id |-> Leaf(FloorOf[area]), name |-> Leaf("text")])])

DeviceDict(device) ==
    IF device = None THEN Leaf(None)
    ELSE Dict([id |-> Leaf(device.id), name |-> Leaf("text"),
               area |-> AreaDict(device.area), labels |-> Leaf(Listed(device.labels))])

\* ExtendedRegistryEntry.to_dict and what the state adds to it.  A coordinate
\* that is 0 counts as none.
EntityDict(entry, state) ==
    Dict([id |-> Leaf("text"), name |-> Leaf("text"), domain |-> Leaf("text"),
          area |-> AreaDict(entry.area), device_class |-> Leaf("text"),
          device |-> DeviceDict(entry.device), labels |-> Leaf(Listed(entry.labels)),
          platform |-> Leaf("text"), unit_of_measurement |-> Leaf("text"),
          friendly_name |-> Leaf("text"),
          location |-> IF \A coordinate \in {state.latitude, state.longitude} :
                            coordinate \notin {None, 0}
                       THEN Leaf("point") ELSE <<>>])

-----------------------------------------------------------------------------
\* Attributes.  A name is a sequence of characters: letters, one of them with
\* an accent and one of a script without an ASCII equivalent, a digit, an
\* underscore, a blank and another character that is no word character.

Characters == {"a", "A", "a_acute", "kanji", "1", "underscore", "blank", "mark"}

IsWord(character) == character \in {"a", "A", "1", "underscore"}

\* The items of a sequence at some of its positions, in their order
Picked(seq, positions) ==
    [n \in 1..Cardinality(positions) |->
        seq[CHOOSE p \in positions : Cardinality({q \in positions : q <= p}) = n]]

\* NFKD and the ASCII characters of the result
Ascii(name) ==
    LET kept == Picked(name, {i \in DOMAIN name : name[i] # "kanji"}) IN
    [i \in DOMAIN kept |-> IF kept[i] = "a_acute" THEN "a" ELSE kept[i]]

\* A run of characters that are no word characters gives one underscore.
Underscored(name) ==
    LET kept == Picked(name, {i \in DOMAIN name :
                                IsWord(name[i]) \/ i = 1 \/ IsWord(name[i - 1])}) IN
    [i \in DOMAIN kept |-> IF IsWord(kept[i]) THEN kept[i] ELSE "underscore"]

Lower(name) == [i \in DOMAIN name |-> IF name[i] = "A" THEN "a" ELSE name[i]]

Stripped(name) ==
    LET inner == {i \in DOMAIN name : name[i] # "underscore"} IN
    IF inner = {} THEN <<>>
    ELSE SubSeq(name, CHOOSE i \in inner : \A j \in inner : i <= j,
                      CHOOSE i \in inner : \A j \in inner : i >= j)

\* A plausible slip: what is stripped is the name and not what became of it.
NormalizeAttributeNameStrippedEarly(name) == Lower(Underscored(Stripped(Ascii(name))))

\* normalize_attribute_name
NormalizeAttributeName(name) == Lower(Stripped(Underscored(Ascii(name))))

\* An attribute is a key of some kind, with the name of an ordinary one, and a
\* kind of value.
ValueKinds == {"number", "text", "none", "empty_list", "list", "set", "empty_set",
               "mixed_set", "dict", "dict_with_datetime", "datetime", "object"}

ASSUME NoneIsNoValueKind == None \notin ValueKinds

FilterAttribute(attribute) ==
    /\ attribute.key \notin {"skipped", "not_a_string"}
    /\ attribute.value \notin {"datetime", "object"}
    /\ \E i \in DOMAIN attribute.name : attribute.name[i] # "blank"

\* convert_set_to_list sorts what was a set and makes text of a dictionary;
\* each may fail.
ConversionRaises(value) == value \in {"mixed_set", "dict_with_datetime"}

ConvertSetToList(value) ==
    CASE value = "set" -> "list"
      [] value = "empty_set" -> "empty_list"
      [] value = "dict" -> "text"
      [] OTHER -> value

\* The entry that an attribute makes, if it is allowed
AttributeEntry(attribute) ==
    IF FilterAttribute(attribute)
    THEN At(<<NormalizeAttributeName(attribute.name)>>, Leaf(ConvertSetToList(attribute.value)))
    ELSE <<>>

\* A plausible slip: the first of two attributes with one key stays.
StateToAttributesFirstStays(attributes) ==
    Merged([i \in DOMAIN attributes |->
                AttributeEntry(attributes[Len(attributes) + 1 - i])])

\* _state_to_attributes: of two attributes with one key the later one stays.
StateToAttributes(attributes) ==
    Merged([i \in DOMAIN attributes |-> AttributeEntry(attributes[i])])

-----------------------------------------------------------------------------
\* The document.

\* The texts that states have, as far as the coercion tells them apart:
\* "locked" and the like are in "on", "closed" and the like in "off".
StateValues == {"on", "off", "unknown", "number", "infinity", "datetime", "text"}

\* _state_to_coerced_value
Coerced(value) ==
    CASE value = "on" -> Dict([boolean |-> Leaf("true")])
      [] value \in {"off", "unknown"} -> Dict([boolean |-> Leaf("false")])
      [] value = "number" -> Dict([float |-> Leaf("number")])
      [] value = "datetime" -> Dict([datetime |-> Leaf("datetime"), date |-> Leaf("date"),
                                     time |-> Leaf("time")])
      [] OTHER -> Dict([string |-> Leaf(value)])

ToPublishReason ==
    [STATE |-> "State change", ATTRIBUTE |-> "Attribute change", NO_CHANGE |-> "Polling"]

\* The fields that Pipeline.Manager finds out once.
StaticFields ==
    [path \in Known |-> IF path = <<"tags">> THEN "list" ELSE "text"]

AllStaticFields ==
    {<<"agent", "version">>, <<"host", "architecture">>, <<"host", "os", "name">>,
     <<"host", "hostname">>, <<"host", "location">>, <<"tags">>}

ASSUME KnownIsStatic == Known \subseteq AllStaticFields

SKIP_VALUES == {None, "none", "empty_list"}

PrepareDict(dict) ==
    [path \in {p \in DOMAIN dict : dict[p] \notin SKIP_VALUES} |-> dict[path]]

\* A document cannot be made of the state of an entity that is gone, nor of
\* an attribute that cannot be converted.
FormatRaises(entry, state) ==
    \/ entry = None
    \/ \E i \in DOMAIN state.attributes :
        /\ FilterAttribute(state.attributes[i])
        /\ ConversionRaises(state.attributes[i].value)

Format(entry, state) ==
    PrepareDict(Merged(<<
        At(<<"@timestamp">>, Leaf("datetime")),
        At(<<"event">>, Dict([action |-> Leaf(ToPublishReason[state.reason]),
                              kind |-> Leaf("event"),
                              type |-> Leaf(IF state.reason = "NO_CHANGE"
                                            THEN "info" ELSE "change")])),
        At(<<"hass", "entity">>, EntityDict(entry, state)),
        At(<<"hass", "entity", "attributes">>, StateToAttributes(state.attributes)),
        At(<<"hass", "entity", "value">>, Leaf(state.value)),
        At(<<"hass", "entity", "valueas">>, Coerced(state.value)),
        At(<<"hass", "entity", "object", "id">>, Leaf("text")),
        At(<<"data_stream">>, Dict([type |-> Leaf("metrics"), dataset |-> Leaf("text"),
                                    namespace |-> Leaf("default")])),
        StaticFields>>))

-----------------------------------------------------------------------------
\* index_template_definition.

Keyword == Leaf("keyword")

MappedFloor == Dict([id |-> Keyword, name |-> Keyword])

MappedArea == Dict([id |-> Keyword, name |-> Keyword, floor |-> MappedFloor])

\* A plausible slip: the area of the device is left out of the template.
MappedDeviceWithoutArea == Dict([id |-> Keyword, name |-> Keyword, labels |-> Keyword])

MappedDevice ==
    Dict([id |-> Keyword, name |-> Keyword, labels |-> Keyword, area |-> MappedArea])

EntityProperties ==
    [id |-> Keyword, domain |-> Keyword, friendly_name |-> Keyword, name |-> Keyword,
     object |-> Dict([id |-> Keyword]), location |-> Leaf("geo_point"), value |-> Keyword,
     valueas |-> Dict([string |-> Keyword, float |-> Leaf("float"),
                       boolean |-> Leaf("boolean"), datetime |-> Leaf("date"),
                       date |-> Leaf("date"), time |-> Leaf("date"),
                       integer |-> Leaf("integer")]),
     platform |-> Keyword, unit_of_measurement |-> Keyword,
     state |-> Dict([class |-> Keyword]), labels |-> Keyword, area |-> MappedArea,
     device |-> MappedDevice, device_class |-> Keyword]

Properties ==
    [data_stream |-> Dict([type |-> Leaf("metrics"), dataset |-> Keyword,
                           namespace |-> Leaf("default")]),
     hass |-> Dict([entity |-> Dict(EntityProperties)]),
     tags |-> Keyword,
     event |-> Dict([action |-> Keyword, type |-> Keyword, kind |-> Keyword]),
     agent |-> Dict([version |-> Keyword]),
     host |-> Dict([architecture |-> Keyword, location |-> Leaf("geo_point"),
                    hostname |-> Keyword, name |-> Keyword,
                    os |-> Dict([name |-> Keyword])]),
     ecs |-> Dict([version |-> Keyword])]

\* The fields of the template and their types; "dynamic" is false but for the
\* attributes.
Mapped == Merged(<<Dict(Properties), At(<<"@timestamp">>, Leaf("date_nanos"))>>)

IsAttribute(path) ==
    Len(path) = 4 /\ SubSeq(path, 1, 3) = <<"hass", "entity", "attributes">>
=============================================================================
