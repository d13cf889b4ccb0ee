-------------------------- MODULE MCPublishPipeline --------------------------
(***************************************************************************)
(* Small instances of PublishPipeline for TLC.                             *)
(***************************************************************************)
EXTENDS PublishPipeline, TLC

CONSTANTS e1, e2    \* entities

\* Nothing orders the entities: a poll visits them in any order.
MCSymmetry == Permutations(Entities)

\* Two values, and one state with attributes that do not serialise.
MCStates ==
    {[value |-> "on", attributes |-> "serialisable"],
     [value |-> "off", attributes |-> "opaque"]}

\* One state that can be published and one that cannot be formatted.
MCLiveStates ==
    {[value |-> "on", attributes |-> "serialisable"],
     [value |-> "on", attributes |-> "unconvertible"]}

MCPlainStates == {[value |-> "on", attributes |-> "serialisable"]}

\* The filter has a module of its own: here it refuses by change type, and an
\* entity that is not registered.
MCPlainRegistryEntries == {[area |-> None, labels |-> {}, device |-> None]}

NoTargets == [entities |-> {}, areas |-> {}, labels |-> {}, devices |-> {}]

MCSetting(publish, poll, changes) ==
    [publish_frequency |-> publish, polling_frequency |-> poll,
     change_detection_type |-> changes,
     include_targets |-> FALSE, included |-> NoTargets,
     exclude_targets |-> FALSE, excluded |-> NoTargets]

\* Listening together with polling, and publishing disabled.
MCSettings ==
    {MCSetting(60, 60, {"STATE", "ATTRIBUTE"}), MCSetting(0, 60, {"STATE"})}

MCLiveSettings ==
    {MCSetting(60, 0, {"STATE", "ATTRIBUTE"}), MCSetting(60, 60, {"STATE"})}

MCListenOnly == {MCSetting(60, 0, {"STATE", "ATTRIBUTE"})}
=============================================================================
