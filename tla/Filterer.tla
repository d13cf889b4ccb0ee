------------------------------ MODULE Filterer ------------------------------
(***************************************************************************)
(* The decision whether a state of an entity is published: class           *)
(* Pipeline.Filterer of os_publish_pipeline.py.  The module is pure: the   *)
(* pipeline calls PassesFilter whenever the listener or the poller looks   *)
(* at a state.                                                             *)
(*                                                                         *)
(* A registry entry is what Home Assistant's entity registry holds for an  *)
(* entity: its area, its labels and the device it is attached to.  The     *)
(* field device is None when the entity has no device, and also when its   *)
(* device_id no longer resolves in the device registry.                    *)
(***************************************************************************)
CONSTANTS
    None    \* a missing area, device or registry entry (Python's None)

\* Why a state is looked at (const.StateChangeType).
ChangeTypes == {"STATE", "ATTRIBUTE"}
Reasons == ChangeTypes \cup {"NO_CHANGE"}

\* A plausible slip: the labels of the device are forgotten.
IsTargetedItself(targets, entity, entry) ==
    \/ entity \in targets.entities
    \/ entry.area \in targets.areas
    \/ entry.labels \cap targets.labels # {}
    \/ entry.device # None /\ entry.device.id \in targets.devices

\* The entity is named by one of the four target lists, in its own right or
\* through its device.  The area of the device is not consulted.
IsTargeted(targets, entity, entry) ==
    \/ entity \in targets.entities
    \/ entry.area \in targets.areas
    \/ entry.labels \cap targets.labels # {}
    \/ /\ entry.device # None
       /\ \/ entry.device.id \in targets.devices
          \/ entry.device.labels \cap targets.labels # {}

\* A plausible slip: both target lists are consulted the same way round.
ExcludesTheOthers(settings, entity, entry) ==
    IsTargeted(settings.excluded, entity, entry)

PassesExcludeTargets(settings, entity, entry) ==
    ~IsTargeted(settings.excluded, entity, entry)

PassesIncludeTargets(settings, entity, entry) ==
    IsTargeted(settings.included, entity, entry)

\* Polled states always pass; changes pass when their type is configured.
PassesChangeDetectionType(settings, reason) ==
    \/ reason = "NO_CHANGE"
    \/ reason \in settings.change_detection_type

PassesFilter(settings, entity, entry, reason) ==
    /\ PassesChangeDetectionType(settings, reason)
    /\ entry # None
    /\ settings.exclude_targets => PassesExcludeTargets(settings, entity, entry)
    /\ settings.include_targets => PassesIncludeTargets(settings, entity, entry)
=============================================================================
