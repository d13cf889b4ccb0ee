---------------------------- MODULE MCDocuments ----------------------------
(***************************************************************************)
(* Documents with one area on a floor, one label and one device.           *)
(***************************************************************************)
EXTENDS Documents, SequencesExt

CONSTANT kitchen

MCFloorOf == [area \in {kitchen} |-> "ground"]

Plain == [value |-> "on", latitude |-> None, longitude |-> None, attributes |-> <<>>,
          reason |-> "STATE"]

Attribute(name, value) == [key |-> "named", name |-> name, value |-> value]

\* Every text, reason and pair of coordinates, every kind of attribute, every
\* name of up to two characters, and names that come to the same key.
MCStates ==
    [value : StateValues, latitude : {None}, longitude : {None},
     attributes : {<<>>}, reason : Reasons]
    \cup [value : {"on"}, latitude : {None, 0, 1}, longitude : {None, 0, 1},
          attributes : {<<>>}, reason : {"STATE"}]
    \cup {[Plain EXCEPT !.attributes = <<[key |-> k, name |-> <<"a">>, value |-> v]>>] :
            k \in {"named", "skipped", "not_a_string"}, v \in ValueKinds}
    \cup {[Plain EXCEPT !.attributes = <<Attribute(name, "text")>>] :
            name \in BoundedSeq(Characters, 2)}
    \cup {[Plain EXCEPT !.attributes = <<Attribute(<<c>>, "text"), Attribute(<<d>>, v)>>] :
            c, d \in Characters, v \in {"none", "set"}}

\* An area to exclude, and the toggle off or on: one edit apart.
MCDocumentedSettings ==
    {[include_targets |-> FALSE, exclude_targets |-> exclude, included |-> NoTargets,
      excluded |-> [NoTargets EXCEPT !.areas = {kitchen}],
      change_detection_type |-> ChangeTypes] : exclude \in BOOLEAN}
=============================================================================
