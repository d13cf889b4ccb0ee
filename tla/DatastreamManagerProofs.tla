----------------------- MODULE DatastreamManagerProofs -----------------------
(***************************************************************************)
(* Proofs about DatastreamManager, for any number of installations and     *)
(* data streams and any versions of the template.                          *)
(***************************************************************************)
EXTENDS DatastreamManager, TLAPS, FiniteSetTheorems

\* An installation that has got past storing the template has replaced the old
\* one, and nobody brings that back.
OldTemplateIsGone ==
    \A i \in Instances :
        pc[i] \in {"installing", "listing", "rolling"} => template # OldVersion

\* The installations that may still roll a stream over.
MayRoll(s) ==
    {i \in Instances : \/ template = OldVersion
                       \/ pc[i] \in {"updating", "listing"}
                       \/ pc[i] = "rolling" /\ s \in toRoll[i]}

\* Each installation rolls a stream over once: it has done so, may still do
\* so, or will not.
RolloverBudget ==
    \A s \in Streams :
        rollovers[s] + Cardinality(MayRoll(s)) <= Cardinality(Instances)

\* Some installation is about to roll the stream over.
IsAwaited(s) ==
    \E i \in Instances : pc[i] = "listing" \/ (pc[i] = "rolling" /\ s \in toRoll[i])

\* As long as no update was disturbed, a stream with old mappings is awaited,
\* and a cluster without a template has no streams.
StreamsAreCared ==
    ~interrupted =>
        /\ template = Version =>
             \A s \in Streams : mapping[s] \in {None, Version} \/ IsAwaited(s)
        /\ template = None => \A s \in Streams : mapping[s] = None

\* A template that a set-up has found is missing only when it was deleted.
DeletionsExplain ==
    \A i \in Instances :
        (pc[i] \in {"comparing", "updating"} /\ template = None) \/ pc[i] = "error"
            => deletions > 0

\* The inductive invariant.
Inv == TypeOK /\ OldTemplateIsGone /\ RolloverBudget /\ StreamsAreCared /\ DeletionsExplain

-----------------------------------------------------------------------------
\* Types and the order of the requests.

LEMMA RolloverType ==
    ASSUME TypeOK, NEW s \in Streams, Rollover(s)
    PROVE  /\ mapping' \in [Streams -> {None, OldVersion, Version}]
           /\ rollovers' \in [Streams -> Nat]
           /\ template' = template /\ deletions' = deletions
BY DEF TypeOK, Rollover

LEMMA PutType ==
    ASSUME TypeOK, PutIndexTemplate
    PROVE  /\ template' = Version
           /\ mapping' = mapping /\ rollovers' = rollovers /\ deletions' = deletions
BY DEF PutIndexTemplate

LEMMA GotoType ==
    ASSUME TypeOK, NEW i \in Instances, NEW state \in SetupStates, Goto(i, state)
    PROVE  pc' \in [Instances -> SetupStates]
BY DEF TypeOK, Goto

LEMMA TypeStep ==
    ASSUME TypeOK, [Next]_vars
    PROVE  TypeOK'
<1> USE VersionAssumption DEF TypeOK, clusterVars
<1>1. ASSUME NEW i \in Instances, SetupStarts(i)
      PROVE  TypeOK'
  BY <1>1, GotoType DEF SetupStarts, SetupStates
<1>2. ASSUME NEW i \in Instances, NeedsIndexTemplate(i)
      PROVE  TypeOK'
  BY <1>2, GotoType DEF NeedsIndexTemplate, SetupStates
<1>3. ASSUME NEW i \in Instances, NeedsIndexTemplateUpdate(i)
      PROVE  TypeOK'
  BY <1>3, GotoType DEF NeedsIndexTemplateUpdate, SetupStates
<1>4. ASSUME NEW i \in Instances, InstallIndexTemplate(i)
      PROVE  TypeOK'
  BY <1>4, GotoType, PutType DEF InstallIndexTemplate, SetupStates
<1>5. ASSUME NEW i \in Instances, UpdateIndexTemplate(i)
      PROVE  TypeOK'
  BY <1>5, GotoType, PutType DEF UpdateIndexTemplate, SetupStates
<1>6. ASSUME NEW i \in Instances, ListDatastreams(i)
      PROVE  TypeOK'
  BY <1>6, GotoType DEF ListDatastreams, ExistingStreams, SetupStates
<1>7. ASSUME NEW i \in Instances, NEW s \in Streams, RolloverDatastream(i, s)
      PROVE  TypeOK'
  BY <1>7, RolloverType DEF RolloverDatastream
<1>8. ASSUME NEW i \in Instances, UpdateEnds(i)
      PROVE  TypeOK'
  BY <1>8, GotoType DEF UpdateEnds, SetupStates
<1>9. ASSUME NEW i \in Instances, RequestFails(i)
      PROVE  TypeOK'
  <2>1. /\ template' \in {None, OldVersion, Version}
        /\ mapping' \in [Streams -> {None, OldVersion, Version}]
        /\ rollovers' \in [Streams -> Nat]
        /\ deletions' \in 0..MaxDeletions
    <3>1. CASE UNCHANGED clusterVars
      BY <3>1
    <3>2. CASE PutIndexTemplate
      BY <3>2, PutType
    <3>3. CASE \E s \in toRoll[i] : Rollover(s)
      <4>1. PICK s \in Streams : Rollover(s)
        BY <3>3
      <4> QED
        BY <4>1, RolloverType
    <3> QED
      BY <1>9, <3>1, <3>2, <3>3 DEF RequestFails, LostAnswer
  <2>2. pc' \in [Instances -> SetupStates]
    BY <1>9, GotoType DEF RequestFails, SetupStates
  <2>3. toRoll' \in [Instances -> SUBSET Streams] /\ interrupted' \in BOOLEAN
    BY <1>9 DEF RequestFails
  <2> QED
    BY <2>1, <2>2, <2>3
<1>10. ASSUME NEW i \in Instances, Restarts(i)
      PROVE  TypeOK'
  BY <1>10, GotoType DEF Restarts, SetupStates
<1>11. ASSUME NEW i \in Instances, NEW s \in Streams, StreamCreated(i, s)
      PROVE  TypeOK'
  BY <1>11 DEF StreamCreated
<1>12. CASE TemplateDeleted
  BY <1>12 DEF TemplateDeleted
<1>13. ASSUME NEW i \in Instances, RequestRefused(i)
      PROVE  TypeOK'
  BY <1>13, GotoType DEF RequestRefused, SetupStates
<1>14. CASE UNCHANGED vars
  BY <1>14 DEF vars
<1> QED
  BY <1>1, <1>2, <1>3, <1>4, <1>5, <1>6, <1>7, <1>8, <1>9, <1>10, <1>11, <1>12,
     <1>13, <1>14
  DEF Next, Setup, RequestSucceeds

\* No step brings the old template back, and who stores a template or goes on
\* from there does not find the old one.
LEMMA OldTemplateIsGoneStep ==
    ASSUME TypeOK, OldTemplateIsGone, [Next]_vars
    PROVE  OldTemplateIsGone' /\ (template' = OldVersion => template = OldVersion)
<1> USE VersionAssumption
    DEF TypeOK, OldTemplateIsGone, clusterVars, Goto, PutIndexTemplate, Rollover
<1>1. ASSUME NEW i \in Instances, Setup(i) \/ Restarts(i)
      PROVE  OldTemplateIsGone' /\ (template' = OldVersion => template = OldVersion)
  <2>1. CASE SetupStarts(i) \/ NeedsIndexTemplate(i) \/ NeedsIndexTemplateUpdate(i)
    BY <2>1 DEF SetupStarts, NeedsIndexTemplate, NeedsIndexTemplateUpdate
  <2>2. CASE InstallIndexTemplate(i) \/ UpdateIndexTemplate(i)
    BY <2>2 DEF InstallIndexTemplate, UpdateIndexTemplate
  <2>3. CASE ListDatastreams(i) \/ UpdateEnds(i) \/ Restarts(i)
    BY <2>3 DEF ListDatastreams, UpdateEnds, Restarts
  <2>4. CASE \E s \in Streams : RolloverDatastream(i, s)
    BY <2>4 DEF RolloverDatastream
  <2>5. CASE RequestFails(i)
    BY <2>5 DEF RequestFails, LostAnswer
  <2>6. CASE RequestRefused(i)
    BY <2>6 DEF RequestRefused
  <2> QED
    BY <1>1, <2>1, <2>2, <2>3, <2>4, <2>5, <2>6 DEF Setup, RequestSucceeds
<1>2. CASE \E i \in Instances, s \in Streams : StreamCreated(i, s)
  BY <1>2 DEF StreamCreated
<1>3. CASE TemplateDeleted
  BY <1>3 DEF TemplateDeleted
<1>4. CASE UNCHANGED vars
  BY <1>4 DEF vars
<1> QED
  BY <1>1, <1>2, <1>3, <1>4 DEF Next
-----------------------------------------------------------------------------
\* The budget of rollovers.

\* A step leaves the budget of a stream alone, or an installation spends its
\* share.
Keeps(s) ==
    rollovers'[s] = rollovers[s] /\ MayRoll(s)' \subseteq MayRoll(s)

Spends(s) ==
    \E i \in MayRoll(s) :
        rollovers'[s] = rollovers[s] + 1 /\ MayRoll(s)' \subseteq MayRoll(s) \ {i}

LEMMA MayRollIsFinite ==
    ASSUME NEW s
    PROVE  /\ IsFiniteSet(MayRoll(s))
           /\ Cardinality(MayRoll(s)) \in Nat
<1>1. MayRoll(s) \in SUBSET Instances
  BY DEF MayRoll
<1>2. IsFiniteSet(MayRoll(s))
  BY <1>1, FiniteAssumption, FS_Subset DEF FiniteAssumption
<1> QED
  BY <1>2, FS_CardinalityType

LEMMA BudgetIsKept ==
    ASSUME TypeOK, TypeOK', RolloverBudget,
           \A s \in Streams : Keeps(s) \/ Spends(s)
    PROVE  RolloverBudget'
<1> SUFFICES ASSUME NEW s \in Streams
             PROVE  rollovers'[s] + Cardinality(MayRoll(s)') <= Cardinality(Instances)
  BY DEF RolloverBudget
<1> DEFINE before == MayRoll(s)
           after == MayRoll(s)'
<1>1. IsFiniteSet(before) /\ Cardinality(before) \in Nat
  BY MayRollIsFinite
<1>2. /\ rollovers[s] \in Nat /\ rollovers'[s] \in Nat
      /\ Cardinality(Instances) \in Nat
      /\ rollovers[s] + Cardinality(before) <= Cardinality(Instances)
  BY FiniteAssumption, FS_CardinalityType DEF TypeOK, RolloverBudget, FiniteAssumption
<1>3. CASE Keeps(s)
  <2>1. after \in SUBSET before /\ rollovers'[s] = rollovers[s]
    BY <1>3 DEF Keeps
  <2> HIDE DEF before, after
  <2>2. IsFiniteSet(after) /\ Cardinality(after) <= Cardinality(before)
    BY <1>1, <2>1, FS_Subset
  <2>3. Cardinality(after) \in Nat
    BY <2>2, FS_CardinalityType
  <2>4. rollovers'[s] + Cardinality(after) <= Cardinality(Instances)
    BY <1>1, <1>2, <2>1, <2>2, <2>3
  <2> QED
    BY <2>4 DEF after
<1>4. CASE Spends(s)
  <2>1. PICK i \in before : /\ rollovers'[s] = rollovers[s] + 1
                            /\ after \in SUBSET (before \ {i})
    BY <1>4 DEF Spends
  <2> HIDE DEF before, after
  <2>2. /\ IsFiniteSet(before \ {i})
        /\ Cardinality(before \ {i}) = Cardinality(before) - 1
    BY <1>1, FS_RemoveElement
  <2>3. IsFiniteSet(after) /\ Cardinality(after) <= Cardinality(before \ {i})
    BY <2>1, <2>2, FS_Subset
  <2>4. Cardinality(after) \in Nat
    BY <2>3, FS_CardinalityType
  <2>5. rollovers'[s] + Cardinality(after) <= Cardinality(Instances)
    BY <1>1, <1>2, <2>1, <2>2, <2>3, <2>4
  <2> QED
    BY <2>5 DEF after
<1> QED
  BY <1>3, <1>4

\* A request that rolls a stream over spends the share of its installation in
\* that stream, answered or not.
LEMMA RolloverSpends ==
    ASSUME TypeOK, OldTemplateIsGone, NEW i \in Instances, NEW r \in toRoll[i],
           pc[i] = "rolling", Rollover(r),
           \A j \in Instances \ {i} : pc'[j] = pc[j] /\ toRoll'[j] = toRoll[j],
           toRoll'[i] \subseteq toRoll[i] \ {r}, pc'[i] \in {"rolling", "failed"}
    PROVE  \A s \in Streams : Keeps(s) \/ Spends(s)
<1>1. template # OldVersion /\ template' = template
  BY DEF OldTemplateIsGone, Rollover
<1>2. r \in Streams /\ rollovers' = [rollovers EXCEPT ![r] = @ + 1]
  BY DEF TypeOK, Rollover
<1>3. i \in MayRoll(r)
  BY DEF MayRoll
<1>4. MayRoll(r)' \subseteq MayRoll(r) \ {i}
  BY <1>1 DEF MayRoll
<1>5. Spends(r)
  BY <1>2, <1>3, <1>4 DEF Spends, TypeOK
<1>6. ASSUME NEW s \in Streams, s # r
      PROVE  Keeps(s)
  <2>1. rollovers'[s] = rollovers[s]
    BY <1>2, <1>6 DEF TypeOK
  <2>2. MayRoll(s)' \subseteq MayRoll(s)
    BY <1>1 DEF MayRoll
  <2> QED
    BY <2>1, <2>2 DEF Keeps
<1> QED
  BY <1>5, <1>6

LEMMA BudgetStep ==
    ASSUME TypeOK, OldTemplateIsGone, [Next]_vars
    PROVE  \A s \in Streams : Keeps(s) \/ Spends(s)
<1> USE VersionAssumption DEF TypeOK, clusterVars, Goto, PutIndexTemplate
<1>1. ASSUME NEW i \in Instances,
             SetupStarts(i) \/ NeedsIndexTemplate(i) \/ NeedsIndexTemplateUpdate(i)
      PROVE  \A s \in Streams : Keeps(s)
  BY <1>1 DEF SetupStarts, NeedsIndexTemplate, NeedsIndexTemplateUpdate, Keeps, MayRoll
<1>2. ASSUME NEW i \in Instances, InstallIndexTemplate(i) \/ UpdateIndexTemplate(i)
      PROVE  \A s \in Streams : Keeps(s)
  BY <1>2 DEF InstallIndexTemplate, UpdateIndexTemplate, Keeps, MayRoll
<1>3. ASSUME NEW i \in Instances,
             ListDatastreams(i) \/ UpdateEnds(i) \/ Restarts(i) \/ RequestRefused(i)
      PROVE  \A s \in Streams : Keeps(s)
  BY <1>3 DEF ListDatastreams, UpdateEnds, Restarts, RequestRefused, Keeps, MayRoll
<1>4. ASSUME NEW i \in Instances, NEW r \in Streams, RolloverDatastream(i, r)
      PROVE  \A s \in Streams : Keeps(s) \/ Spends(s)
  <2>1. /\ r \in toRoll[i] /\ pc[i] = "rolling" /\ Rollover(r)
        /\ pc' = pc /\ toRoll' = [toRoll EXCEPT ![i] = @ \ {r}]
    BY <1>4 DEF RolloverDatastream
  <2> QED
    BY <2>1, RolloverSpends
<1>5. ASSUME NEW i \in Instances, RequestFails(i)
      PROVE  \A s \in Streams : Keeps(s) \/ Spends(s)
  <2>1. /\ pc' = [pc EXCEPT ![i] = "failed"]
        /\ toRoll' = [toRoll EXCEPT ![i] = {}]
    BY <1>5 DEF RequestFails
  <2>2. CASE UNCHANGED clusterVars \/ PutIndexTemplate
    BY <2>1, <2>2 DEF Keeps, MayRoll
  <2>3. CASE pc[i] = "rolling" /\ \E r \in toRoll[i] : Rollover(r)
    <3>1. PICK r \in toRoll[i] : Rollover(r)
      BY <2>3
    <3> QED
      BY <2>1, <2>3, <3>1, RolloverSpends
  <2> QED
    BY <1>5, <2>2, <2>3 DEF RequestFails, LostAnswer
<1>6. ASSUME NEW i \in Instances, NEW r \in Streams, StreamCreated(i, r)
      PROVE  \A s \in Streams : Keeps(s)
  BY <1>6 DEF StreamCreated, Keeps, MayRoll
<1>7. CASE TemplateDeleted
  BY <1>7 DEF TemplateDeleted, Keeps, MayRoll
<1>8. CASE UNCHANGED vars
  BY <1>8 DEF vars, Keeps, MayRoll
<1> QED
  BY <1>1, <1>2, <1>3, <1>4, <1>5, <1>6, <1>7, <1>8
  DEF Next, Setup, RequestSucceeds
-----------------------------------------------------------------------------
\* Streams with old mappings are cared for.

LEMMA StreamsAreCaredStep ==
    ASSUME TypeOK, OldTemplateIsGone, StreamsAreCared, [Next]_vars
    PROVE  StreamsAreCared'
<1> USE VersionAssumption DEF TypeOK, clusterVars, Goto, StreamsAreCared, IsAwaited
<1>1. ASSUME NEW i \in Instances,
             SetupStarts(i) \/ NeedsIndexTemplate(i) \/ NeedsIndexTemplateUpdate(i)
      PROVE  StreamsAreCared'
  BY <1>1 DEF SetupStarts, NeedsIndexTemplate, NeedsIndexTemplateUpdate
<1>2. ASSUME NEW i \in Instances, InstallIndexTemplate(i)
      PROVE  StreamsAreCared'
  <2>1. template \in {None, Version}
    BY <1>2 DEF InstallIndexTemplate, OldTemplateIsGone
  <2> QED
    BY <1>2, <2>1 DEF InstallIndexTemplate, PutIndexTemplate
<1>3. ASSUME NEW i \in Instances, UpdateIndexTemplate(i)
      PROVE  StreamsAreCared'
  <2>1. pc'[i] = "listing" /\ template' = Version
    BY <1>3 DEF UpdateIndexTemplate, PutIndexTemplate
  <2> QED
    BY <2>1
<1>4. ASSUME NEW i \in Instances, ListDatastreams(i)
      PROVE  StreamsAreCared'
  <2>1. pc'[i] = "rolling" /\ toRoll'[i] = ExistingStreams
    BY <1>4 DEF ListDatastreams
  <2>2. \A s \in Streams : mapping'[s] = None \/ IsAwaited(s)'
    BY <1>4, <2>1 DEF ListDatastreams, ExistingStreams
  <2> QED
    BY <1>4, <2>2 DEF ListDatastreams
<1>5. ASSUME NEW i \in Instances, NEW r \in Streams, RolloverDatastream(i, r)
      PROVE  StreamsAreCared'
  BY <1>5 DEF RolloverDatastream, Rollover, OldTemplateIsGone
<1>6. ASSUME NEW i \in Instances, UpdateEnds(i)
      PROVE  StreamsAreCared'
  BY <1>6 DEF UpdateEnds
<1>7. ASSUME NEW i \in Instances, RequestFails(i)
      PROVE  StreamsAreCared'
  <2>1. CASE pc[i] \in {"updating", "listing", "rolling"}
    BY <1>7, <2>1 DEF RequestFails
  <2>2. CASE pc[i] \in {"checking", "comparing", "installing"} /\ UNCHANGED clusterVars
    BY <1>7, <2>2 DEF RequestFails
  <2>3. CASE pc[i] = "installing" /\ PutIndexTemplate
    <3>1. template \in {None, Version}
      BY <2>3 DEF OldTemplateIsGone
    <3> QED
      BY <1>7, <2>3, <3>1 DEF RequestFails, PutIndexTemplate
  <2> QED
    BY <1>7, <2>1, <2>2, <2>3 DEF RequestFails, LostAnswer, Requesting
<1>8. ASSUME NEW i \in Instances, Restarts(i) \/ RequestRefused(i)
      PROVE  StreamsAreCared'
  BY <1>8 DEF Restarts, RequestRefused, Requesting
<1>9. ASSUME NEW i \in Instances, NEW r \in Streams, StreamCreated(i, r)
      PROVE  StreamsAreCared'
  BY <1>9 DEF StreamCreated
<1>10. CASE TemplateDeleted
  BY <1>10 DEF TemplateDeleted
<1>11. CASE UNCHANGED vars
  BY <1>11 DEF vars
<1> QED
  BY <1>1, <1>2, <1>3, <1>4, <1>5, <1>6, <1>7, <1>8, <1>9, <1>10, <1>11
  DEF Next, Setup, RequestSucceeds

\* A set-up that compares versions has seen a template, and only a deletion
\* takes one away.
LEMMA DeletionsExplainStep ==
    ASSUME TypeOK, DeletionsExplain, [Next]_vars
    PROVE  DeletionsExplain'
<1> USE VersionAssumption
    DEF TypeOK, DeletionsExplain, clusterVars, Goto, PutIndexTemplate, Rollover
<1>1. ASSUME NEW i \in Instances, Setup(i) \/ Restarts(i)
      PROVE  DeletionsExplain'
  <2>1. CASE SetupStarts(i) \/ NeedsIndexTemplate(i) \/ NeedsIndexTemplateUpdate(i)
    BY <2>1 DEF SetupStarts, NeedsIndexTemplate, NeedsIndexTemplateUpdate
  <2>2. CASE InstallIndexTemplate(i) \/ UpdateIndexTemplate(i)
    BY <2>2 DEF InstallIndexTemplate, UpdateIndexTemplate
  <2>3. CASE ListDatastreams(i) \/ UpdateEnds(i) \/ Restarts(i) \/ RequestRefused(i)
    BY <2>3 DEF ListDatastreams, UpdateEnds, Restarts, RequestRefused
  <2>4. CASE \E s \in Streams : RolloverDatastream(i, s)
    BY <2>4 DEF RolloverDatastream
  <2>5. CASE RequestFails(i)
    BY <2>5 DEF RequestFails, LostAnswer
  <2> QED
    BY <1>1, <2>1, <2>2, <2>3, <2>4, <2>5 DEF Setup, RequestSucceeds
<1>2. CASE \E i \in Instances, s \in Streams : StreamCreated(i, s)
  BY <1>2 DEF StreamCreated
<1>3. CASE TemplateDeleted
  BY <1>3 DEF TemplateDeleted
<1>4. CASE UNCHANGED vars
  BY <1>4 DEF vars
<1> QED
  BY <1>1, <1>2, <1>3, <1>4 DEF Next

-----------------------------------------------------------------------------
\* The theorems.

LEMMA InitInv == Init => Inv
<1> SUFFICES ASSUME Init
             PROVE  Inv
  OBVIOUS
<1> USE VersionAssumption DEF Init
<1>1. TypeOK
  <2>1. mapping \in [Streams -> {None, OldVersion, Version}]
    <3>1. \A s \in Streams : mapping[s] \in {None, OldVersion, Version}
      OBVIOUS
    <3> QED
      BY <3>1
  <2>2. pc \in [Instances -> SetupStates] /\ toRoll \in [Instances -> SUBSET Streams]
    BY DEF SetupStates
  <2>3. rollovers \in [Streams -> Nat] /\ deletions \in 0..MaxDeletions
    OBVIOUS
  <2> QED
    BY <2>1, <2>2, <2>3 DEF TypeOK
<1>2. OldTemplateIsGone
  BY DEF OldTemplateIsGone
<1>3. RolloverBudget
  <2> SUFFICES ASSUME NEW s \in Streams
               PROVE  rollovers[s] + Cardinality(MayRoll(s)) <= Cardinality(Instances)
    BY DEF RolloverBudget
  <2>1. MayRoll(s) \in SUBSET Instances
    BY DEF MayRoll
  <2>2. Cardinality(MayRoll(s)) <= Cardinality(Instances)
    BY <2>1, FiniteAssumption, FS_Subset DEF FiniteAssumption
  <2>3. rollovers[s] = 0 /\ Cardinality(MayRoll(s)) \in Nat
    BY MayRollIsFinite
  <2> QED
    BY <2>2, <2>3
<1>4. StreamsAreCared
  BY DEF StreamsAreCared
<1>5. DeletionsExplain
  BY DEF DeletionsExplain
<1> QED
  BY <1>1, <1>2, <1>3, <1>4, <1>5 DEF Inv

LEMMA NextInv == Inv /\ [Next]_vars => Inv'
BY TypeStep, OldTemplateIsGoneStep, BudgetStep, BudgetIsKept, StreamsAreCaredStep,
   DeletionsExplainStep
DEF Inv

LEMMA SpecInv == Spec => []Inv
BY InitInv, NextInv, PTL DEF Spec

\* However requests fail and installations restart or overlap, template,
\* streams and set-ups keep their types.
THEOREM TypeCorrect == Spec => []TypeOK
<1>1. Inv => TypeOK
  BY DEF Inv
<1> QED
  BY <1>1, SpecInv, PTL

\* async_init, run any number of times by any number of installations, rolls a
\* data stream over at most once per installation.
THEOREM RolloversStayBounded == Spec => []RolloversAreBounded
<1>1. Inv => RolloversAreBounded
  <2> SUFFICES ASSUME Inv, NEW s \in Streams
               PROVE  rollovers[s] <= Cardinality(Instances)
    BY DEF RolloversAreBounded
  <2>1. /\ rollovers[s] \in Nat
        /\ Cardinality(Instances) \in Nat
        /\ Cardinality(MayRoll(s)) \in Nat
    BY MayRollIsFinite, FiniteAssumption, FS_CardinalityType
    DEF Inv, TypeOK, FiniteAssumption
  <2>2. rollovers[s] + Cardinality(MayRoll(s)) <= Cardinality(Instances)
    BY DEF Inv, RolloverBudget
  <2> QED
    BY <2>1, <2>2
<1> QED
  BY <1>1, SpecInv, PTL

\* An update that nobody disturbed leaves no data stream on old mappings when
\* the installations are through with it.
THEOREM UndisturbedUpdatesComplete == Spec => []UndisturbedUpdateIsComplete
<1>1. Inv => UndisturbedUpdateIsComplete
  BY VersionAssumption
  DEF Inv, StreamsAreCared, IsAwaited, UndisturbedUpdateIsComplete,
      StreamsAreCurrent, ExistingStreams
<1> QED
  BY <1>1, SpecInv, PTL

\* However the set-ups of any number of installations interleave, fail and are
\* tried again, none of them gives up for good over the index template unless
\* an operator has deleted it.
THEOREM DeletionsAlone == Spec => []OnlyDeletionsAreFatal
<1>1. Inv => OnlyDeletionsAreFatal
  BY DEF Inv, DeletionsExplain, OnlyDeletionsAreFatal
<1> QED
  BY <1>1, SpecInv, PTL
=============================================================================
