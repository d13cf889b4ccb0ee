--------------------- MODULE ConfigEntryLifecycleProofs ---------------------
(***************************************************************************)
(* Proofs about ConfigEntryLifecycle, for any contents of the options form *)
(* and any bound on the errors counted.                                    *)
(***************************************************************************)
EXTENDS ConfigEntryLifecycle, TLAPS

\* What belongs to an integration object is there while HA is at work with it:
\* its client from the beginning of the set-up until the unload has closed it,
\* its publisher from the first run on, its listener until the unload begins,
\* both if the options want them.
ObjectIsWhole ==
    /\ pc \in InSetup \cup {"unloading"} \/ entry = "loaded" => client
    /\ pc = "cancelling" => ~client
    /\ listening <=> /\ pc = "first_run" \/ entry = "loaded"
                     /\ used \in Publishing \cap Detecting
    /\ publisher # "none" <=> /\ \/ pc \in {"first_run", "unloading", "cancelling"}
                                 \/ entry = "loaded"
                              /\ used \in Publishing

\* A publisher that outlived its entry has no open client.
StraysAreShut == TRUE \notin strays

\* The inductive invariant.
Inv == TypeOK /\ ObjectIsWhole /\ StraysAreShut /\ ClientsAreClosed

LEMMA CountedType ==
    ASSUME NEW max \in Nat, NEW n \in 0..max
    PROVE  /\ Counted(n, max) \in 0..max
           /\ Counted(n, max) = max \/ Counted(n, max) = n + 1
BY DEF Counted

LEMMA InitInv == Init => Inv
<1> SUFFICES ASSUME Init
             PROVE  Inv
  OBVIOUS
<1> USE BoundsAssumption DEF Init
<1>1. TypeOK
  <2>1. /\ entry = "setup_in_progress" <=> pc \in InSetup
        /\ entry = "unload_in_progress" <=> pc \in {"unloading", "cancelling"}
    BY DEF InSetup
  <2>2. {enabled, reload, accepted, hasUsername, client, clientAccepted, listening,
         overtaken} \subseteq BOOLEAN
    OBVIOUS
  <2>3. leaked \in 0..MaxErrors /\ errors \in 0..MaxErrors /\ broken \in 0..MaxBroken
    OBVIOUS
  <2> QED
    BY <2>1, <2>2, <2>3 DEF TypeOK, EntryStates
<1>2. ObjectIsWhole
  BY DEF ObjectIsWhole, InSetup
<1>3. StraysAreShut /\ ClientsAreClosed
  BY DEF StraysAreShut, ClientsAreClosed, ClientIsAbandoned
<1> QED
  BY <1>1, <1>2, <1>3 DEF Inv

-----------------------------------------------------------------------------
\* What a reload does up to its first await, in terms of the state: it begins
\* to unload a loaded entry, is done with a disabled one, or begins a set-up.
LEMMA ReloadEffect ==
    ASSUME Inv, pc = "idle", BeginReload
    PROVE  \/ /\ entry = "loaded" /\ entry' = "unload_in_progress" /\ pc' = "unloading"
              /\ listening' = FALSE
              /\ UNCHANGED clientVars
           \/ /\ entry = "loaded" \/ client' = client
              /\ entry' = "not_loaded" /\ pc' = "idle"
              /\ publisher = "none"
              /\ listening' = FALSE
              /\ entry = "loaded" => client' = FALSE
              /\ UNCHANGED <<clientAccepted, used, leaked>>
           \/ /\ entry' = "setup_in_progress" /\ pc' = "gateway"
              /\ publisher = "none"
              /\ listening' = FALSE
              /\ client' = TRUE /\ clientAccepted' = accepted /\ used' = options
              /\ leaked' = IF client /\ entry # "loaded" THEN Counted(leaked, MaxErrors)
                           ELSE leaked
<1> USE DEF Inv, TypeOK, InSetup, ObjectIsWhole, GoOn, BeginSetup
<1>1. CASE entry = "loaded" /\ entry' = "unload_in_progress"
  BY <1>1 DEF BeginReload
<1>2. CASE entry = "loaded" /\ entry' # "unload_in_progress"
  BY <1>2 DEF BeginReload
<1>3. CASE entry # "loaded"
  BY <1>3 DEF BeginReload
<1> QED
  BY <1>1, <1>2, <1>3

\* The same of the end of an unload.
LEMMA UnloadEffect ==
    ASSUME Inv, UnloadEnds
    PROVE  /\ \/ /\ entry' = "not_loaded" /\ pc' = "idle" /\ client' = FALSE
                 /\ UNCHANGED <<clientAccepted, used, leaked>>
              \/ /\ entry' = "setup_in_progress" /\ pc' = "gateway"
                 /\ client' = TRUE /\ clientAccepted' = accepted /\ used' = options
                 /\ leaked' = leaked
           /\ pc = "cancelling" /\ entry = "unload_in_progress" /\ ~client /\ ~listening
           /\ publisher' = "none" /\ strays' \subseteq strays \cup {FALSE}
           /\ overtaken' = FALSE
           /\ UNCHANGED <<enabled, reload, userVars, failure, listening, history>>
BY DEF UnloadEnds, CancelTasks, GoOn, BeginSetup, Inv, TypeOK, InSetup, ObjectIsWhole

-----------------------------------------------------------------------------
\* Types, and what HA shows of the entry.
LEMMA TypeStep ==
    ASSUME Inv, [Next]_vars
    PROVE  TypeOK'
<1> USE BoundsAssumption
    DEF Inv, TypeOK, InSetup, EntryStates, entryVars, userVars, objectVars, clientVars,
        taskVars, history
<1>1. CASE SetupStarts
  BY <1>1, CountedType DEF SetupStarts, BeginSetup
<1>2. CASE RequestsSucceed
  BY <1>2 DEF RequestsSucceed
<1>3. CASE RequestRefused \/ RequestFails
  BY <1>3 DEF RequestRefused, RequestFails, SetupGivesUp, SetupRaises
<1>4. CASE SetupBreaks
  BY <1>4, CountedType DEF SetupBreaks
<1>5. CASE SetupFailed
  BY <1>5 DEF SetupFailed, StartReauth, CancelTasks
<1>6. CASE PipelineStarts \/ SetupEnds
  <2>1. CASE PipelineStarts
    <3>1. listening' \in BOOLEAN
      BY <2>1 DEF PipelineStarts
    <3> QED
      BY <2>1, <3>1 DEF PipelineStarts
  <2>2. CASE SetupEnds
    BY <2>2 DEF SetupEnds
  <2> QED
    BY <1>6, <2>1, <2>2
<1>7. CASE Publisher
  BY <1>7 DEF Publisher, PublisherRuns, RunEnds, RunRefused
<1>8. CASE ReloadStarts
  BY <1>8, ReloadEffect, CountedType DEF ReloadStarts
<1>9. CASE ClientCloses
  BY <1>9 DEF ClientCloses
<1>10. CASE UnloadEnds
  BY <1>10, UnloadEffect
<1>11. CASE Reauth
  BY <1>11, CountedType DEF Reauth, ReauthAborts, ReauthAsks, ReauthBreaks, ReauthSucceeds
<1>12. CASE OptionsSaved
  <2>1. CASE reload' = TRUE /\ UNCHANGED <<entry, pc, clientVars, listening, overtaken>>
    BY <1>12, <2>1 DEF OptionsSaved
  <2>2. CASE pc = "idle" /\ BeginReload /\ overtaken' = (pc' = "gateway") /\ UNCHANGED reload
    BY <1>12, <2>2, ReloadEffect, CountedType DEF OptionsSaved
  <2> QED
    BY <1>12, <2>1, <2>2 DEF OptionsSaved
<1>13. CASE EnabledToggled \/ CredentialsRevoked
  BY <1>13 DEF EnabledToggled, CredentialsRevoked
<1>14. CASE UNCHANGED vars
  BY <1>14 DEF vars
<1> QED
  BY <1>1, <1>2, <1>3, <1>4, <1>5, <1>6, <1>7, <1>8, <1>9, <1>10, <1>11, <1>12, <1>13, <1>14
  DEF Next, Setup, Unload, Users

\* The parts of the object that is set up or loaded, and the strays.
LEMMA ObjectStep ==
    ASSUME Inv, [Next]_vars
    PROVE  ObjectIsWhole' /\ StraysAreShut'
<1> USE DEF Inv, TypeOK, InSetup, EntryStates, ObjectIsWhole, StraysAreShut, entryVars,
            userVars, objectVars, clientVars, taskVars, history
<1>1. CASE SetupStarts
  BY <1>1 DEF SetupStarts, BeginSetup
<1>2. CASE RequestsSucceed
  BY <1>2 DEF RequestsSucceed
<1>3. CASE RequestRefused \/ RequestFails
  BY <1>3 DEF RequestRefused, RequestFails, SetupGivesUp
<1>4. CASE SetupBreaks
  BY <1>4 DEF SetupBreaks
<1>5. CASE SetupFailed
  BY <1>5 DEF SetupFailed, StartReauth, CancelTasks
<1>6. CASE PipelineStarts \/ SetupEnds
  <2>1. CASE PipelineStarts
    <3>1. listening' <=> used' \in Publishing \cap Detecting
      BY <2>1 DEF PipelineStarts
    <3> QED
      BY <2>1, <3>1 DEF PipelineStarts
  <2>2. CASE SetupEnds
    BY <2>2 DEF SetupEnds
  <2> QED
    BY <1>6, <2>1, <2>2
<1>7. CASE Publisher
  <2>1. /\ publisher # "none" /\ publisher' # "none"
        /\ UNCHANGED <<entry, pc, client, used, listening, strays>>
    BY <1>7 DEF Publisher, PublisherRuns, RunEnds, RunRefused
  <2> QED
    BY <2>1
<1>8. CASE ReloadStarts
  BY <1>8, ReloadEffect DEF ReloadStarts
<1>9. CASE ClientCloses
  BY <1>9 DEF ClientCloses
<1>10. CASE UnloadEnds
  <2>1. ObjectIsWhole'
    <3>1. listening' = listening /\ ~listening /\ publisher' = "none"
      BY <1>10, UnloadEffect
    <3>2. \/ entry' = "not_loaded" /\ pc' = "idle"
          \/ entry' = "setup_in_progress" /\ pc' = "gateway" /\ client'
      BY <1>10, UnloadEffect
    <3> QED
      BY <3>1, <3>2
  <2>2. StraysAreShut'
    <3>1. TRUE \notin strays /\ strays' \subseteq strays \cup {FALSE}
      BY <1>10, UnloadEffect
    <3> QED
      BY <3>1
  <2> QED
    BY <2>1, <2>2
<1>11. CASE Reauth
  <2>1. UNCHANGED <<entry, pc, client, used, listening, publisher, strays>>
    BY <1>11 DEF Reauth, ReauthAborts, ReauthAsks, ReauthBreaks, ReauthSucceeds
  <2> QED
    BY <2>1
<1>12. CASE OptionsSaved
  <2>1. CASE reload' = TRUE /\ UNCHANGED <<entry, pc, clientVars, listening, overtaken>>
    BY <1>12, <2>1 DEF OptionsSaved
  <2>2. CASE pc = "idle" /\ BeginReload /\ overtaken' = (pc' = "gateway") /\ UNCHANGED reload
    BY <1>12, <2>2, ReloadEffect DEF OptionsSaved
  <2> QED
    BY <1>12, <2>1, <2>2 DEF OptionsSaved
<1>13. CASE EnabledToggled \/ CredentialsRevoked
  <2>1. UNCHANGED <<entry, pc, client, used, listening, publisher, strays>>
    BY <1>13 DEF EnabledToggled, CredentialsRevoked
  <2> QED
    BY <2>1
<1>14. CASE UNCHANGED vars
  BY <1>14 DEF vars
<1> QED
  BY <1>1, <1>2, <1>3, <1>4, <1>5, <1>6, <1>7, <1>8, <1>9, <1>10, <1>11, <1>12, <1>13, <1>14
  DEF Next, Setup, Unload, Users

-----------------------------------------------------------------------------
\* Clients.

\* A reload of an entry that is not loaded gives up a client that is open, if
\* a broken set-up has left one; that of a loaded entry closes its own.
LEMMA ReloadLeavesNoClient ==
    ASSUME Inv, pc = "idle", BeginReload, UNCHANGED errors
    PROVE  ClientsAreClosed'
<1> USE BoundsAssumption
    DEF Inv, TypeOK, InSetup, ClientsAreClosed, ClientIsAbandoned, clientVars
<1>1. CASE client /\ entry # "loaded"
  <2>1. ClientIsAbandoned
    BY <1>1
  <2>2. \/ ~ClientIsAbandoned' /\ leaked' = Counted(leaked, MaxErrors)
        \/ leaked' = leaked
    BY <1>1, ReloadEffect
  <2>3. leaked + 1 <= errors \/ errors = MaxErrors
    BY <2>1
  <2>4. CASE ~ClientIsAbandoned' /\ leaked' = Counted(leaked, MaxErrors)
    <3>1. leaked' \in {leaked, leaked + 1}
      BY <2>4 DEF Counted
    <3> QED
      BY <2>3, <2>4, <3>1
  <2>5. CASE leaked' = leaked
    BY <2>3, <2>5
  <2> QED
    BY <2>2, <2>4, <2>5
<1>2. CASE ~(client /\ entry # "loaded")
  <2>1. ~ClientIsAbandoned' /\ leaked' = leaked
    <3>1. CASE entry = "loaded"
      BY <3>1, ReloadEffect
    <3>2. CASE entry # "loaded" /\ client = FALSE
      BY <3>2, ReloadEffect
    <3> QED
      BY <1>2, <3>1, <3>2
  <2>2. leaked <= errors \/ errors = MaxErrors
    OBVIOUS
  <2> QED
    BY <2>1, <2>2
<1> QED
  BY <1>1, <1>2

\* A set-up after a broken one leaks the client that one left open; a set-up
\* that breaks leaves one open and is counted.
LEMMA ClientsStep ==
    ASSUME Inv, [Next]_vars
    PROVE  ClientsAreClosed'
<1> USE BoundsAssumption
    DEF Inv, TypeOK, InSetup, EntryStates, ObjectIsWhole, ClientsAreClosed,
        ClientIsAbandoned, entryVars, userVars, objectVars, clientVars, taskVars, history
<1>1. CASE SetupStarts
  <2>1. ~ClientIsAbandoned'
    BY <1>1 DEF SetupStarts, BeginSetup
  <2>2. CASE client
    <3>1. ClientIsAbandoned
      BY <1>1, <2>2 DEF SetupStarts
    <3>2. leaked' = Counted(leaked, MaxErrors) /\ errors' = errors
      BY <1>1, <2>2 DEF SetupStarts, BeginSetup
    <3> QED
      BY <2>1, <3>1, <3>2 DEF Counted
  <2>3. CASE ~client
    BY <1>1, <2>1, <2>3 DEF SetupStarts, BeginSetup
  <2> QED
    BY <2>2, <2>3
<1>2. CASE RequestsSucceed
  BY <1>2 DEF RequestsSucceed
<1>3. CASE RequestRefused \/ RequestFails
  BY <1>3 DEF RequestRefused, RequestFails, SetupGivesUp
<1>4. CASE SetupBreaks
  <2>1. ~ClientIsAbandoned /\ leaked' = leaked /\ errors' = Counted(errors, MaxErrors)
    BY <1>4 DEF SetupBreaks
  <2> QED
    BY <2>1 DEF Counted
<1>5. CASE SetupFailed
  BY <1>5 DEF SetupFailed, StartReauth
<1>6. CASE PipelineStarts \/ SetupEnds
  BY <1>6 DEF PipelineStarts, SetupEnds
<1>7. CASE Publisher
  BY <1>7 DEF Publisher, PublisherRuns, RunEnds, RunRefused
<1>8. CASE ReloadStarts
  BY <1>8, ReloadLeavesNoClient DEF ReloadStarts
<1>9. CASE ClientCloses
  BY <1>9 DEF ClientCloses
<1>10. CASE UnloadEnds
  BY <1>10, UnloadEffect
<1>11. CASE Reauth
  BY <1>11 DEF Reauth, ReauthAborts, ReauthAsks, ReauthBreaks, ReauthSucceeds
<1>12. CASE OptionsSaved
  <2>1. CASE reload' = TRUE /\ UNCHANGED <<entry, pc, clientVars, listening, overtaken>>
    BY <1>12, <2>1 DEF OptionsSaved
  <2>2. CASE pc = "idle" /\ BeginReload /\ overtaken' = (pc' = "gateway") /\ UNCHANGED reload
    BY <1>12, <2>2, ReloadLeavesNoClient DEF OptionsSaved
  <2> QED
    BY <1>12, <2>1, <2>2 DEF OptionsSaved
<1>13. CASE EnabledToggled \/ CredentialsRevoked
  BY <1>13 DEF EnabledToggled, CredentialsRevoked
<1>14. CASE UNCHANGED vars
  BY <1>14 DEF vars
<1> QED
  BY <1>1, <1>2, <1>3, <1>4, <1>5, <1>6, <1>7, <1>8, <1>9, <1>10, <1>11, <1>12, <1>13, <1>14
  DEF Next, Setup, Unload, Users

-----------------------------------------------------------------------------
\* The theorems.

LEMMA SpecInv == Spec => []Inv
<1>1. Inv /\ [Next]_vars => Inv'
  BY TypeStep, ObjectStep, ClientsStep DEF Inv
<1> QED
  BY <1>1, InitInv, PTL DEF Spec

\* Whatever HA, the user and OpenSearch do, the state that HA shows of the
\* entry agrees with what its task is doing.
THEOREM TypeCorrect == Spec => []TypeOK
<1>1. Inv => TypeOK
  BY DEF Inv
<1> QED
  BY <1>1, SpecInv, PTL

\* async_shutdown, called by a failed set-up and by the unload, closes every
\* client but one for each unexpected error, as far as these are counted.
THEOREM ClientsGetClosed == Spec => []ClientsAreClosed
<1>1. Inv => ClientsAreClosed
  BY DEF Inv
<1> QED
  BY <1>1, SpecInv, PTL

\* Of all lives of an entry at most one gathers events and has an open client:
\* the listener is stopped before the next set-up begins, and a publisher that
\* survives the cancellation of its task has had its client closed before.
THEOREM PipelinesDoNotOverlap == Spec => []OnePipelineAtATime
<1>1. Inv => OnePipelineAtATime
  BY DEF Inv, TypeOK, InSetup, EntryStates, ObjectIsWhole, StraysAreShut,
         OnePipelineAtATime
<1> QED
  BY <1>1, SpecInv, PTL
=============================================================================
