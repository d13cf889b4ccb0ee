-------------------------- MODULE LoopHandlerProofs --------------------------
(***************************************************************************)
(* What is proved of LoopHandler for every frequency.                      *)
(***************************************************************************)
EXTENDS LoopHandler, TLAPS

\* The clock of the schedule and the clock of the last run agree: what has
\* passed since the last run and what is missing to the next make up a period.
ClocksAgree == due + since >= Frequency

\* Only a loop that sleeps or has not started can still begin a run after
\* stop(), and it has not done so yet.
LateRunIsLast ==
    /\ late > 0 => shouldStop
    /\ pc \in {"created", "spinning"} => late = 0
    /\ StopAllowsOneMoreRun

Inv == TypeOK /\ ClocksAgree /\ LateRunIsLast

\* Beginning a run takes a run that is due.
LEMMA WaitKeepsInv ==
    ASSUME Inv, WaitForNextRun, late = 0,
           UNCHANGED flags, UNCHANGED waiter
    PROVE  Inv'
<1> USE FrequencyAssumption DEF Inv, TypeOK, ClocksAgree, LateRunIsLast,
        StopAllowsOneMoreRun, Over, runCount
<1>1. CASE due = 0 /\ BeginRun
  BY <1>1 DEF BeginRun, flags
<1>2. CASE due > 0 /\ UNCHANGED <<runCount, due, since, late>>
  BY <1>2 DEF WaitForNextRun, flags
<1> QED
  BY <1>1, <1>2 DEF WaitForNextRun

LEMMA InitInv == Init => Inv
<1> SUFFICES ASSUME Init
             PROVE  Inv
  OBVIOUS
<1> USE FrequencyAssumption DEF Init
<1>1. Frequency \in Nat /\ 0 \in 0..Frequency /\ Frequency \in 0..Frequency
  OBVIOUS
<1>2. TypeOK
  <2>1. due \in 0..Frequency /\ since \in 0..Frequency
    BY <1>1
  <2>2. asleep \in 0..1 /\ late \in 0..2
    OBVIOUS
  <2> QED
    BY <2>1, <2>2 DEF TypeOK
<1>3. 0 + Frequency = Frequency
  BY <1>1
<1>4. ClocksAgree /\ LateRunIsLast
  BY <1>1, <1>3 DEF ClocksAgree, LateRunIsLast, StopAllowsOneMoreRun
<1> QED
  BY <1>2, <1>4 DEF Inv

LEMMA NextInv == Inv /\ [Next]_vars => Inv'
<1> SUFFICES ASSUME Inv, [Next]_vars
             PROVE  Inv'
  OBVIOUS
<1> USE FrequencyAssumption
<1>1. CASE Start
  <2>1. late = 0
    BY <1>1 DEF Inv, LateRunIsLast, Start
  <2>2. CASE ~shouldStop /\ WaitForNextRun
    <3> USE DEF Inv, TypeOK, ClocksAgree, LateRunIsLast, StopAllowsOneMoreRun,
            Over, runCount
    <3>1. CASE due = 0 /\ BeginRun
      BY <1>1, <2>1, <2>2, <3>1 DEF Start, BeginRun
    <3>2. CASE due > 0 /\ UNCHANGED <<runCount, due, since, late>>
      BY <1>1, <2>1, <2>2, <3>2 DEF Start, WaitForNextRun
    <3> QED
      BY <2>2, <3>1, <3>2 DEF WaitForNextRun
  <2>3. CASE pc' = "ended" /\ UNCHANGED <<asleep, runCount, due, since, late>>
    BY <1>1, <2>1, <2>3 DEF Start, Inv, TypeOK, ClocksAgree, LateRunIsLast,
       StopAllowsOneMoreRun, Over, runCount
  <2> QED
    BY <1>1, <2>2, <2>3 DEF Start, Loop
<1>2. CASE SpinEnds
  <2>1. late = 0
    BY <1>2 DEF Inv, LateRunIsLast, SpinEnds
  <2> QED
    BY <1>2, <2>1, WaitKeepsInv DEF SpinEnds
<1>3. CASE FuncReturns
  <2>1. CASE running /\ ~shouldStop
    <3>1. late = 0
      BY <2>1 DEF Inv, LateRunIsLast, TypeOK
    <3> QED
      BY <1>3, <2>1, <3>1, WaitKeepsInv DEF FuncReturns, Loop, flags
  <2>2. CASE ~(running /\ ~shouldStop)
    BY <1>3, <2>2 DEF Inv, TypeOK, ClocksAgree, LateRunIsLast,
       StopAllowsOneMoreRun, Over, runCount, FuncReturns, Loop, flags
  <2> QED
    BY <2>1, <2>2
<1>4. CASE FuncRaises \/ Stop \/ Cancel \/ FirstRunSeen
  BY <1>4 DEF Inv, TypeOK, ClocksAgree, LateRunIsLast, StopAllowsOneMoreRun,
     Over, runCount, FuncRaises, Stop, Cancel, FirstRunSeen, flags
<1>5. CASE Tick
  BY <1>5 DEF Inv, TypeOK, ClocksAgree, LateRunIsLast, StopAllowsOneMoreRun,
     Over, runCount, Tick, flags
<1>6. CASE UNCHANGED vars
  BY <1>6 DEF Inv, TypeOK, ClocksAgree, LateRunIsLast, StopAllowsOneMoreRun,
     Over, runCount, vars, flags
<1> QED
  BY <1>1, <1>2, <1>3, <1>4, <1>5, <1>6 DEF Next

LEMMA SpecInv == Spec => []Inv
BY InitInv, NextInv, PTL DEF Spec

\* Every variable of the loop keeps its type, for every frequency: the next run
\* is never further off than a period.
THEOREM TypeCorrect == Spec => []TypeOK
<1>1. Inv => TypeOK
  BY DEF Inv
<1> QED
  BY <1>1, SpecInv, PTL

\* After stop(), whenever it is called, LoopHandler begins at most one more run.
THEOREM StopIsPrompt == Spec => []StopAllowsOneMoreRun
<1>1. Inv => StopAllowsOneMoreRun
  BY DEF Inv, LateRunIsLast
<1> QED
  BY <1>1, SpecInv, PTL

\* Two runs of a LoopHandler begin at least Frequency seconds apart, for every
\* frequency and whatever the function and the event loop take.
THEOREM SpacedRuns == Spec => RunsAreSpaced
<1>1. Inv /\ [Next]_vars => [odd' # odd => since = Frequency]_vars
  <2> SUFFICES ASSUME Inv, Next, odd' # odd
               PROVE  since = Frequency
    BY DEF vars
  <2> USE FrequencyAssumption DEF Inv, TypeOK, ClocksAgree, runCount
  <2>1. CASE Start
    BY <2>1 DEF Start, Loop, WaitForNextRun, BeginRun
  <2>2. CASE SpinEnds
    BY <2>2 DEF SpinEnds, WaitForNextRun, BeginRun
  <2>3. CASE FuncReturns
    BY <2>3 DEF FuncReturns, Loop, WaitForNextRun, BeginRun
  <2>4. CASE FuncRaises \/ Stop \/ Cancel \/ FirstRunSeen \/ Tick
    BY <2>4 DEF FuncRaises, Stop, Cancel, FirstRunSeen, Tick
  <2> QED
    BY <2>1, <2>2, <2>3, <2>4 DEF Next
<1> QED
  BY <1>1, SpecInv, PTL DEF Spec, RunsAreSpaced
=============================================================================
