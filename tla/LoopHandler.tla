----------------------------- MODULE LoopHandler -----------------------------
(***************************************************************************)
(* The loop that drives the poller and the publisher: class LoopHandler of *)
(* loop.py.  It calls a function at most once every Frequency seconds,     *)
(* sleeping a second at a time in between, until it is stopped, cancelled  *)
(* or the function raises.                                                 *)
(*                                                                         *)
(* Time is discrete and relative: due and since count the seconds to the   *)
(* next run and from the last one.  The function may take any time, and a  *)
(* task that could go on may be kept waiting by others.                    *)
(***************************************************************************)
EXTENDS Integers

CONSTANT Frequency      \* seconds between two runs

ASSUME FrequencyAssumption == Frequency \in Nat \ {0}

VARIABLES
    pc,             \* where start() is
    asleep,         \* seconds the current sleep still lasts
    running,        \* _running
    shouldStop,     \* _should_stop
    hasRun,         \* _run_count > 0
    odd,            \* _run_count is odd: it changes with every run
    due,            \* _next_run_time - now, 0 when it has passed
    since,          \* seconds since the last run began, Frequency at most
    late,           \* runs begun after stop() was called, 2 at most
    waiter          \* where a caller of wait_for_first_run is

flags == <<running, shouldStop>>
runCount == <<hasRun, odd>>
vars == <<pc, asleep, flags, runCount, due, since, late, waiter>>

Over == {"ended", "raised", "cancelled"}

Init ==
    /\ pc = "created"
    /\ asleep = 0
    /\ running = FALSE
    /\ shouldStop = FALSE
    /\ hasRun = FALSE
    /\ odd = FALSE
    /\ due = 0                  \* the first run is due at once
    /\ since = Frequency
    /\ late = 0
    /\ waiter = "waiting"

\* A plausible slip: the next run is never scheduled.
BeginRunUnscheduled ==
    /\ hasRun' = TRUE
    /\ odd' = ~odd
    /\ pc' = "running"
    /\ since' = 0
    /\ late' = IF shouldStop /\ late < 2 THEN late + 1 ELSE late
    /\ UNCHANGED <<asleep, due>>

\* A plausible slip: the time to the next run is rounded up by a second.
BeginRunRoundedUp ==
    /\ due' = Frequency + 1
    /\ hasRun' = TRUE
    /\ odd' = ~odd
    /\ pc' = "running"
    /\ since' = 0
    /\ late' = IF shouldStop /\ late < 2 THEN late + 1 ELSE late
    /\ UNCHANGED asleep

\* _schedule_next_run, and the call of the function
BeginRun ==
    /\ due' = Frequency
    /\ hasRun' = TRUE
    /\ odd' = ~odd
    /\ pc' = "running"
    /\ since' = 0
    /\ late' = IF shouldStop /\ late < 2 THEN late + 1 ELSE late
    /\ UNCHANGED asleep

\* _wait_for_next_run up to its first await: a run that is due begins, and
\* only a wait notices that the loop was stopped.
WaitForNextRun ==
    \/ /\ due = 0
       /\ BeginRun
    \/ /\ due > 0
       /\ IF shouldStop
          THEN pc' = "raised" /\ UNCHANGED asleep
          ELSE pc' = "spinning" /\ asleep' = 1
       /\ UNCHANGED <<runCount, due, since, late>>

\* A plausible slip: the loop does not look at its flags.
LoopForever == WaitForNextRun

\* The head of the while loop.
Loop ==
    IF running' /\ ~shouldStop
    THEN WaitForNextRun
    ELSE /\ pc' = "ended"
         /\ UNCHANGED <<asleep, runCount, due, since, late>>

\* start
Start ==
    /\ pc = "created"
    /\ running' = TRUE
    /\ Loop
    /\ UNCHANGED <<shouldStop, waiter>>

\* The sleep of _spin is over.
SpinEnds ==
    /\ pc = "spinning"
    /\ asleep = 0
    /\ WaitForNextRun
    /\ UNCHANGED <<flags, waiter>>

\* A plausible slip: the body of the loop is executed once.
FuncReturnsOnce ==
    /\ pc = "running"
    /\ pc' = "ended"
    /\ UNCHANGED <<asleep, flags, runCount, due, since, late, waiter>>

FuncReturns ==
    /\ pc = "running"
    /\ UNCHANGED flags
    /\ Loop
    /\ UNCHANGED waiter

\* The exception is logged, the loop stopped, and the exception raised again.
FuncRaises ==
    /\ pc = "running"
    /\ running' = FALSE
    /\ shouldStop' = TRUE
    /\ pc' = "raised"
    /\ UNCHANGED <<asleep, runCount, due, since, late, waiter>>

\* stop
Stop ==
    /\ ~shouldStop
    /\ shouldStop' = TRUE
    /\ running' = FALSE
    /\ UNCHANGED <<pc, asleep, runCount, due, since, late, waiter>>

\* The task is cancelled in one of its awaits.
Cancel ==
    /\ pc \in {"spinning", "running"}
    /\ pc' = "cancelled"
    /\ UNCHANGED <<asleep, flags, runCount, due, since, late, waiter>>

\* wait_for_first_run looks again, every tenth of a second.
FirstRunSeen ==
    /\ waiter = "waiting"
    /\ hasRun
    /\ waiter' = "returned"
    /\ UNCHANGED <<pc, asleep, flags, runCount, due, since, late>>

\* A second passes.
Tick ==
    /\ due' = IF due > 0 THEN due - 1 ELSE 0
    /\ asleep' = IF asleep > 0 THEN asleep - 1 ELSE 0
    /\ since' = IF since < Frequency THEN since + 1 ELSE since
    /\ UNCHANGED <<pc, flags, runCount, late, waiter>>

Next ==
    \/ Start \/ SpinEnds \/ FuncReturns \/ FuncRaises
    \/ Stop \/ Cancel \/ FirstRunSeen \/ Tick

Spec == Init /\ [][Next]_vars

(***************************************************************************)
(* The event loop runs what is ready, clocks go on, and the function ends: *)
(* the poller's awaits nothing and the publisher's requests time out.      *)
(***************************************************************************)
Fairness ==
    /\ WF_vars(Start)
    /\ WF_vars(SpinEnds)
    /\ WF_vars(FuncReturns \/ FuncRaises)
    /\ WF_vars(FirstRunSeen)
    /\ WF_vars(Tick)

FairSpec == Spec /\ Fairness

-----------------------------------------------------------------------------
\* Properties.

\* Every variable stays in its type.
TypeOK ==
    /\ pc \in {"created", "spinning", "running"} \cup Over
    /\ asleep \in 0..1
    /\ running \in BOOLEAN
    /\ shouldStop \in BOOLEAN
    /\ hasRun \in BOOLEAN /\ odd \in BOOLEAN
    /\ due \in 0..Frequency
    /\ since \in 0..Frequency
    /\ late \in 0..2
    /\ waiter \in {"waiting", "returned"}

\* The function is never called twice within Frequency seconds, however long
\* it takes and however late its task wakes: a missed run is not made up.
RunsAreSpaced ==
    [][odd' # odd => since = Frequency]_vars

\* After stop() at most one more run begins: the one that falls due while the
\* loop sleeps its last second, which ends without looking at _should_stop.
StopAllowsOneMoreRun == late <= 1

\* A stopped loop ends.
StopEndsTheLoop == shouldStop ~> pc \in Over \cup {"created"}

\* A loop that is neither stopped nor cancelled runs its function again and
\* again, whatever delays it meets; only an exception ends it.
KeepsRunning ==
    []<>(pc \in {"raised", "cancelled"} \/ shouldStop \/ (pc = "running" /\ since = 0))
=============================================================================
