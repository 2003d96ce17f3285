---------------------------- MODULE UnitExecution ----------------------------
(***************************************************************************)
(* The execution substrate of core: scheduleUnits runs a list of units     *)
(* through a window, runWithTimeout races each unit's work with its budget  *)
(* and with the interrupt of the whole invocation, runWithRetry repeats     *)
(* work that throws.  The two clients of all three are the recipe services  *)
(* of the fitness ("fit") and the simulation ("sim") engine.                *)
(*                                                                          *)
(* JavaScript runs one macrotask at a time and drains the microtasks after  *)
(* each: Quiet says that no continuation is pending, and a timer, an        *)
(* immediate or a signal handler runs only then.                            *)
(***************************************************************************)
EXTENDS Naturals, FiniteSets

CONSTANTS N,          \* number of units of the recipe
          Configs     \* the recipes' execution options

Units == 1..N
Tools == {"fit", "sim"}

ASSUME UnitsAssumption == N \in Nat \ {0}

\* maxParallel is at least one; a sequential recipe is a window of one.  The
\* scenarios of a simulation are run without retries.
ASSUME ConfigsAssumption ==
    Configs \subseteq {c \in [tool : Tools, window : Nat \ {0}, retries : Nat, strict : BOOLEAN] :
                          c.tool = "sim" => c.retries = 0}

Evidence == {"pass", "bad"}                  \* a result, passing or not
Results == Evidence \cup {"thrown", "cancelled"}
Outcomes == Evidence \cup {"none", "timeout", "error", "cancelled"}
Works == {"waiting", "running", "finishing", "backoff", "stopped"}

VARIABLES
    config,     \* the recipe's options
    interrupt,  \* the root signal of the invocation is aborted
    recipeStop, \* the recipe service was asked to abort
    next,       \* units launched so far
    inFlight,   \* units whose runUnit has not drained
    stopping,   \* a unit asked the scheduler to stop
    aborted,    \* the scheduler has observed an abort
    settled,    \* the promise of the recipe
    unit        \* per unit: its work and the race around it

vars == <<config, interrupt, recipeStop, next, inFlight, stopping, aborted, settled, unit>>
root == <<config, interrupt, recipeStop>>
schedule == <<next, inFlight, stopping, aborted, settled>>

\* work: the domain's promise, which may go on after the outcome; hand: what it
\* settled with; signal: the unit's controller is aborted; listening: the two
\* listeners on the root signal; conceding: the immediate that gives up the race.
Lifecycles == [work : Works, hand : Results \cup {"none"}, attempt : Nat, signal : BOOLEAN,
               timer : BOOLEAN, listening : BOOLEAN, conceding : BOOLEAN, outcome : Outcomes]

Waiting == [work |-> "waiting", hand |-> "none", attempt |-> 0, signal |-> FALSE,
            timer |-> FALSE, listening |-> FALSE, conceding |-> FALSE, outcome |-> "none"]

Init ==
    /\ config \in Configs
    /\ interrupt = FALSE /\ recipeStop = FALSE
    /\ next = 0 /\ inFlight = {} /\ stopping = FALSE /\ aborted = FALSE
    /\ settled = "idle"
    /\ unit = [u \in Units |-> Waiting]

Abort == interrupt \/ recipeStop
Quiet == \A u \in Units : unit[u].work # "finishing"

-----------------------------------------------------------------------------
(* The race of one unit.  r is the record of the unit. *)

\* Mutant: the listeners on the root signal stay.
FinishedTimer(r) == [r EXCEPT !.timer = FALSE, !.conceding = FALSE]

\* finish(): the timer and the listeners go, and the immediate with them.
Finished(r) == [r EXCEPT !.timer = FALSE, !.listening = FALSE, !.conceding = FALSE]

\* The race is decided once; its finally clause runs finish() again.
Decided(r, o) == Finished([r EXCEPT !.outcome = IF @ = "none" THEN o ELSE @])

\* The controller's abort reaches a sleeping retry at once.
Signalled(r) ==
    [r EXCEPT !.signal = TRUE,
              !.work = IF @ = "backoff" THEN "finishing" ELSE @,
              !.hand = IF r.work = "backoff" THEN "cancelled" ELSE @]

\* Work whose abort listener settles the domain's promise in the same turn.
Settling(r, h) == [r EXCEPT !.work = "finishing", !.hand = h]

Running == {u \in Units : unit[u].work = "running"}

\* runWithRetry: only a thrown error that is no cancellation is retried.
CanRetry(r) == /\ r.hand = "thrown"
               /\ r.attempt < config.retries
               /\ ~r.signal

\* How the end of the work is classified.
Verdict(r) ==
    IF r.signal /\ ~interrupt THEN "timeout"
    ELSE IF r.hand \in Evidence THEN r.hand
    ELSE IF r.hand = "cancelled" \/ (config.tool = "fit" /\ interrupt) THEN "cancelled"
    ELSE "error"

\* The domain's promise settles, sooner, later or never.
Finish(u) ==
    /\ unit[u].work = "running"
    /\ \E h \in Results :
          /\ h = "cancelled" => unit[u].signal \/ recipeStop
          /\ unit' = [unit EXCEPT ![u] = Settling(@, h)]
    /\ UNCHANGED <<root, schedule>>

\* The continuations of the settled promise: a retry, or the end of the chain.
Continue(u) ==
    /\ unit[u].work = "finishing"
    /\ unit' = [unit EXCEPT ![u] =
                   IF CanRetry(@) THEN [@ EXCEPT !.work = "backoff"]
                   ELSE [Decided(@, Verdict(@)) EXCEPT !.work = "stopped"]]
    /\ UNCHANGED <<root, schedule>>

Again(r) == [r EXCEPT !.work = "running", !.hand = "none", !.attempt = @ + 1]

BackoffEnds(u) ==
    /\ Quiet
    /\ unit[u].work = "backoff"
    /\ unit' = [unit EXCEPT ![u] = Again(@)]
    /\ UNCHANGED <<root, schedule>>

\* The unit's timer: it aborts the controller, then resolves the race.
BudgetEnds(u) ==
    /\ Quiet
    /\ unit[u].timer
    /\ \E r \in {Signalled(unit[u])} \cup
                {Settling(Signalled(unit[u]), h) : h \in IF u \in Running THEN Results ELSE {}} :
          unit' = [unit EXCEPT ![u] = Decided(r, "timeout")]
    /\ UNCHANGED <<root, schedule>>

\* Mutant: the race is conceded in the handler of the signal.
InterruptedAtOnce(r) == IF r.listening THEN Decided(Signalled(r), "cancelled") ELSE r

\* Mutant: only the unit's controller is aborted.
InterruptedChild(r) == IF r.listening THEN [Signalled(r) EXCEPT !.listening = FALSE] ELSE r

\* The root signal: each unit's controller is aborted first, then its race
\* defers conceding by one macrotask.  Both listeners are called once.
Interrupted(r) ==
    IF r.listening THEN [Signalled(r) EXCEPT !.listening = FALSE, !.conceding = TRUE] ELSE r

Interrupt ==
    /\ Quiet
    /\ ~interrupt
    /\ interrupt' = TRUE
    /\ \E S \in SUBSET {u \in Running : unit[u].listening}, h \in Results :
          unit' = [u \in Units |-> IF u \in S THEN Settling(Interrupted(unit[u]), h)
                                   ELSE Interrupted(unit[u])]
    /\ UNCHANGED <<config, recipeStop, schedule>>

\* The deferred immediate.
Concede(u) ==
    /\ Quiet
    /\ unit[u].conceding
    /\ unit' = [unit EXCEPT ![u] = Decided(@, "cancelled")]
    /\ UNCHANGED <<root, schedule>>

-----------------------------------------------------------------------------
(* The window. *)

Launched(r) == [r EXCEPT !.work = "running", !.timer = TRUE, !.listening = TRUE]

\* A simulation that was cancelled rejects even when its schedule resolves.
Resolution == IF config.tool = "sim" /\ Abort THEN "rejected" ELSE "resolved"

\* Mutant: a fractional bound is rounded up.
BatchBeyond == IF Abort THEN {} ELSE {u \in Units : u <= config.window + 1}

Batch == IF Abort THEN {} ELSE {u \in Units : u <= config.window}

Start ==
    /\ settled = "idle"
    /\ inFlight' = Batch
    /\ next' = Cardinality(Batch)
    /\ aborted' = Abort
    /\ settled' = IF Batch = {} THEN Resolution ELSE "open"
    /\ unit' = [u \in Units |-> IF u \in Batch THEN Launched(unit[u]) ELSE unit[u]]
    /\ UNCHANGED <<root, stopping>>

\* The service's abort(): only the scheduler and the domain see it.
RecipeStop ==
    /\ Quiet
    /\ settled \in {"idle", "open"}
    /\ ~recipeStop
    /\ recipeStop' = TRUE
    /\ UNCHANGED <<config, interrupt, schedule, unit>>

\* A cancelled scenario is thrown; a cancelled check is recorded as an error.
Throws(u) == config.tool = "sim" /\ unit[u].outcome = "cancelled"
WantsStop(u) == Throws(u) \/ (config.strict /\ unit[u].outcome # "pass")

\* Mutants: the stop is forgotten; the end of the list is.
MayRefillStopping(u) == ~aborted /\ next < N
MayRefillBeyond(u) == ~(stopping \/ WantsStop(u)) /\ ~aborted /\ next <= N

\* Whether a completion looks for another unit to launch.
MayRefill(u) == ~(stopping \/ WantsStop(u)) /\ ~aborted /\ next < N

\* Mutant: an observed abort does not end the drain.
DrainedAll == inFlight' = {} /\ (next' >= N \/ stopping')

\* Nothing is in flight and nothing more will be.
Drained == inFlight' = {} /\ (next' >= N \/ stopping' \/ aborted')

\* then / catch / finally of launch, after the yield between two units.
Drain(u) ==
    /\ Quiet
    /\ u \in inFlight
    /\ unit[u].outcome # "none"
    /\ stopping' = (stopping \/ WantsStop(u))
    /\ aborted' = (aborted \/ (MayRefill(u) /\ Abort))
    /\ next' = IF MayRefill(u) /\ ~Abort THEN next + 1 ELSE next
    /\ inFlight' = (inFlight \ {u}) \cup ((next + 1)..next')
    /\ unit' = [v \in Units |-> IF v \in (next + 1)..next' THEN Launched(unit[v]) ELSE unit[v]]
    /\ settled' = IF settled = "open" /\ Throws(u) THEN "rejected"
                  ELSE IF settled = "open" /\ Drained THEN Resolution
                  ELSE settled
    /\ UNCHANGED root

Next ==
    \/ Start \/ Interrupt \/ RecipeStop
    \/ \E u \in Units : \/ Finish(u) \/ Continue(u) \/ BackoffEnds(u)
                        \/ BudgetEnds(u) \/ Concede(u) \/ Drain(u)

Spec == Init /\ [][Next]_vars

\* Continuations and immediates run, and the sleep between two attempts ends.
\* The work itself is not assumed to settle, nor a timer to fire.
FairSpec == Spec /\ WF_vars(Start)
                 /\ \A u \in Units : WF_vars(Continue(u)) /\ WF_vars(Concede(u))
                                     /\ WF_vars(Drain(u)) /\ WF_vars(BackoffEnds(u))

-----------------------------------------------------------------------------
(* Properties *)

\* Every variable has its type.
TypeOK ==
    /\ config \in Configs
    /\ interrupt \in BOOLEAN /\ recipeStop \in BOOLEAN
    /\ stopping \in BOOLEAN /\ aborted \in BOOLEAN
    /\ next \in 0..N
    /\ inFlight \subseteq Units
    /\ settled \in {"idle", "open", "resolved", "rejected"}
    /\ unit \in [Units -> Lifecycles]

\* The window never holds more units than it may, and a recipe resolves only
\* when each unit it launched has been decided and drained and the rest were
\* left out on purpose (the drain condition of scheduleUnits).
WindowSound ==
    /\ Cardinality(inFlight) <= config.window
    /\ settled = "resolved" =>
          /\ inFlight = {}
          /\ \A u \in 1..next : unit[u].outcome # "none"
          /\ next = N \/ stopping \/ Abort

\* A decided unit has left nothing behind on the long-lived root signal and no
\* timer or immediate, also when its work never settles; an undecided one that
\* was launched still has something that will decide it (the finally clause of
\* runWithTimeout).
RaceGuarded ==
    \A u \in Units :
        /\ unit[u].outcome # "none" =>
              ~unit[u].timer /\ ~unit[u].listening /\ ~unit[u].conceding
        /\ unit[u].outcome = "none" /\ unit[u].work # "waiting" =>
              unit[u].timer /\ (IF interrupt THEN unit[u].conceding ELSE unit[u].listening)

\* A result that the work has produced is what the unit reports: an interrupt
\* never replaces it, and a budget that ends later does not either (the
\* deferred concession of hardParentAbort).
EvidenceSurvives ==
    [][\A u \in Units :
          unit[u].outcome = "none" /\ unit'[u].outcome # "none" =>
             IF unit'[u].outcome = "timeout" THEN unit[u].hand \notin Evidence
             ELSE unit'[u].hand \in Evidence => unit'[u].outcome = unit'[u].hand]_vars

\* Once a stop, an abort or a rejection is on record no unit is launched, and
\* no attempt begins under a signal that is already aborted.
NothingStartsAfterStop ==
    [][/\ stopping \/ Abort \/ settled \in {"resolved", "rejected"} => next' = next
       /\ \A u \in Units : unit[u].signal => unit'[u].attempt = unit[u].attempt]_vars

\* After an interrupt the recipe settles although the work ignores its signal
\* and no timer fires: what hardParentAbort and the drain condition are for.
InterruptSettles == interrupt ~> settled \in {"resolved", "rejected"}

\* With budgets that end, every recipe settles whatever its work does.
BudgetsSettle ==
    (\A u \in Units : WF_vars(BudgetEnds(u))) => <>(settled \in {"resolved", "rejected"})

=============================================================================
