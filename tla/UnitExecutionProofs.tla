------------------------- MODULE UnitExecutionProofs -------------------------
(***************************************************************************)
(* The safety properties of UnitExecution for every number of units and     *)
(* every recipe.  The invariant says what guards an undecided unit, what a   *)
(* unit that was not launched looks like, and how the window, the list and   *)
(* the settled promise fit together.                                         *)
(***************************************************************************)
EXTENDS UnitExecution, FiniteSetTheorems, TLAPS

\* A unit beyond the launched ones is untouched; a launched one has begun.
Untouched == \A u \in Units : IF u > next THEN unit[u] = Waiting ELSE unit[u].work # "waiting"

\* An undecided unit that was launched: something will decide it, and its
\* signal is aborted only by the interrupt.
Guarded(r) ==
    /\ r.timer
    /\ IF interrupt THEN r.conceding ELSE r.listening
    /\ r.work # "stopped"
    /\ r.signal => interrupt
    /\ r.work # "finishing" => r.hand \notin Evidence

\* A decided unit has nothing left to race.
Retired(r) == ~r.timer /\ ~r.listening /\ ~r.conceding

Raced == \A u \in Units : /\ ~(unit[u].listening /\ interrupt)
                          /\ unit[u].work = "backoff" => ~unit[u].signal
                          /\ unit[u].outcome # "none" => Retired(unit[u])
                          /\ unit[u].outcome = "none" /\ unit[u].work # "waiting" => Guarded(unit[u])

\* The window holds launched units; those that left it were decided.
Windowed == /\ inFlight \subseteq 1..next
            /\ Cardinality(inFlight) <= config.window
            /\ \A u \in 1..next : u \notin inFlight => unit[u].outcome # "none"
            /\ aborted => Abort

\* What the recipe's promise says of the schedule.
Promised == /\ settled = "idle" => next = 0 /\ ~stopping /\ inFlight = {}
            /\ settled = "resolved" => inFlight = {} /\ (next = N \/ stopping \/ Abort)
            /\ settled = "rejected" => inFlight = {} \/ stopping

IInv == TypeOK /\ Untouched /\ Raced /\ Windowed /\ Promised

LEMMA WaitingTyped == Waiting \in Lifecycles
BY DEF Waiting, Lifecycles, Works, Results, Outcomes, Evidence

LEMMA InitHolds == Init => IInv
<1>1. \A c \in Configs : c.window \in Nat \ {0}
  BY ConfigsAssumption
<1>2. Cardinality({}) = 0
  BY FS_EmptySet
<1> SUFFICES ASSUME Init PROVE IInv
  OBVIOUS
<1> USE UnitsAssumption DEF Init, Units
<1>3. TypeOK
  <2>1. unit \in [Units -> Lifecycles]
    BY WaitingTyped
  <2>2. next \in 0..N
    OBVIOUS
  <2>3. QED
    BY <2>1, <2>2, Zenon DEF TypeOK
<1>4. Untouched
  BY DEF Untouched
<1>5. Raced
  BY DEF Raced, Waiting, Retired, Guarded
<1>6. Windowed
  BY <1>1, <1>2 DEF Windowed
<1>7. Promised
  BY DEF Promised
<1>8. QED
  BY <1>3, <1>4, <1>5, <1>6, <1>7 DEF IInv

-----------------------------------------------------------------------------
(* One unit's record changes and the schedule does not. *)

\* What a step may do to the record of one unit.
Fits(r) == /\ r \in Lifecycles
           /\ r.work # "waiting"
           /\ ~(r.listening /\ interrupt)
           /\ r.work = "backoff" => ~r.signal
           /\ r.outcome # "none" => Retired(r)
           /\ r.outcome = "none" => Guarded(r)

LEMMA OneUnit ==
    ASSUME IInv, NEW u \in Units, NEW r, Fits(r),
           unit[u].work # "waiting",
           unit[u].outcome # "none" => r.outcome # "none",
           unit' = [unit EXCEPT ![u] = r], UNCHANGED <<root, schedule>>
    PROVE  IInv'
<1> USE DEF IInv, root, schedule
<1>1. TypeOK'
  BY DEF TypeOK, Fits
<1>2. Untouched'
  <2>1. ~(u > next)
    BY DEF Untouched, Waiting
  <2>2. unit' = [v \in Units |-> IF v = u THEN r ELSE unit[v]]
    BY DEF TypeOK
  <2>3. QED
    BY <2>1, <2>2 DEF Untouched, Fits
<1>3. Raced'
  <2>1. ASSUME NEW v \in Units
        PROVE  /\ ~(unit'[v].listening /\ interrupt)
               /\ unit'[v].work = "backoff" => ~unit'[v].signal
               /\ unit'[v].outcome # "none" => Retired(unit'[v])
               /\ unit'[v].outcome = "none" /\ unit'[v].work # "waiting" => Guarded(unit'[v])
    <3>1. CASE v = u
      BY <3>1 DEF TypeOK, Fits
    <3>2. CASE v # u
      <4>1. unit'[v] = unit[v]
        BY <3>2 DEF TypeOK
      <4>2. QED
        BY <4>1 DEF Raced
    <3>3. QED
      BY <3>1, <3>2
  <2>2. QED
    BY <2>1 DEF Raced, Guarded
<1>4. Windowed'
  <2>1. ASSUME NEW v \in 1..next, v \notin inFlight
        PROVE  unit'[v].outcome # "none"
    <3>1. v \in Units
      BY UnitsAssumption DEF TypeOK, Units
    <3>2. QED
      BY <2>1, <3>1 DEF Windowed, TypeOK
  <2>2. QED
    BY <2>1 DEF Windowed, Abort
<1>5. Promised'
  BY DEF Promised, Abort
<1>6. QED
  BY <1>1, <1>2, <1>3, <1>4, <1>5

\* The records of IInv, as facts about one unit.
LEMMA UnitFacts ==
    ASSUME IInv, NEW u \in Units
    PROVE  /\ unit[u] \in Lifecycles
           /\ ~(unit[u].listening /\ interrupt)
           /\ unit[u].work = "backoff" => ~unit[u].signal
           /\ unit[u].outcome # "none" => Retired(unit[u])
           /\ unit[u].outcome = "none" /\ unit[u].work # "waiting" => Guarded(unit[u])
           /\ unit[u].timer \/ unit[u].conceding \/ unit[u].listening =>
                 unit[u].outcome = "none" /\ unit[u].work # "waiting"
           /\ unit[u].work = "waiting" => unit[u] = Waiting
<1> USE DEF IInv, TypeOK, Raced, Untouched
<1>1. unit[u].work = "waiting" => unit[u] = Waiting
  OBVIOUS
<1>2. unit[u].timer \/ unit[u].conceding \/ unit[u].listening => unit[u].outcome = "none"
  BY DEF Retired
<1>3. unit[u].timer \/ unit[u].conceding \/ unit[u].listening => unit[u].work # "waiting"
  BY <1>1 DEF Waiting
<1>4. QED
  BY <1>1, <1>2, <1>3

LEMMA FinishKeeps == ASSUME IInv, NEW u \in Units, Finish(u) PROVE IInv'
<1>1. PICK h \in Results : unit' = [unit EXCEPT ![u] = Settling(unit[u], h)]
  BY DEF Finish, IInv, TypeOK
<1>2. Fits(Settling(unit[u], h))
  BY UnitFacts DEF Finish, Fits, Settling, Lifecycles, Works, Guarded, Retired
<1>3. QED
  <2>1. unit[u].work # "waiting" /\ Settling(unit[u], h).outcome = unit[u].outcome
    BY UnitFacts DEF Finish, Settling, Lifecycles
  <2>2. QED
    BY <1>1, <1>2, <2>1, OneUnit DEF Finish

LEMMA ContinueKeeps == ASSUME IInv, NEW u \in Units, Continue(u) PROVE IInv'
<1> DEFINE r == IF CanRetry(unit[u]) THEN [unit[u] EXCEPT !.work = "backoff"]
                ELSE [Decided(unit[u], Verdict(unit[u])) EXCEPT !.work = "stopped"]
<1>1. unit' = [unit EXCEPT ![u] = r]
  BY DEF Continue
<1>2. unit[u].work = "finishing"
  BY DEF Continue
<1>3. Verdict(unit[u]) \in Outcomes \ {"none"}
  BY UnitFacts DEF Verdict, Outcomes, Evidence
<1>4. Fits(r) /\ (unit[u].outcome # "none" => r.outcome # "none")
  <2>1. CASE CanRetry(unit[u])
    BY <1>2, <2>1, UnitFacts
       DEF CanRetry, Fits, Lifecycles, Works, Guarded, Retired, Evidence
  <2>2. CASE ~CanRetry(unit[u])
    BY <1>2, <1>3, <2>2, UnitFacts
       DEF Fits, Decided, Finished, Lifecycles, Works, Retired
  <2>3. QED
    BY <2>1, <2>2
<1>5. QED
  BY <1>1, <1>2, <1>4, OneUnit DEF Continue

\* The record of another attempt.
LEMMA AgainTyped ==
    ASSUME NEW r \in Lifecycles
    PROVE  /\ Again(r) \in Lifecycles
           /\ Again(r).work = "running" /\ Again(r).hand = "none"
           /\ Again(r).signal = r.signal /\ Again(r).timer = r.timer
           /\ Again(r).listening = r.listening /\ Again(r).conceding = r.conceding
           /\ Again(r).outcome = r.outcome
<1>1. r.attempt \in Nat
  BY DEF Lifecycles
<1>2. r.attempt + 1 \in Nat
  BY <1>1
<1> DEFINE n == r.attempt + 1
<1>3. Again(r) = [r EXCEPT !.work = "running", !.hand = "none", !.attempt = n]
  BY DEF Again
<1> HIDE DEF n
<1>4. n \in Nat
  BY <1>2 DEF n
<1>5. QED
  BY <1>3, <1>4 DEF Lifecycles, Works

LEMMA BackoffEndsKeeps == ASSUME IInv, NEW u \in Units, BackoffEnds(u) PROVE IInv'
<1>1. unit[u].work = "backoff"
  BY DEF BackoffEnds
<1>2. Fits(Again(unit[u])) /\ Again(unit[u]).outcome = unit[u].outcome
  <2>1. unit[u] \in Lifecycles
    BY UnitFacts
  <2>2. /\ Again(unit[u]) \in Lifecycles
        /\ Again(unit[u]).work = "running" /\ Again(unit[u]).hand = "none"
        /\ Again(unit[u]).signal = unit[u].signal /\ Again(unit[u]).timer = unit[u].timer
        /\ Again(unit[u]).listening = unit[u].listening
        /\ Again(unit[u]).conceding = unit[u].conceding
        /\ Again(unit[u]).outcome = unit[u].outcome
    BY <2>1, AgainTyped
  <2>3. /\ ~(Again(unit[u]).listening /\ interrupt)
        /\ Again(unit[u]).outcome # "none" => Retired(Again(unit[u]))
    BY <2>2, UnitFacts DEF Retired
  <2>4. Again(unit[u]).outcome = "none" => Guarded(Again(unit[u]))
    BY <1>1, <2>2, UnitFacts DEF Guarded, Evidence
  <2>5. QED
    BY <2>2, <2>3, <2>4 DEF Fits
<1>3. QED
  BY <1>1, <1>2, OneUnit DEF BackoffEnds

\* The record a unit's abort leaves, whether or not its work settles at once.
LEMMA SignalledTyped ==
    ASSUME NEW r \in Lifecycles
    PROVE  /\ Signalled(r) \in Lifecycles
           /\ Signalled(r).signal
           /\ Signalled(r).work # "backoff"
           /\ r.work # "waiting" => Signalled(r).work # "waiting"
           /\ Signalled(r).outcome = r.outcome
           /\ Signalled(r).timer = r.timer
           /\ Signalled(r).attempt = r.attempt
           /\ \A h \in Results : Settling(Signalled(r), h) \in Lifecycles
BY DEF Signalled, Settling, Lifecycles, Works, Results

LEMMA BudgetEndsKeeps == ASSUME IInv, NEW u \in Units, BudgetEnds(u) PROVE IInv'
<1>1. PICK r \in {Signalled(unit[u])} \cup
                 {Settling(Signalled(unit[u]), h) : h \in IF u \in Running THEN Results ELSE {}} :
          unit' = [unit EXCEPT ![u] = Decided(r, "timeout")]
  BY DEF BudgetEnds
<1>2. unit[u].outcome = "none" /\ unit[u].work # "waiting" /\ unit[u] \in Lifecycles
  BY UnitFacts DEF BudgetEnds
<1>3. r \in Lifecycles /\ r.work \notin {"waiting", "backoff"}
  <2>1. CASE r = Signalled(unit[u])
    BY <1>2, <2>1, SignalledTyped
  <2>2. CASE r # Signalled(unit[u])
    <3>1. PICK h \in Results : r = Settling(Signalled(unit[u]), h)
      BY <1>1, <2>2
    <3>2. Settling(Signalled(unit[u]), h).work = "finishing"
      <4>1. Signalled(unit[u]) \in Lifecycles
        BY <1>2, SignalledTyped
      <4>2. QED
        BY <4>1 DEF Settling, Lifecycles
    <3>3. Settling(Signalled(unit[u]), h) \in Lifecycles
      BY <1>2, SignalledTyped
    <3>4. QED
      BY <3>1, <3>2, <3>3
  <2>3. QED
    BY <2>1, <2>2
<1>4. Fits(Decided(r, "timeout")) /\ Decided(r, "timeout").outcome # "none"
  BY <1>3 DEF Fits, Decided, Finished, Lifecycles, Retired, Outcomes
<1>5. QED
  BY <1>1, <1>2, <1>4, OneUnit DEF BudgetEnds

LEMMA ConcedeKeeps == ASSUME IInv, NEW u \in Units, Concede(u) PROVE IInv'
<1>1. unit[u].outcome = "none" /\ unit[u].work # "waiting"
  BY UnitFacts DEF Concede
<1>2. Fits(Decided(unit[u], "cancelled")) /\ Decided(unit[u], "cancelled").outcome # "none"
  BY <1>1, UnitFacts DEF Fits, Decided, Finished, Lifecycles, Retired, Outcomes
<1>3. QED
  BY <1>1, <1>2, OneUnit DEF Concede

-----------------------------------------------------------------------------
(* The signal, the start and the drain change several units at once. *)

LEMMA InterruptKeeps == ASSUME IInv, Interrupt PROVE IInv'
<1>1. PICK S \in SUBSET {u \in Running : unit[u].listening}, h \in Results :
          unit' = [u \in Units |-> IF u \in S THEN Settling(Interrupted(unit[u]), h)
                                   ELSE Interrupted(unit[u])]
  BY DEF Interrupt
<1> DEFINE new(v) == IF v \in S THEN Settling(Interrupted(unit[v]), h) ELSE Interrupted(unit[v])
<1>2. /\ interrupt' = TRUE /\ ~interrupt
      /\ UNCHANGED <<config, recipeStop, next, inFlight, stopping, aborted, settled>>
  BY DEF Interrupt, schedule
<1>3. ASSUME NEW v \in Units
      PROVE  /\ new(v) \in Lifecycles
             /\ new(v).work = "waiting" <=> unit[v].work = "waiting"
             /\ unit[v].work = "waiting" => new(v) = unit[v]
             /\ new(v).outcome = unit[v].outcome
             /\ ~new(v).listening
             /\ new(v).work = "backoff" => ~new(v).signal
             /\ new(v).outcome # "none" => Retired(new(v))
             /\ new(v).outcome = "none" /\ new(v).work # "waiting" => new(v).timer /\ new(v).conceding /\ new(v).work # "stopped"
             /\ new(v).outcome = "none" /\ new(v).work # "waiting" /\ new(v).work # "finishing" => new(v).hand \notin Evidence
  <2>1. unit[v] \in Lifecycles
    BY UnitFacts
  <2>2. CASE ~unit[v].listening
    <3>1. v \notin S
      BY <2>2
    <3>2. new(v) = unit[v]
      BY <2>2, <3>1 DEF Interrupted
    <3>3. QED
      BY <1>2, <2>2, <3>2, UnitFacts DEF Guarded
  <2>3. CASE unit[v].listening /\ v \notin S
    <3>1. new(v) = [Signalled(unit[v]) EXCEPT !.listening = FALSE, !.conceding = TRUE]
      BY <2>3 DEF Interrupted
    <3>2. unit[v].outcome = "none" /\ unit[v].work # "waiting"
      BY <2>3, UnitFacts
    <3>3. Guarded(unit[v])
      BY <3>2, UnitFacts
    <3>4. /\ Signalled(unit[v]) \in Lifecycles /\ Signalled(unit[v]).outcome = "none"
          /\ Signalled(unit[v]).work \notin {"waiting", "backoff"} /\ Signalled(unit[v]).timer
      BY <2>1, <3>2, <3>3, SignalledTyped DEF Guarded
    <3>5. /\ Signalled(unit[v]).work # "stopped"
          /\ Signalled(unit[v]).work # "finishing" => Signalled(unit[v]).hand \notin Evidence
      BY <2>1, <3>3 DEF Guarded, Signalled, Lifecycles
    <3>6. /\ new(v) \in Lifecycles /\ ~new(v).listening /\ new(v).conceding
          /\ \A f \in {"work", "hand", "timer", "outcome"} : new(v)[f] = Signalled(unit[v])[f]
      BY <3>1, <3>4 DEF Lifecycles
    <3>7. QED
      BY <3>2, <3>4, <3>5, <3>6
  <2>4. CASE v \in S
    <3>1. unit[v].listening /\ unit[v].work = "running"
      BY <2>4 DEF Running
    <3>2. new(v) = Settling([Signalled(unit[v]) EXCEPT !.listening = FALSE, !.conceding = TRUE], h)
      BY <2>4, <3>1 DEF Interrupted
    <3>3. unit[v].outcome = "none" /\ unit[v].timer
      BY <3>1, UnitFacts DEF Guarded
    <3>4. Signalled(unit[v]) \in Lifecycles /\ Signalled(unit[v]).outcome = "none" /\ Signalled(unit[v]).timer
      BY <2>1, <3>3, SignalledTyped
    <3>5. /\ new(v) \in Lifecycles /\ ~new(v).listening /\ new(v).conceding
          /\ new(v).work = "finishing" /\ new(v).timer /\ new(v).outcome = "none"
      BY <3>2, <3>4 DEF Settling, Lifecycles, Works
    <3>6. QED
      BY <3>1, <3>3, <3>5
  <2>5. QED
    BY <2>2, <2>3, <2>4
<1>4. \A v \in Units : unit'[v] = new(v)
  BY <1>1
<1> HIDE DEF new
<1>5. TypeOK'
  BY <1>1, <1>2, <1>3 DEF IInv, TypeOK, new
<1>6. Untouched'
  BY <1>2, <1>3, <1>4 DEF IInv, Untouched, Waiting
<1>7. Raced'
  BY <1>2, <1>3, <1>4 DEF Raced, Guarded
<1>8. Windowed'
  <2>1. 1..next \subseteq Units
    BY UnitsAssumption DEF IInv, TypeOK, Units
  <2>2. QED
    BY <1>2, <1>3, <1>4, <2>1 DEF IInv, Windowed, Abort
<1>9. Promised'
  BY <1>2 DEF IInv, Promised, Abort
<1>10. QED
  BY <1>5, <1>6, <1>7, <1>8, <1>9 DEF IInv

\* A unit as it is launched, before an interrupt.
LEMMA LaunchedFits ==
    /\ Launched(Waiting) \in Lifecycles
    /\ Launched(Waiting).work = "running"
    /\ Launched(Waiting).outcome = "none"
    /\ ~Launched(Waiting).signal
    /\ ~interrupt => Guarded(Launched(Waiting))
BY DEF Launched, Waiting, Lifecycles, Works, Results, Outcomes, Guarded, Evidence

\* Launching the units from next + 1 to k, when no abort is on record.
LEMMA LaunchKeeps ==
    ASSUME IInv, NEW k \in next..N, k # next => ~interrupt, interrupt' = interrupt, next' = k,
           unit' = [v \in Units |-> IF v \in (next + 1)..k THEN Launched(unit[v]) ELSE unit[v]]
    PROVE  /\ unit' \in [Units -> Lifecycles]
           /\ Untouched'
           /\ Raced'
           /\ \A v \in 1..next : unit'[v] = unit[v]
<1>1. next \in 0..N /\ 1..next \subseteq Units
  BY UnitsAssumption DEF IInv, TypeOK, Units
<1>2. ASSUME NEW v \in Units, v \in (next + 1)..k
      PROVE  unit'[v] = Launched(Waiting)
  <2>1. v > next
    BY <1>1, <1>2 DEF Units
  <2>2. unit[v] = Waiting
    BY <2>1 DEF IInv, Untouched
  <2>3. QED
    BY <1>2, <2>2
<1>3. ASSUME NEW v \in Units, v \notin (next + 1)..k
      PROVE  unit'[v] = unit[v]
  BY <1>3
<1>4. unit' \in [Units -> Lifecycles]
  BY <1>2, <1>3, LaunchedFits DEF IInv, TypeOK
<1>5. Untouched'
  <2>1. ASSUME NEW v \in Units
        PROVE  IF v > k THEN unit'[v] = Waiting ELSE unit'[v].work # "waiting"
    <3>1. CASE v \in (next + 1)..k
      BY <1>1, <1>2, <3>1, LaunchedFits
    <3>2. CASE v \notin (next + 1)..k
      <4>1. IF v > next THEN v > k ELSE ~(v > k)
        BY <1>1, <3>2 DEF Units
      <4>2. QED
        BY <1>3, <3>2, <4>1 DEF IInv, Untouched
    <3>3. QED
      BY <3>1, <3>2
  <2>2. QED
    BY <2>1 DEF Untouched
<1>6. Raced'
  <2>1. ASSUME NEW v \in Units
        PROVE  /\ ~(unit'[v].listening /\ interrupt)
               /\ unit'[v].work = "backoff" => ~unit'[v].signal
               /\ unit'[v].outcome # "none" => Retired(unit'[v])
               /\ unit'[v].outcome = "none" /\ unit'[v].work # "waiting" => Guarded(unit'[v])
    <3>1. CASE v \in (next + 1)..k
      <4>1. ~interrupt
        BY <1>1, <3>1
      <4>2. QED
        BY <1>2, <3>1, <4>1, LaunchedFits
    <3>2. CASE v \notin (next + 1)..k
      BY <1>3, <3>2 DEF IInv, Raced
    <3>3. QED
      BY <3>1, <3>2
  <2>2. QED
    BY <2>1 DEF Raced, Guarded
<1>7. \A v \in 1..next : unit'[v] = unit[v]
  BY <1>1, <1>3
<1>8. QED
  BY <1>4, <1>5, <1>6, <1>7

LEMMA StartKeeps == ASSUME IInv, Start PROVE IInv'
<1> USE UnitsAssumption
<1>1. /\ settled = "idle" /\ next = 0 /\ ~stopping /\ inFlight = {}
      /\ UNCHANGED <<config, interrupt, recipeStop, stopping>>
      /\ inFlight' = Batch /\ next' = Cardinality(Batch) /\ aborted' = Abort
      /\ settled' = IF Batch = {} THEN Resolution ELSE "open"
  BY DEF IInv, Promised, Start, root
<1>2. config.window \in Nat \ {0} /\ config \in Configs
  BY ConfigsAssumption DEF IInv, TypeOK
<1> DEFINE k == IF Abort THEN 0 ELSE IF config.window < N THEN config.window ELSE N
<1>3. k \in 0..N /\ k <= config.window /\ Batch = 1..k /\ (k = 0 <=> Abort)
  <2>1. k \in 0..N /\ k <= config.window /\ (k = 0 <=> Abort)
    BY <1>2
  <2>2. CASE Abort
    BY <2>1, <2>2 DEF Batch
  <2>3. CASE ~Abort
    <3>1. Batch = {v \in 1..N : v <= config.window}
      BY <2>3 DEF Batch, Units
    <3>2. \A v \in Nat : v <= k <=> v <= N /\ v <= config.window
      BY <1>2, <2>3
    <3>3. QED
      BY <1>2, <2>1, <3>1, <3>2
  <2>4. QED
    BY <2>1, <2>2, <2>3
<1>4. IsFiniteSet(1..k) /\ Cardinality(1..k) = k
  BY <1>3, FS_Interval
<1>5. next' = k /\ inFlight' = 1..k
  BY <1>1, <1>3, <1>4
<1>6. /\ unit' \in [Units -> Lifecycles]
      /\ Untouched'
      /\ Raced'
      /\ \A v \in 1..next : unit'[v] = unit[v]
  <2>1. unit' = [v \in Units |-> IF v \in (next + 1)..k THEN Launched(unit[v]) ELSE unit[v]]
    BY <1>1, <1>3 DEF Start
  <2>2. k \in next..N /\ (k # next => ~interrupt) /\ interrupt' = interrupt
    BY <1>1, <1>3 DEF Abort
  <2>3. QED
    BY <1>5, <2>1, <2>2, LaunchKeeps
<1> HIDE DEF k
<1>7. settled' \in {"open", "resolved", "rejected"} /\ (settled' # "open" => Abort /\ Batch = {})
  <2>1. Batch = {} => Abort
    BY <1>3
  <2>2. QED
    BY <1>1, <2>1 DEF Resolution
<1>8. TypeOK'
  <2>1. inFlight' \subseteq Units /\ next' \in 0..N
    BY <1>3, <1>5 DEF Units
  <2>2. Abort \in BOOLEAN
    BY DEF IInv, TypeOK, Abort
  <2>3. QED
    BY <1>1, <1>6, <1>7, <2>1, <2>2 DEF IInv, TypeOK
<1>9. Windowed'
  BY <1>1, <1>3, <1>4, <1>5 DEF Windowed, Abort
<1>10. Promised'
  BY <1>1, <1>7 DEF Promised, Abort
<1>11. QED
  BY <1>6, <1>8, <1>9, <1>10 DEF IInv

LEMMA DrainKeeps == ASSUME IInv, NEW u \in Units, Drain(u) PROVE IInv'
<1> USE UnitsAssumption
<1>1. /\ u \in inFlight /\ unit[u].outcome # "none"
      /\ UNCHANGED <<config, interrupt, recipeStop>>
      /\ stopping' = (stopping \/ WantsStop(u))
      /\ aborted' = (aborted \/ (MayRefill(u) /\ Abort))
      /\ next' = IF MayRefill(u) /\ ~Abort THEN next + 1 ELSE next
      /\ inFlight' = (inFlight \ {u}) \cup ((next + 1)..next')
  BY DEF Drain, root
<1>2. next \in 0..N /\ next' \in next..N /\ next' \in 0..N /\ (next' # next => ~Abort /\ next' = next + 1)
  BY <1>1 DEF IInv, TypeOK, MayRefill
<1>3. /\ unit' \in [Units -> Lifecycles]
      /\ Untouched'
      /\ Raced'
      /\ \A v \in 1..next : unit'[v] = unit[v]
  <2>1. unit' = [v \in Units |-> IF v \in (next + 1)..next' THEN Launched(unit[v]) ELSE unit[v]]
    BY DEF Drain
  <2>2. (next' # next => ~interrupt) /\ interrupt' = interrupt
    BY <1>1, <1>2 DEF Abort
  <2>3. QED
    BY <1>2, <2>1, <2>2, LaunchKeeps
<1>4. inFlight \subseteq 1..next /\ IsFiniteSet(inFlight) /\ inFlight' \subseteq 1..next'
  <2>1. inFlight \subseteq 1..next
    BY DEF IInv, Windowed
  <2>2. IsFiniteSet(1..next)
    BY <1>2, FS_Interval
  <2>3. IsFiniteSet(inFlight)
    BY <2>1, <2>2, FS_Subset
  <2>4. inFlight' \subseteq 1..next'
    BY <1>1, <1>2, <2>1
  <2>5. QED
    BY <2>1, <2>3, <2>4
<1>5. settled' \in {"idle", "open", "resolved", "rejected"}
  BY DEF Drain, IInv, TypeOK, Resolution
<1>6. stopping' \in BOOLEAN /\ aborted' \in BOOLEAN
  BY <1>1 DEF IInv, TypeOK, Abort
<1>7. TypeOK'
  <2>1. inFlight' \subseteq Units
    BY <1>2, <1>4 DEF Units
  <2>2. QED
    BY <1>1, <1>2, <1>3, <1>5, <1>6, <2>1 DEF IInv, TypeOK
<1>8. Windowed'
  <2>1. Cardinality(inFlight') <= Cardinality(inFlight)
    <3>1. Cardinality(inFlight \ {u}) = Cardinality(inFlight) - 1 /\ IsFiniteSet(inFlight \ {u})
      BY <1>1, <1>4, FS_RemoveElement
    <3>2. CASE next' = next
      <4>1. inFlight' = inFlight \ {u}
        BY <1>1, <1>2, <3>2
      <4>2. QED
        BY <1>4, <3>1, <4>1, FS_CardinalityType
    <3>3. CASE next' # next
      <4>1. inFlight' = (inFlight \ {u}) \cup {next + 1}
        BY <1>1, <1>2, <3>3
      <4>2. next + 1 \notin inFlight \ {u}
        BY <1>2, <1>4
      <4>3. Cardinality(inFlight') = Cardinality(inFlight \ {u}) + 1
        BY <3>1, <4>1, <4>2, FS_AddElement
      <4>4. QED
        BY <1>4, <3>1, <4>3, FS_CardinalityType
    <3>4. QED
      BY <3>2, <3>3
  <2>2. Cardinality(inFlight') <= config'.window
    <3>1. Cardinality(inFlight') \in Nat
      <4>1. IsFiniteSet(1..next')
        BY <1>2, FS_Interval
      <4>2. QED
        BY <1>4, <4>1, FS_Subset, FS_CardinalityType
    <3>2. Cardinality(inFlight) \in Nat /\ config.window \in Nat /\ Cardinality(inFlight) <= config.window
      BY <1>4, ConfigsAssumption, FS_CardinalityType DEF IInv, TypeOK, Windowed
    <3>3. QED
      BY <1>1, <2>1, <3>1, <3>2
  <2>3. ASSUME NEW v \in 1..next', v \notin inFlight'
        PROVE  unit'[v].outcome # "none"
    <3>1. v \in 1..next /\ (v = u \/ v \notin inFlight)
      BY <1>1, <1>2, <2>3
    <3>2. QED
      BY <1>1, <1>3, <3>1 DEF IInv, Windowed
  <2>4. aborted' => Abort'
    BY <1>1 DEF IInv, Windowed, Abort
  <2>5. QED
    BY <1>4, <2>2, <2>3, <2>4 DEF Windowed
<1>9. Promised'
  <2>1. settled \notin {"idle", "resolved"}
    BY <1>1 DEF IInv, Promised
  <2>2. settled' # "idle"
    BY <2>1 DEF Drain, Resolution
  <2>3. settled' = "resolved" => inFlight' = {} /\ (next' = N \/ stopping' \/ Abort')
    <3>1. settled' = "resolved" => Drained
      BY <2>1 DEF Drain, Resolution
    <3>2. aborted' => Abort'
      BY <1>8 DEF Windowed
    <3>3. next' >= N => next' = N
      BY <1>2
    <3>4. QED
      BY <3>1, <3>2, <3>3 DEF Drained
  <2>4. settled' = "rejected" => inFlight' = {} \/ stopping'
    <3>1. CASE settled = "rejected"
      BY <1>1, <3>1 DEF IInv, Promised
    <3>2. CASE settled # "rejected"
      BY <1>1, <3>2 DEF Drain, Drained, WantsStop
    <3>3. QED
      BY <3>1, <3>2
  <2>5. QED
    BY <2>2, <2>3, <2>4 DEF Promised
<1>10. QED
  BY <1>3, <1>7, <1>8, <1>9 DEF IInv

LEMMA RecipeStopKeeps == ASSUME IInv, RecipeStop PROVE IInv'
<1>1. /\ recipeStop' = TRUE
      /\ UNCHANGED <<config, interrupt, next, inFlight, stopping, aborted, settled, unit>>
  BY DEF RecipeStop, schedule
<1>2. TypeOK' /\ Untouched' /\ Raced' /\ Windowed' /\ Promised'
  BY <1>1 DEF IInv, TypeOK, Untouched, Raced, Guarded, Windowed, Promised, Abort
<1>3. QED
  BY <1>2 DEF IInv

LEMMA StepHolds == IInv /\ [Next]_vars => IInv'
<1> SUFFICES ASSUME IInv, [Next]_vars PROVE IInv'
  OBVIOUS
<1>1. CASE Start
  BY <1>1, StartKeeps
<1>2. CASE Interrupt
  BY <1>2, InterruptKeeps
<1>3. CASE RecipeStop
  BY <1>3, RecipeStopKeeps
<1>4. ASSUME NEW u \in Units,
             \/ Finish(u) \/ Continue(u) \/ BackoffEnds(u)
             \/ BudgetEnds(u) \/ Concede(u) \/ Drain(u)
      PROVE  IInv'
  BY <1>4, FinishKeeps, ContinueKeeps, BackoffEndsKeeps, BudgetEndsKeeps, ConcedeKeeps, DrainKeeps
<1>5. CASE UNCHANGED vars
  BY <1>5 DEF vars, IInv, TypeOK, Untouched, Raced, Guarded, Windowed, Promised, Abort
<1>6. QED
  BY <1>1, <1>2, <1>3, <1>4, <1>5 DEF Next

LEMMA Invariance == Spec => []IInv
BY InitHolds, StepHolds, PTL DEF Spec

-----------------------------------------------------------------------------
(* Theorems *)

\* The state keeps its types in every behaviour.
THEOREM TypeCorrect == Spec => []TypeOK
<1>1. IInv => TypeOK
  BY DEF IInv
<1>2. QED
  BY <1>1, Invariance, PTL

\* The window is respected and a resolved recipe has drained (scheduleUnits).
THEOREM WindowIsSound == Spec => []WindowSound
<1>1. IInv => WindowSound
  <2> SUFFICES ASSUME IInv PROVE WindowSound
    OBVIOUS
  <2>1. settled = "resolved" => \A u \in 1..next : unit[u].outcome # "none"
    BY DEF IInv, Promised, Windowed
  <2>2. QED
    BY <2>1 DEF IInv, Promised, Windowed, WindowSound
<1>2. QED
  BY <1>1, Invariance, PTL

\* What races a unit is there while it is undecided and gone afterwards
\* (runWithTimeout).
THEOREM RaceIsGuarded == Spec => []RaceGuarded
<1>1. IInv => RaceGuarded
  BY DEF IInv, Raced, Guarded, Retired, RaceGuarded
<1>2. QED
  BY <1>1, Invariance, PTL

\* No interrupt and no late budget replaces a result (hardParentAbort).
THEOREM EvidenceIsKept == Spec => EvidenceSurvives
<1> DEFINE Kept(u) ==
      unit[u].outcome = "none" /\ unit'[u].outcome # "none" =>
         IF unit'[u].outcome = "timeout" THEN unit[u].hand \notin Evidence
         ELSE unit'[u].hand \in Evidence => unit'[u].outcome = unit'[u].hand
<1>1. ASSUME IInv, [Next]_vars, NEW u \in Units PROVE Kept(u)
  <2> SUFFICES ASSUME unit[u].outcome = "none", unit'[u].outcome # "none"
               PROVE  IF unit'[u].outcome = "timeout" THEN unit[u].hand \notin Evidence
                      ELSE unit'[u].hand \in Evidence => unit'[u].outcome = unit'[u].hand
    OBVIOUS
  <2>1. unit[u] \in Lifecycles /\ unit \in [Units -> Lifecycles]
    BY <1>1 DEF IInv, TypeOK
  <2>2. CASE Continue(u)
    <3>1. /\ unit[u].work = "finishing"
          /\ unit'[u] = IF CanRetry(unit[u]) THEN [unit[u] EXCEPT !.work = "backoff"]
                        ELSE [Decided(unit[u], Verdict(unit[u])) EXCEPT !.work = "stopped"]
      BY <2>1, <2>2 DEF Continue
    <3>2. ~CanRetry(unit[u])
      BY <2>1, <3>1 DEF Lifecycles
    <3>3. unit[u].signal => interrupt
      BY <1>1, <3>1, UnitFacts DEF Guarded
    <3>4. unit'[u].outcome = Verdict(unit[u]) /\ unit'[u].hand = unit[u].hand
      BY <2>1, <3>1, <3>2 DEF Decided, Finished, Lifecycles
    <3>5. Verdict(unit[u]) # "timeout" /\ (unit[u].hand \in Evidence => Verdict(unit[u]) = unit[u].hand)
      BY <3>3 DEF Verdict, Evidence
    <3>6. QED
      BY <3>4, <3>5
  <2>3. CASE BudgetEnds(u)
    <3>1. unit[u].work \notin {"waiting", "finishing"}
      BY <1>1, <2>3, UnitFacts DEF BudgetEnds, Quiet
    <3>2. unit[u].hand \notin Evidence
      BY <1>1, <3>1, UnitFacts DEF Guarded
    <3>3. unit'[u].outcome = "timeout"
      <4>1. PICK r \in {Signalled(unit[u])} \cup
                       {Settling(Signalled(unit[u]), h) : h \in IF u \in Running THEN Results ELSE {}} :
                unit' = [unit EXCEPT ![u] = Decided(r, "timeout")]
        BY <2>3 DEF BudgetEnds
      <4>2. r \in Lifecycles /\ r.outcome = "none"
        <5>1. Signalled(unit[u]) \in Lifecycles /\ Signalled(unit[u]).outcome = "none"
          BY <2>1, SignalledTyped
        <5>2. \A h \in Results : Settling(Signalled(unit[u]), h) \in Lifecycles
          BY <2>1, SignalledTyped
        <5>3. \A h \in Results : Settling(Signalled(unit[u]), h).outcome = "none"
          BY <5>1 DEF Settling, Lifecycles
        <5>4. QED
          BY <5>1, <5>2, <5>3
      <4>3. Decided(r, "timeout").outcome = "timeout"
        BY <4>2 DEF Decided, Finished, Lifecycles
      <4>4. QED
        BY <2>1, <4>1, <4>3
    <3>4. QED
      BY <3>2, <3>3
  <2>4. CASE Concede(u)
    <3>1. unit[u].work \notin {"waiting", "finishing"}
      BY <1>1, <2>4, UnitFacts DEF Concede, Quiet
    <3>2. unit[u].hand \notin Evidence
      BY <1>1, <3>1, UnitFacts DEF Guarded
    <3>3. unit'[u] = Decided(unit[u], "cancelled")
      BY <2>1, <2>4 DEF Concede
    <3>4. unit'[u].outcome = "cancelled" /\ unit'[u].hand = unit[u].hand
      BY <2>1, <3>3 DEF Decided, Finished, Lifecycles
    <3>5. QED
      BY <3>2, <3>4
  <2>5. ASSUME ~(Continue(u) \/ BudgetEnds(u) \/ Concede(u))
        PROVE  unit'[u].outcome = unit[u].outcome
    <3>1. CASE Start \/ \E v \in Units : Drain(v)
      <4>1. unit'[u] = unit[u] \/ unit'[u] = Launched(unit[u])
        BY <3>1 DEF Start, Drain
      <4>2. QED
        BY <2>1, <4>1 DEF Launched, Lifecycles
    <3>2. CASE Interrupt
      <4>1. PICK h \in Results : unit'[u] = Interrupted(unit[u]) \/ unit'[u] = Settling(Interrupted(unit[u]), h)
        BY <3>2 DEF Interrupt
      <4>2. Signalled(unit[u]) \in Lifecycles /\ Signalled(unit[u]).outcome = unit[u].outcome
        BY <2>1, SignalledTyped
      <4>3. Interrupted(unit[u]) \in Lifecycles /\ Interrupted(unit[u]).outcome = unit[u].outcome
        BY <2>1, <4>2 DEF Interrupted, Lifecycles
      <4>4. QED
        BY <4>1, <4>3 DEF Settling, Lifecycles
    <3>3. CASE RecipeStop \/ UNCHANGED vars
      BY <3>3 DEF RecipeStop, vars
    <3>4. CASE \E v \in Units : Finish(v) \/ BackoffEnds(v)
      <4>1. PICK v \in Units : Finish(v) \/ BackoffEnds(v)
        BY <3>4
      <4>2. PICK h \in Results : unit' = [unit EXCEPT ![v] = Settling(unit[v], h)] \/ unit' = [unit EXCEPT ![v] = Again(unit[v])]
        BY <4>1 DEF Finish, BackoffEnds, Results
      <4>3. unit'[u] = unit[u] \/ unit'[u] = Settling(unit[u], h) \/ unit'[u] = Again(unit[u])
        BY <2>1, <4>2
      <4>4. QED
        BY <2>1, <4>3 DEF Settling, Again, Lifecycles
    <3>5. CASE \E v \in Units \ {u} : Continue(v) \/ BudgetEnds(v) \/ Concede(v)
      <4>1. unit'[u] = unit[u]
        BY <2>1, <3>5 DEF Continue, BudgetEnds, Concede
      <4>2. QED
        BY <4>1
    <3>6. QED
      BY <1>1, <2>5, <3>1, <3>2, <3>3, <3>4, <3>5 DEF Next
  <2>6. QED
    BY <2>2, <2>3, <2>4, <2>5
<1>2. IInv /\ [Next]_vars => [\A u \in Units : Kept(u)]_vars
  BY <1>1
<1>3. QED
  BY <1>2, Invariance, PTL DEF Spec, EvidenceSurvives

\* After a stop, an abort or a settled recipe nothing new is started
\* (the latches of scheduleUnits and the signal checks of runWithRetry).
THEOREM NothingStarts == Spec => NothingStartsAfterStop
<1> DEFINE Still ==
      /\ stopping \/ Abort \/ settled \in {"resolved", "rejected"} => next' = next
      /\ \A u \in Units : unit[u].signal => unit'[u].attempt = unit[u].attempt
<1>1. ASSUME IInv, [Next]_vars PROVE Still
  <2>1. ASSUME stopping \/ Abort \/ settled \in {"resolved", "rejected"}
        PROVE  next' = next
    <3>1. CASE Start
      <4>1. next = 0 /\ Abort
        BY <1>1, <2>1, <3>1 DEF Start, IInv, Promised
      <4>2. QED
        BY <3>1, <4>1, FS_EmptySet DEF Start, Batch
    <3>2. ASSUME NEW u \in Units, Drain(u) PROVE next' = next
      <4>1. stopping \/ Abort
        BY <1>1, <2>1, <3>2 DEF Drain, IInv, Promised
      <4>2. QED
        BY <3>2, <4>1 DEF Drain, MayRefill
    <3>3. CASE ~Start /\ ~\E u \in Units : Drain(u)
      BY <1>1, <3>3 DEF Next, Interrupt, RecipeStop, Finish, Continue, BackoffEnds,
                        BudgetEnds, Concede, schedule, vars
    <3>4. QED
      BY <3>1, <3>2, <3>3
  <2>2. ASSUME NEW u \in Units, unit[u].signal
        PROVE  unit'[u].attempt = unit[u].attempt
    <3>1. unit[u] \in Lifecycles /\ unit \in [Units -> Lifecycles] /\ unit[u].work # "backoff"
      BY <1>1, <2>2, UnitFacts DEF IInv, TypeOK
    <3>2. CASE Start \/ \E v \in Units : Drain(v)
      <4>1. unit'[u] = unit[u] \/ unit'[u] = Launched(unit[u])
        BY <3>2 DEF Start, Drain
      <4>2. QED
        BY <3>1, <4>1 DEF Launched, Lifecycles
    <3>3. CASE Interrupt
      <4>1. PICK h \in Results : unit'[u] = Interrupted(unit[u]) \/ unit'[u] = Settling(Interrupted(unit[u]), h)
        BY <3>3 DEF Interrupt
      <4>2. Signalled(unit[u]) \in Lifecycles /\ Signalled(unit[u]).attempt = unit[u].attempt
        BY <3>1, SignalledTyped
      <4>4. Interrupted(unit[u]) \in Lifecycles /\ Interrupted(unit[u]).attempt = unit[u].attempt
        BY <3>1, <4>2 DEF Interrupted, Lifecycles
      <4>3. QED
        BY <4>1, <4>4 DEF Settling, Lifecycles
    <3>4. CASE RecipeStop \/ UNCHANGED vars
      BY <3>4 DEF RecipeStop, vars
    <3>5. ASSUME NEW v \in Units, Finish(v) \/ Continue(v) \/ BudgetEnds(v) \/ Concede(v) \/ BackoffEnds(v)
          PROVE  unit'[u].attempt = unit[u].attempt
      <4>1. CASE v # u
        <5>1. unit'[u] = unit[u]
          BY <3>1, <3>5, <4>1 DEF Finish, Continue, BudgetEnds, Concede, BackoffEnds
        <5>2. QED
          BY <5>1
      <4>2. CASE v = u /\ Finish(u)
        BY <3>1, <4>2 DEF Finish, Settling, Lifecycles
      <4>3. CASE v = u /\ Continue(u)
        BY <3>1, <4>3 DEF Continue, Decided, Finished, Lifecycles
      <4>4. CASE v = u /\ Concede(u)
        BY <3>1, <4>4 DEF Concede, Decided, Finished, Lifecycles
      <4>5. CASE v = u /\ BudgetEnds(u)
        <5>1. PICK r \in {Signalled(unit[u])} \cup
                         {Settling(Signalled(unit[u]), h) : h \in IF u \in Running THEN Results ELSE {}} :
                  unit' = [unit EXCEPT ![u] = Decided(r, "timeout")]
          BY <4>5 DEF BudgetEnds
        <5>2. Signalled(unit[u]) \in Lifecycles /\ Signalled(unit[u]).attempt = unit[u].attempt
          BY <3>1, SignalledTyped
        <5>3. \A h \in Results : Settling(Signalled(unit[u]), h) \in Lifecycles
          BY <3>1, SignalledTyped
        <5>4. \A h \in Results : Settling(Signalled(unit[u]), h).attempt = unit[u].attempt
          BY <5>2 DEF Settling, Lifecycles
        <5>5. r \in Lifecycles /\ r.attempt = unit[u].attempt
          BY <5>2, <5>3, <5>4
        <5>6. Decided(r, "timeout").attempt = r.attempt
          BY <5>5 DEF Decided, Finished, Lifecycles
        <5>7. QED
          BY <3>1, <5>1, <5>5, <5>6
      <4>6. QED
        BY <3>1, <3>5, <4>1, <4>2, <4>3, <4>4, <4>5 DEF BackoffEnds
    <3>6. QED
      BY <1>1, <3>2, <3>3, <3>4, <3>5 DEF Next
  <2>3. QED
    BY <2>1, <2>2
<1>2. IInv /\ [Next]_vars => [Still]_vars
  BY <1>1
<1>3. QED
  BY <1>2, Invariance, PTL DEF Spec, NothingStartsAfterStop
=============================================================================
