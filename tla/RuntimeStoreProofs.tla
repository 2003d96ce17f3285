-------------------------- MODULE RuntimeStoreProofs --------------------------
(***************************************************************************)
(* What the files of the runtime lease promise to those who read them      *)
(* next, for any number of processes, owners, handles, projects and calls: *)
(* recovery records are isolated and change under exclusion, nothing is    *)
(* left behind by a call that has returned, no file outgrows what its      *)
(* parser accepts, and nobody waits in a circle as long as the callers     *)
(* keep to some rules.  Each rests on the invariant of RuntimeLeaseProofs. *)
(***************************************************************************)
EXTENDS RuntimeLeaseProofs, FiniteSetTheorems, WellFoundedInduction

-----------------------------------------------------------------------------
(* Recovery records.                                                       *)

\* What a lease reads or excludes is never nothing.
LEMMA ScopeInhabited ==
  ASSUME NEW h \in Handles, NEW r \in Menu[h]
  PROVE  Scope(r) # {}
<1>1. r.kind \in {"shared", "project", "global"} /\ (r.kind = "shared" => r.user \/ r.key \in Keys)
  BY MenuFacts, MenuAssumption
<1>2. CASE r.kind = "shared"
  <2>1. Scope(r) = {d \in Dimensions : d = r.key \/ (d = User /\ r.user)}
    BY <1>2, ScopeFacts
  <2> QED BY <1>1, <1>2, <2>1 DEF Dimensions
<1>3. CASE r.kind # "shared"
  BY <1>1, <1>3, ScopeFacts DEF Dimensions
<1> QED BY <1>2, <1>3

\* An acquired writer excludes every other lease of its scope, also while its release is
\* being retried.
LEMMA SoleAuthority ==
  ASSUME IInv, NEW h \in Handles, Acquired(h), NEW g \in Handles, g # h, pc[g] = "held"
  PROVE  Scope(req[g]) \cap Scope(req[h]) = {}
<1>1. /\ req[h] \in Menu[h] /\ req[g] \in Menu[g] /\ req[h].kind # "shared"
      /\ OwnerOf[h] \in Owners /\ OwnerOf[g] \in Owners /\ Live(OwnerOf[g])
  BY OwnerFacts DEF Acquired, Asked, LiveCalls, IInv
<1> SUFFICES ASSUME NEW d, d \in Scope(req[g]), d \in Scope(req[h]) PROVE FALSE
  OBVIOUS
<1>2. d \in Dimensions /\ LiveReaders(d) = {}
  BY <1>1, ScopeFacts DEF Emptied, Cleared, IInv
<1>3. CASE req[g].kind = "shared"
  <2>1. Registered(OwnerOf[g], d)
    BY <1>3 DEF OwnReader, Inscribed, IInv
  <2> QED BY <1>1, <1>2, <2>1 DEF LiveReaders
<1>4. CASE req[g].kind # "shared"
  <2> DEFINE w(k) == writer[OwnerOf[k]]
  <2>1. \A k \in {g, h} : /\ w(k) # NoWriter /\ w(k).by = k /\ w(k).phase = "intent"
                          /\ w(k).kind = req[k].kind /\ w(k).key = req[k].key
    BY <1>1, <1>4 DEF Acquired, OwnWriter, Backed, Engaged, IInv
  <2>2. \A k \in {g, h} : d \in Covers(w(k))
    BY <1>1, <1>2, <1>4, <2>1, ScopeFacts, MenuFacts DEF Covers
  <2>3. OwnerOf[g] # OwnerOf[h]
    BY <2>1
  <2>4. w(g).phase = "queued"
    BY <1>1, <2>1, <2>2, <2>3 DEF IntentIsOldest, IInv
  <2> QED BY <2>1, <2>4
<1> QED BY <1>3, <1>4

\* A recovery record is changed by an acquired writer of its scope, and by nothing else.
LEMMA RecordChange ==
  ASSUME IInv, NEW h \in Handles, Step(h)
  PROVE  \/ UNCHANGED <<journal, receipt>>
         \/ /\ Acquired(h) /\ req[h].kind = "project" /\ req[h].key \in Keys
            /\ Scope(req[h]) = {req[h].key}
            /\ UNCHANGED <<receipt, pc, req>>
            /\ \A k \in Keys : k # req[h].key => journal'[k] = journal[k]
         \/ /\ Acquired(h) /\ req[h].kind = "global" /\ Scope(req[h]) = Dimensions
            /\ UNCHANGED <<journal, pc, req>>
<1>0. Acquired(h) => req[h] \in Menu[h]
  BY DEF Acquired, Asked, IInv
<1>1. CASE Begin(h)
  BY <1>1 DEF Begin, files
<1>2. CASE AcquireShared(h)
  BY <1>2 DEF AcquireShared, RegisterRefused, RegisterRejected, RegisterBarred,
              RegisterExhausted, RegisterGranted, RegisterFails, Register, InheritDenied,
              InheritExhausted, InheritGranted, InheritFails, Inherit, files
<1>3. CASE AcquireWriter(h)
  BY <1>3 DEF AcquireWriter, EnqueueRefused, EnqueueRejected, Enqueued, EnqueueFails, Enqueue,
              ProgressRefused, ProgressWaits, ProgressAcquired, ProgressFails,
              ProgressTimesOut, files
<1>4. CASE WaitEnds(h) \/ QueueEnds(h) \/ RetryRefused(h) \/ ReleaseFails(h)
  BY <1>4 DEF WaitEnds, QueueEnds, RetryRefused, ReleaseFails, files
<1>5. CASE Leave(h) \/ LeaveHalf(h)
  BY <1>5 DEF Leave, LeaveShared, LeaveWriter, LeaveHalf
<1>6. CASE MutateJournal(h) \/ DiscardJournal(h)
  <2>1. Acquired(h) /\ req[h].kind = "project" /\ UNCHANGED <<receipt, pc, req>>
    BY <1>6 DEF MutateJournal, DiscardJournal, Authority, Acquired
  <2>2. req[h].key \in Keys /\ Scope(req[h]) = {req[h].key}
    BY <1>0, <2>1, MenuFacts, ScopeFacts
  <2>3. \E header : journal' = [journal EXCEPT ![req[h].key] = header]
    BY <1>6 DEF MutateJournal, DiscardJournal
  <2> QED BY <2>1, <2>2, <2>3 DEF IInv, TypeOK
<1>7. CASE MutateReceipt(h) \/ DiscardReceipt(h)
  <2>1. Acquired(h) /\ req[h].kind = "global" /\ UNCHANGED <<journal, pc, req>>
    BY <1>7 DEF MutateReceipt, DiscardReceipt, Authority, Acquired
  <2> QED BY <1>0, <2>1, ScopeFacts
<1> QED BY <1>1, <1>2, <1>3, <1>4, <1>5, <1>6, <1>7 DEF Step, Recover

\* A lease is granted by a section that found the recovery records as the lease needs them.
LEMMA GrantFinds ==
  ASSUME TypeOK, NEW h \in Handles, Step(h), pc[h] # "held", pc'[h] = "held"
  PROVE  /\ UNCHANGED <<journal, receipt, req>>
         /\ \/ pc[h] = "waiting" /\ ~RecoveryPending(req[h])
            \/ pc[h] = "queued" /\ Admissible(req[h])
<1>1. \A label : Go(h, label) => label = "held"
  BY DEF Go, TypeOK
<1>2. CASE Begin(h)
  <2>1. PICK r \in Menu[h] : Go(h, IF r.kind = "shared" THEN "waiting" ELSE "enqueue")
    BY <1>2 DEF Begin
  <2> QED BY <1>1, <2>1
<1>3. CASE AcquireShared(h)
  <2>1. CASE RegisterGranted(h) \/ InheritGranted(h)
    BY <2>1 DEF RegisterGranted, Register, MayRegister, InheritGranted, Inherit, MayInherit, Inherits
  <2>2. CASE RegisterFails(h) \/ InheritFails(h)
    <3>1. \E label \in {"cleanup", "retrying"} : Go(h, label)
      BY <2>2 DEF RegisterFails, Register, InheritFails, Inherit
    <3> QED BY <1>1, <3>1
  <2>3. CASE \/ RegisterRefused(h) \/ RegisterRejected(h) \/ RegisterBarred(h)
             \/ RegisterExhausted(h) \/ InheritDenied(h) \/ InheritExhausted(h)
    BY <1>1, <2>3 DEF RegisterRefused, RegisterRejected, RegisterBarred, RegisterExhausted,
                      InheritDenied, InheritExhausted
  <2> QED BY <1>3, <2>1, <2>2, <2>3 DEF AcquireShared
<1>4. CASE AcquireWriter(h)
  <2>1. CASE ProgressAcquired(h)
    BY <2>1 DEF ProgressAcquired, MayProgress
  <2>2. CASE \/ EnqueueRefused(h) \/ EnqueueRejected(h) \/ Enqueued(h) \/ EnqueueFails(h)
             \/ ProgressRefused(h) \/ ProgressWaits(h) \/ ProgressFails(h) \/ ProgressTimesOut(h)
    BY <1>1, <2>2 DEF EnqueueRefused, EnqueueRejected, Enqueued, EnqueueFails, Enqueue,
                      ProgressRefused, ProgressWaits, ProgressFails, ProgressTimesOut, Return
  <2> QED BY <1>4, <2>1, <2>2 DEF AcquireWriter
<1>5. CASE WaitEnds(h) \/ QueueEnds(h) \/ RetryRefused(h) \/ ReleaseFails(h)
  BY <1>1, <1>5 DEF WaitEnds, QueueEnds, RetryRefused, ReleaseFails, Return
<1>6. CASE Leave(h) \/ LeaveHalf(h)
  BY <1>1, <1>6 DEF Leave, LeaveShared, LeaveWriter, LeaveHalf, Leaving, Return
<1>7. CASE Recover(h)
  BY <1>7 DEF Recover, MutateJournal, DiscardJournal, MutateReceipt, DiscardReceipt
<1> QED BY <1>2, <1>3, <1>4, <1>5, <1>6, <1>7 DEF Step

\* What RecoveryIsolated says of one lease.
Isolated(h) ==
    Holding(h) =>
       /\ req[h].kind # "global" => ~Blocked(receipt)
       /\ req[h].kind = "shared" /\ req[h].key \in Keys => ~Blocked(journal[req[h].key])
       /\ req[h].kind = "global" /\ req[h].posture # "receipt-only-discard"
          => \A k \in Keys : journal[k].status = "absent"

\* A lease finds the records right when it is granted, and whoever could change them
\* later is excluded by it.
LEMMA IsolationStep == IInv /\ RecoveryIsolated /\ [Next]_vars => RecoveryIsolated'
<1> SUFFICES ASSUME IInv, RecoveryIsolated, [Next]_vars, NEW g \in Handles, pc'[g] = "held"
             PROVE  Isolated(g)'
  BY DEF RecoveryIsolated, Isolated, Holding
<1> USE DEF Holding
<1>1. ASSUME pc[g] = "held", req'[g] = req[g], UNCHANGED <<journal, receipt>> PROVE Isolated(g)'
  BY <1>1 DEF RecoveryIsolated, Isolated, Blocked
<1>2. CASE UNCHANGED vars
  BY <1>1, <1>2 DEF vars
<1>3. ASSUME NEW p \in Processes, Crash(p) PROVE Isolated(g)'
  BY <1>1, <1>3 DEF Crash, files
<1>4. ASSUME NEW h \in Handles, Step(h) PROVE Isolated(g)'
  <2>1. g # h => pc'[g] = pc[g] /\ req'[g] = req[g]
    BY <1>4, StepShape DEF IInv
  <2>2. pc'[g] = "held" => req'[g] = req[g]
    BY <1>4, <2>1, StepShape DEF IInv
  <2>3. CASE pc[g] # "held"
    <3>1. g = h /\ UNCHANGED <<journal, receipt, req>>
          /\ \/ pc[h] = "waiting" /\ ~RecoveryPending(req[h])
             \/ pc[h] = "queued" /\ Admissible(req[h])
      BY <1>4, <2>1, <2>3, GrantFinds DEF IInv
    <3>2. req[h] \in Menu[h] /\ (pc[h] = "waiting" => req[h].kind = "shared")
          /\ (pc[h] = "queued" => req[h].kind # "shared")
      BY <3>1 DEF Asked, IInv
    <3>3. req[h].kind \in {"shared", "project", "global"}
      BY <3>2, MenuFacts
    <3> QED BY <3>1, <3>2, <3>3 DEF Isolated, RecoveryPending, Admissible, Blocked
  <2>4. CASE pc[g] = "held" /\ UNCHANGED <<journal, receipt>>
    BY <1>1, <2>2, <2>4
  <2>5. CASE pc[g] = "held" /\ ~UNCHANGED <<journal, receipt>>
    <3>0. req[g] \in Menu[g] /\ req'[g] = req[g]
      BY <2>2, <2>5 DEF Asked, IInv
    <3>1. Isolated(g)
      BY DEF RecoveryIsolated, Isolated
    <3>2. CASE /\ Acquired(h) /\ req[h].kind = "project" /\ req[h].key \in Keys
               /\ Scope(req[h]) = {req[h].key}
               /\ UNCHANGED <<receipt, pc, req>>
               /\ \A k \in Keys : k # req[h].key => journal'[k] = journal[k]
      <4>1. CASE g = h
        BY <2>5, <3>0, <3>1, <3>2, <4>1 DEF Isolated, Blocked
      <4>2. CASE g # h
        <5>1. req[h].key \notin Scope(req[g])
          BY <2>5, <3>2, <4>2, SoleAuthority
        <5>2. req[g].kind # "global"
          BY <3>0, <3>2, <5>1, ScopeFacts DEF Dimensions
        <5>3. req[g].kind = "shared" /\ req[g].key \in Keys => req[g].key # req[h].key
          BY <3>0, <5>1, ScopeFacts DEF Dimensions
        <5> QED BY <2>5, <3>0, <3>1, <3>2, <5>2, <5>3 DEF Isolated, Blocked
      <4> QED BY <4>1, <4>2
    <3>3. CASE /\ Acquired(h) /\ req[h].kind = "global" /\ Scope(req[h]) = Dimensions
               /\ UNCHANGED <<journal, pc, req>>
      <4>1. g = h
        <5> SUFFICES ASSUME g # h PROVE FALSE
          OBVIOUS
        <5>1. Scope(req[g]) \cap Dimensions = {}
          BY <2>5, <3>3, SoleAuthority
        <5> QED BY <3>0, <5>1, ScopeFacts, ScopeInhabited
      <4> QED BY <2>5, <3>1, <3>3, <4>1 DEF Isolated
    <3> QED BY <1>4, <2>5, <3>2, <3>3, RecordChange
  <2> QED BY <2>3, <2>4, <2>5
<1> QED BY <1>2, <1>3, <1>4 DEF Next

\* The writer that changes a record has drained its readers.
LEMMA RecordsChangeAlone ==
  ASSUME IInv, [Next]_vars
  PROVE  /\ \A k \in Keys : journal'[k] # journal[k] => LiveReaders(k) = {}
         /\ receipt' # receipt => \A d \in Dimensions : LiveReaders(d) = {}
<1>1. CASE UNCHANGED vars
  BY <1>1 DEF vars
<1>2. ASSUME NEW p \in Processes, Crash(p) PROVE UNCHANGED <<journal, receipt>>
  BY <1>2 DEF Crash, files
<1>3. ASSUME NEW h \in Handles, Step(h)
      PROVE  /\ \A k \in Keys : journal'[k] # journal[k] => LiveReaders(k) = {}
             /\ receipt' # receipt => \A d \in Dimensions : LiveReaders(d) = {}
  <2>1. Acquired(h) => \A d \in Scope(req[h]) : LiveReaders(d) = {}
    BY DEF Emptied, Cleared, IInv
  <2> QED BY <1>3, <2>1, RecordChange
<1> QED BY <1>1, <1>2, <1>3 DEF Next

-----------------------------------------------------------------------------
(* Nothing is left behind.                                                 *)

Writing == {"queued", "held", "cleanup", "releasing"}
Reading == {"held", "cleanup", "retrying", "releasing"}

\* The request of owner o belongs to a call that will use it or undo it, and so does each
\* of its references among the readers of d.
OwedRequest(o) ==
    writer[o] # NoWriter => /\ pc[writer[o].by] \in Writing /\ OwnerOf[writer[o].by] = o
                            /\ req[writer[o].by].kind # "shared"
OwedReference(o, d) ==
    Registered(o, d) => \A h \in reader[d][o].refs : /\ pc[h] \in Reading /\ OwnerOf[h] = o
                                                     /\ req[h].kind = "shared" /\ d \in Scope(req[h])
Owed == \A o \in Owners : Live(o) => OwedRequest(o) /\ \A d \in Dimensions : OwedReference(o, d)

\* What a call owns before it moves.
LEMMA OwnedFacts ==
  ASSUME IInv, Owed, NEW h \in Handles, NEW o \in Owners, Live(o)
  PROVE  /\ writer[o] # NoWriter /\ writer[o].by = h =>
               pc[h] \in Writing /\ OwnerOf[h] = o /\ req[h].kind # "shared"
         /\ \A d \in Dimensions : Registered(o, d) /\ h \in reader[d][o].refs =>
               /\ pc[h] \in Reading /\ OwnerOf[h] = o
               /\ req[h].kind = "shared" /\ d \in Scope(req[h])
  BY DEF Owed, OwedRequest, OwedReference

\* A step of one call takes nothing from the others that they still owe.
LEMMA OwedKept ==
  ASSUME IInv, Owed, TypeOK', NEW h \in Handles, alive' = alive,
         \A g \in Handles : g # h => pc'[g] = pc[g] /\ req'[g] = req[g],
         \A o \in Owners : Live(o) /\ writer'[o] # NoWriter =>
            IF writer'[o].by = h
            THEN pc'[h] \in Writing /\ OwnerOf[h] = o /\ req'[h].kind # "shared"
            ELSE writer[o] # NoWriter /\ writer[o].by = writer'[o].by,
         \A o \in Owners : \A d \in Dimensions : Live(o) /\ reader'[d][o] # NoReader =>
            /\ \A g \in reader'[d][o].refs : g # h => Registered(o, d) /\ g \in reader[d][o].refs
            /\ h \in reader'[d][o].refs =>
                  /\ pc'[h] \in Reading /\ OwnerOf[h] = o
                  /\ req'[h].kind = "shared" /\ d \in Scope(req'[h])
  PROVE  Owed'
<1> SUFFICES ASSUME NEW o \in Owners, Live(o)'
             PROVE  OwedRequest(o)' /\ \A d \in Dimensions : OwedReference(o, d)'
  BY DEF Owed
<1>1. Live(o)
  BY DEF Live
<1>2. OwedRequest(o)'
  <2> SUFFICES ASSUME writer'[o] # NoWriter
               PROVE  /\ pc'[writer'[o].by] \in Writing /\ OwnerOf[writer'[o].by] = o
                      /\ req'[writer'[o].by].kind # "shared"
    BY DEF OwedRequest
  <2>1. writer'[o].by \in Handles
    BY DEF TypeOK, Writers
  <2>2. CASE writer'[o].by = h
    BY <1>1, <2>2
  <2>3. CASE writer'[o].by # h
    <3>1. writer[o] # NoWriter /\ writer[o].by = writer'[o].by
      BY <1>1, <2>3
    <3>2. OwedRequest(o)
      BY <1>1 DEF Owed
    <3> QED BY <2>1, <2>3, <3>1, <3>2 DEF OwedRequest
  <2> QED BY <2>2, <2>3
<1>3. ASSUME NEW d \in Dimensions PROVE OwedReference(o, d)'
  <2> SUFFICES ASSUME reader'[d][o] # NoReader, NEW g \in reader'[d][o].refs
               PROVE  /\ pc'[g] \in Reading /\ OwnerOf[g] = o
                      /\ req'[g].kind = "shared" /\ d \in Scope(req'[g])
    BY DEF OwedReference, Registered, Scope
  <2>1. g \in Handles
    BY DEF TypeOK, Readers
  <2>2. CASE g = h
    BY <1>1, <2>2
  <2>3. CASE g # h
    <3>1. Registered(o, d) /\ g \in reader[d][o].refs
      BY <1>1, <2>3
    <3>2. OwedReference(o, d)
      BY <1>1 DEF Owed
    <3>3. pc'[g] = pc[g] /\ req'[g] = req[g]
      BY <2>1, <2>3
    <3> QED BY <3>1, <3>2, <3>3 DEF OwedReference
  <2> QED BY <2>2, <2>3
<1> QED BY <1>2, <1>3

\* A call that begins owns nothing yet.
LEMMA BeginOwed ==
  ASSUME IInv, IInv', Owed, NEW h \in Handles, Begin(h)
  PROVE  Owed'
<1>1. pc[h] = "idle" /\ UNCHANGED <<writer, reader, alive>>
  BY DEF Begin, files
<1>2. \A g \in Handles : g # h => pc'[g] = pc[g] /\ req'[g] = req[g]
  <2>1. Step(h)
    BY DEF Step
  <2> QED BY <2>1, StepShape DEF IInv
<1>3. \A o \in Owners : Live(o) =>
         /\ ~(writer[o] # NoWriter /\ writer[o].by = h)
         /\ \A d \in Dimensions : ~(Registered(o, d) /\ h \in reader[d][o].refs)
  BY <1>1, OwnedFacts DEF Writing, Reading
<1>4. TypeOK'
  BY DEF IInv
<1> QED BY <1>1, <1>2, <1>3, <1>4, OwedKept DEF Registered

\* A section that sweeps at most ends its call only when the call owns nothing.
LEMMA SweepOwed ==
  ASSUME IInv, IInv', Owed, NEW h \in Handles, Sweep(h),
         pc[h] \in {"queued", "retrying", "enqueue", "waiting", "held"}
  PROVE  Owed'
<1>1. \A g \in Handles : g # h => pc'[g] = pc[g] /\ req'[g] = req[g]
  BY DEF Sweep, Go, Return, IInv, TypeOK
<1>2. \A o \in Owners : Live(o) =>
         writer'[o] = writer[o] /\ \A d \in Dimensions : reader'[d][o] = reader[d][o]
  BY SweptFacts DEF Sweep, IInv
<1>3. alive' = alive /\ TypeOK'
  BY DEF Sweep, IInv
<1>4. \/ UNCHANGED <<pc, req>>
      \/ /\ pc'[h] \in {"cleanup", "releasing"} /\ req'[h] = req[h]
      \/ pc[h] \in {"waiting", "enqueue"}
  BY DEF Sweep, Go, IInv, TypeOK
<1>5. ASSUME NEW o \in Owners, Live(o)
      PROVE  /\ writer[o] # NoWriter /\ writer[o].by = h =>
                   pc'[h] \in Writing /\ OwnerOf[h] = o /\ req'[h].kind # "shared"
             /\ \A d \in Dimensions : Registered(o, d) /\ h \in reader[d][o].refs =>
                   /\ pc'[h] \in Reading /\ OwnerOf[h] = o
                   /\ req'[h].kind = "shared" /\ d \in Scope(req'[h])
  BY <1>4, <1>5, OwnedFacts DEF Writing, Reading
<1> QED BY <1>1, <1>2, <1>3, <1>5, OwedKept DEF Registered

\* A publication adds references of the calling handle only.
LEMMA PublishedRefs ==
  ASSUME NEW records \in [Dimensions -> [Owners -> Readers \cup {NoReader}]],
         NEW h \in Handles, NEW dims, NEW seq \in Nat
  PROVE  \A d \in Dimensions : \A o \in Owners :
            LET found == IF records[d][o] = NoReader THEN {} ELSE records[d][o].refs
            IN  IF d \in dims /\ o = OwnerOf[h]
                THEN Published(records, h, dims, seq)[d][o].refs = found \cup {h}
                ELSE Published(records, h, dims, seq)[d][o] = records[d][o]
<1> SUFFICES ASSUME NEW d \in Dimensions, NEW o \in Owners
             PROVE  LET found == IF records[d][o] = NoReader THEN {} ELSE records[d][o].refs
                    IN  IF d \in dims /\ o = OwnerOf[h]
                        THEN Published(records, h, dims, seq)[d][o].refs = found \cup {h}
                        ELSE Published(records, h, dims, seq)[d][o] = records[d][o]
  OBVIOUS
<1>1. Published(records, h, dims, seq)[d][o]
        = IF d \in dims /\ o = OwnerOf[h]
          THEN IF records[d][o] = NoReader THEN [seq |-> seq, refs |-> {h}]
               ELSE [records[d][o] EXCEPT !.refs = @ \cup {h}]
          ELSE records[d][o]
  BY DEF Published
<1>2. records[d][o] # NoReader => records[d][o] \in Readers
  OBVIOUS
<1> QED BY <1>1, <1>2 DEF Readers

\* The records a registration finds once the dead are swept.
LEMMA PublicationShape ==
  ASSUME IInv, NEW h \in Handles, NEW dims \in SUBSET Scope(req[h]), NEW label,
         Register(h, dims, label) \/ Inherit(h, dims, label)
  PROVE  /\ pc[h] = "waiting" /\ Go(h, label) /\ writer' = SweptWriters
         /\ req[h] \in Menu[h] /\ req[h].kind = "shared" /\ dims \subseteq Dimensions
         /\ UNCHANGED <<alive, req>>
         /\ \E scanned, seq : /\ seq \in Nat /\ Vacant(h) \subseteq scanned
                              /\ reader' = Published(SweptReaders(scanned), h, dims, seq)
         /\ \A d \in Vacant(h) : ~Full(d)
         /\ \A d \in Scope(req[h]) \ Vacant(h) : ~(Cardinality(reader[d][OwnerOf[h]].refs) >= MaxRefs)
<1>1. pc[h] = "waiting" /\ Go(h, label) /\ writer' = SweptWriters /\ UNCHANGED <<alive, req>>
  BY DEF Register, MayRegister, Inherit, MayInherit, Inherits
<1>2. req[h] \in Menu[h] /\ req[h].kind = "shared"
  BY <1>1 DEF Asked, IInv
<1>3. Scope(req[h]) \subseteq Dimensions
  BY <1>2, ScopeFacts
<1>4. Vacant(h) \subseteq Scope(req[h])
  BY DEF Vacant
<1>5. CASE Register(h, dims, label)
  <2>1. ~Exhausted(h)
    BY <1>5 DEF Register
  <2>2. \A d \in Vacant(h) : ~Full(d)
    BY <2>1 DEF Exhausted
  <2>3. \A d \in Scope(req[h]) \ Vacant(h) : ~(Cardinality(reader[d][OwnerOf[h]].refs) >= MaxRefs)
    BY <2>1 DEF Exhausted
  <2>4. Sequence(h) \in Nat
    BY SequenceNat DEF IInv
  <2>5. \E scanned : Vacant(h) \subseteq scanned
                     /\ reader' = Published(SweptReaders(scanned), h, dims, Sequence(h))
    BY <1>5 DEF Register
  <2> QED BY <1>1, <1>2, <1>3, <2>2, <2>3, <2>4, <2>5
<1>6. CASE Inherit(h, dims, label)
  <2>1. MayInherit(h) /\ (\A d \in Scope(req[h]) : ~Full(d))
        /\ reader' = Published(SweptReaders(Scope(req[h])), h, dims, ParentSequence(h))
    BY <1>6 DEF Inherit
  <2>2. ParentSequence(h) \in Nat
    BY <2>1, ParentFacts
  <2>3. Vacant(h) = Scope(req[h])
    BY <1>3, <2>1 DEF MayInherit, Unused, Vacant
  <2> QED BY <1>1, <1>2, <1>3, <2>1, <2>2, <2>3
<1> QED BY <1>5, <1>6

\* A registration owns the references it writes, whether it is granted or fails.
LEMMA PublishOwed ==
  ASSUME IInv, IInv', Owed, NEW h \in Handles, NEW dims \in SUBSET Scope(req[h]),
         NEW label \in {"held", "cleanup", "retrying"},
         Register(h, dims, label) \/ Inherit(h, dims, label)
  PROVE  Owed'
<1>1. /\ pc[h] = "waiting" /\ Go(h, label) /\ writer' = SweptWriters /\ UNCHANGED <<alive, req>>
      /\ req[h].kind = "shared" /\ dims \subseteq Dimensions
  BY PublicationShape
<1>2. PICK scanned, seq : seq \in Nat /\ reader' = Published(SweptReaders(scanned), h, dims, seq)
  BY PublicationShape
<1>3. /\ SweptReaders(scanned) \in [Dimensions -> [Owners -> Readers \cup {NoReader}]]
      /\ \A d \in Dimensions : \A o \in Owners : Live(o) => SweptReaders(scanned)[d][o] = reader[d][o]
  BY SweptFacts DEF IInv
<1>4. pc'[h] = label /\ \A g \in Handles : g # h => pc'[g] = pc[g] /\ req'[g] = req[g]
  BY <1>1 DEF Go, IInv, TypeOK
<1>5. ASSUME NEW o \in Owners, Live(o)
      PROVE  /\ writer'[o] = writer[o]
             /\ ~(writer[o] # NoWriter /\ writer[o].by = h)
             /\ \A d \in Dimensions : ~(Registered(o, d) /\ h \in reader[d][o].refs)
  <2>1. writer'[o] = writer[o]
    BY <1>1, <1>5, SweptFacts DEF IInv
  <2> QED BY <1>1, <1>5, <2>1, OwnedFacts DEF Writing, Reading
<1>6. ASSUME NEW o \in Owners, NEW d \in Dimensions, Live(o), reader'[d][o] # NoReader
      PROVE  /\ \A g \in reader'[d][o].refs : g # h => Registered(o, d) /\ g \in reader[d][o].refs
             /\ h \in reader'[d][o].refs => o = OwnerOf[h] /\ d \in Scope(req[h])
  <2>0. LET found == IF reader[d][o] = NoReader THEN {} ELSE reader[d][o].refs
        IN  IF d \in dims /\ o = OwnerOf[h] THEN reader'[d][o].refs = found \cup {h}
            ELSE reader'[d][o] = reader[d][o]
    <3> DEFINE R == SweptReaders(scanned)
    <3>1. R \in [Dimensions -> [Owners -> Readers \cup {NoReader}]] /\ R[d][o] = reader[d][o]
      BY <1>3, <1>6
    <3>2. seq \in Nat /\ reader' = Published(R, h, dims, seq)
      BY <1>2
    <3> HIDE DEF R
    <3> QED BY <3>1, <3>2, PublishedRefs
  <2>1. CASE d \in dims /\ o = OwnerOf[h]
    <3>1. \A g \in reader'[d][o].refs : g # h => reader[d][o] # NoReader /\ g \in reader[d][o].refs
      BY <2>0, <2>1
    <3> QED BY <2>1, <3>1 DEF Registered
  <2>2. CASE ~(d \in dims /\ o = OwnerOf[h])
    <3>1. reader'[d][o] = reader[d][o]
      BY <2>0, <2>2
    <3> QED BY <1>5, <1>6, <3>1 DEF Registered
  <2> QED BY <2>1, <2>2
<1>7. label \in Reading /\ TypeOK'
  BY DEF Reading, IInv
<1> QED BY <1>1, <1>4, <1>5, <1>6, <1>7, OwedKept

\* A request is owned by the call that queues it.
LEMMA EnqueueOwed ==
  ASSUME IInv, IInv', Owed, NEW h \in Handles, NEW label \in {"queued", "cleanup"}, Enqueue(h, label)
  PROVE  Owed'
<1>1. /\ pc[h] = "enqueue" /\ Go(h, label) /\ UNCHANGED <<reader, alive, req>>
      /\ OwnerOf[h] \in Owners /\ req[h].kind # "shared"
  BY OwnerFacts DEF Enqueue, Asked, IInv
<1>2. pc'[h] = label /\ \A g \in Handles : g # h => pc'[g] = pc[g] /\ req'[g] = req[g]
  BY <1>1 DEF Go, IInv, TypeOK
<1>3. ASSUME NEW o \in Owners, Live(o), writer'[o] # NoWriter
      PROVE  IF writer'[o].by = h THEN OwnerOf[h] = o
             ELSE writer[o] # NoWriter /\ writer[o].by = writer'[o].by
  <2>1. SweptWriters \in [Owners -> Writers \cup {NoWriter}] /\ SweptWriters[o] = writer[o]
    BY <1>3, SweptFacts DEF IInv
  <2>2. CASE o = OwnerOf[h]
    BY <1>1, <2>1, <2>2 DEF Enqueue
  <2>3. CASE o # OwnerOf[h]
    <3>1. writer'[o] = writer[o]
      BY <2>1, <2>3 DEF Enqueue
    <3> QED BY <1>1, <1>3, <3>1, OwnedFacts DEF Writing
  <2> QED BY <2>2, <2>3
<1>4. \A o \in Owners : Live(o) => \A d \in Dimensions : ~(Registered(o, d) /\ h \in reader[d][o].refs)
  BY <1>1, OwnedFacts DEF Reading
<1>5. label \in Writing /\ TypeOK'
  BY DEF Writing, IInv
<1> QED BY <1>1, <1>2, <1>3, <1>4, <1>5, OwedKept DEF Registered

\* A section that moves a request on keeps it with its call, or removes it.
LEMMA ProgressOwed ==
  ASSUME IInv, IInv', Owed, NEW h \in Handles,
         \/ ProgressWaits(h) \/ ProgressAcquired(h) \/ ProgressFails(h) \/ ProgressTimesOut(h)
  PROVE  Owed'
<1>1. /\ pc[h] = "queued" /\ OwnerOf[h] \in Owners /\ alive' = alive /\ TypeOK'
      /\ writer[OwnerOf[h]] # NoWriter /\ writer[OwnerOf[h]] \in Writers
      /\ req[h].kind # "shared" /\ Live(OwnerOf[h])
  BY OwnerFacts DEF ProgressWaits, ProgressAcquired, ProgressFails, ProgressTimesOut, MayProgress,
                    Asked, LiveCalls, IInv, TypeOK
<1>2. /\ \A g \in Handles : g # h => pc'[g] = pc[g] /\ req'[g] = req[g]
      /\ ProgressTimesOut(h) \/ (pc'[h] \in Writing /\ req'[h] = req[h] /\ Progressed(h))
  BY <1>1 DEF ProgressWaits, ProgressAcquired, ProgressFails, ProgressTimesOut, Go, Return,
              Writing, IInv, TypeOK
<1>3. \A o \in Owners : Live(o) => \A d \in Dimensions : reader'[d][o] = reader[d][o]
  BY SweptFacts DEF ProgressWaits, ProgressAcquired, ProgressFails, ProgressTimesOut, Progressed, IInv
<1>4. \A o \in Owners : Live(o) => \A d \in Dimensions : ~(Registered(o, d) /\ h \in reader[d][o].refs)
  BY <1>1, OwnedFacts DEF Reading
<1>5. ASSUME NEW o \in Owners, Live(o), writer'[o] # NoWriter
      PROVE  /\ writer[o] # NoWriter /\ writer[o].by = writer'[o].by
             /\ o = OwnerOf[h] => ~ProgressTimesOut(h)
  <2>1. /\ SweptWriters \in [Owners -> Writers \cup {NoWriter}] /\ SweptWriters[o] = writer[o]
        /\ SweptWriters[OwnerOf[h]] = writer[OwnerOf[h]]
    BY <1>1, <1>5, SweptFacts DEF IInv
  <2>2. CASE ProgressTimesOut(h)
    <3>1. writer' = [SweptWriters EXCEPT ![OwnerOf[h]] = NoWriter]
      BY <2>2 DEF ProgressTimesOut
    <3> QED BY <1>1, <1>5, <2>1, <3>1
  <2>3. CASE Progressed(h) /\ ~ProgressTimesOut(h)
    <3>1. writer' = [SweptWriters EXCEPT ![OwnerOf[h]].phase = "intent"] \/ writer' = SweptWriters
      BY <2>3 DEF Progressed
    <3> QED BY <1>1, <1>5, <2>1, <2>3, <3>1 DEF Writers
  <2> QED BY <1>2, <2>2, <2>3
<1>6. ASSUME NEW o \in Owners, Live(o), writer'[o] # NoWriter, writer'[o].by = h
      PROVE  pc'[h] \in Writing /\ OwnerOf[h] = o /\ req'[h].kind # "shared"
  <2>1. OwnerOf[h] = o
    BY <1>5, <1>6, OwnedFacts
  <2> QED BY <1>1, <1>2, <1>5, <1>6, <2>1
<1> QED BY <1>1, <1>2, <1>3, <1>4, <1>5, <1>6, OwedKept DEF Registered

\* A removal leaves no reference of its handle in the dimensions it names.
LEMMA RemovedRefs ==
  ASSUME TypeOK, NEW h \in Handles, NEW dims, NEW d \in Dimensions, NEW o \in Owners,
         Removed(h, dims)[d][o] # NoReader
  PROVE  /\ Registered(o, d) /\ Removed(h, dims)[d][o].refs \subseteq reader[d][o].refs
         /\ d \in dims /\ o = OwnerOf[h] => h \notin Removed(h, dims)[d][o].refs
         /\ Removed(h, dims)[d][o].refs = reader[d][o].refs \/ Removed(h, dims)[d][o].refs # {}
<1>1. Removed(h, dims)[d][o]
        = IF d \in dims /\ o = OwnerOf[h] /\ Registered(o, d)
          THEN IF reader[d][o].refs \subseteq {h} THEN NoReader
               ELSE [reader[d][o] EXCEPT !.refs = @ \ {h}]
          ELSE reader[d][o]
  BY DEF Removed
<1>2. Registered(o, d) /\ reader[d][o] \in Readers
  BY <1>1 DEF Registered, TypeOK
<1> QED BY <1>1, <1>2 DEF Readers

\* The end of a reader takes both of its references; half an end leaves its call owing.
LEMMA LeaveSharedOwed ==
  ASSUME IInv, IInv', Owed, NEW h \in Handles, LeaveShared(h) \/ LeaveHalf(h)
  PROVE  Owed'
<1>1. /\ UNCHANGED <<writer, alive>> /\ req[h].kind = "shared" /\ TypeOK'
      /\ pc[h] \in {"cleanup", "retrying", "releasing", "held"}
  BY DEF LeaveShared, LeaveHalf, Leaving, IInv
<1>2. /\ \A g \in Handles : g # h => pc'[g] = pc[g] /\ req'[g] = req[g]
      /\ LeaveShared(h) \/ (pc'[h] \in Reading /\ req'[h] = req[h])
  BY <1>1 DEF LeaveShared, LeaveHalf, Leaving, Go, Return, Reading, IInv, TypeOK
<1>3. \A o \in Owners : Live(o) => ~(writer[o] # NoWriter /\ writer[o].by = h)
  BY <1>1, OwnedFacts
<1>4. ASSUME NEW o \in Owners, NEW d \in Dimensions, Live(o), reader'[d][o] # NoReader
      PROVE  /\ \A g \in reader'[d][o].refs : Registered(o, d) /\ g \in reader[d][o].refs
             /\ h \in reader'[d][o].refs =>
                  /\ pc'[h] \in Reading /\ OwnerOf[h] = o
                  /\ req'[h].kind = "shared" /\ d \in Scope(req'[h])
  <2>1. PICK dims : reader' = Removed(h, dims) /\ (LeaveShared(h) => dims = Scope(req[h]))
    <3>1. CASE LeaveShared(h)
      BY <3>1 DEF LeaveShared
    <3>2. CASE ~LeaveShared(h)
      BY <3>2 DEF LeaveHalf
    <3> QED BY <3>1, <3>2
  <2>2. /\ Registered(o, d) /\ reader'[d][o].refs \subseteq reader[d][o].refs
        /\ d \in dims /\ o = OwnerOf[h] => h \notin reader'[d][o].refs
    BY <1>4, <2>1, RemovedRefs DEF IInv
  <2>3. h \in reader[d][o].refs => /\ OwnerOf[h] = o /\ req[h].kind = "shared"
                                   /\ d \in Scope(req[h])
    BY <1>4, <2>2, OwnedFacts
  <2> QED BY <1>2, <2>1, <2>2, <2>3
<1> QED BY <1>1, <1>2, <1>3, <1>4, OwedKept

\* The end of a writer takes its request.
LEMMA LeaveWriterOwed ==
  ASSUME IInv, IInv', Owed, NEW h \in Handles, LeaveWriter(h)
  PROVE  Owed'
<1>1. UNCHANGED <<reader, alive>> /\ req[h].kind # "shared" /\ TypeOK' /\ Return(h)
  BY DEF LeaveWriter, IInv
<1>2. \A g \in Handles : g # h => pc'[g] = pc[g] /\ req'[g] = req[g]
  BY <1>1 DEF Go, Return, IInv, TypeOK
<1>3. \A o \in Owners : Live(o) => \A d \in Dimensions : ~(Registered(o, d) /\ h \in reader[d][o].refs)
  BY <1>1, OwnedFacts
<1>4. ASSUME NEW o \in Owners, Live(o), writer'[o] # NoWriter
      PROVE  writer'[o].by # h /\ writer[o] # NoWriter /\ writer[o].by = writer'[o].by
  <2>1. /\ ~(o = OwnerOf[h] /\ writer[o] # NoWriter /\ writer[o].by = h)
        /\ writer'[o] = SweptWriters[o]
    BY <1>4 DEF LeaveWriter
  <2>2. writer'[o] = writer[o]
    BY <1>4, <2>1, SweptFacts DEF IInv
  <2> QED BY <1>4, <2>1, <2>2, OwnedFacts
<1> QED BY <1>1, <1>2, <1>3, <1>4, OwedKept DEF Registered

\* Every step leaves behind only what is still owed by a call.
LEMMA StepOwed == IInv /\ IInv' /\ Owed /\ [Next]_vars => Owed'
<1> SUFFICES ASSUME IInv, IInv', Owed, [Next]_vars PROVE Owed'
  OBVIOUS
<1>1. CASE UNCHANGED vars
  BY <1>1 DEF vars, Owed, OwedRequest, OwedReference, Live, Registered, Scope
<1>2. ASSUME NEW p \in Processes, Crash(p) PROVE Owed'
  <2>1. UNCHANGED <<writer, reader, req>> /\ alive' = alive \ {p}
    BY <1>2 DEF Crash, files
  <2>2. \A h \in Handles : ProcessOf[OwnerOf[h]] # p => pc'[h] = pc[h]
    BY <1>2 DEF Crash
  <2> SUFFICES ASSUME NEW o \in Owners, Live(o)'
               PROVE  OwedRequest(o)' /\ \A d \in Dimensions : OwedReference(o, d)'
    BY DEF Owed
  <2>3. Live(o) /\ ProcessOf[o] # p
    BY <2>1 DEF Live
  <2>4. OwedRequest(o) /\ \A d \in Dimensions : OwedReference(o, d)
    BY <2>3 DEF Owed
  <2>5. OwedRequest(o)'
    <3>1. writer[o] # NoWriter => writer[o].by \in Handles
      BY DEF IInv, TypeOK, Writers
    <3> QED BY <2>1, <2>2, <2>3, <2>4, <3>1 DEF OwedRequest
  <2>6. ASSUME NEW d \in Dimensions PROVE OwedReference(o, d)'
    <3>1. Registered(o, d) => reader[d][o].refs \subseteq Handles
      BY DEF Registered, IInv, TypeOK, Readers
    <3> QED BY <2>1, <2>2, <2>3, <2>4, <3>1 DEF OwedReference, Registered, Scope
  <2> QED BY <2>5, <2>6
<1>3. ASSUME NEW h \in Handles, Step(h) PROVE Owed'
  <2>1. CASE Begin(h)
    BY <2>1, BeginOwed
  <2>2. CASE \/ RegisterRefused(h) \/ RegisterRejected(h) \/ RegisterBarred(h)
             \/ RegisterExhausted(h) \/ InheritDenied(h) \/ InheritExhausted(h) \/ WaitEnds(h)
             \/ EnqueueRefused(h) \/ EnqueueRejected(h) \/ ProgressRefused(h) \/ QueueEnds(h)
             \/ RetryRefused(h) \/ ReleaseFails(h)
    <3>1. Sweep(h)
      BY <2>2, SweepingActions
    <3>2. pc[h] \in {"queued", "retrying", "enqueue", "waiting", "held"}
      BY <2>2 DEF RegisterRefused, RegisterRejected, RegisterBarred, RegisterExhausted, MayRegister,
                  InheritDenied, InheritExhausted, MayInherit, Inherits, WaitEnds, EnqueueRefused,
                  EnqueueRejected, ProgressRefused, QueueEnds, RetryRefused, ReleaseFails
    <3> QED BY <3>1, <3>2, SweepOwed
  <2>3. CASE RegisterGranted(h) \/ RegisterFails(h)
    <3>1. \E dims \in SUBSET Scope(req[h]), label \in {"held", "cleanup", "retrying"} :
             Register(h, dims, label)
      BY <2>3 DEF RegisterGranted, RegisterFails
    <3> QED BY <3>1, PublishOwed
  <2>4. CASE InheritGranted(h) \/ InheritFails(h)
    <3>1. \E dims \in SUBSET Scope(req[h]), label \in {"held", "cleanup", "retrying"} :
             Inherit(h, dims, label)
      BY <2>4 DEF InheritGranted, InheritFails
    <3> QED BY <3>1, PublishOwed
  <2>5. CASE Enqueued(h) \/ EnqueueFails(h)
    BY <2>5, EnqueueOwed DEF Enqueued, EnqueueFails
  <2>6. CASE \/ ProgressWaits(h) \/ ProgressAcquired(h) \/ ProgressFails(h) \/ ProgressTimesOut(h)
    BY <2>6, ProgressOwed
  <2>7. CASE Leave(h) \/ LeaveHalf(h)
    BY <2>7, LeaveSharedOwed, LeaveWriterOwed DEF Leave
  <2>8. CASE Recover(h)
    <3>1. UNCHANGED <<writer, reader, alive, pc, req>>
      BY <2>8 DEF Recover, MutateJournal, DiscardJournal, MutateReceipt, DiscardReceipt
    <3> QED BY <3>1 DEF Owed, OwedRequest, OwedReference, Live, Registered, Scope
  <2> QED BY <1>3, <2>1, <2>2, <2>3, <2>4, <2>5, <2>6, <2>7, <2>8 DEF Step, AcquireShared, AcquireWriter
<1> QED BY <1>1, <1>2, <1>3 DEF Next

\* What is owed is not leaked.
LEMMA NothingLeaks == Owed => NoLeak
  BY DEF Owed, OwedRequest, OwedReference, NoLeak, Writing, Reading

-----------------------------------------------------------------------------
(* No file outgrows its parser.                                            *)

Queue == {o \in Owners : writer[o] # NoWriter}
Directory(d) == {o \in Owners : Registered(o, d)}

AtMost(n, S) == IsFiniteSet(S) /\ Cardinality(S) <= n

DistinctSequences == \A o, p \in Owners : o # p /\ writer[o] # NoWriter /\ writer[p] # NoWriter
                                          => writer[o].seq # writer[p].seq
References == \A d \in Dimensions : \A o \in Owners :
                 Registered(o, d) => AtMost(MaxRefs, reader[d][o].refs) /\ reader[d][o].refs # {}

\* The sets that StoreReadable counts are finite, though the owners need not be.
Bounded == /\ DistinctSequences /\ References
           /\ AtMost(MaxWriters, Queue)
           /\ \A d \in Dimensions : AtMost(MaxReaders, Directory(d))

\* A part of a bounded set is bounded.
LEMMA AtMostSubset ==
  ASSUME NEW n \in Nat, NEW S, AtMost(n, S), NEW T \in SUBSET S
  PROVE  AtMost(n, T)
<1>1. IsFiniteSet(T) /\ Cardinality(T) <= Cardinality(S)
  BY FS_Subset DEF AtMost
<1>2. Cardinality(S) \in Nat /\ Cardinality(T) \in Nat
  BY <1>1, FS_CardinalityType DEF AtMost
<1> QED BY <1>1, <1>2 DEF AtMost

\* One more element fits into a finite set that is below its bound.
LEMMA AtMostAdd ==
  ASSUME NEW n \in Nat, NEW S, IsFiniteSet(S), ~(Cardinality(S) >= n),
         NEW x, NEW T \in SUBSET (S \cup {x})
  PROVE  AtMost(n, T)
<1>1. Cardinality(S) \in Nat
  BY FS_CardinalityType
<1>2. IsFiniteSet(S \cup {x}) /\ Cardinality(S \cup {x}) <= Cardinality(S) + 1
  BY <1>1, FS_AddElement
<1>3. Cardinality(S \cup {x}) \in Nat
  BY <1>2, FS_CardinalityType
<1>4. AtMost(n, S \cup {x})
  BY <1>1, <1>2, <1>3 DEF AtMost
<1> QED BY <1>4, AtMostSubset

\* A step that adds no record and no reference keeps the bounds.
LEMMA ShrinkBounded ==
  ASSUME Bounded,
         \A o \in Owners : writer'[o] # NoWriter =>
            writer[o] # NoWriter /\ writer'[o].seq = writer[o].seq,
         \A d \in Dimensions : \A o \in Owners : reader'[d][o] # NoReader =>
            /\ Registered(o, d) /\ reader'[d][o].refs \subseteq reader[d][o].refs
            /\ reader'[d][o].refs # {} \/ reader'[d][o].refs = reader[d][o].refs
  PROVE  Bounded'
<1>0. MaxReaders \in Nat /\ MaxRefs \in Nat /\ MaxWriters \in Nat
  BY BoundAssumption
<1>1. Queue' \subseteq Queue /\ \A d \in Dimensions : Directory(d)' \subseteq Directory(d)
  BY DEF Queue, Directory, Registered
<1>2. AtMost(MaxWriters, Queue')
  BY <1>0, <1>1, AtMostSubset DEF Bounded
<1>3. ASSUME NEW d \in Dimensions PROVE AtMost(MaxReaders, Directory(d)')
  BY <1>0, <1>1, AtMostSubset DEF Bounded
<1>4. ASSUME NEW d \in Dimensions, NEW o \in Owners, reader'[d][o] # NoReader
      PROVE  AtMost(MaxRefs, reader'[d][o].refs) /\ reader'[d][o].refs # {}
  <2>1. AtMost(MaxRefs, reader[d][o].refs) /\ reader[d][o].refs # {}
    BY <1>4 DEF Bounded, References
  <2> QED BY <1>0, <1>4, <2>1, AtMostSubset
<1>5. DistinctSequences'
  BY DEF Bounded, DistinctSequences
<1>6. References'
  BY <1>4 DEF References, AtMost, Registered
<1> QED BY <1>2, <1>3, <1>5, <1>6 DEF Bounded, AtMost, Queue, Directory, Registered

\* A request is queued only when there is room, under a sequence nobody has.
LEMMA EnqueueBounded ==
  ASSUME IInv, Bounded, NEW h \in Handles, NEW label, Enqueue(h, label)
  PROVE  Bounded'
<1> DEFINE o == OwnerOf[h]
<1>0. MaxReaders \in Nat /\ MaxRefs \in Nat /\ MaxWriters \in Nat
  BY BoundAssumption
<1>1. /\ o \in Owners /\ reader' = reader /\ ~(Cardinality(LiveWriters) >= MaxWriters)
      /\ SweptWriters \in [Owners -> Writers \cup {NoWriter}]
      /\ \A p \in Owners : SweptWriters[p] = IF Live(p) THEN writer[p] ELSE NoWriter
  <2>1. Cardinality(LiveWriters) < MaxWriters
    BY DEF Enqueue, MayEnqueue
  <2>2. IsFiniteSet(LiveWriters)
    <3>1. LiveWriters \subseteq Queue
      BY LiveWritersFacts DEF LiveWriters, Queue, IInv
    <3> QED BY <3>1, FS_Subset DEF Bounded, AtMost
  <2>3. Cardinality(LiveWriters) \in Nat
    BY <2>2, FS_CardinalityType
  <2> QED BY <1>0, <2>1, <2>3, OwnerFacts, SweptFacts DEF Enqueue, IInv
<1>2. /\ writer'[o].seq = nextSequence
      /\ \A p \in Owners : p # o => writer'[p] = SweptWriters[p]
  BY <1>1 DEF Enqueue
<1>3. LiveWriters \subseteq Queue /\ Queue' \subseteq LiveWriters \cup {o}
  BY <1>1, <1>2, LiveWritersFacts DEF LiveWriters, Queue, IInv
<1>4. IsFiniteSet(LiveWriters)
  BY <1>3, FS_Subset DEF Bounded, AtMost
<1>5. AtMost(MaxWriters, Queue')
  BY <1>0, <1>1, <1>3, <1>4, AtMostAdd
<1>6. \A p \in Owners : writer[p] # NoWriter => writer[p].seq < nextSequence /\ writer[p].seq \in Nat
  BY DEF IInv, WritersIssued, TypeOK, Writers
<1>7. nextSequence \in Nat
  BY DEF IInv, TypeOK
<1>8. DistinctSequences'
  <2> SUFFICES ASSUME NEW p \in Owners, NEW q \in Owners, p # q, writer'[p] # NoWriter,
                      writer'[q] # NoWriter
               PROVE  writer'[p].seq # writer'[q].seq
    BY DEF DistinctSequences
  <2>1. \A u \in {p, q} : u # o => writer'[u] = writer[u] /\ writer[u] # NoWriter
    BY <1>1, <1>2
  <2>2. CASE p # o /\ q # o
    BY <2>1, <2>2 DEF Bounded, DistinctSequences
  <2>3. CASE p = o \/ q = o
    BY <1>2, <1>6, <1>7, <2>1, <2>3
  <2> QED BY <2>2, <2>3
<1>9. References' /\ \A d \in Dimensions : AtMost(MaxReaders, Directory(d))'
  BY <1>1 DEF Bounded, References, AtMost, Directory, Registered
<1> QED BY <1>5, <1>8, <1>9 DEF Bounded, AtMost, Queue, Registered

\* A registration takes a slot of a dimension it has just found below its bound, and a
\* reference of a record that has room.
LEMMA PublishBounded ==
  ASSUME IInv, Bounded, NEW h \in Handles, NEW dims \in SUBSET Scope(req[h]), NEW label,
         Register(h, dims, label) \/ Inherit(h, dims, label)
  PROVE  Bounded'
<1> DEFINE o == OwnerOf[h]
<1>0. MaxReaders \in Nat /\ MaxRefs \in Nat \ {0} /\ MaxWriters \in Nat
  BY BoundAssumption
<1>1. /\ writer' = SweptWriters /\ dims \subseteq Dimensions /\ o \in Owners
      /\ \A d \in Vacant(h) : ~Full(d)
      /\ \A d \in Scope(req[h]) \ Vacant(h) : ~(Cardinality(reader[d][o].refs) >= MaxRefs)
  BY PublicationShape, OwnerFacts
<1>2. PICK scanned, seq : /\ seq \in Nat /\ Vacant(h) \subseteq scanned
                          /\ reader' = Published(SweptReaders(scanned), h, dims, seq)
  BY PublicationShape
<1> DEFINE R == SweptReaders(scanned)
<1>3. /\ R \in [Dimensions -> [Owners -> Readers \cup {NoReader}]]
      /\ \A d \in Dimensions : \A p \in Owners :
            R[d][p] = IF d \in scanned /\ ~Live(p) THEN NoReader ELSE reader[d][p]
  BY SweptFacts DEF IInv
<1> HIDE DEF R
<1>4. ASSUME NEW d \in Dimensions, NEW p \in Owners
      PROVE  LET found == IF R[d][p] = NoReader THEN {} ELSE R[d][p].refs
             IN  IF d \in dims /\ p = o THEN reader'[d][p].refs = found \cup {h}
                 ELSE reader'[d][p] = R[d][p]
  <2>1. reader' = Published(R, h, dims, seq) /\ seq \in Nat
    BY <1>2 DEF R
  <2> QED BY <1>3, <2>1, PublishedRefs
<1>5. \A p \in Owners : writer'[p] # NoWriter => writer[p] # NoWriter /\ writer'[p] = writer[p]
  BY <1>1, SweptFacts DEF IInv
<1>6. DistinctSequences'
  BY <1>5 DEF Bounded, DistinctSequences
<1>7. AtMost(MaxWriters, Queue')
  <2>1. Queue' \subseteq Queue
    BY <1>5 DEF Queue
  <2> QED BY <1>0, <2>1, AtMostSubset DEF Bounded
<1>8. ASSUME NEW d \in Dimensions PROVE AtMost(MaxReaders, Directory(d)')
  <2>1. \A p \in Owners : reader'[d][p] # NoReader =>
           (d \in dims /\ p = o) \/ (Registered(p, d) /\ (d \in scanned => Live(p)))
    BY <1>3, <1>4 DEF Registered
  <2>2. CASE d \in dims /\ d \in Vacant(h)
    <3>1. Directory(d)' \subseteq LiveReaders(d) \cup {o} /\ LiveReaders(d) \subseteq Directory(d)
      BY <1>2, <2>1, <2>2 DEF Directory, LiveReaders, Registered
    <3>2. IsFiniteSet(LiveReaders(d))
      BY <3>1, FS_Subset DEF Bounded, AtMost
    <3>3. ~(Cardinality(LiveReaders(d)) >= MaxReaders)
      BY <1>1, <2>2 DEF Full
    <3> QED BY <1>0, <3>1, <3>2, <3>3, AtMostAdd
  <2>3. CASE ~(d \in dims /\ d \in Vacant(h))
    <3>1. d \in dims => Registered(o, d)
      BY <2>3 DEF Vacant
    <3>2. Directory(d)' \subseteq Directory(d)
      BY <2>1, <3>1 DEF Directory, Registered
    <3> QED BY <1>0, <3>2, AtMostSubset DEF Bounded
  <2> QED BY <2>2, <2>3
<1>9. ASSUME NEW d \in Dimensions, NEW p \in Owners, reader'[d][p] # NoReader
      PROVE  AtMost(MaxRefs, reader'[d][p].refs) /\ reader'[d][p].refs # {}
  <2>1. R[d][p] # NoReader => R[d][p] = reader[d][p] /\ Registered(p, d)
    BY <1>3 DEF Registered
  <2>2. Registered(p, d) => AtMost(MaxRefs, reader[d][p].refs) /\ reader[d][p].refs # {}
    BY DEF Bounded, References
  <2>3. CASE ~(d \in dims /\ p = o)
    BY <1>4, <1>9, <2>1, <2>2, <2>3
  <2>4. CASE d \in dims /\ p = o /\ R[d][p] # NoReader
    <3>1. d \in Scope(req[h]) \ Vacant(h)
      BY <2>1, <2>4 DEF Vacant
    <3>2. IsFiniteSet(reader[d][p].refs) /\ ~(Cardinality(reader[d][p].refs) >= MaxRefs)
      BY <1>1, <2>1, <2>2, <2>4, <3>1 DEF AtMost
    <3>3. reader'[d][p].refs = reader[d][p].refs \cup {h}
      BY <1>4, <2>1, <2>4
    <3> QED BY <1>0, <3>2, <3>3, AtMostAdd
  <2>5. CASE d \in dims /\ p = o /\ R[d][p] = NoReader
    <3>1. reader'[d][p].refs = {} \cup {h}
      BY <1>4, <2>5
    <3>2. IsFiniteSet({}) /\ ~(Cardinality({}) >= MaxRefs)
      BY <1>0, FS_EmptySet
    <3> QED BY <1>0, <3>1, <3>2, AtMostAdd
  <2> QED BY <2>3, <2>4, <2>5
<1>10. References'
  BY <1>9 DEF References, AtMost, Registered
<1> QED BY <1>6, <1>7, <1>8, <1>10 DEF Bounded, AtMost, Queue, Directory, Registered

\* The store starts empty.
LEMMA InitBounded == Init => Bounded
<1> SUFFICES ASSUME Init PROVE Bounded
  OBVIOUS
<1>1. Queue = {} /\ \A d \in Dimensions : Directory(d) = {}
  BY DEF Init, Queue, Directory, Registered
<1>2. IsFiniteSet({}) /\ Cardinality({}) = 0
  BY FS_EmptySet
<1>3. AtMost(MaxWriters, Queue) /\ \A d \in Dimensions : AtMost(MaxReaders, Directory(d))
  BY <1>1, <1>2, BoundAssumption DEF AtMost
<1>4. DistinctSequences /\ References
  BY DEF Init, DistinctSequences, References, Registered
<1> QED BY <1>3, <1>4 DEF Bounded

\* Every step keeps the store within its bounds.
LEMMA StepBounded == IInv /\ Bounded /\ [Next]_vars => Bounded'
<1> SUFFICES ASSUME IInv, Bounded, [Next]_vars PROVE Bounded'
  OBVIOUS
<1>0. ASSUME UNCHANGED <<writer, reader>> PROVE Bounded'
  BY <1>0, ShrinkBounded DEF Registered
<1>1. CASE UNCHANGED vars
  BY <1>0, <1>1 DEF vars
<1>2. ASSUME NEW p \in Processes, Crash(p) PROVE Bounded'
  BY <1>0, <1>2 DEF Crash, files
<1>3. ASSUME NEW h \in Handles, Step(h) PROVE Bounded'
  <2>1. CASE Begin(h)
    BY <1>0, <2>1 DEF Begin, files
  <2>2. CASE \/ RegisterRefused(h) \/ RegisterRejected(h) \/ RegisterBarred(h)
             \/ RegisterExhausted(h) \/ InheritDenied(h) \/ InheritExhausted(h) \/ WaitEnds(h)
             \/ EnqueueRefused(h) \/ EnqueueRejected(h) \/ ProgressRefused(h) \/ QueueEnds(h)
             \/ RetryRefused(h) \/ ReleaseFails(h)
    <3>1. Sweep(h)
      BY <2>2, SweepingActions
    <3>2. /\ \A o \in Owners : writer'[o] # NoWriter => writer'[o] = writer[o]
          /\ \A d \in Dimensions : \A o \in Owners :
                reader'[d][o] # NoReader => reader'[d][o] = reader[d][o]
      BY <3>1, SweptFacts DEF Sweep, IInv
    <3> QED BY <3>2, ShrinkBounded DEF Registered
  <2>3. CASE RegisterGranted(h) \/ RegisterFails(h)
    <3>1. \E dims \in SUBSET Scope(req[h]), label \in {"held", "cleanup", "retrying"} :
             Register(h, dims, label)
      BY <2>3 DEF RegisterGranted, RegisterFails
    <3> QED BY <3>1, PublishBounded
  <2>4. CASE InheritGranted(h) \/ InheritFails(h)
    <3>1. \E dims \in SUBSET Scope(req[h]), label \in {"held", "cleanup", "retrying"} :
             Inherit(h, dims, label)
      BY <2>4 DEF InheritGranted, InheritFails
    <3> QED BY <3>1, PublishBounded
  <2>5. CASE Enqueued(h) \/ EnqueueFails(h)
    BY <2>5, EnqueueBounded DEF Enqueued, EnqueueFails
  <2>6. CASE \/ ProgressWaits(h) \/ ProgressAcquired(h) \/ ProgressFails(h) \/ ProgressTimesOut(h)
    <3>1. /\ OwnerOf[h] \in Owners /\ writer[OwnerOf[h]] # NoWriter /\ writer[OwnerOf[h]] \in Writers
          /\ Live(OwnerOf[h])
      BY <2>6, OwnerFacts DEF ProgressWaits, ProgressAcquired, ProgressFails, ProgressTimesOut,
                              MayProgress, LiveCalls, IInv, TypeOK
    <3>2. \/ writer' = [SweptWriters EXCEPT ![OwnerOf[h]] = NoWriter]
          \/ writer' = [SweptWriters EXCEPT ![OwnerOf[h]].phase = "intent"]
          \/ writer' = SweptWriters
      BY <2>6 DEF ProgressWaits, ProgressAcquired, ProgressFails, ProgressTimesOut, Progressed
    <3>3. ASSUME NEW o \in Owners, writer'[o] # NoWriter
          PROVE  writer[o] # NoWriter /\ writer'[o].seq = writer[o].seq
      <4>1. /\ SweptWriters \in [Owners -> Writers \cup {NoWriter}]
            /\ SweptWriters[o] \in {writer[o], NoWriter}
            /\ SweptWriters[OwnerOf[h]] = writer[OwnerOf[h]]
        BY <3>1, SweptFacts DEF IInv
      <4>2. CASE o = OwnerOf[h]
        BY <3>1, <3>2, <3>3, <4>1, <4>2 DEF Writers
      <4>3. CASE o # OwnerOf[h]
        BY <3>2, <3>3, <4>1, <4>3
      <4> QED BY <4>2, <4>3
    <3>4. \E scanned : reader' = SweptReaders(scanned)
      BY <2>6 DEF ProgressWaits, ProgressAcquired, ProgressFails, ProgressTimesOut, Progressed
    <3>5. \A d \in Dimensions : \A o \in Owners :
             reader'[d][o] # NoReader => reader'[d][o] = reader[d][o]
      BY <3>4, SweptFacts DEF IInv
    <3> QED BY <3>3, <3>5, ShrinkBounded DEF Registered
  <2>7. CASE LeaveShared(h) \/ LeaveHalf(h)
    <3>1. PICK dims : reader' = Removed(h, dims) /\ writer' = writer
      BY <2>7 DEF LeaveShared, LeaveHalf
    <3>2. \A d \in Dimensions : \A o \in Owners : reader'[d][o] # NoReader =>
             /\ Registered(o, d) /\ reader'[d][o].refs \subseteq reader[d][o].refs
             /\ reader'[d][o].refs # {} \/ reader'[d][o].refs = reader[d][o].refs
      BY <3>1, RemovedRefs DEF IInv
    <3> QED BY <3>1, <3>2, ShrinkBounded
  <2>8. CASE LeaveWriter(h)
    <3>1. \A o \in Owners : writer'[o] # NoWriter => writer'[o] = writer[o]
      BY <2>8, SweptFacts DEF LeaveWriter, IInv
    <3>2. reader' = reader
      BY <2>8 DEF LeaveWriter
    <3> QED BY <3>1, <3>2, ShrinkBounded DEF Registered
  <2>9. CASE Recover(h)
    BY <1>0, <2>9 DEF Recover, MutateJournal, DiscardJournal, MutateReceipt, DiscardReceipt
  <2> QED BY <1>3, <2>1, <2>2, <2>3, <2>4, <2>5, <2>6, <2>7, <2>8, <2>9
          DEF Step, AcquireShared, AcquireWriter, Leave
<1> QED BY <1>1, <1>2, <1>3 DEF Next

\* A bounded store is accepted by its parser.
LEMMA BoundedReadable == IInv /\ Bounded => StoreReadable
<1> SUFFICES ASSUME IInv, Bounded PROVE StoreReadable
  OBVIOUS
<1>1. \A o \in Owners : writer[o] # NoWriter => writer[o].seq < nextSequence
  BY DEF IInv, WritersIssued
<1>2. \A o, p \in Owners : o # p /\ writer[o] # NoWriter /\ writer[p] # NoWriter
                           => writer[o].seq # writer[p].seq
  BY DEF Bounded, DistinctSequences
<1>3. Cardinality({o \in Owners : writer[o] # NoWriter}) <= MaxWriters
  BY DEF Bounded, AtMost, Queue
<1>4. ASSUME NEW d \in Dimensions
      PROVE  /\ Cardinality({o \in Owners : Registered(o, d)}) <= MaxReaders
             /\ \A o \in {p \in Owners : Registered(p, d)} : Cardinality(reader[d][o].refs) \in 1..MaxRefs
  <2>1. Cardinality({o \in Owners : Registered(o, d)}) <= MaxReaders
    BY DEF Bounded, AtMost, Directory
  <2>2. ASSUME NEW o \in Owners, Registered(o, d) PROVE Cardinality(reader[d][o].refs) \in 1..MaxRefs
    <3>1. AtMost(MaxRefs, reader[d][o].refs) /\ reader[d][o].refs # {}
      BY <2>2 DEF Bounded, References
    <3>2. Cardinality(reader[d][o].refs) \in Nat /\ Cardinality(reader[d][o].refs) # 0
      BY <3>1, FS_CardinalityType, FS_EmptySet DEF AtMost
    <3> QED BY <3>1, <3>2, BoundAssumption DEF AtMost
  <2> QED BY <2>1, <2>2
<1> QED BY <1>1, <1>2, <1>3, <1>4 DEF StoreReadable
-----------------------------------------------------------------------------
(* Nothing passes a waiting writer.                                        *)

\* A new owner that registers is barred by every writer that covers what it wants.
LEMMA RegisterWaits ==
  ASSUME IInv, NEW h \in Handles, NEW dims \in SUBSET Scope(req[h]), NEW label,
         Register(h, dims, label), Unused(OwnerOf[h]),
         NEW d \in Scope(req[h]), NEW p \in LiveWriters, d \in Covers(writer[p])
  PROVE  FALSE
<1>1. /\ MayRegister(h) /\ ~Barred(h) /\ req[h] \in Menu[h] /\ req[h].kind = "shared"
      /\ OwnerOf[h] \in Owners /\ p \in Owners
  BY OwnerFacts DEF Register, MayRegister, Asked, IInv, LiveWriters
<1>2. ~Blocks(writer[p], h) /\ writer[p] # NoWriter /\ writer[p] \in Writers
  BY <1>1, LiveWritersFacts DEF Barred, IInv, TypeOK
<1>3. CASE writer[p].kind = "global"
  <2>1. Anchors(OwnerOf[h]) = {}
    BY DEF Anchors, Unused
  <2> QED BY <1>2, <1>3, <2>1 DEF Blocks
<1>4. CASE writer[p].kind = "project"
  <2>1. d = writer[p].key /\ d \in Keys
    BY <1>1, <1>2, <1>4 DEF Covers, WritersIssued, IInv
  <2>2. d = req[h].key /\ d \in Dimensions
    BY <1>1, <2>1, ScopeFacts, KeyAssumption DEF Dimensions
  <2>3. ~Registered(OwnerOf[h], d)
    BY <2>2 DEF Unused
  <2> QED BY <1>2, <1>4, <2>1, <2>2, <2>3 DEF Blocks
<1> QED BY <1>2, <1>3, <1>4 DEF Writers

\* A child that inherits takes its place behind a parent that precedes those writers.
LEMMA InheritFollows ==
  ASSUME IInv, NEW h \in Handles, MayInherit(h),
         NEW d \in Scope(req[h]), NEW p \in LiveWriters, d \in Covers(writer[p])
  PROVE  /\ ParentSequence(h) < writer[p].seq
         /\ \E q \in LiveReaders(d) : /\ ProcessOf[q] = ParentOf[ProcessOf[OwnerOf[h]]]
                                      /\ reader[d][q].seq < writer[p].seq
<1> DEFINE q == CHOOSE o \in ParentComposite(h) : TRUE
           k == req[h].key
<1>1. q \in ParentComposite(h)
  BY DEF MayInherit
<1>2. /\ q \in Owners /\ q \in ParentReaders(h, k) /\ q \in ParentReaders(h, User)
      /\ reader[k][q].seq = reader[User][q].seq
  BY <1>1 DEF ParentComposite
<1>3. Scope(req[h]) = {k, User} /\ k \in Keys /\ ParentSequence(h) \in Nat
  BY ParentFacts
<1>4. q \in LiveReaders(d) /\ ProcessOf[q] = ParentOf[ProcessOf[OwnerOf[h]]]
  BY <1>2, <1>3 DEF ParentReaders
<1>5. reader[d][q].seq = ParentSequence(h)
  BY <1>2, <1>3 DEF ParentSequence
<1>6. p \in Owners /\ writer[p] # NoWriter /\ writer[p] \in Writers
  BY LiveWritersFacts DEF LiveWriters, IInv, TypeOK
<1>7. k \in Covers(writer[p])
  <2>1. CASE writer[p].kind = "global"
    BY <1>3, <2>1 DEF Covers, Dimensions
  <2>2. CASE writer[p].kind = "project"
    <3>1. d = writer[p].key /\ d \in Keys
      BY <1>6, <2>2 DEF Covers, WritersIssued, IInv
    <3> QED BY <1>3, <2>2, <3>1, KeyAssumption DEF Covers
  <2> QED BY <1>6, <2>1, <2>2 DEF Writers
<1>8. ~(writer[p].seq <= ParentSequence(h))
  BY <1>7 DEF MayInherit, Preceded
<1>9. ParentSequence(h) < writer[p].seq
  BY <1>3, <1>6, <1>8 DEF Writers
<1> QED BY <1>4, <1>5, <1>9

\* An owner that is new in a dimension has registered there, as itself or as a child.
LEMMA NewcomersWait ==
  ASSUME IInv, [Next]_vars, NEW o \in Owners, NEW d \in Dimensions, Unused(o), reader'[d][o] # NoReader,
         NEW p \in LiveWriters, d \in Covers(writer[p])
  PROVE  \E q \in LiveReaders(d) : /\ ProcessOf[q] = ParentOf[ProcessOf[o]]
                                   /\ reader[d][q].seq < writer[p].seq
<1>1. ~Registered(o, d)
  BY DEF Unused
<1>2. ASSUME reader' = reader \/ \E scanned : reader' = SweptReaders(scanned) PROVE FALSE
  BY <1>1, <1>2, SweptFacts DEF Registered, IInv
<1>3. CASE UNCHANGED vars
  BY <1>2, <1>3 DEF vars
<1>4. ASSUME NEW c \in Processes, Crash(c) PROVE FALSE
  BY <1>2, <1>4 DEF Crash, files
<1>5. ASSUME NEW h \in Handles, Step(h)
      PROVE  \E q \in LiveReaders(d) : /\ ProcessOf[q] = ParentOf[ProcessOf[o]]
                                       /\ reader[d][q].seq < writer[p].seq
  <2>1. CASE Begin(h) \/ Recover(h) \/ LeaveWriter(h) \/ Enqueued(h) \/ EnqueueFails(h)
    BY <1>2, <2>1 DEF Begin, files, Recover, MutateJournal, DiscardJournal, MutateReceipt,
                      DiscardReceipt, LeaveWriter, Enqueued, EnqueueFails, Enqueue
  <2>2. CASE \/ RegisterRefused(h) \/ RegisterRejected(h) \/ RegisterBarred(h)
             \/ RegisterExhausted(h) \/ InheritDenied(h) \/ InheritExhausted(h) \/ WaitEnds(h)
             \/ EnqueueRefused(h) \/ EnqueueRejected(h) \/ ProgressRefused(h) \/ QueueEnds(h)
             \/ RetryRefused(h) \/ ReleaseFails(h)
    <3>1. Sweep(h)
      BY <2>2, SweepingActions
    <3> QED BY <1>2, <3>1 DEF Sweep
  <2>3. CASE \/ ProgressWaits(h) \/ ProgressAcquired(h) \/ ProgressFails(h) \/ ProgressTimesOut(h)
    BY <1>2, <2>3 DEF ProgressWaits, ProgressAcquired, ProgressFails, ProgressTimesOut, Progressed
  <2>4. CASE LeaveShared(h) \/ LeaveHalf(h)
    <3>1. \E dims : reader' = Removed(h, dims)
      BY <2>4 DEF LeaveShared, LeaveHalf
    <3> QED BY <1>1, <3>1, RemovedFacts DEF IInv
  <2>5. ASSUME NEW dims \in SUBSET Scope(req[h]), NEW label,
               Register(h, dims, label) \/ Inherit(h, dims, label)
        PROVE  \E q \in LiveReaders(d) : /\ ProcessOf[q] = ParentOf[ProcessOf[o]]
                                         /\ reader[d][q].seq < writer[p].seq
    <3>1. o = OwnerOf[h] /\ d \in Scope(req[h])
      <4>1. PICK scanned, seq : /\ seq \in Nat
                                /\ reader' = Published(SweptReaders(scanned), h, dims, seq)
        BY <2>5, PublicationShape
      <4> DEFINE R == SweptReaders(scanned)
      <4>2. R \in [Dimensions -> [Owners -> Readers \cup {NoReader}]] /\ R[d][o] = NoReader
        BY <1>1, SweptFacts DEF Registered, IInv
      <4>3. reader' = Published(R, h, dims, seq)
        BY <4>1
      <4> HIDE DEF R
      <4>4. ~(d \in dims /\ o = OwnerOf[h]) => reader'[d][o] = R[d][o]
        BY <4>1, <4>2, <4>3, PublishedRefs
      <4> QED BY <4>2, <4>4
    <3>2. CASE Register(h, dims, label)
      BY <3>1, <3>2, RegisterWaits
    <3>3. CASE Inherit(h, dims, label)
      BY <3>1, <3>3, InheritFollows DEF Inherit
    <3> QED BY <2>5, <3>2, <3>3
  <2>6. CASE RegisterGranted(h) \/ RegisterFails(h) \/ InheritGranted(h) \/ InheritFails(h)
    <3>1. \E dims \in SUBSET Scope(req[h]) : \E label :
             Register(h, dims, label) \/ Inherit(h, dims, label)
      BY <2>6 DEF RegisterGranted, RegisterFails, InheritGranted, InheritFails
    <3> QED BY <2>5, <3>1
  <2> QED BY <1>5, <2>1, <2>2, <2>3, <2>4, <2>6 DEF Step, AcquireShared, AcquireWriter, Leave
<1> QED BY <1>3, <1>4, <1>5 DEF Next
-----------------------------------------------------------------------------
(* Nobody waits in a circle, if the callers keep to these rules.           *)

\* An owner names the same project, or none, whenever it asks for a shared lease.
KeepsToProject ==
    \A g, h \in Handles : OwnerOf[g] = OwnerOf[h] =>
       \A r \in Menu[g], s \in Menu[h] :
          r.kind = "shared" /\ s.kind = "shared" => r.key = s.key

\* A command that waits for the ones it spawns reads user state, and those ask to inherit.
ChildrenInherit ==
    \A h \in Supervisors \cap Handles :
       /\ \A r \in Menu[h] : r.kind = "shared" /\ r.user
       /\ \A c \in Handles : ParentOf[ProcessOf[OwnerOf[c]]] = ProcessOf[OwnerOf[h]] =>
             \A r \in Menu[c] : r.inherit

\* Processes spawn no circle of processes, nor one that never ends.
FiniteDescent ==
    \E height \in [Processes -> Nat] :
       \A p \in Processes : ParentOf[p] \in Processes => height[p] < height[ParentOf[p]]

CallersKeepOrder == KeepsToProject /\ ChildrenInherit /\ FiniteDescent

\* The records of an owner have one place in the order of the queue, and every reader a writer
\* covers is before it.
OneSequence(o) ==
    /\ \A d, e \in Dimensions : Registered(o, d) /\ Registered(o, e) =>
          reader[d][o].seq = reader[e][o].seq
    /\ \A d \in Dimensions : Registered(o, d) =>
          /\ reader[d][o].seq < nextSequence
          /\ writer[o] # NoWriter => reader[d][o].seq = writer[o].seq
Precedes(o) ==
    \A d \in Dimensions : \A p \in Owners :
       Registered(o, d) /\ writer[p] # NoWriter /\ Live(p) /\ d \in Covers(writer[p]) =>
          reader[d][o].seq < writer[p].seq
Ordered == \A o \in Owners : Live(o) => OneSequence(o) /\ Precedes(o)

\* A step that keeps the place of every record it leaves.
LEMMA KeepOrdered ==
  ASSUME TypeOK, TypeOK', Ordered, alive' \subseteq alive, nextSequence' >= nextSequence,
         \A o \in Owners : Live(o) /\ writer'[o] # NoWriter =>
            /\ writer[o] # NoWriter /\ writer'[o].seq = writer[o].seq
            /\ writer'[o].kind = writer[o].kind /\ writer'[o].key = writer[o].key,
         \A d \in Dimensions : \A o \in Owners : Live(o) /\ reader'[d][o] # NoReader =>
            Registered(o, d) /\ reader'[d][o].seq = reader[d][o].seq
  PROVE  Ordered'
<1> SUFFICES ASSUME NEW o \in Owners, Live(o)' PROVE OneSequence(o)' /\ Precedes(o)'
  BY DEF Ordered
<1>1. \A p \in Owners : Live(p)' => Live(p)
  BY DEF Live
<1>2. OneSequence(o) /\ Precedes(o) /\ Live(o)
  BY <1>1 DEF Ordered
<1>3. ASSUME NEW d \in Dimensions, reader'[d][o] # NoReader
      PROVE  Registered(o, d) /\ reader'[d][o].seq = reader[d][o].seq /\ reader[d][o].seq \in Nat
  <2>1. Registered(o, d) /\ reader'[d][o].seq = reader[d][o].seq
    BY <1>2, <1>3
  <2> QED BY <2>1 DEF TypeOK, Readers, Registered
<1>4. OneSequence(o)'
  <2>1. nextSequence \in Nat /\ nextSequence' \in Nat
    BY DEF TypeOK
  <2> QED BY <1>2, <1>3, <2>1 DEF OneSequence, Registered
<1>5. Precedes(o)'
  <2> SUFFICES ASSUME NEW d \in Dimensions, NEW p \in Owners, reader'[d][o] # NoReader,
                      writer'[p] # NoWriter, Live(p)', d \in Covers(writer'[p])
               PROVE  reader'[d][o].seq < writer'[p].seq
    BY DEF Precedes, Registered, Covers
  <2>1. /\ writer[p] # NoWriter /\ writer'[p].seq = writer[p].seq /\ Live(p)
        /\ Covers(writer'[p]) = Covers(writer[p])
    BY <1>1 DEF Covers
  <2> QED BY <1>2, <1>3, <2>1 DEF Precedes
<1> QED BY <1>4, <1>5

\* A request that is queued comes after every record.
LEMMA EnqueueOrdered ==
  ASSUME IInv, Ordered, NEW h \in Handles, NEW label, Enqueue(h, label)
  PROVE  Ordered'
<1> DEFINE u == OwnerOf[h]
<1>1. /\ u \in Owners /\ reader' = reader /\ alive' = alive /\ nextSequence' = nextSequence + 1
      /\ nextSequence \in Nat /\ Unused(u)
  BY OwnerFacts DEF Enqueue, MayEnqueue, IInv, TypeOK
<1>2. /\ writer'[u].seq = nextSequence
      /\ \A p \in Owners : p # u => writer'[p] = IF Live(p) THEN writer[p] ELSE NoWriter
  BY <1>1, SweptFacts DEF Enqueue, IInv
<1> SUFFICES ASSUME NEW o \in Owners, Live(o) PROVE OneSequence(o)' /\ Precedes(o)'
  BY <1>1 DEF Ordered, Live
<1>3. OneSequence(o) /\ Precedes(o)
  BY DEF Ordered
<1>4. \A d \in Dimensions : /\ reader'[d][o] # NoReader <=> Registered(o, d)
                            /\ Registered(o, d) => o # u /\ reader[d][o].seq \in Nat
  BY <1>1 DEF Registered, Unused, IInv, TypeOK, Readers
<1>5. OneSequence(o)'
  BY <1>1, <1>2, <1>3, <1>4 DEF OneSequence, Registered
<1>6. Precedes(o)'
  <2> SUFFICES ASSUME NEW d \in Dimensions, NEW p \in Owners, Registered(o, d),
                      writer'[p] # NoWriter, Live(p), d \in Covers(writer'[p])
               PROVE  reader[d][o].seq < writer'[p].seq
    BY <1>1 DEF Precedes, Registered, Live, Covers
  <2>1. CASE p = u
    BY <1>2, <1>3, <2>1 DEF OneSequence
  <2>2. CASE p # u
    BY <1>2, <1>3, <2>2 DEF Precedes
  <2> QED BY <2>1, <2>2
<1> QED BY <1>5, <1>6

\* An owner that is registered is registered where its next request looks for its place.
LEMMA ProjectKept ==
  ASSUME IInv, Owed, Bounded, KeepsToProject, NEW h \in Handles, req[h] \in Menu[h],
         req[h].kind = "shared", Live(OwnerOf[h]), NEW d \in Dimensions, Registered(OwnerOf[h], d)
  PROVE  d = User \/ d = req[h].key
<1>1. OwnerOf[h] \in Owners
  BY OwnerFacts
<1>2. PICK g : g \in reader[d][OwnerOf[h]].refs
  BY <1>1 DEF Bounded, References
<1>3. g \in Handles
  BY <1>1, <1>2 DEF IInv, TypeOK, Readers, Registered
<1>4. pc[g] \in Reading /\ OwnerOf[g] = OwnerOf[h] /\ req[g].kind = "shared" /\ d \in Scope(req[g])
  BY <1>1, <1>2, <1>3, OwnedFacts
<1>5. req[g] \in Menu[g]
  BY <1>3, <1>4 DEF Asked, IInv, Reading
<1>6. req[g].key = req[h].key
  BY <1>3, <1>4, <1>5 DEF KeepsToProject
<1> QED BY <1>3, <1>4, <1>5, <1>6, ScopeFacts

\* The place a registration takes: that of the owner, or the last.
LEMMA SequenceFits ==
  ASSUME IInv, Owed, Bounded, Ordered, KeepsToProject, NEW h \in Handles, req[h] \in Menu[h],
         req[h].kind = "shared", Live(OwnerOf[h])
  PROVE  /\ Sequence(h) \in Nat
         /\ \A d \in Dimensions : Registered(OwnerOf[h], d) => reader[d][OwnerOf[h]].seq = Sequence(h)
         /\ writer[OwnerOf[h]] # NoWriter => writer[OwnerOf[h]].seq = Sequence(h)
         /\ IF Fresh(h) THEN Sequence(h) = nextSequence ELSE Sequence(h) < nextSequence
         /\ Fresh(h) => Unused(OwnerOf[h])
<1> DEFINE o == OwnerOf[h]
<1>1. o \in Owners /\ Sequence(h) \in Nat /\ User \in Dimensions /\ Keys \subseteq Dimensions
  BY OwnerFacts, SequenceNat DEF IInv, Dimensions
<1>2. OneSequence(o)
  BY <1>1 DEF Ordered
<1>3. \A d \in Dimensions : Registered(o, d) => d = User \/ (d = req[h].key /\ d \in Keys)
  BY ProjectKept DEF Dimensions
<1>4. \A d \in Dimensions : Registered(o, d) => reader[d][o].seq = Sequence(h)
  BY <1>1, <1>2, <1>3 DEF OneSequence, Sequence
<1>5. writer[o] # NoWriter => writer[o].seq = Sequence(h) /\ writer[o].seq < nextSequence
  BY <1>1, <1>2 DEF OneSequence, Sequence, IInv, WritersIssued
<1>6. Fresh(h) => Unused(o) /\ Sequence(h) = nextSequence
  BY <1>1, <1>3 DEF Fresh, Unused, Sequence
<1>7. ~Fresh(h) => Sequence(h) < nextSequence
  BY <1>1, <1>2, <1>4, <1>5 DEF Fresh, OneSequence
<1> QED BY <1>1, <1>4, <1>5, <1>6, <1>7

\* A registration takes a place before every writer that covers what it reads.
LEMMA RegisterPrecedes ==
  ASSUME IInv, Owed, Bounded, Ordered, KeepsToProject, NEW h \in Handles,
         MayRegister(h), ~Barred(h), NEW d \in Scope(req[h]), ~Registered(OwnerOf[h], d),
         NEW p \in LiveWriters, d \in Covers(writer[p])
  PROVE  Sequence(h) < writer[p].seq
<1> DEFINE o == OwnerOf[h]
<1>1. /\ pc[h] = "waiting" /\ req[h] \in Menu[h] /\ req[h].kind = "shared" /\ Live(o) /\ o \in Owners
      /\ Scope(req[h]) \subseteq Dimensions
  BY OwnerFacts, ScopeFacts DEF MayRegister, Asked, LiveCalls, IInv
<1>2. /\ p \in Owners /\ Live(p) /\ writer[p] # NoWriter /\ writer[p] \in Writers /\ ~Blocks(writer[p], h)
  BY LiveWritersFacts DEF LiveWriters, Barred, IInv, TypeOK
<1>3. writer[p].kind = "project" => writer[p].key \in Keys /\ d = writer[p].key
  BY <1>2 DEF Covers, WritersIssued, IInv
<1>4. writer[p].kind = "global"
  <2> SUFFICES ASSUME writer[p].kind = "project" PROVE FALSE
    BY <1>2 DEF Writers
  <2>1. d = req[h].key
    BY <1>1, <1>3, ScopeFacts, KeyAssumption
  <2> QED BY <1>2, <1>3, <2>1 DEF Blocks
<1>5. Sequence(h) \in Nat /\ writer[p].seq \in Nat
  BY <1>1, <1>2, SequenceNat DEF Writers, IInv
<1>6. PICK seq \in Anchors(o) : ~(writer[p].seq < seq)
  BY <1>2, <1>4 DEF Blocks
<1>7. CASE \E e \in Dimensions : Registered(o, e) /\ seq = reader[e][o].seq
  <2>1. PICK e \in Dimensions : Registered(o, e) /\ seq = reader[e][o].seq
    BY <1>7
  <2>2. e \in Covers(writer[p])
    BY <1>4 DEF Covers
  <2>3. Precedes(o)
    BY <1>1 DEF Ordered
  <2>4. seq < writer[p].seq
    BY <1>2, <2>1, <2>2, <2>3 DEF Precedes
  <2> QED BY <1>1, <2>1, <2>4, SequenceFits
<1>8. CASE writer[o] # NoWriter /\ seq = writer[o].seq
  <2>1. writer[o].kind = "project"
    BY <1>8 DEF MayRegister, Reenters
  <2>2. writer[o].seq # writer[p].seq
    BY <1>1, <1>2, <1>4, <1>8, <2>1 DEF Bounded, DistinctSequences
  <2>3. Sequence(h) = writer[o].seq
    BY <1>1, <1>8, SequenceFits
  <2> QED BY <1>5, <1>6, <1>8, <2>2, <2>3
<1> QED BY <1>6, <1>7, <1>8 DEF Anchors

\* The place of the records a publication leaves.
LEMMA PublishedPlace ==
  ASSUME TypeOK, NEW h \in Handles, NEW dims, NEW scanned, NEW seq \in Nat,
         NEW d \in Dimensions, NEW o \in Owners, Live(o)
  PROVE  LET record == Published(SweptReaders(scanned), h, dims, seq)[d][o]
         IN  record # NoReader =>
                IF Registered(o, d) THEN record.seq = reader[d][o].seq
                ELSE d \in dims /\ o = OwnerOf[h] /\ record.seq = seq
<1> DEFINE R == SweptReaders(scanned)
<1>1. R[d][o] = reader[d][o] /\ reader[d][o] \in Readers \cup {NoReader}
  BY SweptFacts DEF TypeOK
<1>2. Published(R, h, dims, seq)[d][o]
        = IF d \in dims /\ o = OwnerOf[h]
          THEN IF R[d][o] = NoReader THEN [seq |-> seq, refs |-> {h}]
               ELSE [R[d][o] EXCEPT !.refs = @ \cup {h}]
          ELSE R[d][o]
  BY DEF Published
<1> HIDE DEF R
<1>3. reader[d][o] # NoReader => reader[d][o] \in Readers
  BY <1>1
<1>4. reader[d][o] # NoReader => [reader[d][o] EXCEPT !.refs = @ \cup {h}].seq = reader[d][o].seq
  BY <1>3 DEF Readers
<1> QED BY <1>1, <1>2, <1>4 DEF Registered, R

\* A publication at the place of its owner, before every writer that covers a new record.
LEMMA PublishOrdered ==
  ASSUME IInv, Ordered, NEW h \in Handles, NEW dims, NEW scanned, NEW seq \in Nat,
         writer' = SweptWriters, alive' = alive,
         reader' = Published(SweptReaders(scanned), h, dims, seq),
         nextSequence' \in Nat, nextSequence' >= nextSequence, seq < nextSequence',
         \A d \in Dimensions : Registered(OwnerOf[h], d) => reader[d][OwnerOf[h]].seq = seq,
         writer[OwnerOf[h]] # NoWriter => writer[OwnerOf[h]].seq = seq,
         \A d \in dims : ~Registered(OwnerOf[h], d) =>
            \A p \in LiveWriters : d \in Covers(writer[p]) => seq < writer[p].seq
  PROVE  Ordered'
<1> DEFINE u == OwnerOf[h]
<1>1. \A p \in Owners : Live(p) => writer'[p] = writer[p]
  BY SweptFacts DEF IInv
<1> SUFFICES ASSUME NEW o \in Owners, Live(o) PROVE OneSequence(o)' /\ Precedes(o)'
  BY DEF Ordered, Live
<1>2. OneSequence(o) /\ Precedes(o) /\ nextSequence \in Nat
  BY DEF Ordered, IInv, TypeOK
<1>3. \A d \in Dimensions : reader'[d][o] # NoReader =>
         IF Registered(o, d) THEN reader'[d][o].seq = reader[d][o].seq
         ELSE d \in dims /\ o = u /\ reader'[d][o].seq = seq
  BY PublishedPlace DEF IInv
<1>4. \A d \in Dimensions : reader'[d][o] # NoReader /\ o = u => reader'[d][o].seq = seq
  BY <1>3
<1>5. \A d \in Dimensions : Registered(o, d) => reader[d][o].seq \in Nat
  BY DEF Registered, IInv, TypeOK, Readers
<1>6. OneSequence(o)'
  <2>1. CASE o = u
    BY <1>1, <1>4, <2>1 DEF OneSequence, Registered
  <2>2. CASE o # u
    <3>1. \A d \in Dimensions : reader'[d][o] # NoReader =>
             Registered(o, d) /\ reader'[d][o].seq = reader[d][o].seq
      BY <1>3, <2>2
    <3> QED BY <1>1, <1>2, <1>5, <3>1 DEF OneSequence, Registered
  <2> QED BY <2>1, <2>2
<1>7. Precedes(o)'
  <2> SUFFICES ASSUME NEW d \in Dimensions, NEW p \in Owners, reader'[d][o] # NoReader,
                      writer'[p] # NoWriter, Live(p), d \in Covers(writer'[p])
               PROVE  reader'[d][o].seq < writer'[p].seq
    BY DEF Precedes, Registered, Live, Covers
  <2>1. writer'[p] = writer[p] /\ p \in LiveWriters
    BY <1>1, SweptFacts DEF LiveWriters, IInv
  <2>2. CASE Registered(o, d)
    BY <1>2, <1>3, <2>1, <2>2 DEF Precedes
  <2>3. CASE ~Registered(o, d)
    BY <1>3, <2>1, <2>3
  <2> QED BY <2>2, <2>3
<1> QED BY <1>6, <1>7

\* A registration, granted or failed, keeps the order.
LEMMA RegisterOrdered ==
  ASSUME IInv, Owed, Bounded, Ordered, KeepsToProject, NEW h \in Handles,
         NEW dims \in SUBSET Scope(req[h]), NEW label, Register(h, dims, label)
  PROVE  Ordered'
<1>1. /\ MayRegister(h) /\ ~Barred(h) /\ writer' = SweptWriters /\ alive' = alive
      /\ pc[h] = "waiting" /\ req[h] \in Menu[h] /\ req[h].kind = "shared" /\ Live(OwnerOf[h])
      /\ nextSequence' = IF Fresh(h) THEN nextSequence + 1 ELSE nextSequence
      /\ nextSequence \in Nat
  BY DEF Register, MayRegister, Asked, LiveCalls, IInv, TypeOK
<1>2. PICK scanned : reader' = Published(SweptReaders(scanned), h, dims, Sequence(h))
  BY DEF Register
<1>3. /\ Sequence(h) \in Nat
      /\ \A d \in Dimensions : Registered(OwnerOf[h], d) => reader[d][OwnerOf[h]].seq = Sequence(h)
      /\ writer[OwnerOf[h]] # NoWriter => writer[OwnerOf[h]].seq = Sequence(h)
      /\ IF Fresh(h) THEN Sequence(h) = nextSequence ELSE Sequence(h) < nextSequence
  BY <1>1, SequenceFits
<1>4. nextSequence' \in Nat /\ nextSequence' >= nextSequence /\ Sequence(h) < nextSequence'
  BY <1>1, <1>3
<1>5. \A d \in dims : ~Registered(OwnerOf[h], d) =>
         \A p \in LiveWriters : d \in Covers(writer[p]) => Sequence(h) < writer[p].seq
  BY <1>1, RegisterPrecedes
<1> QED BY <1>1, <1>2, <1>3, <1>4, <1>5, PublishOrdered

\* An inherited registration has the place of a parent that precedes those writers.
LEMMA InheritOrdered ==
  ASSUME IInv, Ordered, NEW h \in Handles, NEW dims \in SUBSET Scope(req[h]), NEW label,
         Inherit(h, dims, label)
  PROVE  Ordered'
<1>1. /\ MayInherit(h) /\ writer' = SweptWriters /\ alive' = alive /\ Unused(OwnerOf[h])
      /\ nextSequence' = nextSequence /\ nextSequence \in Nat
      /\ reader' = Published(SweptReaders(Scope(req[h])), h, dims, ParentSequence(h))
  BY DEF Inherit, MayInherit, IInv, TypeOK
<1>2. ParentSequence(h) \in Nat /\ ParentSequence(h) < nextSequence
  <2> DEFINE q == CHOOSE o \in ParentComposite(h) : TRUE
  <2>1. q \in ParentComposite(h)
    BY <1>1 DEF MayInherit
  <2>2. q \in Owners /\ Live(q) /\ Registered(q, User)
    BY <2>1 DEF ParentComposite, ParentReaders, LiveReaders
  <2>3. OneSequence(q) /\ User \in Dimensions
    BY <2>2 DEF Ordered, Dimensions
  <2> QED BY <1>1, <2>2, <2>3, ParentFacts DEF OneSequence, ParentSequence
<1>3. \A d \in dims : \A p \in LiveWriters : d \in Covers(writer[p]) => ParentSequence(h) < writer[p].seq
  BY <1>1, InheritFollows
<1> QED BY <1>1, <1>2, <1>3, PublishOrdered DEF Unused

\* The queue starts without a record.
LEMMA InitOrdered == Init => Ordered
  BY DEF Init, Ordered, OneSequence, Precedes, Registered

\* A removal keeps the place of the records it leaves.
LEMMA RemovedPlace ==
  ASSUME TypeOK, NEW h \in Handles, NEW dims, NEW d \in Dimensions, NEW o \in Owners,
         Removed(h, dims)[d][o] # NoReader
  PROVE  Registered(o, d) /\ Removed(h, dims)[d][o].seq = reader[d][o].seq
<1>1. Removed(h, dims)[d][o]
        = IF d \in dims /\ o = OwnerOf[h] /\ Registered(o, d)
          THEN IF reader[d][o].refs \subseteq {h} THEN NoReader
               ELSE [reader[d][o] EXCEPT !.refs = @ \ {h}]
          ELSE reader[d][o]
  BY DEF Removed
<1>2. Registered(o, d) /\ reader[d][o] \in Readers
  BY <1>1 DEF Registered, TypeOK
<1> QED BY <1>1, <1>2 DEF Readers

\* Every step keeps the order of the queue.
LEMMA StepOrdered ==
  ASSUME KeepsToProject
  PROVE  IInv /\ IInv' /\ Owed /\ Bounded /\ Ordered /\ [Next]_vars => Ordered'
<1> SUFFICES ASSUME IInv, IInv', Owed, Bounded, Ordered, [Next]_vars PROVE Ordered'
  OBVIOUS
<1> USE DEF IInv
<1>t. TypeOK /\ TypeOK' /\ nextSequence \in Nat
  BY DEF TypeOK
<1>k. ASSUME alive' \subseteq alive, nextSequence' = nextSequence,
             \A o \in Owners : Live(o) /\ writer'[o] # NoWriter =>
                /\ writer[o] # NoWriter /\ writer'[o].seq = writer[o].seq
                /\ writer'[o].kind = writer[o].kind /\ writer'[o].key = writer[o].key,
             \A d \in Dimensions : \A o \in Owners : Live(o) /\ reader'[d][o] # NoReader =>
                Registered(o, d) /\ reader'[d][o].seq = reader[d][o].seq
      PROVE  Ordered'
  BY <1>t, <1>k, KeepOrdered
<1>0. ASSUME UNCHANGED <<writer, reader, nextSequence>>, alive' \subseteq alive PROVE Ordered'
  BY <1>0, <1>k DEF Registered
<1>1. CASE UNCHANGED vars
  BY <1>0, <1>1 DEF vars
<1>2. ASSUME NEW p \in Processes, Crash(p) PROVE Ordered'
  BY <1>0, <1>2 DEF Crash, files
<1>3. ASSUME NEW h \in Handles, Step(h) PROVE Ordered'
  <2>1. CASE Begin(h)
    BY <1>0, <2>1 DEF Begin, files
  <2>2. CASE \/ RegisterRefused(h) \/ RegisterRejected(h) \/ RegisterBarred(h)
             \/ RegisterExhausted(h) \/ InheritDenied(h) \/ InheritExhausted(h) \/ WaitEnds(h)
             \/ EnqueueRefused(h) \/ EnqueueRejected(h) \/ ProgressRefused(h) \/ QueueEnds(h)
             \/ RetryRefused(h) \/ ReleaseFails(h)
    <3>1. Sweep(h)
      BY <2>2, SweepingActions
    <3>2. /\ alive' = alive /\ nextSequence' = nextSequence
          /\ \A o \in Owners : writer'[o] # NoWriter => writer'[o] = writer[o]
          /\ \A d \in Dimensions : \A o \in Owners :
                reader'[d][o] # NoReader => reader'[d][o] = reader[d][o]
      BY <3>1, SweptFacts DEF Sweep
    <3> QED BY <1>k, <3>2 DEF Registered
  <2>3. CASE RegisterGranted(h) \/ RegisterFails(h)
    <3>1. \E dims \in SUBSET Scope(req[h]) : \E label : Register(h, dims, label)
      BY <2>3 DEF RegisterGranted, RegisterFails
    <3> QED BY <3>1, RegisterOrdered
  <2>4. CASE InheritGranted(h) \/ InheritFails(h)
    <3>1. \E dims \in SUBSET Scope(req[h]) : \E label : Inherit(h, dims, label)
      BY <2>4 DEF InheritGranted, InheritFails
    <3> QED BY <3>1, InheritOrdered
  <2>5. CASE Enqueued(h) \/ EnqueueFails(h)
    BY <2>5, EnqueueOrdered DEF Enqueued, EnqueueFails
  <2>6. CASE \/ ProgressWaits(h) \/ ProgressAcquired(h) \/ ProgressFails(h) \/ ProgressTimesOut(h)
    <3>1. /\ OwnerOf[h] \in Owners /\ writer[OwnerOf[h]] # NoWriter /\ writer[OwnerOf[h]] \in Writers
          /\ Live(OwnerOf[h]) /\ alive' = alive /\ nextSequence' = nextSequence
      BY <2>6, OwnerFacts DEF ProgressWaits, ProgressAcquired, ProgressFails, ProgressTimesOut,
                              MayProgress, LiveCalls, TypeOK
    <3>2. \/ writer' = [SweptWriters EXCEPT ![OwnerOf[h]] = NoWriter]
          \/ writer' = [SweptWriters EXCEPT ![OwnerOf[h]].phase = "intent"]
          \/ writer' = SweptWriters
      BY <2>6 DEF ProgressWaits, ProgressAcquired, ProgressFails, ProgressTimesOut, Progressed
    <3>3. ASSUME NEW o \in Owners, writer'[o] # NoWriter
          PROVE  /\ writer[o] # NoWriter /\ writer'[o].seq = writer[o].seq
                 /\ writer'[o].kind = writer[o].kind /\ writer'[o].key = writer[o].key
      <4>1. /\ SweptWriters \in [Owners -> Writers \cup {NoWriter}]
            /\ SweptWriters[o] \in {writer[o], NoWriter}
            /\ SweptWriters[OwnerOf[h]] = writer[OwnerOf[h]]
        BY <3>1, SweptFacts
      <4>2. CASE o = OwnerOf[h]
        BY <3>1, <3>2, <3>3, <4>1, <4>2 DEF Writers
      <4>3. CASE o # OwnerOf[h]
        BY <3>2, <3>3, <4>1, <4>3
      <4> QED BY <4>2, <4>3
    <3>4. \E scanned : reader' = SweptReaders(scanned)
      BY <2>6 DEF ProgressWaits, ProgressAcquired, ProgressFails, ProgressTimesOut, Progressed
    <3>5. \A d \in Dimensions : \A o \in Owners :
             reader'[d][o] # NoReader => reader'[d][o] = reader[d][o]
      BY <3>4, SweptFacts
    <3> QED BY <1>k, <3>1, <3>3, <3>5 DEF Registered
  <2>7. CASE LeaveShared(h) \/ LeaveHalf(h)
    <3>1. PICK dims : reader' = Removed(h, dims) /\ UNCHANGED <<writer, alive, nextSequence>>
      BY <2>7 DEF LeaveShared, LeaveHalf
    <3>2. \A d \in Dimensions : \A o \in Owners : reader'[d][o] # NoReader =>
             Registered(o, d) /\ reader'[d][o].seq = reader[d][o].seq
      BY <3>1, RemovedPlace
    <3> QED BY <1>k, <3>1, <3>2
  <2>8. CASE LeaveWriter(h)
    <3>1. \A o \in Owners : writer'[o] # NoWriter => writer'[o] = writer[o]
      BY <2>8, SweptFacts DEF LeaveWriter
    <3>2. UNCHANGED <<reader, alive, nextSequence>>
      BY <2>8 DEF LeaveWriter
    <3> QED BY <1>k, <3>1, <3>2 DEF Registered
  <2>9. CASE Recover(h)
    BY <1>0, <2>9 DEF Recover, MutateJournal, DiscardJournal, MutateReceipt, DiscardReceipt
  <2> QED BY <1>3, <2>1, <2>2, <2>3, <2>4, <2>5, <2>6, <2>7, <2>8, <2>9
          DEF Step, AcquireShared, AcquireWriter, Leave
<1> QED BY <1>1, <1>2, <1>3 DEF Next

\* An owner that is registered takes the place it has wherever it registers.
LEMMA AddedAtAnchor ==
  ASSUME IInv, Owed, Bounded, Ordered, KeepsToProject, [Next]_vars, NEW o \in Owners,
         NEW d \in Dimensions, Anchors(o) # {}, ~Registered(o, d), reader'[d][o] # NoReader
  PROVE  reader'[d][o].seq \in Anchors(o)
<1>1. ASSUME reader' = reader \/ \E scanned : reader' = SweptReaders(scanned) PROVE FALSE
  BY <1>1, SweptFacts DEF Registered, IInv
<1>2. CASE UNCHANGED vars
  BY <1>1, <1>2 DEF vars
<1>3. ASSUME NEW c \in Processes, Crash(c) PROVE FALSE
  BY <1>1, <1>3 DEF Crash, files
<1>4. ASSUME NEW h \in Handles, Step(h) PROVE reader'[d][o].seq \in Anchors(o)
  <2>1. CASE Begin(h) \/ Recover(h) \/ LeaveWriter(h) \/ Enqueued(h) \/ EnqueueFails(h)
    BY <1>1, <2>1 DEF Begin, files, Recover, MutateJournal, DiscardJournal, MutateReceipt,
                      DiscardReceipt, LeaveWriter, Enqueued, EnqueueFails, Enqueue
  <2>2. CASE \/ RegisterRefused(h) \/ RegisterRejected(h) \/ RegisterBarred(h)
             \/ RegisterExhausted(h) \/ InheritDenied(h) \/ InheritExhausted(h) \/ WaitEnds(h)
             \/ EnqueueRefused(h) \/ EnqueueRejected(h) \/ ProgressRefused(h) \/ QueueEnds(h)
             \/ RetryRefused(h) \/ ReleaseFails(h)
    <3>1. Sweep(h)
      BY <2>2, SweepingActions
    <3> QED BY <1>1, <3>1 DEF Sweep
  <2>3. CASE \/ ProgressWaits(h) \/ ProgressAcquired(h) \/ ProgressFails(h) \/ ProgressTimesOut(h)
    BY <1>1, <2>3 DEF ProgressWaits, ProgressAcquired, ProgressFails, ProgressTimesOut, Progressed
  <2>4. CASE LeaveShared(h) \/ LeaveHalf(h)
    <3>1. \E dims : reader' = Removed(h, dims)
      BY <2>4 DEF LeaveShared, LeaveHalf
    <3> QED BY <3>1, RemovedFacts DEF IInv
  <2>5. CASE InheritGranted(h) \/ InheritFails(h) \/ RegisterGranted(h) \/ RegisterFails(h)
    <3>1. PICK dims \in SUBSET Scope(req[h]), label \in {"held", "cleanup", "retrying"} :
             Register(h, dims, label) \/ Inherit(h, dims, label)
      BY <2>5 DEF RegisterGranted, RegisterFails, InheritGranted, InheritFails
    <3>2. o = OwnerOf[h]
      <4>1. PICK scanned, seq : /\ seq \in Nat
                                /\ reader' = Published(SweptReaders(scanned), h, dims, seq)
        BY <3>1, PublicationShape
      <4> DEFINE R == SweptReaders(scanned)
      <4>2. R \in [Dimensions -> [Owners -> Readers \cup {NoReader}]] /\ R[d][o] = NoReader
        BY SweptFacts DEF Registered, IInv
      <4>3. reader' = Published(R, h, dims, seq)
        BY <4>1
      <4> HIDE DEF R
      <4>4. ~(d \in dims /\ o = OwnerOf[h]) => reader'[d][o] = R[d][o]
        BY <4>1, <4>2, <4>3, PublishedRefs
      <4> QED BY <4>2, <4>4
    <3>3. CASE Inherit(h, dims, label)
      <4>1. Unused(o)
        BY <3>2, <3>3 DEF Inherit, MayInherit
      <4> QED BY <4>1 DEF Unused, Anchors
    <3>4. CASE Register(h, dims, label)
      <4>1. pc[h] = "waiting" /\ req[h] \in Menu[h] /\ req[h].kind = "shared" /\ Live(o)
        BY <3>2, <3>4 DEF Register, MayRegister, Asked, LiveCalls, IInv
      <4>2. /\ Sequence(h) \in Nat
            /\ \A e \in Dimensions : Registered(o, e) => reader[e][o].seq = Sequence(h)
            /\ writer[o] # NoWriter => writer[o].seq = Sequence(h)
        BY <3>2, <4>1, SequenceFits
      <4>3. Sequence(h) \in Anchors(o)
        BY <4>2 DEF Anchors
      <4>4. PICK scanned : reader' = Published(SweptReaders(scanned), h, dims, Sequence(h))
        BY <3>4 DEF Register
      <4>5. reader'[d][o].seq = Sequence(h)
        BY <4>1, <4>2, <4>4, PublishedPlace DEF IInv
      <4> QED BY <4>3, <4>5
    <3> QED BY <3>1, <3>3, <3>4
  <2> QED BY <1>4, <2>1, <2>2, <2>3, <2>4, <2>5 DEF Step, AcquireShared, AcquireWriter, Leave
<1> QED BY <1>2, <1>3, <1>4 DEF Next

\* The least of some numbers.
LEMMA Least ==
  ASSUME NEW T \in SUBSET Nat, T # {}
  PROVE  \E x \in T : \A y \in T : x <= y
<1> DEFINE R == {ss \in Nat \X Nat : ss[1] < ss[2]}
<1>1. IsWellFoundedOn(R, Nat)
  BY NatLessThanWellFounded DEF OpToRel
<1>2. \A x, y \in Nat : y < x => <<y, x>> \in R
  OBVIOUS
<1> HIDE DEF R
<1>3. PICK x \in T : \A y \in T : ~(<<y, x>> \in R)
  BY <1>1, WFMin
<1>4. ASSUME NEW y \in T PROVE x <= y
  <2>1. x \in Nat /\ y \in Nat
    OBVIOUS
  <2>2. ~(y < x)
    BY <1>2, <1>3, <2>1
  <2> QED BY <2>1, <2>2
<1> QED BY <1>4

\* What WaitsFor says of the queue and of the readers a writer drains, and what it says of the
\* calls of children.
Reads(p, d) == p \in LiveReaders(d) /\ \E g \in reader[d][p].refs : pc[g] = "held"
Writes(p) == p \in LiveWriters /\ pc[writer[p].by] \in {"queued", "held"}
WaitsInQueue(o, p) ==
    \E h \in Handles : OwnerOf[h] = o /\
       \/ /\ MayRegister(h)
          /\ (Writes(p) /\ Blocks(writer[p], h)) \/ (writer[o] # NoWriter /\ Reads(p, writer[o].key))
       \/ /\ MayProgress(h)
          /\ \/ /\ p # o /\ Writes(p) /\ Covers(writer[p]) \cap Covers(writer[o]) # {}
                /\ writer[p].seq < writer[o].seq \/ writer[p].phase = "intent"
             \/ \E d \in Covers(writer[o]) : Reads(p, d)
WaitsForChild(o, p) ==
    \E h \in Handles : /\ OwnerOf[h] = o /\ pc[h] = "held" /\ h \in Supervisors
                       /\ ParentOf[ProcessOf[p]] = ProcessOf[o]

LEMMA WaitsSplit ==
  ASSUME NEW o, NEW p, WaitsFor(o, p)
  PROVE  WaitsInQueue(o, p) \/ WaitsForChild(o, p)
  BY DEF WaitsFor, WaitsInQueue, WaitsForChild, Reads, Writes

Quiet(o) == \A p \in Owners : ~WaitsInQueue(o, p)

\* An owner that holds a reader and queues no writer has its place already: it passes every
\* writer that may wait for it.
LEMMA ReaderQuiet ==
  ASSUME IInv, Owed, Ordered, KeepsToProject, NEW p \in Owners, NEW d \in Dimensions,
         Reads(p, d), writer[p] = NoWriter
  PROVE  Quiet(p)
<1> SUFFICES ASSUME NEW q \in Owners, WaitsInQueue(p, q) PROVE FALSE
  BY DEF Quiet
<1>1. Live(p) /\ Registered(p, d) /\ OneSequence(p) /\ Precedes(p)
  BY DEF Reads, LiveReaders, Ordered
<1>2. PICK g \in reader[d][p].refs : pc[g] = "held"
  BY DEF Reads
<1>3. g \in Handles
  BY <1>1, <1>2 DEF IInv, TypeOK, Readers, Registered
<1>4. OwnerOf[g] = p /\ req[g].kind = "shared" /\ req[g] \in Menu[g]
  BY <1>1, <1>2, <1>3, OwnedFacts DEF Asked, IInv
<1>5. \A e \in Scope(req[g]) : Registered(p, e)
  BY <1>2, <1>3, <1>4 DEF OwnReader, Inscribed, IInv
<1>6. PICK h \in Handles : /\ OwnerOf[h] = p /\ MayRegister(h)
                           /\ Writes(q) /\ Blocks(writer[q], h)
  BY DEF WaitsInQueue, MayProgress
<1>7. pc[h] = "waiting" /\ req[h] \in Menu[h] /\ req[h].kind = "shared"
  BY <1>6 DEF MayRegister, Asked, IInv
<1>8. req[h].key = req[g].key
  BY <1>3, <1>4, <1>6, <1>7 DEF KeepsToProject
<1>9. q \in LiveWriters /\ writer[q] # NoWriter /\ writer[q] \in Writers /\ Live(q)
  BY <1>6, LiveWritersFacts DEF Writes, IInv, TypeOK
<1>10. \A e \in Dimensions : Registered(p, e) => reader[e][p].seq \in Nat
  BY DEF Registered, IInv, TypeOK, Readers
<1>11. \A e \in Dimensions : Registered(p, e) /\ e \in Covers(writer[q]) =>
          ~(writer[q].seq < reader[e][p].seq)
  BY <1>1, <1>9, <1>10 DEF Precedes, Writers
<1>12. CASE writer[q].kind = "project"
  <2>1. writer[q].key = req[h].key /\ writer[q].key \in Keys
    BY <1>6, <1>9, <1>12 DEF Blocks, WritersIssued, IInv
  <2>2. writer[q].key \in Dimensions /\ writer[q].key \in Covers(writer[q])
    BY <1>12, <2>1 DEF Dimensions, Covers
  <2>3. Registered(p, writer[q].key)
    BY <1>3, <1>4, <1>5, <1>8, <2>1, <2>2, ScopeFacts
  <2>4. writer[q].seq < reader[writer[q].key][p].seq
    BY <1>6, <1>12, <2>1, <2>3 DEF Blocks
  <2> QED BY <1>11, <2>2, <2>3, <2>4
<1>13. CASE writer[q].kind = "global"
  <2>1. reader[d][p].seq \in Anchors(p)
    BY <1>1 DEF Anchors
  <2>2. writer[q].seq < reader[d][p].seq
    BY <1>6, <1>13, <2>1 DEF Blocks
  <2>3. d \in Covers(writer[q])
    BY <1>13 DEF Covers
  <2> QED BY <1>1, <1>11, <2>2, <2>3
<1> QED BY <1>9, <1>12, <1>13 DEF Writers

\* A child of a command that waits for it inherits, and so waits for nobody in the queue.
LEMMA ChildQuiet ==
  ASSUME IInv, ChildrenInherit, NEW o \in Owners, NEW p \in Owners, WaitsForChild(o, p)
  PROVE  Quiet(p)
<1> SUFFICES ASSUME NEW q \in Owners, WaitsInQueue(p, q) PROVE FALSE
  BY DEF Quiet
<1>1. PICK h \in Handles : /\ OwnerOf[h] = o /\ pc[h] = "held" /\ h \in Supervisors
                           /\ ParentOf[ProcessOf[p]] = ProcessOf[o]
  BY DEF WaitsForChild
<1>2. req[h] \in Menu[h] /\ Live(o)
  BY <1>1 DEF Asked, LiveCalls, IInv
<1>3. req[h].kind = "shared" /\ req[h].user
  BY <1>1, <1>2 DEF ChildrenInherit
<1>4. User \in Dimensions /\ User \in Scope(req[h])
  BY <1>2, <1>3, ScopeFacts DEF Dimensions
<1>5. o \in LiveReaders(User)
  BY <1>1, <1>2, <1>3, <1>4 DEF OwnReader, Inscribed, IInv, LiveReaders
<1>6. PICK c \in Handles : OwnerOf[c] = p /\ (MayRegister(c) \/ MayProgress(c))
  BY DEF WaitsInQueue
<1>7. req[c] \in Menu[c]
  BY <1>6 DEF MayRegister, MayProgress, Asked, IInv
<1>8. req[c].inherit
  BY <1>1, <1>6, <1>7 DEF ChildrenInherit
<1>9. req[c].kind = "shared"
  BY <1>7, <1>8, MenuFacts
<1>10. ~MayProgress(c)
  BY <1>9 DEF MayProgress, Asked, IInv
<1>11. o \in ParentReaders(c, User)
  BY <1>1, <1>5, <1>6 DEF ParentReaders
<1>12. ~Ordinary(c)
  BY <1>8, <1>11 DEF Ordinary
<1> QED BY <1>6, <1>10, <1>12 DEF MayRegister

\* A writer waits for writers ahead of it, or for readers that wait for none.
LEMMA WriterWaits ==
  ASSUME IInv, Owed, Ordered, KeepsToProject, NEW o \in Owners, NEW p \in Owners,
         Live(o), writer[o] # NoWriter, WaitsInQueue(o, p)
  PROVE  Quiet(p) \/ (p \in LiveWriters /\ writer[p].seq < writer[o].seq)
<1>1. /\ writer[o].kind = "project" => writer[o].key \in Keys
      /\ Covers(writer[o]) \subseteq Dimensions
  BY DEF WritersIssued, IInv, Covers, TypeOK, Writers, Dimensions
<1>2. ASSUME NEW d \in Covers(writer[o]), Reads(p, d)
      PROVE  Quiet(p) \/ (p \in LiveWriters /\ writer[p].seq < writer[o].seq)
  <2>1. d \in Dimensions /\ Live(p) /\ Registered(p, d) /\ OneSequence(p) /\ Precedes(p)
    BY <1>1, <1>2 DEF Reads, LiveReaders, Ordered
  <2>2. CASE writer[p] = NoWriter
    BY <1>2, <2>1, <2>2, ReaderQuiet
  <2>3. CASE writer[p] # NoWriter
    <3>1. reader[d][p].seq = writer[p].seq /\ reader[d][p].seq < writer[o].seq
      BY <1>2, <2>1, <2>3 DEF OneSequence, Precedes
    <3>2. p \in LiveWriters
      BY <2>1, <2>3, SweptFacts DEF LiveWriters, IInv
    <3> QED BY <3>1, <3>2
  <2> QED BY <2>2, <2>3
<1>3. PICK h \in Handles : OwnerOf[h] = o /\
         \/ /\ MayRegister(h)
            /\ (Writes(p) /\ Blocks(writer[p], h)) \/ Reads(p, writer[o].key)
         \/ /\ MayProgress(h)
            /\ \/ /\ p # o /\ Writes(p) /\ Covers(writer[p]) \cap Covers(writer[o]) # {}
                  /\ writer[p].seq < writer[o].seq \/ writer[p].phase = "intent"
               \/ \E d \in Covers(writer[o]) : Reads(p, d)
  BY DEF WaitsInQueue
<1>4. ASSUME Writes(p) PROVE p \in LiveWriters /\ writer[p] # NoWriter /\ writer[p] \in Writers
  BY <1>4, LiveWritersFacts DEF Writes, IInv, TypeOK
<1>5. CASE MayRegister(h)
  <2>1. writer[o].kind = "project" /\ req[h].key = NoKey
    BY <1>3, <1>5 DEF MayRegister, Reenters
  <2>2. CASE Reads(p, writer[o].key)
    BY <1>2, <2>1, <2>2 DEF Covers
  <2>3. CASE Writes(p) /\ Blocks(writer[p], h)
    <3>1. writer[p].kind # "project"
      BY <1>4, <2>1, <2>3, KeyAssumption DEF Blocks, WritersIssued, IInv, Dimensions
    <3>2. writer[p].kind = "global"
      BY <1>4, <2>3, <3>1 DEF Writers
    <3>3. writer[o].seq \in Anchors(o)
      BY DEF Anchors
    <3> QED BY <1>3, <1>4, <2>3, <3>2, <3>3 DEF Blocks
  <2> QED BY <1>3, <1>5, <2>2, <2>3 DEF MayRegister, MayProgress
<1>6. CASE MayProgress(h)
  <2>1. CASE \E d \in Covers(writer[o]) : Reads(p, d)
    BY <1>2, <2>1
  <2>2. CASE /\ p # o /\ Writes(p) /\ Covers(writer[p]) \cap Covers(writer[o]) # {}
             /\ writer[p].seq < writer[o].seq \/ writer[p].phase = "intent"
    <3>1. writer[p].phase = "intent" => writer[o].seq > writer[p].seq
      BY <1>4, <2>2 DEF IntentIsOldest, IInv
    <3>2. writer[p].seq \in Nat /\ writer[o].seq \in Nat
      BY <1>4, <2>2 DEF IInv, TypeOK, Writers
    <3> QED BY <1>4, <2>2, <3>1, <3>2
  <2> QED BY <1>3, <1>6, <2>1, <2>2 DEF MayRegister, MayProgress
<1> QED BY <1>3, <1>5, <1>6

\* Some owner of every set waits for nobody in it: the quiet one of the lowest process, or
\* else the first of the writers.
LEMMA SomeoneGoesOn ==
  ASSUME CallersKeepOrder
  PROVE  IInv /\ Owed /\ Ordered => NoDeadlock
<1> SUFFICES ASSUME IInv, Owed, Ordered, NEW S \in SUBSET Owners, S # {},
                    \A o \in S : \E p \in S : WaitsFor(o, p)
             PROVE  FALSE
  BY DEF NoDeadlock
<1>0. KeepsToProject /\ ChildrenInherit /\ FiniteDescent
  BY DEF CallersKeepOrder
<1>1. ASSUME NEW z \in S, Quiet(z) PROVE FALSE
  <2>1. PICK height \in [Processes -> Nat] :
           \A p \in Processes : ParentOf[p] \in Processes => height[p] < height[ParentOf[p]]
    BY <1>0 DEF FiniteDescent
  <2> DEFINE T == {height[ProcessOf[x]] : x \in {y \in S : Quiet(y)}}
  <2>2. \A x \in Owners : ProcessOf[x] \in Processes
    BY ProcessAssumption
  <2>3. T \in SUBSET Nat /\ T # {}
    BY <1>1, <2>1, <2>2
  <2>4. PICK n \in T : \A m \in T : n <= m
    <3> HIDE DEF T
    <3> QED BY <2>3, Least
  <2>5. PICK x \in S : Quiet(x) /\ n = height[ProcessOf[x]]
    BY <2>4
  <2>6. PICK p \in S : WaitsFor(x, p)
    OBVIOUS
  <2>7. WaitsForChild(x, p)
    BY <2>5, <2>6, WaitsSplit DEF Quiet
  <2>8. Quiet(p)
    BY <1>0, <2>7, ChildQuiet
  <2>9. height[ProcessOf[p]] < height[ProcessOf[x]]
    BY <2>1, <2>2, <2>7 DEF WaitsForChild
  <2>10. height[ProcessOf[x]] <= height[ProcessOf[p]]
    BY <2>4, <2>5, <2>8
  <2> QED BY <2>1, <2>2, <2>9, <2>10
<1>2. ASSUME NEW o \in S PROVE \E p \in S : WaitsInQueue(o, p)
  <2>1. PICK p \in S : WaitsFor(o, p)
    OBVIOUS
  <2>2. ~WaitsForChild(o, p)
    BY <1>0, <1>1, ChildQuiet
  <2> QED BY <2>1, <2>2, WaitsSplit
<1>3. ASSUME NEW o \in S, writer[o] # NoWriter PROVE o \in LiveWriters
  <2>1. PICK h \in Handles : OwnerOf[h] = o /\ (MayRegister(h) \/ MayProgress(h))
    BY <1>2 DEF WaitsInQueue
  <2>2. Live(o)
    BY <2>1 DEF MayRegister, MayProgress, LiveCalls, IInv
  <2> QED BY <1>3, <2>2, SweptFacts DEF LiveWriters, IInv
<1> DEFINE W == {o \in S : o \in LiveWriters}
           T == {writer[o].seq : o \in W}
<1>4. \A o \in W : o \in Owners /\ writer[o] # NoWriter /\ writer[o].seq \in Nat /\ Live(o)
  BY LiveWritersFacts DEF IInv, TypeOK, Writers
<1>5. W # {}
  <2>1. PICK o \in S : TRUE
    OBVIOUS
  <2>2. PICK p \in S : WaitsInQueue(o, p)
    BY <1>2
  <2>3. CASE writer[o] = NoWriter
    BY <2>2, <2>3 DEF WaitsInQueue, MayProgress, Writes
  <2>4. CASE writer[o] # NoWriter
    BY <1>3, <2>4
  <2> QED BY <2>3, <2>4
<1>6. T \in SUBSET Nat /\ T # {}
  BY <1>4, <1>5
<1>7. PICK n \in T : \A m \in T : n <= m
  <2> HIDE DEF T
  <2> QED BY <1>6, Least
<1>8. PICK x \in W : n = writer[x].seq
  BY <1>7
<1>9. PICK p \in S : WaitsInQueue(x, p)
  BY <1>2, <1>8
<1>10. p \in LiveWriters /\ writer[p].seq < writer[x].seq
  BY <1>0, <1>1, <1>4, <1>8, <1>9, WriterWaits
<1>11. p \in W /\ writer[x].seq <= writer[p].seq
  BY <1>7, <1>8, <1>10
<1> QED BY <1>4, <1>8, <1>10, <1>11

-----------------------------------------------------------------------------
\* While a recovery record is open or malformed nobody holds a lease on what it guards,
\* whatever crashes, failed releases and recoveries precede.
THEOREM RecoveryIsIsolated == Spec => []RecoveryIsolated
<1>1. Init => RecoveryIsolated
  BY DEF Init, RecoveryIsolated, Holding
<1> QED BY <1>1, InitIInv, StepIInv, IsolationStep, PTL DEF Spec

\* A recovery record changes only after the readers of what it guards have been drained.
THEOREM RecoveryIsExclusive == Spec => RecoveryExclusive
<1>1. IInv /\ [Next]_vars =>
         [/\ \A k \in Keys : journal'[k] # journal[k] => LiveReaders(k) = {}
          /\ receipt' # receipt => \A d \in Dimensions : LiveReaders(d) = {}]_vars
  BY RecordsChangeAlone
<1> QED BY <1>1, InitIInv, StepIInv, PTL DEF Spec, RecoveryExclusive

\* A call that has returned, whichever way, has left neither a reference nor a request.
THEOREM NothingIsLeaked == Spec => []NoLeak
<1>1. Init => Owed
  BY DEF Init, Owed, OwedRequest, OwedReference, Registered
<1> QED BY <1>1, InitIInv, StepIInv, StepOwed, NothingLeaks, PTL DEF Spec

\* No legal sequence of calls writes a queue, a directory or a record that the next
\* section would refuse to read.
THEOREM StoreStaysReadable == Spec => []StoreReadable
  BY InitIInv, StepIInv, InitBounded, StepBounded, BoundedReadable, PTL DEF Spec

\* Later readers do not pass a waiting writer, except a child that takes its parent's place.
THEOREM WritersAreNotPassed == Spec => NoBarging
<1>1. IInv /\ [Next]_vars =>
         [\A o \in Owners : \A d \in Dimensions :
             Unused(o) /\ reader'[d][o] # NoReader =>
                \A p \in LiveWriters : d \in Covers(writer[p]) =>
                   \E q \in LiveReaders(d) : /\ ProcessOf[q] = ParentOf[ProcessOf[o]]
                                             /\ reader[d][q].seq < writer[p].seq]_vars
  BY NewcomersWait
<1> QED BY <1>1, InitIInv, StepIInv, PTL DEF Spec, NoBarging

\* Whatever its holders hold while they wait, no set of owners waits for one another: as long
\* as an owner names the same project whenever it asks for a shared lease, the commands that
\* wait for children read user state and the children ask to inherit, and processes do not
\* descend from themselves.
THEOREM NoCircularWait ==
  ASSUME CallersKeepOrder
  PROVE  Spec => []NoDeadlock
<1>1. KeepsToProject
  BY DEF CallersKeepOrder
<1>2. Init => Owed
  BY DEF Init, Owed, OwedRequest, OwedReference, Registered
<1>3. IInv /\ IInv' /\ Owed /\ Bounded /\ Ordered /\ [Next]_vars => Ordered'
  BY <1>1, StepOrdered
<1>4. IInv /\ Owed /\ Ordered => NoDeadlock
  BY SomeoneGoesOn
<1> QED BY <1>2, <1>3, <1>4, InitIInv, StepIInv, StepOwed, InitBounded, StepBounded, InitOrdered,
           PTL DEF Spec

\* An owner that names one project in its shared leases keeps its place in the order of the
\* queue when it adds a dimension: later global writers stay behind its new record.
THEOREM PlaceIsKept ==
  ASSUME KeepsToProject
  PROVE  Spec => KeepsPlace
<1>1. Init => Owed
  BY DEF Init, Owed, OwedRequest, OwedReference, Registered
<1>2. IInv /\ IInv' /\ Owed /\ Bounded /\ Ordered /\ [Next]_vars => Ordered'
  BY StepOrdered
<1>3. IInv /\ Owed /\ Bounded /\ Ordered /\ [Next]_vars =>
         [\A o, p \in Owners : \A d \in Dimensions :
             /\ Anchors(o) # {} /\ ~Registered(o, d) /\ reader'[d][o] # NoReader
             /\ writer[p] # NoWriter /\ writer[p].kind = "global"
             /\ \A seq \in Anchors(o) : seq < writer[p].seq
             => reader'[d][o].seq < writer[p].seq]_vars
  BY AddedAtAnchor
<1> QED BY <1>1, <1>2, <1>3, InitIInv, StepIInv, StepOwed, InitBounded, StepBounded, InitOrdered,
           PTL DEF Spec, KeepsPlace
=============================================================================
