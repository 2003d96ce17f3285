---------------------------- MODULE RuntimeLease ----------------------------
(***************************************************************************)
(* The runtime lease of packages/core/src/lib/runtime-lease.ts: shared     *)
(* leases on a project runtime and on user state, exclusive leases on one  *)
(* project, global maintenance leases, and the two recovery records the    *)
(* exclusive leases protect.                                               *)
(*                                                                         *)
(* All state is in files under the coordination directory; every operation *)
(* is one critical section of the coordination mutex and one action here.  *)
(* An owner token belongs to one process and may hold several references   *)
(* (handles) to one reader record per dimension.  Readers and writers take *)
(* sequence numbers: a writer drains the readers of its scope, an owner    *)
(* that is registered already precedes the writers that came after it, and *)
(* a child process may register at the sequence of its parent.             *)
(*                                                                         *)
(* All processes are on one proven host, so a record is stale exactly when *)
(* its process is gone; heartbeats do not matter.                          *)
(***************************************************************************)
EXTENDS Naturals, FiniteSets

CONSTANTS
    Processes, NoProcess,
    ParentOf,      \* [Processes -> Processes or NoProcess]: the direct parent
    Owners,        \* owner tokens
    ProcessOf,     \* [Owners -> Processes]
    Handles,       \* the lease objects (one reference token each) callers use
    OwnerOf,       \* [Handles -> Owners]
    Keys, NoKey,   \* project coordination keys
    User,          \* the user-state dimension
    Ops, NoOp,     \* recovery operation identifiers
    Menu,          \* [Handles -> sets of requests]: what each caller asks for
    NoReader, NoWriter, NoRequest,
    LeftJournals,  \* promotion journals found on disk to begin with
    LeftReceipts,  \* uninstall receipts found on disk to begin with
    MaxReaders,    \* MAX_READERS_PER_DIMENSION
    MaxRefs,       \* MAX_REFERENCES_PER_OWNER
    MaxWriters,    \* MAX_WRITER_QUEUE
    MaxCalls,      \* bound: calls per handle
    MaxRetried,    \* bound: sequences in use when a call still retries
    MayCrash,      \* processes that may die
    Faulty,        \* handles whose critical sections may fail half way
    Hasty,         \* handles whose calls may time out or be aborted
    Supervisors    \* handles whose holder waits for its child processes' calls

Dimensions == Keys \cup {User}

Postures == {"normal", "init-recovery", "destructive-discard",
             "user-recovery", "receipt-only-discard"}

Requests == [kind : {"shared", "project", "global"}, key : Keys \cup {NoKey},
             user : BOOLEAN, inherit : BOOLEAN,
             posture : Postures, op : Ops \cup {NoOp}]

Headers == [status : {"absent", "open", "closed", "malformed"}, op : Ops \cup {NoOp}]
Absent == [status |-> "absent", op |-> NoOp]
ValidHeaders == [status : {"open", "closed"}, op : Ops]

Readers == [seq : Nat, refs : SUBSET Handles]
Writers == [seq : Nat, kind : {"project", "global"}, key : Keys \cup {NoKey},
            phase : {"queued", "intent"}, by : Handles]

ASSUME ProcessAssumption == /\ ProcessOf \in [Owners -> Processes]
                            /\ ParentOf \in [Processes -> Processes \cup {NoProcess}]
                            /\ OwnerOf \in [Handles -> Owners]
                            /\ NoProcess \notin Processes
ASSUME KeyAssumption == /\ Keys # {} /\ User \notin Keys /\ NoKey \notin Dimensions
                        /\ NoReader \notin Readers /\ NoWriter \notin Writers
                        /\ NoRequest \notin Requests
ASSUME HeaderAssumption == LeftJournals \subseteq Headers /\ LeftReceipts \subseteq Headers
ASSUME BoundAssumption == /\ MaxReaders \in Nat /\ MaxRefs \in Nat \ {0}
                          /\ MaxWriters \in Nat /\ MaxCalls \in Nat
                          /\ MaxRetried \in Nat
\* A request for a shared lease wants a dimension; one that inherits wants both; only a
\* project writer and a project reader name a key.
ASSUME MenuAssumption ==
    /\ Menu \in [Handles -> SUBSET Requests]
    /\ \A h \in Handles : \A r \in Menu[h] :
          /\ r.kind = "shared" => r.user \/ r.key \in Keys
          /\ r.kind = "project" => r.key \in Keys
          /\ r.kind = "global" => r.key = NoKey
          /\ r.inherit => r.kind = "shared" /\ r.user /\ r.key \in Keys

VARIABLES
    nextSequence,  \* LeaseStateFile.nextSequence
    writer,        \* LeaseStateFile.writers: writer[o] is the request of owner o
    reader,        \* reader[d][o]: the record of owner o among the readers of d
    journal,       \* journal[k]: header of the promotion journal of project k
    receipt,       \* header of the user-uninstall receipt
    alive,         \* processes that run
    pc,            \* where each handle's call is
    calls,         \* calls each handle has begun (bound)
    req            \* the request of each handle's call, NoRequest when it makes none

vars == <<nextSequence, writer, reader, journal, receipt, alive, pc, calls, req>>
files == <<nextSequence, writer, reader, journal, receipt>>

\* cleanup: a failed acquisition still to be undone; retrying: the same, and the call goes
\* on once it is undone; releasing: a release that failed and is retried.
Labels == {"idle", "waiting", "enqueue", "queued", "held", "cleanup", "retrying",
           "releasing", "dead"}

TypeOK ==
    /\ nextSequence \in Nat
    /\ writer \in [Owners -> Writers \cup {NoWriter}]
    /\ reader \in [Dimensions -> [Owners -> Readers \cup {NoReader}]]
    /\ journal \in [Keys -> Headers]
    /\ receipt \in Headers
    /\ alive \in SUBSET Processes
    /\ pc \in [Handles -> Labels]
    /\ calls \in [Handles -> Nat]
    /\ req \in [Handles -> Requests \cup {NoRequest}]

Init ==
    /\ nextSequence = 1
    /\ writer = [o \in Owners |-> NoWriter]
    /\ reader = [d \in Dimensions |-> [o \in Owners |-> NoReader]]
    /\ journal \in [Keys -> LeftJournals]
    /\ receipt \in LeftReceipts
    /\ alive = Processes
    /\ pc = [h \in Handles |-> "idle"]
    /\ calls = [h \in Handles |-> 0]
    /\ req = [h \in Handles |-> NoRequest]
-----------------------------------------------------------------------------
Live(o) == ProcessOf[o] \in alive

Go(h, label) == pc' = [pc EXCEPT ![h] = label]

Return(h) == Go(h, "idle") /\ req' = [req EXCEPT ![h] = NoRequest]

\* The dimensions a request reads, or drains of readers.
Scope(r) == CASE r.kind = "global" -> Dimensions
              [] r.kind = "project" -> {r.key}
              [] OTHER -> {d \in Dimensions : d = r.key \/ (d = User /\ r.user)}

\* What a queued writer excludes.
Covers(w) == IF w.kind = "global" THEN Dimensions ELSE {w.key}

Registered(o, d) == reader[d][o] # NoReader

\* Variant: requests of dead processes stay in the queue.
WritersUnswept == writer

\* cleanStaleWriters and cleanAndListReaders: records of dead processes are removed.
SweptWriters == [o \in Owners |-> IF Live(o) THEN writer[o] ELSE NoWriter]

SweptReaders(scanned) ==
    [d \in Dimensions |-> [o \in Owners |->
        IF d \in scanned /\ ~Live(o) THEN NoReader ELSE reader[d][o]]]

LiveReaders(d) == {o \in Owners : Live(o) /\ Registered(o, d)}

LiveWriters == {o \in Owners : SweptWriters[o] # NoWriter}

Full(d) == Cardinality(LiveReaders(d)) >= MaxReaders

\* Handle h is added to the records of its owner in the dimensions given, new records
\* taking the sequence given, on top of the records left by a scan.
Published(records, h, dims, seq) ==
    [d \in Dimensions |-> [o \in Owners |->
        IF d \in dims /\ o = OwnerOf[h]
        THEN IF records[d][o] = NoReader THEN [seq |-> seq, refs |-> {h}]
             ELSE [records[d][o] EXCEPT !.refs = @ \cup {h}]
        ELSE records[d][o]]]

\* Variant: the release of one reference removes the record.
RemovedWhole(h, dims) ==
    [d \in Dimensions |-> [o \in Owners |->
        IF d \in dims /\ o = OwnerOf[h] THEN NoReader ELSE reader[d][o]]]

\* decrementReaderRef: the exact reference is removed, and the record with its last one.
Removed(h, dims) ==
    [d \in Dimensions |-> [o \in Owners |->
        IF d \in dims /\ o = OwnerOf[h] /\ Registered(o, d)
        THEN IF reader[d][o].refs \subseteq {h} THEN NoReader
             ELSE [reader[d][o] EXCEPT !.refs = @ \ {h}]
        ELSE reader[d][o]]]

Blocked(header) == header.status \in {"open", "malformed"}

\* Variant: the uninstall receipt is not consulted.
RecoveryPendingProject(r) == r.key \in Keys /\ Blocked(journal[r.key])

\* assertNormalSharedAccess fails.
RecoveryPending(r) == Blocked(receipt) \/ (r.key \in Keys /\ Blocked(journal[r.key]))

\* assertWriterPosture succeeds.
Admissible(r) ==
    IF r.kind = "project"
    THEN /\ ~Blocked(receipt)
         /\ CASE r.posture = "normal" -> journal[r.key].status = "absent"
              [] r.posture = "init-recovery" ->
                    journal[r.key] \in ValidHeaders /\ journal[r.key].op = r.op
              [] OTHER -> journal[r.key].status # "absent"
    ELSE /\ CASE r.posture = "normal" -> receipt.status = "absent"
              [] r.posture = "user-recovery" ->
                    receipt \in ValidHeaders /\ receipt.op = r.op
              [] OTHER -> receipt.status = "malformed"
         /\ r.posture = "receipt-only-discard"
              \/ \A k \in Keys : journal[k].status = "absent"

-----------------------------------------------------------------------------
\* A caller asks for a lease.
Begin(h) ==
    /\ pc[h] = "idle" /\ ProcessOf[OwnerOf[h]] \in alive
    /\ calls[h] < MaxCalls
    /\ calls' = [calls EXCEPT ![h] = @ + 1]
    /\ \E r \in Menu[h] :
          /\ req' = [req EXCEPT ![h] = r]
          /\ Go(h, IF r.kind = "shared" THEN "waiting" ELSE "enqueue")
    /\ UNCHANGED <<files, alive>>

-----------------------------------------------------------------------------
(* Shared leases: registerSharedDimensions.                                *)

\* The owner's project writer lets it read user state, and nothing else.
Reenters(h) ==
    LET w == writer[OwnerOf[h]]
    IN  /\ w # NoWriter /\ w.kind = "project" /\ w.phase = "intent"
        /\ req[h].key = NoKey /\ req[h].user

\* The owner reads another project.
Elsewhere(h) ==
    LET mine == {k \in Keys : Registered(OwnerOf[h], k)}
    IN  Cardinality(mine) > 1 \/ (req[h].key \in Keys /\ mine \ {req[h].key} # {})

\* The sequences the owner is registered at, as a reader or as a project writer.
Anchors(o) == {reader[d][o].seq : d \in {e \in Dimensions : Registered(o, e)}}
              \cup (IF writer[o] = NoWriter THEN {} ELSE {writer[o].seq})

\* Variant: a writer that has not declared its intent blocks nobody.
BlocksDeclared(w, h) ==
    /\ w.phase = "intent"
    /\ IF w.kind = "global" THEN \A seq \in Anchors(OwnerOf[h]) : w.seq < seq
       ELSE w.key = req[h].key /\ ~Registered(OwnerOf[h], w.key)

\* Variant: a writer that has declared its intent blocks nobody.
BlocksQueued(w, h) ==
    /\ w.phase = "queued"
    /\ IF w.kind = "global" THEN \A seq \in Anchors(OwnerOf[h]) : w.seq < seq
       ELSE w.key = req[h].key /\ ~Registered(OwnerOf[h], w.key)

\* writerBlocksSharedRegistration: a global writer blocks owners that are not
\* registered before it; a project writer blocks owners that do not read the project.
Blocks(w, h) ==
    LET o == OwnerOf[h]
        k == req[h].key
    IN  IF w.kind = "global"
        THEN \A seq \in Anchors(o) : w.seq < seq
        ELSE /\ w.key = k
             /\ Registered(o, k) => w.seq < reader[k][o].seq

Barred(h) == \E o \in LiveWriters : Blocks(writer[o], h)

\* The dimensions the section scans for a free slot, in order.
Vacant(h) == {d \in Scope(req[h]) : ~Registered(OwnerOf[h], d)}
Scanned(h) == IF req[h].key \in Vacant(h) /\ Full(req[h].key)
              THEN {req[h].key} ELSE Vacant(h)

\* Variant: the references of an existing record are not counted.
ExhaustedSlots(h) == \E d \in Vacant(h) : Full(d)

Exhausted(h) ==
    \/ \E d \in Vacant(h) : Full(d)
    \/ \E d \in Scope(req[h]) \ Vacant(h) :
          Cardinality(reader[d][OwnerOf[h]].refs) >= MaxRefs

\* The sequence a new record takes: that of the owner's record for this project, else
\* for user state, else of its writer, else the next one.
Sequence(h) ==
    LET o == OwnerOf[h]
    IN  IF req[h].key \in Keys /\ Registered(o, req[h].key) THEN reader[req[h].key][o].seq
        ELSE IF Registered(o, User) THEN reader[User][o].seq
        ELSE IF writer[o] # NoWriter THEN writer[o].seq
        ELSE nextSequence

Fresh(h) == /\ ~(req[h].key \in Keys /\ Registered(OwnerOf[h], req[h].key))
            /\ ~Registered(OwnerOf[h], User)
            /\ writer[OwnerOf[h]] = NoWriter

\* Live readers of the requested dimensions that the direct parent of h's process holds.
ParentReaders(h, d) == {o \in LiveReaders(d) : ProcessOf[o] = ParentOf[ProcessOf[OwnerOf[h]]]}

\* Variant: a child registers like any other process.
OrdinaryAlways(h) == TRUE

\* registerParentInheritedSharedDimensions goes on with registerSharedDimensions when
\* the parent reads neither dimension.
Ordinary(h) == req[h].inherit => ParentReaders(h, req[h].key) \cup ParentReaders(h, User) = {}

\* A request to inherit has scanned both dimensions before anything else.
Prescanned(h) == IF req[h].inherit THEN Scope(req[h]) ELSE {}

RegisterRefused(h) ==
    /\ pc[h] = "waiting" /\ RecoveryPending(req[h])
    /\ Go(h, "cleanup")
    /\ UNCHANGED <<files, calls, alive, req>>

\* Exclusive leases cannot be nested, and an owner cannot span two projects.
RegisterRejected(h) ==
    /\ pc[h] = "waiting" /\ ~RecoveryPending(req[h]) /\ Ordinary(h)
    /\ IF writer[OwnerOf[h]] = NoWriter THEN Elsewhere(h) ELSE ~Reenters(h)
    /\ writer' = SweptWriters
    /\ reader' = SweptReaders(Prescanned(h))
    /\ Go(h, "cleanup")
    /\ UNCHANGED <<nextSequence, journal, receipt, calls, alive, req>>

\* The section may publish: no recovery is pending and the owner is compatible.
MayRegister(h) ==
    /\ pc[h] = "waiting" /\ ~RecoveryPending(req[h]) /\ Ordinary(h)
    /\ IF writer[OwnerOf[h]] = NoWriter THEN ~Elsewhere(h) ELSE Reenters(h)

\* The owner's writer still drains the readers of its project.
Undrained(h) == LET w == writer[OwnerOf[h]]
                IN  w # NoWriter /\ LiveReaders(w.key) # {}

RegisterBarred(h) ==
    /\ MayRegister(h) /\ (Undrained(h) \/ Barred(h))
    /\ writer' = SweptWriters
    /\ reader' = SweptReaders(IF writer[OwnerOf[h]] = NoWriter THEN Prescanned(h)
                              ELSE {writer[OwnerOf[h]].key})
    /\ UNCHANGED <<nextSequence, journal, receipt, calls, alive, pc, req>>

RegisterExhausted(h) ==
    /\ MayRegister(h) /\ ~Undrained(h) /\ ~Barred(h) /\ Exhausted(h)
    /\ writer' = SweptWriters
    /\ reader' = SweptReaders(Prescanned(h) \cup Scanned(h))
    /\ UNCHANGED <<nextSequence, journal, receipt, calls, alive, pc, req>>

\* The records are written: all of them, or those a failure leaves behind when the
\* rollback fails too (the postcondition of the mutex may fail after all are written).
Register(h, dims, label) ==
    /\ MayRegister(h) /\ ~Undrained(h) /\ ~Barred(h) /\ ~Exhausted(h)
    /\ nextSequence' = IF Fresh(h) THEN nextSequence + 1 ELSE nextSequence
    /\ writer' = SweptWriters
    /\ reader' = Published(SweptReaders(Prescanned(h) \cup Vacant(h)
                              \cup (IF writer[OwnerOf[h]] = NoWriter THEN {}
                                    ELSE {writer[OwnerOf[h]].key})),
                           h, dims, Sequence(h))
    /\ Go(h, label)
    /\ UNCHANGED <<journal, receipt, calls, alive, req>>

RegisterGranted(h) == Register(h, Scope(req[h]), "held")

\* After an error of the store the call ends; after churn in the directories it retries.
RegisterFails(h) ==
    /\ h \in Faulty /\ pc[h] = "waiting"
    /\ \E dims \in SUBSET Scope(req[h]), label \in {"cleanup", "retrying"} :
          /\ label = "retrying" => nextSequence < MaxRetried
          /\ Register(h, dims, label)

-----------------------------------------------------------------------------
(* Inheritance: registerParentInheritedSharedDimensions.                   *)

Inherits(h) == pc[h] = "waiting" /\ ~RecoveryPending(req[h]) /\ ~Ordinary(h)

\* Exactly one owner of the parent reads both dimensions, at one sequence.
ParentComposite(h) ==
    {o \in Owners : /\ ParentReaders(h, req[h].key) = {o}
                    /\ ParentReaders(h, User) = {o}
                    /\ reader[req[h].key][o].seq = reader[User][o].seq}

ParentSequence(h) == reader[User][CHOOSE o \in ParentComposite(h) : TRUE].seq

\* The child's owner token is not in use.
Unused(o) == writer[o] = NoWriter /\ \A d \in Dimensions : ~Registered(o, d)

\* A writer of the project or of all projects precedes the parent.
Preceded(h) == \E o \in LiveWriters : /\ req[h].key \in Covers(writer[o])
                                      /\ writer[o].seq <= ParentSequence(h)

MayInherit(h) == /\ Inherits(h) /\ ParentComposite(h) # {}
                 /\ Unused(OwnerOf[h]) /\ ~Preceded(h)

InheritDenied(h) ==
    /\ Inherits(h) /\ ~MayInherit(h)
    /\ writer' = SweptWriters
    /\ reader' = SweptReaders(Scope(req[h]))
    /\ Go(h, "cleanup")
    /\ UNCHANGED <<nextSequence, journal, receipt, calls, alive, req>>

InheritExhausted(h) ==
    /\ MayInherit(h) /\ \E d \in Scope(req[h]) : Full(d)
    /\ writer' = SweptWriters
    /\ reader' = SweptReaders(Scope(req[h]))
    /\ UNCHANGED <<nextSequence, journal, receipt, calls, alive, pc, req>>

Inherit(h, dims, label) ==
    /\ MayInherit(h) /\ \A d \in Scope(req[h]) : ~Full(d)
    /\ writer' = SweptWriters
    /\ reader' = Published(SweptReaders(Scope(req[h])), h, dims, ParentSequence(h))
    /\ Go(h, label)
    /\ UNCHANGED <<nextSequence, journal, receipt, calls, alive, req>>

InheritGranted(h) == Inherit(h, Scope(req[h]), "held")

InheritFails(h) ==
    /\ h \in Faulty /\ pc[h] = "waiting"
    /\ \E dims \in SUBSET Scope(req[h]), label \in {"cleanup", "retrying"} :
          Inherit(h, dims, label)

\* The deadline passes, or the signal aborts the call, while nothing is registered.
WaitEnds(h) ==
    /\ pc[h] \in {"waiting", "enqueue"} /\ h \in Hasty
    /\ Return(h)
    /\ UNCHANGED <<files, calls, alive>>

-----------------------------------------------------------------------------
(* Exclusive leases: acquireWriter.                                        *)

\* enqueueWriter: refused by the recovery posture, by another use of the owner token,
\* by a shared lease of the owner (no upgrade) or by a full queue.
EnqueueRefused(h) ==
    /\ pc[h] = "enqueue" /\ ~Admissible(req[h])
    /\ Return(h)
    /\ UNCHANGED <<files, calls, alive>>

MayEnqueue(h) == Unused(OwnerOf[h]) /\ Cardinality(LiveWriters) < MaxWriters

EnqueueRejected(h) ==
    /\ pc[h] = "enqueue" /\ Admissible(req[h]) /\ ~MayEnqueue(h)
    /\ writer' = SweptWriters
    /\ Return(h)
    /\ UNCHANGED <<nextSequence, reader, journal, receipt, calls, alive>>

\* A section that fails after the write leaves the request to the cleanup.
Enqueue(h, label) ==
    /\ pc[h] = "enqueue" /\ Admissible(req[h]) /\ MayEnqueue(h)
    /\ nextSequence' = nextSequence + 1
    /\ writer' = [SweptWriters EXCEPT ![OwnerOf[h]] =
                    [seq |-> nextSequence, kind |-> req[h].kind, key |-> req[h].key,
                     phase |-> "queued", by |-> h]]
    /\ Go(h, label)
    /\ UNCHANGED <<reader, journal, receipt, calls, alive, req>>

Enqueued(h) == Enqueue(h, "queued")

EnqueueFails(h) == h \in Faulty /\ Enqueue(h, "cleanup")

\* Variant: the order of the queue is not respected.
EligibleAnyTurn(o) ==
    \A p \in LiveWriters \ {o} :
        Covers(writer[p]) \cap Covers(writer[o]) # {} => writer[p].phase = "queued"

\* projectWriterEligible and globalWriterEligible: no conflicting writer is ahead or
\* has declared its intent.
Eligible(o) ==
    \A p \in LiveWriters \ {o} :
        Covers(writer[p]) \cap Covers(writer[o]) # {}
        => writer[p].phase = "queued" /\ writer[p].seq > writer[o].seq

\* progressWriter: the posture is asserted again, then the request becomes an intent
\* when it is its turn, and an intent drains the readers it covers.
ProgressRefused(h) ==
    /\ pc[h] = "queued" /\ ~Admissible(req[h])
    /\ Go(h, "cleanup")
    /\ UNCHANGED <<files, calls, alive, req>>

\* The section after that check.  Its error "request disappeared" cannot happen here: the
\* record of a live process is never swept (EveryCallSettles would fail on a lost one).
MayProgress(h) == pc[h] = "queued" /\ Admissible(req[h]) /\ writer[OwnerOf[h]] # NoWriter

Declared(h) == writer[OwnerOf[h]].phase = "intent" \/ Eligible(OwnerOf[h])

\* Variant: global maintenance drains the projects only.
DrainedProjects(h) == \A d \in Covers(writer[OwnerOf[h]]) \ {User} : LiveReaders(d) = {}

Drained(h) == \A d \in Covers(writer[OwnerOf[h]]) : LiveReaders(d) = {}

\* The queue a progress section writes, and the scan it makes.
Progressed(h) ==
    /\ writer' = IF Declared(h) THEN [SweptWriters EXCEPT ![OwnerOf[h]].phase = "intent"]
                 ELSE SweptWriters
    /\ reader' = SweptReaders(IF Declared(h) THEN Covers(writer[OwnerOf[h]]) ELSE {})

ProgressWaits(h) ==
    /\ MayProgress(h) /\ ~(Declared(h) /\ Drained(h))
    /\ Progressed(h)
    /\ UNCHANGED <<nextSequence, journal, receipt, calls, alive, pc, req>>

ProgressAcquired(h) ==
    /\ MayProgress(h) /\ Declared(h) /\ Drained(h)
    /\ Progressed(h)
    /\ Go(h, "held")
    /\ UNCHANGED <<nextSequence, journal, receipt, calls, alive, req>>

\* The same section fails after its writes.
ProgressFails(h) ==
    /\ h \in Faulty /\ MayProgress(h)
    /\ Progressed(h)
    /\ Go(h, "cleanup")
    /\ UNCHANGED <<nextSequence, journal, receipt, calls, alive, req>>

\* The deadline has passed in the section: the request is removed there and then.
ProgressTimesOut(h) ==
    /\ h \in Hasty /\ MayProgress(h) /\ ~(Declared(h) /\ Drained(h))
    /\ writer' = [SweptWriters EXCEPT ![OwnerOf[h]] = NoWriter]
    /\ reader' = SweptReaders(IF Declared(h) THEN Covers(writer[OwnerOf[h]]) ELSE {})
    /\ Return(h)
    /\ UNCHANGED <<nextSequence, journal, receipt, calls, alive>>

\* Variant: an aborted call does not undo its request.
QueueAbandoned(h) ==
    /\ pc[h] = "queued" /\ h \in Hasty
    /\ Return(h)
    /\ UNCHANGED <<files, calls, alive>>

\* The signal aborts the call, or the mutex is not acquired before the deadline.
QueueEnds(h) ==
    /\ pc[h] = "queued" /\ h \in Hasty
    /\ Go(h, "cleanup")
    /\ UNCHANGED <<files, calls, alive, req>>

-----------------------------------------------------------------------------
(* Release and cleanup.                                                    *)

\* A supervisor's command has spawned children and waits for their calls to return.
Awaiting(h) == h \in Supervisors
               /\ \E c \in Handles : /\ ParentOf[ProcessOf[OwnerOf[c]]] = ProcessOf[OwnerOf[h]]
                                     /\ pc[c] \notin {"idle", "dead"}

Leaving(h) == \/ pc[h] \in {"cleanup", "retrying", "releasing"}
              \/ pc[h] = "held" /\ ~Awaiting(h)

\* removeSharedRegistrationWhileOwned: both references, or the first one only.
LeaveShared(h) ==
    /\ Leaving(h) /\ req[h].kind = "shared"
    /\ reader' = Removed(h, Scope(req[h]))
    /\ IF pc[h] = "retrying" THEN Go(h, "waiting") /\ UNCHANGED req ELSE Return(h)
    /\ UNCHANGED <<nextSequence, writer, journal, receipt, calls, alive>>

\* Variant: a release that fails half way is not retried.
LeaveHalfOnce(h) ==
    /\ h \in Faulty /\ Leaving(h) /\ req[h].kind = "shared"
    /\ reader' = Removed(h, {req[h].key})
    /\ Return(h)
    /\ UNCHANGED <<nextSequence, writer, journal, receipt, calls, alive>>

LeaveHalf(h) ==
    /\ h \in Faulty /\ Leaving(h) /\ req[h].kind = "shared"
    /\ reader' = Removed(h, {req[h].key})
    /\ Go(h, IF pc[h] = "held" THEN "releasing" ELSE pc[h])
    /\ UNCHANGED <<nextSequence, writer, journal, receipt, calls, alive, req>>

\* The cleanup of a call that wants to retry fails and is deferred: while it is pending
\* its key is taken, and the call fails for want of a reservation.
RetryRefused(h) ==
    /\ h \in Faulty /\ pc[h] = "retrying"
    /\ Go(h, "cleanup")
    /\ UNCHANGED <<files, calls, alive, req>>

\* removeWriterRequest: the exact request, if it is still there.
LeaveWriter(h) ==
    /\ Leaving(h) /\ req[h].kind # "shared"
    /\ writer' = [o \in Owners |->
                    IF o = OwnerOf[h] /\ writer[o] # NoWriter /\ writer[o].by = h
                    THEN NoWriter ELSE SweptWriters[o]]
    /\ Return(h)
    /\ UNCHANGED <<nextSequence, reader, journal, receipt, calls, alive>>

\* Variant: a deferred release is forgotten.
ReleaseForgotten(h) ==
    /\ h \in Faulty /\ pc[h] = "held" /\ ~Awaiting(h)
    /\ Go(h, "released")
    /\ UNCHANGED <<files, calls, alive, req>>

\* The release throws before it changes anything: it is deferred and retried.
ReleaseFails(h) ==
    /\ h \in Faulty /\ pc[h] = "held" /\ ~Awaiting(h)
    /\ Go(h, "releasing")
    /\ UNCHANGED <<files, calls, alive, req>>

-----------------------------------------------------------------------------
(* Recovery records, under the authority of a lease that was acquired.     *)

\* Variant: a queued request already has the authority.
AuthorityQueued(h, kind) ==
    /\ pc[h] \in {"queued", "held", "releasing"} /\ req[h].kind = kind
    /\ writer[OwnerOf[h]] # NoWriter /\ writer[OwnerOf[h]].by = h

\* assertRecoveryMutationAuthority.
Authority(h, kind) ==
    LET w == writer[OwnerOf[h]]
    IN  /\ pc[h] \in {"held", "releasing"} /\ req[h].kind = kind
        /\ w # NoWriter /\ w.by = h /\ w.phase = "intent"

\* A valid header is created or replaces the record, or the record is unlinked.
MutateJournal(h) ==
    /\ Authority(h, "project") /\ req[h].posture # "destructive-discard"
    /\ \E header \in ValidHeaders \cup {Absent} :
          journal' = [journal EXCEPT ![req[h].key] = header]
    /\ UNCHANGED <<nextSequence, writer, reader, receipt, calls, alive, pc, req>>

DiscardJournal(h) ==
    /\ Authority(h, "project") /\ req[h].posture = "destructive-discard"
    /\ journal' = [journal EXCEPT ![req[h].key] = Absent]
    /\ UNCHANGED <<nextSequence, writer, reader, receipt, calls, alive, pc, req>>

MutateReceipt(h) ==
    /\ Authority(h, "global") /\ req[h].posture # "receipt-only-discard"
    /\ receipt' \in ValidHeaders \cup {Absent}
    /\ UNCHANGED <<nextSequence, writer, reader, journal, calls, alive, pc, req>>

DiscardReceipt(h) ==
    /\ Authority(h, "global") /\ req[h].posture = "receipt-only-discard"
    /\ receipt.status = "malformed"
    /\ receipt' = Absent
    /\ UNCHANGED <<nextSequence, writer, reader, journal, calls, alive, pc, req>>

-----------------------------------------------------------------------------
\* A process dies between two sections; what a section had written stays.
Crash(p) ==
    /\ p \in MayCrash /\ p \in alive
    /\ alive' = alive \ {p}
    /\ pc' = [h \in Handles |-> IF ProcessOf[OwnerOf[h]] = p THEN "dead" ELSE pc[h]]
    /\ UNCHANGED <<files, calls, req>>

AcquireShared(h) == RegisterRefused(h) \/ RegisterRejected(h) \/ RegisterBarred(h)
                    \/ RegisterExhausted(h) \/ RegisterGranted(h) \/ RegisterFails(h)
                    \/ InheritDenied(h) \/ InheritExhausted(h) \/ InheritGranted(h)
                    \/ InheritFails(h)

AcquireWriter(h) == EnqueueRefused(h) \/ EnqueueRejected(h) \/ Enqueued(h) \/ EnqueueFails(h)
                    \/ ProgressRefused(h) \/ ProgressWaits(h)
                    \/ ProgressAcquired(h) \/ ProgressFails(h) \/ ProgressTimesOut(h)

Leave(h) == LeaveShared(h) \/ LeaveWriter(h)

Recover(h) == MutateJournal(h) \/ DiscardJournal(h) \/ MutateReceipt(h) \/ DiscardReceipt(h)

Step(h) == Begin(h) \/ AcquireShared(h) \/ AcquireWriter(h) \/ WaitEnds(h) \/ QueueEnds(h)
           \/ Leave(h) \/ LeaveHalf(h) \/ RetryRefused(h) \/ ReleaseFails(h) \/ Recover(h)

Next == (\E h \in Handles : Step(h)) \/ (\E p \in Processes : Crash(p))

Spec == Init /\ [][Next]_vars

\* Acquisition loops poll, failed cleanups and releases are retried, and a caller
\* releases the lease it holds; nothing is assumed of deadlines, faults or crashes.
Fairness == \A h \in Handles : WF_vars(AcquireShared(h)) /\ WF_vars(AcquireWriter(h))
                               /\ WF_vars(Leave(h))
FairSpec == Spec /\ Fairness

-----------------------------------------------------------------------------
Holding(h) == pc[h] = "held"

Conflict(r, s) == (r.kind # "shared" \/ s.kind # "shared") /\ Scope(r) \cap Scope(s) # {}

\* No lease is held against an exclusive lease of its scope: a project writer excludes
\* the readers and writers of the project, global maintenance excludes everything.
WriterExclusion ==
    \A g, h \in Handles : g # h /\ Holding(g) /\ Holding(h) => ~Conflict(req[g], req[h])

\* The records on disk protect every lease that is held: a reader has its reference in
\* each of its dimensions, a writer its declared intent.  No cleanup, rollback, partial
\* release or sweep by another process takes them away.
HeldIsRecorded ==
    \A h \in Handles : Holding(h) =>
        IF req[h].kind = "shared"
        THEN \A d \in Scope(req[h]) : Registered(OwnerOf[h], d)
                                      /\ h \in reader[d][OwnerOf[h]].refs
        ELSE LET w == writer[OwnerOf[h]]
             IN  /\ w # NoWriter /\ w.by = h /\ w.phase = "intent"
                 /\ w.kind = req[h].kind /\ w.key = req[h].key

\* What the leases that are held look like to LeaseTable.
Table == [h \in Handles |->
            IF Holding(h) THEN [exclusive |-> req[h].kind # "shared", scope |-> Scope(req[h])]
            ELSE NoRequest]
Promise == INSTANCE LeaseTable WITH holding <- Table, NoLease <- NoRequest

\* The store of files, queues and records implements the table of leases: whatever a
\* critical section does, callers see one grant that clashes with nothing, or an end.
ImplementsTable == Promise!TableSpec

\* What the next section reads back is accepted: parseLeaseState refuses a queue with
\* duplicate or unissued sequences, and a directory of readers or a record of references
\* beyond its bound is refused too; a refusal would fail every command of the machine.
StoreReadable ==
    /\ \A o, p \in Owners : /\ writer[o] # NoWriter => writer[o].seq < nextSequence
                            /\ o # p /\ writer[o] # NoWriter /\ writer[p] # NoWriter
                               => writer[o].seq # writer[p].seq
    /\ Cardinality({o \in Owners : writer[o] # NoWriter}) <= MaxWriters
    /\ \A d \in Dimensions :
          LET registered == {o \in Owners : Registered(o, d)}
          IN  /\ Cardinality(registered) <= MaxReaders
              /\ \A o \in registered : Cardinality(reader[d][o].refs) \in 1..MaxRefs

\* Writers that conflict are served in the order they queued: an intent is declared only
\* when no writer ahead of it is left, and no second one while it lasts.
IntentIsOldest ==
    \A o, p \in Owners :
       /\ o # p /\ writer[o] # NoWriter /\ writer[p] # NoWriter
       /\ writer[o].phase = "intent" /\ Covers(writer[o]) \cap Covers(writer[p]) # {}
       => writer[p].phase = "queued" /\ writer[p].seq > writer[o].seq

\* Nothing is left on disk by a call that has returned: every reference and every writer
\* of a live process belongs to a call that is under way, held or still being undone.
NoLeak ==
    \A o \in Owners : Live(o) =>
       /\ writer[o] # NoWriter => pc[writer[o].by] \in {"queued", "held", "cleanup", "releasing"}
       /\ \A d \in Dimensions : Registered(o, d) =>
             \A h \in reader[d][o].refs : /\ pc[h] \in {"held", "cleanup", "retrying", "releasing"}
                                          /\ OwnerOf[h] = o /\ d \in Scope(req[h])

\* While a recovery record is open or malformed nobody reads what it guards: an open
\* journal stops the readers of its project, an open receipt everyone but the global
\* writer, and a global writer that may touch project state finds no journal at all.
RecoveryIsolated ==
    \A h \in Handles : Holding(h) =>
       /\ req[h].kind # "global" => ~Blocked(receipt)
       /\ req[h].kind = "shared" /\ req[h].key \in Keys => ~Blocked(journal[req[h].key])
       /\ req[h].kind = "global" /\ req[h].posture # "receipt-only-discard"
          => \A k \in Keys : journal[k].status = "absent"

\* A recovery record changes only while no live process reads what it covers and no
\* other lease clashes with the writer that changes it.
RecoveryExclusive ==
    [][/\ \A k \in Keys : journal'[k] # journal[k] => LiveReaders(k) = {}
       /\ receipt' # receipt => \A d \in Dimensions : LiveReaders(d) = {}]_vars

\* Later readers do not pass a waiting writer: an owner that was not registered at all
\* appears in a dimension only when no live writer covers it, or behind its parent, which
\* is registered there before that writer.
NoBarging ==
    [][\A o \in Owners : \A d \in Dimensions :
          Unused(o) /\ reader'[d][o] # NoReader =>
             \A p \in LiveWriters : d \in Covers(writer[p]) =>
                \E q \in LiveReaders(d) : /\ ProcessOf[q] = ParentOf[ProcessOf[o]]
                                          /\ reader[d][q].seq < writer[p].seq]_vars

\* An owner that is registered adds a missing dimension ahead of a later global writer:
\* its new record is older than every global writer that all its records are older than.
KeepsPlace ==
    [][\A o, p \in Owners : \A d \in Dimensions :
          /\ Anchors(o) # {} /\ ~Registered(o, d) /\ reader'[d][o] # NoReader
          /\ writer[p] # NoWriter /\ writer[p].kind = "global"
          /\ \A seq \in Anchors(o) : seq < writer[p].seq
          => reader'[d][o].seq < writer[p].seq]_vars

\* Owner o cannot go on before p does: a registration waits for a writer or for the
\* readers its own writer drains, a queued writer for the writers ahead of it and, once
\* declared, for the readers it covers, a supervisor for the calls of its children.  What
\* is being undone or released goes without waiting for anyone.
WaitsFor(o, p) ==
    LET reads(d) == p \in LiveReaders(d) /\ \E g \in reader[d][p].refs : pc[g] = "held"
        writes == p \in LiveWriters /\ pc[writer[p].by] \in {"queued", "held"}
    IN  \E h \in Handles : OwnerOf[h] = o /\
           \/ /\ MayRegister(h)
              /\ (writes /\ Blocks(writer[p], h)) \/ (writer[o] # NoWriter /\ reads(writer[o].key))
           \/ /\ MayProgress(h)
              /\ \/ /\ p # o /\ writes /\ Covers(writer[p]) \cap Covers(writer[o]) # {}
                    /\ writer[p].seq < writer[o].seq \/ writer[p].phase = "intent"
                 \/ Declared(h) /\ \E d \in Covers(writer[o]) : reads(d)
           \/ /\ pc[h] = "held" /\ h \in Supervisors /\ Live(p)
              /\ ParentOf[ProcessOf[p]] = ProcessOf[o]
              /\ \E c \in Handles : OwnerOf[c] = p /\ pc[c] \notin {"idle", "dead"}

\* No set of owners waits for one another, whatever they hold while they wait.
NoDeadlock == \A S \in SUBSET Owners :
                 S # {} => \E o \in S : \A p \in S : ~WaitsFor(o, p)

\* Without a deadline, every call is granted, refused or dies with its process.
EveryCallSettles ==
    \A h \in Handles : pc[h] \in {"waiting", "enqueue", "queued"}
                       ~> pc[h] \in {"held", "idle", "dead"}
=============================================================================
