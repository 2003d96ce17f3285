------------------------- MODULE RuntimeLeaseProofs -------------------------
(***************************************************************************)
(* Exclusion of the runtime lease, and the lease table it implements, for  *)
(* any number of processes, owners, handles, projects and calls.           *)
(*                                                                         *)
(* Leases exclude one another through their records.  The inductive        *)
(* invariant ties every held lease to its record (OwnWriter, OwnReader),   *)
(* keeps intents that overlap apart (IntentIsOldest) and says that the     *)
(* readers an acquired writer drained have not come back (Emptied), which  *)
(* is what the tests of a registration are for.                            *)
(***************************************************************************)
EXTENDS RuntimeLease, TLAPS

\* A call that is under way makes a request of its menu, of the kind its stage serves.
Asked ==
    \A h \in Handles :
       /\ pc[h] \notin {"idle", "dead"} => req[h] \in Menu[h]
       /\ pc[h] \in {"waiting", "retrying"} => req[h].kind = "shared"
       /\ pc[h] \in {"enqueue", "queued"} => req[h].kind # "shared"

LiveCalls == \A h \in Handles : pc[h] # "dead" => Live(OwnerOf[h])

\* A writer that was acquired and is not released yet; its release may have failed before.
Acquired(h) == pc[h] \in {"held", "releasing"} /\ req[h].kind # "shared"

\* A writer that is queued or acquired is the one its owner has on record.
Engaged(h) == pc[h] = "queued" \/ Acquired(h)
Backed(h) ==
    Engaged(h) => LET w == writer[OwnerOf[h]]
                  IN  /\ w # NoWriter /\ w.by = h
                      /\ w.kind = req[h].kind /\ w.key = req[h].key
                      /\ pc[h] # "queued" => w.phase = "intent"
OwnWriter == \A h \in Handles : Backed(h)

\* A reader that is held has its reference in every dimension of its request.
Inscribed(h) ==
    pc[h] = "held" /\ req[h].kind = "shared" =>
       \A d \in Scope(req[h]) : Registered(OwnerOf[h], d) /\ h \in reader[d][OwnerOf[h]].refs
OwnReader == \A h \in Handles : Inscribed(h)

WritersIssued ==
    \A o \in Owners : writer[o] # NoWriter =>
       /\ writer[o].seq < nextSequence
       /\ writer[o].kind = "project" => writer[o].key \in Keys

\* The scope of an acquired writer has no live reader.
Cleared(h) == Acquired(h) => \A d \in Scope(req[h]) : LiveReaders(d) = {}
Emptied == \A h \in Handles : Cleared(h)

IInv == TypeOK /\ Asked /\ LiveCalls /\ OwnWriter /\ OwnReader /\ WritersIssued
        /\ IntentIsOldest /\ Emptied

-----------------------------------------------------------------------------
(* The requests and the helpers.                                           *)

\* A request a caller makes names what its kind of lease needs.
LEMMA MenuFacts ==
  ASSUME NEW h \in Handles, NEW r \in Menu[h]
  PROVE  /\ r \in Requests
         /\ r.kind \in {"shared", "project", "global"} /\ r.key \in Keys \cup {NoKey}
         /\ r.kind = "project" => r.key \in Keys
         /\ r.kind = "global" => r.key = NoKey
         /\ r.inherit => r.kind = "shared" /\ r.user /\ r.key \in Keys
<1>1. Menu[h] \subseteq Requests
  BY MenuAssumption
<1>2. r \in Requests
  BY <1>1
<1>3. r.kind \in {"shared", "project", "global"} /\ r.key \in Keys \cup {NoKey}
  BY <1>2 DEF Requests
<1> QED BY <1>2, <1>3, MenuAssumption

\* Every handle belongs to an owner token.
LEMMA OwnerFacts == \A h \in Handles : OwnerOf[h] \in Owners
  BY ProcessAssumption

\* What a request drains is what its record covers.
LEMMA ScopeFacts ==
  ASSUME NEW h \in Handles, NEW r \in Menu[h]
  PROVE  /\ Scope(r) \subseteq Dimensions
         /\ r.kind = "project" => Scope(r) = {r.key}
         /\ r.kind = "global" => Scope(r) = Dimensions
         /\ r.kind = "shared" => Scope(r) = {d \in Dimensions : d = r.key \/ (d = User /\ r.user)}
<1>1. r.kind = "project" => Scope(r) = {r.key} /\ r.key \in Dimensions
  BY MenuFacts DEF Scope, Dimensions
<1>2. r.kind = "global" => Scope(r) = Dimensions
  BY MenuFacts DEF Scope
<1>3. r.kind = "shared" => Scope(r) = {d \in Dimensions : d = r.key \/ (d = User /\ r.user)}
  BY MenuFacts DEF Scope
<1>4. Scope(r) \subseteq Dimensions
  BY <1>1, <1>2, <1>3, MenuFacts
<1> QED BY <1>1, <1>2, <1>3, <1>4

\* A sweep removes the records of dead processes and leaves the others as they are.
LEMMA SweptFacts ==
  ASSUME TypeOK
  PROVE  /\ SweptWriters \in [Owners -> Writers \cup {NoWriter}]
         /\ \A o \in Owners : SweptWriters[o] = IF Live(o) THEN writer[o] ELSE NoWriter
         /\ \A X : /\ SweptReaders(X) \in [Dimensions -> [Owners -> Readers \cup {NoReader}]]
                  /\ \A d \in Dimensions : \A o \in Owners :
                        SweptReaders(X)[d][o] = IF d \in X /\ ~Live(o) THEN NoReader ELSE reader[d][o]
<1>1. SweptWriters \in [Owners -> Writers \cup {NoWriter}]
  BY DEF SweptWriters, TypeOK
<1>2. \A o \in Owners : SweptWriters[o] = IF Live(o) THEN writer[o] ELSE NoWriter
  BY DEF SweptWriters
<1>3. ASSUME NEW X PROVE SweptReaders(X) \in [Dimensions -> [Owners -> Readers \cup {NoReader}]]
  BY DEF SweptReaders, TypeOK
<1>4. ASSUME NEW X, NEW d \in Dimensions, NEW o \in Owners
      PROVE  SweptReaders(X)[d][o] = IF d \in X /\ ~Live(o) THEN NoReader ELSE reader[d][o]
  BY DEF SweptReaders
<1> QED BY <1>1, <1>2, <1>3, <1>4

\* A publication keeps every reference and adds those of one handle.
LEMMA PublishedFacts ==
  ASSUME NEW records \in [Dimensions -> [Owners -> Readers \cup {NoReader}]],
         NEW h \in Handles, NEW dims, NEW seq \in Nat
  PROVE  /\ Published(records, h, dims, seq) \in [Dimensions -> [Owners -> Readers \cup {NoReader}]]
         /\ \A d \in Dimensions : \A o \in Owners :
               /\ ~(d \in dims /\ o = OwnerOf[h]) => Published(records, h, dims, seq)[d][o] = records[d][o]
               /\ d \in dims /\ o = OwnerOf[h] =>
                     /\ Published(records, h, dims, seq)[d][o] # NoReader
                     /\ h \in Published(records, h, dims, seq)[d][o].refs
                     /\ records[d][o] # NoReader =>
                          records[d][o].refs \subseteq Published(records, h, dims, seq)[d][o].refs
<1> DEFINE P == Published(records, h, dims, seq)
<1>1. ASSUME NEW d \in Dimensions, NEW o \in Owners
      PROVE  P[d][o] = IF d \in dims /\ o = OwnerOf[h]
                       THEN IF records[d][o] = NoReader THEN [seq |-> seq, refs |-> {h}]
                            ELSE [records[d][o] EXCEPT !.refs = @ \cup {h}]
                       ELSE records[d][o]
  BY DEF Published
<1>2. ASSUME NEW d \in Dimensions, NEW o \in Owners
      PROVE  /\ P[d][o] \in Readers \cup {NoReader}
             /\ d \in dims /\ o = OwnerOf[h] =>
                   /\ P[d][o] \in Readers /\ h \in P[d][o].refs
                   /\ records[d][o] # NoReader => records[d][o].refs \subseteq P[d][o].refs
  <2>1. records[d][o] \in Readers \cup {NoReader}
    OBVIOUS
  <2>2. CASE d \in dims /\ o = OwnerOf[h] /\ records[d][o] = NoReader
    <3>1. P[d][o] = [seq |-> seq, refs |-> {h}]
      BY <1>1, <2>2
    <3> QED BY <3>1, <2>2 DEF Readers
  <2>3. CASE d \in dims /\ o = OwnerOf[h] /\ records[d][o] # NoReader
    <3>1. P[d][o] = [records[d][o] EXCEPT !.refs = @ \cup {h}]
      BY <1>1, <2>3
    <3>2. records[d][o] \in Readers
      BY <2>1, <2>3
    <3> QED BY <3>1, <3>2, <2>3 DEF Readers
  <2>4. CASE ~(d \in dims /\ o = OwnerOf[h])
    BY <1>1, <2>1, <2>4
  <2> QED BY <2>2, <2>3, <2>4
<1>3. P \in [Dimensions -> [Owners -> Readers \cup {NoReader}]]
  BY <1>2 DEF Published
<1> QED BY <1>1, <1>2, <1>3, KeyAssumption

\* A removal takes one reference away and keeps the others.
LEMMA RemovedFacts ==
  ASSUME TypeOK, NEW h \in Handles, NEW dims
  PROVE  /\ Removed(h, dims) \in [Dimensions -> [Owners -> Readers \cup {NoReader}]]
         /\ \A d \in Dimensions : \A o \in Owners :
               /\ Removed(h, dims)[d][o] # NoReader => Registered(o, d)
               /\ \A g \in Handles : g # h /\ Registered(o, d) /\ g \in reader[d][o].refs =>
                     Removed(h, dims)[d][o] # NoReader /\ g \in Removed(h, dims)[d][o].refs
<1> DEFINE R == Removed(h, dims)
<1>1. ASSUME NEW d \in Dimensions, NEW o \in Owners
      PROVE  /\ R[d][o] \in Readers \cup {NoReader}
             /\ R[d][o] # NoReader => Registered(o, d)
             /\ \A g \in Handles : g # h /\ Registered(o, d) /\ g \in reader[d][o].refs =>
                   R[d][o] # NoReader /\ g \in R[d][o].refs
  <2>1. R[d][o] = IF d \in dims /\ o = OwnerOf[h] /\ Registered(o, d)
                  THEN IF reader[d][o].refs \subseteq {h} THEN NoReader
                       ELSE [reader[d][o] EXCEPT !.refs = @ \ {h}]
                  ELSE reader[d][o]
    BY DEF Removed
  <2>2. reader[d][o] \in Readers \cup {NoReader}
    BY DEF TypeOK
  <2>3. CASE d \in dims /\ o = OwnerOf[h] /\ Registered(o, d) /\ reader[d][o].refs \subseteq {h}
    BY <2>1, <2>3
  <2>4. CASE /\ d \in dims /\ o = OwnerOf[h] /\ Registered(o, d)
             /\ ~(reader[d][o].refs \subseteq {h})
    <3>1. R[d][o] = [reader[d][o] EXCEPT !.refs = @ \ {h}]
      BY <2>1, <2>4
    <3>2. reader[d][o] \in Readers
      BY <2>2, <2>4 DEF Registered
    <3>3. R[d][o] \in Readers /\ R[d][o].refs = reader[d][o].refs \ {h}
      BY <3>1, <3>2 DEF Readers
    <3> QED BY <3>3, <2>4, KeyAssumption
  <2>5. CASE ~(d \in dims /\ o = OwnerOf[h] /\ Registered(o, d))
    BY <2>1, <2>2, <2>5 DEF Registered
  <2> QED BY <2>3, <2>4, <2>5
<1>2. R \in [Dimensions -> [Owners -> Readers \cup {NoReader}]]
  BY <1>1 DEF Removed
<1> QED BY <1>1, <1>2
-----------------------------------------------------------------------------
(* Steps that take nothing but what is over.                               *)

\* A call goes to another stage of its request, or it returns.
LEMMA MoveStep ==
  ASSUME IInv, NEW h \in Handles, NEW label \in Labels \ {"dead"}, Go(h, label),
         alive' = alive, pc[h] \notin {"dead", "idle"},
         \/ label = "idle" /\ req' = [req EXCEPT ![h] = NoRequest]
         \/ /\ req' = req
            /\ label \in {"waiting", "retrying"} => req[h].kind = "shared"
            /\ label \in {"enqueue", "queued"} => req[h].kind # "shared"
  PROVE  /\ Asked' /\ LiveCalls'
         /\ pc' \in [Handles -> Labels] /\ req' \in [Handles -> Requests \cup {NoRequest}]
         /\ pc'[h] = label /\ \A g \in Handles : g # h => pc'[g] = pc[g] /\ req'[g] = req[g]
<1>1. pc \in [Handles -> Labels] /\ req \in [Handles -> Requests \cup {NoRequest}]
  BY DEF IInv, TypeOK
<1>2. pc'[h] = label /\ \A g \in Handles : g # h => pc'[g] = pc[g]
  BY <1>1 DEF Go
<1>3. pc' \in [Handles -> Labels] /\ req' \in [Handles -> Requests \cup {NoRequest}]
  BY <1>1 DEF Go
<1>4. /\ \A g \in Handles : g # h => req'[g] = req[g]
      /\ label = "idle" \/ req'[h] = req[h]
  BY <1>1
<1>5. Asked'
  BY <1>2, <1>4 DEF Asked, IInv
<1>6. LiveCalls'
  BY <1>2 DEF LiveCalls, Live, IInv
<1> QED BY <1>2, <1>3, <1>4, <1>5, <1>6

Keeps(g) ==
    /\ pc'[g] \in {"held", "queued"} => pc'[g] = pc[g] /\ req'[g] = req[g]
    /\ pc'[g] = "releasing" => pc[g] \in {"held", "releasing"} /\ req'[g] = req[g]

\* A writer that is queued or held stays backed while its record is left alone.
LEMMA WriterKept ==
  ASSUME OwnWriter, NEW g \in Handles, Keeps(g),
         Engaged(g)' => writer'[OwnerOf[g]] = writer[OwnerOf[g]]
  PROVE  Backed(g)'
<1>1. Engaged(g)' => Engaged(g) /\ (pc'[g] # "queued" => pc[g] # "queued") /\ req'[g] = req[g]
  BY DEF Engaged, Acquired, Keeps
<1>2. Backed(g)
  BY DEF OwnWriter
<1> QED BY <1>1, <1>2 DEF Backed, Engaged, Acquired

\* A reader that is held stays inscribed while its references are left alone.
LEMMA ReaderKept ==
  ASSUME OwnReader, NEW g \in Handles, Keeps(g),
         pc'[g] = "held" /\ req'[g].kind = "shared" =>
            \A d \in Scope(req[g]) :
               Registered(OwnerOf[g], d) /\ g \in reader[d][OwnerOf[g]].refs
               => Registered(OwnerOf[g], d)' /\ g \in reader'[d][OwnerOf[g]].refs
  PROVE  Inscribed(g)'
<1>1. Inscribed(g)
  BY DEF OwnReader
<1> SUFFICES ASSUME pc'[g] = "held", req'[g].kind = "shared", NEW d \in Scope(req'[g])
             PROVE  Registered(OwnerOf[g], d)' /\ g \in reader'[d][OwnerOf[g]].refs
  BY DEF Inscribed, Scope
<1>2. pc[g] = "held" /\ req'[g] = req[g]
  BY DEF Keeps
<1> QED BY <1>1, <1>2 DEF Inscribed

\* The scope of an acquired writer stays empty while no reader enters it.
LEMMA ClearKept ==
  ASSUME Emptied, NEW g \in Handles, Keeps(g), alive' \subseteq alive,
         Acquired(g)' =>
            \A d \in Scope(req[g]) : \A o \in Owners :
               Live(o) /\ reader'[d][o] # NoReader => Registered(o, d)
  PROVE  Cleared(g)'
<1>1. Cleared(g)
  BY DEF Emptied
<1> SUFFICES ASSUME Acquired(g)', NEW d \in Scope(req'[g])
             PROVE  LiveReaders(d)' = {}
  BY DEF Cleared, Acquired, Scope
<1>2. Acquired(g) /\ req'[g] = req[g]
  BY DEF Acquired, Keeps
<1>3. LiveReaders(d) = {}
  BY <1>1, <1>2 DEF Cleared, Acquired
<1>4. \A o \in Owners : Live(o)' => Live(o)
  BY DEF Live
<1> QED BY <1>2, <1>3, <1>4 DEF LiveReaders, Registered

\* Taking requests off the queue disturbs neither its sequences nor its order.
LEMMA QueueKept ==
  ASSUME IInv, nextSequence' \in Nat, nextSequence' >= nextSequence,
         \A o \in Owners : writer'[o] \in {writer[o], NoWriter}
  PROVE  WritersIssued' /\ IntentIsOldest'
<1>1. \A o \in Owners : writer'[o] # NoWriter => writer[o] # NoWriter /\ writer'[o] = writer[o]
  OBVIOUS
<1>2. nextSequence \in Nat /\ \A o \in Owners : writer[o] # NoWriter => writer[o].seq \in Nat
  BY DEF IInv, TypeOK, Writers
<1>3. WritersIssued'
  BY <1>1, <1>2 DEF WritersIssued, IInv
<1>4. IntentIsOldest'
  BY <1>1 DEF IntentIsOldest, Covers, IInv
<1> QED BY <1>3, <1>4

\* A step that grants and publishes nothing preserves the invariant.
LEMMA ShrinkStep ==
  ASSUME IInv, TypeOK', Asked', LiveCalls', alive' \subseteq alive,
         nextSequence' = nextSequence,
         \A g \in Handles : Keeps(g),
         \A o \in Owners : writer'[o] \in {writer[o], NoWriter},
         \A g \in Handles : Engaged(g)' => writer'[OwnerOf[g]] = writer[OwnerOf[g]],
         \A d \in Dimensions : \A o \in Owners : reader'[d][o] # NoReader => Registered(o, d),
         \A g \in Handles : pc'[g] = "held" =>
            \A d \in Dimensions :
               Registered(OwnerOf[g], d) /\ g \in reader[d][OwnerOf[g]].refs
               => reader'[d][OwnerOf[g]] # NoReader /\ g \in reader'[d][OwnerOf[g]].refs
  PROVE  IInv'
<1>1. OwnWriter'
  BY WriterKept DEF OwnWriter, IInv
<1>2. \A g \in Handles : pc'[g] = "held" \/ Acquired(g)' => Scope(req[g]) \subseteq Dimensions
  BY ScopeFacts DEF Acquired, Keeps, IInv, Asked
<1>3. OwnReader'
  <2> SUFFICES ASSUME NEW g \in Handles PROVE Inscribed(g)'
    BY DEF OwnReader
  <2> QED BY <1>2, ReaderKept DEF IInv, Registered
<1>4. Emptied'
  <2> SUFFICES ASSUME NEW g \in Handles PROVE Cleared(g)'
    BY DEF Emptied
  <2> QED BY <1>2, ClearKept DEF IInv
<1>5. WritersIssued' /\ IntentIsOldest'
  BY QueueKept DEF IInv, TypeOK
<1> QED BY <1>1, <1>3, <1>4, <1>5 DEF IInv
\* Begin only adds a request to the calls.
LEMMA BeginStep ==
  ASSUME IInv, NEW h \in Handles, Begin(h)
  PROVE  IInv'
<1>1. PICK r \in Menu[h] : /\ req' = [req EXCEPT ![h] = r]
                          /\ Go(h, IF r.kind = "shared" THEN "waiting" ELSE "enqueue")
  BY DEF Begin
<1>2. pc[h] = "idle" /\ Live(OwnerOf[h]) /\ UNCHANGED <<nextSequence, writer, reader, alive>>
  BY DEF Begin, Live, files
<1>3. /\ pc'[h] = IF r.kind = "shared" THEN "waiting" ELSE "enqueue"
      /\ req'[h] = r
      /\ \A g \in Handles : g # h => pc'[g] = pc[g] /\ req'[g] = req[g]
  BY <1>1 DEF Go, IInv, TypeOK
<1>4. TypeOK'
  <2>1. r \in Requests
    BY MenuFacts
  <2>2. pc' \in [Handles -> Labels]
    BY <1>1 DEF Go, IInv, TypeOK, Labels
  <2>3. req' \in [Handles -> Requests \cup {NoRequest}]
    BY <1>1, <2>1 DEF IInv, TypeOK
  <2>4. calls' \in [Handles -> Nat]
    BY DEF Begin, IInv, TypeOK
  <2> QED BY <2>2, <2>3, <2>4 DEF Begin, files, IInv, TypeOK
<1>5. Asked'
  BY <1>3 DEF Asked, IInv
<1>6. LiveCalls'
  BY <1>2, <1>3 DEF LiveCalls, Live, IInv
<1>7. \A g \in Handles : Keeps(g)
  BY <1>3 DEF Keeps
<1> QED BY <1>2, <1>4, <1>5, <1>6, <1>7, ShrinkStep DEF Registered

\* What the sections have in common that end or go on without a record of their own: they
\* clean the records of dead processes at most.
Sweep(h) ==
    /\ pc[h] \notin {"idle", "dead"}
    /\ UNCHANGED <<nextSequence, journal, receipt, calls, alive>>
    /\ writer' = writer \/ writer' = SweptWriters
    /\ reader' = reader \/ \E scanned \in SUBSET Dimensions : reader' = SweptReaders(scanned)
    /\ \/ UNCHANGED <<pc, req>>
       \/ (Go(h, "cleanup") \/ (pc[h] = "held" /\ Go(h, "releasing"))) /\ UNCHANGED req
       \/ pc[h] \in {"waiting", "enqueue"} /\ Return(h)

\* A step that only sweeps preserves the invariant.
LEMMA SweepStep ==
  ASSUME IInv, NEW h \in Handles, Sweep(h)
  PROVE  IInv'
<1>1. /\ Asked' /\ LiveCalls'
      /\ pc' \in [Handles -> Labels] /\ req' \in [Handles -> Requests \cup {NoRequest}]
      /\ \A g \in Handles : Keeps(g)
  <2>1. CASE UNCHANGED <<pc, req>>
    BY <2>1 DEF Sweep, Asked, LiveCalls, Live, Keeps, IInv, TypeOK
  <2>2. CASE Go(h, "cleanup") /\ UNCHANGED req
    BY <2>2, MoveStep DEF Sweep, Labels, Keeps
  <2>3. CASE pc[h] = "held" /\ Go(h, "releasing") /\ UNCHANGED req
    BY <2>3, MoveStep DEF Sweep, Labels, Keeps
  <2>4. CASE pc[h] \in {"waiting", "enqueue"} /\ Return(h)
    BY <2>4, MoveStep DEF Sweep, Labels, Keeps, Return
  <2> QED BY <2>1, <2>2, <2>3, <2>4 DEF Sweep
<1>2. /\ writer' \in [Owners -> Writers \cup {NoWriter}]
      /\ \A o \in Owners : writer'[o] = writer[o] \/ (~Live(o) /\ writer'[o] = NoWriter)
  BY SweptFacts DEF Sweep, IInv, TypeOK
<1>3. /\ reader' \in [Dimensions -> [Owners -> Readers \cup {NoReader}]]
      /\ \A d \in Dimensions : \A o \in Owners :
            reader'[d][o] = reader[d][o] \/ (~Live(o) /\ reader'[d][o] = NoReader)
  <2>1. CASE reader' = reader
    BY <2>1 DEF IInv, TypeOK
  <2>2. CASE \E scanned \in SUBSET Dimensions : reader' = SweptReaders(scanned)
    BY <2>2, SweptFacts DEF IInv
  <2> QED BY <2>1, <2>2 DEF Sweep
<1>4. TypeOK'
  BY <1>1, <1>2, <1>3 DEF Sweep, IInv, TypeOK
<1>5. \A g \in Handles : pc'[g] \in {"held", "queued", "releasing"} => Live(OwnerOf[g])
  BY <1>1 DEF Keeps, LiveCalls, IInv
<1>6. \A g \in Handles : Engaged(g)' => writer'[OwnerOf[g]] = writer[OwnerOf[g]]
  BY <1>2, <1>5, OwnerFacts DEF Engaged, Acquired
<1>7. \A g \in Handles : pc'[g] = "held" =>
         \A d \in Dimensions : reader'[d][OwnerOf[g]] = reader[d][OwnerOf[g]]
  BY <1>3, <1>5, OwnerFacts
<1>8. \A d \in Dimensions : \A o \in Owners : reader'[d][o] # NoReader => Registered(o, d)
  BY <1>3 DEF Registered
<1>9. alive' \subseteq alive /\ nextSequence' = nextSequence
  BY DEF Sweep
<1> QED BY <1>1, <1>2, <1>4, <1>6, <1>7, <1>8, <1>9, ShrinkStep DEF Registered

\* The sections that refuse, wait or give up only sweep.
LEMMA SweepingActions ==
  ASSUME IInv, NEW h \in Handles,
         \/ RegisterRefused(h) \/ RegisterRejected(h) \/ RegisterBarred(h) \/ RegisterExhausted(h)
         \/ InheritDenied(h) \/ InheritExhausted(h) \/ WaitEnds(h)
         \/ EnqueueRefused(h) \/ EnqueueRejected(h) \/ ProgressRefused(h) \/ QueueEnds(h)
         \/ RetryRefused(h) \/ ReleaseFails(h)
  PROVE  Sweep(h)
<1> USE DEF Sweep, files
<1>0. pc[h] = "waiting" =>
         /\ Scope(req[h]) \subseteq Dimensions /\ Prescanned(h) \subseteq Dimensions
         /\ Scanned(h) \subseteq Dimensions
  <2> SUFFICES ASSUME pc[h] = "waiting"
               PROVE  /\ Scope(req[h]) \subseteq Dimensions /\ Prescanned(h) \subseteq Dimensions
                      /\ Scanned(h) \subseteq Dimensions
    OBVIOUS
  <2>1. Scope(req[h]) \subseteq Dimensions
    BY ScopeFacts DEF Asked, IInv
  <2>2. Vacant(h) \subseteq Dimensions
    BY <2>1 DEF Vacant
  <2> QED BY <2>1, <2>2 DEF Prescanned, Scanned
<1>1. CASE RegisterRefused(h) BY <1>1 DEF RegisterRefused
<1>2. CASE RegisterRejected(h) BY <1>0, <1>2 DEF RegisterRejected
<1>3. CASE RegisterBarred(h)
  <2>1. pc[h] = "waiting" /\ (writer[OwnerOf[h]] # NoWriter => writer[OwnerOf[h]].key \in Keys)
    BY <1>3, OwnerFacts DEF RegisterBarred, MayRegister, Reenters, WritersIssued, IInv
  <2> QED BY <1>0, <1>3, <2>1 DEF RegisterBarred, Dimensions
<1>4. CASE RegisterExhausted(h) BY <1>0, <1>4 DEF RegisterExhausted, MayRegister
<1>5. CASE InheritDenied(h) BY <1>0, <1>5 DEF InheritDenied, Inherits
<1>6. CASE InheritExhausted(h) BY <1>0, <1>6 DEF InheritExhausted, MayInherit, Inherits
<1>7. CASE WaitEnds(h) BY <1>7 DEF WaitEnds
<1>8. CASE EnqueueRefused(h) BY <1>8 DEF EnqueueRefused
<1>9. CASE EnqueueRejected(h) BY <1>9 DEF EnqueueRejected
<1>10. CASE ProgressRefused(h) BY <1>10 DEF ProgressRefused
<1>11. CASE QueueEnds(h) BY <1>11 DEF QueueEnds
<1>12. CASE RetryRefused(h) BY <1>12 DEF RetryRefused
<1>13. CASE ReleaseFails(h) BY <1>13 DEF ReleaseFails
<1> QED BY <1>1, <1>2, <1>3, <1>4, <1>5, <1>6, <1>7, <1>8, <1>9, <1>10, <1>11, <1>12, <1>13
\* A change of a recovery record leaves the leases alone.
LEMMA RecoverStep ==
  ASSUME IInv, NEW h \in Handles, Recover(h)
  PROVE  IInv'
<1>1. UNCHANGED <<nextSequence, writer, reader, alive, pc, req, calls>>
  BY DEF Recover, MutateJournal, DiscardJournal, MutateReceipt, DiscardReceipt
<1>2. ValidHeaders \cup {Absent} \subseteq Headers
  BY DEF ValidHeaders, Absent, Headers
<1>3. journal' \in [Keys -> Headers] /\ receipt' \in Headers
  <2>1. journal \in [Keys -> Headers] /\ receipt \in Headers
    BY DEF IInv, TypeOK
  <2> QED BY <1>2, <2>1 DEF Recover, MutateJournal, DiscardJournal, MutateReceipt, DiscardReceipt
<1>4. TypeOK'
  BY <1>1, <1>3 DEF IInv, TypeOK
<1>5. Asked' /\ LiveCalls'
  BY <1>1 DEF Asked, LiveCalls, Live, IInv
<1> QED BY <1>1, <1>4, <1>5, ShrinkStep DEF Keeps, Registered

\* The release or rollback of a reader, whole or half, preserves the invariant.
LEMMA LeaveSharedStep ==
  ASSUME IInv, NEW h \in Handles, LeaveShared(h) \/ LeaveHalf(h)
  PROVE  IInv'
<1>1. PICK dims : reader' = Removed(h, dims)
  BY DEF LeaveShared, LeaveHalf
<1>2. UNCHANGED <<nextSequence, writer, alive, journal, receipt, calls>>
  BY DEF LeaveShared, LeaveHalf
<1>3. pc[h] \in {"cleanup", "retrying", "releasing", "held"} /\ req[h].kind = "shared"
  BY DEF LeaveShared, LeaveHalf, Leaving
<1>4. /\ Asked' /\ LiveCalls' /\ pc'[h] \notin {"held", "queued"}
      /\ pc'[h] = "releasing" => pc[h] \in {"held", "releasing"} /\ req'[h] = req[h]
      /\ pc' \in [Handles -> Labels] /\ req' \in [Handles -> Requests \cup {NoRequest}]
      /\ \A g \in Handles : g # h => pc'[g] = pc[g] /\ req'[g] = req[g]
  <2>1. \/ Return(h) \/ (Go(h, "waiting") /\ UNCHANGED req)
        \/ \E label \in {"cleanup", "retrying", "releasing"} :
              /\ Go(h, label) /\ UNCHANGED req
              /\ label = "releasing" => pc[h] \in {"held", "releasing"}
    BY <1>3 DEF LeaveShared, LeaveHalf, Go
  <2>2. CASE Return(h)
    <3>1. "idle" \in Labels \ {"dead"} /\ pc[h] \notin {"dead", "idle"} /\ alive' = alive
      BY <1>2, <1>3 DEF Labels
    <3>2. Go(h, "idle") /\ req' = [req EXCEPT ![h] = NoRequest]
      BY <2>2 DEF Return
    <3> QED BY <3>1, <3>2, MoveStep
  <2>3. CASE Go(h, "waiting") /\ UNCHANGED req
    BY <1>2, <1>3, <2>3, MoveStep DEF Labels
  <2>4. CASE \E label \in {"cleanup", "retrying", "releasing"} :
                /\ Go(h, label) /\ UNCHANGED req
                /\ label = "releasing" => pc[h] \in {"held", "releasing"}
    BY <1>2, <1>3, <2>4, MoveStep DEF Labels
  <2> QED BY <2>1, <2>2, <2>3, <2>4
<1>5. \A g \in Handles : Keeps(g) /\ (pc'[g] = "held" => g # h)
  BY <1>4 DEF Keeps
<1>6. TypeOK'
  BY <1>1, <1>2, <1>4, RemovedFacts DEF IInv, TypeOK
<1>7. \A d \in Dimensions : \A o \in Owners : reader'[d][o] # NoReader => Registered(o, d)
  BY <1>1, RemovedFacts DEF IInv
<1>8. \A g \in Handles : pc'[g] = "held" =>
         \A d \in Dimensions :
            Registered(OwnerOf[g], d) /\ g \in reader[d][OwnerOf[g]].refs
            => reader'[d][OwnerOf[g]] # NoReader /\ g \in reader'[d][OwnerOf[g]].refs
  BY <1>1, <1>5, RemovedFacts, OwnerFacts DEF IInv
<1> QED BY <1>2, <1>4, <1>5, <1>6, <1>7, <1>8, ShrinkStep

\* A request is removed by its own call only.
LEMMA LeaveWriterStep ==
  ASSUME IInv, NEW h \in Handles, LeaveWriter(h)
  PROVE  IInv'
<1>1. /\ UNCHANGED <<nextSequence, reader, alive, journal, receipt, calls>> /\ Return(h)
      /\ pc[h] \notin {"idle", "dead"}
  BY DEF LeaveWriter, Leaving
<1>2. /\ writer' \in [Owners -> Writers \cup {NoWriter}]
      /\ \A o \in Owners : writer'[o] \in {writer[o], NoWriter}
      /\ \A o \in Owners : Live(o) /\ writer[o] # NoWriter /\ writer[o].by # h
                           => writer'[o] = writer[o]
  <2>1. writer' = [o \in Owners |->
                    IF o = OwnerOf[h] /\ writer[o] # NoWriter /\ writer[o].by = h
                    THEN NoWriter ELSE SweptWriters[o]]
    BY DEF LeaveWriter
  <2> QED BY <2>1, SweptFacts DEF IInv
<1>3. /\ Asked' /\ LiveCalls' /\ pc'[h] = "idle"
      /\ pc' \in [Handles -> Labels] /\ req' \in [Handles -> Requests \cup {NoRequest}]
      /\ \A g \in Handles : g # h => pc'[g] = pc[g] /\ req'[g] = req[g]
  BY <1>1, MoveStep DEF Labels, Return
<1>4. TypeOK'
  BY <1>1, <1>2, <1>3 DEF IInv, TypeOK
<1>5. \A g \in Handles : Keeps(g)
  BY <1>3 DEF Keeps
<1>6. ASSUME NEW g \in Handles, Engaged(g)' PROVE writer'[OwnerOf[g]] = writer[OwnerOf[g]]
  <2>1. g # h /\ Engaged(g) /\ pc[g] # "dead"
    BY <1>3, <1>6 DEF Engaged, Acquired
  <2>2. Live(OwnerOf[g]) /\ writer[OwnerOf[g]] # NoWriter /\ writer[OwnerOf[g]].by = g
    BY <2>1 DEF LiveCalls, OwnWriter, Backed, Engaged, Acquired, IInv
  <2> QED BY <1>2, <2>1, <2>2, OwnerFacts
<1> QED BY <1>1, <1>2, <1>3, <1>4, <1>5, <1>6, ShrinkStep DEF Registered

\* A deadline that passes inside the section preserves the invariant.
LEMMA ProgressTimesOutStep ==
  ASSUME IInv, NEW h \in Handles, ProgressTimesOut(h)
  PROVE  IInv'
<1>1. /\ UNCHANGED <<nextSequence, alive, journal, receipt, calls>> /\ Return(h)
      /\ pc[h] = "queued"
  BY DEF ProgressTimesOut, MayProgress
<1>2. /\ writer' \in [Owners -> Writers \cup {NoWriter}]
      /\ \A o \in Owners : writer'[o] \in {writer[o], NoWriter}
      /\ \A o \in Owners : Live(o) /\ o # OwnerOf[h] => writer'[o] = writer[o]
  <2>1. writer' = [SweptWriters EXCEPT ![OwnerOf[h]] = NoWriter]
    BY DEF ProgressTimesOut
  <2> QED BY <2>1, SweptFacts DEF IInv
<1>3. PICK scanned : reader' = SweptReaders(scanned)
  BY DEF ProgressTimesOut
<1>4. /\ Asked' /\ LiveCalls' /\ pc'[h] = "idle"
      /\ pc' \in [Handles -> Labels] /\ req' \in [Handles -> Requests \cup {NoRequest}]
      /\ \A g \in Handles : g # h => pc'[g] = pc[g] /\ req'[g] = req[g]
  BY <1>1, MoveStep DEF Labels, Return
<1>5. TypeOK'
  BY <1>1, <1>2, <1>3, <1>4, SweptFacts DEF IInv, TypeOK
<1>6. \A g \in Handles : Keeps(g)
  BY <1>4 DEF Keeps
<1>7. ASSUME NEW g \in Handles, Engaged(g)' PROVE writer'[OwnerOf[g]] = writer[OwnerOf[g]]
  <2>1. g # h /\ Engaged(g) /\ pc[g] # "dead"
    BY <1>4, <1>7 DEF Engaged, Acquired
  <2>2. Live(OwnerOf[g]) /\ writer[OwnerOf[g]].by = g /\ writer[OwnerOf[h]].by = h
    BY <1>1, <2>1 DEF LiveCalls, OwnWriter, Backed, Engaged, Acquired, IInv
  <2> QED BY <1>2, <2>1, <2>2, OwnerFacts
<1>8. \A d \in Dimensions : \A o \in Owners :
         /\ reader'[d][o] # NoReader => Registered(o, d)
         /\ Live(o) => reader'[d][o] = reader[d][o]
  BY <1>3, SweptFacts DEF Registered, IInv
<1>9. \A g \in Handles : pc'[g] = "held" =>
         \A d \in Dimensions : reader'[d][OwnerOf[g]] = reader[d][OwnerOf[g]]
  BY <1>4, <1>8, OwnerFacts DEF LiveCalls, IInv
<1> QED BY <1>1, <1>2, <1>4, <1>5, <1>6, <1>7, <1>8, <1>9, ShrinkStep DEF Registered

\* The records of the dead stay: the calls of their process are what ends.
LEMMA CrashStep ==
  ASSUME IInv, NEW p \in Processes, Crash(p)
  PROVE  IInv'
<1>1. UNCHANGED <<files, calls, req>> /\ alive' \subseteq alive
  BY DEF Crash
<1>2. \A h \in Handles : pc'[h] = "dead" \/ (pc'[h] = pc[h] /\ ProcessOf[OwnerOf[h]] # p)
  BY DEF Crash
<1>3. TypeOK'
  BY DEF Crash, files, IInv, TypeOK, Labels
<1>4. Asked'
  BY <1>1, <1>2 DEF Asked, IInv
<1>5. LiveCalls'
  BY <1>2 DEF Crash, LiveCalls, Live, IInv
<1>6. \A g \in Handles : Keeps(g)
  BY <1>1, <1>2 DEF Keeps
<1> QED BY <1>1, <1>3, <1>4, <1>5, <1>6, ShrinkStep DEF files, Registered
-----------------------------------------------------------------------------
(* Steps that put a writer forward.                                        *)

\* The live writers are the requests whose process runs.
LEMMA LiveWritersFacts ==
  ASSUME TypeOK, NEW o \in Owners
  PROVE  o \in LiveWriters <=> Live(o) /\ writer[o] # NoWriter
  BY SweptFacts DEF LiveWriters

\* What a writer covers depends on its kind and key only.
LEMMA CoversFacts ==
  ASSUME NEW v, NEW w, v.kind = w.kind, v.key = w.key
  PROVE  Covers(v) = Covers(w)
  BY DEF Covers

\* A request that joins the queue is younger than every other.
LEMMA EnqueueStep ==
  ASSUME IInv, NEW h \in Handles, NEW label \in {"queued", "cleanup"}, Enqueue(h, label)
  PROVE  IInv'
<1> DEFINE o == OwnerOf[h]
           w == [seq |-> nextSequence, kind |-> req[h].kind, key |-> req[h].key,
                 phase |-> "queued", by |-> h]
<1>1. /\ pc[h] = "enqueue" /\ Go(h, label) /\ UNCHANGED <<reader, journal, receipt, calls, alive, req>>
      /\ nextSequence' = nextSequence + 1 /\ nextSequence \in Nat /\ o \in Owners
      /\ writer[o] = NoWriter
  BY OwnerFacts DEF Enqueue, MayEnqueue, Unused, IInv, TypeOK
<1>2. /\ req[h] \in Menu[h] /\ req[h].kind \in {"project", "global"}
      /\ req[h].key \in Keys \cup {NoKey}
      /\ req[h].kind = "project" => req[h].key \in Keys
  BY <1>1, MenuFacts DEF Asked, IInv
<1>3. w \in Writers
  BY <1>1, <1>2 DEF Writers
<1>4. /\ writer' \in [Owners -> Writers \cup {NoWriter}] /\ writer'[o] = w
      /\ \A p \in Owners : p # o => writer'[p] = IF Live(p) THEN writer[p] ELSE NoWriter
  <2>1. writer' = [SweptWriters EXCEPT ![o] = w]
    BY DEF Enqueue
  <2> QED BY <1>1, <1>3, <2>1, SweptFacts DEF IInv
<1>5. /\ Asked' /\ LiveCalls' /\ pc'[h] = label
      /\ pc' \in [Handles -> Labels] /\ req' \in [Handles -> Requests \cup {NoRequest}]
      /\ \A g \in Handles : g # h => pc'[g] = pc[g] /\ req'[g] = req[g]
  <2>1. label \in Labels \ {"dead"} /\ pc[h] \notin {"dead", "idle"} /\ req[h].kind # "shared"
        /\ label \notin {"waiting", "retrying"}
    BY <1>1, <1>2 DEF Labels
  <2> QED BY <1>1, <2>1, MoveStep
<1>6. TypeOK'
  BY <1>1, <1>4, <1>5 DEF IInv, TypeOK
<1>7. \A g \in Handles : g # h => Keeps(g)
  BY <1>5 DEF Keeps
<1>8. OwnWriter'
  <2> SUFFICES ASSUME NEW g \in Handles PROVE Backed(g)'
    BY DEF OwnWriter
  <2>1. CASE g = h
    BY <1>1, <1>3, <1>4, <1>5, <2>1, KeyAssumption DEF Backed, Engaged, Acquired
  <2>2. CASE g # h
    <3>1. ASSUME Engaged(g)' PROVE writer'[OwnerOf[g]] = writer[OwnerOf[g]]
      <4>1. Engaged(g) /\ pc[g] # "dead"
        BY <1>5, <2>2, <3>1 DEF Engaged, Acquired
      <4>2. Live(OwnerOf[g]) /\ writer[OwnerOf[g]] # NoWriter
        BY <4>1 DEF LiveCalls, OwnWriter, Backed, Engaged, Acquired, IInv
      <4> QED BY <1>1, <1>4, <4>2, OwnerFacts
    <3> QED BY <1>7, <2>2, <3>1, WriterKept DEF IInv
  <2> QED BY <2>1, <2>2
<1>9. \A p \in Owners : p # o /\ writer'[p] # NoWriter =>
         writer'[p] = writer[p] /\ writer[p] # NoWriter /\ writer[p].seq < nextSequence
         /\ writer[p].seq \in Nat
  BY <1>4 DEF WritersIssued, IInv, TypeOK, Writers
<1>10. WritersIssued'
  BY <1>1, <1>2, <1>4, <1>9 DEF WritersIssued, IInv
<1>11. IntentIsOldest'
  BY <1>4, <1>9 DEF IntentIsOldest, Covers, IInv
<1>12. OwnReader' /\ Emptied'
  <2> SUFFICES ASSUME NEW g \in Handles PROVE Inscribed(g)' /\ Cleared(g)'
    BY DEF OwnReader, Emptied
  <2>1. CASE g = h
    BY <1>5, <2>1 DEF Inscribed, Cleared, Acquired
  <2>2. CASE g # h
    <3>1. Inscribed(g)'
      BY <1>1, <1>7, <2>2, ReaderKept DEF IInv, Registered
    <3>2. Cleared(g)'
      BY <1>1, <1>7, <2>2, ClearKept DEF IInv, Registered
    <3> QED BY <3>1, <3>2
  <2> QED BY <2>1, <2>2
<1> QED BY <1>5, <1>6, <1>8, <1>10, <1>11, <1>12 DEF IInv

\* A request becomes an intent when no conflicting one precedes it, and is acquired when
\* the readers it covers are gone.
LEMMA ProgressedStep ==
  ASSUME IInv, NEW h \in Handles, MayProgress(h), Progressed(h),
         NEW label \in {"queued", "held", "cleanup"}, Go(h, label),
         label = "held" => Declared(h) /\ Drained(h),
         UNCHANGED <<nextSequence, journal, receipt, calls, alive, req>>
  PROVE  IInv'
<1> DEFINE o == OwnerOf[h]
<1>1. /\ pc[h] = "queued" /\ o \in Owners /\ writer[o] # NoWriter /\ writer[o] \in Writers
      /\ Engaged(h)
  BY OwnerFacts DEF MayProgress, IInv, TypeOK, Engaged, Acquired
<1>2. /\ req[h] \in Menu[h] /\ req[h].kind # "shared" /\ Live(o)
      /\ writer[o].by = h /\ writer[o].kind = req[h].kind /\ writer[o].key = req[h].key
  BY <1>1 DEF Asked, LiveCalls, OwnWriter, Backed, IInv
<1>3. /\ writer' \in [Owners -> Writers \cup {NoWriter}] /\ writer'[o] # NoWriter
      /\ writer'[o].seq = writer[o].seq /\ writer'[o].kind = writer[o].kind
      /\ writer'[o].key = writer[o].key /\ writer'[o].by = writer[o].by
      /\ writer'[o].phase = IF Declared(h) THEN "intent" ELSE writer[o].phase
      /\ \A p \in Owners : p # o => writer'[p] = IF Live(p) THEN writer[p] ELSE NoWriter
  <2>1. SweptWriters[o] = writer[o]
    BY <1>1, <1>2, SweptFacts DEF IInv
  <2>2. CASE Declared(h)
    <3> DEFINE v == [writer[o] EXCEPT !.phase = "intent"]
    <3>1. writer' = [SweptWriters EXCEPT ![o] = v]
      BY <2>1, <2>2 DEF Progressed
    <3>2. v \in Writers /\ v.phase = "intent" /\ v.seq = writer[o].seq
          /\ v.kind = writer[o].kind /\ v.key = writer[o].key /\ v.by = writer[o].by
      BY <1>1 DEF Writers
    <3>3. v # NoWriter
      BY <3>2, KeyAssumption
    <3>4. writer' \in [Owners -> Writers \cup {NoWriter}] /\ writer'[o] = v
          /\ \A p \in Owners : p # o => writer'[p] = SweptWriters[p]
      BY <1>1, <3>1, <3>2, SweptFacts DEF IInv
    <3> HIDE DEF v
    <3> QED BY <2>2, <3>2, <3>3, <3>4, SweptFacts DEF IInv
  <2>3. CASE ~Declared(h)
    <3>1. writer' = SweptWriters
      BY <2>3 DEF Progressed
    <3> QED BY <1>1, <2>1, <2>3, <3>1, SweptFacts DEF IInv
  <2> QED BY <2>2, <2>3
<1>4. PICK scanned : reader' = SweptReaders(scanned)
  BY DEF Progressed
<1>5. /\ reader' \in [Dimensions -> [Owners -> Readers \cup {NoReader}]]
      /\ \A d \in Dimensions : \A p \in Owners :
            /\ reader'[d][p] # NoReader => Registered(p, d)
            /\ Live(p) => reader'[d][p] = reader[d][p]
  BY <1>4, SweptFacts DEF Registered, IInv
<1>6. /\ Asked' /\ LiveCalls' /\ pc'[h] = label
      /\ pc' \in [Handles -> Labels] /\ req' \in [Handles -> Requests \cup {NoRequest}]
      /\ \A g \in Handles : g # h => pc'[g] = pc[g] /\ req'[g] = req[g]
  <2>1. label \in Labels \ {"dead"} /\ pc[h] \notin {"dead", "idle"} /\ req[h].kind # "shared"
        /\ label \notin {"waiting", "retrying"} /\ alive' = alive /\ req' = req
    BY <1>1, <1>2 DEF Labels
  <2> QED BY <2>1, MoveStep
<1>7. TypeOK'
  BY <1>3, <1>5, <1>6 DEF IInv, TypeOK
<1>8. \A g \in Handles : g # h => Keeps(g)
  BY <1>6 DEF Keeps
<1>9. OwnWriter'
  <2> SUFFICES ASSUME NEW g \in Handles PROVE Backed(g)'
    BY DEF OwnWriter
  <2>1. CASE g = h
    <3>1. pc'[g] \in {"held", "releasing"} => writer'[o].phase = "intent"
      BY <1>3, <1>6, <2>1
    <3> QED BY <1>2, <1>3, <2>1, <3>1 DEF Backed, Engaged, Acquired
  <2>2. CASE g # h
    <3>1. ASSUME Engaged(g)' PROVE writer'[OwnerOf[g]] = writer[OwnerOf[g]]
      <4>1. Engaged(g) /\ pc[g] # "dead"
        BY <1>6, <2>2, <3>1 DEF Engaged, Acquired
      <4>2. Live(OwnerOf[g]) /\ writer[OwnerOf[g]].by = g
        BY <4>1 DEF LiveCalls, OwnWriter, Backed, Engaged, Acquired, IInv
      <4> QED BY <1>2, <1>3, <2>2, <4>2, OwnerFacts
    <3> QED BY <1>8, <2>2, <3>1, WriterKept DEF IInv
  <2> QED BY <2>1, <2>2
<1>10. WritersIssued'
  BY <1>1, <1>3 DEF WritersIssued, IInv
<1>11. IntentIsOldest'
  <2>1. \A p \in Owners : p # o /\ writer'[p] # NoWriter =>
           writer'[p] = writer[p] /\ writer[p] # NoWriter /\ p \in LiveWriters
    BY <1>3, LiveWritersFacts DEF IInv
  <2>2. Covers(writer'[o]) = Covers(writer[o])
    BY <1>3, CoversFacts
  <2>3. ASSUME NEW p \in Owners, p # o, writer'[p] # NoWriter, Declared(h),
               Covers(writer[p]) \cap Covers(writer[o]) # {}
        PROVE  writer[p].phase = "queued" /\ writer[p].seq > writer[o].seq
    <3>1. CASE writer[o].phase = "intent"
      <4>1. Covers(writer[o]) \cap Covers(writer[p]) # {}
        BY <2>3
      <4> QED BY <1>1, <2>1, <2>3, <3>1, <4>1 DEF IntentIsOldest, IInv
    <3>2. CASE Eligible(o)
      BY <2>1, <2>3, <3>2 DEF Eligible
    <3> QED BY <2>3, <3>1, <3>2 DEF Declared
  <2> SUFFICES ASSUME NEW a \in Owners, NEW b \in Owners, a # b,
                      writer'[a] # NoWriter, writer'[b] # NoWriter, writer'[a].phase = "intent",
                      Covers(writer'[a]) \cap Covers(writer'[b]) # {}
               PROVE  writer'[b].phase = "queued" /\ writer'[b].seq > writer'[a].seq
    BY DEF IntentIsOldest, Covers
  <2>4. CASE a = o /\ Declared(h)
    <3>1. writer'[b] = writer[b] /\ Covers(writer[b]) \cap Covers(writer[o]) # {}
      BY <2>1, <2>2, <2>4
    <3> QED BY <1>3, <2>3, <2>4, <3>1
  <2>5. CASE b = o /\ Declared(h)
    <3>1. writer'[a] = writer[a] /\ Covers(writer[a]) \cap Covers(writer[o]) # {}
      BY <2>1, <2>2, <2>5
    <3>2. writer[a].phase = "queued"
      BY <2>3, <2>5, <3>1
    <3> QED BY <3>1, <3>2
  <2>6. CASE ~Declared(h) \/ (a # o /\ b # o)
    <3>1. \A p \in {a, b} : /\ writer[p] # NoWriter /\ writer'[p].phase = writer[p].phase
                            /\ writer'[p].seq = writer[p].seq /\ Covers(writer'[p]) = Covers(writer[p])
      BY <1>1, <1>3, <2>1, <2>2, <2>6
    <3>2. Covers(writer[a]) \cap Covers(writer[b]) # {} /\ writer[a].phase = "intent"
      BY <3>1
    <3> QED BY <3>1, <3>2 DEF IntentIsOldest, IInv
  <2> QED BY <2>4, <2>5, <2>6
<1>12. OwnReader'
  <2> SUFFICES ASSUME NEW g \in Handles PROVE Inscribed(g)'
    BY DEF OwnReader
  <2>1. CASE g = h
    BY <1>2, <2>1 DEF Inscribed
  <2>2. CASE g # h
    <3>1. pc'[g] = "held" => Live(OwnerOf[g]) /\ Scope(req[g]) \subseteq Dimensions
      BY <1>6, <2>2, ScopeFacts DEF LiveCalls, Asked, IInv
    <3> QED BY <1>5, <1>8, <2>2, <3>1, ReaderKept, OwnerFacts DEF IInv, Registered
  <2> QED BY <2>1, <2>2
<1>13. Emptied'
  <2> SUFFICES ASSUME NEW g \in Handles PROVE Cleared(g)'
    BY DEF Emptied
  <2>1. CASE g = h
    <3> SUFFICES ASSUME label = "held", NEW d \in Scope(req[h]) PROVE LiveReaders(d)' = {}
      BY <1>6, <2>1 DEF Cleared, Acquired, Scope
    <3>1. d \in Covers(writer[o]) /\ d \in Dimensions
      BY <1>2, ScopeFacts, MenuFacts DEF Covers
    <3>2. LiveReaders(d) = {}
      BY <3>1 DEF Drained
    <3>3. \A p \in Owners : Live(p)' => Live(p)
      BY DEF Live
    <3> QED BY <1>5, <3>1, <3>2, <3>3 DEF LiveReaders, Registered
  <2>2. CASE g # h
    <3>1. Acquired(g)' => Scope(req[g]) \subseteq Dimensions
      BY <1>6, <2>2, ScopeFacts DEF Acquired, Asked, IInv
    <3> QED BY <1>5, <1>8, <2>2, <3>1, ClearKept DEF IInv
  <2> QED BY <2>1, <2>2
<1> QED BY <1>6, <1>7, <1>9, <1>10, <1>11, <1>12, <1>13 DEF IInv
-----------------------------------------------------------------------------
(* Steps that publish a reader.                                            *)

\* A registration takes a sequence number.
LEMMA SequenceNat ==
  ASSUME TypeOK, NEW h \in Handles
  PROVE  Sequence(h) \in Nat
<1>1. \A d \in Dimensions : Registered(OwnerOf[h], d) => reader[d][OwnerOf[h]].seq \in Nat
  BY OwnerFacts DEF TypeOK, Registered, Readers
<1>2. writer[OwnerOf[h]] # NoWriter => writer[OwnerOf[h]].seq \in Nat
  BY OwnerFacts DEF TypeOK, Writers
<1>3. nextSequence \in Nat /\ User \in Dimensions /\ Keys \subseteq Dimensions
  BY DEF TypeOK, Dimensions
<1> QED BY <1>1, <1>2, <1>3 DEF Sequence

\* A child that inherits finds its parent among the live readers of both dimensions.
LEMMA ParentFacts ==
  ASSUME IInv, NEW h \in Handles, MayInherit(h)
  PROVE  /\ Scope(req[h]) = {req[h].key, User} /\ req[h].key \in Keys
         /\ LiveReaders(req[h].key) # {} /\ LiveReaders(User) # {}
         /\ ParentSequence(h) \in Nat
<1>1. pc[h] = "waiting" /\ req[h].inherit /\ ParentComposite(h) # {}
  BY DEF MayInherit, Inherits, Ordinary
<1>2. req[h] \in Menu[h]
  BY <1>1 DEF Asked, IInv
<1>3. req[h].kind = "shared" /\ req[h].user /\ req[h].key \in Keys
  BY <1>1, <1>2, MenuFacts
<1>4. Scope(req[h]) = {req[h].key, User}
  BY <1>2, <1>3, ScopeFacts DEF Dimensions
<1> DEFINE q == CHOOSE o \in ParentComposite(h) : TRUE
<1>5. q \in ParentComposite(h)
  BY <1>1
<1>6. q \in ParentReaders(h, req[h].key) /\ q \in ParentReaders(h, User) /\ q \in Owners
  BY <1>5 DEF ParentComposite
<1>7. q \in LiveReaders(req[h].key) /\ q \in LiveReaders(User)
  BY <1>6 DEF ParentReaders
<1>8. reader[User][q] \in Readers
  BY <1>6, <1>7 DEF LiveReaders, Registered, Dimensions, IInv, TypeOK
<1>9. ParentSequence(h) \in Nat
  BY <1>8 DEF ParentSequence, Readers
<1> QED BY <1>3, <1>4, <1>7, <1>9

\* A registration that is neither barred nor denied stays out of what a writer has acquired.
LEMMA NoEntry ==
  ASSUME IInv, NEW h \in Handles, (MayRegister(h) /\ ~Barred(h)) \/ MayInherit(h),
         NEW g \in Handles, Acquired(g)
  PROVE  Scope(req[g]) \cap Scope(req[h]) = {}
<1> DEFINE o == OwnerOf[h]
           p == OwnerOf[g]
           w == writer[p]
<1>1. /\ req[g] \in Menu[g] /\ req[g].kind \in {"project", "global"}
      /\ o \in Owners /\ p \in Owners /\ Live(p)
  BY OwnerFacts, MenuFacts DEF Acquired, Asked, LiveCalls, IInv
<1>2. /\ w # NoWriter /\ w.kind = req[g].kind /\ w.key = req[g].key /\ w.phase = "intent"
  BY DEF OwnWriter, Backed, Engaged, Acquired, IInv
<1>3. \A d \in Scope(req[g]) : LiveReaders(d) = {}
  BY DEF Emptied, Cleared, Acquired, IInv
<1>4. CASE MayInherit(h)
  BY <1>3, <1>4, ParentFacts
<1>5. CASE MayRegister(h) /\ ~Barred(h)
  <2>1. pc[h] = "waiting" /\ req[h] \in Menu[h] /\ req[h].kind = "shared" /\ Live(o)
    BY <1>5 DEF MayRegister, Asked, LiveCalls, IInv
  <2>2. ~Blocks(w, h)
    BY <1>1, <1>2, <1>5, LiveWritersFacts DEF Barred, IInv
  <2>3. \A d \in Scope(req[g]) : ~Registered(o, d)
    BY <1>1, <1>3, <2>1 DEF LiveReaders
  <2>4. CASE req[g].kind = "global"
    <3>1. Scope(req[g]) = Dimensions /\ Covers(w) = Dimensions
      BY <1>1, <1>2, <2>4, ScopeFacts DEF Covers
    <3>2. writer[o] = NoWriter
      <4> SUFFICES ASSUME writer[o] # NoWriter PROVE FALSE
        OBVIOUS
      <4>1. writer[o].kind = "project" /\ writer[o].phase = "intent"
        BY <1>5 DEF MayRegister, Reenters
      <4>2. writer[o].key \in Keys
        BY <1>1, <4>1 DEF WritersIssued, IInv
      <4>3. o # p /\ Covers(w) \cap Covers(writer[o]) # {}
        BY <1>2, <2>4, <3>1, <4>1, <4>2 DEF Covers, Dimensions
      <4>4. writer[o].phase = "queued"
        BY <1>1, <1>2, <4>3 DEF IntentIsOldest, IInv
      <4> QED BY <4>1, <4>4
    <3>3. Anchors(o) = {}
      BY <2>3, <3>1, <3>2 DEF Anchors
    <3> QED BY <1>2, <2>2, <2>4, <3>3 DEF Blocks
  <2>5. CASE req[g].kind = "project"
    <3>1. Scope(req[g]) = {w.key} /\ w.key \in Keys /\ w.kind = "project"
      BY <1>1, <1>2, <2>5, ScopeFacts, MenuFacts
    <3>2. w.key # req[h].key
      BY <2>2, <2>3, <3>1 DEF Blocks
    <3>3. w.key # User
      BY <3>1, KeyAssumption
    <3> QED BY <2>1, <3>1, <3>2, <3>3, ScopeFacts
  <2> QED BY <1>1, <2>4, <2>5
<1> QED BY <1>4, <1>5

\* A publication outside the scope of every acquired writer preserves the invariant.
LEMMA PublishStep ==
  ASSUME IInv, NEW h \in Handles, pc[h] = "waiting",
         NEW dims \in SUBSET Scope(req[h]), NEW seq \in Nat, NEW scanned,
         NEW label \in {"held", "cleanup", "retrying"}, Go(h, label),
         label = "held" => dims = Scope(req[h]),
         nextSequence' \in Nat, nextSequence' >= nextSequence,
         writer' = SweptWriters,
         reader' = Published(SweptReaders(scanned), h, dims, seq),
         UNCHANGED <<journal, receipt, calls, alive, req>>,
         \A g \in Handles : Acquired(g) => Scope(req[g]) \cap Scope(req[h]) = {}
  PROVE  IInv'
<1> DEFINE o == OwnerOf[h]
<1>1. req[h] \in Menu[h] /\ req[h].kind = "shared" /\ Live(o) /\ o \in Owners
      /\ Scope(req[h]) \subseteq Dimensions
  BY OwnerFacts, ScopeFacts DEF Asked, LiveCalls, IInv
<1>2. /\ SweptReaders(scanned) \in [Dimensions -> [Owners -> Readers \cup {NoReader}]]
      /\ \A d \in Dimensions : \A p \in Owners :
            SweptReaders(scanned)[d][p]
              = IF d \in scanned /\ ~Live(p) THEN NoReader ELSE reader[d][p]
  BY SweptFacts DEF IInv
<1>3. /\ reader' \in [Dimensions -> [Owners -> Readers \cup {NoReader}]]
      /\ \A d \in Dimensions : \A p \in Owners :
            /\ ~(d \in dims /\ p = o) /\ reader'[d][p] # NoReader => Registered(p, d)
            /\ Live(p) /\ Registered(p, d) =>
                  reader'[d][p] # NoReader /\ reader[d][p].refs \subseteq reader'[d][p].refs
            /\ d \in dims /\ p = o => reader'[d][p] # NoReader /\ h \in reader'[d][p].refs
  <2>1. /\ reader' \in [Dimensions -> [Owners -> Readers \cup {NoReader}]]
        /\ \A d \in Dimensions : \A p \in Owners :
            /\ ~(d \in dims /\ p = o) => reader'[d][p] = SweptReaders(scanned)[d][p]
            /\ d \in dims /\ p = o =>
                  /\ reader'[d][p] # NoReader /\ h \in reader'[d][p].refs
                  /\ SweptReaders(scanned)[d][p] # NoReader =>
                       SweptReaders(scanned)[d][p].refs \subseteq reader'[d][p].refs
    BY <1>2, PublishedFacts
  <2> QED BY <1>2, <2>1 DEF Registered
<1>4. /\ writer' \in [Owners -> Writers \cup {NoWriter}]
      /\ \A p \in Owners : writer'[p] = IF Live(p) THEN writer[p] ELSE NoWriter
  BY SweptFacts DEF IInv
<1>5. /\ Asked' /\ LiveCalls' /\ pc'[h] = label
      /\ pc' \in [Handles -> Labels] /\ req' \in [Handles -> Requests \cup {NoRequest}]
      /\ \A g \in Handles : g # h => pc'[g] = pc[g] /\ req'[g] = req[g]
  <2>1. label \in Labels \ {"dead"} /\ pc[h] \notin {"dead", "idle"} /\ req[h].kind = "shared"
        /\ label \notin {"enqueue", "queued"} /\ alive' = alive /\ req' = req
    BY <1>1 DEF Labels
  <2> QED BY <2>1, MoveStep
<1>6. TypeOK'
  BY <1>3, <1>4, <1>5 DEF IInv, TypeOK
<1>7. \A g \in Handles : g # h => Keeps(g)
  BY <1>5 DEF Keeps
<1>8. WritersIssued' /\ IntentIsOldest'
  BY <1>4, QueueKept
<1>9. \A g \in Handles : g # h /\ pc'[g] \in {"held", "queued", "releasing"} => Live(OwnerOf[g])
  BY <1>5 DEF LiveCalls, IInv
<1>10. OwnWriter'
  <2> SUFFICES ASSUME NEW g \in Handles PROVE Backed(g)'
    BY DEF OwnWriter
  <2>1. CASE g = h
    BY <1>1, <1>5, <2>1 DEF Backed, Engaged, Acquired
  <2>2. CASE g # h
    BY <1>4, <1>7, <1>9, <2>2, WriterKept, OwnerFacts DEF IInv, Engaged, Acquired
  <2> QED BY <2>1, <2>2
<1>11. OwnReader'
  <2> SUFFICES ASSUME NEW g \in Handles PROVE Inscribed(g)'
    BY DEF OwnReader
  <2>1. CASE g = h
    <3> SUFFICES ASSUME label = "held", NEW d \in Scope(req[h])
                 PROVE  reader'[d][o] # NoReader /\ h \in reader'[d][o].refs
      BY <1>5, <2>1 DEF Inscribed, Registered, Scope
    <3> QED BY <1>1, <1>3
  <2>2. CASE g # h
    <3>1. pc'[g] = "held" => Scope(req[g]) \subseteq Dimensions
      BY <1>5, <2>2, ScopeFacts DEF Asked, IInv
    <3> QED BY <1>3, <1>7, <1>9, <2>2, <3>1, ReaderKept, OwnerFacts DEF IInv, Registered
  <2> QED BY <2>1, <2>2
<1>12. Emptied'
  <2> SUFFICES ASSUME NEW g \in Handles PROVE Cleared(g)'
    BY DEF Emptied
  <2>1. CASE g = h
    BY <1>1, <1>5, <2>1 DEF Cleared, Acquired
  <2>2. CASE g # h
    <3>1. Acquired(g)' => Scope(req[g]) \subseteq Dimensions /\ Scope(req[g]) \cap dims = {}
      BY <1>5, <2>2, ScopeFacts DEF Acquired, Asked, IInv
    <3>2. Acquired(g)' =>
             \A d \in Scope(req[g]) : \A p \in Owners : reader'[d][p] # NoReader => Registered(p, d)
      BY <1>3, <3>1
    <3> QED BY <1>7, <2>2, <3>2, ClearKept DEF IInv
  <2> QED BY <2>1, <2>2
<1> QED BY <1>5, <1>6, <1>8, <1>10, <1>11, <1>12 DEF IInv

\* An ordinary registration, granted or failed, preserves the invariant.
LEMMA RegisterStep ==
  ASSUME IInv, NEW h \in Handles, NEW dims \in SUBSET Scope(req[h]),
         NEW label \in {"held", "cleanup", "retrying"}, label = "held" => dims = Scope(req[h]),
         Register(h, dims, label)
  PROVE  IInv'
<1>1. /\ MayRegister(h) /\ ~Barred(h) /\ pc[h] = "waiting" /\ writer' = SweptWriters
      /\ UNCHANGED <<journal, receipt, calls, alive, req>> /\ Go(h, label)
  BY DEF Register, MayRegister
<1>2. nextSequence' \in Nat /\ nextSequence' >= nextSequence
  BY DEF Register, IInv, TypeOK
<1>3. PICK scanned : reader' = Published(SweptReaders(scanned), h, dims, Sequence(h))
  BY DEF Register
<1>4. \A g \in Handles : Acquired(g) => Scope(req[g]) \cap Scope(req[h]) = {}
  BY <1>1, NoEntry
<1>5. Sequence(h) \in Nat
  BY SequenceNat DEF IInv
<1> QED BY <1>1, <1>2, <1>3, <1>4, <1>5, PublishStep

\* An inherited registration, granted or failed, preserves the invariant.
LEMMA InheritStep ==
  ASSUME IInv, NEW h \in Handles, NEW dims \in SUBSET Scope(req[h]),
         NEW label \in {"held", "cleanup", "retrying"}, label = "held" => dims = Scope(req[h]),
         Inherit(h, dims, label)
  PROVE  IInv'
<1>1. /\ MayInherit(h) /\ pc[h] = "waiting" /\ writer' = SweptWriters
      /\ UNCHANGED <<nextSequence, journal, receipt, calls, alive, req>> /\ Go(h, label)
      /\ reader' = Published(SweptReaders(Scope(req[h])), h, dims, ParentSequence(h))
  BY DEF Inherit, MayInherit, Inherits
<1>2. nextSequence' \in Nat /\ nextSequence' >= nextSequence
  BY <1>1 DEF IInv, TypeOK
<1>3. \A g \in Handles : Acquired(g) => Scope(req[g]) \cap Scope(req[h]) = {}
  BY <1>1, NoEntry
<1>4. ParentSequence(h) \in Nat
  BY <1>1, ParentFacts
<1> QED BY <1>1, <1>2, <1>3, <1>4, PublishStep
-----------------------------------------------------------------------------
(* The invariant is inductive.                                             *)

\* The store starts without leases, so the invariant holds.
LEMMA InitIInv == Init => IInv
<1> SUFFICES ASSUME Init PROVE IInv
  OBVIOUS
<1>1. TypeOK
  <2>1. journal \in [Keys -> Headers] /\ receipt \in Headers
    BY HeaderAssumption DEF Init
  <2> QED BY <2>1 DEF Init, TypeOK, Labels
<1>2. Asked /\ OwnWriter /\ OwnReader /\ Emptied
  BY DEF Init, Asked, OwnWriter, Backed, Engaged, Acquired, OwnReader, Inscribed,
              Emptied, Cleared
<1>3. LiveCalls
  BY OwnerFacts, ProcessAssumption DEF Init, LiveCalls, Live
<1>4. WritersIssued /\ IntentIsOldest
  BY DEF Init, WritersIssued, IntentIsOldest
<1> QED BY <1>1, <1>2, <1>3, <1>4 DEF IInv

\* Every step preserves the invariant: one case per action.
LEMMA StepIInv == IInv /\ [Next]_vars => IInv'
<1> SUFFICES ASSUME IInv, [Next]_vars PROVE IInv'
  OBVIOUS
<1>1. CASE UNCHANGED vars
  <2>1. UNCHANGED <<nextSequence, writer, reader, journal, receipt, alive, pc, calls, req>>
    BY <1>1 DEF vars
  <2>2. TypeOK' /\ Asked' /\ LiveCalls' /\ \A g \in Handles : Keeps(g)
    BY <2>1 DEF IInv, TypeOK, Asked, LiveCalls, Live, Keeps
  <2> QED BY <2>1, <2>2, ShrinkStep DEF Registered
<1>2. ASSUME NEW p \in Processes, Crash(p) PROVE IInv'
  BY <1>2, CrashStep
<1>3. ASSUME NEW h \in Handles, Step(h) PROVE IInv'
  <2>1. CASE Begin(h)
    BY <2>1, BeginStep
  <2>2. CASE AcquireShared(h)
    <3>1. CASE RegisterGranted(h)
      BY <3>1, RegisterStep DEF RegisterGranted
    <3>2. CASE RegisterFails(h)
      <4>1. PICK dims \in SUBSET Scope(req[h]), label \in {"cleanup", "retrying"} :
               Register(h, dims, label)
        BY <3>2 DEF RegisterFails
      <4> QED BY <4>1, RegisterStep
    <3>3. CASE InheritGranted(h)
      BY <3>3, InheritStep DEF InheritGranted
    <3>4. CASE InheritFails(h)
      <4>1. PICK dims \in SUBSET Scope(req[h]), label \in {"cleanup", "retrying"} :
               Inherit(h, dims, label)
        BY <3>4 DEF InheritFails
      <4> QED BY <4>1, InheritStep
    <3> QED BY <2>2, <3>1, <3>2, <3>3, <3>4, SweepingActions, SweepStep DEF AcquireShared
  <2>3. CASE AcquireWriter(h)
    <3>1. CASE Enqueued(h) \/ EnqueueFails(h)
      BY <3>1, EnqueueStep DEF Enqueued, EnqueueFails
    <3>2. CASE ProgressWaits(h)
      <4>1. Go(h, "queued") /\ MayProgress(h) /\ Progressed(h)
            /\ UNCHANGED <<nextSequence, journal, receipt, calls, alive, req>>
        BY <3>2 DEF ProgressWaits, MayProgress, Go, IInv, TypeOK
      <4> QED BY <4>1, ProgressedStep
    <3>3. CASE ProgressAcquired(h)
      BY <3>3, ProgressedStep DEF ProgressAcquired
    <3>4. CASE ProgressFails(h)
      BY <3>4, ProgressedStep DEF ProgressFails
    <3>5. CASE ProgressTimesOut(h)
      BY <3>5, ProgressTimesOutStep
    <3> QED BY <2>3, <3>1, <3>2, <3>3, <3>4, <3>5, SweepingActions, SweepStep DEF AcquireWriter
  <2>4. CASE WaitEnds(h) \/ QueueEnds(h) \/ RetryRefused(h) \/ ReleaseFails(h)
    BY <2>4, SweepingActions, SweepStep
  <2>5. CASE Leave(h) \/ LeaveHalf(h)
    BY <2>5, LeaveSharedStep, LeaveWriterStep DEF Leave
  <2>6. CASE Recover(h)
    BY <2>6, RecoverStep
  <2> QED BY <1>3, <2>1, <2>2, <2>3, <2>4, <2>5, <2>6 DEF Step
<1> QED BY <1>1, <1>2, <1>3 DEF Next
-----------------------------------------------------------------------------
(* What follows from it.                                                   *)

\* Two leases that are held do not clash: their writers would be two intents of one scope,
\* or the reader would be registered in a scope that was drained.
LEMMA Exclusive == IInv => WriterExclusion
<1> SUFFICES ASSUME IInv, NEW g \in Handles, NEW h \in Handles, g # h,
                    pc[g] = "held", pc[h] = "held", Conflict(req[g], req[h])
             PROVE  FALSE
  BY DEF WriterExclusion, Holding
<1>1. \A k \in {g, h} : /\ req[k] \in Menu[k] /\ OwnerOf[k] \in Owners
                        /\ Live(OwnerOf[k])
  BY OwnerFacts DEF Asked, LiveCalls, IInv
<1>2. ASSUME NEW v \in {g, h}, NEW u \in {g, h}, u # v, req[v].kind # "shared"
      PROVE  FALSE
  <2>1. PICK d : d \in Scope(req[u]) /\ d \in Scope(req[v])
    BY <1>2 DEF Conflict
  <2>2. d \in Dimensions /\ LiveReaders(d) = {}
    BY <1>1, <1>2, <2>1, ScopeFacts DEF Emptied, Cleared, Acquired, IInv
  <2>3. CASE req[u].kind = "shared"
    <3>1. Registered(OwnerOf[u], d)
      BY <2>1, <2>3 DEF OwnReader, Inscribed, IInv
    <3> QED BY <1>1, <2>2, <3>1 DEF LiveReaders
  <2>4. CASE req[u].kind # "shared"
    <3> DEFINE w(k) == writer[OwnerOf[k]]
    <3>1. \A k \in {u, v} : /\ w(k) # NoWriter /\ w(k).by = k /\ w(k).phase = "intent"
                            /\ w(k).kind = req[k].kind /\ w(k).key = req[k].key
      BY <1>2, <2>4 DEF OwnWriter, Backed, Engaged, Acquired, IInv
    <3>2. \A k \in {u, v} : d \in Covers(w(k))
      BY <1>1, <1>2, <2>1, <2>2, <2>4, <3>1, ScopeFacts, MenuFacts DEF Covers
    <3>3. OwnerOf[u] # OwnerOf[v]
      BY <1>2, <3>1
    <3>4. w(u).phase = "queued"
      BY <1>1, <3>1, <3>2, <3>3 DEF IntentIsOldest, IInv
    <3> QED BY <3>1, <3>4
  <2> QED BY <2>3, <2>4
<1> QED BY <1>2 DEF Conflict

\* The record that backs a lease is the one HeldIsRecorded speaks of.
LEMMA Recorded == IInv => HeldIsRecorded
  BY DEF IInv, OwnWriter, Backed, Engaged, Acquired, OwnReader, Inscribed, HeldIsRecorded, Holding

\* A step moves one call, or a process dies; a lease keeps its request while it is held.
LEMMA StepShape ==
  ASSUME TypeOK, NEW h \in Handles, Step(h)
  PROVE  /\ \A g \in Handles : g # h => pc'[g] = pc[g] /\ req'[g] = req[g]
         /\ pc'[h] = "held" => req'[h] = req[h]
<1>1. \/ UNCHANGED <<pc, req>>
      \/ \E label : Go(h, label) /\ UNCHANGED req
      \/ \E label, r : /\ Go(h, label) /\ req' = [req EXCEPT ![h] = r]
                       /\ label # "held"
  <2>1. CASE Begin(h)
    <3>1. PICK r \in Menu[h] : /\ req' = [req EXCEPT ![h] = r]
                              /\ Go(h, IF r.kind = "shared" THEN "waiting" ELSE "enqueue")
      BY <2>1 DEF Begin
    <3> QED BY <3>1
  <2>2. CASE AcquireShared(h)
    BY <2>2 DEF AcquireShared, RegisterRefused, RegisterRejected, RegisterBarred,
                RegisterExhausted, RegisterGranted, RegisterFails, Register, InheritDenied,
                InheritExhausted, InheritGranted, InheritFails, Inherit
  <2>3. CASE AcquireWriter(h)
    BY <2>3 DEF AcquireWriter, EnqueueRefused, EnqueueRejected, Enqueued, EnqueueFails, Enqueue,
                ProgressRefused, ProgressWaits, ProgressAcquired, ProgressFails,
                ProgressTimesOut, Return
  <2>4. CASE WaitEnds(h) \/ QueueEnds(h) \/ RetryRefused(h) \/ ReleaseFails(h)
    BY <2>4 DEF WaitEnds, QueueEnds, RetryRefused, ReleaseFails, Return
  <2>5. CASE Leave(h) \/ LeaveHalf(h)
    BY <2>5 DEF Leave, LeaveShared, LeaveWriter, LeaveHalf, Return
  <2>6. CASE Recover(h)
    BY <2>6 DEF Recover, MutateJournal, DiscardJournal, MutateReceipt, DiscardReceipt
  <2> QED BY <2>1, <2>2, <2>3, <2>4, <2>5, <2>6 DEF Step
<1> QED BY <1>1 DEF Go, TypeOK

\* A step that holds nothing new ends some leases of the table.
LEMMA EndStep ==
  ASSUME \A g \in Handles : pc'[g] = "held" => pc[g] = "held" /\ req'[g] = req[g]
  PROVE  Promise!TableNext
<1> DEFINE gone == {g \in Handles : pc'[g] # "held"}
<1>1. Table' = [g \in Handles |-> IF g \in gone THEN NoRequest ELSE Table[g]]
  BY DEF Table, Holding, Scope
<1> QED BY <1>1 DEF Promise!TableNext, Promise!End

\* A step that acquires a lease grants it: it clashes with none that is held.
LEMMA GrantStep ==
  ASSUME IInv, IInv', NEW h \in Handles, pc[h] # "held", pc'[h] = "held", req'[h] = req[h],
         \A g \in Handles : g # h => pc'[g] = pc[g] /\ req'[g] = req[g]
  PROVE  Promise!TableNext
<1> DEFINE m == [exclusive |-> req[h].kind # "shared", scope |-> Scope(req[h])]
<1>1. m \in Promise!Modes
  <2>1. Scope(req'[h]) \subseteq Dimensions
    <3>1. req'[h] \in Menu[h]
      BY DEF Asked, IInv
    <3> QED BY <3>1, ScopeFacts
  <2> QED BY <2>1 DEF Promise!Modes
<1>2. Table' = [Table EXCEPT ![h] = m]
  <2>1. Table' = [g \in Handles |->
                    IF pc'[g] = "held"
                    THEN [exclusive |-> req'[g].kind # "shared", scope |-> Scope(req'[g])]
                    ELSE NoRequest]
    BY DEF Table, Holding, Scope
  <2>2. ASSUME NEW g \in Handles PROVE Table'[g] = IF g = h THEN m ELSE Table[g]
    <3>1. CASE g = h
      BY <2>1, <3>1
    <3>2. CASE g # h
      BY <2>1, <3>2 DEF Table, Holding
    <3> QED BY <3>1, <3>2
  <2>3. Table = [g \in Handles |-> Table[g]]
    BY DEF Table
  <2> HIDE DEF m
  <2> QED BY <2>1, <2>2, <2>3
<1>3. Table[h] = NoRequest
  BY DEF Table, Holding
<1>4. ASSUME NEW g \in Handles, Table[g] # NoRequest PROVE ~Promise!Clash(Table[g], m)
  <2>1. pc[g] = "held" /\ g # h
        /\ Table[g] = [exclusive |-> req[g].kind # "shared", scope |-> Scope(req[g])]
    BY <1>4 DEF Table, Holding
  <2>2. WriterExclusion'
    BY Exclusive, PTL
  <2>3. ~Conflict(req'[g], req'[h])
    BY <2>1, <2>2 DEF WriterExclusion, Holding, Conflict, Scope
  <2>4. ~Conflict(req[g], req[h])
    BY <2>1, <2>3
  <2>5. ~((req[g].kind # "shared" \/ req[h].kind # "shared") /\ Scope(req[g]) \cap Scope(req[h]) # {})
    BY <2>4 DEF Conflict
  <2>6. /\ Table[g].exclusive = (req[g].kind # "shared") /\ Table[g].scope = Scope(req[g])
        /\ m.exclusive = (req[h].kind # "shared") /\ m.scope = Scope(req[h])
    BY <2>1
  <2> HIDE DEF m
  <2> QED BY <2>5, <2>6, Zenon DEF Promise!Clash
<1>5. Promise!Grant(h, m)
  BY <1>2, <1>3, <1>4 DEF Promise!Grant
<1> QED BY <1>1, <1>5 DEF Promise!TableNext
-----------------------------------------------------------------------------
\* Every variable keeps its type: whatever a section writes, and wherever it fails, the
\* files hold records of readers and writers and every call is at one of its stages.
THEOREM TypeCorrect == Spec => []TypeOK
<1>1. IInv => TypeOK
  BY DEF IInv
<1> QED BY <1>1, InitIInv, StepIInv, PTL DEF Spec

\* Project writers and global maintenance exclude the readers and writers of their scope.
THEOREM Exclusion == Spec => []WriterExclusion
  BY InitIInv, StepIInv, Exclusive, PTL DEF Spec

\* The records of a lease that is held are on disk as long as it is held.
THEOREM HeldRecorded == Spec => []HeldIsRecorded
  BY InitIInv, StepIInv, Recorded, PTL DEF Spec

\* Writers of one scope declare their intent one at a time, in the order of the queue.
THEOREM IntentOrder == Spec => []IntentIsOldest
<1>1. IInv => IntentIsOldest
  BY DEF IInv
<1> QED BY <1>1, InitIInv, StepIInv, PTL DEF Spec

\* The leases that are held, seen from outside, are a table whose entries never clash:
\* every critical section is one grant, some ends, or nothing to its callers.
THEOREM LeasesImplementTable == Spec => ImplementsTable
<1>1. Init => Promise!TableInit
  BY DEF Init, Promise!TableInit, Table, Holding
<1>2. IInv /\ IInv' /\ [Next]_vars => [Promise!TableNext]_Table
  <2> SUFFICES ASSUME IInv, IInv', [Next]_vars PROVE [Promise!TableNext]_Table
    OBVIOUS
  <2>1. CASE UNCHANGED vars
    BY <2>1, EndStep DEF vars
  <2>2. ASSUME NEW p \in Processes, Crash(p) PROVE Promise!TableNext
    BY <2>2, EndStep DEF Crash
  <2>3. ASSUME NEW h \in Handles, Step(h) PROVE Promise!TableNext
    <3>1. /\ \A g \in Handles : g # h => pc'[g] = pc[g] /\ req'[g] = req[g]
          /\ pc'[h] = "held" => req'[h] = req[h]
      BY <2>3, StepShape DEF IInv
    <3>2. CASE pc[h] # "held" /\ pc'[h] = "held"
      BY <3>1, <3>2, GrantStep
    <3>3. CASE pc[h] = "held" \/ pc'[h] # "held"
      BY <3>1, <3>3, EndStep
    <3> QED BY <3>2, <3>3
  <2> QED BY <2>1, <2>2, <2>3 DEF Next
<1> QED BY <1>1, <1>2, InitIInv, StepIInv, PTL DEF Spec, ImplementsTable, Promise!TableSpec
=============================================================================
