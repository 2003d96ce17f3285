--------------------------- MODULE FileLockProofs ---------------------------
(***************************************************************************)
(* Mutual exclusion of FileLock for any number of processes, hosts, calls  *)
(* and heartbeats.  The inductive invariant says which records a reader    *)
(* may hold in its hands: none of a call that has not published yet        *)
(* (Fresh), and none of an active owner once it is condemned (Innocent),   *)
(* because an observer cannot age the record of an owner whose heartbeat   *)
(* is on time (Timely).                                                    *)
(***************************************************************************)
EXTENDS FileLock, TLAPS

Active == Publishing \cup Critical

\* The call has not published: the steps before linkSync succeeds.
Unpublished == {"link", "relink", "read", "settle", "settled", "confirm", "classify",
                "recheck", "guard", "unlink", "poll", "wait", "malformed", "timeout"}

\* A record somebody read was published by a call that is over, or by the current call
\* at a heartbeat it has made.
Known(r) ==
    r \in Records =>
       /\ r.call <= call[r.owner]
       /\ r.call = call[r.owner] => /\ pc[r.owner] \notin Unpublished
                                    /\ r.beat <= beat[r.owner]

Fresh == Known(lock) /\ \A q \in Procs : Known(seen[q]) /\ Known(obs[q])

Timely ==
    \A p, q \in Procs :
       pc[p] \in Active /\ p \notin Sync /\ obs[q] = Mine(p)
         => age[q] = 0 \/ (age[q] = 1 /\ ~beaten[p])

Innocent ==
    \A p, q \in Procs :
       pc[p] \in Active /\ pc[q] \in {"recheck", "guard", "unlink"} => seen[q] # Mine(p)

OwnDrop ==
    \A q \in Procs : pc[q] \in {"drop", "abortDrop"}
                       => seen[q] \in Records /\ seen[q].owner = q

Protected == ~raced => \A p \in Procs : pc[p] \in Active => lock = Mine(p)

IInv == TypeOK /\ Fresh /\ Timely /\ Innocent /\ OwnDrop /\ Protected

-----------------------------------------------------------------------------
\* The protocol starts with no call made and no record read.
LEMMA InitIInv == Init => IInv
<1> SUFFICES ASSUME Init PROVE IInv
  OBVIOUS
<1>1. \A q \in Procs : pc[q] = "idle"
  BY DEF Init
<1>2. lock \notin Records /\ \A q \in Procs : seen[q] \notin Records /\ obs[q] \notin Records
  BY FileAssumption DEF Init
<1>3. TypeOK
  BY FileAssumption DEF Init, TypeOK, Control, Snapshots
<1>4. Fresh
  BY <1>2 DEF Fresh, Known
<1>5. Timely /\ Innocent /\ OwnDrop /\ Protected
  BY <1>1 DEF Timely, Innocent, OwnDrop, Protected, Active, Publishing, Critical
<1> QED BY <1>3, <1>4, <1>5 DEF IInv

\* What steps that neither publish nor remove a record, nor condemn one, have in common.
Quiet(p) ==
    /\ UNCHANGED <<lock, call, beat, beaten, raced>>
    /\ pc' = [pc EXCEPT ![p] = pc'[p]]
    /\ seen' = [seen EXCEPT ![p] = seen'[p]] /\ seen'[p] \in {seen[p], lock}
    /\ obs' = [obs EXCEPT ![p] = obs'[p]]
    /\ age' = [age EXCEPT ![p] = age'[p]]
    /\ (obs'[p] = obs[p] /\ age'[p] = age[p]) \/ (obs'[p] = NoFile /\ age'[p] = 0)
    /\ pc'[p] \in Active => pc[p] \in Active
    /\ pc'[p] \in Unpublished => pc[p] \in Unpublished
    /\ pc'[p] \in {"recheck", "guard", "unlink"}
         => pc[p] \in {"recheck", "guard", "unlink"} /\ seen'[p] = seen[p]
    /\ pc'[p] \in {"drop", "abortDrop"} => seen'[p] \in Records /\ seen'[p].owner = p

\* A quiet step preserves the invariant: it moves one process between steps that know
\* no more than it knew.
LEMMA QuietStep ==
  ASSUME IInv, NEW p \in Procs, Quiet(p), TypeOK'
  PROVE  IInv'
<1>1. \A q \in Procs : q # p => /\ pc'[q] = pc[q] /\ seen'[q] = seen[q]
                                /\ obs'[q] = obs[q] /\ age'[q] = age[q]
  BY DEF Quiet, IInv, TypeOK
<1>2. \A q \in Procs : Mine(q)' = Mine(q) /\ Mine(q) \in Records
  BY DEF Mine, Records, Quiet, IInv, TypeOK
<1>3. UNCHANGED <<lock, call, beat, beaten, raced>>
  BY DEF Quiet
<1>4. \A q \in Procs : pc'[q] \in Unpublished => pc[q] \in Unpublished
  BY <1>1 DEF Quiet
<1>5. \A q \in Procs : pc'[q] \in Active => pc[q] \in Active
  BY <1>1 DEF Quiet
<1>6. Fresh'
  <2>1. \A r \in Records : r.owner \in Procs
    BY DEF Records
  <2>2. \A q \in Procs : seen'[q] \in {seen[q], lock} /\ obs'[q] \in {obs[q], NoFile}
    BY <1>1 DEF Quiet
  <2> QED BY <1>3, <1>4, <2>1, <2>2, FileAssumption DEF Fresh, Known, IInv
<1>7. Timely'
  <2>1. \A q \in Procs : \/ obs'[q] = obs[q] /\ age'[q] = age[q]
                         \/ obs'[q] \notin Records
    BY <1>1, FileAssumption DEF Quiet
  <2> QED BY <1>2, <1>3, <1>5, <2>1 DEF Timely, IInv
<1>8. Innocent'
  <2>1. \A q \in Procs : pc'[q] \in {"recheck", "guard", "unlink"}
                           => pc[q] \in {"recheck", "guard", "unlink"} /\ seen'[q] = seen[q]
    BY <1>1 DEF Quiet
  <2> QED BY <1>2, <1>5, <2>1 DEF Innocent, IInv
<1>9. OwnDrop'
  BY <1>1 DEF OwnDrop, Quiet, IInv
<1>10. Protected'
  BY <1>2, <1>3, <1>5 DEF Protected, IInv
<1> QED BY <1>6, <1>7, <1>8, <1>9, <1>10 DEF IInv

\* The helpers keep the type of the temporaries and move one process.
LEMMA SettledType == TypeOK => Settled \in [Procs -> Nat]
  BY DEF TypeOK, Settled

\* Every step of a process keeps the types.
LEMMA StepType ==
  ASSUME TypeOK, NEW p \in Procs, Step(p)
  PROVE  TypeOK'
<1> USE DEF TypeOK, Go, ResetObservation, NotRecovered, Snapshots
<1>1. CASE Start(p)
  BY <1>1 DEF Start, Control
<1>2. CASE LinkPublish(p)
  BY <1>2 DEF LinkPublish, Control, Publishing, Mine, Records
<1>3. CASE LinkExists(p)
  BY <1>3 DEF LinkExists, Control
<1>4. CASE VerifyPublished(p)
  BY <1>4 DEF VerifyPublished, Control, Publishing
<1>5. CASE RetireTemp(p)
  BY <1>5 DEF RetireTemp, Control, Publishing
<1>6. CASE Revalidate(p)
  BY <1>6, SettledType DEF Revalidate, Control, Critical
<1>7. CASE Abort(p)
  BY <1>7, SettledType DEF Abort, Control, Finished
<1>8. CASE AbortDrop(p) \/ Drop(p)
  BY <1>8 DEF AbortDrop, Drop, UnlinkOwn, Control, Finished
<1>9. CASE Read(p)
  BY <1>9, SettledType
  DEF Read, ReadMissing, ReadRecord, SettleTemp, ConfirmSingleLink, Control, Finished
<1>10. CASE ClassifyLive(p)
  BY <1>10 DEF ClassifyLive, Probed, Records, Control
<1>11. CASE ClassifyDead(p) \/ ClassifyUnproven(p)
  BY <1>11 DEF ClassifyDead, ClassifyUnproven, Control
<1>12. CASE Recheck(p) \/ Guard(p)
  BY <1>12, SettledType DEF Recheck, Guard, Control
<1>13. CASE UnlinkStale(p)
  BY <1>13 DEF UnlinkStale, Control
<1>14. CASE Poll(p) \/ BeatCheck(p) \/ Crash(p)
  BY <1>14 DEF Poll, BeatCheck, Crash, Control, Critical, Finished
<1>15. CASE Timeout(p) \/ Finish(p)
  BY <1>15, SettledType DEF Timeout, Finish, Control, Finished
<1>16. CASE BeatRename(p)
  BY <1>16 DEF BeatRename, Control, Critical, Records
<1> QED
  BY <1>1, <1>2, <1>3, <1>4, <1>5, <1>6, <1>7, <1>8, <1>9, <1>10, <1>11, <1>12, <1>13,
     <1>14, <1>15, <1>16
  DEF Step, Proceed, Publish, Recover, Unwind

\* The passing of a beat keeps every type.
LEMMA TickType == TypeOK /\ Tick => TypeOK'
  BY DEF TypeOK, Tick

\* The steps of a process that are quiet.
LEMMA QuietSteps ==
  ASSUME IInv, NEW p \in Procs, Step(p),
         ~ (\/ Start(p) \/ LinkPublish(p) \/ AbortDrop(p) \/ Drop(p) \/ ClassifyDead(p)
            \/ ClassifyUnproven(p) \/ UnlinkStale(p) \/ BeatRename(p))
  PROVE  Quiet(p)
<1> USE DEF IInv, TypeOK, Quiet, Go, ResetObservation, NotRecovered, Active, Publishing,
            Critical, Unpublished, Finished
<1>1. CASE LinkExists(p) \/ Poll(p)
  BY <1>1 DEF LinkExists, Poll
<1>2. CASE VerifyPublished(p) \/ RetireTemp(p) \/ Revalidate(p)
  BY <1>2 DEF VerifyPublished, RetireTemp, Revalidate
<1>3. CASE Abort(p) \/ Finish(p)
  BY <1>3 DEF Abort, Finish, OwnToken
<1>4. CASE Read(p)
  BY <1>4 DEF Read, ReadMissing, ReadRecord, SettleTemp, ConfirmSingleLink
<1>5. CASE ClassifyLive(p)
  BY <1>5 DEF ClassifyLive
<1>6. CASE Recheck(p) \/ Guard(p)
  BY <1>6 DEF Recheck, Guard
<1>7. CASE Timeout(p) \/ BeatCheck(p) \/ Crash(p)
  BY <1>7 DEF Timeout, BeatCheck, Crash
<1> QED
  BY <1>1, <1>2, <1>3, <1>4, <1>5, <1>6, <1>7
  DEF Step, Proceed, Publish, Recover, Unwind

\* The record a process would write is a record.
LEMMA MineType ==
  ASSUME TypeOK, NEW p \in Procs
  PROVE  Mine(p) \in Records
  BY DEF TypeOK, Mine, Records

\* The owner in a record is a process.
LEMMA OwnerType == \A r \in Records : r.owner \in Procs
  BY DEF Records

\* A new call: its ownerToken is newer than every record anybody holds.
LEMMA StartStep ==
  ASSUME IInv, NEW p \in Procs, Start(p), TypeOK'
  PROVE  IInv'
<1>1. /\ pc[p] = "idle" /\ pc'[p] = "link" /\ call'[p] = call[p] + 1
      /\ obs'[p] = NoFile /\ seen'[p] = NoFile
      /\ UNCHANGED <<lock, beaten, raced>>
  BY DEF Start, Go, ResetObservation, IInv, TypeOK
<1>2. \A q \in Procs : q # p =>
         /\ pc'[q] = pc[q] /\ seen'[q] = seen[q] /\ obs'[q] = obs[q] /\ age'[q] = age[q]
         /\ call'[q] = call[q] /\ beat'[q] = beat[q] /\ Mine(q)' = Mine(q)
  BY DEF Start, Go, ResetObservation, IInv, TypeOK, Mine
<1>3. \A q \in Procs : call[q] \in Nat /\ beat[q] \in Nat
  BY DEF IInv, TypeOK
<1>4. Fresh'
  <2>1. \A r \in Records : Known(r) => /\ r.call <= call'[r.owner]
                                       /\ r.owner = p => r.call < call'[r.owner]
    BY <1>1, <1>2, <1>3, OwnerType DEF Known, Records
  <2>2. Known(lock) /\ \A q \in Procs : Known(seen[q]) /\ Known(obs[q])
    BY DEF IInv, Fresh
  <2>3. Known(lock)'
    BY <1>1, <1>2, <2>1, <2>2, OwnerType, <1>3 DEF Known, Records
  <2>4. \A q \in Procs : Known(seen[q])' /\ Known(obs[q])'
    BY <1>1, <1>2, <2>1, <2>2, OwnerType, <1>3, FileAssumption DEF Known, Records
  <2> QED BY <2>3, <2>4 DEF Fresh
<1>5. pc'[p] \notin Active /\ pc'[p] \notin {"recheck", "guard", "unlink", "drop", "abortDrop"}
  BY <1>1 DEF Active, Publishing, Critical
<1>6. Timely'
  BY <1>1, <1>2, <1>5, MineType, FileAssumption DEF Timely, IInv
<1>7. Innocent' /\ OwnDrop' /\ Protected'
  BY <1>1, <1>2, <1>5 DEF Innocent, OwnDrop, Protected, IInv
<1> QED BY <1>4, <1>6, <1>7 DEF IInv

\* A publication: nobody can hold the record, because it did not exist.
LEMMA PublishStep ==
  ASSUME IInv, NEW p \in Procs, LinkPublish(p), TypeOK'
  PROVE  IInv'
<1>1. /\ pc[p] \in {"link", "relink"} /\ pc'[p] = "verify" /\ lock = NoFile /\ lock' = Mine(p)
      /\ UNCHANGED <<call, beat, seen, obs, age, raced>>
      /\ \A q \in Procs : q # p => pc'[q] = pc[q] /\ beaten'[q] = beaten[q]
  BY DEF LinkPublish, Go, IInv, TypeOK
<1>2. \A q \in Procs : Mine(q)' = Mine(q) /\ Mine(q) \in Records
  BY <1>1, MineType DEF Mine, IInv
<1>3. pc[p] \in Unpublished /\ pc'[p] \in Active /\ pc'[p] \notin Unpublished
  BY <1>1 DEF Unpublished, Active, Publishing
<1>4. \A q \in Procs : seen[q] # Mine(p) /\ obs[q] # Mine(p)
  <2>1. ~Known(Mine(p))
    BY <1>2, <1>3 DEF Known, Mine
  <2> QED BY <2>1 DEF IInv, Fresh
<1>5. Known(Mine(p))'
  BY <1>1, <1>3 DEF Known, Mine, IInv, TypeOK
<1>6. Fresh'
  BY <1>1, <1>3, <1>5, OwnerType DEF Fresh, Known, Mine, IInv
<1>7. Timely'
  BY <1>1, <1>2, <1>4 DEF Timely, IInv
<1>8. Innocent'
  BY <1>1, <1>2, <1>4 DEF Innocent, IInv
<1>9. OwnDrop'
  BY <1>1 DEF OwnDrop, IInv
<1>10. Protected'
  BY <1>1, <1>2, FileAssumption DEF Protected, IInv
<1> QED BY <1>6, <1>7, <1>8, <1>9, <1>10 DEF IInv

\* An unlink of the path: without a race it removes the record of nobody active.
LEMMA UnlinkStep ==
  ASSUME IInv, NEW p \in Procs, UnlinkStale(p) \/ AbortDrop(p) \/ Drop(p), TypeOK'
  PROVE  IInv'
<1>1. /\ UNCHANGED <<call, beat, seen, beaten>> /\ lock' = NoFile
      /\ raced' = (raced \/ lock \notin {NoFile, seen[p]})
      /\ pc[p] \in {"unlink", "drop", "abortDrop"}
      /\ pc'[p] \in {"wait", "poll", "idle", "failed"}
      /\ pc[p] \in Unpublished \/ pc'[p] \notin Unpublished
      /\ \A q \in Procs : q # p => pc'[q] = pc[q] /\ obs'[q] = obs[q] /\ age'[q] = age[q]
      /\ obs'[p] = NoFile \/ (obs'[p] = obs[p] /\ age'[p] = age[p])
  BY DEF UnlinkStale, AbortDrop, Drop, UnlinkOwn, Go, ResetObservation, NotRecovered, IInv,
         TypeOK, Unpublished
<1>2. \A q \in Procs : Mine(q)' = Mine(q) /\ Mine(q) \in Records
  BY <1>1, MineType DEF Mine, IInv
<1>3. pc'[p] \notin Active /\ pc[p] \notin Active
  BY <1>1 DEF Active, Publishing, Critical
<1>4. Fresh'
  BY <1>1, OwnerType, FileAssumption DEF Fresh, Known, IInv
<1>5. Timely'
  BY <1>1, <1>2, <1>3, FileAssumption DEF Timely, IInv
<1>6. Innocent' /\ OwnDrop'
  BY <1>1, <1>2, <1>3 DEF Innocent, OwnDrop, IInv
<1>7. Protected'
  <2>1. ASSUME ~raced', NEW q \in Procs, pc'[q] \in Active PROVE FALSE
    <3>1. q # p /\ pc[q] \in Active /\ ~raced /\ lock \in {NoFile, seen[p]}
      BY <1>1, <1>3, <2>1
    <3>2. seen[p] = Mine(q)
      BY <3>1, <1>2, FileAssumption DEF Protected, IInv
    <3>3. CASE pc[p] = "unlink"
      BY <3>1, <3>2, <3>3 DEF Innocent, IInv
    <3>4. CASE pc[p] \in {"drop", "abortDrop"}
      BY <3>1, <3>2, <3>4 DEF OwnDrop, IInv, Mine
    <3> QED BY <1>1, <3>3, <3>4
  <2> QED BY <2>1 DEF Protected
<1> QED BY <1>4, <1>5, <1>6, <1>7 DEF IInv

\* An observer that watched a record through the horizon watched no active owner's.
LEMMA CondemnStep ==
  ASSUME IInv, NEW p \in Procs, ClassifyDead(p) \/ ClassifyUnproven(p), TypeOK'
  PROVE  IInv'
<1>1. /\ UNCHANGED <<lock, call, beat, seen, beaten, raced>>
      /\ pc[p] = "classify" /\ pc'[p] \in {"recheck", "wait"}
      /\ \A q \in Procs : q # p => pc'[q] = pc[q] /\ obs'[q] = obs[q] /\ age'[q] = age[q]
      /\ \/ obs'[p] = obs[p] /\ age'[p] = age[p]
         \/ obs'[p] = seen[p] /\ age'[p] = 0
  BY DEF ClassifyDead, ClassifyUnproven, Go, IInv, TypeOK
<1>2. \A q \in Procs : Mine(q)' = Mine(q) /\ Mine(q) \in Records /\ Mine(q).owner = q
  BY <1>1, MineType DEF Mine, IInv
<1>3. \A q \in Procs : pc'[q] \in Active => q # p /\ pc[q] \in Active
  BY <1>1 DEF Active, Publishing, Critical
<1>4. Fresh'
  <2>1. \A q \in Procs : pc'[q] \in Unpublished <=> pc[q] \in Unpublished
    BY <1>1 DEF Unpublished
  <2> QED BY <1>1, <2>1, OwnerType DEF Fresh, Known, IInv
<1>5. Timely'
  BY <1>1, <1>2, <1>3 DEF Timely, IInv
<1>6. ASSUME NEW q \in Procs, pc[q] \in Active, pc'[p] = "recheck" PROVE seen[p] # Mine(q)
  <2>1. SUFFICES ASSUME seen[p] = Mine(q) PROVE FALSE
    OBVIOUS
  <2>2. pc[q] # "dead"
    BY <1>6 DEF Active, Publishing, Critical
  <2>3. ClassifyUnproven(p)
    BY <1>2, <2>1, <2>2 DEF ClassifyDead, Alive
  <2>4. obs[p] = Mine(q) /\ age[p] >= Horizon /\ ~SameHost(p, q)
    BY <1>2, <1>6, <2>1, <2>3 DEF ClassifyUnproven, Probed, Unchanged, Go, IInv, TypeOK
  <2>5. q \notin Sync
    BY <2>4, HorizonAssumption DEF SameHost
  <2>6. age[p] <= 1
    BY <1>6, <2>4, <2>5 DEF Timely, IInv
  <2> QED BY <2>4, <2>6, HorizonAssumption, BoundsAssumption DEF IInv, TypeOK
<1>7. Innocent'
  BY <1>1, <1>2, <1>3, <1>6 DEF Innocent, IInv
<1>8. OwnDrop' /\ Protected'
  BY <1>1, <1>2, <1>3 DEF OwnDrop, Protected, IInv
<1> QED BY <1>4, <1>5, <1>7, <1>8 DEF IInv

\* A heartbeat publishes a record nobody has read, over the owner's own record.
LEMMA BeatStep ==
  ASSUME IInv, NEW p \in Procs, BeatRename(p), TypeOK'
  PROVE  IInv'
<1>1. /\ pc[p] = "renaming" /\ pc'[p] = "held" /\ beat'[p] = beat[p] + 1
      /\ UNCHANGED <<call, seen, obs, age>>
      /\ lock' = [owner |-> p, call |-> call[p], beat |-> beat[p] + 1]
      /\ raced' = (raced \/ lock # Mine(p))
      /\ \A q \in Procs : q # p => /\ pc'[q] = pc[q] /\ beaten'[q] = beaten[q]
                                   /\ beat'[q] = beat[q] /\ Mine(q)' = Mine(q)
  BY DEF BeatRename, Go, IInv, TypeOK, Mine
<1>2. /\ Mine(p)' = lock' /\ lock'.owner = p /\ lock'.beat = beat[p] + 1
      /\ lock'.call = call[p] /\ lock' \in Records
      /\ \A q \in Procs : Mine(q).owner = q /\ Mine(q) \in Records
  BY <1>1, MineType DEF Mine, IInv, TypeOK, Records
<1>3. pc'[p] \in Active /\ pc[p] \in Active /\ pc'[p] \notin Unpublished
  BY <1>1 DEF Active, Critical, Unpublished
<1>4. \A q \in Procs : seen[q] # Mine(p)' /\ obs[q] # Mine(p)'
  <2>1. ~Known(lock')
    BY <1>2 DEF Known, IInv, TypeOK
  <2> QED BY <1>2, <2>1 DEF IInv, Fresh
<1>5. Fresh'
  <2>1. \A r \in Records : Known(r) => /\ r.call <= call'[r.owner]
                                       /\ r.call = call'[r.owner] =>
                                             /\ pc'[r.owner] \notin Unpublished
                                             /\ r.beat <= beat'[r.owner]
    BY <1>1, <1>3, OwnerType DEF Known, Records, IInv, TypeOK
  <2>2. \A q \in Procs : Known(seen[q])' /\ Known(obs[q])'
    BY <1>1, <2>1 DEF Fresh, Known, IInv
  <2>3. Known(lock)'
    BY <1>1, <1>2, <1>3 DEF Known, IInv, TypeOK
  <2> QED BY <2>2, <2>3 DEF Fresh
<1>6. Timely'
  BY <1>1, <1>4 DEF Timely, IInv
<1>7. Innocent'
  BY <1>1, <1>4 DEF Innocent, IInv
<1>8. OwnDrop'
  BY <1>1 DEF OwnDrop, IInv
<1>9. Protected'
  <2>1. ASSUME ~raced', NEW q \in Procs, pc'[q] \in Active PROVE lock' = Mine(q)'
    <3>1. ~raced /\ lock = Mine(p)
      BY <1>1, <2>1
    <3>2. q # p => lock = Mine(q)
      BY <1>1, <2>1, <3>1 DEF Protected, IInv
    <3>3. q = p
      BY <1>2, <3>1, <3>2
    <3> QED BY <1>2, <3>3
  <2> QED BY <2>1 DEF Protected
<1> QED BY <1>5, <1>6, <1>7, <1>8, <1>9 DEF IInv

\* Time passes only when every asynchronous owner has replaced its record.
LEMMA TickStep ==
  ASSUME IInv, Tick
  PROVE  IInv'
<1>1. /\ UNCHANGED <<lock, pc, call, beat, seen, obs, raced>>
      /\ \A q \in Procs : ~beaten'[q] /\ age'[q] \in {age[q], age[q] + 1}
  BY DEF Tick, IInv, TypeOK
<1>2. \A q \in Procs : Mine(q)' = Mine(q)
  BY <1>1 DEF Mine
<1>3. TypeOK'
  BY TickType DEF IInv
<1>4. Fresh' /\ Innocent' /\ OwnDrop' /\ Protected'
  BY <1>1, <1>2 DEF Fresh, Known, Innocent, OwnDrop, Protected, IInv
<1>5. Timely'
  <2>1. \A q \in Procs : pc[q] \in Active /\ q \notin Sync => beaten[q]
    BY DEF Tick, Punctual, Active
  <2> QED BY <1>1, <1>2, <2>1 DEF Timely, IInv, TypeOK
<1> QED BY <1>3, <1>4, <1>5 DEF IInv

\* The invariant is inductive.
LEMMA NextIInv == IInv /\ [Next]_vars => IInv'
<1> SUFFICES ASSUME IInv, [Next]_vars PROVE IInv'
  OBVIOUS
<1>1. CASE UNCHANGED vars
  <2> USE <1>1 DEF vars
  <2>1. \A q \in Procs : Mine(q)' = Mine(q)
    BY DEF Mine
  <2>2. TypeOK' /\ Fresh'
    BY DEF IInv, TypeOK, Fresh, Known
  <2>3. Timely' /\ Innocent' /\ OwnDrop' /\ Protected'
    BY <2>1 DEF IInv, Timely, Innocent, OwnDrop, Protected
  <2> QED BY <2>2, <2>3 DEF IInv
<1>2. CASE Tick
  BY <1>2, TickStep
<1>3. ASSUME NEW p \in Procs, Step(p) PROVE IInv'
  <2>1. TypeOK'
    BY <1>3, StepType DEF IInv
  <2> QED
    BY <1>3, <2>1, QuietSteps, QuietStep, StartStep, PublishStep, UnlinkStep, CondemnStep,
       BeatStep
<1> QED BY <1>1, <1>2, <1>3 DEF Next

\* The types hold in every reachable state of the lock, for any number of processes.
THEOREM TypeCorrect == Spec => []TypeOK
<1>1. IInv => TypeOK
  BY DEF IInv
<1> QED BY <1>1, InitIInv, NextIInv, PTL DEF Spec

\* Without a hit on another record than the one just checked, a running callback is
\* protected by the record of its own call and heartbeat.
THEOREM CallbackOwnsRecord == Spec => []InsideOwnsRecord
<1>1. IInv => InsideOwnsRecord
  BY DEF IInv, Protected, InsideOwnsRecord, Inside, Active
<1> QED BY <1>1, InitIInv, NextIInv, PTL DEF Spec

\* The window between the last check and the unlink or rename is the only way in which
\* two callbacks can run at once.
THEOREM ExclusionUnlessRaced == Spec => []ExclusiveUnlessRaced
<1>1. IInv => ExclusiveUnlessRaced
  <2> SUFFICES ASSUME IInv, ~raced, NEW p \in Inside, NEW q \in Inside PROVE p = q
    BY DEF ExclusiveUnlessRaced, MutualExclusion
  <2>1. lock = Mine(p) /\ lock = Mine(q)
    BY DEF IInv, Protected, Inside, Active
  <2> QED BY <2>1 DEF Mine
<1> QED BY <1>1, InitIInv, NextIInv, PTL DEF Spec

\* No step of another process takes away the record of a live owner, but through the
\* same window.
THEOREM LiveRecordsStay == Spec => LiveRecordStays
<1> DEFINE Stays == (/\ lock \in Records /\ ~raced'
                     /\ pc[lock.owner] \in Publishing \cup Critical
                     /\ call[lock.owner] = lock.call)
                    => /\ lock' \in Records /\ lock'.owner = lock.owner
                       /\ lock'.call = lock.call
<1>1. IInv /\ IInv' /\ [Next]_vars => [Stays]_vars
  <2> SUFFICES ASSUME IInv, Next, lock \in Records, ~raced',
                      pc[lock.owner] \in Publishing \cup Critical,
                      call[lock.owner] = lock.call
               PROVE  lock' \in Records /\ lock'.owner = lock.owner /\ lock'.call = lock.call
    BY DEF vars
  <2> DEFINE o == lock.owner
  <2>1. o \in Procs /\ pc[o] \in Active
    BY OwnerType DEF Active
  <2>2. ASSUME NEW p \in Procs, UnlinkStale(p) \/ AbortDrop(p) \/ Drop(p) PROVE FALSE
    <3>1. ~raced /\ lock = seen[p] /\ pc[p] \in {"unlink", "drop", "abortDrop"}
      BY <2>2, FileAssumption DEF UnlinkStale, AbortDrop, Drop, UnlinkOwn
    <3>2. lock = Mine(o)
      BY <2>1, <3>1 DEF IInv, Protected
    <3>3. pc[p] # "unlink"
      BY <2>1, <3>1, <3>2 DEF IInv, Innocent
    <3>4. o = p
      BY <3>1, <3>3 DEF IInv, OwnDrop
    <3> QED BY <2>1, <3>1, <3>4 DEF Active, Publishing, Critical
  <2>3. ASSUME NEW p \in Procs, BeatRename(p)
        PROVE  lock' \in Records /\ lock'.owner = lock.owner /\ lock'.call = lock.call
    <3>1. lock = Mine(p) /\ lock' = [owner |-> p, call |-> call[p], beat |-> beat[p] + 1]
      BY <2>3 DEF BeatRename
    <3> QED BY <3>1 DEF Mine, Records, IInv, TypeOK
  <2>4. ASSUME NEW p \in Procs, LinkPublish(p) PROVE FALSE
    BY <2>4, FileAssumption DEF LinkPublish
  <2>5. CASE Tick
    BY <2>5 DEF Tick
  <2>6. ASSUME NEW p \in Procs, Step(p), ~LinkPublish(p), ~BeatRename(p),
               ~(UnlinkStale(p) \/ AbortDrop(p) \/ Drop(p))
        PROVE  lock' = lock
    <3>1. Quiet(p) \/ Start(p) \/ ClassifyDead(p) \/ ClassifyUnproven(p)
      BY <2>6, QuietSteps
    <3> QED BY <3>1 DEF Quiet, Start, ClassifyDead, ClassifyUnproven
  <2> QED BY <2>2, <2>3, <2>4, <2>5, <2>6 DEF Next
<1> QED BY <1>1, InitIInv, NextIInv, PTL DEF Spec, LiveRecordStays

\* Steps that grant nothing end some leases of the table, or none.
LEMMA EndStep ==
  ASSUME \A p \in Procs : Granted'[p] \in {Granted[p], NoFile}
  PROVE  Promise!TableNext
<1> DEFINE gone == {p \in Procs : Granted'[p] = NoFile}
<1>1. Granted' = [p \in Procs |-> Granted'[p]]
  BY DEF Granted
<1>2. Granted' = [p \in Procs |-> IF p \in gone THEN NoFile ELSE Granted[p]]
  BY <1>1
<1>3. Promise!End(gone)
  BY <1>2 DEF Promise!End
<1> QED BY <1>3 DEF Promise!TableNext

\* A link grants the lock: the path was free, so nobody else is active.
LEMMA GrantStep ==
  ASSUME IInv, NEW p \in Procs, LinkPublish(p), ~raced
  PROVE  Promise!TableNext
<1> DEFINE m == [exclusive |-> TRUE, scope |-> {"path"}]
<1>1. /\ pc[p] \in {"link", "relink"} /\ pc'[p] = "verify" /\ lock = NoFile /\ raced' = raced
      /\ \A q \in Procs : q # p => pc'[q] = pc[q]
  BY DEF LinkPublish, Go, IInv, TypeOK
<1>2. \A q \in Procs : pc[q] \notin Active
  BY <1>1, MineType, FileAssumption DEF Protected, IInv
<1>3. \A q \in Procs : Granted[q] = NoFile
  BY <1>2 DEF Granted, Active
<1>4. \A q \in Procs : Granted'[q] = IF q = p THEN m ELSE NoFile
  BY <1>1, <1>2 DEF Granted, Active, Publishing
<1>5. Granted' = [Granted EXCEPT ![p] = m]
  BY <1>3, <1>4 DEF Granted
<1>6. Promise!Grant(p, m)
  BY <1>3, <1>5 DEF Promise!Grant
<1>7. m \in Promise!Modes
  BY DEF Promise!Modes
<1> QED BY <1>6, <1>7 DEF Promise!TableNext

\* Until the first race, the lock implements the table of leases, for any number of
\* processes, hosts, calls and heartbeats: one caller at a time from the link to the unlink.
THEOREM LockImplementsTable == Spec => ImplementsTable
<1>1. Init => Promise!TableInit
  BY DEF Init, Promise!TableInit, Granted, Publishing, Critical
<1>2. IInv /\ [Next]_vars => [Promise!TableNext]_Granted
  <2> SUFFICES ASSUME IInv, [Next]_vars PROVE Promise!TableNext
    OBVIOUS
  <2>1. CASE UNCHANGED vars
    BY <2>1, EndStep DEF vars, Granted
  <2>2. CASE Tick
    BY <2>2, EndStep DEF Tick, Granted
  <2>3. ASSUME NEW p \in Procs, Step(p) PROVE Promise!TableNext
    <3>1. CASE LinkPublish(p) /\ ~raced
      BY <3>1, GrantStep
    <3>2. CASE raced \/ ~LinkPublish(p)
      <4>1. raced => raced'
        <5>1. CASE Quiet(p)
          BY <5>1 DEF Quiet
        <5>2. CASE ~Quiet(p)
          BY <2>3, <5>2, QuietSteps
          DEF Start, LinkPublish, AbortDrop, Drop, UnlinkOwn, ClassifyDead, ClassifyUnproven,
              UnlinkStale, BeatRename
        <5> QED BY <5>1, <5>2
      <4>2. ASSUME ~raced, NEW q \in Procs, pc'[q] \in Active PROVE pc[q] \in Active
        <5>1. CASE Quiet(p)
          BY <4>2, <5>1 DEF Quiet, IInv, TypeOK
        <5>2. CASE ~Quiet(p)
          BY <2>3, <3>2, <4>2, <5>2, QuietSteps
          DEF Start, AbortDrop, Drop, UnlinkOwn, ClassifyDead, ClassifyUnproven, UnlinkStale,
              BeatRename, Go, NotRecovered, IInv, TypeOK, Active, Publishing, Critical
        <5> QED BY <5>1, <5>2
      <4> QED BY <4>1, <4>2, EndStep DEF Granted, Active
    <3> QED BY <3>1, <3>2
  <2> QED BY <2>1, <2>2, <2>3 DEF Next
<1> QED BY <1>1, <1>2, InitIInv, NextIInv, PTL DEF Spec, ImplementsTable, Promise!TableSpec
=============================================================================
