------------------------------ MODULE FileLock ------------------------------
(***************************************************************************)
(* The cooperative interprocess file lock of packages/core/src/lib/        *)
(* file-lock.ts, one system call (or one read of the path) per action.     *)
(*                                                                         *)
(* A caller publishes a complete record by hard-linking a private          *)
(* temporary to the lock path, retires the temporary, runs its callback    *)
(* while a timer replaces the record (the heartbeat), and unlinks the      *)
(* record when the callback returns.  A contender that finds a record      *)
(* whose owner is proven dead, or (an owner on another host) whose record  *)
(* it saw unchanged for a whole horizon, unlinks the path and tries again. *)
(*                                                                         *)
(* File contents and stat results are abstracted to an identity <<owner,   *)
(* call, beat>>: two observations are sameSnapshot iff identities agree.   *)
(* Monotonic time is a tick of one heartbeat period (action Tick).         *)
(***************************************************************************)
EXTENDS Naturals, FiniteSets

CONSTANTS
    Procs,      \* process incarnations that use the lock
    Host,       \* [Procs -> hosts]: the proven host of each process
    Sync,       \* processes whose callback is synchronous: it blocks the heartbeat timer
    NoFile,     \* nothing is at the lock path, or nothing was observed
    Corrupt,    \* a regular file that holds no valid record (unreadable or invalid)
    Leftovers,  \* what may be at the lock path to begin with
    Horizon,    \* ticks a foreign record must stay unchanged before removal
    MaxCalls,   \* bound: calls of withFileLock per process
    MaxBeats,   \* bound: heartbeats per call
    MayCrash    \* processes that may crash

ASSUME HostAssumption == DOMAIN Host = Procs
ASSUME BoundsAssumption == /\ Horizon \in Nat
                           /\ MaxCalls \in Nat
                           /\ MaxBeats \in Nat
ASSUME ProcsAssumption == Sync \subseteq Procs /\ MayCrash \subseteq Procs

\* LockRecordSnapshot: the identity a read of the lock path returns.  call is the
\* ownerToken of one withFileLock call, beat the inode a heartbeat published.
Records == [owner : Procs, call : Nat, beat : Nat]

ASSUME FileAssumption == /\ NoFile \notin Records
                         /\ Corrupt \notin Records /\ Corrupt # NoFile
                         /\ Leftovers \subseteq {NoFile, Corrupt}

\* normalizeLockPolicy keeps staleMs at least three heartbeat periods.  A synchronous
\* callback cannot heartbeat, so its lock is not shared with another host.
ASSUME HorizonAssumption == /\ Horizon >= 2
                            /\ \A p \in Sync, q \in Procs : Host[p] = Host[q]

VARIABLES
    lock,     \* the record at the lock path, or NoFile
    temp,     \* temp[p]: the call whose publication temporary is a second link, 0 if none
    pc,       \* where each process is in withFileLock
    call,     \* calls begun by each process
    beat,     \* heartbeats published in the current call
    seen,     \* the snapshot the process acts on
    obs,      \* LockStaleTracker: the snapshot under observation
    age,      \* ticks since obs was first observed
    beaten,   \* the process published or replaced its record in this tick
    live,     \* live[p]: owners p's probe cache reports present for this call
    raced     \* ghost: an unlink or rename hit another record than the one just checked

vars == <<lock, temp, pc, call, beat, seen, obs, age, beaten, live, raced>>

Critical == {"held", "renaming"}
Publishing == {"verify", "retire", "revalidate"}
Finished == {"failed", "malformed", "timeout", "dead"}
Control == Critical \cup Publishing \cup Finished \cup
           {"idle", "link", "relink", "read", "settle", "settled", "confirm", "classify",
            "recheck", "guard", "unlink", "poll", "wait", "drop", "abort", "abortDrop"}

Snapshots == Records \cup {NoFile, Corrupt}

TypeOK ==
    /\ lock \in Snapshots
    /\ temp \in [Procs -> Nat]
    /\ pc \in [Procs -> Control]
    /\ call \in [Procs -> Nat]
    /\ beat \in [Procs -> Nat]
    /\ seen \in [Procs -> Snapshots]
    /\ obs \in [Procs -> Snapshots]
    /\ age \in [Procs -> Nat]
    /\ beaten \in [Procs -> BOOLEAN]
    /\ live \in [Procs -> SUBSET Procs]
    /\ raced \in BOOLEAN

Init ==
    /\ lock \in Leftovers
    /\ temp = [p \in Procs |-> 0]
    /\ pc = [p \in Procs |-> "idle"]
    /\ call = [p \in Procs |-> 0]
    /\ beat = [p \in Procs |-> 0]
    /\ seen = [p \in Procs |-> NoFile]
    /\ obs = [p \in Procs |-> NoFile]
    /\ age = [p \in Procs |-> 0]
    /\ beaten = [p \in Procs |-> FALSE]
    /\ live = [p \in Procs |-> {}]
    /\ raced = FALSE

-----------------------------------------------------------------------------
\* Variant: the probe takes a process busy in its callback for an absent one.
AliveUnlessBusy(p) == pc[p] \notin {"dead", "held"}

Alive(p) == pc[p] # "dead"

\* The record p has published in its current call.
Mine(p) == [owner |-> p, call |-> call[p], beat |-> beat[p]]

\* The record carries the ownerToken of p's current call.
OwnToken(p, r) == r \in Records /\ r.owner = p /\ r.call = call[p]

\* nlink = 2: the publication temporary of the record still exists.
Linked(r) == r \in Records /\ r.beat = 0 /\ temp[r.owner] = r.call /\ r.call # 0

\* readLockSnapshot completes an interrupted publication it meets, whoever reads.
Settled == IF Linked(lock) THEN [temp EXCEPT ![lock.owner] = 0] ELSE temp

Go(p, label) == pc' = [pc EXCEPT ![p] = label]

ResetObservation(p) ==
    /\ obs' = [obs EXCEPT ![p] = NoFile]
    /\ age' = [age EXCEPT ![p] = 0]

\* Variant: the horizon is not awaited.
UnchangedAtOnce(p) == obs[p] = seen[p]

\* unchangedForRecoveryHorizon, when it returns true.
Unchanged(p) == obs[p] = seen[p] /\ age[p] >= Horizon

SameHost(p, q) == Host[p] = Host[q]

\* Variant: the local process table is asked about owners of other hosts.
ProbedAnywhere(p, r) == r \in Records

\* The process p can probe names the owner of r: the record is valid and of p's host.
Probed(p, r) == r \in Records /\ SameHost(p, r.owner)

-----------------------------------------------------------------------------
\* withFileLock is called: fresh ownerToken, tracker and process inspector.
Start(p) ==
    /\ pc[p] = "idle" /\ call[p] < MaxCalls
    /\ call' = [call EXCEPT ![p] = @ + 1]
    /\ beat' = [beat EXCEPT ![p] = 0]
    /\ seen' = [seen EXCEPT ![p] = NoFile]
    /\ ResetObservation(p)
    /\ live' = [live EXCEPT ![p] = {}]
    /\ Go(p, "link")
    /\ UNCHANGED <<lock, temp, beaten, raced>>

\* Variant: the record is renamed over the path instead of linked to a free path.
LinkOverwriting(p) ==
    /\ pc[p] \in {"link", "relink"}
    /\ lock' = Mine(p)
    /\ temp' = [temp EXCEPT ![p] = call[p]]
    /\ beaten' = [beaten EXCEPT ![p] = TRUE]
    /\ Go(p, "verify")
    /\ UNCHANGED <<call, beat, seen, obs, age, live, raced>>

\* tryAcquireLock up to linkSync: the temporary is complete before it is linked.
LinkPublish(p) ==
    /\ pc[p] \in {"link", "relink"}
    /\ lock = NoFile
    /\ lock' = Mine(p)
    /\ temp' = [temp EXCEPT ![p] = call[p]]
    /\ beaten' = [beaten EXCEPT ![p] = TRUE]
    /\ Go(p, "verify")
    /\ UNCHANGED <<call, beat, seen, obs, age, live, raced>>

\* linkSync reports EEXIST.  The first attempt goes on to read the record, the one
\* made because the path was missing goes to the deadline check.
LinkExists(p) ==
    /\ pc[p] \in {"link", "relink"}
    /\ lock # NoFile
    /\ Go(p, IF pc[p] = "link" THEN "read" ELSE "wait")
    /\ UNCHANGED <<lock, temp, call, beat, seen, obs, age, beaten, live, raced>>

\* Both links are compared: target and temporary are one file with two links.
VerifyPublished(p) ==
    /\ pc[p] = "verify"
    /\ Go(p, IF lock = Mine(p) /\ Linked(lock) THEN "retire" ELSE "abort")
    /\ UNCHANGED <<lock, temp, call, beat, seen, obs, age, beaten, live, raced>>

\* unlinkExactPath(tempPath): false when the temporary is gone or changed.
RetireTemp(p) ==
    /\ pc[p] = "retire"
    /\ IF lock = Mine(p) /\ Linked(lock)
         THEN Go(p, "revalidate") /\ temp' = [temp EXCEPT ![p] = 0]
         ELSE Go(p, "abort") /\ UNCHANGED temp
    /\ UNCHANGED <<lock, call, beat, seen, obs, age, beaten, live, raced>>

\* The settled record is re-read; then the callback and the heartbeat timer start.
Revalidate(p) ==
    /\ pc[p] = "revalidate"
    /\ Go(p, IF lock = Mine(p) THEN "held" ELSE "abort")
    /\ temp' = Settled
    /\ UNCHANGED <<lock, call, beat, seen, obs, age, beaten, live, raced>>

\* The publication failed: removeLockIfOwned reads the path, the error is rethrown.
Abort(p) ==
    /\ pc[p] = "abort"
    /\ temp' = Settled
    /\ IF OwnToken(p, lock)
         THEN Go(p, "abortDrop") /\ seen' = [seen EXCEPT ![p] = lock]
         ELSE Go(p, "failed") /\ UNCHANGED seen
    /\ UNCHANGED <<lock, call, beat, obs, age, beaten, live, raced>>
\* unlinkSync of the owner's own record after the guard (release and abort paths).
UnlinkOwn(p, label, next) ==
    /\ pc[p] = label
    /\ raced' = (raced \/ lock \notin {NoFile, seen[p]})
    /\ lock' = NoFile
    /\ Go(p, next)
    /\ UNCHANGED <<temp, call, beat, seen, obs, age, beaten, live>>

AbortDrop(p) == UnlinkOwn(p, "abortDrop", "failed")

\* readLockSnapshot: the path is missing, a linked publication, or a record.
ReadMissing(p) ==
    /\ pc[p] = "read" /\ lock = NoFile
    /\ ResetObservation(p)
    /\ Go(p, "relink")
    /\ UNCHANGED <<lock, temp, call, beat, seen, beaten, live, raced>>

ReadRecord(p) ==
    /\ pc[p] = "read" /\ lock # NoFile
    /\ seen' = [seen EXCEPT ![p] = lock]
    /\ Go(p, IF Linked(lock) THEN "settle" ELSE "classify")
    /\ UNCHANGED <<lock, temp, call, beat, obs, age, beaten, live, raced>>

\* settlePublicationTempLink: the reader removes the owner's temporary, or finds it
\* gone, or finds it to be another file than the record it inspected.
SettleTemp(p) ==
    /\ pc[p] = "settle"
    /\ \/ /\ lock = seen[p] /\ Linked(lock)
          /\ temp' = Settled
          /\ Go(p, "settled")
          /\ UNCHANGED <<obs, age>>
       \/ /\ temp[seen[p].owner] # seen[p].call
          /\ Go(p, "confirm")
          /\ UNCHANGED <<temp, obs, age>>
       \/ /\ lock # seen[p] /\ temp[seen[p].owner] = seen[p].call
          /\ ResetObservation(p)
          /\ Go(p, "malformed")
          /\ UNCHANGED temp
    /\ UNCHANGED <<lock, call, beat, seen, beaten, live, raced>>

\* classifySinglePublishedLink: a single link of the same inode is read again.  Any
\* other path is churn to the reader that removed the temporary; to the reader that
\* found it gone a missing path is churn and another file is unsafe.
ConfirmSingleLink(p) ==
    /\ pc[p] \in {"settled", "confirm"}
    /\ IF lock = seen[p]
         THEN Go(p, "read") /\ UNCHANGED <<obs, age>>
         ELSE /\ Go(p, IF pc[p] = "settled" \/ lock = NoFile THEN "wait" ELSE "malformed")
              /\ ResetObservation(p)
    /\ UNCHANGED <<lock, temp, call, beat, seen, beaten, live, raced>>

\* classifyOwnerForRecovery on the record read.  A probe that finds the owner present
\* is cached for the whole call; absence of a same-host owner is proof of its death.
ClassifyLive(p) ==
    /\ pc[p] = "classify" /\ Probed(p, seen[p])
    /\ LET o == seen[p].owner
       IN  /\ Alive(o) \/ o \in live[p]
           /\ live' = [live EXCEPT ![p] = @ \cup {o}]
    /\ ResetObservation(p)
    /\ Go(p, "wait")
    /\ UNCHANGED <<lock, temp, call, beat, seen, beaten, raced>>

\* Variant: a proven death waits for the unchanged horizon as well.
ClassifyDeadObserving(p) ==
    /\ pc[p] = "classify" /\ Probed(p, seen[p])
    /\ ~Alive(seen[p].owner) /\ seen[p].owner \notin live[p]
    /\ obs' = [obs EXCEPT ![p] = seen[p]]
    /\ Go(p, IF Unchanged(p) THEN "recheck" ELSE "wait")
    /\ UNCHANGED <<lock, temp, call, beat, seen, age, beaten, live, raced>>

ClassifyDead(p) ==
    /\ pc[p] = "classify" /\ Probed(p, seen[p])
    /\ ~Alive(seen[p].owner) /\ seen[p].owner \notin live[p]
    /\ Go(p, "recheck")
    /\ UNCHANGED <<lock, temp, call, beat, seen, obs, age, beaten, live, raced>>

\* An owner on another host, or a file without a valid record, can only be observed.
ClassifyUnproven(p) ==
    /\ pc[p] = "classify" /\ ~Probed(p, seen[p])
    /\ IF obs[p] = seen[p]
         THEN UNCHANGED <<obs, age>>
         ELSE /\ obs' = [obs EXCEPT ![p] = seen[p]]
              /\ age' = [age EXCEPT ![p] = 0]
    /\ Go(p, IF Unchanged(p) THEN "recheck" ELSE "wait")
    /\ UNCHANGED <<lock, temp, call, beat, seen, beaten, live, raced>>

\* The exact snapshot is read again, and its owner probed again without the cache.
Recheck(p) ==
    /\ pc[p] = "recheck"
    /\ temp' = Settled
    /\ IF lock # seen[p] \/ (Probed(p, seen[p]) /\ Alive(seen[p].owner))
         THEN ResetObservation(p) /\ Go(p, "wait")
         ELSE /\ Go(p, IF Probed(p, seen[p]) \/ Unchanged(p) THEN "guard" ELSE "wait")
              /\ UNCHANGED <<obs, age>>
    /\ UNCHANGED <<lock, call, beat, seen, beaten, live, raced>>

\* A recovery that failed: a record's goes through the deadline check, a corrupt
\* file's is retried at once.
NotRecovered(p) == Go(p, IF seen[p] = Corrupt THEN "poll" ELSE "wait")

\* unlinkSnapshotIfCurrent up to its last lstat.
Guard(p) ==
    /\ pc[p] = "guard"
    /\ temp' = Settled
    /\ IF lock = seen[p] THEN Go(p, "unlink") ELSE NotRecovered(p)
    /\ UNCHANGED <<lock, call, beat, seen, obs, age, beaten, live, raced>>

\* unlinkSync removes whatever is at the path; ENOENT is a failed recovery.
UnlinkStale(p) ==
    /\ pc[p] = "unlink"
    /\ raced' = (raced \/ lock \notin {NoFile, seen[p]})
    /\ lock' = NoFile
    /\ IF lock = NoFile
         THEN NotRecovered(p) /\ UNCHANGED <<obs, age>>
         ELSE Go(p, "poll") /\ ResetObservation(p)
    /\ UNCHANGED <<temp, call, beat, seen, beaten, live>>

\* Variant: the retry leaves the loop of evaluateLockContention for no known state.
PollAborted(p) ==
    /\ pc[p] \in {"poll", "wait"}
    /\ Go(p, "retry")
    /\ UNCHANGED <<lock, temp, call, beat, seen, obs, age, beaten, live, raced>>

\* A retry outcome: poll, then the next evaluateLockContention.
Poll(p) ==
    /\ pc[p] \in {"poll", "wait"}
    /\ Go(p, "link")
    /\ UNCHANGED <<lock, temp, call, beat, seen, obs, age, beaten, live, raced>>

\* Variant: the loop does not look at the deadline.
TimeoutIgnored(p) == FALSE /\ UNCHANGED vars

\* The monotonic deadline has passed where the loop looks at it.
Timeout(p) ==
    /\ pc[p] = "wait"
    /\ temp' = Settled
    /\ Go(p, "timeout")
    /\ UNCHANGED <<lock, call, beat, seen, obs, age, beaten, live, raced>>

\* The heartbeat timer fires during an asynchronous callback.  The record is read,
\* the replacement prepared, the record re-read twice; then comes renameSync.
BeatCheck(p) ==
    /\ pc[p] = "held" /\ p \notin Sync
    /\ ~beaten[p] /\ beat[p] < MaxBeats
    /\ lock = Mine(p)
    /\ Go(p, "renaming")
    /\ UNCHANGED <<lock, temp, call, beat, seen, obs, age, beaten, live, raced>>

BeatRename(p) ==
    /\ pc[p] = "renaming"
    /\ raced' = (raced \/ lock # Mine(p))
    /\ beat' = [beat EXCEPT ![p] = @ + 1]
    /\ lock' = [owner |-> p, call |-> call[p], beat |-> beat[p] + 1]
    /\ beaten' = [beaten EXCEPT ![p] = TRUE]
    /\ Go(p, "held")
    /\ UNCHANGED <<temp, call, seen, obs, age, live>>

\* The callback returns or throws: removeLockIfOwned in finally.
Finish(p) ==
    /\ pc[p] = "held"
    /\ temp' = Settled
    /\ IF OwnToken(p, lock)
         THEN Go(p, "drop") /\ seen' = [seen EXCEPT ![p] = lock]
         ELSE Go(p, "idle") /\ UNCHANGED seen
    /\ UNCHANGED <<lock, call, beat, obs, age, beaten, live, raced>>

Drop(p) == UnlinkOwn(p, "drop", "idle")

\* The process dies between two system calls.
Crash(p) ==
    /\ p \in MayCrash /\ pc[p] \notin Finished \cup {"idle"}
    /\ Go(p, "dead")
    /\ UNCHANGED <<lock, temp, call, beat, seen, obs, age, beaten, live, raced>>

\* One heartbeat period passes.  A live asynchronous owner is scheduled at least once
\* a period, so it has replaced its record since the last tick (setInterval).
Punctual(p) == pc[p] \in Critical \cup Publishing /\ p \notin Sync => beaten[p]

Tick ==
    /\ \E p \in Procs : obs[p] # NoFile /\ age[p] < Horizon
    /\ \A p \in Procs : Punctual(p)
    /\ age' = [p \in Procs |-> IF obs[p] # NoFile /\ age[p] < Horizon
                                 THEN age[p] + 1 ELSE age[p]]
    /\ beaten' = [p \in Procs |-> FALSE]
    /\ UNCHANGED <<lock, temp, pc, call, beat, seen, obs, live, raced>>

-----------------------------------------------------------------------------
Publish(p) == LinkPublish(p) \/ VerifyPublished(p) \/ RetireTemp(p) \/ Revalidate(p)
Read(p) == ReadMissing(p) \/ ReadRecord(p) \/ SettleTemp(p) \/ ConfirmSingleLink(p)
Recover(p) == ClassifyLive(p) \/ ClassifyDead(p) \/ ClassifyUnproven(p)
              \/ Recheck(p) \/ Guard(p) \/ UnlinkStale(p)
Unwind(p) == Abort(p) \/ AbortDrop(p) \/ Finish(p) \/ Drop(p)

\* What a process does once it is in withFileLock, whatever time does.
Proceed(p) == Publish(p) \/ LinkExists(p) \/ Read(p) \/ Recover(p) \/ Unwind(p)
              \/ Poll(p) \/ BeatRename(p)

Step(p) == Start(p) \/ Proceed(p) \/ Timeout(p) \/ BeatCheck(p) \/ Crash(p)

Next == Tick \/ \E p \in Procs : Step(p)

Spec == Init /\ [][Next]_vars

\* The operating system schedules every live process and its timers; the deadline of
\* a call passes, so a loop that keeps reaching the deadline check times out.
Fairness == /\ \A p \in Procs : WF_vars(Proceed(p)) /\ WF_vars(BeatCheck(p))
            /\ \A p \in Procs : SF_vars(Timeout(p)) /\ WF_vars(Finish(p))
            /\ WF_vars(Tick)

FairSpec == Spec /\ Fairness

-----------------------------------------------------------------------------
\* Processes whose callback is running.
Inside == {p \in Procs : pc[p] \in Critical}

\* Two callbacks never run at once: withFileLock is "an exclusive file lock".
MutualExclusion == \A p, q \in Inside : p = q

\* The only way to lose exclusion is the window between the last check of a path and
\* the unlink or rename of it: as long as no system call hit another record than the
\* one just checked, at most one callback runs, through crashes, recoveries by several
\* contenders, interrupted publications, heartbeats and foreign observers.
ExclusiveUnlessRaced == ~raced => MutualExclusion

\* What the path grants, from linkSync to the last unlink, in the terms of LeaseTable: one
\* exclusive lease, of which nothing is promised any more after the first race.
Granted == [p \in Procs |-> IF pc[p] \in Publishing \cup Critical /\ ~raced
                              THEN [exclusive |-> TRUE, scope |-> {"path"}] ELSE NoFile]
Promise == INSTANCE LeaseTable WITH holding <- Granted, Handles <- Procs,
                                    Dimensions <- {"path"}, NoLease <- NoFile

\* Links, checks, renames and unlinks of one path implement the table of leases: linkSync
\* grants the lock in one step, to one caller, and only when nobody publishes or is inside.
ImplementsTable == Promise!TableSpec

\* A callback that runs is protected by a record that names it: nobody recovered,
\* settled or replaced the record of a live owner.
InsideOwnsRecord == ~raced => \A p \in Inside : lock = Mine(p)

\* Neither the process probe with its cache, nor the settling of a publication, nor the
\* unchanged horizon of a foreign observer condemns a live owner: without a race, the
\* record of a caller that publishes or runs its callback stays, but for its heartbeat.
LiveRecordStays ==
    [][(/\ lock \in Records /\ ~raced'
        /\ pc[lock.owner] \in Publishing \cup Critical
        /\ call[lock.owner] = lock.call)
       => lock' \in Records /\ lock'.owner = lock.owner /\ lock'.call = lock.call]_vars

\* Every call of withFileLock ends: with a result, a timeout, an error or a crash.
EveryCallReturns == \A p \in Procs : pc[p] = "link" ~> pc[p] \in Finished \cup {"idle"}

\* "Proven-dead owners can be reclaimed immediately": a contender that begins an attempt
\* on the record of an owner that died on its host, and that it did not see alive in
\* this call, gets rid of that record without waiting.
DeadOwnerReclaimed ==
    \A p \in Procs : \A c \in 1..MaxCalls : \A o \in Procs \ {p} :
       (/\ pc[p] = "link" /\ lock \in Records /\ lock.owner = o /\ lock.call = c
        /\ ~Alive(o) /\ SameHost(p, o) /\ o \notin live[p])
       ~> (~(lock \in Records /\ lock.owner = o) \/ ~Alive(p))

\* The documented outcomes of a call under contention: the result of the callback,
\* TimeoutError, or SystemError when lock metadata is malformed.  No metadata is ever
\* malformed here, so no call may end with another error, nor with that one.
PublicationNeverFails == \A p \in Procs : pc[p] # "failed"
NeverMalformed == \A p \in Procs : pc[p] # "malformed"
=============================================================================
