-------------------------- MODULE RuntimePromotion --------------------------
(***************************************************************************)
(* `opensip init` adopts the runtime of a project                          *)
(* (packages/cli/src/commands/init/runtime-promotion-*.ts and              *)
(* authored-state-transaction-*.ts): the cached runtime is copied to a     *)
(* stage, the project's own runtime is moved to a backup, the stage is     *)
(* renamed to the destination, the authored files are written, and the     *)
(* cached runtime is retired to a tombstone.  A journal records an intent  *)
(* before each of these steps and its postcondition after it.  A failure   *)
(* rolls back where the journal allows it; a process that dies leaves the  *)
(* journal to the recovery, which another run starts under an exclusive    *)
(* lease, so that at most one process works on a project (RuntimeLease).   *)
(*                                                                         *)
(* A write of the journal is atomic (its publication is the one UserRemoval *)
(* models for the receipt).  Between an intent and its postcondition the   *)
(* process runs the procedure of the intent: `todo` is what is left of it, *)
(* calls of other procedures and single mutations of the file system, and  *)
(* the process can stop before each.                                       *)
(*                                                                         *)
(* Nobody else changes these files.  Contents are told apart as far as the *)
(* manifests do: "new" is a copy of the cached runtime, "old" the runtime  *)
(* the project had, and "rest" a tree that has lost some of its entries.   *)
(* The three artifacts of the authored transaction are one tree.           *)
(***************************************************************************)
EXTENDS Naturals, Sequences

CONSTANTS
    Projects,    \* what init may find, and the route it selects for it
    MaxFaults    \* bound: crashes and failures

Routes == {"authored-only", "project-authority", "promote-cache", "keep-project"}

\* The route of each posture (deduplicate-cache runs as keep-project does), the directory
\* opensip-cli and the runtime in it before the run, and the number of authored targets: a
\* directory that is missing is the first of them.
Selections == {p \in [route : Routes, parentPre : BOOLEAN, destPre : BOOLEAN, targets : Nat] :
                  /\ p.destPre => p.parentPre
                  /\ p.route = "authored-only" => ~p.destPre
                  /\ p.route \in {"project-authority", "keep-project"} => p.destPre
                  /\ ~p.parentPre => p.targets > 0}

ASSUME ProjectsAssumption == Projects \subseteq Selections
ASSUME FaultsAssumption == MaxFaults \in Nat

Roots == {"parent", "parentStage", "stage", "destination", "backup", "source", "tombstone",
          "artifacts"}
Contents == {"none", "dir", "old", "new", "cache", "empty", "torn", "partial", "marked", "rest",
             "all"}
Marks == {"parentOwner", "backupOwner", "tombstoneOwner", "stageCleanup", "backupCleanup",
          "tombstoneCleanup", "rollback"}
Slots == {"destinationParent", "runtimeStage", "destinationBackup", "sourceTombstone", "authored"}

ForwardPhases == {"prepared", "source-verified", "destination-verified", "authored-prepared",
                  "destination-ready", "runtime-staged", "destination-backed-up",
                  "runtime-installed", "authored-committed", "source-retired",
                  "authority-verified", "committed"}
RollbackPhases == {"rollback-started", "runtime-rolled-back", "authored-rolled-back",
                   "rolled-back"}
CleanupPhases == {"closed", "cleanup"}   \* the journal's state is "closed"
Phases == ForwardPhases \cup RollbackPhases \cup CleanupPhases \cup {"unlinked"}

Kinds == {"destination-parent-create", "runtime-stage-create", "destination-backup-create",
          "destination-install", "authored-prepare", "authored-target-commit", "source-retire",
          "runtime-rollback", "authored-target-rollback", "owned-slot-cleanup"}

\* What a process may have left to do: mutations, calls, or to refuse.
Mutations == [op : {"put"}, on : Roots, to : Contents] \cup [op : {"move"}, on : Roots, to : Roots]
             \cup [op : {"publish", "unlink"}, on : Marks, to : {"none"}]
             \cup [op : {"write", "erase"}, on : {"files"}, to : {"none"}]
Procedures == Kinds \cup {"remove-stage", "remove-parent", "remove-created-parent",
                          "remove-installed", "restore-backup", "expect-no-destination",
                          "settle-parent"}
Calls == [op : {"call"}, on : Procedures, to : {"none"}]
Refusal == [op |-> "refuse", on |-> "files", to |-> "none"]
Steps == Mutations \cup Calls \cup {Refusal}

VARIABLES
    project,   \* what init has found
    j,         \* the journal; its direction is in the phase, phase "unlinked" is no journal
    fs,        \* the trees, the markers beside them, and how many authored files are written
    run,       \* the process that works on it: how it came to it, and what it has left to do
    faults

vars == <<project, j, fs, run, faults>>

Journals == [phase : Phases, pend : Kinds \cup {"none"}, term : {"none", "committed", "rolled-back"},
             install : {"not-installed", "installed", "rolled-back", "backup-restored"},
             ac : Nat, rc : Nat,    \* authoredCursor and rollbackCursor
             slot : [Slots -> {"unmaterialized", "pending", "removed"}]]
FileSystems == [root : [Roots -> Contents], mark : [Marks -> {"none", "torn", "exact"}],
                files : Nat]
Runs == [mode : {"none", "fresh", "undo", "recover"}, todo : Seq(Steps)]
NoRun == [mode |-> "none", todo |-> <<>>]

TypeOK ==
    /\ project \in Projects
    /\ j \in Journals
    /\ fs \in FileSystems
    /\ run \in Runs
    /\ faults \in 0..MaxFaults

Promotes == project.route = "promote-cache"
HasSource == project.route \in {"promote-cache", "keep-project"}

Init ==
    /\ project \in Projects
    /\ j = [phase |-> "prepared", pend |-> "none", term |-> "none", install |-> "not-installed",
            ac |-> 0, rc |-> 0, slot |-> [s \in Slots |-> "unmaterialized"]]
    /\ fs = [root |-> [r \in Roots |->
                         CASE r = "parent" /\ project.parentPre -> "dir"
                           [] r = "destination" /\ project.destPre -> "old"
                           [] r = "source" /\ HasSource -> "cache"
                           [] OTHER -> "none"],
             mark |-> [m \in Marks |-> "none"], files |-> 0]
    /\ run = [mode |-> "fresh", todo |-> <<>>]
    /\ faults = 0

-----------------------------------------------------------------------------
(* The file system. *)

Put(r, c) == [op |-> "put", on |-> r, to |-> c]
Move(r, s) == [op |-> "move", on |-> r, to |-> s]
Publish(m) == [op |-> "publish", on |-> m, to |-> "none"]
Unlink(m) == [op |-> "unlink", on |-> m, to |-> "none"]
Files(o) == [op |-> o, on |-> "files", to |-> "none"]
Call(p) == [op |-> "call", on |-> p, to |-> "none"]
Refuse == <<Refusal>>

Apply(o) ==
    CASE o.op = "put" -> [fs EXCEPT !.root[o.on] = o.to]
      [] o.op = "move" -> [fs EXCEPT !.root[o.to] = fs.root[o.on], !.root[o.on] = "none"]
      [] o.op = "publish" -> [fs EXCEPT !.mark[o.on] = "exact"]
      [] o.op = "unlink" -> [fs EXCEPT !.mark[o.on] = "none"]
      [] o.op = "write" -> [fs EXCEPT !.files = fs.files + 1]
      [] o.op = "erase" -> [fs EXCEPT !.files = fs.files - 1]

\* A marker is written in two halves: what a process that stops in between has left.
Torn(o) ==
    CASE o.op = "publish" -> [fs EXCEPT !.mark[o.on] = "torn"]
      [] o = Put("stage", "partial") -> [fs EXCEPT !.root["stage"] = "torn"]
      [] OTHER -> fs

Is(r, c) == fs.root[r] = c
Absent(r) == Is(r, "none")
Exact(m) == fs.mark[m] = "exact"

\* openExactDestinationParent: an opensip-cli this operation has created must be marked as its own.
ParentOpen == Is("parent", "dir") /\ (project.parentPre \/ Exact("parentOwner"))

\* Nothing is left in opensip-cli; the markers of the parent and of the source are beside it.
ParentEmpty ==
    /\ \A r \in {"stage", "destination", "backup"} : Absent(r)
    /\ \A m \in {"backupOwner", "stageCleanup", "backupCleanup", "rollback"} : fs.mark[m] = "none"
    /\ fs.files = 0

InParent(plan) == IF ParentOpen THEN plan ELSE Refuse

\* Mutant: a marker that a process before has published is not taken for this one's.
EnsureOwnerFresh(m) == IF fs.mark[m] = "none" THEN <<Publish(m)>> ELSE Refuse

\* A marker that must be there before the next step; a torn one proves nothing.
EnsureOwner(m) ==
    CASE fs.mark[m] = "none" -> <<Publish(m)>>
      [] fs.mark[m] = "exact" -> <<>>
      [] fs.mark[m] = "torn" -> Refuse

DropOwner(m) ==
    CASE fs.mark[m] = "none" -> <<>>
      [] fs.mark[m] = "exact" -> <<Unlink(m)>>
      [] fs.mark[m] = "torn" -> Refuse

\* A tree is emptied, the marker of a stage first, and its root removed.
RemoveTree(r) ==
    CASE Absent(r) -> <<>>
      [] Is(r, "torn") -> <<Put(r, "empty"), Put(r, "none")>>
      [] fs.root[r] \in {"empty", "rest"} -> <<Put(r, "none")>>
      [] OTHER -> <<Put(r, "rest"), Put(r, "none")>>

\* cleanupOwnedRuntimeTree: the proof that the cleanup has started is published before the first
\* removal and unlinked last, after the owner marker of the tree if it has one outside.
CleanupOwned(r, proof, verified, owner) ==
    CASE fs.mark[proof] = "torn" -> Refuse
      [] fs.mark[proof] = "none" /\ ~verified -> Refuse
      [] OTHER -> EnsureOwner(proof) \o RemoveTree(r) \o owner \o <<Unlink(proof)>>

-----------------------------------------------------------------------------
(* The procedures of the forward direction. *)

CreateParent ==
    CASE Is("parent", "dir") ->
           IF Absent("parentStage") /\ Exact("parentOwner") /\ ParentEmpty THEN <<>> ELSE Refuse
      [] Absent("parent") /\ Is("parentStage", "dir") ->
           EnsureOwner("parentOwner") \o <<Move("parentStage", "parent")>>
      [] OTHER ->
           IF fs.mark["parentOwner"] # "none" THEN Refuse
           ELSE <<Put("parentStage", "dir"), Publish("parentOwner"), Move("parentStage", "parent")>>

\* The stage: its root, its own marker, the copies, until it is complete and "marked".
CopyStage ==
    IF Is("source", "cache")
    THEN <<Put("stage", "empty"), Put("stage", "partial"), Put("stage", "marked")>>
    ELSE Refuse

StageRuntime ==
    IF fs.mark["stageCleanup"] = "torn" \/ fs.root["stage"] \in {"new", "rest"} THEN Refuse
    ELSE CASE Is("stage", "marked") -> IF Exact("stageCleanup") THEN Refuse ELSE <<>>
           [] Absent("stage") /\ ~Exact("stageCleanup") -> CopyStage
           [] OTHER -> CleanupOwned("stage", "stageCleanup", TRUE, <<>>) \o CopyStage

BackUp ==
    CASE Is("destination", "old") /\ Absent("backup") ->
           EnsureOwner("backupOwner") \o <<Move("destination", "backup")>>
      [] Absent("destination") /\ Is("backup", "old") /\ Exact("backupOwner") -> <<>>
      [] OTHER -> Refuse

BackupReady == IF project.destPre THEN Is("backup", "old") /\ Exact("backupOwner")
               ELSE Absent("backup")

Install ==
    IF ~BackupReady \/ ~(Absent("stage") \/ Absent("destination")) THEN Refuse
    ELSE CASE Is("stage", "marked") -> <<Put("stage", "new"), Move("stage", "destination")>>
           [] Is("stage", "new") -> <<Move("stage", "destination")>>
           [] Absent("stage") /\ Is("destination", "new") -> <<>>
           [] OTHER -> Refuse

\* The runtime a committed promotion leaves in the project, where there is one.
Successor == Is("destination", IF Promotes THEN "new" ELSE "old")

RetireSource ==
    IF ~Successor THEN Refuse
    ELSE CASE Is("source", "cache") /\ Absent("tombstone") ->
                EnsureOwner("tombstoneOwner") \o <<Move("source", "tombstone")>>
           [] Absent("source") /\ Is("tombstone", "cache") /\ Exact("tombstoneOwner") -> <<>>
           [] OTHER -> Refuse

\* The artifacts of the authored transaction; a recovery aborts a preparation that was interrupted.
PrepareAuthored ==
    IF run.mode = "fresh" THEN <<Put("artifacts", "partial"), Put("artifacts", "all")>>
    ELSE IF Absent("artifacts") THEN <<>> ELSE <<Put("artifacts", "none")>>

\* The first k targets, without a directory opensip-cli, are FilesOf(k) files.
FilesOf(k) == IF project.parentPre \/ k = 0 THEN k ELSE k - 1
IsDirectory(k) == ~project.parentPre /\ k = 0

CommitTarget ==
    IF IsDirectory(j.ac) THEN IF Is("parent", "dir") THEN <<>> ELSE <<Put("parent", "dir")>>
    ELSE IF fs.files = FilesOf(j.ac + 1) THEN <<>> ELSE <<Files("write")>>

-----------------------------------------------------------------------------
(* The procedures of the rollback. *)

\* Mutant: the replay of an intent does not look whether the file is restored already.
RollBackTargetAgain ==
    IF IsDirectory(j.ac - j.rc - 1) THEN IF Absent("parent") THEN <<>> ELSE <<Call("remove-parent")>>
    ELSE <<Files("erase")>>

RollBackTarget ==
    LET k == j.ac - j.rc - 1 IN
    IF IsDirectory(k) THEN IF Absent("parent") THEN <<>> ELSE <<Call("remove-parent")>>
    ELSE IF fs.files = FilesOf(k) THEN <<>> ELSE <<Files("erase")>>

RemoveParent == IF ParentEmpty THEN <<Put("parent", "none")>> ELSE Refuse

\* removeCreatedParentStage: without a stage its cleanup marker is not looked for.
RemoveStage ==
    IF Absent("stage") THEN <<>>
    ELSE IF j.slot["runtimeStage"] = "unmaterialized" THEN Refuse
    ELSE CleanupOwned("stage", "stageCleanup", Is("stage", "marked"), <<>>)

RollBackRuntime ==
    IF j.install # "installed" /\ ~project.parentPre THEN <<Call("remove-created-parent")>>
    ELSE InParent(
           (CASE j.install = "installed" -> <<Call("remove-installed")>>
              [] j.install # "installed" /\ j.slot["runtimeStage"] = "pending" ->
                   <<Call("remove-stage")>>
              [] OTHER -> <<>>)
           \o <<Call(IF project.destPre THEN "restore-backup" ELSE "expect-no-destination")>>
           \o IF j.install = "installed" THEN <<Call("settle-parent")>> ELSE <<>>)

\* Mutant: where the directory is gone its owner marker is taken to be gone, too.
RemoveCreatedParentOnly ==
    IF Absent("parent") /\ Absent("parentStage") THEN <<>>
    ELSE InParent(<<Call("remove-stage"), Call("remove-parent"), Unlink("parentOwner")>>)

RemoveCreatedParent ==
    IF Absent("parent") /\ Absent("parentStage") THEN DropOwner("parentOwner")
    ELSE IF ~Exact("parentOwner") \/ (Is("parent", "dir") /\ Is("parentStage", "dir")) THEN Refuse
    ELSE IF Is("parent", "dir") THEN
           InParent(<<Call("remove-stage"), Call("remove-parent"), Unlink("parentOwner")>>)
    ELSE <<Put("parentStage", "none"), Unlink("parentOwner")>>

\* Mutant: what is at the destination is removed without telling it from a restored backup.
RemoveInstalledAny ==
    IF Absent("destination") THEN <<>>
    ELSE EnsureOwner("rollback") \o RemoveTree("destination") \o <<Unlink("rollback")>>

\* rollbackInstalledState: the marker names the installed tree and allows to go on removing it;
\* without one, only a destination that is what it was before may be left alone.
RemoveInstalled ==
    CASE fs.mark["rollback"] = "torn" -> Refuse
      [] fs.mark["rollback"] = "exact" ->
           IF Is("destination", "old") THEN Refuse
           ELSE RemoveTree("destination") \o <<Unlink("rollback")>>
      [] fs.mark["rollback"] = "none" ->
           IF \/ Absent("destination")
              \/ project.destPre /\ Absent("backup") /\ Is("destination", "old") THEN <<>>
           ELSE IF Is("destination", "new") THEN
                  <<Publish("rollback")>> \o RemoveTree("destination") \o <<Unlink("rollback")>>
           ELSE Refuse

RestoreBackup ==
    CASE Is("backup", "old") /\ Absent("destination") ->
           IF Exact("backupOwner") THEN <<Move("backup", "destination"), Unlink("backupOwner")>>
           ELSE Refuse
      [] Absent("backup") /\ Is("destination", "old") -> DropOwner("backupOwner")
      [] OTHER -> Refuse

ExpectNoDestination == IF Absent("destination") THEN <<>> ELSE Refuse

SettleParent ==
    IF project.parentPre \/ j.ac > 0 THEN <<>>
    ELSE CASE Is("parentStage", "dir") -> Refuse
           [] Absent("parent") /\ Absent("parentStage") -> DropOwner("parentOwner")
           [] OTHER -> IF Exact("parentOwner")
                       THEN <<Call("remove-parent"), Unlink("parentOwner")>> ELSE Refuse

-----------------------------------------------------------------------------
(* The cleanup of a closed journal. *)

\* Where the runtime is after the terminal outcome, which cleanup checks before it removes a tree.
Authority ==
    CASE project.route = "authored-only" -> "none"
      [] Promotes /\ ~project.destPre /\ j.term = "rolled-back" -> "source"
      [] OTHER -> "destination"
AuthorityPresent == Authority # "none" => ~Absent(Authority)

CleanupExternal(r, owner, proof) ==
    IF fs.mark[owner] = "torn" \/ fs.mark[proof] = "torn" THEN Refuse
    ELSE IF Absent(r) /\ ~Exact(proof) THEN DropOwner(owner)
    ELSE IF \/ ~Exact(owner) /\ ~Exact(proof)
            \/ ~Absent(r) /\ (Authority = "none" \/ ~AuthorityPresent) THEN Refuse
    ELSE CleanupOwned(r, proof, Exact(owner) /\ ~Is(r, "rest"), DropOwner(owner))

\* The slots in the order they are cleaned in; a stage is never pending any more.
CleanupOrder == <<"destinationBackup", "sourceTombstone", "authored", "destinationParent">>
PendingSlots == {s \in Slots : j.slot[s] = "pending"}
CleanupSlot == LET k == CHOOSE k \in 1..4 : /\ CleanupOrder[k] \in PendingSlots
                                            /\ \A i \in 1..(k - 1) : CleanupOrder[i] \notin PendingSlots
               IN CleanupOrder[k]

CleanUp ==
    CASE CleanupSlot = "destinationBackup" ->
           InParent(CleanupExternal("backup", "backupOwner", "backupCleanup"))
      [] CleanupSlot = "sourceTombstone" ->
           CleanupExternal("tombstone", "tombstoneOwner", "tombstoneCleanup")
      [] CleanupSlot = "authored" ->
           IF Absent("artifacts") THEN <<>>
           ELSE <<Put("artifacts", "partial"), Put("artifacts", "none")>>
      [] CleanupSlot = "destinationParent" -> DropOwner("parentOwner")

Body(p) ==
    CASE p = "destination-parent-create" -> CreateParent
      [] p = "runtime-stage-create" -> InParent(StageRuntime)
      [] p = "destination-backup-create" -> InParent(BackUp)
      [] p = "destination-install" -> InParent(Install)
      [] p = "authored-prepare" -> PrepareAuthored
      [] p = "authored-target-commit" -> CommitTarget
      [] p = "source-retire" -> RetireSource
      [] p = "runtime-rollback" -> RollBackRuntime
      [] p = "authored-target-rollback" -> RollBackTarget
      [] p = "owned-slot-cleanup" -> CleanUp
      [] p = "remove-stage" -> RemoveStage
      [] p = "remove-parent" -> RemoveParent
      [] p = "remove-created-parent" -> RemoveCreatedParent
      [] p = "remove-installed" -> RemoveInstalled
      [] p = "restore-backup" -> RestoreBackup
      [] p = "expect-no-destination" -> ExpectNoDestination
      [] p = "settle-parent" -> SettleParent

-----------------------------------------------------------------------------
(* The journal. *)

\* The process is between two records, and nothing of an intent is left open.
Idle == run.mode # "none" /\ j.phase # "unlinked" /\ j.pend = "none"

Record(next) ==
    /\ j' = next
    /\ UNCHANGED <<project, fs, run, faults>>

Advance(phase) == Record([j EXCEPT !.phase = phase])

\* A recovery that finds no authored artifacts prepared turns back; it goes on otherwise.
TurnsBack == \/ j.phase = "destination-verified"
             \/ j.phase = "prepared" /\ project.route = "authored-only"
GoesOn == Idle /\ (run.mode = "fresh" \/ (run.mode = "recover" /\ ~TurnsBack))

VerifySource ==
    /\ GoesOn /\ j.phase = "prepared" /\ HasSource /\ Is("source", "cache")
    /\ Advance("source-verified")

VerifyDestination ==
    /\ GoesOn /\ project.route # "authored-only"
    /\ j.phase = IF HasSource THEN "source-verified" ELSE "prepared"
    /\ Is("destination", IF project.destPre THEN "old" ELSE "none")
    /\ Advance("destination-verified")

\* advancePreexistingDestinationReady
DestinationReady ==
    /\ GoesOn /\ j.phase = "authored-prepared" /\ Promotes /\ project.parentPre
    /\ Advance("destination-ready")

\* The phase the authored targets are committed from.
CommitPhase == IF Promotes THEN "runtime-installed" ELSE "authored-prepared"

Desired == /\ fs.files = FilesOf(project.targets) /\ Is("artifacts", "all")
           /\ ~project.parentPre => Is("parent", "dir")
Preimage == j.slot["authored"] # "unmaterialized" =>
               /\ fs.files = 0 /\ Is("artifacts", "all")
               /\ ~project.parentPre => Absent("parent")

\* executeAuthoredDirection without a target left.
AuthoredCommitted ==
    /\ GoesOn /\ j.phase = CommitPhase /\ j.ac = project.targets
    /\ Advance("authored-committed")

CommittedAuthority == Desired /\ (project.route = "authored-only" \/ Successor)

AuthorityVerified ==
    /\ GoesOn /\ j.phase = IF HasSource THEN "source-retired" ELSE "authored-committed"
    /\ CommittedAuthority
    /\ Advance("authority-verified")

SealCommitted ==
    /\ GoesOn /\ j.phase = "authority-verified" /\ CommittedAuthority
    /\ Record([j EXCEPT !.phase = "committed", !.term = "committed"])

\* beginsRollback: from a verified destination on, until the source is retired.
Reversible == \/ j.phase \in {"destination-verified", "authored-prepared", "destination-ready",
                              "runtime-staged", "destination-backed-up", "runtime-installed",
                              "authored-committed"}
              \/ j.phase = "prepared" /\ project.route = "authored-only"

BeginRollback ==
    /\ Idle /\ Reversible
    /\ run.mode = "undo" \/ (run.mode = "recover" /\ TurnsBack)
    /\ Advance("rollback-started")

runtimeRollbackRequired ==
    \/ j.install = "installed"
    \/ \E s \in {"runtimeStage", "destinationBackup"} : j.slot[s] = "pending"
    \/ ~project.parentPre /\ j.slot["destinationParent"] = "pending"

\* A failed run asks once whether the runtime is to be rolled back; a recovery, at every step.
RollsBackRuntime == /\ runtimeRollbackRequired
                    /\ j.phase = "rollback-started" \/ run.mode = "recover"
RollingBack == Idle /\ j.phase \in {"rollback-started", "runtime-rolled-back"}

\* All targets are rolled back, or there is none.
AuthoredRolledBack ==
    /\ RollingBack /\ ~RollsBackRuntime /\ j.rc = j.ac
    /\ Advance("authored-rolled-back")

RolledBackAuthority == /\ HasSource => Is("source", "cache")
                       /\ project.destPre => Is("destination", "old")
                       /\ Preimage

SealRolledBack ==
    /\ Idle /\ j.phase = "authored-rolled-back" /\ RolledBackAuthority
    /\ Record([j EXCEPT !.phase = "rolled-back", !.term = "rolled-back"])

Close ==
    /\ Idle /\ j.phase \in {"committed", "rolled-back"}
    /\ IF j.term = "committed" THEN CommittedAuthority ELSE RolledBackAuthority
    /\ Advance("closed")

UnlinkJournal ==
    /\ Idle /\ j.phase \in CleanupPhases /\ PendingSlots = {} /\ AuthorityPresent
    /\ j' = [j EXCEPT !.phase = "unlinked"]
    /\ run' = NoRun
    /\ UNCHANGED <<project, fs, faults>>

-----------------------------------------------------------------------------
(* Intents and postconditions. *)

ForwardIntent(kind) ==
    /\ GoesOn
    /\ CASE kind = "authored-prepare" ->
              /\ j.phase = IF project.route = "authored-only" THEN "prepared"
                           ELSE "destination-verified"
              /\ j.slot["authored"] = "unmaterialized"
         [] kind = "destination-parent-create" ->
              j.phase = "authored-prepared" /\ Promotes /\ ~project.parentPre
         [] kind = "runtime-stage-create" -> j.phase = "destination-ready"
         [] kind = "destination-backup-create" -> j.phase = "runtime-staged" /\ project.destPre
         [] kind = "destination-install" ->
              j.phase = IF project.destPre THEN "destination-backed-up" ELSE "runtime-staged"
         [] kind = "authored-target-commit" -> j.phase = CommitPhase /\ j.ac < project.targets
         [] kind = "source-retire" ->
              j.phase = "authored-committed" /\ HasSource /\ CommittedAuthority
         [] OTHER -> FALSE

RollbackIntent(kind) ==
    /\ RollingBack
    /\ CASE kind = "runtime-rollback" -> RollsBackRuntime /\ j.phase = "rollback-started"
         [] kind = "authored-target-rollback" -> ~RollsBackRuntime /\ j.rc < j.ac
         [] OTHER -> FALSE

CleanupIntent(kind) ==
    /\ Idle /\ j.phase \in CleanupPhases /\ kind = "owned-slot-cleanup"
    /\ PendingSlots # {} /\ AuthorityPresent

RecordIntent(kind) ==
    /\ ForwardIntent(kind) \/ RollbackIntent(kind) \/ CleanupIntent(kind)
    /\ j' = [j EXCEPT !.pend = kind]
    /\ run' = [run EXCEPT !.todo = <<Call(kind)>>]
    /\ UNCHANGED <<project, fs, faults>>

\* The journal with the postcondition of the pending intent: the phase, and the slots.
Reaches(phase) == [j EXCEPT !.pend = "none", !.phase = phase]
ReachesWith(phase, slot, state) == [Reaches(phase) EXCEPT !.slot[slot] = state]

Installed ==
    [Reaches("runtime-installed") EXCEPT
        !.install = "installed",
        !.slot["destinationParent"] = IF project.parentPre THEN "unmaterialized" ELSE "pending",
        !.slot["runtimeStage"] = "removed"]

RuntimeRolledBack ==
    LET beforeInstall == j.install = "not-installed"
        removesParent == ~project.parentPre /\ (beforeInstall \/ j.ac = 0)
        Settled(s) == CASE s = "destinationParent" -> removesParent
                        [] s = "runtimeStage" ->
                             j.slot[s] = "pending" /\ (removesParent \/ beforeInstall)
                        [] s = "destinationBackup" -> j.slot[s] = "pending"
                        [] OTHER -> FALSE
    IN [Reaches("runtime-rolled-back") EXCEPT
          !.install = IF beforeInstall /\ project.destPre THEN "backup-restored" ELSE "rolled-back",
          !.slot = [s \in Slots |-> IF Settled(s) THEN "removed" ELSE j.slot[s]]]

Postcondition ==
    CASE j.pend = "authored-prepare" ->
           IF run.mode = "fresh" THEN ReachesWith("authored-prepared", "authored", "pending")
           ELSE Reaches(j.phase)
      [] j.pend = "destination-parent-create" ->
           ReachesWith("destination-ready", "destinationParent", "pending")
      [] j.pend = "runtime-stage-create" -> ReachesWith("runtime-staged", "runtimeStage", "pending")
      [] j.pend = "destination-backup-create" ->
           ReachesWith("destination-backed-up", "destinationBackup", "pending")
      [] j.pend = "destination-install" -> Installed
      [] j.pend = "authored-target-commit" ->
           [Reaches(IF j.ac + 1 = project.targets THEN "authored-committed" ELSE j.phase)
              EXCEPT !.ac = j.ac + 1]
      [] j.pend = "source-retire" -> ReachesWith("source-retired", "sourceTombstone", "pending")
      [] j.pend = "runtime-rollback" -> RuntimeRolledBack
      [] j.pend = "authored-target-rollback" ->
           [Reaches(IF j.rc + 1 = j.ac THEN "authored-rolled-back" ELSE j.phase)
              EXCEPT !.rc = j.rc + 1]
      [] j.pend = "owned-slot-cleanup" -> ReachesWith("cleanup", CleanupSlot, "removed")

\* The loop over the authored targets does not look at the runtime again, whoever runs it.
RecordPostcondition ==
    /\ run.mode # "none" /\ j.pend # "none" /\ run.todo = <<>>
    /\ j' = Postcondition
    /\ run' = [run EXCEPT !.mode = IF j.pend = "authored-target-rollback" THEN "undo" ELSE @]
    /\ UNCHANGED <<project, fs, faults>>

\* The next step of the pending intent's procedure.
Enter ==
    /\ run.todo # <<>> /\ Head(run.todo) \in Calls
    /\ run' = [run EXCEPT !.todo = Body(Head(run.todo).on) \o Tail(run.todo)]
    /\ UNCHANGED <<project, j, fs, faults>>

Mutate ==
    /\ run.todo # <<>> /\ Head(run.todo) \in Mutations
    /\ fs' = Apply(Head(run.todo))
    /\ run' = [run EXCEPT !.todo = Tail(run.todo)]
    /\ UNCHANGED <<project, j, faults>>

-----------------------------------------------------------------------------
(* Failures and recovery. *)

Fault == faults < MaxFaults /\ faults' = faults + 1

\* The process dies, or a call of it fails: an open intent is left to the recovery.
Stop ==
    /\ run.mode # "none"
    /\ Fault
    /\ fs' \in {fs} \cup {Torn(o) : o \in {run.todo[i] : i \in {1} \cap DOMAIN run.todo}}
    /\ run' = NoRun
    /\ UNCHANGED <<project, j>>

\* A call fails between two records of the run itself: it turns back where it can, or goes on
\* with what is sealed already.
Fail ==
    /\ run.mode = "fresh" /\ Idle
    /\ Reversible \/ j.term # "none"
    /\ Fault
    /\ run' = [run EXCEPT !.mode = "undo"]
    /\ UNCHANGED <<project, j, fs>>

\* What a process finds is not what the journal allows: it stops, and the journal stays.
Refused ==
    /\ \/ run.todo # <<>> /\ Head(run.todo) = Refusal
       \/ RollingBack /\ RollsBackRuntime /\ j.phase = "runtime-rolled-back"
    /\ run' = NoRun
    /\ UNCHANGED <<project, j, fs, faults>>

Recover ==
    /\ run.mode = "none" /\ j.phase # "unlinked"
    /\ run' = [mode |-> "recover", todo |-> IF j.pend = "none" THEN <<>> ELSE <<Call(j.pend)>>]
    /\ UNCHANGED <<project, j, fs, faults>>

Progress ==
    \/ VerifySource \/ VerifyDestination \/ DestinationReady
    \/ AuthoredCommitted \/ AuthorityVerified \/ SealCommitted
    \/ BeginRollback \/ AuthoredRolledBack \/ SealRolledBack
    \/ Close \/ UnlinkJournal
    \/ \E kind \in Kinds : RecordIntent(kind)
    \/ RecordPostcondition \/ Enter \/ Mutate \/ Refused

Next == Progress \/ Stop \/ Fail \/ Recover

\* A process works until it is done or stops, and the user runs the recovery until it is done.
Fairness == WF_vars(Progress) /\ WF_vars(Recover)

Spec == Init /\ [][Next]_vars
FairSpec == Spec /\ Fairness

-----------------------------------------------------------------------------
(* Properties. *)

\* The cached runtime is where it was until the project holds its copy, or the runtime it was
\* compared with, and the promotion is past the point of no return; what the project had is there
\* until a promotion that replaces it is closed; and no authored file is changed without the
\* artifacts that can restore it.
SourceKept == HasSource =>
    \/ Is("source", "cache")
    \/ /\ Successor
       /\ Is("tombstone", "cache") \/ j.phase \in CleanupPhases \cup {"unlinked"}

DestinationKept == project.destPre =>
    \/ Is("destination", "old") \/ Is("backup", "old")
    \/ Promotes /\ j.term = "committed" /\ j.phase \in CleanupPhases \cup {"unlinked"}

AuthoredKept == fs.files > 0 =>
    \/ Is("artifacts", "all")
    \/ j.term = "committed" /\ j.phase \in CleanupPhases \cup {"unlinked"}

NothingLost == SourceKept /\ DestinationKept /\ AuthoredKept

\* Once the journal is closed the project is as its terminal outcome says, whichever process
\* brought it there, and stays so through the cleanup; once it is unlinked nothing of the
\* promotion is left but, it may be, the cleanup marker of a stage.
CommittedExactly ==
    /\ fs.files = FilesOf(project.targets)
    /\ project.route = "authored-only" \/ Successor
    /\ ~Is("source", "cache")
RolledBackExactly ==
    /\ fs.files = 0
    /\ Is("parent", IF project.parentPre THEN "dir" ELSE "none")
    /\ Is("destination", IF project.destPre THEN "old" ELSE "none")
    /\ HasSource => Is("source", "cache")
NoResidue ==
    /\ \A r \in {"parentStage", "stage", "backup", "tombstone", "artifacts"} : Absent(r)
    /\ \A m \in Marks \ {"stageCleanup"} : fs.mark[m] = "none"

OutcomeExact ==
    /\ j.phase \in CleanupPhases \cup {"unlinked"} =>
          IF j.term = "committed" THEN CommittedExactly ELSE RolledBackExactly
    /\ j.phase = "unlinked" => NoResidue

\* A marker that was torn proves nothing, and the code leaves what it finds to the user.
TornMarker == \E m \in Marks : fs.mark[m] = "torn"

\* The recovery of an installed runtime opens an opensip-cli it has already removed.
ParentGone == j.pend = "runtime-rollback" /\ j.install = "installed" /\ Absent("parent")

\* A stage is removed but its cleanup marker is not: an opensip-cli with it is never empty.
StageGone == j.pend = "runtime-rollback" /\ Absent("stage") /\ Exact("stageCleanup") /\ ~project.parentPre

\* The runtime is rolled back and opensip-cli left to the authored rollback: the recovery wants to
\* roll the runtime back again, which the journal rejects.
OwnedParent == /\ j.phase = "runtime-rolled-back" /\ j.pend = "none"
               /\ ~project.parentPre /\ j.slot["destinationParent"] = "pending"

\* An incomplete stage has lost its marker while it was being discarded.
UnmarkedStage == j.pend = "runtime-stage-create" /\ Is("stage", "rest")

DeadEnd == TornMarker \/ ParentGone \/ StageGone \/ OwnedParent \/ UnmarkedStage

\* Whatever stops the promotion and its recoveries, a recovery ends it, but for a torn marker and
\* for the four states the recovery does not know.
Settles == <>[](j.phase = "unlinked" \/ DeadEnd)

\* What the decision record promises: the promotion is recoverable.
Recoverable == <>[](j.phase = "unlinked" \/ TornMarker)
=============================================================================
