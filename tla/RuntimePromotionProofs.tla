----------------------- MODULE RuntimePromotionProofs -----------------------
(* Theorems about RuntimePromotion, for any projects and any number of faults and targets. *)
EXTENDS RuntimePromotion, SequenceTheorems, TLAPS

Closed == CleanupPhases \cup {"unlinked"}

Puts(r) == {Put(r, c) : c \in Contents}

\* The steps the procedures of an intent are made of.
Foot(k) ==
    CASE k = "destination-parent-create" ->
           {Call(k), Refusal, Put("parentStage", "dir"), Publish("parentOwner"),
            Move("parentStage", "parent")}
      [] k = "runtime-stage-create" ->
           {Call(k), Refusal, Publish("stageCleanup"), Unlink("stageCleanup")} \cup Puts("stage")
      [] k = "destination-backup-create" ->
           {Call(k), Refusal, Publish("backupOwner"), Move("destination", "backup")}
      [] k = "destination-install" ->
           {Call(k), Refusal, Put("stage", "new"), Move("stage", "destination")}
      [] k = "authored-prepare" -> {Call(k)} \cup Puts("artifacts")
      [] k = "authored-target-commit" -> {Call(k), Put("parent", "dir"), Files("write")}
      [] k = "source-retire" ->
           {Call(k), Refusal, Publish("tombstoneOwner"), Move("source", "tombstone")}
      [] k = "runtime-rollback" ->
           {Call(p) : p \in {k, "remove-stage", "remove-parent", "remove-created-parent",
                             "remove-installed", "restore-backup", "expect-no-destination",
                             "settle-parent"}}
           \cup {Refusal, Publish("stageCleanup"), Unlink("stageCleanup"), Publish("rollback"),
                 Unlink("rollback"), Unlink("backupOwner"), Unlink("parentOwner"),
                 Put("parent", "none"), Put("parentStage", "none"), Move("backup", "destination")}
           \cup Puts("stage") \cup Puts("destination")
      [] k = "authored-target-rollback" ->
           {Call(k), Call("remove-parent"), Refusal, Put("parent", "none"), Files("erase")}
      [] k = "owned-slot-cleanup" ->
           {Call(k), Refusal, Publish("backupCleanup"), Unlink("backupCleanup"),
            Publish("tombstoneCleanup"), Unlink("tombstoneCleanup"), Unlink("backupOwner"),
            Unlink("tombstoneOwner"), Unlink("parentOwner")}
           \cup Puts("backup") \cup Puts("tombstone") \cup Puts("artifacts")
      [] OTHER -> {}

\* The phases in which an intent can be pending.
PhasesOf(k) ==
    CASE k = "authored-prepare" -> {"prepared", "destination-verified"}
      [] k = "destination-parent-create" -> {"authored-prepared"}
      [] k = "runtime-stage-create" -> {"destination-ready"}
      [] k = "destination-backup-create" -> {"runtime-staged"}
      [] k = "destination-install" -> {"runtime-staged", "destination-backed-up"}
      [] k = "authored-target-commit" -> {"authored-prepared", "runtime-installed"}
      [] k = "source-retire" -> {"authored-committed"}
      [] k = "runtime-rollback" -> {"rollback-started"}
      [] k = "authored-target-rollback" -> {"rollback-started", "runtime-rolled-back"}
      [] k = "owned-slot-cleanup" -> CleanupPhases

Shape ==
    /\ j.pend # "none" => j.phase \in PhasesOf(j.pend)
    /\ run.todo \in Seq(Foot(j.pend))
    /\ run.mode = "none" => run.todo = <<>>

Terminal ==
    /\ j.term = "none" <=> j.phase \notin Closed \cup {"committed", "rolled-back"}
    /\ j.phase = "committed" => j.term = "committed"
    /\ j.phase = "rolled-back" => j.term = "rolled-back"

BeforeInstall == {"prepared", "source-verified", "destination-verified", "authored-prepared",
                  "destination-ready", "runtime-staged", "destination-backed-up"}

\* What the slots and the route say of each other.
Materialized ==
    /\ j.phase \in {"destination-ready", "runtime-staged", "destination-backed-up",
                    "runtime-installed"} => Promotes
    /\ j.pend \in {"destination-parent-create", "runtime-rollback"} => Promotes
    /\ runtimeRollbackRequired => Promotes
    /\ j.phase = "destination-backed-up" \/ j.pend = "destination-backup-create" => project.destPre
    /\ j.pend = "destination-install" => (j.phase = "destination-backed-up" <=> project.destPre)
    /\ j.pend = "authored-target-commit" => j.phase = CommitPhase
    /\ j.phase = "source-retired" \/ j.pend = "source-retire" => HasSource
    /\ j.slot["runtimeStage"] = "pending" =>
          /\ \/ j.phase \in {"runtime-staged", "destination-backed-up"}
             \/ j.phase = "rollback-started" /\ j.pend # "authored-target-rollback"
          /\ j.install = "not-installed"
    /\ j.phase \in BeforeInstall => j.install = "not-installed"
    /\ j.pend = "owned-slot-cleanup" => PendingSlots # {}

\* The authored targets: the cursors and the files.
Cursors ==
    /\ j.rc <= j.ac /\ j.ac <= project.targets
    /\ j.phase \in ForwardPhases => j.rc = 0
    /\ j.slot["authored"] = "unmaterialized" => j.ac = 0
    /\ j.pend = "authored-prepare" => j.slot["authored"] = "unmaterialized"
    /\ j.phase \in ForwardPhases \ {"prepared", "source-verified", "destination-verified"} =>
          j.slot["authored"] = "pending"
    /\ j.phase \notin Closed =>
          /\ j.slot["authored"] # "removed"
          /\ j.slot["authored"] = "pending" => Is("artifacts", "all")
    /\ j.pend = "authored-prepare" /\ run.mode = "fresh" =>
          \/ run.todo \in {<<Call("authored-prepare")>>, <<Put("artifacts", "all")>>,
                           <<Put("artifacts", "partial"), Put("artifacts", "all")>>}
          \/ run.todo = <<>> /\ Is("artifacts", "all")

Written ==
    LET n == j.ac - j.rc
        from == fs.files = FilesOf(n)
    IN /\ j.pend \notin {"authored-target-commit", "authored-target-rollback"} => from
       /\ j.pend = "authored-target-commit" =>
             /\ j.ac < project.targets
             /\ from \/ fs.files = FilesOf(n + 1)
             /\ \/ run.todo = <<Call("authored-target-commit")>>
                \/ run.todo = <<Put("parent", "dir")>> /\ IsDirectory(n)
                \/ run.todo = <<Files("write")>> /\ ~IsDirectory(n) /\ from
                \/ run.todo = <<>> /\ (run.mode = "none" \/ fs.files = FilesOf(n + 1))
       /\ j.pend = "authored-target-rollback" =>
             /\ j.rc < j.ac
             /\ from \/ fs.files = FilesOf(n - 1)
             /\ \/ run.todo = <<Call("authored-target-rollback")>>
                \/ /\ run.todo \in {<<Call("remove-parent")>>, <<Refusal>>, <<Put("parent", "none")>>}
                   /\ IsDirectory(n - 1)
                \/ run.todo = <<Files("erase")>> /\ ~IsDirectory(n - 1) /\ from
                \/ run.todo = <<>> /\ (run.mode = "none" \/ fs.files = FilesOf(n - 1))
       /\ j.phase \in Closed /\ j.term = "rolled-back" => fs.files = 0

\* The cached runtime, until and after the intent to retire it.
Retiring == \/ j.pend = "source-retire"
            \/ j.phase \in {"source-retired", "authority-verified", "committed"}
            \/ j.phase \in Closed /\ j.term = "committed"

Retires == Move("source", "tombstone")

Retired == HasSource =>
    /\ Is("source", "cache") \/ Retiring
    /\ Retiring => Successor
    /\ j.phase \notin Closed => Is("source", "cache") \/ Is("tombstone", "cache")
    /\ j.pend = "source-retire" =>
          \/ run.todo \in {<<Call("source-retire")>>, <<Refusal>>, <<>>}
          \/ /\ Is("source", "cache")
             /\ run.todo \in {<<Retires>>, <<Publish("tombstoneOwner"), Retires>>, <<Refusal, Retires>>}

\* What the project had.
BacksUp == Move("destination", "backup")
Restores == Move("backup", "destination")
InPlace == Is("destination", "old") /\ Absent("backup")

\* What the rollback of the runtime does apart from the steps that replace the destination, and
\* what it does before it restores the backup.
Replaces == {Call(p) : p \in {"runtime-rollback", "remove-installed", "restore-backup"}}
Quiet == Foot("runtime-rollback") \ ({Restores} \cup Puts("destination") \cup Replaces)
Before == Quiet \cup Puts("destination") \cup {Call("remove-installed")}
Restoring(s) == \E u \in Seq(Before), v \in Seq(Quiet) : s = u \o (<<Call("restore-backup")>> \o v)

RollingBackPart ==
    \/ /\ Is("backup", "old")
       /\ \/ run.todo = <<Call("runtime-rollback")>>
          \/ run.todo \in Seq(Before)
          \/ Restoring(run.todo)
    \/ /\ Is("backup", "old") /\ Absent("destination")
       /\ run.todo # <<>> /\ Head(run.todo) = Restores
       /\ Tail(run.todo) \in Seq(Quiet)
    \/ InPlace /\ run.todo \in Seq(Quiet \cup Replaces)

BackedUp == project.destPre =>
    /\ ~Promotes => Is("destination", "old")
    /\ Promotes /\ j.phase \in {"prepared", "source-verified", "destination-verified",
                                "authored-prepared", "destination-ready", "runtime-staged"} =>
          InPlace \/ (j.pend = "destination-backup-create" /\ Is("backup", "old"))
    /\ j.pend = "destination-backup-create" =>
          \/ run.todo \in {<<Call("destination-backup-create")>>, <<Refusal>>}
          \/ run.todo = <<>> /\ (run.mode = "none" \/ Is("backup", "old"))
          \/ /\ InPlace
             /\ run.todo \in {<<BacksUp>>, <<Publish("backupOwner"), BacksUp>>, <<Refusal, BacksUp>>}
    /\ Promotes /\ j.phase \in {"destination-backed-up", "runtime-installed", "authored-committed",
                                "source-retired", "authority-verified", "committed"} =>
          Is("backup", "old")
    /\ Promotes /\ j.phase \in RollbackPhases => InPlace \/ Is("backup", "old")
    /\ j.pend = "runtime-rollback" => RollingBackPart
    /\ j.phase \in Closed /\ j.term = "rolled-back" => Is("destination", "old")

IInv == TypeOK /\ Shape /\ Terminal /\ Materialized /\ Cursors /\ Written /\ Retired /\ BackedUp

-----------------------------------------------------------------------------
(* Sequences of steps. *)

LEMMA Joined ==
    ASSUME NEW S, NEW s \in Seq(S), NEW t \in Seq(S)
    PROVE  s \o t \in Seq(S)
BY ConcatProperties

LEMMA Wider ==
    ASSUME NEW S, NEW T, S \subseteq T, NEW s \in Seq(S)
    PROVE  s \in Seq(T)
BY SeqMonotonic

LEMMA Rest ==
    ASSUME NEW S, NEW s \in Seq(S), s # <<>>
    PROVE  /\ Head(s) \in S
           /\ Tail(s) \in Seq(S)
BY HeadTailProperties

LEMMA Short ==
    ASSUME NEW S
    PROVE  /\ <<>> \in Seq(S)
           /\ \A a \in S : <<a>> \in Seq(S)
           /\ \A a, b \in S : <<a, b>> \in Seq(S)
           /\ \A a, b, c \in S : <<a, b, c>> \in Seq(S)
           /\ \A a, b, c, d \in S : <<a, b, c, d>> \in Seq(S)
OBVIOUS

LEMMA ShortTails ==
    /\ \A a : Head(<<a>>) = a /\ Tail(<<a>>) = <<>> /\ <<a>> # <<>>
    /\ \A a, b : Head(<<a, b>>) = a /\ Tail(<<a, b>>) = <<b>> /\ <<a, b>> # <<>>
OBVIOUS

LEMMA Pair ==
    ASSUME NEW a, NEW b
    PROVE  <<a>> \o <<b>> = <<a, b>> /\ <<>> \o <<b>> = <<b>>
<1>1. <<a>> \o <<b>> = <<a, b>>
  <2> DEFINE S == {a, b}
  <2>1. <<a>> \in Seq(S) /\ <<b>> \in Seq(S) /\ <<a, b>> \in Seq(S)
        BY Short
  <2> HIDE DEF S
  <2>2. /\ <<a>> \o <<b>> \in Seq(S) /\ Len(<<a>> \o <<b>>) = 2
        /\ \A i \in 1..2 : (<<a>> \o <<b>>)[i] = IF i <= 1 THEN <<a>>[i] ELSE <<b>>[i - 1]
        BY <2>1, ConcatProperties
  <2>3. Len(<<a, b>>) = 2 /\ <<a, b>>[1] = a /\ <<a, b>>[2] = b
        OBVIOUS
  <2>4. (<<a>> \o <<b>>)[1] = a /\ (<<a>> \o <<b>>)[2] = b
        BY <2>2
  <2> DEFINE s == <<a>> \o <<b>>
             t == <<a, b>>
  <2>5. /\ s \in Seq(S) /\ t \in Seq(S) /\ Len(s) = 2 /\ Len(t) = 2
        /\ s[1] = t[1] /\ s[2] = t[2]
        BY <2>1, <2>2, <2>3, <2>4
  <2> HIDE DEF s, t
  <2>6. \A i \in 1..Len(s) : s[i] = t[i]
        BY <2>5
  <2>7. s = t
        BY <2>5, <2>6, SeqEqual
  <2> QED BY <2>7 DEF s, t
<1>2. <<>> \o <<b>> = <<b>>
  <2>1. <<b>> \in Seq({b})
        OBVIOUS
  <2> QED BY <2>1, ConcatEmptySeq
<1> QED BY <1>1, <1>2

LEMMA FootSteps ==
    ASSUME NEW k \in Kinds \cup {"none"}
    PROVE  Foot(k) \subseteq Steps
<1> SUFFICES ASSUME NEW o \in Foot(k) PROVE o \in Steps
    OBVIOUS
<1>1. CASE k \in {"destination-parent-create", "runtime-stage-create",
                  "destination-backup-create", "destination-install"}
      BY <1>1 DEF Foot, Puts, Put, Move, Publish, Unlink, Files, Call, Refusal, Steps, Mutations,
                  Calls, Procedures, Kinds, Roots, Contents, Marks
<1>2. CASE k \in {"authored-prepare", "authored-target-commit", "source-retire",
                  "authored-target-rollback", "none"}
      BY <1>2 DEF Foot, Puts, Put, Move, Publish, Unlink, Files, Call, Refusal, Steps, Mutations,
                  Calls, Procedures, Kinds, Roots, Contents, Marks
<1>3. CASE k = "runtime-rollback"
      BY <1>3 DEF Foot, Puts, Put, Move, Publish, Unlink, Files, Call, Refusal, Steps, Mutations,
                  Calls, Procedures, Kinds, Roots, Contents, Marks
<1>4. CASE k = "owned-slot-cleanup"
      BY <1>4 DEF Foot, Puts, Put, Move, Publish, Unlink, Files, Call, Refusal, Steps, Mutations,
                  Calls, Procedures, Kinds, Roots, Contents, Marks
<1> QED BY <1>1, <1>2, <1>3, <1>4 DEF Kinds

-----------------------------------------------------------------------------
(* Every procedure of an intent is made of the intent's steps. *)

LEMMA CleanupParts ==
    ASSUME NEW S, Refusal \in S, NEW r \in Roots, NEW proof \in Marks,
           \A c \in Contents : Put(r, c) \in S,
           Publish(proof) \in S, Unlink(proof) \in S,
           fs \in FileSystems, NEW verified \in BOOLEAN, NEW owner \in Seq(S)
    PROVE  CleanupOwned(r, proof, verified, owner) \in Seq(S)
<1>1. RemoveTree(r) \in Seq(S)
      BY Short DEF RemoveTree, Contents
<1>2. EnsureOwner(proof) \in Seq(S)
      BY Short DEF EnsureOwner, Refuse, FileSystems
<1>3. <<Unlink(proof)>> \in Seq(S)
      BY Short
<1>4. (EnsureOwner(proof) \o RemoveTree(r)) \o owner \in Seq(S)
      BY <1>1, <1>2, Joined
<1>5. ((EnsureOwner(proof) \o RemoveTree(r)) \o owner) \o <<Unlink(proof)>> \in Seq(S)
      BY <1>3, <1>4, Joined
<1>6. Refuse \in Seq(S)
      BY Short DEF Refuse
<1> QED BY <1>5, <1>6 DEF CleanupOwned

LEMMA ForwardParts ==
    ASSUME TypeOK
    PROVE  /\ CreateParent \in Seq(Foot("destination-parent-create"))
           /\ InParent(StageRuntime) \in Seq(Foot("runtime-stage-create"))
           /\ InParent(Install) \in Seq(Foot("destination-install"))
           /\ PrepareAuthored \in Seq(Foot("authored-prepare"))
<1> USE DEF TypeOK, InParent, Refuse
<1>1. CreateParent \in Seq(Foot("destination-parent-create"))
  <2> DEFINE S == Foot("destination-parent-create")
  <2>1. /\ Refusal \in S /\ Put("parentStage", "dir") \in S /\ Publish("parentOwner") \in S
        /\ Move("parentStage", "parent") \in S
        BY DEF Foot
  <2>2. EnsureOwner("parentOwner") \in Seq(S)
        BY <2>1, Short DEF EnsureOwner, FileSystems, Marks
  <2> HIDE DEF S
  <2>3. <<Move("parentStage", "parent")>> \in Seq(S)
        BY <2>1, Short
  <2>4. EnsureOwner("parentOwner") \o <<Move("parentStage", "parent")>> \in Seq(S)
        BY <2>2, <2>3, Joined
  <2>5. CreateParent \in Seq(S)
        BY <2>1, <2>4, Short DEF CreateParent
  <2> QED BY <2>5 DEF S
<1>2. InParent(StageRuntime) \in Seq(Foot("runtime-stage-create"))
  <2> DEFINE S == Foot("runtime-stage-create")
  <2>1. /\ Refusal \in S /\ Publish("stageCleanup") \in S /\ Unlink("stageCleanup") \in S
        /\ \A c \in Contents : Put("stage", c) \in S
        BY DEF Foot, Puts
  <2> HIDE DEF S
  <2>2. CopyStage \in Seq(S)
        BY <2>1, Short DEF CopyStage, Contents
  <2>3. CleanupOwned("stage", "stageCleanup", TRUE, <<>>) \in Seq(S)
        BY <2>1, Short, CleanupParts DEF Roots, Marks
  <2>4. CleanupOwned("stage", "stageCleanup", TRUE, <<>>) \o CopyStage \in Seq(S)
        BY <2>2, <2>3, Joined
  <2>5. StageRuntime \in Seq(S)
        BY <2>1, <2>2, <2>4, Short DEF StageRuntime
  <2>6. InParent(StageRuntime) \in Seq(S)
        BY <2>1, <2>5, Short
  <2> QED BY <2>6 DEF S
<1>3. InParent(Install) \in Seq(Foot("destination-install"))
  <2> DEFINE S == Foot("destination-install")
  <2>1. /\ Refusal \in S /\ Put("stage", "new") \in S /\ Move("stage", "destination") \in S
        BY DEF Foot
  <2> HIDE DEF S
  <2>2. InParent(Install) \in Seq(S)
        BY <2>1, Short DEF Install
  <2> QED BY <2>2 DEF S
<1>4. PrepareAuthored \in Seq(Foot("authored-prepare"))
  <2> DEFINE S == Foot("authored-prepare")
  <2>1. \A c \in Contents : Put("artifacts", c) \in S
        BY DEF Foot, Puts
  <2> HIDE DEF S
  <2>2. PrepareAuthored \in Seq(S)
        BY <2>1, Short DEF PrepareAuthored, Contents
  <2> QED BY <2>2 DEF S
<1> QED BY <1>1, <1>2, <1>3, <1>4

LEMMA QuietSteps ==
    /\ \A p \in {"remove-stage", "remove-parent", "remove-created-parent",
                 "expect-no-destination", "settle-parent"} : Call(p) \in Quiet
    /\ Refusal \in Quiet
    /\ \A c \in Contents : Put("stage", c) \in Quiet
    /\ Publish("stageCleanup") \in Quiet /\ Unlink("stageCleanup") \in Quiet
    /\ Publish("rollback") \in Quiet /\ Unlink("rollback") \in Quiet
    /\ Unlink("backupOwner") \in Quiet /\ Unlink("parentOwner") \in Quiet
    /\ Put("parent", "none") \in Quiet /\ Put("parentStage", "none") \in Quiet
<1> DEFINE F == Foot("runtime-rollback")
<1>1. /\ \A p \in {"remove-stage", "remove-parent", "remove-created-parent",
                    "expect-no-destination", "settle-parent"} : Call(p) \in F
      /\ Refusal \in F
      /\ \A c \in Contents : Put("stage", c) \in F
      /\ Publish("stageCleanup") \in F /\ Unlink("stageCleanup") \in F
      /\ Publish("rollback") \in F /\ Unlink("rollback") \in F
      /\ Unlink("backupOwner") \in F /\ Unlink("parentOwner") \in F
      /\ Put("parent", "none") \in F /\ Put("parentStage", "none") \in F
      BY DEF Foot, Puts
<1>2. \A o : o \in F /\ o.op \in {"refuse", "publish", "unlink"} => o \in Quiet
      BY DEF Quiet, Replaces, Puts, Put, Call, Restores, Move
<1>3. \A p : Call(p) \in F /\ p \notin {"runtime-rollback", "remove-installed", "restore-backup"}
                => Call(p) \in Quiet
      BY DEF Quiet, Replaces, Puts, Put, Call, Restores, Move
<1>4. \A r, c : Put(r, c) \in F /\ r # "destination" => Put(r, c) \in Quiet
      BY DEF Quiet, Replaces, Puts, Put, Call, Restores, Move
<1>5. /\ \A m : Publish(m).op = "publish" /\ Unlink(m).op = "unlink"
      /\ Refusal.op = "refuse"
      BY DEF Publish, Unlink, Refusal
<1> HIDE DEF F
<1> QED BY <1>1, <1>2, <1>3, <1>4, <1>5

LEMMA RollbackParts ==
    ASSUME TypeOK
    PROVE  /\ RollBackRuntime \in Seq(Quiet \cup Replaces)
           /\ project.destPre => RollBackRuntime \in Seq(Quiet) \/ Restoring(RollBackRuntime)
           /\ RemoveStage \in Seq(Quiet)
           /\ RemoveParent \in Seq(Quiet) /\ RemoveCreatedParent \in Seq(Quiet)
           /\ ExpectNoDestination \in Seq(Quiet) /\ SettleParent \in Seq(Quiet)
<1>1. <<>> \in Seq(Quiet) /\ Refuse \in Seq(Quiet)
      BY QuietSteps, Short DEF Refuse
<1>2. /\ RollBackRuntime \in Seq(Quiet \cup Replaces)
      /\ project.destPre => RollBackRuntime \in Seq(Quiet) \/ Restoring(RollBackRuntime)
  <2> DEFINE Q == Quiet \cup {Call("remove-installed")}
             W == Quiet \cup Replaces
             a == CASE j.install = "installed" -> <<Call("remove-installed")>>
                    [] j.install # "installed" /\ j.slot["runtimeStage"] = "pending" ->
                         <<Call("remove-stage")>>
                    [] OTHER -> <<>>
             b == <<Call(IF project.destPre THEN "restore-backup" ELSE "expect-no-destination")>>
             c == IF j.install = "installed" THEN <<Call("settle-parent")>> ELSE <<>>
  <2>1. Q \subseteq W /\ Q \subseteq Before /\ Quiet \subseteq W
        BY DEF Replaces, Before
  <2>2. Call("remove-stage") \in Q /\ Call("remove-installed") \in Q /\ Call("settle-parent") \in Quiet
        /\ Call("expect-no-destination") \in W /\ Call("restore-backup") \in W
        BY QuietSteps DEF Replaces
  <2>3. RollBackRuntime =
          IF j.install # "installed" /\ ~project.parentPre THEN <<Call("remove-created-parent")>>
          ELSE InParent(a \o b \o c)
        BY DEF RollBackRuntime
  <2>4. project.destPre => b = <<Call("restore-backup")>>
        OBVIOUS
  <2> HIDE DEF Q, W
  <2>5. a \in Seq(Q) /\ b \in Seq(W) /\ c \in Seq(Quiet)
        BY <2>2, Short
  <2> HIDE DEF a, b, c
  <2>6. a \in Seq(W) /\ c \in Seq(W) /\ a \in Seq(Before)
        BY <2>1, <2>5, Wider
  <2>7. (a \o b) \o c \in Seq(W)
        BY <2>5, <2>6, Joined
  <2>8. (a \o b) \o c = a \o (b \o c)
        BY <2>5, <2>6, ConcatAssociative
  <2>9. <<Call("remove-created-parent")>> \in Seq(Quiet)
        BY QuietSteps, Short
  <2>10. \A s \in Seq(Quiet) : s \in Seq(W)
        BY <2>1, Wider
  <2>11. RollBackRuntime \in Seq(W)
        BY <1>1, <2>3, <2>7, <2>9, <2>10 DEF InParent
  <2>12. ASSUME project.destPre
        PROVE  RollBackRuntime \in Seq(Quiet) \/ Restoring(RollBackRuntime)
    <3>1. Restoring((a \o b) \o c)
          BY <2>4, <2>5, <2>6, <2>8, <2>12 DEF Restoring
    <3> QED BY <1>1, <2>3, <2>9, <3>1 DEF InParent
  <2> QED BY <2>11, <2>12 DEF W
<1>3. RemoveStage \in Seq(Quiet)
  <2>1. CleanupOwned("stage", "stageCleanup", Is("stage", "marked"), <<>>) \in Seq(Quiet)
        BY QuietSteps, <1>1, CleanupParts DEF Roots, Marks, TypeOK, Is
  <2> QED BY <1>1, <2>1 DEF RemoveStage
<1>4. RemoveParent \in Seq(Quiet) /\ ExpectNoDestination \in Seq(Quiet)
      BY <1>1, QuietSteps, Short DEF RemoveParent, ExpectNoDestination
<1>5. DropOwner("parentOwner") \in Seq(Quiet)
      BY <1>1, QuietSteps, Short DEF DropOwner, TypeOK, FileSystems, Marks
<1>6. RemoveCreatedParent \in Seq(Quiet) /\ SettleParent \in Seq(Quiet)
      BY <1>1, <1>5, QuietSteps, Short DEF RemoveCreatedParent, SettleParent, InParent
<1> QED BY <1>2, <1>3, <1>4, <1>6

LEMMA InstalledParts ==
    ASSUME TypeOK
    PROVE  /\ RemoveInstalled \in Seq(Quiet \cup Puts("destination"))
           /\ project.destPre /\ InPlace => RemoveInstalled \in Seq(Quiet)
<1> DEFINE S == Quiet \cup Puts("destination")
<1>1. Quiet \subseteq S
      OBVIOUS
<1>2. \A c \in Contents : Put("destination", c) \in S
      BY DEF Puts
<1> HIDE DEF S
<1>3. RemoveTree("destination") \in Seq(S)
      BY <1>2, Short DEF RemoveTree, Contents
<1>4. /\ <<Publish("rollback")>> \in Seq(S) /\ <<Unlink("rollback")>> \in Seq(S)
      /\ <<>> \in Seq(S) /\ Refuse \in Seq(S)
      BY <1>1, QuietSteps, Short DEF Refuse
<1>5. RemoveTree("destination") \o <<Unlink("rollback")>> \in Seq(S)
      BY <1>3, <1>4, Joined
<1>6. <<Publish("rollback")>> \o RemoveTree("destination") \in Seq(S)
      BY <1>3, <1>4, Joined
<1>7. (<<Publish("rollback")>> \o RemoveTree("destination")) \o <<Unlink("rollback")>> \in Seq(S)
      BY <1>4, <1>6, Joined
<1>8. fs.mark["rollback"] \in {"none", "torn", "exact"}
      BY DEF TypeOK, FileSystems, Marks
<1>9. RemoveInstalled \in Seq(S)
      BY <1>4, <1>5, <1>7, <1>8 DEF RemoveInstalled
<1>10. ASSUME project.destPre, InPlace
      PROVE  RemoveInstalled \in Seq(Quiet)
      BY <1>10, <1>8, QuietSteps, Short DEF RemoveInstalled, InPlace, Is, Absent, Refuse
<1> QED BY <1>9, <1>10 DEF S

LEMMA RestoreParts ==
    ASSUME TypeOK
    PROVE  \/ RestoreBackup \in Seq(Quiet)
           \/ /\ Is("backup", "old") /\ Absent("destination")
              /\ RestoreBackup = <<Restores>> \o <<Unlink("backupOwner")>>
<1>1. <<>> \in Seq(Quiet) /\ Refuse \in Seq(Quiet)
      BY QuietSteps, Short DEF Refuse
<1>2. DropOwner("backupOwner") \in Seq(Quiet)
      BY <1>1, QuietSteps, Short DEF DropOwner, TypeOK, FileSystems, Marks
<1>3. <<Restores, Unlink("backupOwner")>> = <<Restores>> \o <<Unlink("backupOwner")>>
      OBVIOUS
<1> QED BY <1>1, <1>2, <1>3 DEF RestoreBackup, Restores

LEMMA BackUpParts ==
    ASSUME TypeOK
    PROVE  \/ InParent(BackUp) = <<Refusal>>
           \/ InParent(BackUp) = <<>> /\ Is("backup", "old")
           \/ /\ InPlace
              /\ InParent(BackUp) \in {<<BacksUp>>, <<Publish("backupOwner"), BacksUp>>,
                                       <<Refusal, BacksUp>>}
<1>1. EnsureOwner("backupOwner") \in {<<>>, <<Publish("backupOwner")>>, <<Refusal>>}
      BY DEF TypeOK, FileSystems, Marks, EnsureOwner, Refuse
<1>2. EnsureOwner("backupOwner") \o <<BacksUp>>
         \in {<<BacksUp>>, <<Publish("backupOwner"), BacksUp>>, <<Refusal, BacksUp>>}
  <2>1. \A a, b : <<a>> \o <<b>> = <<a, b>> /\ <<>> \o <<b>> = <<b>>
        BY Pair
  <2> QED BY <1>1, <2>1
<1>3. BackUp = CASE InPlace -> EnsureOwner("backupOwner") \o <<BacksUp>>
                 [] Absent("destination") /\ Is("backup", "old") /\ Exact("backupOwner") -> <<>>
                 [] OTHER -> Refuse
      BY DEF BackUp, InPlace, BacksUp
<1> QED BY <1>2, <1>3 DEF InParent, Refuse

LEMMA RetireParts ==
    ASSUME TypeOK
    PROVE  \/ RetireSource \in {<<>>, <<Refusal>>}
           \/ /\ Is("source", "cache")
              /\ RetireSource \in {<<Retires>>, <<Publish("tombstoneOwner"), Retires>>,
                                   <<Refusal, Retires>>}
<1>1. EnsureOwner("tombstoneOwner") \in {<<>>, <<Publish("tombstoneOwner")>>, <<Refusal>>}
      BY DEF TypeOK, FileSystems, Marks, EnsureOwner, Refuse
<1>2. EnsureOwner("tombstoneOwner") \o <<Retires>>
         \in {<<Retires>>, <<Publish("tombstoneOwner"), Retires>>, <<Refusal, Retires>>}
  <2>1. \A a, b : <<a>> \o <<b>> = <<a, b>> /\ <<>> \o <<b>> = <<b>>
        BY Pair
  <2> QED BY <1>1, <2>1
<1>3. RetireSource =
         IF ~Successor THEN Refuse
         ELSE CASE Is("source", "cache") /\ Absent("tombstone") ->
                     EnsureOwner("tombstoneOwner") \o <<Retires>>
                [] Absent("source") /\ Is("tombstone", "cache") /\ Exact("tombstoneOwner") -> <<>>
                [] OTHER -> Refuse
      BY DEF RetireSource, Retires
<1> QED BY <1>2, <1>3 DEF Refuse

\* The slot a cleanup takes next is one that is still there; a stage never is.
LEMMA NextSlot ==
    ASSUME TypeOK, PendingSlots # {}, j.slot["runtimeStage"] # "pending"
    PROVE  /\ CleanupSlot \in {"destinationBackup", "sourceTombstone", "authored",
                               "destinationParent"}
           /\ CleanupSlot \in PendingSlots
<1> DEFINE P(k) == /\ CleanupOrder[k] \in PendingSlots
                   /\ \A i \in 1..(k - 1) : CleanupOrder[i] \notin PendingSlots
<1>1. \E k \in 1..4 : P(k)
  <2>1. /\ CleanupOrder[1] = "destinationBackup" /\ CleanupOrder[2] = "sourceTombstone"
        /\ CleanupOrder[3] = "authored" /\ CleanupOrder[4] = "destinationParent"
        BY DEF CleanupOrder
  <2>2. PendingSlots \subseteq {CleanupOrder[1], CleanupOrder[2], CleanupOrder[3], CleanupOrder[4]}
        BY <2>1 DEF PendingSlots, Slots
  <2>3. CASE CleanupOrder[1] \in PendingSlots
        BY <2>3
  <2>4. CASE CleanupOrder[1] \notin PendingSlots /\ CleanupOrder[2] \in PendingSlots
    <3>1. P(2)
          BY <2>4
    <3> QED BY <3>1
  <2>5. CASE /\ CleanupOrder[1] \notin PendingSlots /\ CleanupOrder[2] \notin PendingSlots
             /\ CleanupOrder[3] \in PendingSlots
    <3>1. P(3)
          BY <2>5
    <3> QED BY <3>1
  <2>6. CASE /\ CleanupOrder[1] \notin PendingSlots /\ CleanupOrder[2] \notin PendingSlots
             /\ CleanupOrder[3] \notin PendingSlots /\ CleanupOrder[4] \in PendingSlots
    <3>1. P(4)
          BY <2>6
    <3> QED BY <3>1
  <2> QED BY <2>2, <2>3, <2>4, <2>5, <2>6
<1>2. PICK k \in 1..4 : P(k) /\ CleanupSlot = CleanupOrder[k]
  <2>1. CleanupSlot = CleanupOrder[CHOOSE k \in 1..4 : P(k)]
        BY DEF CleanupSlot
  <2>2. P(CHOOSE k \in 1..4 : P(k)) /\ (CHOOSE k \in 1..4 : P(k)) \in 1..4
        BY <1>1
  <2> QED BY <2>1, <2>2
<1> QED BY <1>2 DEF CleanupOrder

LEMMA CleanUpParts ==
    ASSUME TypeOK, PendingSlots # {}, j.slot["runtimeStage"] # "pending"
    PROVE  CleanUp \in Seq(Foot("owned-slot-cleanup"))
<1> DEFINE S == Foot("owned-slot-cleanup")
<1>1. /\ Refusal \in S /\ Publish("backupCleanup") \in S /\ Unlink("backupCleanup") \in S
      /\ Publish("tombstoneCleanup") \in S /\ Unlink("tombstoneCleanup") \in S
      /\ Unlink("backupOwner") \in S /\ Unlink("tombstoneOwner") \in S /\ Unlink("parentOwner") \in S
      /\ \A r \in {"backup", "tombstone", "artifacts"} : \A c \in Contents : Put(r, c) \in S
      BY DEF Foot, Puts
<1> HIDE DEF S
<1>2. <<>> \in Seq(S) /\ Refuse \in Seq(S)
      BY <1>1, Short DEF Refuse
<1>3. \A m \in {"backupOwner", "tombstoneOwner", "parentOwner"} : DropOwner(m) \in Seq(S)
      BY <1>1, <1>2, Short DEF DropOwner, TypeOK, FileSystems, Marks
<1>4. CleanupExternal("backup", "backupOwner", "backupCleanup") \in Seq(S)
  <2> DEFINE v == Exact("backupOwner") /\ ~Is("backup", "rest")
  <2>1. v \in BOOLEAN
        BY DEF Exact, Is
  <2> HIDE DEF v
  <2>2. CleanupOwned("backup", "backupCleanup", v, DropOwner("backupOwner")) \in Seq(S)
        BY <1>1, <1>3, <2>1, CleanupParts DEF TypeOK, Roots, Marks
  <2> QED BY <1>2, <1>3, <2>2 DEF CleanupExternal, v
<1>5. CleanupExternal("tombstone", "tombstoneOwner", "tombstoneCleanup") \in Seq(S)
  <2> DEFINE v == Exact("tombstoneOwner") /\ ~Is("tombstone", "rest")
  <2>1. v \in BOOLEAN
        BY DEF Exact, Is
  <2> HIDE DEF v
  <2>2. CleanupOwned("tombstone", "tombstoneCleanup", v, DropOwner("tombstoneOwner")) \in Seq(S)
        BY <1>1, <1>3, <2>1, CleanupParts DEF TypeOK, Roots, Marks
  <2> QED BY <1>2, <1>3, <2>2 DEF CleanupExternal, v
<1>6. /\ <<Put("artifacts", "partial"), Put("artifacts", "none")>> \in Seq(S)
      BY <1>1, Short DEF Contents
<1> QED BY <1>2, <1>3, <1>4, <1>5, <1>6, NextSlot DEF CleanUp, InParent, S

LEMMA TargetParts ==
    ASSUME TypeOK
    PROVE  /\ CommitTarget \in {<<>>, <<Put("parent", "dir")>>, <<Files("write")>>}
           /\ RollBackTarget \in {<<>>, <<Call("remove-parent")>>, <<Files("erase")>>}
           /\ RemoveParent \in {<<Put("parent", "none")>>, <<Refusal>>}
BY DEF CommitTarget, RollBackTarget, RemoveParent, Refuse

\* A process that follows a call has the steps of the callee before it.
LEMMA Bodies ==
    ASSUME TypeOK, Shape, Materialized, run.todo # <<>>, Head(run.todo) \in Calls
    PROVE  Body(Head(run.todo).on) \in Seq(Foot(j.pend))
<1> DEFINE k == j.pend
           c == Head(run.todo).on
<1>1. Head(run.todo) \in Foot(k) /\ Head(run.todo) = Call(c)
      BY Rest DEF Shape, Calls, Call
<1>2. k \in Kinds \cup {"none"}
      BY DEF TypeOK, Journals
<1>3. CASE k \in {"destination-parent-create", "runtime-stage-create", "destination-install",
                  "authored-prepare"}
  <2>1. c = k
        BY <1>1, <1>3 DEF Foot, Puts, Put, Move, Publish, Unlink, Call, Refusal
  <2> QED BY <1>3, <2>1, ForwardParts DEF Body
<1>4. CASE k = "destination-backup-create"
  <2>1. c = k
        BY <1>1, <1>4 DEF Foot, Move, Publish, Call, Refusal
  <2>2. InParent(BackUp) \in Seq(Foot(k))
    <3>1. CASE InParent(BackUp) \in {<<>>, <<Refusal>>}
      <4>1. Refusal \in Foot(k)
            BY <1>4 DEF Foot
      <4> QED BY <3>1, <4>1, Short
    <3>2. CASE InParent(BackUp) \in {<<BacksUp>>, <<Publish("backupOwner"), BacksUp>>,
                                     <<Refusal, BacksUp>>}
      <4>1. /\ BacksUp \in Foot(k) /\ Publish("backupOwner") \in Foot(k) /\ Refusal \in Foot(k)
            BY <1>4 DEF Foot, BacksUp
      <4> QED BY <3>2, <4>1, Short
    <3> QED BY <3>1, <3>2, BackUpParts
  <2> QED BY <1>4, <2>1, <2>2 DEF Body
<1>5. CASE k = "source-retire"
  <2>1. c = k
        BY <1>1, <1>5 DEF Foot, Move, Publish, Call, Refusal
  <2>2. RetireSource \in Seq(Foot(k))
    <3>1. CASE RetireSource \in {<<>>, <<Refusal>>}
      <4>1. Refusal \in Foot(k)
            BY <1>5 DEF Foot
      <4> QED BY <3>1, <4>1, Short
    <3>2. CASE RetireSource \in {<<Retires>>, <<Publish("tombstoneOwner"), Retires>>,
                                 <<Refusal, Retires>>}
      <4>1. /\ Retires \in Foot(k) /\ Publish("tombstoneOwner") \in Foot(k) /\ Refusal \in Foot(k)
            BY <1>5 DEF Foot, Retires
      <4> QED BY <3>2, <4>1, Short
    <3> QED BY <3>1, <3>2, RetireParts
  <2> QED BY <1>5, <2>1, <2>2 DEF Body
<1>6. CASE k \in {"authored-target-commit", "authored-target-rollback"}
  <2>1. c \in {k} \cup (IF k = "authored-target-rollback" THEN {"remove-parent"} ELSE {})
        BY <1>1, <1>6 DEF Foot, Put, Files, Call, Refusal
  <2>2. /\ k = "authored-target-commit" => Put("parent", "dir") \in Foot(k) /\ Files("write") \in Foot(k)
        /\ k = "authored-target-rollback" => /\ Call("remove-parent") \in Foot(k)
                                             /\ Files("erase") \in Foot(k) /\ Refusal \in Foot(k)
                                             /\ Put("parent", "none") \in Foot(k)
        BY <1>6 DEF Foot
  <2>3. Body(c) = CASE c = "authored-target-commit" -> CommitTarget
                    [] c = "authored-target-rollback" -> RollBackTarget
                    [] c = "remove-parent" -> RemoveParent
        BY <1>6, <2>1 DEF Body
  <2>4. CASE k = "authored-target-commit"
    <3>1. CommitTarget \in Seq(Foot(k))
          BY <2>2, <2>4, TargetParts, Short
    <3> QED BY <2>1, <2>3, <2>4, <3>1
  <2>5. CASE k = "authored-target-rollback"
    <3>1. RollBackTarget \in Seq(Foot(k)) /\ RemoveParent \in Seq(Foot(k))
          BY <2>2, <2>5, TargetParts, Short
    <3> QED BY <2>1, <2>3, <2>5, <3>1
  <2> QED BY <1>6, <2>4, <2>5
<1>7. CASE k = "runtime-rollback"
  <2>1. c \in {k, "remove-stage", "remove-parent", "remove-created-parent", "remove-installed",
               "restore-backup", "expect-no-destination", "settle-parent"}
        BY <1>1, <1>7 DEF Foot, Puts, Put, Move, Publish, Unlink, Call, Refusal
  <2>2. Quiet \cup Puts("destination") \cup Replaces \subseteq Foot(k)
        BY <1>7 DEF Quiet, Replaces, Foot
  <2>3. \A s \in Seq(Quiet) : s \in Seq(Foot(k))
        BY <2>2, Wider
  <2>4. RemoveInstalled \in Seq(Foot(k))
    <3>1. Quiet \cup Puts("destination") \subseteq Foot(k)
          BY <2>2
    <3> QED BY <3>1, InstalledParts, Wider
  <2>5. RestoreBackup \in Seq(Foot(k))
    <3>1. Restores \in Foot(k) /\ Unlink("backupOwner") \in Foot(k)
          BY <1>7 DEF Foot, Restores
    <3>2. <<Restores>> \o <<Unlink("backupOwner")>> \in Seq(Foot(k))
          BY <3>1, Short, Pair
    <3> QED BY <2>3, <3>2, RestoreParts
  <2>6. RollBackRuntime \in Seq(Foot(k))
    <3>1. Quiet \cup Replaces \subseteq Foot(k)
          BY <2>2
    <3> QED BY <3>1, RollbackParts, Wider
  <2> QED BY <1>7, <2>1, <2>3, <2>4, <2>5, <2>6, RollbackParts DEF Body
<1>8. CASE k = "owned-slot-cleanup"
  <2>1. c = k
        BY <1>1, <1>8 DEF Foot, Puts, Put, Move, Publish, Unlink, Call, Refusal
  <2>2. PendingSlots # {} /\ j.slot["runtimeStage"] # "pending"
        BY <1>8 DEF Materialized, Shape, PhasesOf, CleanupPhases
  <2> QED BY <1>8, <2>1, <2>2, CleanUpParts DEF Body
<1>9. k # "none"
      BY <1>1 DEF Foot
<1> QED BY <1>2, <1>3, <1>4, <1>5, <1>6, <1>7, <1>8, <1>9 DEF Kinds

-----------------------------------------------------------------------------
(* What a step changes. *)

LEMMA Applied ==
    ASSUME TypeOK, NEW o \in Mutations, o.op = "erase" => fs.files > 0
    PROVE  Apply(o) \in FileSystems
<1> USE DEF TypeOK, FileSystems
<1>1. CASE o.op = "put"
  <2>1. o.on \in Roots /\ o.to \in Contents
        BY <1>1 DEF Mutations
  <2> QED BY <1>1, <2>1 DEF Apply
<1>2. CASE o.op = "move"
  <2>1. o.on \in Roots /\ o.to \in Roots
        BY <1>2 DEF Mutations
  <2>2. Apply(o) = [fs EXCEPT !.root = [fs.root EXCEPT ![o.to] = fs.root[o.on], ![o.on] = "none"]]
        BY <1>2 DEF Apply
  <2>3. "none" \in Contents /\ fs.root[o.on] \in Contents
        BY <2>1 DEF Contents
  <2> QED BY <2>1, <2>2, <2>3
<1>3. CASE o.op \in {"publish", "unlink"}
  <2>1. o.on \in Marks
        BY <1>3 DEF Mutations
  <2> QED BY <1>3, <2>1 DEF Apply
<1>4. CASE o.op \in {"write", "erase"}
      BY <1>4 DEF Apply
<1> QED BY <1>1, <1>2, <1>3, <1>4 DEF Mutations

\* A step that does not name a tree leaves it alone, torn or not.
Spares(o, r) == /\ o.op = "put" => o.on # r
                /\ o.op = "move" => o.on # r /\ o.to # r

LEMMA Spared ==
    ASSUME TypeOK, NEW o \in Mutations
    PROVE  /\ \A r \in Roots : Spares(o, r) => Apply(o).root[r] = fs.root[r]
           /\ o.op \notin {"write", "erase"} => Apply(o).files = fs.files
<1> USE DEF TypeOK, FileSystems
<1>1. CASE o.op = "put"
      BY <1>1 DEF Apply, Spares, Mutations
<1>2. CASE o.op = "move"
  <2>1. Apply(o) = [fs EXCEPT !.root = [fs.root EXCEPT ![o.to] = fs.root[o.on], ![o.on] = "none"]]
        BY <1>2 DEF Apply
  <2>2. ASSUME NEW r \in Roots, Spares(o, r)
        PROVE  Apply(o).root[r] = fs.root[r]
    <3>1. o.on # r /\ o.to # r
          BY <1>2, <2>2 DEF Spares
    <3>2. Apply(o).root = [fs.root EXCEPT ![o.to] = fs.root[o.on], ![o.on] = "none"]
          BY <2>1
    <3> QED BY <3>1, <3>2
  <2>3. Apply(o).files = fs.files
        BY <2>1
  <2> QED BY <2>2, <2>3
<1>3. CASE o.op \in {"publish", "unlink"}
      BY <1>3 DEF Apply, Mutations
<1>4. CASE o.op \in {"write", "erase"}
      BY <1>4 DEF Apply
<1> QED BY <1>1, <1>2, <1>3, <1>4 DEF Mutations

LEMMA TornSpares ==
    ASSUME TypeOK, NEW o \in Steps
    PROVE  /\ Torn(o) \in FileSystems
           /\ Torn(o).files = fs.files
           /\ \A r \in Roots \ {"stage"} : Torn(o).root[r] = fs.root[r]
<1> USE DEF TypeOK, FileSystems
<1>1. CASE o.op = "publish"
  <2>1. o.on \in Marks
        BY <1>1 DEF Steps, Mutations, Calls, Refusal
  <2>2. Torn(o) = [fs EXCEPT !.mark[o.on] = "torn"]
        BY <1>1 DEF Torn, Put
  <2> QED BY <2>1, <2>2
<1>2. CASE o.op # "publish" /\ o = Put("stage", "partial")
      BY <1>2 DEF Torn, Roots, Contents
<1>3. CASE o.op # "publish" /\ o # Put("stage", "partial")
      BY <1>3 DEF Torn
<1> QED BY <1>1, <1>2, <1>3

\* Which intents touch what.
LEMMA FootSpares ==
    ASSUME NEW k \in Kinds, NEW o \in Foot(k)
    PROVE  /\ k # "source-retire" => Spares(o, "source")
           /\ k \notin {"source-retire", "owned-slot-cleanup"} => Spares(o, "tombstone")
           /\ k \notin {"destination-backup-create", "destination-install", "runtime-rollback"} =>
                 Spares(o, "destination")
           /\ k \notin {"destination-backup-create", "runtime-rollback", "owned-slot-cleanup"} =>
                 Spares(o, "backup")
           /\ k \notin {"authored-prepare", "owned-slot-cleanup"} => Spares(o, "artifacts")
           /\ k \notin {"authored-target-commit", "authored-target-rollback"} =>
                 o.op \notin {"write", "erase"}
<1>1. CASE k \in {"destination-parent-create", "runtime-stage-create",
                  "destination-backup-create", "destination-install"}
      BY <1>1 DEF Foot, Puts, Put, Move, Publish, Unlink, Files, Call, Refusal, Spares
<1>2. CASE k \in {"authored-prepare", "authored-target-commit", "source-retire",
                  "authored-target-rollback"}
      BY <1>2 DEF Foot, Puts, Put, Move, Publish, Unlink, Files, Call, Refusal, Spares
<1>3. CASE k = "runtime-rollback"
      BY <1>3 DEF Foot, Puts, Put, Move, Publish, Unlink, Files, Call, Refusal, Spares
<1>4. CASE k = "owned-slot-cleanup"
      BY <1>4 DEF Foot, Puts, Put, Move, Publish, Unlink, Files, Call, Refusal, Spares
<1> QED BY <1>1, <1>2, <1>3, <1>4 DEF Kinds

\* The next mutation of a process is one of the pending intent's.
LEMMA Pending ==
    ASSUME TypeOK, Shape, run.todo # <<>>
    PROVE  j.pend \in Kinds /\ Head(run.todo) \in Foot(j.pend) /\ run.mode # "none"
<1>1. Head(run.todo) \in Foot(j.pend)
      BY Rest DEF Shape
<1>2. j.pend # "none"
      BY <1>1 DEF Foot
<1> QED BY <1>1, <1>2 DEF TypeOK, Journals, Shape

LEMMA Erasing ==
    ASSUME TypeOK, Shape, Cursors, Written, run.todo # <<>>, Head(run.todo).op = "erase"
    PROVE  fs.files > 0
<1>1. j.pend = "authored-target-rollback"
  <2>1. j.pend \in {"authored-target-commit", "authored-target-rollback"}
        BY Pending, FootSpares
  <2>2. j.pend # "authored-target-commit"
        BY Pending DEF Foot, Call, Put, Files
  <2> QED BY <2>1, <2>2
<1>2. run.todo = <<Files("erase")>>
      BY <1>1, ShortTails DEF Written, Call, Refusal, Put
<1>3. ~IsDirectory(j.ac - j.rc - 1) /\ fs.files = FilesOf(j.ac - j.rc) /\ j.rc < j.ac
      BY <1>1, <1>2, ShortTails DEF Written, Call, Refusal, Put, Files
<1> QED BY <1>3 DEF IsDirectory, FilesOf, TypeOK, Journals, FileSystems

-----------------------------------------------------------------------------
(* The records that are not about an intent. *)

Sealing == \/ VerifySource \/ VerifyDestination \/ DestinationReady \/ AuthoredCommitted
           \/ AuthorityVerified \/ SealCommitted \/ BeginRollback \/ AuthoredRolledBack
           \/ SealRolledBack \/ Close

LEMMA SealingDoes ==
    ASSUME TypeOK, Shape, Sealing
    PROVE  /\ UNCHANGED <<project, fs, run, faults>>
           /\ j.pend = "none" /\ run.todo = <<>> /\ run.mode # "none"
           /\ \E p \in Phases, t \in {"none", "committed", "rolled-back"} :
                 /\ j' = [j EXCEPT !.phase = p, !.term = t]
                 /\ \/ /\ t = j.term
                       /\ \/ j.phase = "prepared" /\ p = "source-verified"
                          \/ j.phase \in {"prepared", "source-verified"} /\ p = "destination-verified"
                          \/ j.phase = "authored-prepared" /\ p = "destination-ready" /\ Promotes
                          \/ j.phase = CommitPhase /\ p = "authored-committed"
                          \/ /\ j.phase \in {"source-retired", "authored-committed"}
                             /\ p = "authority-verified"
                             /\ HasSource => j.phase = "source-retired"
                          \/ Reversible /\ p = "rollback-started"
                          \/ /\ j.phase \in {"rollback-started", "runtime-rolled-back"}
                             /\ p = "authored-rolled-back" /\ j.rc = j.ac
                             /\ j.phase = "rollback-started" => ~runtimeRollbackRequired
                          \/ j.phase = "committed" /\ p = "closed"
                          \/ j.phase = "rolled-back" /\ p = "closed" /\ (j.term = "rolled-back" => RolledBackAuthority)
                    \/ j.phase = "authority-verified" /\ p = "committed" /\ t = "committed"
                    \/ /\ j.phase = "authored-rolled-back" /\ p = "rolled-back"
                       /\ t = "rolled-back" /\ RolledBackAuthority
<1> USE DEF Record, Advance, GoesOn, Idle, Phases, ForwardPhases, RollbackPhases, CleanupPhases
<1>1. j.pend = "none" => run.todo = <<>>
  <2>1. ASSUME j.pend = "none", run.todo # <<>> PROVE FALSE
        BY <2>1, Pending DEF Kinds
  <2> QED BY <2>1
<1>2. j \in Journals
      BY DEF TypeOK
<1>3. \A p, t : [j EXCEPT !.phase = p, !.term = j.term] = [j EXCEPT !.phase = p]
      BY <1>2 DEF Journals
<1>4. CASE VerifySource
      BY <1>1, <1>2, <1>3, <1>4 DEF VerifySource, Journals
<1>5. CASE VerifyDestination
      BY <1>1, <1>2, <1>3, <1>5 DEF VerifyDestination, Journals
<1>6. CASE DestinationReady
      BY <1>1, <1>2, <1>3, <1>6 DEF DestinationReady, Journals
<1>7. CASE AuthoredCommitted
      BY <1>1, <1>2, <1>3, <1>7 DEF AuthoredCommitted, Journals
<1>8. CASE AuthorityVerified
      BY <1>1, <1>2, <1>3, <1>8 DEF AuthorityVerified, Journals
<1>9. CASE SealCommitted
      BY <1>1, <1>2, <1>9 DEF SealCommitted, Journals
<1>10. CASE BeginRollback
      BY <1>1, <1>2, <1>3, <1>10 DEF BeginRollback, Journals
<1>11. CASE AuthoredRolledBack
      BY <1>1, <1>2, <1>3, <1>11 DEF AuthoredRolledBack, RollingBack, RollsBackRuntime, Journals
<1>12. CASE SealRolledBack
      BY <1>1, <1>2, <1>12 DEF SealRolledBack, Journals
<1>13. CASE Close
      BY <1>1, <1>2, <1>3, <1>13 DEF Close, Journals
<1> QED BY <1>4, <1>5, <1>6, <1>7, <1>8, <1>9, <1>10, <1>11, <1>12, <1>13 DEF Sealing

-----------------------------------------------------------------------------
(* Types. *)

SlotStates == {"unmaterialized", "pending", "removed"}

LEMMA JournalType ==
    ASSUME NEW r \in Journals
    PROVE  /\ \A p \in Phases : [r EXCEPT !.pend = "none", !.phase = p] \in Journals
           /\ \A n \in Nat : [r EXCEPT !.ac = n] \in Journals /\ [r EXCEPT !.rc = n] \in Journals
           /\ \A g \in [Slots -> SlotStates] : [r EXCEPT !.slot = g] \in Journals
           /\ \A g \in [Slots -> SlotStates] :
                \A i \in {"not-installed", "installed", "rolled-back", "backup-restored"} :
                  [r EXCEPT !.install = i, !.slot = g] \in Journals
BY DEF Journals, SlotStates

LEMMA PostconditionType ==
    ASSUME TypeOK, j.pend # "none"
    PROVE  Postcondition \in Journals
<1>0. j \in Journals
      BY DEF TypeOK
<1>1. \A p \in Phases : Reaches(p) \in Journals
      BY <1>0, JournalType DEF Reaches
<1>3. \A p \in Phases : \A s : ReachesWith(p, s, "pending") \in Journals /\ ReachesWith(p, s, "removed") \in Journals
  <2> SUFFICES ASSUME NEW p \in Phases, NEW s, NEW v \in {"pending", "removed"}
               PROVE  ReachesWith(p, s, v) \in Journals
      OBVIOUS
  <2> DEFINE R == Reaches(p)
             g == [R.slot EXCEPT ![s] = v]
  <2>2. ReachesWith(p, s, v) = [R EXCEPT !.slot = g]
        BY DEF ReachesWith
  <2>3. R \in Journals
        BY <1>1
  <2> HIDE DEF R
  <2>4. g \in [Slots -> SlotStates]
        BY <2>3 DEF Journals, SlotStates
  <2> HIDE DEF g
  <2> QED BY <2>2, <2>3, <2>4, JournalType
<1>9. {"authored-prepared", "destination-ready", "runtime-staged", "destination-backed-up",
       "runtime-installed", "source-retired", "runtime-rolled-back", "authored-committed",
       "authored-rolled-back", "cleanup"} \subseteq Phases
      BY DEF Phases, ForwardPhases, RollbackPhases, CleanupPhases
<1>4. Installed \in Journals
  <2> DEFINE d == IF project.parentPre THEN "unmaterialized" ELSE "pending"
             g == [Reaches("runtime-installed").slot EXCEPT !["destinationParent"] = d,
                                                            !["runtimeStage"] = "removed"]
  <2>1. g \in [Slots -> SlotStates]
        BY <1>1, <1>9 DEF Journals, SlotStates
  <2>2. Installed = [Reaches("runtime-installed") EXCEPT !.install = "installed", !.slot = g]
        BY <1>1 DEF Installed, Journals
  <2> HIDE DEF g
  <2> QED BY <1>1, <1>9, <2>1, <2>2, JournalType
<1>5. RuntimeRolledBack \in Journals
  <2> DEFINE R == Reaches("runtime-rolled-back")
  <2>1. PICK f \in [Slots -> BOOLEAN] : RuntimeRolledBack =
            [R EXCEPT
               !.install = IF j.install = "not-installed" /\ project.destPre THEN "backup-restored"
                           ELSE "rolled-back",
               !.slot = [s \in Slots |-> IF f[s] THEN "removed" ELSE j.slot[s]]]
    <3> DEFINE removesParent == ~project.parentPre /\ (j.install = "not-installed" \/ j.ac = 0)
               Settled(s) == CASE s = "destinationParent" -> removesParent
                               [] s = "runtimeStage" ->
                                    j.slot[s] = "pending" /\ (removesParent \/ j.install = "not-installed")
                               [] s = "destinationBackup" -> j.slot[s] = "pending"
                               [] OTHER -> FALSE
    <3>1. \A s \in Slots : Settled(s) \in BOOLEAN
          OBVIOUS
    <3>2. RuntimeRolledBack =
            [R EXCEPT
               !.install = IF j.install = "not-installed" /\ project.destPre THEN "backup-restored"
                           ELSE "rolled-back",
               !.slot = [s \in Slots |-> IF Settled(s) THEN "removed" ELSE j.slot[s]]]
          BY DEF RuntimeRolledBack
    <3> WITNESS [s \in Slots |-> Settled(s)] \in [Slots -> BOOLEAN]
    <3> HIDE DEF Settled
    <3> QED BY <3>2
  <2>2. R \in Journals
        BY <1>1, <1>9
  <2> HIDE DEF R
  <2>3. [s \in Slots |-> IF f[s] THEN "removed" ELSE j.slot[s]] \in [Slots -> SlotStates]
        BY <1>0 DEF Journals, SlotStates
  <2> QED BY <2>1, <2>2, <2>3, JournalType
<1>6. ASSUME NEW p \in Phases
      PROVE  /\ [Reaches(p) EXCEPT !.ac = j.ac + 1] \in Journals
             /\ [Reaches(p) EXCEPT !.rc = j.rc + 1] \in Journals
  <2>1. j.ac + 1 \in Nat /\ j.rc + 1 \in Nat
        BY <1>0 DEF Journals
  <2> QED BY <1>1, <2>1, JournalType
<1>7. j.pend \in Kinds /\ j.phase \in Phases
      BY <1>0 DEF Journals
<1>8. /\ (IF j.ac + 1 = project.targets THEN "authored-committed" ELSE j.phase) \in Phases
      /\ (IF j.rc + 1 = j.ac THEN "authored-rolled-back" ELSE j.phase) \in Phases
      BY <1>7, <1>9
<1> QED BY <1>1, <1>3, <1>4, <1>5, <1>6, <1>7, <1>8, <1>9 DEF Postcondition, Kinds

LEMMA StepsWiden ==
    ASSUME TypeOK, NEW s \in Seq(Foot(j.pend))
    PROVE  s \in Seq(Steps)
BY Wider, FootSteps DEF TypeOK, Journals

LEMMA TypeInit ==
    ASSUME Init
    PROVE  TypeOK
<1>1. j \in Journals
      BY DEF Init, Journals, Phases, ForwardPhases, Slots
<1>2. fs \in FileSystems
  <2>1. /\ fs.root \in [Roots -> Contents] /\ fs.mark \in [Marks -> {"none", "torn", "exact"}]
        /\ fs.files = 0
        BY DEF Init, Contents
  <2>2. fs = [root |-> fs.root, mark |-> fs.mark, files |-> fs.files]
        BY DEF Init
  <2> QED BY <2>1, <2>2 DEF FileSystems
<1>3. run \in Runs
      BY Short DEF Init, Runs
<1> QED BY <1>1, <1>2, <1>3, FaultsAssumption DEF Init, TypeOK

LEMMA TypeStep ==
    ASSUME TypeOK, Shape, Materialized, Cursors, Written, [Next]_vars
    PROVE  TypeOK'
<1>0. /\ project \in Projects /\ j \in Journals /\ fs \in FileSystems /\ run \in Runs
      /\ faults \in 0..MaxFaults
      BY DEF TypeOK
<1>1. CASE Sealing
  <2>1. j' \in Journals
        BY <1>0, <1>1, SealingDoes DEF Journals
  <2> QED BY <1>0, <1>1, <2>1, SealingDoes DEF TypeOK
<1>2. CASE UnlinkJournal
  <2>1. j' \in Journals
        BY <1>0, <1>2 DEF UnlinkJournal, Journals, Phases
  <2>2. run' \in Runs
        BY <1>2, Short DEF UnlinkJournal, NoRun, Runs
  <2> QED BY <1>0, <1>2, <2>1, <2>2 DEF UnlinkJournal, TypeOK
<1>3. ASSUME NEW kind \in Kinds, RecordIntent(kind)
      PROVE  TypeOK'
  <2>1. j' \in Journals
        BY <1>0, <1>3 DEF RecordIntent, Journals
  <2>2. <<Call(kind)>> \in Seq(Steps)
    <3>1. Call(kind) \in Steps
          BY DEF Call, Steps, Calls, Procedures
    <3> QED BY <3>1, Short
  <2>3. run' \in Runs
        BY <1>0, <1>3, <2>2 DEF RecordIntent, Runs
  <2> QED BY <1>0, <1>3, <2>1, <2>3 DEF RecordIntent, TypeOK
<1>4. CASE RecordPostcondition
  <2>1. j' \in Journals
        BY <1>4, PostconditionType DEF RecordPostcondition
  <2>2. run' \in Runs
        BY <1>0, <1>4 DEF RecordPostcondition, Runs
  <2> QED BY <1>0, <1>4, <2>1, <2>2 DEF RecordPostcondition, TypeOK
<1>5. CASE Enter
  <2>1. Body(Head(run.todo).on) \in Seq(Foot(j.pend)) /\ Tail(run.todo) \in Seq(Foot(j.pend))
        BY <1>5, Bodies, Rest DEF Enter, Shape
  <2>2. Body(Head(run.todo).on) \o Tail(run.todo) \in Seq(Steps)
        BY <2>1, Joined, StepsWiden
  <2>3. run' \in Runs
        BY <1>0, <1>5, <2>2 DEF Enter, Runs
  <2> QED BY <1>0, <1>5, <2>3 DEF Enter, TypeOK
<1>6. CASE Mutate
  <2>1. fs' \in FileSystems
        BY <1>6, Applied, Erasing DEF Mutate
  <2>2. Tail(run.todo) \in Seq(Steps)
        BY <1>0, <1>6, Rest DEF Mutate, Runs
  <2>3. run' \in Runs
        BY <1>0, <1>6, <2>2 DEF Mutate, Runs
  <2> QED BY <1>0, <1>6, <2>1, <2>3 DEF Mutate, TypeOK
<1>7. CASE Stop
  <2>1. fs' \in FileSystems
    <3>1. \A i \in DOMAIN run.todo : run.todo[i] \in Steps
          BY <1>0, ElementOfSeq DEF Runs
    <3> QED BY <1>0, <1>7, <3>1, TornSpares DEF Stop
  <2>2. run' \in Runs
        BY <1>7, Short DEF Stop, NoRun, Runs
  <2>3. faults' \in 0..MaxFaults
        BY <1>0, <1>7, FaultsAssumption DEF Stop, Fault
  <2> QED BY <1>0, <1>7, <2>1, <2>2, <2>3 DEF Stop, TypeOK
<1>8. CASE Fail
  <2>1. run' \in Runs
        BY <1>0, <1>8 DEF Fail, Runs
  <2>2. faults' \in 0..MaxFaults
        BY <1>0, <1>8, FaultsAssumption DEF Fail, Fault
  <2> QED BY <1>0, <1>8, <2>1, <2>2 DEF Fail, TypeOK
<1>9. CASE Refused
  <2>1. run' \in Runs
        BY <1>9, Short DEF Refused, NoRun, Runs
  <2> QED BY <1>0, <1>9, <2>1 DEF Refused, TypeOK
<1>10. CASE Recover
  <2>1. (IF j.pend = "none" THEN <<>> ELSE <<Call(j.pend)>>) \in Seq(Steps)
    <3>1. j.pend # "none" => Call(j.pend) \in Steps
          BY <1>0 DEF Call, Steps, Calls, Procedures, Journals
    <3> QED BY <3>1, Short
  <2>2. run' \in Runs
        BY <1>10, <2>1 DEF Recover, Runs
  <2> QED BY <1>0, <1>10, <2>2 DEF Recover, TypeOK
<1>11. CASE UNCHANGED vars
      BY <1>0, <1>11 DEF vars, TypeOK
<1> QED BY <1>1, <1>2, <1>3, <1>4, <1>5, <1>6, <1>7, <1>8, <1>9, <1>10, <1>11
        DEF Next, Progress, Sealing

-----------------------------------------------------------------------------
(* Intents, postconditions and the shape of what is left to do. *)

LEMMA NothingPending ==
    ASSUME TypeOK, Shape, j.pend = "none"
    PROVE  run.todo = <<>>
BY Pending DEF Kinds

LEMMA IntentDoes ==
    ASSUME TypeOK, Shape, NEW kind \in Kinds, RecordIntent(kind)
    PROVE  /\ j.pend = "none" /\ run.mode # "none"
           /\ j' = [j EXCEPT !.pend = kind]
           /\ run' = [run EXCEPT !.todo = <<Call(kind)>>]
           /\ UNCHANGED <<project, fs, faults>>
           /\ j.phase \in PhasesOf(kind)
           /\ kind \in {"destination-parent-create"} => Promotes
           /\ kind = "destination-backup-create" => project.destPre
           /\ kind = "destination-install" => (j.phase = "destination-backed-up" <=> project.destPre)
           /\ kind = "source-retire" => HasSource /\ CommittedAuthority
           /\ kind = "runtime-rollback" => runtimeRollbackRequired
           /\ kind = "owned-slot-cleanup" => PendingSlots # {}
           /\ kind = "authored-prepare" => j.slot["authored"] = "unmaterialized"
           /\ kind = "authored-target-commit" => j.ac < project.targets /\ j.phase = CommitPhase
           /\ kind = "authored-target-rollback" =>
                 j.rc < j.ac /\ (j.phase = "rollback-started" => ~runtimeRollbackRequired)
<1>1. CASE ForwardIntent(kind)
      BY <1>1 DEF RecordIntent, ForwardIntent, GoesOn, Idle, Kinds, PhasesOf, CommitPhase
<1>2. CASE RollbackIntent(kind)
      BY <1>2 DEF RecordIntent, RollbackIntent, RollingBack, RollsBackRuntime, Idle, Kinds, PhasesOf
<1>3. CASE CleanupIntent(kind)
      BY <1>3 DEF RecordIntent, CleanupIntent, Idle, Kinds, PhasesOf
<1> QED BY <1>1, <1>2, <1>3 DEF RecordIntent

\* The phases that postconditions reach, and the slots they change.
LEMMA PostDoes ==
    ASSUME TypeOK, j.pend # "none", NEW q, q = Postcondition
    PROVE  /\ q.pend = "none" /\ q.term = j.term
           /\ q.phase = CASE j.pend = "authored-prepare" ->
                               IF run.mode = "fresh" THEN "authored-prepared" ELSE j.phase
                          [] j.pend = "destination-parent-create" -> "destination-ready"
                          [] j.pend = "runtime-stage-create" -> "runtime-staged"
                          [] j.pend = "destination-backup-create" -> "destination-backed-up"
                          [] j.pend = "destination-install" -> "runtime-installed"
                          [] j.pend = "authored-target-commit" ->
                               IF j.ac + 1 = project.targets THEN "authored-committed" ELSE j.phase
                          [] j.pend = "source-retire" -> "source-retired"
                          [] j.pend = "runtime-rollback" -> "runtime-rolled-back"
                          [] j.pend = "authored-target-rollback" ->
                               IF j.rc + 1 = j.ac THEN "authored-rolled-back" ELSE j.phase
                          [] j.pend = "owned-slot-cleanup" -> "cleanup"
           /\ q.ac = j.ac + (IF j.pend = "authored-target-commit" THEN 1 ELSE 0)
           /\ q.rc = j.rc + (IF j.pend = "authored-target-rollback" THEN 1 ELSE 0)
           /\ j.pend \notin {"destination-install", "runtime-rollback"} => q.install = j.install
           /\ q.slot["authored"] =
                 IF j.pend = "authored-prepare" /\ run.mode = "fresh" THEN "pending"
                 ELSE IF j.pend = "owned-slot-cleanup" /\ CleanupSlot = "authored" THEN "removed"
                 ELSE j.slot["authored"]
<1>1. j \in Journals /\ j.ac + 0 = j.ac /\ j.rc + 0 = j.rc
      BY DEF TypeOK, Journals
<1> USE DEF Reaches, ReachesWith
<1>2. CASE j.pend \in {"authored-prepare", "destination-parent-create", "runtime-stage-create",
                       "destination-backup-create", "source-retire"}
      BY <1>1, <1>2 DEF Postcondition, Journals, Slots
<1>3. CASE j.pend = "destination-install"
      BY <1>1, <1>3 DEF Postcondition, Installed, Journals, Slots
<1>4. CASE j.pend \in {"authored-target-commit", "authored-target-rollback"}
      BY <1>1, <1>4 DEF Postcondition, Journals, Slots
<1>5. CASE j.pend = "runtime-rollback"
      BY <1>1, <1>5 DEF Postcondition, RuntimeRolledBack, Journals, Slots
<1>6. CASE j.pend = "owned-slot-cleanup"
      BY <1>1, <1>6 DEF Postcondition, Journals, Slots
<1> QED BY <1>1, <1>2, <1>3, <1>4, <1>5, <1>6 DEF Journals, Kinds

LEMMA ShapeStep ==
    ASSUME TypeOK, Shape, Materialized, [Next]_vars
    PROVE  Shape'
<1>1. CASE Sealing
  <2>1. j'.pend = "none" /\ run' = run
        BY <1>1, SealingDoes DEF TypeOK, Journals
  <2>2. run.todo \in Seq(Foot("none"))
        BY <1>1, SealingDoes, Short
  <2> QED BY <1>1, <2>1, <2>2, SealingDoes DEF Shape
<1>2. CASE UnlinkJournal
  <2>1. j'.pend = "none" /\ run' = NoRun
        BY <1>2 DEF UnlinkJournal, Idle, TypeOK, Journals
  <2> QED BY <2>1, Short DEF Shape, NoRun
<1>3. ASSUME NEW kind \in Kinds, RecordIntent(kind)
      PROVE  Shape'
  <2>1. <<Call(kind)>> \in Seq(Foot(kind))
    <3>1. Call(kind) \in Foot(kind)
          BY DEF Foot, Kinds
    <3> QED BY <3>1, Short
  <2>2. j'.pend = kind /\ j'.phase = j.phase /\ run'.todo = <<Call(kind)>> /\ run'.mode # "none"
        BY <1>3, IntentDoes DEF TypeOK, Journals, Runs
  <2> QED BY <1>3, <2>1, <2>2, IntentDoes DEF Shape
<1>4. CASE RecordPostcondition
  <2>1. j'.pend = "none"
        BY <1>4, PostDoes DEF RecordPostcondition
  <2>2. run'.todo = <<>>
        BY <1>4 DEF RecordPostcondition, TypeOK, Runs
  <2> QED BY <2>1, <2>2, Short DEF Shape
<1>5. CASE Enter
  <2>1. Body(Head(run.todo).on) \in Seq(Foot(j.pend)) /\ Tail(run.todo) \in Seq(Foot(j.pend))
        BY <1>5, Bodies, Rest DEF Enter, Shape
  <2>2. Body(Head(run.todo).on) \o Tail(run.todo) \in Seq(Foot(j.pend))
        BY <2>1, Joined
  <2>3. run'.todo \in Seq(Foot(j.pend)) /\ run'.mode = run.mode /\ j' = j
        BY <1>5, <2>2 DEF Enter, TypeOK, Runs
  <2>4. run.mode # "none"
        BY <1>5, Pending DEF Enter
  <2> QED BY <2>3, <2>4 DEF Shape
<1>6. CASE Mutate
  <2>1. Tail(run.todo) \in Seq(Foot(j.pend))
        BY <1>6, Rest DEF Mutate, Shape
  <2>2. run'.todo = Tail(run.todo) /\ run'.mode = run.mode /\ j' = j
        BY <1>6 DEF Mutate, TypeOK, Runs
  <2>3. run.mode # "none"
        BY <1>6, Pending DEF Mutate
  <2> QED BY <2>1, <2>2, <2>3 DEF Shape
<1>7. CASE Stop \/ Refused
  <2>1. j' = j /\ run' = NoRun
        BY <1>7 DEF Stop, Refused
  <2> QED BY <2>1, Short DEF Shape, NoRun
<1>8. CASE Fail
  <2>1. j' = j /\ run'.todo = run.todo /\ run'.mode = "undo"
        BY <1>8 DEF Fail, TypeOK, Runs
  <2> QED BY <2>1 DEF Shape
<1>9. CASE Recover
  <2>1. j' = j /\ run'.mode = "recover"
        /\ run'.todo = IF j.pend = "none" THEN <<>> ELSE <<Call(j.pend)>>
        BY <1>9 DEF Recover
  <2>2. j.pend # "none" => Call(j.pend) \in Foot(j.pend)
        BY DEF Foot, TypeOK, Journals, Kinds
  <2>3. run'.todo \in Seq(Foot(j.pend))
        BY <2>1, <2>2, Short
  <2> QED BY <2>1, <2>3 DEF Shape
<1>10. CASE UNCHANGED vars
      BY <1>10 DEF vars, Shape
<1> QED BY <1>1, <1>2, <1>3, <1>4, <1>5, <1>6, <1>7, <1>8, <1>9, <1>10
        DEF Next, Progress, Sealing

LEMMA PostSlots ==
    ASSUME TypeOK, j.pend # "none", NEW q, q = Postcondition
    PROVE  /\ j.pend \notin {"destination-parent-create", "runtime-stage-create",
                             "destination-backup-create", "destination-install"} =>
                 \A s \in {"destinationParent", "runtimeStage", "destinationBackup"} :
                    q.slot[s] = "pending" => j.slot[s] = "pending"
           /\ j.pend \in {"destination-parent-create", "destination-backup-create"} =>
                 q.slot["runtimeStage"] = j.slot["runtimeStage"]
           /\ j.pend = "destination-install" => q.slot["runtimeStage"] = "removed"
           /\ j.pend = "runtime-rollback" =>
                 (q.slot["runtimeStage"] = "pending" => j.install # "not-installed")
<1>1. j \in Journals
      BY DEF TypeOK
<1> USE DEF Reaches, ReachesWith
<1>2. CASE j.pend \in {"authored-prepare", "destination-parent-create", "runtime-stage-create",
                       "destination-backup-create", "source-retire"}
      BY <1>1, <1>2 DEF Postcondition, Journals, Slots
<1>3. CASE j.pend = "destination-install"
      BY <1>1, <1>3 DEF Postcondition, Installed, Journals, Slots
<1>4. CASE j.pend \in {"authored-target-commit", "authored-target-rollback"}
      BY <1>1, <1>4 DEF Postcondition, Journals, Slots
<1>5. CASE j.pend = "runtime-rollback"
      BY <1>1, <1>5 DEF Postcondition, RuntimeRolledBack, Journals, Slots
<1>6. CASE j.pend = "owned-slot-cleanup"
      BY <1>1, <1>6 DEF Postcondition, Journals, Slots
<1> QED BY <1>1, <1>2, <1>3, <1>4, <1>5, <1>6 DEF Journals, Kinds

\* SealingDoes, of the journal after the record.
LEMMA Sealed ==
    ASSUME TypeOK, Shape, Sealing
    PROVE  /\ j'.slot = j.slot /\ j'.install = j.install /\ j'.ac = j.ac /\ j'.rc = j.rc
           /\ j'.pend = "none" /\ j.pend = "none" /\ run.todo = <<>> /\ run.mode # "none"
           /\ UNCHANGED <<project, fs, run, faults>>
           /\ \/ /\ j'.term = j.term
                 /\ \/ j.phase = "prepared" /\ j'.phase = "source-verified"
                    \/ /\ j.phase \in {"prepared", "source-verified"}
                       /\ j'.phase = "destination-verified"
                    \/ /\ j.phase = "authored-prepared" /\ Promotes
                       /\ j'.phase = "destination-ready"
                    \/ j.phase = CommitPhase /\ j'.phase = "authored-committed"
                    \/ /\ j.phase \in {"source-retired", "authored-committed"}
                       /\ j'.phase = "authority-verified"
                       /\ HasSource => j.phase = "source-retired"
                    \/ Reversible /\ j'.phase = "rollback-started"
                    \/ /\ j.phase \in {"rollback-started", "runtime-rolled-back"}
                       /\ j'.phase = "authored-rolled-back" /\ j.rc = j.ac
                       /\ j.phase = "rollback-started" => ~runtimeRollbackRequired
                    \/ j.phase = "committed" /\ j'.phase = "closed"
                    \/ /\ j.phase = "rolled-back" /\ j'.phase = "closed"
                       /\ j.term = "rolled-back" => RolledBackAuthority
              \/ j.phase = "authority-verified" /\ j'.phase = "committed" /\ j'.term = "committed"
              \/ /\ j.phase = "authored-rolled-back" /\ j'.phase = "rolled-back"
                 /\ j'.term = "rolled-back" /\ RolledBackAuthority
<1>1. PICK p \in Phases, t \in {"none", "committed", "rolled-back"} :
                 /\ j' = [j EXCEPT !.phase = p, !.term = t]
                 /\ \/ /\ t = j.term
                       /\ \/ j.phase = "prepared" /\ p = "source-verified"
                          \/ j.phase \in {"prepared", "source-verified"} /\ p = "destination-verified"
                          \/ j.phase = "authored-prepared" /\ p = "destination-ready" /\ Promotes
                          \/ j.phase = CommitPhase /\ p = "authored-committed"
                          \/ /\ j.phase \in {"source-retired", "authored-committed"}
                             /\ p = "authority-verified"
                             /\ HasSource => j.phase = "source-retired"
                          \/ Reversible /\ p = "rollback-started"
                          \/ /\ j.phase \in {"rollback-started", "runtime-rolled-back"}
                             /\ p = "authored-rolled-back" /\ j.rc = j.ac
                             /\ j.phase = "rollback-started" => ~runtimeRollbackRequired
                          \/ j.phase = "committed" /\ p = "closed"
                          \/ j.phase = "rolled-back" /\ p = "closed" /\ (j.term = "rolled-back" => RolledBackAuthority)
                    \/ j.phase = "authority-verified" /\ p = "committed" /\ t = "committed"
                    \/ /\ j.phase = "authored-rolled-back" /\ p = "rolled-back"
                       /\ t = "rolled-back" /\ RolledBackAuthority
      BY SealingDoes
<1>2. /\ j'.phase = p /\ j'.term = t /\ j'.slot = j.slot /\ j'.install = j.install
      /\ j'.ac = j.ac /\ j'.rc = j.rc /\ j'.pend = j.pend
      BY <1>1 DEF TypeOK, Journals
<1> QED BY <1>1, <1>2, SealingDoes

-----------------------------------------------------------------------------
(* The steps that leave the journal as it is. *)

Working == Enter \/ Mutate \/ Stop \/ Fail \/ Refused \/ Recover \/ UNCHANGED vars

LEMMA WorkingDoes ==
    ASSUME Working
    PROVE  j' = j /\ project' = project
BY DEF Working, Enter, Mutate, Stop, Fail, Refused, Recover, vars

LEMMA Actions ==
    ASSUME [Next]_vars
    PROVE  \/ Sealing \/ UnlinkJournal \/ RecordPostcondition \/ Working
           \/ \E kind \in Kinds : RecordIntent(kind)
BY DEF Next, Progress, Sealing, Working

LEMMA TerminalStep ==
    ASSUME TypeOK, Shape, Terminal, [Next]_vars
    PROVE  Terminal'
<1> USE DEF Closed, CleanupPhases
<1>1. CASE Sealing
      BY <1>1, Sealed DEF Terminal, CommitPhase, Reversible
<1>2. CASE UnlinkJournal
      BY <1>2 DEF UnlinkJournal, Terminal, TypeOK, Journals
<1>3. ASSUME NEW kind \in Kinds, RecordIntent(kind)
      PROVE  Terminal'
      BY <1>3, IntentDoes DEF Terminal, TypeOK, Journals
<1>4. CASE RecordPostcondition
  <2>1. j.pend # "none" /\ j' = Postcondition /\ j.phase \in PhasesOf(j.pend) /\ j.pend \in Kinds
        BY <1>4 DEF RecordPostcondition, Shape, TypeOK, Journals
  <2> QED BY <2>1, PostDoes DEF Terminal, PhasesOf, Kinds
<1>5. CASE Working
      BY <1>5, WorkingDoes DEF Terminal
<1> QED BY <1>1, <1>2, <1>3, <1>4, <1>5, Actions

LEMMA MaterializedStep ==
    ASSUME TypeOK, Shape, Materialized, [Next]_vars
    PROVE  Materialized'
<1>0. j \in Journals
      BY DEF TypeOK
<1>1. CASE Sealing
  <2>1. /\ j'.slot = j.slot /\ j'.install = j.install /\ j'.pend = "none" /\ j.pend = "none"
        /\ project' = project
        BY <1>1, Sealed
  <2>2. runtimeRollbackRequired' <=> runtimeRollbackRequired
        BY <2>1 DEF runtimeRollbackRequired
  <2>3. j.slot["runtimeStage"] = "pending" => runtimeRollbackRequired
        BY DEF runtimeRollbackRequired
  <2> QED BY <1>1, <2>1, <2>2, <2>3, Sealed
          DEF Materialized, BeforeInstall, CommitPhase, Promotes, HasSource, Reversible
<1>2. CASE UnlinkJournal
  <2>1. /\ j'.slot = j.slot /\ j'.install = j.install /\ j'.pend = "none" /\ j.pend = "none"
        /\ project' = project /\ j'.phase = "unlinked" /\ j.phase \in CleanupPhases
        BY <1>0, <1>2 DEF UnlinkJournal, Idle, Journals
  <2>2. runtimeRollbackRequired' <=> runtimeRollbackRequired
        BY <2>1 DEF runtimeRollbackRequired
  <2> QED BY <2>1, <2>2 DEF Materialized, BeforeInstall, CommitPhase, Promotes, HasSource, CleanupPhases
<1>3. ASSUME NEW kind \in Kinds, RecordIntent(kind)
      PROVE  Materialized'
  <2>1. /\ j'.slot = j.slot /\ j'.install = j.install /\ j'.pend = kind /\ j.pend = "none"
        /\ project' = project /\ j'.phase = j.phase
        BY <1>0, <1>3, IntentDoes DEF Journals
  <2>2. runtimeRollbackRequired' <=> runtimeRollbackRequired
        BY <2>1 DEF runtimeRollbackRequired
  <2>3. j.slot["runtimeStage"] = "pending" => runtimeRollbackRequired
        BY DEF runtimeRollbackRequired
  <2> QED BY <1>3, <2>1, <2>2, <2>3, IntentDoes
          DEF Materialized, BeforeInstall, CommitPhase, Promotes, HasSource, PendingSlots
<1>4. CASE RecordPostcondition
  <2>1. /\ j.pend # "none" /\ j' = Postcondition /\ j.phase \in PhasesOf(j.pend) /\ j.pend \in Kinds
        /\ project' = project
        BY <1>0, <1>4 DEF RecordPostcondition, Shape, Journals
  <2>2. runtimeRollbackRequired' => Promotes
    <3>1. CASE j.pend \in {"destination-parent-create", "runtime-stage-create",
                           "destination-backup-create", "destination-install", "runtime-rollback"}
          BY <2>1, <3>1 DEF Materialized, PhasesOf
    <3>2. CASE j.pend \notin {"destination-parent-create", "runtime-stage-create",
                              "destination-backup-create", "destination-install", "runtime-rollback"}
      <4>1. runtimeRollbackRequired' => runtimeRollbackRequired
            BY <2>1, <3>2, PostDoes, PostSlots DEF runtimeRollbackRequired
      <4> QED BY <4>1 DEF Materialized
    <3> QED BY <3>1, <3>2
  <2>3. /\ j'.slot["runtimeStage"] = "pending" =>
              /\ j'.phase \in {"runtime-staged", "destination-backed-up", "rollback-started"}
              /\ j'.install = "not-installed"
        /\ j'.phase \in BeforeInstall => j'.install = "not-installed"
        BY <2>1, PostDoes, PostSlots DEF Materialized, PhasesOf, Kinds, BeforeInstall, CleanupPhases
  <2>4. /\ j'.phase \in {"destination-ready", "runtime-staged", "destination-backed-up",
                         "runtime-installed"} => Promotes
        /\ j'.phase = "destination-backed-up" => project.destPre
        /\ j'.phase = "source-retired" => HasSource
        BY <2>1, PostDoes DEF Materialized, PhasesOf, Kinds, CleanupPhases
  <2> QED BY <2>1, <2>2, <2>3, <2>4, PostDoes DEF Materialized, CommitPhase, Promotes, HasSource
<1>5. CASE Working
      BY <1>5, WorkingDoes DEF Materialized, CommitPhase, Promotes, HasSource, PendingSlots,
                               runtimeRollbackRequired, BeforeInstall
<1> QED BY <1>1, <1>2, <1>3, <1>4, <1>5, Actions

\* A mutation touches the trees of the pending intent only.
LEMMA Mutated ==
    ASSUME TypeOK, Shape, Mutate
    PROVE  /\ j' = j /\ project' = project
           /\ j.pend \in Kinds /\ run.mode # "none" /\ run.todo # <<>>
           /\ Head(run.todo) \in Foot(j.pend) /\ Head(run.todo) \in Mutations
           /\ fs' = Apply(Head(run.todo))
           /\ run'.todo = Tail(run.todo) /\ run'.mode = run.mode
           /\ j.pend # "source-retire" => fs'.root["source"] = fs.root["source"]
           /\ j.pend \notin {"source-retire", "owned-slot-cleanup"} =>
                 fs'.root["tombstone"] = fs.root["tombstone"]
           /\ j.pend \notin {"destination-backup-create", "destination-install", "runtime-rollback"} =>
                 fs'.root["destination"] = fs.root["destination"]
           /\ j.pend \notin {"destination-backup-create", "runtime-rollback", "owned-slot-cleanup"} =>
                 fs'.root["backup"] = fs.root["backup"]
           /\ j.pend \notin {"authored-prepare", "owned-slot-cleanup"} =>
                 fs'.root["artifacts"] = fs.root["artifacts"]
           /\ j.pend \notin {"authored-target-commit", "authored-target-rollback"} =>
                 fs'.files = fs.files
<1>1. /\ run.todo # <<>> /\ Head(run.todo) \in Mutations /\ fs' = Apply(Head(run.todo))
      /\ j' = j /\ project' = project
      BY DEF Mutate
<1>2. run'.todo = Tail(run.todo) /\ run'.mode = run.mode
      BY DEF Mutate, TypeOK, Runs
<1>3. j.pend \in Kinds /\ Head(run.todo) \in Foot(j.pend) /\ run.mode # "none"
      BY <1>1, Pending
<1> QED BY <1>1, <1>2, <1>3, FootSpares, Spared DEF Roots

LEMMA Stopped ==
    ASSUME TypeOK, Stop
    PROVE  /\ j' = j /\ project' = project /\ run' = NoRun
           /\ fs'.files = fs.files
           /\ \A r \in Roots \ {"stage"} : fs'.root[r] = fs.root[r]
<1>1. \A i \in DOMAIN run.todo : run.todo[i] \in Steps
      BY ElementOfSeq DEF TypeOK, Runs
<1> QED BY <1>1, TornSpares DEF Stop

\* The other steps leave the files as they are.
LEMMA Rested ==
    ASSUME TypeOK, Shape, Working, ~Mutate, ~Stop
    PROVE  /\ j' = j /\ project' = project /\ fs' = fs
           /\ \/ /\ run.todo # <<>> /\ Head(run.todo) \in Calls /\ run'.mode = run.mode
                 /\ run'.todo = Body(Head(run.todo).on) \o Tail(run.todo)
              \/ run'.mode = "undo" /\ run'.todo = run.todo /\ run.todo = <<>> /\ run.mode = "fresh"
                 /\ j.pend = "none"
              \/ run' = NoRun
              \/ /\ run'.mode = "recover" /\ run.mode = "none"
                 /\ run'.todo = IF j.pend = "none" THEN <<>> ELSE <<Call(j.pend)>>
              \/ run' = run
<1>1. CASE Enter
      BY <1>1 DEF Enter, TypeOK, Runs
<1>2. CASE Fail
      BY <1>2, NothingPending DEF Fail, Idle, TypeOK, Runs
<1>3. CASE Refused \/ UNCHANGED vars
      BY <1>3 DEF Refused, vars
<1>4. CASE Recover
      BY <1>4 DEF Recover
<1> QED BY <1>1, <1>2, <1>3, <1>4 DEF Working

LEMMA CursorsStep ==
    ASSUME TypeOK, Shape, Materialized, Cursors, Written, [Next]_vars
    PROVE  Cursors'
<1> USE DEF Closed, CleanupPhases
<1>0. j \in Journals /\ run \in Runs
      BY DEF TypeOK
<1>1. CASE Sealing
      BY <1>1, Sealed DEF Cursors, ForwardPhases, CommitPhase, Reversible, Is
<1>2. CASE UnlinkJournal
  <2>1. /\ j'.slot = j.slot /\ j'.pend = "none" /\ j'.phase = "unlinked"
        /\ j'.ac = j.ac /\ j'.rc = j.rc /\ project' = project
        BY <1>0, <1>2 DEF UnlinkJournal, Idle, Journals
  <2> QED BY <2>1 DEF Cursors, ForwardPhases
<1>3. ASSUME NEW kind \in Kinds, RecordIntent(kind)
      PROVE  Cursors'
  <2>1. /\ j'.slot = j.slot /\ j'.pend = kind /\ j'.phase = j.phase
        /\ j'.ac = j.ac /\ j'.rc = j.rc /\ project' = project /\ fs' = fs
        /\ run'.todo = <<Call(kind)>> /\ run'.mode = run.mode
        /\ kind = "authored-prepare" => j.slot["authored"] = "unmaterialized"
        BY <1>0, <1>3, IntentDoes DEF Journals, Runs
  <2> QED BY <2>1 DEF Cursors, Is
<1>4. CASE RecordPostcondition
  <2>1. /\ j.pend # "none" /\ j' = Postcondition /\ j.phase \in PhasesOf(j.pend) /\ j.pend \in Kinds
        /\ project' = project /\ fs' = fs /\ run.todo = <<>> /\ j'.pend = "none"
        BY <1>0, <1>4, PostDoes DEF RecordPostcondition, Shape, Journals
  <2>2. j.ac \in Nat /\ j.rc \in Nat /\ project.targets \in Nat
        BY <1>0, ProjectsAssumption DEF Journals, TypeOK, Selections
  <2>3. j.pend = "authored-prepare" /\ run.mode = "fresh" => Is("artifacts", "all")
        BY <2>1, ShortTails DEF Cursors
  <2>4. j.pend = "authored-target-commit" => j.ac < project.targets
        BY DEF Written
  <2>5. j.pend = "authored-target-rollback" => j.rc < j.ac
        BY DEF Written
  <2>6. /\ j'.rc <= j'.ac /\ j'.ac <= project.targets
        /\ j'.phase \in ForwardPhases => j'.rc = 0
        /\ j'.slot["authored"] = "unmaterialized" => j'.ac = 0
    <3>1. CASE j.pend = "authored-target-commit"
      <4>1. j'.ac = j.ac + 1 /\ j'.rc = j.rc /\ j'.slot["authored"] = j.slot["authored"]
            BY <2>1, <2>2, <3>1, PostDoes
      <4>2. j.rc = 0 /\ j.slot["authored"] = "pending"
            BY <2>1, <3>1 DEF Cursors, PhasesOf, ForwardPhases
      <4> QED BY <2>2, <2>4, <3>1, <4>1, <4>2
    <3>2. CASE j.pend = "authored-target-rollback"
      <4>1. /\ j'.ac = j.ac /\ j'.rc = j.rc + 1 /\ j'.slot["authored"] = j.slot["authored"]
            /\ j'.phase \in {"authored-rolled-back", j.phase}
            BY <2>1, <2>2, <3>2, PostDoes
      <4> QED BY <2>1, <2>2, <2>5, <3>2, <4>1 DEF Cursors, PhasesOf, ForwardPhases
    <3>3. CASE j.pend \notin {"authored-target-commit", "authored-target-rollback"}
      <4>1. j'.ac = j.ac /\ j'.rc = j.rc
            BY <2>1, <2>2, <3>3, PostDoes
      <4>2. j'.slot["authored"] = "unmaterialized" => j.slot["authored"] = "unmaterialized"
            BY <2>1, <3>3, PostDoes
      <4>3. j'.phase \in ForwardPhases => j.phase \in ForwardPhases
            BY <2>1, <3>3, PostDoes DEF PhasesOf, Kinds, ForwardPhases
      <4> QED BY <4>1, <4>2, <4>3 DEF Cursors
    <3> QED BY <3>1, <3>2, <3>3
  <2>7. /\ j'.phase \in ForwardPhases \ {"prepared", "source-verified", "destination-verified"} =>
              j'.slot["authored"] = "pending"
        /\ j'.phase \notin Closed =>
              /\ j'.slot["authored"] # "removed"
              /\ j'.slot["authored"] = "pending" => Is("artifacts", "all")
        BY <2>1, <2>3, PostDoes DEF Cursors, PhasesOf, Kinds, ForwardPhases
  <2> QED BY <2>1, <2>6, <2>7 DEF Cursors, Is
<1>5. CASE Mutate
  <2>1. j.slot["authored"] = "pending" /\ j.phase \notin Closed =>
           fs'.root["artifacts"] = fs.root["artifacts"]
        BY <1>5, Mutated DEF Cursors, Shape, PhasesOf
  <2>2. ASSUME j.pend = "authored-prepare", run.mode = "fresh"
        PROVE  \/ run'.todo = <<Put("artifacts", "all")>>
               \/ run'.todo = <<>> /\ fs'.root["artifacts"] = "all"
    <3>1. run.todo # <<Call("authored-prepare")>>
          BY <1>5, Mutated, ShortTails DEF Call, Mutations
    <3>2. Apply(Put("artifacts", "all")).root["artifacts"] = "all"
          BY DEF Apply, Put, TypeOK, FileSystems, Roots
    <3> QED BY <1>5, <2>2, <3>1, <3>2, Mutated, ShortTails DEF Cursors
  <2> QED BY <1>5, <2>1, <2>2, Mutated DEF Cursors, Is
<1>6. CASE Stop
  <2>1. fs'.root["artifacts"] = fs.root["artifacts"]
        BY <1>6, Stopped DEF Roots
  <2> QED BY <1>6, <2>1, Stopped DEF Cursors, Is, NoRun
<1>7. CASE Working /\ ~Mutate /\ ~Stop
  <2>1. ASSUME j.pend = "authored-prepare", run'.mode = "fresh"
        PROVE  \/ run'.todo \in {<<Call("authored-prepare")>>, <<Put("artifacts", "all")>>,
                                 <<Put("artifacts", "partial"), Put("artifacts", "all")>>}
               \/ run'.todo = <<>> /\ Is("artifacts", "all")
    <3>1. CASE run' = run
          BY <2>1, <3>1 DEF Cursors
    <3>2. CASE /\ run.todo # <<>> /\ Head(run.todo) \in Calls /\ run'.mode = run.mode
               /\ run'.todo = Body(Head(run.todo).on) \o Tail(run.todo)
      <4>1. run.todo = <<Call("authored-prepare")>>
        <5>1. /\ Head(<<Put("artifacts", "all")>>) = Put("artifacts", "all")
              /\ Head(<<Put("artifacts", "partial"), Put("artifacts", "all")>>)
                    = Put("artifacts", "partial")
              BY ShortTails
        <5>2. Put("artifacts", "all") \notin Calls /\ Put("artifacts", "partial") \notin Calls
              BY DEF Put, Calls
        <5> QED BY <2>1, <3>2, <5>1, <5>2 DEF Cursors
      <4>2. Head(run.todo).on = "authored-prepare" /\ Tail(run.todo) = <<>>
            BY <4>1, ShortTails DEF Call
      <4>3. Body("authored-prepare") = <<Put("artifacts", "partial"), Put("artifacts", "all")>>
            BY <2>1, <3>2 DEF Body, PrepareAuthored
      <4>4. Body("authored-prepare") \o <<>> = Body("authored-prepare")
        <5>1. Body("authored-prepare") \in Seq({Put("artifacts", "partial"), Put("artifacts", "all")})
              BY <4>3, Short
        <5> QED BY <5>1, ConcatEmptySeq
      <4> QED BY <3>2, <4>2, <4>3, <4>4
    <3>3. ~(run' = NoRun) /\ ~(run'.mode = "undo") /\ ~(run'.mode = "recover")
          BY <2>1 DEF NoRun
    <3> QED BY <1>7, <3>1, <3>2, <3>3, Rested
  <2> QED BY <1>7, <2>1, Rested DEF Cursors, Is
<1> QED BY <1>1, <1>2, <1>3, <1>4, <1>5, <1>6, <1>7, Actions DEF Working

-----------------------------------------------------------------------------
(* The authored targets. *)

LEMMA CountFiles ==
    ASSUME NEW n \in Nat
    PROVE  /\ FilesOf(n) \in Nat /\ FilesOf(0) = 0
           /\ IsDirectory(n) => FilesOf(n + 1) = FilesOf(n)
           /\ ~IsDirectory(n) => FilesOf(n + 1) = FilesOf(n) + 1
BY DEF FilesOf, IsDirectory

\* What commits and rolls back a target, and what is left of it after a step.
Committing(n) ==
    /\ fs.files \in {FilesOf(n), FilesOf(n + 1)}
    /\ \/ run.todo = <<Call("authored-target-commit")>>
       \/ run.todo = <<Put("parent", "dir")>> /\ IsDirectory(n)
       \/ run.todo = <<Files("write")>> /\ ~IsDirectory(n) /\ fs.files = FilesOf(n)
       \/ run.todo = <<>> /\ (run.mode = "none" \/ fs.files = FilesOf(n + 1))

RollingBackOne(n) ==
    /\ fs.files \in {FilesOf(n), FilesOf(n - 1)}
    /\ \/ run.todo = <<Call("authored-target-rollback")>>
       \/ /\ run.todo \in {<<Call("remove-parent")>>, <<Refusal>>, <<Put("parent", "none")>>}
          /\ IsDirectory(n - 1)
       \/ run.todo = <<Files("erase")>> /\ ~IsDirectory(n - 1) /\ fs.files = FilesOf(n)
       \/ run.todo = <<>> /\ (run.mode = "none" \/ fs.files = FilesOf(n - 1))

LEMMA WrittenIs ==
    Written <=>
       /\ j.pend \notin {"authored-target-commit", "authored-target-rollback"} =>
             fs.files = FilesOf(j.ac - j.rc)
       /\ j.pend = "authored-target-commit" => j.ac < project.targets /\ Committing(j.ac - j.rc)
       /\ j.pend = "authored-target-rollback" => j.rc < j.ac /\ RollingBackOne(j.ac - j.rc)
       /\ j.phase \in Closed /\ j.term = "rolled-back" => fs.files = 0
BY DEF Written, Committing, RollingBackOne

LEMMA Single ==
    ASSUME NEW c
    PROVE  /\ Head(<<c>>) = c /\ Tail(<<c>>) = <<>> /\ <<c>> # <<>>
           /\ \A s : s \in {<<>>, <<c>>} => s \o <<>> = s
<1>1. <<c>> \in Seq({c}) /\ <<>> \in Seq({c})
      BY Short
<1> QED BY <1>1, ConcatEmptySeq, ShortTails

LEMMA CommittingWorks ==
    ASSUME TypeOK, Shape, Cursors, Written, j.pend = "authored-target-commit", Working
    PROVE  Committing(j.ac - j.rc)'
<1> DEFINE n == j.ac - j.rc
<1>1. j.ac \in Nat /\ j.rc = 0 /\ n = j.ac /\ n \in Nat /\ j' = j /\ project' = project
      BY WorkingDoes DEF TypeOK, Journals, Cursors, Shape, PhasesOf, ForwardPhases
<1>2. Committing(n)
      BY WrittenIs
<1>3. /\ FilesOf(n)' = FilesOf(n) /\ FilesOf(n + 1)' = FilesOf(n + 1)
      /\ IsDirectory(n)' <=> IsDirectory(n)
      BY <1>1 DEF FilesOf, IsDirectory
<1>4. /\ IsDirectory(n) => FilesOf(n + 1) = FilesOf(n)
      /\ ~IsDirectory(n) => FilesOf(n + 1) = FilesOf(n) + 1
      BY <1>1, CountFiles
<1>5. CASE Stop
      BY <1>2, <1>3, <1>5, Stopped DEF Committing, NoRun
<1>6. CASE Mutate
  <2>1. run.todo \in {<<Put("parent", "dir")>>, <<Files("write")>>}
    <3>1. run.todo # <<Call("authored-target-commit")>>
          BY <1>6, Mutated, Single DEF Call, Mutations
    <3> QED BY <1>2, <1>6, <3>1, Mutated DEF Committing
  <2>2. run'.todo = <<>>
        BY <1>6, <2>1, Mutated, Single
  <2>3. CASE run.todo = <<Put("parent", "dir")>>
    <3>1. IsDirectory(n)
      <4>1. <<Put("parent", "dir")>> # <<Files("write")>>
        <5>1. Head(<<Put("parent", "dir")>>) # Head(<<Files("write")>>)
              BY Single DEF Put, Files
        <5> QED BY <5>1
      <4>2. <<Put("parent", "dir")>> # <<Call("authored-target-commit")>>
        <5>1. Head(<<Put("parent", "dir")>>) # Head(<<Call("authored-target-commit")>>)
              BY Single DEF Put, Call
        <5> QED BY <5>1
      <4> QED BY <1>2, <2>3, <4>1, <4>2, Single DEF Committing
    <3>2. Head(run.todo) = Put("parent", "dir") /\ Put("parent", "dir").op = "put"
          BY <2>3, Single DEF Put
    <3>3. fs'.files = fs.files
          BY <1>6, <3>2, Mutated, Spared
    <3> QED BY <1>2, <1>3, <1>4, <2>2, <3>1, <3>3 DEF Committing
  <2>4. CASE run.todo = <<Files("write")>>
    <3>1. ~IsDirectory(n) /\ fs.files = FilesOf(n)
      <4>1. <<Files("write")>> # <<Put("parent", "dir")>>
        <5>1. Head(<<Put("parent", "dir")>>) # Head(<<Files("write")>>)
              BY Single DEF Put, Files
        <5> QED BY <5>1
      <4>2. <<Files("write")>> # <<Call("authored-target-commit")>>
        <5>1. Head(<<Files("write")>>) # Head(<<Call("authored-target-commit")>>)
              BY Single DEF Files, Call
        <5> QED BY <5>1
      <4> QED BY <1>2, <2>4, <4>1, <4>2, Single DEF Committing
    <3>2. Head(run.todo) = Files("write") /\ Files("write").op = "write"
          BY <2>4, Single DEF Files
    <3>3. fs'.files = fs.files + 1
          BY <1>6, <3>2, Mutated DEF Apply, TypeOK, FileSystems
    <3> QED BY <1>3, <1>4, <2>2, <3>1, <3>3 DEF Committing
  <2> QED BY <2>1, <2>3, <2>4
<1>7. CASE ~Stop /\ ~Mutate
  <2>1. CASE /\ run.todo # <<>> /\ Head(run.todo) \in Calls /\ run'.mode = run.mode
             /\ run'.todo = Body(Head(run.todo).on) \o Tail(run.todo)
    <3>1. run.todo = <<Call("authored-target-commit")>>
      <4>1. Put("parent", "dir") \notin Calls /\ Files("write") \notin Calls
            BY DEF Put, Files, Calls
      <4> QED BY <1>2, <2>1, <4>1, Single DEF Committing
    <3>2. Head(run.todo).on = "authored-target-commit" /\ Tail(run.todo) = <<>>
          BY <3>1, Single DEF Call
    <3>3. Body("authored-target-commit") = CommitTarget
          BY DEF Body
    <3>4. run'.todo = CommitTarget
          BY <2>1, <3>2, <3>3, TargetParts, Single
    <3>5. fs' = fs
          BY <1>7, Rested
    <3> QED BY <1>1, <1>2, <1>3, <1>4, <3>4, <3>5 DEF Committing, CommitTarget
  <2>2. CASE run' = NoRun
        BY <1>2, <1>3, <1>7, <2>2, Rested DEF Committing, NoRun
  <2>3. CASE run'.todo = <<Call(j.pend)>>
        BY <1>2, <1>3, <1>7, <2>3, Rested DEF Committing
  <2>4. CASE run' = run
        BY <1>2, <1>3, <1>7, <2>4, Rested DEF Committing
  <2> QED BY <1>7, <2>1, <2>2, <2>3, <2>4, Rested
<1> QED BY <1>5, <1>6, <1>7

LEMMA RollingBackWorks ==
    ASSUME TypeOK, Shape, Cursors, Written, j.pend = "authored-target-rollback", Working
    PROVE  RollingBackOne(j.ac - j.rc)'
<1> DEFINE n == j.ac - j.rc
<1>1. /\ j.ac \in Nat /\ j.rc \in Nat /\ j.rc < j.ac /\ n \in Nat /\ n - 1 \in Nat
      /\ (n - 1) + 1 = n /\ j.ac - j.rc - 1 = n - 1 /\ j' = j /\ project' = project
      BY WorkingDoes DEF TypeOK, Journals, Written
<1>2. RollingBackOne(n)
      BY WrittenIs
<1>3. /\ FilesOf(n)' = FilesOf(n) /\ FilesOf(n - 1)' = FilesOf(n - 1)
      /\ IsDirectory(n - 1)' <=> IsDirectory(n - 1)
      BY <1>1 DEF FilesOf, IsDirectory
<1>4. /\ FilesOf(n - 1) \in Nat
      /\ IsDirectory(n - 1) => FilesOf(n) = FilesOf(n - 1)
      /\ ~IsDirectory(n - 1) => FilesOf(n) = FilesOf(n - 1) + 1
  <2> DEFINE m == n - 1
  <2>1. m \in Nat /\ m + 1 = n
        BY <1>1
  <2> HIDE DEF m, n
  <2>2. /\ FilesOf(m) \in Nat
        /\ IsDirectory(m) => FilesOf(n) = FilesOf(m)
        /\ ~IsDirectory(m) => FilesOf(n) = FilesOf(m) + 1
        BY <2>1, CountFiles
  <2> QED BY <2>2 DEF m
<1> DEFINE P == Put("parent", "none")
           E == Files("erase")
           R == Call("remove-parent")
           C == Call("authored-target-rollback")
<1>5. /\ P # E /\ P # R /\ P # C /\ E # R /\ E # C /\ R # C
      /\ Refusal \notin {P, E, R, C}
      /\ P \notin Calls /\ E \notin Calls /\ Refusal \notin Calls
      /\ R \notin Mutations /\ C \notin Mutations /\ Refusal \notin Mutations
      /\ P.op = "put" /\ E.op = "erase"
      BY DEF Put, Files, Call, Refusal, Calls, Mutations
<1>6. CASE Stop
      BY <1>1, <1>2, <1>3, <1>6, Stopped DEF RollingBackOne, NoRun
<1>7. CASE Mutate
  <2>1. Head(run.todo) \in Mutations /\ run.todo # <<>> /\ fs' = Apply(Head(run.todo))
        /\ run'.todo = Tail(run.todo)
        BY <1>7, Mutated
  <2>2. CASE run.todo = <<P>>
    <3>1. Head(run.todo) = P /\ run'.todo = <<>>
          BY <2>1, <2>2, Single
    <3>2. IsDirectory(n - 1)
          BY <1>2, <1>5, <2>2, Single DEF RollingBackOne
    <3>3. fs'.files = fs.files
          BY <1>5, <2>1, <3>1, Spared
    <3> QED BY <1>2, <1>3, <1>4, <3>1, <3>2, <3>3 DEF RollingBackOne
  <2>3. CASE run.todo = <<E>>
    <3>1. Head(run.todo) = E /\ run'.todo = <<>>
          BY <2>1, <2>3, Single
    <3>2. ~IsDirectory(n - 1) /\ fs.files = FilesOf(n)
          BY <1>2, <1>5, <2>3, Single DEF RollingBackOne
    <3>3. fs'.files = fs.files - 1
          BY <1>5, <2>1, <3>1 DEF Apply, TypeOK, FileSystems
    <3> QED BY <1>3, <1>4, <3>1, <3>2, <3>3 DEF RollingBackOne
  <2>4. run.todo \notin {<<C>>, <<R>>, <<Refusal>>}
        BY <1>5, <2>1, Single
  <2> QED BY <1>2, <2>1, <2>2, <2>3, <2>4 DEF RollingBackOne
<1>8. CASE ~Stop /\ ~Mutate
  <2>0. fs' = fs /\ j' = j /\ project' = project
        BY <1>8, Rested
  <2>1. CASE /\ run.todo # <<>> /\ Head(run.todo) \in Calls /\ run'.mode = run.mode
             /\ run'.todo = Body(Head(run.todo).on) \o Tail(run.todo)
    <3>1. run.todo \in {<<C>>, <<R>>}
          BY <1>2, <1>5, <2>1, Single DEF RollingBackOne
    <3>2. CASE run.todo = <<C>>
      <4>1. Head(run.todo).on = "authored-target-rollback" /\ Tail(run.todo) = <<>>
            BY <3>2, Single DEF Call
      <4>2. Body("authored-target-rollback") = RollBackTarget
            BY DEF Body
      <4>3. run'.todo = RollBackTarget
            BY <2>1, <4>1, <4>2, TargetParts, Single
      <4>4. RollBackTarget = IF IsDirectory(n - 1)
                             THEN IF Absent("parent") THEN <<>> ELSE <<R>>
                             ELSE IF fs.files = FilesOf(n - 1) THEN <<>> ELSE <<E>>
            BY <1>1 DEF RollBackTarget
      <4> QED BY <1>2, <1>3, <1>4, <2>0, <4>3, <4>4 DEF RollingBackOne
    <3>3. CASE run.todo = <<R>>
      <4>1. Head(run.todo).on = "remove-parent" /\ Tail(run.todo) = <<>>
            BY <3>3, Single DEF Call
      <4>2. Body("remove-parent") = RemoveParent
            BY DEF Body
      <4>3. run'.todo = RemoveParent
            BY <2>1, <4>1, <4>2, TargetParts, Single
      <4>4. IsDirectory(n - 1)
            BY <1>2, <1>5, <3>3, Single DEF RollingBackOne
      <4> QED BY <1>2, <1>3, <2>0, <4>3, <4>4, TargetParts DEF RollingBackOne
    <3> QED BY <3>1, <3>2, <3>3
  <2>2. CASE run' = NoRun
        BY <1>1, <1>2, <1>3, <2>0, <2>2 DEF RollingBackOne, NoRun
  <2>3. CASE run'.todo = <<Call(j.pend)>>
        BY <1>2, <1>3, <2>0, <2>3 DEF RollingBackOne
  <2>4. CASE run' = run
        BY <1>2, <1>3, <2>0, <2>4 DEF RollingBackOne
  <2> QED BY <1>8, <2>1, <2>2, <2>3, <2>4, Rested
<1>9. RollingBackOne(n)'
      BY <1>6, <1>7, <1>8
<1> QED BY <1>9

LEMMA WrittenStep ==
    ASSUME TypeOK, Shape, Terminal, Materialized, Cursors, Written, [Next]_vars
    PROVE  Written'
<1> USE DEF Closed, CleanupPhases
<1>0. j \in Journals /\ run \in Runs /\ fs \in FileSystems
      BY DEF TypeOK
<1>1. ASSUME project' = project
      PROVE  \A n : FilesOf(n)' = FilesOf(n) /\ (IsDirectory(n)' <=> IsDirectory(n))
      BY <1>1 DEF FilesOf, IsDirectory
<1>2. CASE Sealing
  <2>1. /\ j'.ac = j.ac /\ j'.rc = j.rc /\ fs' = fs /\ project' = project
        /\ j.pend = "none" /\ j'.pend = "none"
        BY <1>2, Sealed
  <2>2. fs.files = FilesOf(j.ac - j.rc)
        BY <2>1 DEF Written
  <2>3. RolledBackAuthority => fs.files = 0
    <3>1. CASE j.slot["authored"] # "unmaterialized"
          BY <3>1 DEF RolledBackAuthority, Preimage
    <3>2. CASE j.slot["authored"] = "unmaterialized"
      <4>1. j.ac = 0 /\ j.rc = 0
            BY <1>0, <3>2 DEF Cursors, Journals
      <4> QED BY <2>2, <4>1, CountFiles
    <3> QED BY <3>1, <3>2
  <2>4. j'.phase \in Closed /\ j'.term = "rolled-back" => RolledBackAuthority
        BY <1>2, Sealed DEF Terminal, CommitPhase
  <2>5. j'.phase \in Closed /\ j'.term = "rolled-back" => fs'.files = 0
        BY <2>1, <2>3, <2>4
  <2> QED BY <2>1, <2>2, <2>5 DEF Written, FilesOf
<1>3. CASE UnlinkJournal
  <2>1. /\ j'.ac = j.ac /\ j'.rc = j.rc /\ fs' = fs /\ project' = project
        /\ j.pend = "none" /\ j'.pend = "none" /\ j'.term = j.term /\ j.phase \in CleanupPhases
        BY <1>0, <1>3 DEF UnlinkJournal, Idle, Journals
  <2> QED BY <2>1 DEF Written, FilesOf
<1>4. ASSUME NEW kind \in Kinds, RecordIntent(kind)
      PROVE  Written'
  <2>1. /\ j'.ac = j.ac /\ j'.rc = j.rc /\ fs' = fs /\ project' = project
        /\ j.pend = "none" /\ j'.pend = kind /\ j'.term = j.term /\ j'.phase = j.phase
        /\ run'.todo = <<Call(kind)>>
        /\ kind = "authored-target-commit" => j.ac < project.targets
        /\ kind = "authored-target-rollback" => j.rc < j.ac
        BY <1>0, <1>4, IntentDoes DEF Journals, Runs
  <2> QED BY <2>1 DEF Written, FilesOf
<1>5. CASE RecordPostcondition
  <2>1. /\ j.pend # "none" /\ j' = Postcondition /\ j.phase \in PhasesOf(j.pend) /\ j.pend \in Kinds
        /\ project' = project /\ fs' = fs /\ run.todo = <<>> /\ run.mode # "none"
        BY <1>0, <1>5 DEF RecordPostcondition, Shape, Journals
  <2>2. j'.pend = "none" /\ j'.term = j.term
        BY <2>1, PostDoes
  <2>3. j'.phase \in Closed => j.phase \in Closed
        BY <2>1, PostDoes DEF PhasesOf, Kinds
  <2>4. fs.files = FilesOf(j'.ac - j'.rc)
    <3>1. CASE j.pend = "authored-target-commit"
      <4>1. fs.files = FilesOf((j.ac - j.rc) + 1)
            BY <2>1, <3>1, WrittenIs, Single DEF Committing
      <4>2. j'.ac - j'.rc = (j.ac - j.rc) + 1
            BY <1>0, <2>1, <3>1, PostDoes DEF Journals
      <4> QED BY <4>1, <4>2
    <3>2. CASE j.pend = "authored-target-rollback"
      <4>1. fs.files = FilesOf((j.ac - j.rc) - 1)
            BY <2>1, <3>2, WrittenIs, Single DEF RollingBackOne
      <4>2. j'.ac - j'.rc = (j.ac - j.rc) - 1
            BY <1>0, <2>1, <3>2, PostDoes DEF Journals
      <4> QED BY <4>1, <4>2
    <3>3. CASE j.pend \notin {"authored-target-commit", "authored-target-rollback"}
      <4>1. fs.files = FilesOf(j.ac - j.rc)
            BY <3>3 DEF Written
      <4>2. j'.ac = j.ac /\ j'.rc = j.rc
            BY <1>0, <2>1, <3>3, PostDoes DEF Journals
      <4> QED BY <4>1, <4>2
    <3> QED BY <3>1, <3>2, <3>3
  <2> QED BY <2>1, <2>2, <2>3, <2>4 DEF Written, FilesOf
<1>6. CASE Working
  <2>1. j' = j /\ project' = project
        BY <1>6, WorkingDoes
  <2>2. CASE j.pend \notin {"authored-target-commit", "authored-target-rollback"}
    <3>1. fs'.files = fs.files
          BY <1>6, <2>2, Mutated, Stopped, Rested
    <3> QED BY <2>1, <2>2, <3>1 DEF Written, FilesOf
  <2>3. CASE j.pend = "authored-target-commit"
    <3>1. Committing(j.ac - j.rc)' /\ j.phase \notin Closed
          BY <1>6, <2>3, CommittingWorks DEF Shape, PhasesOf
    <3> QED BY <2>1, <2>3, <3>1 DEF Committing, Written
  <2>4. CASE j.pend = "authored-target-rollback"
    <3>1. RollingBackOne(j.ac - j.rc)' /\ j.phase \notin Closed
          BY <1>6, <2>4, RollingBackWorks DEF Shape, PhasesOf
    <3> QED BY <2>1, <2>4, <3>1 DEF RollingBackOne, Written
  <2> QED BY <2>2, <2>3, <2>4
<1> QED BY <1>2, <1>3, <1>4, <1>5, <1>6, Actions

-----------------------------------------------------------------------------
(* The cached runtime. *)

\* What is left of the retirement of the source, after a step.
RetiringSource ==
    \/ run.todo \in {<<Call("source-retire")>>, <<Refusal>>, <<>>}
    \/ /\ Is("source", "cache")
       /\ run.todo \in {<<Retires>>, <<Publish("tombstoneOwner"), Retires>>, <<Refusal, Retires>>}

LEMMA RetiringWorks ==
    ASSUME TypeOK, Shape, RetiringSource, j.pend = "source-retire", Working,
           Is("source", "cache") \/ Is("tombstone", "cache")
    PROVE  RetiringSource' /\ (Is("source", "cache") \/ Is("tombstone", "cache"))'
<1> USE DEF Is
<1> DEFINE C == Call("source-retire")
           P == Publish("tombstoneOwner")
<1>1. /\ P # C /\ P # Retires /\ C # Retires /\ Refusal \notin {C, P, Retires}
      /\ C \in Calls /\ P \notin Calls /\ Retires \notin Calls /\ Refusal \notin Calls
      /\ C \notin Mutations /\ Refusal \notin Mutations
      /\ P.op = "publish" /\ Retires.op = "move" /\ Retires.on = "source" /\ Retires.to = "tombstone"
      BY DEF Publish, Call, Refusal, Retires, Move, Calls, Procedures, Kinds, Mutations
<1>2. /\ \A a : Head(<<a>>) = a /\ Tail(<<a>>) = <<>> /\ <<a>> # <<>>
      /\ \A a, b : Head(<<a, b>>) = a /\ Tail(<<a, b>>) = <<b>> /\ <<a, b>> # <<>>
      BY ShortTails
<1>3. CASE Stop
  <2>1. fs'.root["source"] = fs.root["source"] /\ fs'.root["tombstone"] = fs.root["tombstone"]
        BY <1>3, Stopped DEF Roots
  <2> QED BY <1>3, <2>1, Stopped DEF RetiringSource, NoRun
<1>4. CASE Mutate
  <2>1. Head(run.todo) \in Mutations /\ run.todo # <<>> /\ fs' = Apply(Head(run.todo))
        /\ run'.todo = Tail(run.todo)
        BY <1>4, Mutated
  <2>2. CASE run.todo = <<Retires>>
    <3>1. Head(run.todo) = Retires /\ run'.todo = <<>>
          BY <1>2, <2>1, <2>2
    <3>2. fs.root["source"] = "cache"
      <4>1. <<Retires>> # <<C>> /\ <<Retires>> # <<Refusal>>
            BY <1>1, Single
      <4> QED BY <1>2, <2>2, <4>1 DEF RetiringSource
    <3>3. fs'.root["tombstone"] = "cache"
          BY <1>1, <2>1, <3>1, <3>2 DEF Apply, TypeOK, FileSystems, Roots
    <3> QED BY <3>1, <3>3 DEF RetiringSource
  <2>3. CASE run.todo = <<P, Retires>>
    <3>1. Head(run.todo) = P /\ run'.todo = <<Retires>>
          BY <1>2, <2>1, <2>3
    <3>2. fs.root["source"] = "cache"
      <4>1. <<P, Retires>> # <<C>> /\ <<P, Retires>> # <<Refusal>>
            BY <1>1, <1>2
      <4> QED BY <1>2, <2>3, <4>1 DEF RetiringSource
    <3>3. fs'.root["source"] = "cache"
          BY <1>1, <2>1, <3>1, <3>2 DEF Apply
    <3> QED BY <3>1, <3>3 DEF RetiringSource
  <2>4. run.todo \notin {<<C>>, <<Refusal>>, <<Refusal, Retires>>}
        BY <1>1, <1>2, <2>1
  <2> QED BY <2>1, <2>2, <2>3, <2>4 DEF RetiringSource
<1>5. CASE ~Stop /\ ~Mutate
  <2>0. fs' = fs
        BY <1>5, Rested
  <2>1. CASE /\ run.todo # <<>> /\ Head(run.todo) \in Calls /\ run'.mode = run.mode
             /\ run'.todo = Body(Head(run.todo).on) \o Tail(run.todo)
    <3>1. run.todo = <<C>>
          BY <1>1, <1>2, <2>1 DEF RetiringSource
    <3>2. Head(run.todo).on = "source-retire" /\ Tail(run.todo) = <<>>
          BY <3>1, Single DEF Call
    <3>3. Body("source-retire") = RetireSource
          BY DEF Body
    <3>4. RetireSource \o <<>> = RetireSource
      <4>1. RetireSource \in Seq({P, Refusal, Retires})
        <5>1. \A S : Refusal \in S /\ P \in S /\ Retires \in S =>
                 /\ <<>> \in Seq(S) /\ <<Refusal>> \in Seq(S) /\ <<Retires>> \in Seq(S)
                 /\ <<P, Retires>> \in Seq(S) /\ <<Refusal, Retires>> \in Seq(S)
              BY Short
        <5> QED BY <5>1, RetireParts
      <4> QED BY <4>1, ConcatEmptySeq
    <3> QED BY <2>0, <2>1, <3>2, <3>3, <3>4, RetireParts DEF RetiringSource
  <2>2. CASE run' = NoRun
        BY <2>0, <2>2 DEF RetiringSource, NoRun
  <2>3. CASE run'.todo = <<C>>
        BY <2>0, <2>3 DEF RetiringSource
  <2>4. CASE run' = run
        BY <2>0, <2>4 DEF RetiringSource
  <2> QED BY <1>5, <2>1, <2>2, <2>3, <2>4, Rested
<1> QED BY <1>3, <1>4, <1>5

LEMMA RetiredStep ==
    ASSUME TypeOK, Shape, Terminal, Retired, HasSource, [Next]_vars
    PROVE  Retired'
<1> USE DEF Closed, CleanupPhases
<1>0. j \in Journals /\ run \in Runs /\ fs \in FileSystems
      BY DEF TypeOK
<1>1. /\ Is("source", "cache") \/ Retiring
      /\ Retiring => Successor
      /\ j.phase \notin Closed => Is("source", "cache") \/ Is("tombstone", "cache")
      /\ j.pend = "source-retire" => RetiringSource
      BY DEF Retired, RetiringSource
<1>2. ASSUME (Is("source", "cache") \/ Retiring)', (Retiring => Successor)',
             (j.phase \notin Closed => Is("source", "cache") \/ Is("tombstone", "cache"))',
             (j.pend = "source-retire" => RetiringSource)'
      PROVE  Retired'
      BY <1>2 DEF Retired, RetiringSource
<1>3. CASE Sealing
  <2>1. fs' = fs /\ project' = project /\ j.pend = "none" /\ j'.pend = "none"
        BY <1>3, Sealed
  <2>2. Retiring' <=> Retiring
        BY <1>3, <2>1, Sealed DEF Retiring, Terminal, CommitPhase, Reversible
  <2>3. j'.phase \notin Closed => j.phase \notin Closed
        BY <1>3, Sealed DEF CommitPhase, Reversible
  <2> QED BY <1>1, <1>2, <2>1, <2>2, <2>3 DEF Is, Successor, Promotes
<1>4. CASE UnlinkJournal
  <2>1. /\ fs' = fs /\ project' = project /\ j.pend = "none" /\ j'.pend = "none"
        /\ j.phase \in CleanupPhases /\ j'.phase = "unlinked" /\ j'.term = j.term
        BY <1>0, <1>4 DEF UnlinkJournal, Idle, Journals
  <2>2. Retiring' <=> Retiring
        BY <2>1 DEF Retiring
  <2> QED BY <1>1, <1>2, <2>1, <2>2 DEF Is, Successor, Promotes
<1>5. ASSUME NEW kind \in Kinds, RecordIntent(kind)
      PROVE  Retired'
  <2>1. /\ fs' = fs /\ project' = project /\ j.pend = "none" /\ j'.pend = kind
        /\ j'.phase = j.phase /\ j'.term = j.term /\ run'.todo = <<Call(kind)>>
        /\ kind = "source-retire" => CommittedAuthority
        BY <1>0, <1>5, IntentDoes DEF Journals, Runs
  <2>2. /\ kind = "source-retire" => Successor
        /\ kind # "source-retire" => (Retiring' <=> Retiring)
        BY <2>1 DEF CommittedAuthority, HasSource, Retiring
  <2>3. kind = "source-retire" => RetiringSource' /\ Retiring'
        BY <2>1 DEF RetiringSource, Retiring
  <2> QED BY <1>1, <1>2, <2>1, <2>2, <2>3 DEF Is, Successor, Promotes
<1>6. CASE RecordPostcondition
  <2>1. /\ j.pend # "none" /\ j' = Postcondition /\ j.phase \in PhasesOf(j.pend) /\ j.pend \in Kinds
        /\ project' = project /\ fs' = fs
        BY <1>0, <1>6 DEF RecordPostcondition, Shape, Journals
  <2>2. j'.pend = "none" /\ j'.term = j.term
        BY <2>1, PostDoes
  <2>3. /\ j'.phase \in Closed => j.phase \in Closed
        /\ j.phase \in Closed => j'.phase \in Closed
        /\ Retiring' <=> Retiring
        BY <2>1, <2>2, PostDoes DEF PhasesOf, Kinds, Retiring
  <2> QED BY <1>1, <1>2, <2>1, <2>2, <2>3 DEF Is, Successor, Promotes
<1>7. CASE Working
  <2>1. j' = j /\ project' = project /\ (Retiring' <=> Retiring)
        BY <1>7, WorkingDoes DEF Retiring
  <2>2. fs'.root["destination"] = fs.root["destination"] \/ ~Retiring
    <3>1. CASE Mutate
          BY <3>1, Mutated DEF Retiring, Shape, PhasesOf
    <3>2. CASE ~Mutate
          BY <1>7, <3>2, Stopped, Rested DEF Roots
    <3> QED BY <3>1, <3>2
  <2>3. CASE j.pend # "source-retire"
    <3>1. fs'.root["source"] = fs.root["source"]
          BY <1>7, <2>3, Mutated, Stopped, Rested DEF Roots
    <3>2. fs'.root["tombstone"] = fs.root["tombstone"] \/ j.phase \in Closed
          BY <1>7, <2>3, Mutated, Stopped, Rested DEF Roots, Shape, PhasesOf
    <3> QED BY <1>1, <1>2, <2>1, <2>2, <2>3, <3>1, <3>2 DEF Is, Successor, Promotes
  <2>4. CASE j.pend = "source-retire"
    <3>1. j.phase \notin Closed
          BY <2>4 DEF Shape, PhasesOf
    <3>2. RetiringSource' /\ (Is("source", "cache") \/ Is("tombstone", "cache"))'
          BY <1>1, <1>7, <2>4, <3>1, RetiringWorks
    <3>3. Retiring
          BY <2>4 DEF Retiring
    <3>4. Successor'
          BY <1>1, <2>1, <2>2, <3>3 DEF Is, Successor, Promotes
    <3> QED BY <1>2, <2>1, <3>2, <3>3, <3>4
  <2> QED BY <2>3, <2>4
<1> QED BY <1>3, <1>4, <1>5, <1>6, <1>7, Actions

-----------------------------------------------------------------------------
(* The runtime the project had. *)

\* What is left of the backup of the destination, after a step.
BackingUp ==
    \/ run.todo \in {<<Call("destination-backup-create")>>, <<Refusal>>}
    \/ run.todo = <<>> /\ (run.mode = "none" \/ Is("backup", "old"))
    \/ /\ InPlace
       /\ run.todo \in {<<BacksUp>>, <<Publish("backupOwner"), BacksUp>>, <<Refusal, BacksUp>>}

LEMMA BackingUpWorks ==
    ASSUME TypeOK, Shape, BackingUp, j.pend = "destination-backup-create", Working,
           InPlace \/ Is("backup", "old")
    PROVE  BackingUp' /\ (InPlace \/ Is("backup", "old"))'
<1> USE DEF Is, Absent, InPlace
<1> DEFINE C == Call("destination-backup-create")
           P == Publish("backupOwner")
<1>1. /\ P # C /\ P # BacksUp /\ C # BacksUp /\ Refusal \notin {C, P, BacksUp}
      /\ C \in Calls /\ P \notin Calls /\ BacksUp \notin Calls /\ Refusal \notin Calls
      /\ C \notin Mutations /\ Refusal \notin Mutations
      /\ P.op = "publish" /\ BacksUp.op = "move" /\ BacksUp.on = "destination"
      /\ BacksUp.to = "backup"
      BY DEF Publish, Call, Refusal, BacksUp, Move, Calls, Procedures, Kinds, Mutations
<1>2. /\ \A a : Head(<<a>>) = a /\ Tail(<<a>>) = <<>> /\ <<a>> # <<>>
      /\ \A a, b : Head(<<a, b>>) = a /\ Tail(<<a, b>>) = <<b>> /\ <<a, b>> # <<>>
      BY ShortTails
<1>3. CASE Stop
  <2>1. fs'.root["destination"] = fs.root["destination"] /\ fs'.root["backup"] = fs.root["backup"]
        BY <1>3, Stopped DEF Roots
  <2> QED BY <1>3, <2>1, Stopped DEF BackingUp, NoRun
<1>4. CASE Mutate
  <2>1. Head(run.todo) \in Mutations /\ run.todo # <<>> /\ fs' = Apply(Head(run.todo))
        /\ run'.todo = Tail(run.todo)
        BY <1>4, Mutated
  <2>2. CASE run.todo = <<BacksUp>>
    <3>1. Head(run.todo) = BacksUp /\ run'.todo = <<>>
          BY <1>2, <2>1, <2>2
    <3>2. InPlace
      <4>1. <<BacksUp>> # <<C>> /\ <<BacksUp>> # <<Refusal>>
            BY <1>1, Single
      <4> QED BY <1>2, <2>2, <4>1 DEF BackingUp
    <3>3. fs'.root["backup"] = "old"
          BY <1>1, <2>1, <3>1, <3>2 DEF Apply, TypeOK, FileSystems, Roots
    <3> QED BY <3>1, <3>3 DEF BackingUp
  <2>3. CASE run.todo = <<P, BacksUp>>
    <3>1. Head(run.todo) = P /\ run'.todo = <<BacksUp>>
          BY <1>2, <2>1, <2>3
    <3>2. InPlace
      <4>1. <<P, BacksUp>> # <<C>> /\ <<P, BacksUp>> # <<Refusal>>
            BY <1>1, <1>2
      <4> QED BY <1>2, <2>3, <4>1 DEF BackingUp
    <3>3. fs'.root["destination"] = "old" /\ fs'.root["backup"] = "none"
          BY <1>1, <2>1, <3>1, <3>2 DEF Apply
    <3> QED BY <3>1, <3>3 DEF BackingUp
  <2>4. run.todo \notin {<<C>>, <<Refusal>>, <<Refusal, BacksUp>>}
        BY <1>1, <1>2, <2>1
  <2> QED BY <2>1, <2>2, <2>3, <2>4 DEF BackingUp
<1>5. CASE ~Stop /\ ~Mutate
  <2>0. fs' = fs
        BY <1>5, Rested
  <2>1. CASE /\ run.todo # <<>> /\ Head(run.todo) \in Calls /\ run'.mode = run.mode
             /\ run'.todo = Body(Head(run.todo).on) \o Tail(run.todo)
    <3>1. run.todo = <<C>>
          BY <1>1, <1>2, <2>1 DEF BackingUp
    <3>2. Head(run.todo).on = "destination-backup-create" /\ Tail(run.todo) = <<>>
          BY <3>1, Single DEF Call
    <3>3. Body("destination-backup-create") = InParent(BackUp)
          BY DEF Body
    <3>4. InParent(BackUp) \o <<>> = InParent(BackUp)
      <4>1. InParent(BackUp) \in Seq({P, Refusal, BacksUp})
        <5>1. \A S : Refusal \in S /\ P \in S /\ BacksUp \in S =>
                 /\ <<>> \in Seq(S) /\ <<Refusal>> \in Seq(S) /\ <<BacksUp>> \in Seq(S)
                 /\ <<P, BacksUp>> \in Seq(S) /\ <<Refusal, BacksUp>> \in Seq(S)
              BY Short
        <5> QED BY <5>1, BackUpParts
      <4> QED BY <4>1, ConcatEmptySeq
    <3> QED BY <2>0, <2>1, <3>2, <3>3, <3>4, BackUpParts DEF BackingUp
  <2>2. CASE run' = NoRun
        BY <2>0, <2>2 DEF BackingUp, NoRun
  <2>3. CASE run'.todo = <<C>>
        BY <2>0, <2>3 DEF BackingUp
  <2>4. CASE run' = run
        BY <2>0, <2>4 DEF BackingUp
  <2> QED BY <1>5, <2>1, <2>2, <2>3, <2>4, Rested
<1> QED BY <1>3, <1>4, <1>5

LEMMA JoinedHead ==
    ASSUME NEW S, NEW u \in Seq(S), NEW w \in Seq(S), u # <<>>
    PROVE  Head(u \o w) = Head(u) /\ Tail(u \o w) = Tail(u) \o w /\ u \o w # <<>>
<1> DEFINE s == u \o w
           t == Tail(u) \o w
<1>1. Len(u) \in Nat \ {0} /\ Len(w) \in Nat
      BY EmptySeq, LenProperties
<1>2. /\ s \in Seq(S) /\ Len(s) = Len(u) + Len(w)
      /\ \A i \in 1..(Len(u) + Len(w)) : s[i] = IF i <= Len(u) THEN u[i] ELSE w[i - Len(u)]
      BY ConcatProperties
<1>3. s # <<>>
      BY <1>1, <1>2, EmptySeq
<1>4. /\ Tail(u) \in Seq(S) /\ Len(Tail(u)) = Len(u) - 1
      /\ \A i \in 1..Len(Tail(u)) : Tail(u)[i] = u[i + 1]
      BY HeadTailProperties
<1>5. /\ t \in Seq(S) /\ Len(t) = Len(Tail(u)) + Len(w)
      /\ \A i \in 1..(Len(Tail(u)) + Len(w)) :
            t[i] = IF i <= Len(Tail(u)) THEN Tail(u)[i] ELSE w[i - Len(Tail(u))]
      BY <1>4, ConcatProperties
<1> HIDE DEF s, t
<1>6. /\ Tail(s) \in Seq(S) /\ Len(Tail(s)) = Len(s) - 1
      /\ \A i \in 1..Len(Tail(s)) : Tail(s)[i] = s[i + 1]
      BY <1>2, <1>3, HeadTailProperties
<1>7. Len(Tail(s)) = Len(t)
      BY <1>1, <1>2, <1>4, <1>5, <1>6
<1>8. ASSUME NEW i \in 1..Len(Tail(s))
      PROVE  Tail(s)[i] = t[i]
  <2>1. Tail(s)[i] = s[i + 1] /\ i \in Nat /\ 1 <= i /\ i <= (Len(u) - 1) + Len(w)
        BY <1>1, <1>2, <1>6
  <2>2. i + 1 \in 1..(Len(u) + Len(w)) /\ i \in 1..(Len(Tail(u)) + Len(w))
        BY <1>1, <1>4, <2>1
  <2>3. CASE i <= Len(u) - 1
    <3>1. s[i + 1] = u[i + 1]
          BY <1>1, <1>2, <2>1, <2>2, <2>3
    <3>2. t[i] = u[i + 1]
          BY <1>1, <1>4, <1>5, <2>1, <2>2, <2>3
    <3> QED BY <2>1, <3>1, <3>2
  <2>4. CASE ~(i <= Len(u) - 1)
    <3>1. s[i + 1] = w[(i + 1) - Len(u)]
          BY <1>1, <1>2, <2>1, <2>2, <2>4
    <3>2. t[i] = w[i - (Len(u) - 1)]
          BY <1>1, <1>4, <1>5, <2>1, <2>2, <2>4
    <3>3. (i + 1) - Len(u) = i - (Len(u) - 1)
          BY <1>1, <2>1
    <3> QED BY <2>1, <3>1, <3>2, <3>3
  <2> QED BY <2>3, <2>4
<1>9. Tail(s) = t
      BY <1>5, <1>6, <1>7, <1>8, SeqEqual
<1>10. Head(s) = s[1] /\ Head(u) = u[1]
      BY <1>2, <1>3
<1>11. s[1] = u[1]
      BY <1>1, <1>2
<1> QED BY <1>3, <1>9, <1>10, <1>11 DEF s, t

LEMMA QuietSpares ==
    /\ \A o \in Quiet \cup Replaces : Spares(o, "backup") /\ Spares(o, "destination")
    /\ \A o \in Before : Spares(o, "backup")
    /\ Restores \notin Quiet \cup Replaces /\ Restores \notin Before
    /\ \A c : Call(c) \in Quiet => c \in {"remove-stage", "remove-parent", "remove-created-parent",
                                          "expect-no-destination", "settle-parent"}
<1>1. \A o \in Quiet : Spares(o, "backup") /\ Spares(o, "destination")
      BY DEF Quiet, Replaces, Foot, Puts, Restores, Put, Move, Publish, Unlink, Call, Refusal, Spares
<1>2. \A o \in Replaces \cup Puts("destination") : Spares(o, "backup")
      BY DEF Replaces, Puts, Put, Call, Spares
<1>3. \A o \in Replaces : Spares(o, "destination")
      BY DEF Replaces, Call, Spares
<1>4. Restores \notin Quiet /\ ~Spares(Restores, "backup")
      BY DEF Quiet, Restores, Move, Spares
<1>5. \A c : Call(c) \in Quiet => c \in {"remove-stage", "remove-parent", "remove-created-parent",
                                         "expect-no-destination", "settle-parent"}
      BY DEF Quiet, Replaces, Foot, Puts, Restores, Put, Move, Publish, Unlink, Call, Refusal
<1>6. Call("remove-installed") \in Replaces
      BY DEF Replaces
<1> QED BY <1>1, <1>2, <1>3, <1>4, <1>5, <1>6 DEF Before

LEMMA PartBodies ==
    ASSUME TypeOK, NEW c
    PROVE  /\ Call(c) \in Before => Body(c) \in Seq(Before)
           /\ Call(c) \in Quiet \cup Replaces /\ project.destPre /\ InPlace =>
                 Body(c) \in Seq(Quiet \cup Replaces)
<1>1. Call(c) \in Quiet => Body(c) \in Seq(Quiet)
      BY QuietSpares, RollbackParts DEF Body
<1>2. \A s \in Seq(Quiet) : s \in Seq(Before) /\ s \in Seq(Quiet \cup Replaces)
  <2>1. Quiet \subseteq Before /\ Quiet \subseteq Quiet \cup Replaces
        BY DEF Before
  <2> QED BY <2>1, Wider
<1>3. c = "remove-installed" => Body(c) \in Seq(Before)
  <2>1. Quiet \cup Puts("destination") \subseteq Before
        BY DEF Before
  <2>2. RemoveInstalled \in Seq(Before)
        BY <2>1, InstalledParts, Wider
  <2>3. Body("remove-installed") = RemoveInstalled
        BY DEF Body
  <2> QED BY <2>2, <2>3
<1>4. Call(c) \in Before => Call(c) \in Quiet \/ c = "remove-installed"
      BY DEF Before, Puts, Put, Call
<1>5. Call(c) \in Replaces => c \in {"runtime-rollback", "remove-installed", "restore-backup"}
      BY DEF Replaces, Call
<1>6. ASSUME project.destPre, InPlace, c \in {"runtime-rollback", "remove-installed", "restore-backup"}
      PROVE  Body(c) \in Seq(Quiet \cup Replaces)
  <2>1. /\ Body("runtime-rollback") = RollBackRuntime
        /\ Body("remove-installed") = RemoveInstalled
        /\ Body("restore-backup") = RestoreBackup
        BY DEF Body
  <2>2. ~(Is("backup", "old") /\ Absent("destination"))
        BY <1>6 DEF InPlace, Is, Absent
  <2> QED BY <1>2, <1>6, <2>1, <2>2, RollbackParts, InstalledParts, RestoreParts
<1> QED BY <1>1, <1>2, <1>3, <1>4, <1>5, <1>6

\* A sequence that restores the backup starts with a step before that or with the call.
LEMMA RestoringStarts ==
    ASSUME NEW s, Restoring(s)
    PROVE  /\ s # <<>>
           /\ \/ /\ Head(s) = Call("restore-backup") /\ Tail(s) \in Seq(Quiet)
              \/ /\ Head(s) \in Before
                 /\ \A b \in Seq(Before) : Restoring(b \o Tail(s))
<1> DEFINE R == Call("restore-backup")
           T == Before \cup {R}
<1>1. PICK u \in Seq(Before), v \in Seq(Quiet) : s = u \o (<<R>> \o v)
      BY DEF Restoring
<1>2. /\ u \in Seq(T) /\ v \in Seq(T) /\ v \in Seq(Before)
      /\ \A b \in Seq(Before) : b \in Seq(T)
  <2>1. Before \subseteq T /\ Quiet \subseteq Before
        BY DEF Before
  <2> QED BY <2>1, Wider
<1>3. <<R>> \in Seq(T) /\ <<R>> # <<>> /\ Head(<<R>>) = R /\ Tail(<<R>>) = <<>>
  <2>1. R \in T
        OBVIOUS
  <2> QED BY <2>1, Short, Single
<1> DEFINE w == <<R>> \o v
<1>4. /\ w \in Seq(T) /\ w # <<>> /\ Head(w) = R /\ Tail(w) = v
  <2>1. w \in Seq(T)
        BY <1>2, <1>3, Joined
  <2>2. Head(w) = R /\ Tail(w) = <<>> \o v /\ w # <<>>
        BY <1>2, <1>3, JoinedHead
  <2>3. <<>> \o v = v
        BY <1>2, ConcatEmptySeq
  <2> QED BY <2>1, <2>2, <2>3
<1>5. CASE u = <<>>
  <2>1. s = w
        BY <1>1, <1>4, <1>5, ConcatEmptySeq
  <2> QED BY <1>4, <2>1
<1>6. CASE u # <<>>
  <2>1. Head(s) = Head(u) /\ Tail(s) = Tail(u) \o w /\ s # <<>>
        BY <1>1, <1>2, <1>4, <1>6, JoinedHead
  <2>2. Head(u) \in Before /\ Tail(u) \in Seq(Before)
        BY <1>6, Rest
  <2>3. ASSUME NEW b \in Seq(Before)
        PROVE  Restoring(b \o Tail(s))
    <3>1. b \o Tail(u) \in Seq(Before)
          BY <2>2, Joined
    <3>2. (b \o Tail(u)) \o w = b \o (Tail(u) \o w)
      <4>1. b \in Seq(T) /\ Tail(u) \in Seq(T) /\ w \in Seq(T)
            BY <1>2, <1>4, <2>2
      <4> HIDE DEF T, w
      <4> QED BY <4>1, ConcatAssociative
    <3> QED BY <2>1, <3>1, <3>2 DEF Restoring
  <2> QED BY <2>1, <2>2, <2>3
<1> QED BY <1>5, <1>6

LEMMA RollingBackPartWorks ==
    ASSUME TypeOK, Shape, project.destPre, RollingBackPart, j.pend = "runtime-rollback", Working
    PROVE  RollingBackPart' /\ (InPlace \/ Is("backup", "old"))'
<1> USE DEF Is, Absent, InPlace
<1> DEFINE C == Call("runtime-rollback")
           R == Call("restore-backup")
           W == Quiet \cup Replaces
<1>1. /\ <<>> \in Seq(Before) /\ <<>> \in Seq(W) /\ <<C>> \in Seq(W)
      /\ C \in Calls /\ R \in Calls /\ C \notin Mutations /\ R \notin Mutations
      /\ Restores \notin Calls
      /\ Restores.op = "move" /\ Restores.on = "backup" /\ Restores.to = "destination"
  <2>1. C \in W
        BY DEF Replaces
  <2> HIDE DEF W
  <2>2. <<>> \in Seq(Before) /\ <<>> \in Seq(W) /\ <<C>> \in Seq(W)
        BY <2>1, Short
  <2> QED BY <2>2 DEF Call, Calls, Procedures, Kinds, Mutations, Restores, Move
<1>2. \A s \in Seq(Quiet) : s \in Seq(Before) /\ s \in Seq(W)
  <2>1. Quiet \subseteq Before /\ Quiet \subseteq W
        BY DEF Before
  <2> QED BY <2>1, Wider
<1>3. CASE Stop
  <2>1. fs'.root["destination"] = fs.root["destination"] /\ fs'.root["backup"] = fs.root["backup"]
        BY <1>3, Stopped DEF Roots
  <2>2. run'.todo = <<>>
        BY <1>3, Stopped DEF NoRun
  <2>3. CASE Is("backup", "old")
        BY <1>1, <2>1, <2>2, <2>3 DEF RollingBackPart
  <2>4. CASE InPlace
        BY <1>1, <2>1, <2>2, <2>4 DEF RollingBackPart
  <2> QED BY <2>3, <2>4 DEF RollingBackPart
<1>4. CASE Mutate
  <2>1. Head(run.todo) \in Mutations /\ run.todo # <<>> /\ fs' = Apply(Head(run.todo))
        /\ run'.todo = Tail(run.todo)
        BY <1>4, Mutated
  <2>2. run.todo # <<C>>
        BY <1>1, <2>1, Single
  <2>3. CASE Is("backup", "old") /\ run.todo \in Seq(Before)
    <3>1. Head(run.todo) \in Before /\ Tail(run.todo) \in Seq(Before)
          BY <2>1, <2>3, Rest
    <3>2. fs'.root["backup"] = "old"
          BY <2>1, <2>3, <3>1, QuietSpares, Spared DEF Roots
    <3> QED BY <2>1, <3>1, <3>2 DEF RollingBackPart
  <2>4. CASE Is("backup", "old") /\ Restoring(run.todo)
    <3>1. Head(run.todo) \in Before /\ \A b \in Seq(Before) : Restoring(b \o Tail(run.todo))
          BY <1>1, <2>1, <2>4, RestoringStarts
    <3>2. fs'.root["backup"] = "old"
          BY <2>1, <2>4, <3>1, QuietSpares, Spared DEF Roots
    <3>3. Restoring(<<>> \o Tail(run.todo))
          BY <1>1, <3>1
    <3>4. <<>> \o Tail(run.todo) = Tail(run.todo)
          BY <2>1, Rest, ConcatEmptySeq DEF Shape
    <3> QED BY <2>1, <3>2, <3>3, <3>4 DEF RollingBackPart, Restoring
  <2>5. CASE /\ Is("backup", "old") /\ Absent("destination")
             /\ Head(run.todo) = Restores /\ Tail(run.todo) \in Seq(Quiet)
    <3>1. fs'.root["destination"] = "old" /\ fs'.root["backup"] = "none"
          BY <1>1, <2>1, <2>5 DEF Apply, TypeOK, FileSystems, Roots
    <3> QED BY <1>2, <2>1, <2>5, <3>1 DEF RollingBackPart
  <2>6. CASE InPlace /\ run.todo \in Seq(W)
    <3>1. Head(run.todo) \in W /\ Tail(run.todo) \in Seq(W)
          BY <2>1, <2>6, Rest
    <3>2. fs'.root["destination"] = "old" /\ fs'.root["backup"] = "none"
          BY <2>1, <2>6, <3>1, QuietSpares, Spared DEF Roots
    <3> QED BY <2>1, <3>1, <3>2 DEF RollingBackPart
  <2> QED BY <2>2, <2>3, <2>4, <2>5, <2>6 DEF RollingBackPart
<1>5. CASE ~Stop /\ ~Mutate
  <2>0. fs' = fs
        BY <1>5, Rested
  <2>1. CASE /\ run.todo # <<>> /\ Head(run.todo) \in Calls /\ run'.mode = run.mode
             /\ run'.todo = Body(Head(run.todo).on) \o Tail(run.todo)
    <3> DEFINE c == Head(run.todo).on
    <3>1. Head(run.todo) = Call(c)
          BY <2>1 DEF Call, Calls
    <3> HIDE DEF c
    <3>2. CASE Is("backup", "old") /\ run.todo = <<C>>
      <4>1. c = "runtime-rollback" /\ Tail(run.todo) = <<>>
            BY <3>2, Single DEF c, Call
      <4>2. run'.todo = RollBackRuntime
        <5>1. Body(c) = RollBackRuntime
              BY <4>1 DEF Body
        <5>2. RollBackRuntime \o <<>> = RollBackRuntime
              BY RollbackParts, ConcatEmptySeq
        <5> QED BY <2>1, <4>1, <5>1, <5>2 DEF c
      <4> QED BY <1>2, <2>0, <3>2, <4>2, RollbackParts DEF RollingBackPart, Restoring
    <3>3. CASE Is("backup", "old") /\ run.todo \in Seq(Before)
      <4>1. Call(c) \in Before /\ Tail(run.todo) \in Seq(Before)
            BY <2>1, <3>1, <3>3, Rest
      <4>2. Body(c) \o Tail(run.todo) \in Seq(Before)
            BY <4>1, PartBodies, Joined
      <4> QED BY <2>0, <2>1, <3>3, <4>2 DEF RollingBackPart, c
    <3>4. CASE Is("backup", "old") /\ Restoring(run.todo)
      <4>1. CASE Head(run.todo) = R /\ Tail(run.todo) \in Seq(Quiet)
        <5>1. c = "restore-backup"
              BY <4>1 DEF c, Call
        <5>2. Body(c) = RestoreBackup
              BY <5>1 DEF Body
        <5>3. CASE RestoreBackup \in Seq(Quiet)
          <6>1. RestoreBackup \o Tail(run.todo) \in Seq(Quiet)
                BY <4>1, <5>3, Joined
          <6> QED BY <1>2, <2>0, <2>1, <3>4, <5>2, <6>1 DEF RollingBackPart, c
        <5>4. CASE /\ Is("backup", "old") /\ Absent("destination")
                   /\ RestoreBackup = <<Restores>> \o <<Unlink("backupOwner")>>
          <6> DEFINE X == Quiet \cup {Restores}
                     d == <<Unlink("backupOwner")>>
                     t == Tail(run.todo)
          <6>1. Unlink("backupOwner") \in Quiet /\ Quiet \subseteq X /\ Restores \in X
                BY QuietSteps
          <6>2. d \in Seq(Quiet)
                BY <6>1, Short
          <6> HIDE DEF X
          <6>3. <<Restores>> \in Seq(X) /\ d \in Seq(X) /\ t \in Seq(X)
                BY <4>1, <6>1, <6>2, Short, Wider
          <6> HIDE DEF d, t
          <6>4. (<<Restores>> \o d) \o t = <<Restores>> \o (d \o t)
                BY <6>3, ConcatAssociative
          <6>5. d \o t \in Seq(Quiet) /\ d \o t \in Seq(X)
                BY <4>1, <6>2, <6>3, Joined DEF t
          <6>6. /\ Head(<<Restores>> \o (d \o t)) = Head(<<Restores>>)
                /\ Tail(<<Restores>> \o (d \o t)) = Tail(<<Restores>>) \o (d \o t)
                /\ <<Restores>> \o (d \o t) # <<>>
                BY <6>3, <6>5, Single, JoinedHead
          <6>7. <<>> \o (d \o t) = d \o t
                BY <6>5, ConcatEmptySeq
          <6>8. run'.todo = <<Restores>> \o (d \o t)
                BY <2>1, <5>2, <5>4, <6>4 DEF c, d, t
          <6>9. Head(run'.todo) = Restores /\ Tail(run'.todo) \in Seq(Quiet) /\ run'.todo # <<>>
                BY <6>5, <6>6, <6>7, <6>8, Single
          <6> QED BY <2>0, <5>4, <6>9 DEF RollingBackPart
        <5> QED BY <5>3, <5>4, RestoreParts
      <4>2. CASE /\ Head(run.todo) \in Before
                 /\ \A b \in Seq(Before) : Restoring(b \o Tail(run.todo))
        <5>1. Restoring(Body(c) \o Tail(run.todo))
              BY <3>1, <4>2, PartBodies
        <5> QED BY <2>0, <2>1, <3>4, <5>1 DEF RollingBackPart, Restoring, c
      <4> QED BY <3>4, <4>1, <4>2, RestoringStarts
    <3>5. CASE InPlace /\ run.todo \in Seq(W)
      <4>1. Call(c) \in W /\ Tail(run.todo) \in Seq(W)
            BY <2>1, <3>1, <3>5, Rest
      <4>2. Body(c) \o Tail(run.todo) \in Seq(W)
            BY <3>5, <4>1, PartBodies, Joined
      <4> QED BY <2>0, <2>1, <3>5, <4>2 DEF RollingBackPart, c
    <3>6. Head(run.todo) # Restores
          BY <1>1, <2>1
    <3> QED BY <3>2, <3>3, <3>4, <3>5, <3>6 DEF RollingBackPart
  <2>2. CASE run' = NoRun
        BY <1>1, <2>0, <2>2 DEF RollingBackPart, NoRun
  <2>3. CASE run'.todo = <<C>>
        BY <1>1, <2>0, <2>3 DEF RollingBackPart
  <2>4. CASE run' = run
        BY <2>0, <2>4 DEF RollingBackPart
  <2> QED BY <1>5, <2>1, <2>2, <2>3, <2>4, Rested
<1> QED BY <1>3, <1>4, <1>5

LEMMA BackedUpStep ==
    ASSUME TypeOK, Shape, Terminal, Materialized, Retired, BackedUp, project.destPre, [Next]_vars
    PROVE  BackedUp'
<1> USE DEF Closed, CleanupPhases
<1> DEFINE Early == {"prepared", "source-verified", "destination-verified", "authored-prepared",
                     "destination-ready", "runtime-staged"}
           Late == {"destination-backed-up", "runtime-installed", "authored-committed",
                    "source-retired", "authority-verified", "committed"}
           Was == \/ InPlace
                  \/ j.pend = "destination-backup-create" /\ Is("backup", "old")
<1>0. j \in Journals /\ run \in Runs /\ fs \in FileSystems
      BY DEF TypeOK
<1>1. /\ ~Promotes => Is("destination", "old")
      /\ Promotes /\ j.phase \in Early => Was
      /\ j.pend = "destination-backup-create" => BackingUp
      /\ Promotes /\ j.phase \in Late => Is("backup", "old")
      /\ Promotes /\ j.phase \in RollbackPhases => InPlace \/ Is("backup", "old")
      /\ j.pend = "runtime-rollback" => RollingBackPart
      /\ j.phase \in Closed /\ j.term = "rolled-back" => Is("destination", "old")
      BY DEF BackedUp, BackingUp
<1>2. ASSUME (~Promotes => Is("destination", "old"))',
             (Promotes /\ j.phase \in Early => Was)',
             (j.pend = "destination-backup-create" => BackingUp)',
             (Promotes /\ j.phase \in Late => Is("backup", "old"))',
             (Promotes /\ j.phase \in RollbackPhases => InPlace \/ Is("backup", "old"))',
             (j.pend = "runtime-rollback" => RollingBackPart)',
             (j.phase \in Closed /\ j.term = "rolled-back" => Is("destination", "old"))'
      PROVE  BackedUp'
      BY <1>2 DEF BackedUp, BackingUp
<1>3. ASSUME fs' = fs, project' = project
      PROVE  /\ \A r, c : Is(r, c)' <=> Is(r, c)
             /\ InPlace' <=> InPlace
             /\ Promotes' <=> Promotes
      BY <1>3 DEF Is, InPlace, Absent, Promotes
<1>4. CASE Sealing
  <2>1. fs' = fs /\ project' = project /\ j.pend = "none" /\ j'.pend = "none"
        BY <1>4, Sealed
  <2>2. Promotes /\ j'.phase \in Early => j.phase \in Early
        BY <1>4, Sealed DEF CommitPhase, Reversible
  <2>3. Promotes /\ j'.phase \in Late => j.phase \in Late
        BY <1>4, Sealed DEF CommitPhase, Reversible, HasSource, Promotes
  <2>4. Promotes /\ j'.phase \in RollbackPhases => j.phase \in Early \cup Late \cup RollbackPhases
        BY <1>4, Sealed DEF RollbackPhases, CommitPhase, Reversible
  <2>5. j'.phase \in Closed /\ j'.term = "rolled-back" => RolledBackAuthority
        BY <1>4, Sealed DEF Terminal, CommitPhase
  <2>6. RolledBackAuthority => Is("destination", "old")
        BY DEF RolledBackAuthority
  <2> QED BY <1>1, <1>2, <1>3, <2>1, <2>2, <2>3, <2>4, <2>5, <2>6
<1>5. CASE UnlinkJournal
  <2>1. /\ fs' = fs /\ project' = project /\ j.pend = "none" /\ j'.pend = "none"
        /\ j.phase \in CleanupPhases /\ j'.phase = "unlinked" /\ j'.term = j.term
        BY <1>0, <1>5 DEF UnlinkJournal, Idle, Journals
  <2> QED BY <1>1, <1>2, <1>3, <2>1 DEF RollbackPhases
<1>6. ASSUME NEW kind \in Kinds, RecordIntent(kind)
      PROVE  BackedUp'
  <2>1. /\ fs' = fs /\ project' = project /\ j.pend = "none" /\ j'.pend = kind
        /\ j'.phase = j.phase /\ j'.term = j.term /\ run'.todo = <<Call(kind)>>
        /\ j.phase \in PhasesOf(kind)
        BY <1>0, <1>6, IntentDoes DEF Journals, Runs
  <2>2. kind = "destination-backup-create" => BackingUp'
        BY <2>1 DEF BackingUp
  <2>3. kind = "runtime-rollback" => RollingBackPart'
    <3>1. ASSUME kind = "runtime-rollback"
          PROVE  InPlace \/ Is("backup", "old")
      <4>1. j'.pend = "runtime-rollback" /\ j.phase \in RollbackPhases
            BY <2>1, <3>1 DEF PhasesOf, RollbackPhases
      <4>2. Promotes
            BY <2>1, <3>1, <1>6, IntentDoes DEF Materialized
      <4> QED BY <1>1, <4>1, <4>2
    <3>2. kind = "runtime-rollback" => <<Call(kind)>> \in Seq(Quiet \cup Replaces)
      <4> DEFINE W == Quiet \cup Replaces
      <4>1. Call("runtime-rollback") \in W
            BY DEF Replaces
      <4> HIDE DEF W
      <4>2. <<Call("runtime-rollback")>> \in Seq(W)
            BY <4>1, Short
      <4> QED BY <4>2 DEF W
    <3> QED BY <1>3, <2>1, <3>1, <3>2 DEF RollingBackPart
  <2> QED BY <1>1, <1>2, <1>3, <2>1, <2>2, <2>3
<1>7. CASE RecordPostcondition
  <2>1. /\ j.pend # "none" /\ j' = Postcondition /\ j.phase \in PhasesOf(j.pend) /\ j.pend \in Kinds
        /\ project' = project /\ fs' = fs /\ run.todo = <<>> /\ run.mode # "none"
        BY <1>0, <1>7 DEF RecordPostcondition, Shape, Journals
  <2>2. j'.pend = "none" /\ j'.term = j.term
        BY <2>1, PostDoes
  <2>3. j'.phase \in Closed => j.phase \in Closed
        BY <2>1, PostDoes DEF PhasesOf, Kinds
  <2>4. j'.phase \in RollbackPhases => j.phase \in RollbackPhases
        BY <2>1, PostDoes DEF PhasesOf, Kinds, RollbackPhases
  <2>5. j'.phase \in Early => j.phase \in Early /\ j.pend # "destination-backup-create"
        BY <2>1, PostDoes DEF PhasesOf, Kinds
  <2>6. Promotes /\ j'.phase \in Late => Is("backup", "old")
    <3>1. CASE j.pend = "destination-backup-create"
      <4>1. Is("backup", "old")
            BY <1>1, <2>1, <3>1, Single, ShortTails DEF BackingUp
      <4> QED BY <4>1
    <3>2. CASE j.pend = "destination-install"
          BY <1>1, <2>1, <3>2 DEF Materialized
    <3>3. CASE j.pend \notin {"destination-backup-create", "destination-install"}
      <4>1. Promotes /\ j'.phase \in Late => j.phase \in Late
            BY <2>1, <3>3, PostDoes DEF PhasesOf, Kinds, Materialized, CommitPhase
      <4> QED BY <1>1, <4>1
    <3> QED BY <3>1, <3>2, <3>3
  <2> QED BY <1>1, <1>2, <1>3, <2>1, <2>2, <2>3, <2>4, <2>5, <2>6
<1>8. CASE Working
  <2>1. j' = j /\ project' = project /\ (Promotes' <=> Promotes)
        BY <1>8, WorkingDoes DEF Promotes
  <2>2. j.pend \in {"destination-backup-create", "destination-install", "runtime-rollback"} => Promotes
        BY DEF Materialized, Shape, PhasesOf
  <2>3. CASE j.pend = "destination-backup-create"
    <3>1. j.phase = "runtime-staged"
          BY <2>3 DEF Shape, PhasesOf
    <3>2. BackingUp' /\ (InPlace \/ Is("backup", "old"))'
          BY <1>1, <1>8, <2>2, <2>3, <3>1, BackingUpWorks
    <3> QED BY <1>2, <2>1, <2>2, <2>3, <3>1, <3>2 DEF RollbackPhases
  <2>4. CASE j.pend = "runtime-rollback"
    <3>1. j.phase = "rollback-started"
          BY <2>4 DEF Shape, PhasesOf
    <3>2. RollingBackPart' /\ (InPlace \/ Is("backup", "old"))'
          BY <1>1, <1>8, <2>4, RollingBackPartWorks
    <3> QED BY <1>2, <2>1, <2>2, <2>4, <3>1, <3>2 DEF RollbackPhases
  <2>5. CASE j.pend = "destination-install"
    <3>1. j.phase = "destination-backed-up"
          BY <2>5 DEF Materialized
    <3>2. fs'.root["backup"] = fs.root["backup"]
          BY <1>8, <2>5, Mutated, Stopped, Rested DEF Roots
    <3> QED BY <1>1, <1>2, <2>1, <2>2, <2>5, <3>1, <3>2 DEF RollbackPhases, Is
  <2>6. CASE j.pend = "owned-slot-cleanup"
    <3>1. j.phase \in CleanupPhases
          BY <2>6 DEF Shape, PhasesOf
    <3>2. fs'.root["destination"] = fs.root["destination"]
          BY <1>8, <2>6, Mutated, Stopped, Rested DEF Roots
    <3> QED BY <1>1, <1>2, <2>1, <2>6, <3>1, <3>2 DEF RollbackPhases, Is
  <2>7. CASE j.pend \notin {"destination-backup-create", "runtime-rollback", "destination-install",
                           "owned-slot-cleanup"}
    <3>1. /\ fs'.root["destination"] = fs.root["destination"]
          /\ fs'.root["backup"] = fs.root["backup"]
          BY <1>8, <2>7, Mutated, Stopped, Rested DEF Roots
    <3>2. /\ \A c : /\ Is("destination", c)' <=> Is("destination", c)
                    /\ Is("backup", c)' <=> Is("backup", c)
          /\ InPlace' <=> InPlace
          BY <3>1 DEF Is, InPlace, Absent
    <3> QED BY <1>1, <1>2, <2>1, <2>7, <3>2
  <2> QED BY <2>3, <2>4, <2>5, <2>6, <2>7
<1> QED BY <1>4, <1>5, <1>6, <1>7, <1>8, Actions

-----------------------------------------------------------------------------
(* The inductive invariant. *)

LEMMA InvariantInit ==
    ASSUME Init
    PROVE  IInv
<1>1. /\ j.phase = "prepared" /\ j.pend = "none" /\ j.term = "none" /\ j.install = "not-installed"
      /\ j.ac = 0 /\ j.rc = 0 /\ j.slot = [s \in Slots |-> "unmaterialized"]
      /\ fs.files = 0 /\ run = [mode |-> "fresh", todo |-> <<>>] /\ project \in Projects
      BY DEF Init
<1>2. /\ project.destPre => InPlace
      /\ HasSource => Is("source", "cache")
      BY DEF Init, InPlace, Is, Absent, Roots
<1>3. \A s \in Slots : j.slot[s] = "unmaterialized"
      BY <1>1
<1>4. project.targets \in Nat
      BY <1>1, ProjectsAssumption DEF Selections
<1>5. Shape
      BY <1>1, Short DEF Shape
<1>6. Terminal
      BY <1>1 DEF Terminal, Closed, CleanupPhases
<1>7. Materialized
  <2>1. ~runtimeRollbackRequired
        BY <1>1, <1>3 DEF runtimeRollbackRequired, Slots
  <2> QED BY <1>1, <1>3, <2>1 DEF Materialized, Slots
<1>8. Cursors
      BY <1>1, <1>3, <1>4 DEF Cursors, Slots
<1>9. Written
      BY <1>1, CountFiles DEF Written
<1>10. Retired
      BY <1>1, <1>2 DEF Retired, Retiring, Closed, CleanupPhases, Is
<1>11. BackedUp
      BY <1>1, <1>2 DEF BackedUp, InPlace, Closed, CleanupPhases, RollbackPhases
<1> QED BY <1>5, <1>6, <1>7, <1>8, <1>9, <1>10, <1>11, TypeInit DEF IInv

LEMMA InvariantStep ==
    ASSUME IInv, [Next]_vars
    PROVE  IInv'
<1> USE DEF IInv
<1>1. project' = project
  <2>1. CASE Sealing
        BY <2>1, Sealed
  <2>2. CASE UnlinkJournal \/ RecordPostcondition
        BY <2>2 DEF UnlinkJournal, RecordPostcondition
  <2>3. ASSUME NEW kind \in Kinds, RecordIntent(kind)
        PROVE  project' = project
        BY <2>3 DEF RecordIntent
  <2>4. CASE Working
        BY <2>4, WorkingDoes
  <2> QED BY <2>1, <2>2, <2>3, <2>4, Actions
<1>2. TypeOK' /\ Shape' /\ Terminal' /\ Materialized' /\ Cursors' /\ Written'
      BY TypeStep, ShapeStep, TerminalStep, MaterializedStep, CursorsStep, WrittenStep
<1>3. Retired'
  <2>1. CASE HasSource
        BY <2>1, RetiredStep
  <2>2. CASE ~HasSource
        BY <1>1, <2>2 DEF Retired, HasSource
  <2> QED BY <2>1, <2>2
<1>4. BackedUp'
  <2>1. CASE project.destPre
        BY <2>1, BackedUpStep
  <2>2. CASE ~project.destPre
        BY <1>1, <2>2 DEF BackedUp
  <2> QED BY <2>1, <2>2
<1> QED BY <1>2, <1>3, <1>4

LEMMA Invariant == Spec => []IInv
<1>1. Init => IInv
      BY InvariantInit
<1>2. IInv /\ [Next]_vars => IInv'
      BY InvariantStep
<1> QED BY <1>1, <1>2, PTL DEF Spec

\* No record of the journal, no mutation and no crash, failure or refusal leaves a state the
\* program cannot be in: the cursors, the slots and what is left to do keep their types, whatever
\* init has found and however often it stops.
THEOREM TypeCorrect == Spec => []TypeOK
<1>1. IInv => TypeOK
      BY DEF IInv
<1> QED BY <1>1, Invariant, PTL

LEMMA SourceStays ==
    ASSUME IInv
    PROVE  SourceKept
<1> SUFFICES ASSUME HasSource PROVE SourceKept
    BY DEF SourceKept
<1> QED BY DEF IInv, Retired, SourceKept, Closed

LEMMA DestinationStays ==
    ASSUME IInv
    PROVE  DestinationKept
<1> SUFFICES ASSUME project.destPre, Promotes PROVE DestinationKept
    BY DEF DestinationKept, IInv, BackedUp
<1>1. BackedUp /\ Terminal
      BY DEF IInv
<1>2. j.phase \in Phases /\ j.term \in {"none", "committed", "rolled-back"}
      BY DEF IInv, TypeOK, Journals
<1>3. CASE j.phase \in Closed
      BY <1>1, <1>2, <1>3 DEF BackedUp, Terminal, DestinationKept, Closed
<1>4. CASE j.phase \notin Closed
      BY <1>1, <1>2, <1>4 DEF BackedUp, InPlace, DestinationKept, Closed, Phases, ForwardPhases,
                              RollbackPhases
<1> QED BY <1>3, <1>4

LEMMA AuthoredStays ==
    ASSUME IInv
    PROVE  AuthoredKept
<1> SUFFICES ASSUME fs.files > 0 PROVE AuthoredKept
    BY DEF AuthoredKept
<1>1. Terminal /\ Cursors /\ Written /\ Shape
      BY DEF IInv
<1>2. /\ j.term \in {"none", "committed", "rolled-back"} /\ j.ac \in Nat /\ j.rc \in Nat
      /\ j.slot["authored"] \in {"unmaterialized", "pending", "removed"}
      BY DEF IInv, TypeOK, Journals, Slots
<1>3. CASE j.phase \in Closed
      BY <1>1, <1>2, <1>3 DEF Terminal, Written, AuthoredKept, Closed
<1>4. CASE j.phase \notin Closed
  <2>1. j.slot["authored"] # "unmaterialized"
    <3> SUFFICES ASSUME j.slot["authored"] = "unmaterialized" PROVE FALSE
        OBVIOUS
    <3>1. j.ac = 0 /\ j.rc = 0
          BY <1>1, <1>2 DEF Cursors
    <3>2. j.pend # "authored-target-rollback"
          BY <1>1, <3>1 DEF Written
    <3>3. j.pend # "authored-target-commit"
          BY <1>1 DEF Cursors, Shape, PhasesOf, ForwardPhases
    <3>4. fs.files = FilesOf(0)
          BY <1>1, <3>1, <3>2, <3>3 DEF Written
    <3> QED BY <3>4, CountFiles
  <2> QED BY <1>1, <1>2, <1>4, <2>1 DEF Cursors, AuthoredKept
<1> QED BY <1>3, <1>4

\* Wherever the promotion or its recovery stops, the cached runtime is still there or its copy is
\* installed and past the point of no return; the runtime the project had is in its place or in
\* the backup until a committed promotion is closed; and no authored file is written while the
\* artifacts that restore it are missing.
THEOREM NothingIsLost == Spec => []NothingLost
<1>1. IInv => NothingLost
      BY SourceStays, DestinationStays, AuthoredStays DEF NothingLost
<1> QED BY <1>1, Invariant, PTL
=============================================================================
