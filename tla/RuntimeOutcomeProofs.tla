------------------------ MODULE RuntimeOutcomeProofs ------------------------
(* A promotion that is closed has the outcome its journal names, and leaves nothing behind. *)
EXTENDS RuntimePromotionProofs

-----------------------------------------------------------------------------
(* The trees and markers, and the steps that leave one behind or remove it. *)

Places == Roots \cup Marks
At(x) == IF x \in Roots THEN fs.root[x] ELSE fs.mark[x]

\* The steps after which x may be there, and the calls that are only made where it may be.
Dirt(x) ==
    {Put(x, c) : c \in Contents \ {"none"}} \cup {Move(r, x) : r \in Roots} \cup {Publish(x)}
    \cup {Call(p) : p \in CASE x = "destination" -> {"restore-backup"}
                            [] x = "rollback" -> {"remove-installed"}
                            [] OTHER -> {}}

\* The calls that come back with x gone, or not at all.
Clearing(x) ==
    {j.pend} \cup CASE x = "stage" -> {"remove-created-parent", "remove-stage"}
                    [] x \in {"backup", "backupOwner"} -> {"restore-backup"}
                    [] x = "rollback" -> {"remove-installed"}
                    [] x = "destination" -> {"expect-no-destination"}
                    [] x = "parentOwner" ->
                         {"remove-created-parent"}
                         \cup IF j.install = "installed" THEN {"settle-parent"} ELSE {}
                    [] OTHER -> {}

\* The steps after which x is gone, or that are the last.
Clears(x) ==
    {Refusal, Put(x, "none"), Unlink(x)} \cup {Move(x, r) : r \in Roots \ {x}}
    \cup {Call(p) : p \in Clearing(x)}

Without(s, D) == \A i \in 1..Len(s) : s[i] \notin D
Will(s, C, D) == \E i \in 1..Len(s) : /\ s[i] \in C
                                      /\ \A k \in 1..Len(s) : k > i => s[k] \notin D

\* What is there now is v: when s is done, nothing is.
Tidies(v, s, C, D) == (v = "none" /\ Without(s, D)) \/ Will(s, C, D)

-----------------------------------------------------------------------------
(* The invariant. *)

RemovesParent == ~project.parentPre /\ (j.install = "not-installed" \/ j.ac = 0)

\* What the pending intent removes before its postcondition is recorded.
Goals ==
    CASE j.pend = "destination-parent-create" -> {"parentStage"}
      [] j.pend = "destination-install" -> {"stage"}
      [] j.pend = "authored-prepare" -> IF run.mode = "fresh" THEN {} ELSE {"artifacts"}
      [] j.pend = "source-retire" -> {"source"}
      [] j.pend = "runtime-rollback" ->
           {"stage", "backup", "backupOwner", "rollback"}
           \cup (IF project.destPre THEN {} ELSE {"destination"})
           \cup (IF RemovesParent THEN {"parentOwner"} ELSE {})
      [] j.pend = "owned-slot-cleanup" ->
           (CASE CleanupSlot = "destinationBackup" -> {"backup", "backupOwner", "backupCleanup"}
              [] CleanupSlot = "sourceTombstone" -> {"tombstone", "tombstoneOwner", "tombstoneCleanup"}
              [] CleanupSlot = "authored" -> {"artifacts"}
              [] OTHER -> {"parentOwner"})
      [] OTHER -> {}

\* Where a tree or a marker may be: what the journal knows of it.
Open(x) ==
    CASE x = "parentStage" -> j.pend = "destination-parent-create"
      [] x = "stage" -> j.pend = "runtime-stage-create" \/ j.slot["runtimeStage"] = "pending"
      [] x = "destination" ->
           project.destPre \/ j.install = "installed" \/ j.pend = "destination-install"
      [] x \in {"backup", "backupOwner"} ->
           j.pend = "destination-backup-create" \/ j.slot["destinationBackup"] = "pending"
      [] x = "backupCleanup" -> j.pend = "owned-slot-cleanup" /\ CleanupSlot = "destinationBackup"
      [] x \in {"tombstone", "tombstoneOwner"} ->
           j.pend = "source-retire" \/ j.slot["sourceTombstone"] = "pending"
      [] x = "tombstoneCleanup" -> j.pend = "owned-slot-cleanup" /\ CleanupSlot = "sourceTombstone"
      [] x = "artifacts" -> j.pend = "authored-prepare" \/ j.slot["authored"] = "pending"
      [] x = "parentOwner" ->
           j.pend = "destination-parent-create" \/ j.slot["destinationParent"] = "pending"
      [] x = "rollback" -> j.pend = "runtime-rollback" /\ j.install = "installed"
      [] x = "source" ->
           HasSource /\ ~(\/ j.phase \in {"source-retired", "authority-verified", "committed"}
                          \/ j.phase \in Closed /\ j.term = "committed")
      [] x = "parent" ->
           \/ project.parentPre
           \/ /\ j.slot["authored"] # "unmaterialized"
              /\ ~(j.phase \in Closed /\ j.term = "rolled-back")
      [] OTHER -> TRUE

Unseen == \A x \in Places : ~Open(x) => At(x) = "none" /\ Without(run.todo, Dirt(x))
Cleared == run.mode = "none" \/
           \A x \in Goals : Tidies(At(x), run.todo, Clears(x), Dirt(x))

\* The directory opensip-cli: what is in it goes before it.
RemovesIt == Put("parent", "none")
Removes == {RemovesIt} \cup IF project.parentPre
                            THEN {Call("remove-parent"), Call("remove-created-parent")} ELSE {}
Housed ==
    /\ fs.root["parent"] \in {"none", "dir"} /\ fs.root["parentStage"] \in {"none", "dir"}
    /\ Absent("parent") => Absent("stage") /\ Without(run.todo, Dirt("stage"))
    /\ run.todo # <<>> => /\ Without(Tail(run.todo), {RemovesIt})
                          /\ Head(run.todo) = RemovesIt =>
                                ParentEmpty /\ Without(Tail(run.todo), Dirt("stage"))
    /\ \A i, k \in 1..Len(run.todo) :
          i < k /\ run.todo[i] \in Calls => run.todo[k] \notin Dirt("stage")
    /\ project.parentPre => Is("parent", "dir") /\ Without(run.todo, Removes)

Routed ==
    /\ j.pend = "destination-parent-create" => ~project.parentPre
    /\ j.slot["destinationParent"] = "pending" => ~project.parentPre
    /\ j.slot["destinationBackup"] = "pending" => project.destPre
    /\ \/ j.phase \in {"runtime-rolled-back", "authored-rolled-back", "rolled-back"}
       \/ j.phase \in Closed /\ j.term = "rolled-back"
       \/ j.pend = "authored-target-rollback"
       => j.install # "installed"
    /\ j.phase \in Closed /\ j.term = "committed" => fs.files = FilesOf(project.targets)
    /\ j.phase = "unlinked" => PendingSlots = {}

Tidy == Routed /\ Housed /\ Unseen /\ Cleared
-----------------------------------------------------------------------------
(* Sequences of steps that avoid, or come to, a set of steps. *)

LEMMA Indexed ==
    ASSUME NEW S, NEW s \in Seq(S), NEW t \in Seq(S)
    PROVE  /\ Len(s) \in Nat /\ Len(t) \in Nat /\ t \o s \in Seq(S)
           /\ Len(t \o s) = Len(t) + Len(s)
           /\ \A i \in 1..Len(t) : (t \o s)[i] = t[i]
           /\ \A i \in 1..Len(s) : (t \o s)[Len(t) + i] = s[i]
<1>1. /\ Len(s) \in Nat /\ Len(t) \in Nat /\ t \o s \in Seq(S)
      /\ Len(t \o s) = Len(t) + Len(s)
      /\ \A i \in 1..(Len(t) + Len(s)) :
            (t \o s)[i] = IF i <= Len(t) THEN t[i] ELSE s[i - Len(t)]
      BY ConcatProperties, LenProperties
<1>2. ASSUME NEW i \in 1..Len(t)
      PROVE  (t \o s)[i] = t[i]
      BY <1>1
<1>3. ASSUME NEW i \in 1..Len(s)
      PROVE  (t \o s)[Len(t) + i] = s[i]
  <2>1. Len(t) + i \in 1..(Len(t) + Len(s)) /\ ~(Len(t) + i <= Len(t))
        /\ (Len(t) + i) - Len(t) = i
        BY <1>1
  <2> QED BY <1>1, <2>1
<1> QED BY <1>1, <1>2, <1>3

LEMMA TailIndexed ==
    ASSUME NEW S, NEW s \in Seq(S), s # <<>>
    PROVE  /\ Len(s) \in Nat \ {0} /\ Tail(s) \in Seq(S) /\ Len(Tail(s)) = Len(s) - 1
           /\ Head(s) = s[1] /\ Head(s) \in S
           /\ \A i \in 1..Len(Tail(s)) : Tail(s)[i] = s[i + 1]
BY HeadTailProperties, EmptySeq, LenProperties

LEMMA WithoutNothing ==
    ASSUME NEW D
    PROVE  /\ Without(<<>>, D)
           /\ \A a : a \notin D => Without(<<a>>, D)
           /\ \A a, b : a \notin D /\ b \notin D => Without(<<a, b>>, D)
           /\ \A a, b, c : a \notin D /\ b \notin D /\ c \notin D => Without(<<a, b, c>>, D)
BY DEF Without

LEMMA WithoutTail ==
    ASSUME NEW S, NEW s \in Seq(S), s # <<>>, NEW D, Without(s, D)
    PROVE  Without(Tail(s), D) /\ Head(s) \notin D
<1>1. /\ Len(s) \in Nat \ {0} /\ Len(Tail(s)) = Len(s) - 1 /\ Head(s) = s[1]
      /\ \A i \in 1..Len(Tail(s)) : Tail(s)[i] = s[i + 1]
      BY TailIndexed
<1>2. ASSUME NEW i \in 1..Len(Tail(s))
      PROVE  Tail(s)[i] \notin D
  <2>1. i + 1 \in 1..Len(s)
        BY <1>1
  <2> QED BY <1>1, <2>1 DEF Without
<1> QED BY <1>1, <1>2 DEF Without

LEMMA WithoutJoined ==
    ASSUME NEW S, NEW s \in Seq(S), NEW t \in Seq(S), NEW D, Without(t, D), Without(s, D)
    PROVE  Without(t \o s, D)
<1>1. /\ Len(s) \in Nat /\ Len(t) \in Nat /\ Len(t \o s) = Len(t) + Len(s)
      /\ \A i \in 1..Len(t) : (t \o s)[i] = t[i]
      /\ \A i \in 1..Len(s) : (t \o s)[Len(t) + i] = s[i]
      BY Indexed
<1>2. ASSUME NEW i \in 1..Len(t \o s)
      PROVE  (t \o s)[i] \notin D
  <2>1. CASE i \in 1..Len(t)
        BY <1>1, <2>1 DEF Without
  <2>2. CASE i \notin 1..Len(t)
    <3>1. i - Len(t) \in 1..Len(s) /\ i = Len(t) + (i - Len(t))
          BY <1>1, <2>2
    <3> QED BY <1>1, <3>1 DEF Without
  <2> QED BY <2>1, <2>2
<1> QED BY <1>2 DEF Without

\* A sequence over steps that are not in D.
LEMMA WithoutIn ==
    ASSUME NEW S, NEW s \in Seq(S), NEW D, S \cap D = {}
    PROVE  Without(s, D)
BY ElementOfSeq DEF Without

LEMMA WillOne ==
    ASSUME NEW C, NEW D
    PROVE  /\ \A a : a \in C => Will(<<a>>, C, D)
           /\ \A a, b : b \in C => Will(<<a, b>>, C, D)
           /\ \A a, b : a \in C /\ b \notin D => Will(<<a, b>>, C, D)
           /\ \A a, b, c : c \in C => Will(<<a, b, c>>, C, D)
           /\ \A a, b, c : b \in C /\ c \notin D => Will(<<a, b, c>>, C, D)
           /\ \A a, b, c : a \in C /\ b \notin D /\ c \notin D => Will(<<a, b, c>>, C, D)
<1>1. ASSUME NEW a, a \in C PROVE Will(<<a>>, C, D)
  <2>1. 1 \in 1..Len(<<a>>) /\ <<a>>[1] \in C /\ \A k \in 1..Len(<<a>>) : ~(k > 1)
        BY <1>1
  <2> QED BY <2>1 DEF Will
<1>2. ASSUME NEW a, NEW b, b \in C PROVE Will(<<a, b>>, C, D)
  <2>1. 2 \in 1..Len(<<a, b>>) /\ <<a, b>>[2] \in C /\ \A k \in 1..Len(<<a, b>>) : ~(k > 2)
        BY <1>2
  <2> QED BY <2>1 DEF Will
<1>3. ASSUME NEW a, NEW b, a \in C, b \notin D PROVE Will(<<a, b>>, C, D)
  <2>1. 1 \in 1..Len(<<a, b>>) /\ <<a, b>>[1] \in C
        /\ \A k \in 1..Len(<<a, b>>) : k > 1 => <<a, b>>[k] \notin D
        BY <1>3
  <2> QED BY <2>1 DEF Will
<1>4. ASSUME NEW a, NEW b, NEW c, c \in C PROVE Will(<<a, b, c>>, C, D)
  <2>1. /\ 3 \in 1..Len(<<a, b, c>>) /\ <<a, b, c>>[3] \in C
        /\ \A k \in 1..Len(<<a, b, c>>) : ~(k > 3)
        BY <1>4
  <2> QED BY <2>1 DEF Will
<1>5. ASSUME NEW a, NEW b, NEW c, a \in C, b \notin D, c \notin D PROVE Will(<<a, b, c>>, C, D)
  <2>1. /\ 1 \in 1..Len(<<a, b, c>>) /\ <<a, b, c>>[1] \in C
        /\ \A k \in 1..Len(<<a, b, c>>) : k > 1 => <<a, b, c>>[k] \notin D
        BY <1>5
  <2> QED BY <2>1 DEF Will
<1>6. ASSUME NEW a, NEW b, NEW c, b \in C, c \notin D PROVE Will(<<a, b, c>>, C, D)
  <2>1. /\ 2 \in 1..Len(<<a, b, c>>) /\ <<a, b, c>>[2] \in C
        /\ \A k \in 1..Len(<<a, b, c>>) : k > 2 => <<a, b, c>>[k] \notin D
        BY <1>6
  <2> QED BY <2>1 DEF Will
<1> QED BY <1>1, <1>2, <1>3, <1>4, <1>5, <1>6

LEMMA WillTail ==
    ASSUME NEW S, NEW s \in Seq(S), s # <<>>, NEW C, NEW D, Will(s, C, D)
    PROVE  Will(Tail(s), C, D) \/ (Head(s) \in C /\ Without(Tail(s), D))
<1>1. /\ Len(s) \in Nat \ {0} /\ Len(Tail(s)) = Len(s) - 1 /\ Head(s) = s[1]
      /\ \A i \in 1..Len(Tail(s)) : Tail(s)[i] = s[i + 1]
      BY TailIndexed
<1>2. PICK i \in 1..Len(s) : s[i] \in C /\ \A k \in 1..Len(s) : k > i => s[k] \notin D
      BY DEF Will
<1>3. ASSUME NEW k \in 1..Len(Tail(s)), k + 1 > i
      PROVE  Tail(s)[k] \notin D
  <2>1. k + 1 \in 1..Len(s)
        BY <1>1
  <2> QED BY <1>1, <1>2, <1>3, <2>1
<1>4. CASE i = 1
  <2>1. \A k \in 1..Len(Tail(s)) : k + 1 > i
        BY <1>1, <1>4
  <2> QED BY <1>1, <1>2, <1>3, <1>4, <2>1 DEF Without
<1>5. CASE i # 1
  <2>1. i - 1 \in 1..Len(Tail(s)) /\ (i - 1) + 1 = i
        BY <1>1, <1>5
  <2>2. Tail(s)[i - 1] \in C
        BY <1>1, <1>2, <2>1
  <2>3. \A k \in 1..Len(Tail(s)) : k > i - 1 => k + 1 > i
        BY <1>1
  <2> QED BY <1>3, <2>1, <2>2, <2>3 DEF Will
<1> QED BY <1>4, <1>5

LEMMA WillJoined ==
    ASSUME NEW S, NEW s \in Seq(S), NEW t \in Seq(S), NEW C, NEW D, Will(s, C, D)
    PROVE  Will(t \o s, C, D)
<1>1. /\ Len(s) \in Nat /\ Len(t) \in Nat /\ Len(t \o s) = Len(t) + Len(s)
      /\ \A i \in 1..Len(s) : (t \o s)[Len(t) + i] = s[i]
      BY Indexed
<1>2. PICK i \in 1..Len(s) : s[i] \in C /\ \A k \in 1..Len(s) : k > i => s[k] \notin D
      BY DEF Will
<1>3. Len(t) + i \in 1..Len(t \o s) /\ (t \o s)[Len(t) + i] \in C
      BY <1>1, <1>2
<1>4. ASSUME NEW k \in 1..Len(t \o s), k > Len(t) + i
      PROVE  (t \o s)[k] \notin D
  <2>1. k - Len(t) \in 1..Len(s) /\ k - Len(t) > i /\ k = Len(t) + (k - Len(t))
        BY <1>1, <1>4
  <2> QED BY <1>1, <1>2, <2>1
<1> QED BY <1>3, <1>4 DEF Will

LEMMA WillThen ==
    ASSUME NEW S, NEW s \in Seq(S), NEW t \in Seq(S), NEW C, NEW D, Will(t, C, D), Without(s, D)
    PROVE  Will(t \o s, C, D)
<1>1. /\ Len(s) \in Nat /\ Len(t) \in Nat /\ Len(t \o s) = Len(t) + Len(s)
      /\ \A i \in 1..Len(t) : (t \o s)[i] = t[i]
      /\ \A i \in 1..Len(s) : (t \o s)[Len(t) + i] = s[i]
      BY Indexed
<1>2. PICK i \in 1..Len(t) : t[i] \in C /\ \A k \in 1..Len(t) : k > i => t[k] \notin D
      BY DEF Will
<1>3. i \in 1..Len(t \o s) /\ (t \o s)[i] \in C
      BY <1>1, <1>2
<1>4. ASSUME NEW k \in 1..Len(t \o s), k > i
      PROVE  (t \o s)[k] \notin D
  <2>1. CASE k \in 1..Len(t)
        BY <1>1, <1>2, <1>4, <2>1
  <2>2. CASE k \notin 1..Len(t)
    <3>1. k - Len(t) \in 1..Len(s) /\ k = Len(t) + (k - Len(t))
          BY <1>1, <2>2
    <3> QED BY <1>1, <3>1 DEF Without
  <2> QED BY <2>1, <2>2
<1> QED BY <1>3, <1>4 DEF Will

\* A call is replaced by the callee's steps.
LEMMA TidiesEnter ==
    ASSUME NEW S, NEW s \in Seq(S), s # <<>>, NEW t \in Seq(S), NEW v, NEW C, NEW D,
           Tidies(v, s, C, D),
           Head(s) \in C \/ (v = "none" /\ Head(s) \notin D) => Tidies(v, t, C, D)
    PROVE  Tidies(v, t \o Tail(s), C, D)
<1>1. Tail(s) \in Seq(S)
      BY TailIndexed
<1>2. CASE Will(Tail(s), C, D)
      BY <1>1, <1>2, WillJoined DEF Tidies
<1>3. CASE Without(Tail(s), D) /\ Tidies(v, t, C, D)
      BY <1>1, <1>3, WillThen, WithoutJoined DEF Tidies
<1>4. CASE v = "none" /\ Without(s, D)
      BY <1>3, <1>4, WithoutTail
<1>5. CASE Will(s, C, D)
      BY <1>2, <1>3, <1>5, WillTail
<1> QED BY <1>4, <1>5 DEF Tidies

\* A mutation is done, and what was v is w.
LEMMA TidiesMutate ==
    ASSUME NEW S, NEW s \in Seq(S), s # <<>>, NEW v, NEW w, NEW C, NEW D,
           Tidies(v, s, C, D),
           Head(s) \in C \/ (v = "none" /\ Head(s) \notin D) => w = "none"
    PROVE  Tidies(w, Tail(s), C, D)
<1>1. CASE v = "none" /\ Without(s, D)
      BY <1>1, WithoutTail DEF Tidies
<1>2. CASE Will(s, C, D)
      BY <1>2, WillTail DEF Tidies
<1> QED BY <1>1, <1>2 DEF Tidies

LEMMA TidiesDone ==
    ASSUME NEW v, NEW C, NEW D
    PROVE  Tidies(v, <<>>, C, D) <=> v = "none"
<1>1. ~Will(<<>>, C, D)
      BY DEF Will
<1> QED BY <1>1, WithoutNothing DEF Tidies

-----------------------------------------------------------------------------
(* What a step leaves where. *)

LEMMA Apart ==
    /\ Roots \cap Marks = {}
    /\ \A x \in Roots : At(x) = fs.root[x]
    /\ \A x \in Marks : At(x) = fs.mark[x]
BY DEF Roots, Marks, At

LEMMA AppliedAt ==
    ASSUME TypeOK, NEW o \in Mutations, fs' = Apply(o), NEW x \in Places,
           o \in Clears(x) \/ (At(x) = "none" /\ o \notin Dirt(x))
    PROVE  At(x)' = "none"
<1> USE DEF TypeOK, FileSystems, At
<1>0. Roots \cap Marks = {}
      BY Apart
<1>1. CASE o.op = "put"
  <2>1. o = Put(o.on, o.to) /\ o.on \in Roots /\ o.to \in Contents
        BY <1>1 DEF Mutations, Put
  <2>2. fs'.root = [fs.root EXCEPT ![o.on] = o.to] /\ fs'.mark = fs.mark
        BY <1>1 DEF Apply
  <2>3. o.on = x => o.to = "none"
    <3> SUFFICES ASSUME o.on = x, o.to # "none" PROVE FALSE
        OBVIOUS
    <3>1. o \in Dirt(x)
          BY <2>1 DEF Dirt
    <3>2. o \notin Clears(x)
          BY <1>1 DEF Clears, Refusal, Put, Unlink, Move, Call
    <3> QED BY <3>1, <3>2
  <2>4. o.on # x => At(x) = "none"
    <3> SUFFICES ASSUME o.on # x, o \in Clears(x) PROVE FALSE
        OBVIOUS
    <3> QED BY <1>1 DEF Clears, Refusal, Put, Unlink, Move, Call
  <2> QED BY <1>0, <2>1, <2>2, <2>3, <2>4 DEF Places
<1>2. CASE o.op = "move"
  <2>1. o = Move(o.on, o.to) /\ o.on \in Roots /\ o.to \in Roots
        BY <1>2 DEF Mutations, Move
  <2>2. /\ fs'.root = [fs.root EXCEPT ![o.to] = fs.root[o.on], ![o.on] = "none"]
        /\ fs'.mark = fs.mark
        BY <1>2 DEF Apply
  <2>3. o \in Clears(x) => o.on = x
        BY <1>2 DEF Clears, Refusal, Put, Unlink, Move, Call
  <2>4. o \notin Dirt(x) => o.to # x
        BY <2>1 DEF Dirt
  <2> QED BY <1>0, <2>1, <2>2, <2>3, <2>4 DEF Places
<1>3. CASE o.op = "publish"
  <2>1. o = Publish(o.on) /\ o.on \in Marks
        BY <1>3 DEF Mutations, Publish
  <2>2. fs'.root = fs.root /\ fs'.mark = [fs.mark EXCEPT ![o.on] = "exact"]
        BY <1>3 DEF Apply
  <2>3. o \notin Clears(x)
        BY <1>3 DEF Clears, Refusal, Put, Unlink, Move, Call
  <2>4. o.on # x
        BY <2>1, <2>3 DEF Dirt
  <2> QED BY <1>0, <2>1, <2>2, <2>3, <2>4 DEF Places
<1>4. CASE o.op = "unlink"
  <2>1. o.on \in Marks
        BY <1>4 DEF Mutations
  <2>2. fs'.root = fs.root /\ fs'.mark = [fs.mark EXCEPT ![o.on] = "none"]
        BY <1>4 DEF Apply
  <2>3. o \in Clears(x) => o.on = x
        BY <1>4 DEF Clears, Refusal, Put, Unlink, Move, Call
  <2> QED BY <1>0, <2>1, <2>2, <2>3 DEF Places
<1>5. CASE o.op \in {"write", "erase"}
  <2>1. fs'.root = fs.root /\ fs'.mark = fs.mark
        BY <1>5 DEF Apply
  <2>2. o \notin Clears(x)
        BY <1>5 DEF Clears, Refusal, Put, Unlink, Move, Call
  <2> QED BY <2>1, <2>2
<1> QED BY <1>1, <1>2, <1>3, <1>4, <1>5 DEF Mutations

\* A process that stops leaves nothing where its next step would not.
LEMMA StoppedAt ==
    ASSUME TypeOK, Stop, NEW x \in Places, Without(run.todo, Dirt(x))
    PROVE  At(x)' = At(x)
<1> USE DEF At
<1>0. Roots \cap Marks = {} /\ fs \in FileSystems
      BY Apart DEF TypeOK
<1>1. CASE fs' = fs
      BY <1>1
<1>2. ASSUME NEW i \in {1} \cap DOMAIN run.todo, fs' = Torn(run.todo[i])
      PROVE  At(x)' = At(x)
  <2> DEFINE o == run.todo[i]
  <2>1. run.todo \in Seq(Steps)
        BY DEF TypeOK, Runs
  <2>2. o \in Steps /\ i \in 1..Len(run.todo)
        BY <2>1, ElementOfSeq, LenProperties
  <2>3. o \notin Dirt(x)
        BY <2>2 DEF Without
  <2> HIDE DEF o
  <2>4. CASE o.op = "publish"
    <3>1. o = Publish(o.on) /\ o.on \in Marks
          BY <2>2, <2>4 DEF Steps, Mutations, Calls, Refusal, Publish
    <3>2. o.on # x
          BY <2>3, <3>1 DEF Dirt
    <3>3. fs' = [fs EXCEPT !.mark[o.on] = "torn"]
      <4>1. fs' = Torn(o)
            BY <1>2 DEF o
      <4> QED BY <2>4, <4>1 DEF Torn, Put
    <3> QED BY <1>0, <3>1, <3>2, <3>3 DEF FileSystems
  <2>5. CASE o.op # "publish" /\ o = Put("stage", "partial")
    <3>1. x # "stage"
      <4>1. o \in Dirt("stage")
            BY <2>5 DEF Dirt, Contents
      <4> QED BY <2>3, <4>1
    <3>2. fs' = [fs EXCEPT !.root["stage"] = "torn"]
          BY <1>2, <2>5 DEF Torn, o
    <3> QED BY <1>0, <3>1, <3>2 DEF FileSystems
  <2>6. CASE o.op # "publish" /\ o # Put("stage", "partial")
        BY <1>1, <1>2, <2>6 DEF Torn, o
  <2> QED BY <2>4, <2>5, <2>6
<1> QED BY <1>1, <1>2 DEF Stop

-----------------------------------------------------------------------------
(* What the parts of a procedure leave where. *)

LEMMA DirtIs ==
    ASSUME NEW x
    PROVE  /\ Refusal \notin Dirt(x)
           /\ \A r, c : Put(r, c) \in Dirt(x) => r = x /\ c # "none"
           /\ \A r, q : Move(r, q) \in Dirt(x) => q = x
           /\ \A m : Publish(m) \in Dirt(x) => m = x
           /\ \A m : Unlink(m) \notin Dirt(x)
           /\ \A o \in {"write", "erase"} : Files(o) \notin Dirt(x)
           /\ \A p : Call(p) \in Dirt(x) => \/ x = "destination" /\ p = "restore-backup"
                                            \/ x = "rollback" /\ p = "remove-installed"
<1>1. \A o \in Dirt(x) :
         \/ \E c \in Contents \ {"none"} : o = Put(x, c)
         \/ \E r \in Roots : o = Move(r, x)
         \/ o = Publish(x)
         \/ x = "destination" /\ o = Call("restore-backup")
         \/ x = "rollback" /\ o = Call("remove-installed")
      BY DEF Dirt
<1>2. /\ \A r, c : Put(r, c) = [op |-> "put", on |-> r, to |-> c]
      /\ \A r, q : Move(r, q) = [op |-> "move", on |-> r, to |-> q]
      /\ \A m : Publish(m) = [op |-> "publish", on |-> m, to |-> "none"]
      /\ \A m : Unlink(m) = [op |-> "unlink", on |-> m, to |-> "none"]
      /\ \A p : Call(p) = [op |-> "call", on |-> p, to |-> "none"]
      BY DEF Put, Move, Publish, Unlink, Call
<1>3. Refusal.op = "refuse" /\ \A o : Files(o).on = "files" /\ Files(o).to = "none" /\ Files(o).op = o
      BY DEF Refusal, Files
<1>5. Refusal \notin Dirt(x)
      BY <1>1, <1>2, <1>3
<1>6. \A r, c : Put(r, c) \in Dirt(x) => r = x /\ c # "none"
      BY <1>1, <1>2
<1>7. \A r, q : Move(r, q) \in Dirt(x) => q = x
      BY <1>1, <1>2
<1>8. \A m : (Publish(m) \in Dirt(x) => m = x) /\ Unlink(m) \notin Dirt(x)
      BY <1>1, <1>2
<1>9. \A p : Call(p) \in Dirt(x) => \/ x = "destination" /\ p = "restore-backup"
                                    \/ x = "rollback" /\ p = "remove-installed"
      BY <1>1, <1>2
<1>10. \A o \in {"write", "erase"} : Files(o) \notin Dirt(x)
       BY <1>1, <1>2, <1>3
<1> QED BY <1>5, <1>6, <1>7, <1>8, <1>9, <1>10

LEMMA TidiesJoined ==
    ASSUME NEW S, NEW s \in Seq(S), NEW t \in Seq(S), NEW v, NEW C, NEW D
    PROVE  /\ Tidies(v, t, C, D) /\ Without(s, D) => Tidies(v, t \o s, C, D)
           /\ Without(t, D) /\ Tidies(v, s, C, D) => Tidies(v, t \o s, C, D)
BY WithoutJoined, WillJoined, WillThen DEF Tidies

LEMMA OwnerTidies ==
    ASSUME TypeOK, NEW m \in Marks
    PROVE  /\ EnsureOwner(m) \in Seq(Steps) /\ DropOwner(m) \in Seq(Steps)
           /\ \A x : x # m => Without(EnsureOwner(m), Dirt(x))
           /\ \A x : Without(DropOwner(m), Dirt(x))
           /\ \A C, D : Refusal \in C /\ Unlink(m) \in C => Tidies(fs.mark[m], DropOwner(m), C, D)
<1>1. fs.mark[m] \in {"none", "torn", "exact"}
      BY DEF TypeOK, FileSystems
<1>2. Publish(m) \in Steps /\ Unlink(m) \in Steps /\ Refusal \in Steps
      BY DEF Publish, Unlink, Steps, Mutations
<1>3. \A x : Refusal \notin Dirt(x) /\ Unlink(m) \notin Dirt(x) /\ (x # m => Publish(m) \notin Dirt(x))
      BY DirtIs
<1>4. EnsureOwner(m) \in {<<>>, <<Publish(m)>>, <<Refusal>>}
      BY <1>1 DEF EnsureOwner, Refuse
<1>5. \/ DropOwner(m) = <<>> /\ fs.mark[m] = "none"
      \/ DropOwner(m) \in {<<Unlink(m)>>, <<Refusal>>}
      BY <1>1 DEF DropOwner, Refuse
<1>6. EnsureOwner(m) \in Seq(Steps) /\ DropOwner(m) \in Seq(Steps)
      BY <1>2, <1>4, <1>5, Short
<1>7. \A x : x # m => Without(EnsureOwner(m), Dirt(x))
      BY <1>3, <1>4, WithoutNothing
<1>8. \A x : Without(DropOwner(m), Dirt(x))
      BY <1>3, <1>5, WithoutNothing
<1>9. ASSUME NEW C, NEW D, Refusal \in C, Unlink(m) \in C
      PROVE  Tidies(fs.mark[m], DropOwner(m), C, D)
      BY <1>5, <1>9, WithoutNothing, WillOne DEF Tidies
<1> QED BY <1>6, <1>7, <1>8, <1>9

LEMMA TreeTidies ==
    ASSUME TypeOK, NEW r \in Roots
    PROVE  /\ RemoveTree(r) \in Seq(Steps)
           /\ \A x : x # r \/ Absent(r) => Without(RemoveTree(r), Dirt(x))
           /\ \A C : Put(r, "none") \in C => Tidies(fs.root[r], RemoveTree(r), C, Dirt(r))
<1>1. \A c \in Contents : Put(r, c) \in Steps
      BY DEF Put, Steps, Mutations
<1>2. {"none", "empty", "rest"} \subseteq Contents
      BY DEF Contents
<1>3. \/ RemoveTree(r) = <<>> /\ Absent(r)
      \/ /\ RemoveTree(r) \in {<<Put(r, "empty"), Put(r, "none")>>, <<Put(r, "none")>>,
                               <<Put(r, "rest"), Put(r, "none")>>}
         /\ ~Absent(r)
      BY DEF RemoveTree, Absent, Is
<1>4. RemoveTree(r) \in Seq(Steps)
      BY <1>1, <1>2, <1>3, Short
<1>5. ASSUME NEW x, x # r \/ Absent(r)
      PROVE  Without(RemoveTree(r), Dirt(x))
  <2>1. CASE Absent(r)
        BY <1>3, <2>1, WithoutNothing
  <2>2. CASE x # r
    <3>1. \A c : Put(r, c) \notin Dirt(x)
          BY <2>2, DirtIs
    <3> QED BY <1>3, <3>1, WithoutNothing
  <2> QED BY <1>5, <2>1, <2>2
<1>6. ASSUME NEW C, Put(r, "none") \in C
      PROVE  Tidies(fs.root[r], RemoveTree(r), C, Dirt(r))
      BY <1>3, <1>6, WithoutNothing, WillOne DEF Tidies, Absent, Is
<1> QED BY <1>4, <1>5, <1>6

LEMMA CleanupTidies ==
    ASSUME TypeOK, NEW r \in Roots, NEW proof \in Marks, NEW verified, NEW owner \in Seq(Steps),
           NEW s, s = CleanupOwned(r, proof, verified, owner)
    PROVE  /\ s \in Seq(Steps)
           /\ \A x : x # proof /\ (x # r \/ Absent(r)) /\ Without(owner, Dirt(x))
                        => Without(s, Dirt(x))
           /\ \A C, D : Refusal \in C /\ Unlink(proof) \in C => Will(s, C, D)
           /\ \A C : Refusal \in C /\ Put(r, "none") \in C /\ Without(owner, Dirt(r)) =>
                        Tidies(fs.root[r], s, C, Dirt(r))
           /\ \A v, C, x : /\ Refusal \in C /\ x \notin {r, proof}
                           /\ Tidies(v, owner, C, Dirt(x))
                           => Tidies(v, s, C, Dirt(x))
<1> DEFINE a == EnsureOwner(proof)
           b == RemoveTree(r)
           d == <<Unlink(proof)>>
<1>1. \/ s = <<Refusal>>
      \/ s = ((a \o b) \o owner) \o d
      BY DEF CleanupOwned, Refuse
<1>2. a \in Seq(Steps) /\ \A x : x # proof => Without(a, Dirt(x))
      BY OwnerTidies
<1>3. /\ b \in Seq(Steps)
      /\ \A x : x # r \/ Absent(r) => Without(b, Dirt(x))
      /\ \A C : Put(r, "none") \in C => Tidies(fs.root[r], b, C, Dirt(r))
      BY TreeTidies
<1>4. d \in Seq(Steps) /\ \A x : Without(d, Dirt(x))
  <2>1. Unlink(proof) \in Steps
        BY DEF Unlink, Steps, Mutations
  <2>2. \A x : Unlink(proof) \notin Dirt(x)
        BY DirtIs
  <2> QED BY <2>1, <2>2, Short, WithoutNothing
<1>5. Refusal \in Steps /\ \A x : Refusal \notin Dirt(x)
      BY DirtIs DEF Steps
<1>6. \A C, D : Refusal \in C => Will(<<Refusal>>, C, D)
      BY WillOne
<1>7. \A C, D : Unlink(proof) \in C => Will(d, C, D)
      BY WillOne
<1> DEFINE ab == a \o b
<1>8. ab \in Seq(Steps)
      BY <1>2, <1>3, Joined
<1> DEFINE abo == ab \o owner
<1> HIDE DEF a, b, ab, d
<1>9. abo \in Seq(Steps)
      BY <1>8, Joined
<1> HIDE DEF abo
<1>10. s = <<Refusal>> \/ s = abo \o d
      BY <1>1 DEF abo, ab
<1>11. s \in Seq(Steps)
      BY <1>4, <1>5, <1>9, <1>10, Joined, Short
<1>12. ASSUME NEW x, x # proof, x # r \/ Absent(r), Without(owner, Dirt(x))
       PROVE  Without(s, Dirt(x))
  <2>1. Without(ab, Dirt(x))
        BY <1>2, <1>3, <1>12, WithoutJoined DEF ab
  <2>2. Without(abo, Dirt(x))
        BY <1>8, <1>12, <2>1, WithoutJoined DEF abo
  <2>3. Without(abo \o d, Dirt(x))
        BY <1>4, <1>9, <2>2, WithoutJoined
  <2> QED BY <1>5, <1>10, <2>3, WithoutNothing
<1>13. ASSUME NEW C, NEW D, Refusal \in C, Unlink(proof) \in C
       PROVE  Will(s, C, D)
  <2>1. Will(abo \o d, C, D)
        BY <1>4, <1>7, <1>9, <1>13, WillJoined
  <2> QED BY <1>6, <1>10, <1>13, <2>1
<1>14. ASSUME NEW C, Refusal \in C, Put(r, "none") \in C, Without(owner, Dirt(r))
       PROVE  Tidies(fs.root[r], s, C, Dirt(r))
  <2>0. r # proof
        BY Apart
  <2>1. Tidies(fs.root[r], ab, C, Dirt(r))
        BY <1>2, <1>3, <1>14, <2>0, TidiesJoined DEF ab
  <2>2. Tidies(fs.root[r], abo, C, Dirt(r))
        BY <1>8, <1>14, <2>1, TidiesJoined DEF abo
  <2>3. Tidies(fs.root[r], abo \o d, C, Dirt(r))
        BY <1>4, <1>9, <2>2, TidiesJoined
  <2> QED BY <1>6, <1>10, <1>14, <2>3 DEF Tidies
<1>15. ASSUME NEW v, NEW C, NEW x, Refusal \in C, x \notin {r, proof}, Tidies(v, owner, C, Dirt(x))
       PROVE  Tidies(v, s, C, Dirt(x))
  <2>1. Without(ab, Dirt(x))
        BY <1>2, <1>3, <1>15, WithoutJoined DEF ab
  <2>2. Tidies(v, abo, C, Dirt(x))
        BY <1>8, <1>15, <2>1, TidiesJoined DEF abo
  <2>3. Tidies(v, abo \o d, C, Dirt(x))
        BY <1>4, <1>9, <2>2, TidiesJoined
  <2> QED BY <1>6, <1>10, <1>15, <2>3 DEF Tidies
<1> QED BY <1>11, <1>12, <1>13, <1>14, <1>15

LEMMA ClearsHas ==
    ASSUME NEW x
    PROVE  /\ Refusal \in Clears(x) /\ Put(x, "none") \in Clears(x) /\ Unlink(x) \in Clears(x)
           /\ \A r \in Roots \ {x} : Move(x, r) \in Clears(x)
           /\ \A p \in Clearing(x) : Call(p) \in Clears(x)
BY DEF Clears

\* The three objects of an external tree: the tree, the marker of its owner, the proof of its cleanup.
LEMMA ExternalTidies ==
    ASSUME TypeOK, NEW r \in Roots, NEW owner \in Marks, NEW proof \in Marks, owner # proof,
           NEW s, s = CleanupExternal(r, owner, proof) \/ s = <<Refusal>>
    PROVE  /\ \A x \in Places \ {r, proof} : Without(s, Dirt(x))
           /\ Tidies(At(r), s, Clears(r), Dirt(r))
           /\ Tidies(At(owner), s, Clears(owner), Dirt(owner))
           /\ Tidies(At(proof), s, Clears(proof), Dirt(proof))
<1> DEFINE o == DropOwner(owner)
<1>1. /\ r # owner /\ r # proof /\ At(r) = fs.root[r] /\ At(owner) = fs.mark[owner]
      /\ At(proof) = fs.mark[proof] /\ fs.mark[proof] \in {"none", "torn", "exact"}
      BY Apart DEF TypeOK, FileSystems
<1>2. /\ o \in Seq(Steps) /\ \A x : Without(o, Dirt(x))
      /\ Tidies(At(owner), o, Clears(owner), Dirt(owner))
      BY <1>1, OwnerTidies, ClearsHas
<1>3. \A x : Without(<<Refusal>>, Dirt(x)) /\ Tidies(At(x), <<Refusal>>, Clears(x), Dirt(x))
      BY DirtIs, WithoutNothing, ClearsHas, WillOne DEF Tidies
<1> HIDE DEF o
<1>4. CASE s = <<Refusal>>
      BY <1>3, <1>4
<1>5. CASE s = o /\ Absent(r) /\ fs.mark[proof] = "none"
      BY <1>1, <1>2, <1>5 DEF Tidies, Absent, Is
<1>6. ASSUME NEW verified, s = CleanupOwned(r, proof, verified, o)
      PROVE  /\ \A x \in Places \ {r, proof} : Without(s, Dirt(x))
             /\ Tidies(At(r), s, Clears(r), Dirt(r))
             /\ Tidies(At(owner), s, Clears(owner), Dirt(owner))
             /\ Tidies(At(proof), s, Clears(proof), Dirt(proof))
  <2>1. \A x \in Places \ {r, proof} : Without(s, Dirt(x))
        BY <1>2, <1>6, CleanupTidies
  <2>2. Tidies(At(r), s, Clears(r), Dirt(r))
        BY <1>1, <1>2, <1>6, CleanupTidies, ClearsHas
  <2>3. Tidies(At(owner), s, Clears(owner), Dirt(owner))
        BY <1>1, <1>2, <1>6, CleanupTidies, ClearsHas
  <2>4. Tidies(At(proof), s, Clears(proof), Dirt(proof))
        BY <1>2, <1>6, CleanupTidies, ClearsHas DEF Tidies
  <2> QED BY <2>1, <2>2, <2>3, <2>4
<1>7. \/ s = <<Refusal>>
      \/ s = o /\ Absent(r) /\ fs.mark[proof] = "none"
      \/ s = CleanupOwned(r, proof, Exact(owner) /\ ~Is(r, "rest"), o)
      BY <1>1 DEF CleanupExternal, Refuse, Exact, o
<1> QED BY <1>4, <1>5, <1>6, <1>7

LEMMA CleanUpTidies ==
    ASSUME TypeOK, PendingSlots # {}, j.slot["runtimeStage"] # "pending",
           j.pend = "owned-slot-cleanup"
    PROVE  /\ \A x \in Places \ Goals : Without(CleanUp, Dirt(x))
           /\ \A x \in Goals : Tidies(At(x), CleanUp, Clears(x), Dirt(x))
<1>1. CleanupSlot \in {"destinationBackup", "sourceTombstone", "authored", "destinationParent"}
      BY NextSlot
<1>2. CASE CleanupSlot = "destinationBackup"
  <2> DEFINE s == InParent(CleanupExternal("backup", "backupOwner", "backupCleanup"))
  <2>1. s = CleanupExternal("backup", "backupOwner", "backupCleanup") \/ s = <<Refusal>>
        BY DEF InParent, Refuse
  <2>2. CleanUp = s /\ Goals = {"backup", "backupOwner", "backupCleanup"}
        BY <1>2 DEF CleanUp, Goals
  <2>3. "backup" \in Roots /\ "backupOwner" \in Marks /\ "backupCleanup" \in Marks
        BY DEF Roots, Marks
  <2> HIDE DEF s
  <2> QED BY <2>1, <2>2, <2>3, ExternalTidies
<1>3. CASE CleanupSlot = "sourceTombstone"
  <2> DEFINE s == CleanupExternal("tombstone", "tombstoneOwner", "tombstoneCleanup")
  <2>1. CleanUp = s /\ Goals = {"tombstone", "tombstoneOwner", "tombstoneCleanup"}
        BY <1>3 DEF CleanUp, Goals
  <2>2. "tombstone" \in Roots /\ "tombstoneOwner" \in Marks /\ "tombstoneCleanup" \in Marks
        BY DEF Roots, Marks
  <2> HIDE DEF s
  <2> QED BY <2>1, <2>2, ExternalTidies DEF s
<1>4. CASE CleanupSlot = "authored"
  <2>1. /\ CleanUp = IF Absent("artifacts") THEN <<>>
                     ELSE <<Put("artifacts", "partial"), Put("artifacts", "none")>>
        /\ Goals = {"artifacts"}
        BY <1>4 DEF CleanUp, Goals
  <2>2. \A x : x # "artifacts" => \A c : Put("artifacts", c) \notin Dirt(x)
        BY DirtIs
  <2>3. \A x \in Places \ Goals : Without(CleanUp, Dirt(x))
        BY <2>1, <2>2, WithoutNothing
  <2>4. Tidies(At("artifacts"), CleanUp, Clears("artifacts"), Dirt("artifacts"))
        BY <2>1, WithoutNothing, ClearsHas, WillOne DEF Tidies, At, Absent, Is, Roots
  <2> QED BY <2>1, <2>3, <2>4
<1>5. CASE CleanupSlot = "destinationParent"
  <2>1. CleanUp = DropOwner("parentOwner") /\ Goals = {"parentOwner"}
        BY <1>5 DEF CleanUp, Goals
  <2>2. "parentOwner" \in Marks /\ At("parentOwner") = fs.mark["parentOwner"]
        BY Apart DEF Marks
  <2> QED BY <2>1, <2>2, OwnerTidies, ClearsHas
<1> QED BY <1>1, <1>2, <1>3, <1>4, <1>5

-----------------------------------------------------------------------------
(* The procedures of the forward direction. *)

LEMMA ForwardTidies ==
    ASSUME TypeOK
    PROVE  /\ Tidies(fs.root["parentStage"], CreateParent, Clears("parentStage"), Dirt("parentStage"))
           /\ Tidies(fs.root["stage"], InParent(Install), Clears("stage"), Dirt("stage"))
           /\ run.mode # "fresh" =>
                 Tidies(fs.root["artifacts"], PrepareAuthored, Clears("artifacts"), Dirt("artifacts"))
           /\ Tidies(fs.root["source"], RetireSource, Clears("source"), Dirt("source"))
<1>1. /\ Move("parentStage", "parent") \in Clears("parentStage")
      /\ Move("stage", "destination") \in Clears("stage")
      /\ Retires \in Clears("source")
      BY ClearsHas DEF Roots, Retires
<1>2. \A x : Refusal \in Clears(x) /\ Put(x, "none") \in Clears(x)
      BY ClearsHas
<1>3. Tidies(fs.root["parentStage"], CreateParent, Clears("parentStage"), Dirt("parentStage"))
  <2> DEFINE C == Clears("parentStage")
             D == Dirt("parentStage")
             m == Move("parentStage", "parent")
             e == EnsureOwner("parentOwner")
  <2>1. e \in Seq(Steps) /\ <<m>> \in Seq(Steps)
    <3>1. m \in Steps
          BY DEF Move, Steps, Mutations, Roots
    <3> QED BY <3>1, Short, OwnerTidies DEF Marks
  <2>2. \/ CreateParent = <<>> /\ fs.root["parentStage"] = "none"
        \/ CreateParent = <<Refusal>>
        \/ CreateParent = e \o <<m>>
        \/ CreateParent = <<Put("parentStage", "dir"), Publish("parentOwner"), m>>
        BY DEF CreateParent, Refuse, Absent, Is
  <2> HIDE DEF C, D, m, e
  <2>3. Will(<<m>>, C, D)
        BY <1>1, WillOne DEF C, m
  <2>4. Will(e \o <<m>>, C, D)
        BY <2>1, <2>3, WillJoined
  <2>5. m \in C /\ Refusal \in C
        BY <1>1, <1>2 DEF C, m
  <2>6. Tidies(fs.root["parentStage"], CreateParent, C, D)
        BY <2>2, <2>4, <2>5, WithoutNothing, WillOne DEF Tidies
  <2> QED BY <2>6 DEF C, D
<1>4. Tidies(fs.root["stage"], InParent(Install), Clears("stage"), Dirt("stage"))
  <2>1. \/ InParent(Install) = <<>> /\ fs.root["stage"] = "none"
        \/ InParent(Install) \in {<<Refusal>>, <<Move("stage", "destination")>>,
                                  <<Put("stage", "new"), Move("stage", "destination")>>}
        BY DEF InParent, Install, Refuse, Absent, Is
  <2> QED BY <1>1, <1>2, <2>1, WithoutNothing, WillOne DEF Tidies
<1>5. ASSUME run.mode # "fresh"
      PROVE  Tidies(fs.root["artifacts"], PrepareAuthored, Clears("artifacts"), Dirt("artifacts"))
  <2>1. \/ PrepareAuthored = <<>> /\ fs.root["artifacts"] = "none"
        \/ PrepareAuthored = <<Put("artifacts", "none")>>
        BY <1>5 DEF PrepareAuthored, Absent, Is
  <2> QED BY <1>2, <2>1, WithoutNothing, WillOne DEF Tidies
<1>6. Tidies(fs.root["source"], RetireSource, Clears("source"), Dirt("source"))
  <2>1. RetireSource = <<>> => fs.root["source"] = "none"
    <3>1. Len(<<Refusal>>) = 1 /\ <<Refusal>> # <<>>
          OBVIOUS
    <3>2. EnsureOwner("tombstoneOwner") \o <<Retires>> # <<>>
      <4>1. Retires \in Steps
            BY DEF Retires, Move, Steps, Mutations, Roots
      <4>2. EnsureOwner("tombstoneOwner") \in Seq(Steps) /\ <<Retires>> \in Seq(Steps)
            BY <4>1, Short, OwnerTidies DEF Marks
      <4>3. /\ Len(EnsureOwner("tombstoneOwner")) \in Nat
            /\ Len(EnsureOwner("tombstoneOwner") \o <<Retires>>) =
                 Len(EnsureOwner("tombstoneOwner")) + Len(<<Retires>>)
            BY <4>2, ConcatProperties, LenProperties
      <4>4. Len(<<Retires>>) = 1 /\ Len(<<>>) = 0
            OBVIOUS
      <4> QED BY <4>3, <4>4
    <3> QED BY <3>1, <3>2 DEF RetireSource, Refuse, Retires, Absent, Is
  <2> QED BY <1>1, <1>2, <2>1, RetireParts, WithoutNothing, WillOne DEF Tidies
<1> QED BY <1>3, <1>4, <1>5, <1>6


-----------------------------------------------------------------------------
(* The procedures of the rollback. *)

LEMMA Triple ==
    ASSUME NEW a, NEW b, NEW c
    PROVE  <<a, b>> \o <<c>> = <<a, b, c>>
<1> DEFINE S == {a, b, c}
           s == <<a, b>> \o <<c>>
           t == <<a, b, c>>
<1>1. <<a, b>> \in Seq(S) /\ <<c>> \in Seq(S) /\ t \in Seq(S)
      BY Short
<1> HIDE DEF S
<1>2. /\ s \in Seq(S) /\ Len(s) = 3
      /\ \A i \in 1..3 : s[i] = IF i <= 2 THEN <<a, b>>[i] ELSE <<c>>[i - 2]
      BY <1>1, ConcatProperties
<1>3. Len(t) = 3 /\ t[1] = a /\ t[2] = b /\ t[3] = c
      OBVIOUS
<1>4. s[1] = a /\ s[2] = b /\ s[3] = c
      BY <1>2
<1> HIDE DEF s, t
<1>5. \A i \in 1..Len(s) : s[i] = t[i]
      BY <1>2, <1>3, <1>4
<1>6. s = t
      BY <1>1, <1>2, <1>3, <1>5, SeqEqual
<1> QED BY <1>6 DEF s, t

LEMMA RollBackIs ==
    ASSUME NEW x, x = Call(IF project.destPre THEN "restore-backup" ELSE "expect-no-destination")
    PROVE  \/ RollBackRuntime = <<Refusal>>
           \/ /\ j.install # "installed" /\ ~project.parentPre
              /\ RollBackRuntime = <<Call("remove-created-parent")>>
           \/ /\ j.install = "installed"
              /\ RollBackRuntime = <<Call("remove-installed"), x, Call("settle-parent")>>
           \/ /\ j.install # "installed" /\ project.parentPre
              /\ \/ j.slot["runtimeStage"] = "pending" /\ RollBackRuntime = <<Call("remove-stage"), x>>
                 \/ j.slot["runtimeStage"] # "pending" /\ RollBackRuntime = <<x>>
<1>1. CASE j.install # "installed" /\ ~project.parentPre
      BY <1>1 DEF RollBackRuntime
<1> DEFINE a == CASE j.install = "installed" -> <<Call("remove-installed")>>
                  [] j.install # "installed" /\ j.slot["runtimeStage"] = "pending" ->
                       <<Call("remove-stage")>>
                  [] OTHER -> <<>>
           b == a \o <<x>>
           c == IF j.install = "installed" THEN <<Call("settle-parent")>> ELSE <<>>
<1>2. CASE ~(j.install # "installed" /\ ~project.parentPre)
  <2>1. RollBackRuntime = <<Refusal>> \/ RollBackRuntime = b \o c
        BY <1>2 DEF RollBackRuntime, InParent, Refuse
  <2>2. CASE j.install = "installed"
    <3>1. b = <<Call("remove-installed"), x>> /\ c = <<Call("settle-parent")>>
          BY <2>2, Pair
    <3> HIDE DEF b, c
    <3>2. b \o c = <<Call("remove-installed"), x, Call("settle-parent")>>
          BY <3>1, Triple
    <3> QED BY <2>1, <2>2, <3>2
  <2>3. CASE j.install # "installed"
    <3>1. /\ c = <<>>
          /\ \/ j.slot["runtimeStage"] = "pending" /\ b = <<Call("remove-stage"), x>>
             \/ j.slot["runtimeStage"] # "pending" /\ b = <<x>>
          BY <2>3, Pair
    <3>2. b \in Seq({Call("remove-stage"), x})
      <4> HIDE DEF b
      <4> QED BY <3>1, Short
    <3> HIDE DEF b, c
    <3>3. b \o c = b
          BY <3>1, <3>2, ConcatEmptySeq
    <3> QED BY <1>2, <2>1, <2>3, <3>1, <3>3
  <2> QED BY <2>2, <2>3
<1> QED BY <1>1, <1>2

LEMMA StageTidies ==
    ASSUME TypeOK, NEW v, NEW s, s = CleanupOwned("stage", "stageCleanup", v, <<>>)
    PROVE  /\ \A x : x # "stageCleanup" /\ (x # "stage" \/ Absent("stage")) => Without(s, Dirt(x))
           /\ Tidies(fs.root["stage"], s, Clears("stage"), Dirt("stage"))
<1> DEFINE o == <<>>
<1>1. /\ "stage" \in Roots /\ "stageCleanup" \in Marks /\ o \in Seq(Steps)
      /\ \A D : Without(o, D)
      BY Short, WithoutNothing DEF Roots, Marks
<1>2. Refusal \in Clears("stage") /\ Put("stage", "none") \in Clears("stage")
      BY ClearsHas
<1>3. s = CleanupOwned("stage", "stageCleanup", v, o)
      OBVIOUS
<1> HIDE DEF o
<1>4. /\ \A x : x # "stageCleanup" /\ (x # "stage" \/ Absent("stage")) /\ Without(o, Dirt(x))
                    => Without(s, Dirt(x))
      /\ \A C : Refusal \in C /\ Put("stage", "none") \in C /\ Without(o, Dirt("stage")) =>
                    Tidies(fs.root["stage"], s, C, Dirt("stage"))
      BY <1>1, <1>3, CleanupTidies
<1> QED BY <1>1, <1>2, <1>4

\* Where the calls of the rollback lead: not to a tree that is not there already, but for the
\* destination and the marker of its removal.
LEMMA RollbackDirt ==
    ASSUME TypeOK
    PROVE  /\ \A x : x # "rollback" /\ (project.destPre => x # "destination") =>
                        Without(RollBackRuntime, Dirt(x))
           /\ j.install # "installed" => Without(RollBackRuntime, Dirt("rollback"))
           /\ \A x : x # "stageCleanup" /\ (x # "stage" \/ Absent("stage")) =>
                        Without(RemoveStage, Dirt(x))
           /\ \A x : Without(RemoveParent, Dirt(x))
           /\ \A x : Without(RemoveCreatedParent, Dirt(x))
           /\ \A x : x # "rollback" /\ (x # "destination" \/ Absent("destination")) =>
                        Without(RemoveInstalled, Dirt(x))
           /\ \A x : x # "destination" => Without(RestoreBackup, Dirt(x))
           /\ \A x : Without(ExpectNoDestination, Dirt(x))
           /\ \A x : Without(SettleParent, Dirt(x))
           /\ \A x : Without(RollBackTarget, Dirt(x))
<1>1. \A x : Without(<<Refusal>>, Dirt(x)) /\ Without(<<>>, Dirt(x))
      BY DirtIs, WithoutNothing
<1>2. ASSUME NEW x, x # "rollback" \/ j.install # "installed", project.destPre => x # "destination"
      PROVE  Without(RollBackRuntime, Dirt(x))
  <2> DEFINE a == Call(IF project.destPre THEN "restore-backup" ELSE "expect-no-destination")
  <2>1. a \notin Dirt(x)
        BY <1>2, DirtIs
  <2>2. /\ Call("remove-created-parent") \notin Dirt(x) /\ Call("settle-parent") \notin Dirt(x)
        /\ Call("remove-stage") \notin Dirt(x)
        /\ j.install = "installed" => Call("remove-installed") \notin Dirt(x)
        BY <1>2, DirtIs
  <2> HIDE DEF a
  <2> QED BY <1>1, <2>1, <2>2, RollBackIs, WithoutNothing DEF a
<1>3. ASSUME NEW x, x # "stageCleanup", x # "stage" \/ Absent("stage")
      PROVE  Without(RemoveStage, Dirt(x))
  <2>1. \/ RemoveStage \in {<<>>, <<Refusal>>}
        \/ RemoveStage = CleanupOwned("stage", "stageCleanup", Is("stage", "marked"), <<>>)
        BY DEF RemoveStage, Refuse
  <2> QED BY <1>1, <1>3, <2>1, StageTidies
<1>4. \A x : Without(RemoveParent, Dirt(x))
      BY <1>1, DirtIs, WithoutNothing, TargetParts
<1>5. \A x : Without(RemoveCreatedParent, Dirt(x)) /\ Without(SettleParent, Dirt(x))
  <2>1. \A x : Without(DropOwner("parentOwner"), Dirt(x))
        BY OwnerTidies DEF Marks
  <2>2. /\ RemoveCreatedParent \in {DropOwner("parentOwner"), <<Refusal>>,
                <<Call("remove-stage"), Call("remove-parent"), Unlink("parentOwner")>>,
                <<Put("parentStage", "none"), Unlink("parentOwner")>>}
        /\ SettleParent \in {<<>>, <<Refusal>>, DropOwner("parentOwner"),
                             <<Call("remove-parent"), Unlink("parentOwner")>>}
        BY DEF RemoveCreatedParent, SettleParent, InParent, Refuse
  <2> QED BY <1>1, <2>1, <2>2, DirtIs, WithoutNothing
<1>6. ASSUME NEW x, x # "rollback", x # "destination" \/ Absent("destination")
      PROVE  Without(RemoveInstalled, Dirt(x))
  <2> DEFINE t == RemoveTree("destination")
             u == <<Unlink("rollback")>>
             p == <<Publish("rollback")>>
  <2>1. t \in Seq(Steps) /\ Without(t, Dirt(x))
        BY <1>6, TreeTidies DEF Roots
  <2>2. u \in Seq(Steps) /\ p \in Seq(Steps)
    <3>1. Unlink("rollback") \in Steps /\ Publish("rollback") \in Steps
          BY DEF Unlink, Publish, Steps, Mutations, Marks
    <3> QED BY <3>1, Short
  <2>3. Without(u, Dirt(x)) /\ Without(p, Dirt(x))
        BY <1>6, DirtIs, WithoutNothing
  <2>4. fs.mark["rollback"] \in {"none", "torn", "exact"}
        BY DEF TypeOK, FileSystems, Marks
  <2>5. RemoveInstalled \in {<<>>, <<Refusal>>, t \o u, (p \o t) \o u}
        BY <2>4 DEF RemoveInstalled, Refuse
  <2> HIDE DEF t, u, p
  <2>6. Without(t \o u, Dirt(x))
        BY <2>1, <2>2, <2>3, WithoutJoined
  <2>7. p \o t \in Seq(Steps) /\ Without(p \o t, Dirt(x))
        BY <2>1, <2>2, <2>3, WithoutJoined, Joined
  <2> DEFINE pt == p \o t
  <2> HIDE DEF pt
  <2>8. Without(pt \o u, Dirt(x))
        BY <2>2, <2>3, <2>7, WithoutJoined DEF pt
  <2> QED BY <1>1, <2>5, <2>6, <2>8 DEF pt
<1>7. ASSUME NEW x, x # "destination"
      PROVE  Without(RestoreBackup, Dirt(x))
  <2>1. RestoreBackup \in {<<Move("backup", "destination"), Unlink("backupOwner")>>, <<Refusal>>,
                           DropOwner("backupOwner")}
        BY DEF RestoreBackup, Refuse
  <2>2. Without(DropOwner("backupOwner"), Dirt(x))
        BY OwnerTidies DEF Marks
  <2> QED BY <1>1, <1>7, <2>1, <2>2, DirtIs, WithoutNothing
<1>8. \A x : Without(ExpectNoDestination, Dirt(x))
      BY <1>1 DEF ExpectNoDestination, Refuse
<1>9. \A x : Without(RollBackTarget, Dirt(x))
      BY <1>1, DirtIs, WithoutNothing, TargetParts
<1> QED BY <1>2, <1>3, <1>4, <1>5, <1>6, <1>7, <1>8, <1>9

\* Every call of the rollback keeps the promise it is made with.
LEMMA RollbackTidies ==
    ASSUME TypeOK, Materialized, Routed, Housed, Unseen, j.pend = "runtime-rollback",
           NEW c \in {"runtime-rollback", "remove-stage", "remove-parent", "remove-created-parent",
                      "remove-installed", "restore-backup", "expect-no-destination",
                      "settle-parent"}, NEW b, b = Body(c),
           NEW x \in Goals, Call(c) \in Clears(x) \/ (At(x) = "none" /\ Call(c) \notin Dirt(x))
    PROVE  Tidies(At(x), b, Clears(x), Dirt(x))
<1>1. /\ x \in {"stage", "backup", "backupOwner", "rollback", "destination", "parentOwner"}
      /\ x = "destination" => ~project.destPre
      /\ x = "parentOwner" => RemovesParent
      BY DEF Goals
<1>2. project \in Selections
      BY ProjectsAssumption DEF TypeOK
<1>3. x \in Places /\ (~Open(x) => At(x) = "none")
      BY <1>1 DEF Unseen, Places, Roots, Marks
<1>4. /\ j.slot["destinationBackup"] = "pending" => project.destPre
      /\ j.slot["runtimeStage"] = "pending" => j.install = "not-installed"
      /\ project.destPre => project.parentPre
      BY <1>2 DEF Routed, Materialized, Selections
<1>5. /\ x \in {"backup", "backupOwner"} /\ ~project.destPre => At(x) = "none"
      /\ x = "stage" /\ j.slot["runtimeStage"] # "pending" => At(x) = "none"
      /\ x = "destination" /\ j.install # "installed" => At(x) = "none"
      /\ x = "rollback" /\ j.install # "installed" => At(x) = "none"
      BY <1>1, <1>3, <1>4 DEF Open
<1>6. At(x) = "none" /\ Without(b, Dirt(x)) => Tidies(At(x), b, Clears(x), Dirt(x))
      BY DEF Tidies
<1>7. \A s : Will(s, Clears(x), Dirt(x)) => Tidies(At(x), s, Clears(x), Dirt(x))
      BY DEF Tidies
<1>8. Will(<<Refusal>>, Clears(x), Dirt(x))
      BY WillOne, ClearsHas
<1>9. \A p : Call(p) \in Clears(x) <=> p \in Clearing(x)
      BY DEF Clears, Call, Refusal, Put, Unlink, Move
<1>10. CASE c = "runtime-rollback"
  <2> DEFINE d == Call(IF project.destPre THEN "restore-backup" ELSE "expect-no-destination")
  <2>1. b = RollBackRuntime
        BY <1>10 DEF Body
  <2>2. /\ x = "stage" => Call("remove-created-parent") \in Clears(x) /\ Call("remove-stage") \in Clears(x)
        /\ x = "parentOwner" => Call("remove-created-parent") \in Clears(x)
        /\ x = "parentOwner" /\ j.install = "installed" => Call("settle-parent") \in Clears(x)
        /\ x = "rollback" => Call("remove-installed") \in Clears(x)
        /\ x \in {"backup", "backupOwner"} => Call("restore-backup") \in Clears(x)
        /\ x = "destination" => Call("expect-no-destination") \in Clears(x)
        BY <1>9 DEF Clearing
  <2>3. /\ Call("settle-parent") \notin Dirt(x) /\ Call("expect-no-destination") \notin Dirt(x)
        /\ Call("remove-created-parent") \notin Dirt(x) /\ Call("remove-stage") \notin Dirt(x)
        /\ x # "destination" => Call("restore-backup") \notin Dirt(x)
        /\ x # "rollback" => Call("remove-installed") \notin Dirt(x)
        BY DirtIs
  <2>4. d \notin Dirt(x) /\ (x = "destination" => d \in Clears(x))
        /\ (x \in {"backup", "backupOwner"} /\ project.destPre => d \in Clears(x))
        BY <1>1, <2>2, <2>3
  <2> HIDE DEF d
  <2>5. CASE RollBackRuntime = <<Refusal>>
        BY <1>7, <1>8, <2>1, <2>5
  <2>6. CASE /\ j.install # "installed" /\ ~project.parentPre
             /\ RollBackRuntime = <<Call("remove-created-parent")>>
    <3>1. CASE x \in {"stage", "parentOwner"}
          BY <1>7, <2>1, <2>2, <2>6, <3>1, WillOne
    <3>2. CASE x \notin {"stage", "parentOwner"}
          BY <1>1, <1>4, <1>5, <1>6, <2>1, <2>3, <2>6, <3>2, WithoutNothing
    <3> QED BY <3>1, <3>2
  <2>7. CASE /\ j.install = "installed"
             /\ RollBackRuntime = <<Call("remove-installed"), d, Call("settle-parent")>>
    <3>1. CASE x = "stage" \/ (x \in {"backup", "backupOwner"} /\ ~project.destPre)
      <4>1. At(x) = "none"
            BY <1>4, <1>5, <2>7, <3>1
      <4>2. Without(b, Dirt(x))
            BY <2>1, <2>3, <2>4, <2>7, <3>1, WithoutNothing
      <4> QED BY <1>6, <4>1, <4>2
    <3>2. CASE x = "rollback"
          BY <1>7, <2>1, <2>2, <2>3, <2>4, <2>7, <3>2, WillOne
    <3>3. CASE x = "destination" \/ (x \in {"backup", "backupOwner"} /\ project.destPre)
          BY <1>7, <2>1, <2>3, <2>4, <2>7, <3>3, WillOne
    <3>4. CASE x = "parentOwner"
          BY <1>7, <2>1, <2>2, <2>7, <3>4, WillOne
    <3> QED BY <1>1, <3>1, <3>2, <3>3, <3>4
  <2>8. CASE /\ j.install # "installed" /\ project.parentPre
             /\ \/ j.slot["runtimeStage"] = "pending" /\ RollBackRuntime = <<Call("remove-stage"), d>>
                \/ j.slot["runtimeStage"] # "pending" /\ RollBackRuntime = <<d>>
    <3>1. x # "parentOwner"
          BY <1>1, <2>8 DEF RemovesParent
    <3>2. CASE x = "stage"
      <4>1. CASE j.slot["runtimeStage"] = "pending"
            BY <1>7, <2>1, <2>2, <2>4, <2>8, <3>2, <4>1, WillOne
      <4>2. CASE j.slot["runtimeStage"] # "pending"
        <5>1. At(x) = "none" /\ Without(b, Dirt(x))
              BY <1>5, <2>1, <2>4, <2>8, <3>2, <4>2, WithoutNothing
        <5> QED BY <1>6, <5>1
      <4> QED BY <4>1, <4>2
    <3>3. CASE x = "rollback" \/ (x \in {"backup", "backupOwner"} /\ ~project.destPre)
      <4>1. At(x) = "none"
            BY <1>5, <2>8, <3>3
      <4>2. Without(b, Dirt(x))
            BY <2>1, <2>3, <2>4, <2>8, <3>3, WithoutNothing
      <4> QED BY <1>6, <4>1, <4>2
    <3>4. CASE x = "destination" \/ (x \in {"backup", "backupOwner"} /\ project.destPre)
          BY <1>7, <2>1, <2>4, <2>8, <3>4, WillOne
    <3> QED BY <1>1, <3>1, <3>2, <3>3, <3>4
  <2>9. \/ RollBackRuntime = <<Refusal>>
        \/ /\ j.install # "installed" /\ ~project.parentPre
           /\ RollBackRuntime = <<Call("remove-created-parent")>>
        \/ /\ j.install = "installed"
           /\ RollBackRuntime = <<Call("remove-installed"), d, Call("settle-parent")>>
        \/ /\ j.install # "installed" /\ project.parentPre
           /\ \/ j.slot["runtimeStage"] = "pending" /\ RollBackRuntime = <<Call("remove-stage"), d>>
              \/ j.slot["runtimeStage"] # "pending" /\ RollBackRuntime = <<d>>
        BY RollBackIs DEF d
  <2> QED BY <2>5, <2>6, <2>7, <2>8, <2>9
<1>11. CASE c = "remove-stage"
  <2>1. b = RemoveStage
        BY <1>11 DEF Body
  <2>2. CASE x # "stage"
    <3>1. At(x) = "none" /\ x # "stageCleanup"
          BY <1>1, <1>9, <1>11, <2>2 DEF Clearing
    <3> QED BY <1>6, <2>1, <2>2, <3>1, RollbackDirt
  <2>3. CASE x = "stage"
    <3>1. \/ b = <<>> /\ At(x) = "none"
          \/ b = <<Refusal>>
          \/ b = CleanupOwned("stage", "stageCleanup", Is("stage", "marked"), <<>>)
          BY <2>1, <2>3 DEF RemoveStage, Refuse, Absent, Is, At, Roots
    <3>2. At(x) = fs.root["stage"]
          BY <2>3, Apart DEF Roots
    <3> QED BY <1>6, <1>7, <1>8, <2>3, <3>1, <3>2, StageTidies, WithoutNothing
  <2> QED BY <2>2, <2>3
<1>12. CASE c = "remove-parent"
  <2>1. b = RemoveParent
        BY <1>12 DEF Body
  <2>2. At(x) = "none"
        BY <1>1, <1>9, <1>12 DEF Clearing
  <2> QED BY <1>6, <2>1, <2>2, RollbackDirt
<1>13. CASE c = "remove-created-parent"
  <2>1. b = RemoveCreatedParent
        BY <1>13 DEF Body
  <2>2. CASE x \notin {"stage", "parentOwner"}
    <3>1. At(x) = "none"
          BY <1>1, <1>9, <1>13, <2>2 DEF Clearing
    <3> QED BY <1>6, <2>1, <3>1, RollbackDirt
  <2>3. CASE x = "stage"
    <3>1. At(x) = fs.root["stage"] /\ Call("remove-stage") \in Clears(x)
          BY <1>9, <2>3 DEF At, Roots, Clearing
    <3>2. \/ RemoveCreatedParent = <<Refusal>>
          \/ RemoveCreatedParent = <<Call("remove-stage"), Call("remove-parent"), Unlink("parentOwner")>>
          \/ Absent("parent")
          BY DEF RemoveCreatedParent, InParent, Refuse, Absent, Is, Housed
    <3>3. Absent("parent") => At(x) = "none"
          BY <3>1 DEF Housed, Absent, Is
    <3>4. Will(<<Call("remove-stage"), Call("remove-parent"), Unlink("parentOwner")>>, Clears(x), Dirt(x))
          BY <2>3, <3>1, WillOne, DirtIs
    <3> QED BY <1>6, <1>7, <1>8, <2>1, <3>2, <3>3, <3>4, RollbackDirt
  <2>4. CASE x = "parentOwner"
    <3>1. /\ RemoveCreatedParent \in {DropOwner("parentOwner"), <<Refusal>>,
                <<Call("remove-stage"), Call("remove-parent"), Unlink("parentOwner")>>,
                <<Put("parentStage", "none"), Unlink("parentOwner")>>}
          BY DEF RemoveCreatedParent, InParent, Refuse
    <3>2. At(x) = fs.mark[x] /\ x \in Marks
          BY <2>4, Apart DEF Marks
    <3>3. Tidies(At(x), DropOwner(x), Clears(x), Dirt(x))
          BY <3>2, OwnerTidies, ClearsHas
    <3> QED BY <1>7, <1>8, <2>1, <2>4, <3>1, <3>3, WillOne, ClearsHas
  <2> QED BY <2>2, <2>3, <2>4
<1>14. CASE c = "remove-installed"
  <2>1. b = RemoveInstalled
        BY <1>14 DEF Body
  <2>2. CASE x # "rollback"
    <3>1. At(x) = "none"
          BY <1>1, <1>9, <1>14, <2>2 DEF Clearing
    <3>2. x = "destination" => Absent("destination")
          BY <3>1 DEF At, Roots, Absent, Is
    <3> QED BY <1>6, <2>1, <2>2, <3>1, <3>2, RollbackDirt
  <2>3. CASE x = "rollback"
    <3> DEFINE t == RemoveTree("destination")
               u == <<Unlink("rollback")>>
               p == <<Publish("rollback")>>
    <3>1. fs.mark["rollback"] \in {"none", "torn", "exact"} /\ At(x) = fs.mark["rollback"]
          BY <2>3, Apart DEF TypeOK, FileSystems, Marks
    <3>2. \/ RemoveInstalled = <<>> /\ At(x) = "none"
          \/ RemoveInstalled \in {<<Refusal>>, t \o u, (p \o t) \o u}
          BY <3>1 DEF RemoveInstalled, Refuse
    <3>3. t \in Seq(Steps)
          BY TreeTidies DEF Roots
    <3>4. u \in Seq(Steps) /\ p \in Seq(Steps)
      <4>1. Unlink("rollback") \in Steps /\ Publish("rollback") \in Steps
            BY DEF Unlink, Publish, Steps, Mutations, Marks
      <4> QED BY <4>1, Short
    <3>5. Will(u, Clears(x), Dirt(x))
          BY <2>3, WillOne, ClearsHas
    <3> HIDE DEF t, u, p
    <3>6. Will(t \o u, Clears(x), Dirt(x))
          BY <3>3, <3>4, <3>5, WillJoined
    <3> DEFINE pt == p \o t
    <3>7. pt \in Seq(Steps)
          BY <3>3, <3>4, Joined
    <3> HIDE DEF pt
    <3>8. Will(pt \o u, Clears(x), Dirt(x))
          BY <3>4, <3>5, <3>7, WillJoined
    <3>9. \/ RemoveInstalled \in {<<Refusal>>, t \o u, pt \o u}
          \/ RemoveInstalled = <<>> /\ At(x) = "none"
          BY <3>2 DEF pt
    <3> QED BY <1>6, <1>7, <1>8, <2>1, <3>6, <3>8, <3>9, WithoutNothing
  <2> QED BY <2>2, <2>3
<1>15. CASE c = "restore-backup"
  <2>1. b = RestoreBackup
        BY <1>15 DEF Body
  <2>2. CASE x \notin {"backup", "backupOwner"}
    <3>1. At(x) = "none" /\ x # "destination"
      <4>1. Call(c) \notin Clears(x)
            BY <1>1, <1>9, <1>15, <2>2 DEF Clearing
      <4>2. Call(c) \in Dirt("destination")
            BY <1>15 DEF Dirt
      <4> QED BY <4>1, <4>2
    <3> QED BY <1>6, <2>1, <3>1, RollbackDirt
  <2>3. CASE x \in {"backup", "backupOwner"}
    <3>1. \/ RestoreBackup \in {<<Move("backup", "destination"), Unlink("backupOwner")>>, <<Refusal>>}
          \/ Absent("backup") /\ RestoreBackup = DropOwner("backupOwner")
          BY DEF RestoreBackup, Refuse
    <3>2. Will(<<Move("backup", "destination"), Unlink("backupOwner")>>, Clears(x), Dirt(x))
          BY <2>3, WillOne, ClearsHas, DirtIs DEF Roots
    <3>3. /\ "backupOwner" \in Marks /\ "backup" \in Roots
          /\ At("backupOwner") = fs.mark["backupOwner"] /\ At("backup") = fs.root["backup"]
          BY Apart DEF Marks, Roots
    <3>4. Absent("backup") => Tidies(At(x), DropOwner("backupOwner"), Clears(x), Dirt(x))
      <4>1. CASE x = "backup"
            BY <3>3, <4>1, OwnerTidies DEF Tidies, Absent, Is
      <4>2. CASE x = "backupOwner"
            BY <3>3, <4>2, OwnerTidies, ClearsHas
      <4> QED BY <2>3, <4>1, <4>2
    <3> QED BY <1>7, <1>8, <2>1, <3>1, <3>2, <3>4
  <2> QED BY <2>2, <2>3
<1>16. CASE c = "expect-no-destination"
  <2>1. b = ExpectNoDestination
        BY <1>16 DEF Body
  <2>2. \/ ExpectNoDestination = <<Refusal>>
        \/ ExpectNoDestination = <<>> /\ fs.root["destination"] = "none"
        BY DEF ExpectNoDestination, Refuse, Absent, Is
  <2>3. x = "destination" \/ At(x) = "none"
        BY <1>1, <1>9, <1>16 DEF Clearing
  <2>4. x = "destination" => At(x) = fs.root["destination"]
        BY Apart DEF Roots
  <2> QED BY <1>6, <1>7, <1>8, <2>1, <2>2, <2>3, <2>4, WithoutNothing
<1>17. CASE c = "settle-parent"
  <2>1. b = SettleParent
        BY <1>17 DEF Body
  <2>2. CASE At(x) = "none"
        BY <1>6, <2>1, <2>2, RollbackDirt
  <2>3. CASE At(x) # "none"
    <3>1. x = "parentOwner" /\ j.install = "installed"
      <4>1. c \in Clearing(x)
            BY <1>9, <2>3
      <4> QED BY <1>1, <1>17, <4>1 DEF Clearing
    <3>2. ~project.parentPre /\ j.ac = 0
          BY <1>1, <3>1 DEF RemovesParent
    <3>3. ~(project.parentPre \/ j.ac > 0)
          BY <3>2
    <3>4. SettleParent \in {<<Refusal>>, DropOwner("parentOwner"),
                            <<Call("remove-parent"), Unlink("parentOwner")>>}
          BY <3>3 DEF SettleParent, Refuse
    <3>5. At(x) = fs.mark[x] /\ x \in Marks
          BY <3>1, Apart DEF Marks
    <3>6. Tidies(At(x), DropOwner(x), Clears(x), Dirt(x))
          BY <3>5, OwnerTidies, ClearsHas
    <3> QED BY <1>7, <1>8, <2>1, <3>1, <3>4, <3>6, WillOne, ClearsHas
  <2> QED BY <2>2, <2>3
<1> QED BY <1>10, <1>11, <1>12, <1>13, <1>14, <1>15, <1>16, <1>17

-----------------------------------------------------------------------------
(* The procedures of an intent leave nothing where the intent has nothing to do. *)

Touches(k) ==
    CASE k = "destination-parent-create" -> {"parentStage", "parentOwner", "parent"}
      [] k = "runtime-stage-create" -> {"stage", "stageCleanup"}
      [] k = "destination-backup-create" -> {"backup", "backupOwner"}
      [] k = "destination-install" -> {"stage", "destination"}
      [] k = "authored-prepare" -> {"artifacts"}
      [] k = "authored-target-commit" -> {"parent"}
      [] k = "source-retire" -> {"tombstone", "tombstoneOwner"}
      [] k = "runtime-rollback" -> {"stage", "stageCleanup", "rollback", "destination"}
      [] k = "owned-slot-cleanup" ->
           {"backup", "tombstone", "artifacts", "backupCleanup", "tombstoneCleanup"}
      [] OTHER -> {}

LEMMA FootDirt ==
    ASSUME NEW k \in Kinds, NEW x, x \notin Touches(k)
    PROVE  Foot(k) \cap Dirt(x) = {}
<1> SUFFICES ASSUME NEW o \in Foot(k), o \in Dirt(x) PROVE FALSE
    OBVIOUS
<1>1. /\ Refusal \notin Dirt(x)
      /\ \A r, c : Put(r, c) \in Dirt(x) => r = x /\ c # "none"
      /\ \A r, q : Move(r, q) \in Dirt(x) => q = x
      /\ \A m : Publish(m) \in Dirt(x) => m = x
      /\ \A m : Unlink(m) \notin Dirt(x)
      /\ \A p : Call(p) \in Dirt(x) => \/ x = "destination" /\ p = "restore-backup"
                                       \/ x = "rollback" /\ p = "remove-installed"
      BY DirtIs
<1>2. Files("write") \notin Dirt(x) /\ Files("erase") \notin Dirt(x)
      BY DirtIs
<1>3. \A r : o \in Puts(r) => r = x
      BY <1>1 DEF Puts
<1>4. CASE k \in {"destination-parent-create", "destination-backup-create", "destination-install",
                  "source-retire"}
      BY <1>1, <1>4 DEF Foot, Touches
<1>5. CASE k \in {"runtime-stage-create", "authored-prepare"}
      BY <1>1, <1>3, <1>5 DEF Foot, Touches
<1>6. CASE k \in {"authored-target-commit", "authored-target-rollback"}
      BY <1>1, <1>2, <1>6 DEF Foot, Touches
<1>7. CASE k = "runtime-rollback"
  <2>1. o \in Puts("stage") \cup Puts("destination") => FALSE
        BY <1>3, <1>7 DEF Touches
  <2>2. x \notin {"stage", "stageCleanup", "rollback", "destination"}
        BY <1>7 DEF Touches
  <2>3. \/ \E p : o = Call(p)
        \/ o \in {Refusal, Publish("stageCleanup"), Unlink("stageCleanup"), Publish("rollback"),
                  Unlink("rollback"), Unlink("backupOwner"), Unlink("parentOwner"),
                  Put("parent", "none"), Put("parentStage", "none"), Move("backup", "destination")}
        BY <1>7, <2>1 DEF Foot
  <2> QED BY <1>1, <2>2, <2>3
<1>8. CASE k = "owned-slot-cleanup"
  <2>1. o \in Puts("backup") \cup Puts("tombstone") \cup Puts("artifacts") => FALSE
        BY <1>3, <1>8 DEF Touches
  <2>2. x \notin {"backupCleanup", "tombstoneCleanup"}
        BY <1>8 DEF Touches
  <2>3. o \in {Call(k), Refusal, Publish("backupCleanup"), Unlink("backupCleanup"),
               Publish("tombstoneCleanup"), Unlink("tombstoneCleanup"), Unlink("backupOwner"),
               Unlink("tombstoneOwner"), Unlink("parentOwner")}
        BY <1>8, <2>1 DEF Foot
  <2> QED BY <1>1, <1>8, <2>2, <2>3
<1> QED BY <1>4, <1>5, <1>6, <1>7, <1>8 DEF Kinds

\* What the head of what is left may call.
LEMMA Called ==
    ASSUME TypeOK, Shape, run.todo # <<>>, Head(run.todo) \in Calls, NEW c, c = Head(run.todo).on
    PROVE  /\ j.pend \in Kinds /\ Head(run.todo) = Call(c) /\ run.mode # "none"
           /\ c \in IF j.pend = "runtime-rollback"
                    THEN {"runtime-rollback", "remove-stage", "remove-parent",
                          "remove-created-parent", "remove-installed", "restore-backup",
                          "expect-no-destination", "settle-parent"}
                    ELSE {j.pend} \cup IF j.pend = "authored-target-rollback" THEN {"remove-parent"}
                                       ELSE {}
<1>1. j.pend \in Kinds /\ Head(run.todo) \in Foot(j.pend) /\ run.mode # "none"
      BY Pending
<1>2. Head(run.todo) = Call(c)
      BY DEF Calls, Call
<1> DEFINE k == j.pend
<1>3. CASE k \in {"destination-parent-create", "runtime-stage-create", "destination-backup-create",
                  "destination-install"}
      BY <1>1, <1>2, <1>3 DEF Foot, Puts, Put, Move, Publish, Unlink, Call, Refusal
<1>4. CASE k \in {"authored-prepare", "authored-target-commit", "source-retire",
                  "authored-target-rollback"}
      BY <1>1, <1>2, <1>4 DEF Foot, Puts, Put, Move, Publish, Files, Call, Refusal
<1>5. CASE k = "runtime-rollback"
      BY <1>1, <1>2, <1>5 DEF Foot, Puts, Put, Move, Publish, Unlink, Call, Refusal
<1>6. CASE k = "owned-slot-cleanup"
      BY <1>1, <1>2, <1>6 DEF Foot, Puts, Put, Publish, Unlink, Call, Refusal
<1> QED BY <1>1, <1>2, <1>3, <1>4, <1>5, <1>6 DEF Kinds

\* Where nothing can be, no procedure leaves something.
LEMMA UnseenBodies ==
    ASSUME TypeOK, Shape, Materialized, Cursors, Routed, Unseen, run.todo # <<>>,
           Head(run.todo) \in Calls, NEW x \in Places, ~Open(x),
           NEW b, b = Body(Head(run.todo).on)
    PROVE  Without(b, Dirt(x))
<1> DEFINE c == Head(run.todo).on
<1>1. b \in Seq(Foot(j.pend))
      BY Bodies
<1>2. /\ j.pend \in Kinds /\ Head(run.todo) = Call(c)
      /\ c \in IF j.pend = "runtime-rollback"
               THEN {"runtime-rollback", "remove-stage", "remove-parent",
                     "remove-created-parent", "remove-installed", "restore-backup",
                     "expect-no-destination", "settle-parent"}
               ELSE {j.pend} \cup IF j.pend = "authored-target-rollback" THEN {"remove-parent"}
                                  ELSE {}
      BY Called
<1>3. At(x) = "none" /\ Call(c) \notin Dirt(x)
  <2>1. run.todo \in Seq(Steps)
        BY DEF TypeOK, Runs
  <2> QED BY <1>2, <2>1, WithoutTail DEF Unseen
<1> HIDE DEF c
<1>4. CASE x \notin Touches(j.pend)
      BY <1>1, <1>2, <1>4, FootDirt, WithoutIn
<1>5. CASE j.pend = "destination-install" /\ x = "stage"
  <2>1. b = InParent(Install) /\ fs.root["stage"] = "none"
        BY <1>2, <1>3, <1>5 DEF Body, c, At, Roots
  <2>2. b \in {<<>>, <<Refusal>>}
        BY <2>1 DEF InParent, Install, Refuse, Is, Absent
  <2>3. Without(<<>>, Dirt(x)) /\ Without(<<Refusal>>, Dirt(x))
        BY DirtIs, WithoutNothing
  <2> QED BY <2>2, <2>3
<1>6. CASE j.pend = "runtime-rollback" /\ x \in Touches(j.pend)
  <2>1. x \in {"stage", "rollback", "destination"}
        BY <1>6 DEF Touches, Open
  <2>2. /\ x = "destination" => ~project.destPre
        /\ x = "rollback" => j.install # "installed"
        /\ x = "stage" => Absent("stage")
        /\ x = "destination" => Absent("destination")
        BY <1>3, <1>6, <2>1 DEF Open, At, Roots, Absent, Is
  <2>3. /\ x = "destination" => c # "restore-backup"
        /\ x = "rollback" => c # "remove-installed"
        BY <1>3 DEF Dirt
  <2>4. /\ c = "runtime-rollback" => b = RollBackRuntime
        /\ c = "remove-stage" => b = RemoveStage
        /\ c = "remove-parent" => b = RemoveParent
        /\ c = "remove-created-parent" => b = RemoveCreatedParent
        /\ c = "remove-installed" => b = RemoveInstalled
        /\ c = "restore-backup" => b = RestoreBackup
        /\ c = "expect-no-destination" => b = ExpectNoDestination
        /\ c = "settle-parent" => b = SettleParent
        BY DEF Body, c
  <2> QED BY <1>2, <1>6, <2>1, <2>2, <2>3, <2>4, RollbackDirt
<1>7. CASE j.pend = "owned-slot-cleanup"
  <2>1. PendingSlots # {} /\ j.slot["runtimeStage"] # "pending"
        BY <1>7 DEF Materialized, Shape, PhasesOf, CleanupPhases
  <2>2. b = CleanUp
        BY <1>2, <1>7 DEF Body, c
  <2>3. CleanupSlot \in {"destinationBackup", "sourceTombstone", "authored", "destinationParent"}
        /\ j.slot[CleanupSlot] = "pending"
        BY <2>1, NextSlot DEF PendingSlots
  <2>4. x \notin Goals
        BY <1>7, <2>3 DEF Goals, Open
  <2> QED BY <1>7, <2>1, <2>2, <2>4, CleanUpTidies
<1>8. CASE j.pend \notin {"runtime-rollback", "owned-slot-cleanup"} /\ x \in Touches(j.pend)
           /\ ~(j.pend = "destination-install" /\ x = "stage")
  <2>1. j.pend \in {"destination-parent-create", "authored-target-commit"} =>
           j.slot["authored"] # "unmaterialized" /\ j.phase \notin Closed
    <3>1. j.pend \in {"destination-parent-create", "authored-target-commit"} =>
             j.phase \in {"authored-prepared", "runtime-installed"}
          BY DEF Shape, PhasesOf
    <3> QED BY <3>1 DEF Cursors, ForwardPhases, Closed, CleanupPhases
  <2>2. Open(x)
        BY <1>2, <1>8, <2>1 DEF Touches, Open
  <2> QED BY <2>2
<1> QED BY <1>4, <1>5, <1>6, <1>7, <1>8

\* The procedure of every call keeps the promise the call is made with.
LEMMA BodiesTidy ==
    ASSUME TypeOK, Shape, Materialized, Routed, Housed, Unseen, run.todo # <<>>,
           Head(run.todo) \in Calls, NEW x \in Goals,
           Head(run.todo) \in Clears(x) \/ (At(x) = "none" /\ Head(run.todo) \notin Dirt(x)),
           NEW b, b = Body(Head(run.todo).on)
    PROVE  Tidies(At(x), b, Clears(x), Dirt(x))
<1> DEFINE c == Head(run.todo).on
<1>1. /\ j.pend \in Kinds /\ Head(run.todo) = Call(c) /\ run.mode # "none"
      /\ c \in IF j.pend = "runtime-rollback"
               THEN {"runtime-rollback", "remove-stage", "remove-parent",
                     "remove-created-parent", "remove-installed", "restore-backup",
                     "expect-no-destination", "settle-parent"}
               ELSE {j.pend} \cup IF j.pend = "authored-target-rollback" THEN {"remove-parent"}
                                  ELSE {}
      BY Called
<1> HIDE DEF c
<1>2. CASE j.pend = "runtime-rollback"
      BY <1>1, <1>2, RollbackTidies DEF c
<1>3. CASE j.pend = "owned-slot-cleanup"
  <2>1. PendingSlots # {} /\ j.slot["runtimeStage"] # "pending"
        BY <1>3 DEF Materialized, Shape, PhasesOf, CleanupPhases
  <2>2. b = CleanUp
        BY <1>1, <1>3 DEF Body, c
  <2> QED BY <1>3, <2>1, <2>2, CleanUpTidies
<1>4. CASE j.pend \notin {"runtime-rollback", "owned-slot-cleanup"}
  <2>1. \/ j.pend = "destination-parent-create" /\ x = "parentStage" /\ b = CreateParent
        \/ j.pend = "destination-install" /\ x = "stage" /\ b = InParent(Install)
        \/ /\ j.pend = "authored-prepare" /\ x = "artifacts" /\ b = PrepareAuthored
           /\ run.mode # "fresh"
        \/ j.pend = "source-retire" /\ x = "source" /\ b = RetireSource
        BY <1>1, <1>4 DEF Goals, Body, c
  <2>2. At(x) = fs.root[x]
        BY <2>1, Apart DEF Roots
  <2> QED BY <2>1, <2>2, ForwardTidies
<1> QED BY <1>2, <1>3, <1>4

-----------------------------------------------------------------------------
(* Every step keeps the invariant. *)

\* The slots after a postcondition.
LEMMA SlotsAfter ==
    ASSUME TypeOK, Shape, Materialized, j.pend # "none", NEW q, q = Postcondition
    PROVE  /\ \A s \in Slots : q.slot[s] =
                CASE j.pend = "authored-prepare" /\ run.mode = "fresh" /\ s = "authored" -> "pending"
                  [] j.pend = "destination-parent-create" /\ s = "destinationParent" -> "pending"
                  [] j.pend = "runtime-stage-create" /\ s = "runtimeStage" -> "pending"
                  [] j.pend = "destination-backup-create" /\ s = "destinationBackup" -> "pending"
                  [] j.pend = "destination-install" /\ s = "destinationParent" ->
                       IF project.parentPre THEN "unmaterialized" ELSE "pending"
                  [] j.pend = "destination-install" /\ s = "runtimeStage" -> "removed"
                  [] j.pend = "source-retire" /\ s = "sourceTombstone" -> "pending"
                  [] j.pend = "runtime-rollback" /\ s = "destinationParent" ->
                       IF RemovesParent THEN "removed" ELSE j.slot[s]
                  [] j.pend = "runtime-rollback" /\ s = "runtimeStage" ->
                       IF j.slot[s] = "pending" /\ (RemovesParent \/ j.install = "not-installed")
                       THEN "removed" ELSE j.slot[s]
                  [] j.pend = "runtime-rollback" /\ s = "destinationBackup" ->
                       IF j.slot[s] = "pending" THEN "removed" ELSE j.slot[s]
                  [] j.pend = "owned-slot-cleanup" /\ s = CleanupSlot -> "removed"
                  [] OTHER -> j.slot[s]
           /\ j.pend = "destination-install" => q.install = "installed"
           /\ j.pend = "runtime-rollback" => q.install \in {"backup-restored", "rolled-back"}
           /\ j.pend \notin {"destination-install", "runtime-rollback"} => q.install = j.install
<1>0. j \in Journals /\ j.slot \in [Slots -> SlotStates] /\ j.pend \in Kinds
      BY DEF TypeOK, Journals, SlotStates
<1> DEFINE k == j.pend
<1>1. CASE k = "owned-slot-cleanup"
  <2>1. CleanupSlot \in Slots
    <3>1. PendingSlots # {} /\ j.slot["runtimeStage"] # "pending"
          BY <1>1 DEF Materialized, Shape, PhasesOf, CleanupPhases
    <3> QED BY <3>1, NextSlot DEF Slots
  <2>2. q = ReachesWith("cleanup", CleanupSlot, "removed")
        BY <1>1 DEF Postcondition
  <2> QED BY <1>0, <1>1, <2>1, <2>2 DEF ReachesWith, Reaches, Journals
<1>2. CASE k = "runtime-rollback"
  <2>1. q = RuntimeRolledBack
        BY <1>2 DEF Postcondition
  <2> QED BY <1>0, <1>2, <2>1 DEF RuntimeRolledBack, Reaches, RemovesParent, Journals, Slots
<1>3. CASE k = "destination-install"
  <2>1. q = Installed
        BY <1>3 DEF Postcondition
  <2> QED BY <1>0, <1>3, <2>1 DEF Installed, Reaches, Journals, Slots
<1>4. CASE k \in {"authored-prepare", "destination-parent-create", "runtime-stage-create",
                  "destination-backup-create", "source-retire"}
  <2> QED BY <1>0, <1>4 DEF Postcondition, ReachesWith, Reaches, Journals, Slots
<1>5. CASE k \in {"authored-target-commit", "authored-target-rollback"}
      BY <1>0, <1>5 DEF Postcondition, Reaches, Journals, Slots
<1> QED BY <1>0, <1>1, <1>2, <1>3, <1>4, <1>5 DEF Kinds

LEMMA RoutedStep ==
    ASSUME TypeOK, Shape, Terminal, Materialized, Routed, [Next]_vars
    PROVE  Routed'
<1> USE DEF Closed, CleanupPhases
<1> DEFINE Back == {"runtime-rolled-back", "authored-rolled-back", "rolled-back"}
<1>1. CASE Sealing
  <2>1. /\ j'.slot = j.slot /\ j'.install = j.install /\ j'.pend = "none" /\ j.pend = "none"
        /\ UNCHANGED <<project, fs>> /\ PendingSlots' = PendingSlots
        BY <1>1, Sealed DEF PendingSlots
  <2>2. j'.phase \in Back \/ (j'.phase \in Closed /\ j'.term = "rolled-back") => j'.install # "installed"
        BY <1>1, Sealed DEF Routed, Terminal, runtimeRollbackRequired, Reversible, CommitPhase
  <2>3. j'.phase \in Closed /\ j'.term = "committed" => fs'.files = FilesOf(project.targets)
    <3> SUFFICES ASSUME j'.phase \in Closed, j'.term = "committed"
                 PROVE  fs.files = FilesOf(project.targets)
        BY <2>1
    <3>1. Close
      <4>1. ~(\/ VerifySource \/ VerifyDestination \/ DestinationReady
              \/ AuthoredCommitted \/ AuthorityVerified \/ SealCommitted
              \/ BeginRollback \/ AuthoredRolledBack \/ SealRolledBack)
            BY DEF VerifySource, VerifyDestination, DestinationReady, AuthoredCommitted,
                   AuthorityVerified, SealCommitted, BeginRollback, AuthoredRolledBack,
                   SealRolledBack, Advance, Record, TypeOK, Journals
      <4> QED BY <1>1, <4>1 DEF Sealing
    <3>2. j.term = "committed"
          BY <3>1 DEF Close, Advance, Record, TypeOK, Journals
    <3> QED BY <3>1, <3>2 DEF Close, CommittedAuthority, Desired
  <2>4. j'.phase # "unlinked"
        BY <1>1, Sealed
  <2>5. FilesOf(project.targets)' = FilesOf(project.targets)
        BY <2>1 DEF FilesOf
  <2> QED BY <2>1, <2>2, <2>3, <2>4, <2>5 DEF Routed
<1>2. CASE UnlinkJournal
      BY <1>2 DEF UnlinkJournal, Routed, Idle, TypeOK, Journals, FilesOf, PendingSlots
<1>3. ASSUME NEW kind \in Kinds, RecordIntent(kind)
      PROVE  Routed'
  <2>1. /\ j' = [j EXCEPT !.pend = kind] /\ UNCHANGED <<project, fs>>
        /\ j.phase \in PhasesOf(kind)
        /\ kind = "authored-target-rollback" =>
              (j.phase = "rollback-started" => ~runtimeRollbackRequired)
        BY <1>3, IntentDoes
  <2>2. kind = "destination-parent-create" => ~project.parentPre
        BY <1>3 DEF RecordIntent, ForwardIntent, RollbackIntent, CleanupIntent
  <2>3. /\ j'.phase = j.phase /\ j'.term = j.term /\ j'.slot = j.slot /\ j'.install = j.install
        /\ j'.pend = kind /\ PendingSlots' = PendingSlots
        BY <2>1 DEF TypeOK, Journals, PendingSlots
  <2>4. kind = "authored-target-rollback" => j.install # "installed"
        BY <2>1 DEF PhasesOf, runtimeRollbackRequired, Routed
  <2> QED BY <2>1, <2>2, <2>3, <2>4 DEF Routed, FilesOf
<1>4. CASE RecordPostcondition
  <2> DEFINE k == j.pend
  <2>1. /\ j' = Postcondition /\ UNCHANGED <<project, fs>> /\ k # "none"
        /\ k \in Kinds /\ j.phase \in PhasesOf(k)
        BY <1>4 DEF RecordPostcondition, TypeOK, Journals, Shape
  <2>2. /\ j'.pend = "none" /\ j'.term = j.term
        /\ j'.phase = CASE k = "authored-prepare" ->
                             IF run.mode = "fresh" THEN "authored-prepared" ELSE j.phase
                        [] k = "destination-parent-create" -> "destination-ready"
                        [] k = "runtime-stage-create" -> "runtime-staged"
                        [] k = "destination-backup-create" -> "destination-backed-up"
                        [] k = "destination-install" -> "runtime-installed"
                        [] k = "authored-target-commit" ->
                             IF j.ac + 1 = project.targets THEN "authored-committed" ELSE j.phase
                        [] k = "source-retire" -> "source-retired"
                        [] k = "runtime-rollback" -> "runtime-rolled-back"
                        [] k = "authored-target-rollback" ->
                             IF j.rc + 1 = j.ac THEN "authored-rolled-back" ELSE j.phase
                        [] k = "owned-slot-cleanup" -> "cleanup"
        BY <2>1, PostDoes
  <2>3. j'.phase \in Back \cup Closed => k \in {"runtime-rollback", "authored-target-rollback",
                                                "owned-slot-cleanup"}
        BY <2>1, <2>2 DEF PhasesOf, Kinds
  <2>4. /\ k = "runtime-rollback" => j'.install # "installed"
        /\ k \in {"authored-target-rollback", "owned-slot-cleanup"} => j'.install = j.install
        BY <2>1, SlotsAfter
  <2>5. k = "owned-slot-cleanup" => j.phase \in Closed /\ j'.phase = "cleanup"
        BY <2>1, <2>2 DEF PhasesOf
  <2>6. j'.phase \in Closed => k = "owned-slot-cleanup"
        BY <2>1, <2>2, <2>3 DEF PhasesOf
  <2>7. \/ j'.phase \in Back
        \/ j'.phase \in Closed /\ j'.term = "rolled-back"
        => j'.install # "installed"
        BY <2>2, <2>3, <2>4, <2>5, <2>6 DEF Routed
  <2>8. /\ j'.slot["destinationParent"] = "pending" => ~project.parentPre
        /\ j'.slot["destinationBackup"] = "pending" => project.destPre
    <3>1. /\ j'.slot["destinationParent"] = "pending" =>
                \/ j.slot["destinationParent"] = "pending"
                \/ k = "destination-parent-create"
                \/ k = "destination-install" /\ ~project.parentPre
          /\ j'.slot["destinationBackup"] = "pending" =>
                j.slot["destinationBackup"] = "pending" \/ k = "destination-backup-create"
          BY <2>1, SlotsAfter DEF Slots
    <3> QED BY <3>1 DEF Routed, Materialized
  <2>9. j'.phase # "unlinked"
        BY <2>1, <2>2 DEF PhasesOf, Kinds
  <2>10. j'.phase \in Closed /\ j'.term = "committed" => fs.files = FilesOf(project.targets)
         BY <2>2, <2>5, <2>6 DEF Routed
  <2> QED BY <2>1, <2>2, <2>7, <2>8, <2>9, <2>10 DEF Routed, FilesOf
<1>5. CASE Working
  <2>1. j' = j /\ project' = project
        BY <1>5, WorkingDoes
  <2>2. j.phase \in Closed => fs'.files = fs.files
    <3>1. CASE Mutate
      <4>1. j.phase \in Closed => j.pend \notin {"authored-target-commit", "authored-target-rollback"}
            BY DEF Shape, PhasesOf
      <4> QED BY <3>1, <4>1, Mutated
    <3>2. CASE Stop
          BY <3>2, Stopped
    <3>3. CASE ~Mutate /\ ~Stop
          BY <1>5, <3>3, Rested
    <3> QED BY <3>1, <3>2, <3>3
  <2> QED BY <2>1, <2>2 DEF Routed, FilesOf, PendingSlots
<1> QED BY <1>1, <1>2, <1>3, <1>4, <1>5, Actions

LEMMA UnseenStep ==
    ASSUME IInv, Tidy, [Next]_vars
    PROVE  Unseen'
<1> USE DEF IInv, Tidy
<1>0. /\ \A x : \A k \in Kinds : Call(k) \notin Dirt(x)
      /\ \A x : Without(<<>>, Dirt(x))
      /\ \A x : \A k \in Kinds : Without(<<Call(k)>>, Dirt(x))
      /\ run.todo \in Seq(Steps) /\ j.pend \in Kinds \cup {"none"}
  <2>1. \A x : \A k \in Kinds : Call(k) \notin Dirt(x)
        BY DirtIs DEF Kinds
  <2> QED BY <2>1, WithoutNothing DEF TypeOK, Runs, Journals
<1>1. CASE Sealing
  <2>1. /\ j'.slot = j.slot /\ j'.install = j.install /\ j'.pend = j.pend
        /\ UNCHANGED <<project, fs, run>> /\ run.todo = <<>>
        /\ CleanupSlot' = CleanupSlot /\ HasSource' = HasSource
        BY <1>1, Sealed DEF CleanupSlot, PendingSlots, HasSource
  <2>2. ASSUME NEW x \in Places, ~Open(x)', At(x) # "none"
        PROVE  FALSE
    <3>1. Open(x)
          BY <2>2 DEF Unseen
    <3>2. x \in {"source", "parent"}
          BY <2>1, <2>2, <3>1 DEF Open, Places, Roots, Marks
    <3>3. CASE x = "source"
      <4>1. HasSource /\ ~(\/ j.phase \in {"source-retired", "authority-verified", "committed"}
                           \/ j.phase \in Closed /\ j.term = "committed")
            BY <3>1, <3>3 DEF Open
      <4>2. \/ j'.phase \in {"source-retired", "authority-verified", "committed"}
            \/ j'.phase \in Closed /\ j'.term = "committed"
            BY <2>1, <2>2, <3>3, <4>1 DEF Open
      <4> QED BY <1>1, <4>1, <4>2, Sealed DEF Terminal, Closed, CleanupPhases, CommitPhase, Reversible
    <3>4. CASE x = "parent"
      <4>1. /\ ~project.parentPre /\ j.slot["authored"] # "unmaterialized"
            /\ ~(j.phase \in Closed /\ j.term = "rolled-back")
            BY <3>1, <3>4, <2>1, <2>2 DEF Open
      <4>2. j'.phase \in Closed /\ j'.term = "rolled-back"
            BY <2>1, <2>2, <3>4, <4>1 DEF Open
      <4>3. RolledBackAuthority
            BY <1>1, <4>1, <4>2, Sealed DEF Terminal, Closed, CleanupPhases, CommitPhase, Reversible
      <4>4. fs.root["parent"] = "none"
            BY <4>1, <4>3 DEF RolledBackAuthority, Preimage, Absent, Is
      <4> QED BY <2>2, <3>4, <4>4 DEF At, Roots
    <3> QED BY <3>2, <3>3, <3>4
  <2>3. \A x \in Places : At(x)' = At(x)
        BY <2>1 DEF At
  <2> QED BY <1>0, <2>1, <2>2, <2>3 DEF Unseen
<1>2. CASE UnlinkJournal
  <2>1. /\ j' = [j EXCEPT !.phase = "unlinked"] /\ run' = NoRun /\ UNCHANGED <<project, fs>>
        /\ j.phase \in CleanupPhases
        BY <1>2 DEF UnlinkJournal
  <2>2. /\ j'.slot = j.slot /\ j'.install = j.install /\ j'.pend = j.pend /\ j'.term = j.term
        /\ j'.phase = "unlinked" /\ run'.todo = <<>>
        BY <2>1 DEF TypeOK, Journals, NoRun
  <2>3. CleanupSlot' = CleanupSlot /\ HasSource' = HasSource
        BY <2>1, <2>2 DEF CleanupSlot, PendingSlots, HasSource
  <2>4. \A x \in Places : At(x)' = At(x)
        BY <2>1 DEF At
  <2>5. ASSUME NEW x \in Places, Open(x)
        PROVE  Open(x)'
        BY <2>1, <2>2, <2>3, <2>5 DEF Open, Closed, CleanupPhases
  <2> QED BY <1>0, <2>2, <2>4, <2>5 DEF Unseen
<1>3. ASSUME NEW kind \in Kinds, RecordIntent(kind)
      PROVE  Unseen'
  <2>1. /\ j' = [j EXCEPT !.pend = kind] /\ run' = [run EXCEPT !.todo = <<Call(kind)>>]
        /\ UNCHANGED <<project, fs>> /\ j.pend = "none"
        BY <1>3, IntentDoes
  <2>2. /\ j'.slot = j.slot /\ j'.install = j.install /\ j'.phase = j.phase /\ j'.term = j.term
        /\ j'.pend = kind /\ run'.todo = <<Call(kind)>>
        BY <2>1 DEF TypeOK, Journals, Runs
  <2>3. HasSource' = HasSource
        BY <2>1 DEF HasSource
  <2>4. \A x \in Places : At(x)' = At(x)
        BY <2>1 DEF At
  <2>5. ASSUME NEW x \in Places, Open(x)
        PROVE  Open(x)'
        BY <2>1, <2>2, <2>3, <2>5 DEF Open
  <2> QED BY <1>0, <2>2, <2>4, <2>5 DEF Unseen
<1>4. CASE RecordPostcondition
  <2> DEFINE k == j.pend
  <2>1. /\ j' = Postcondition /\ UNCHANGED <<project, fs>> /\ k # "none"
        /\ k \in Kinds /\ j.phase \in PhasesOf(k) /\ run.todo = <<>> /\ run.mode # "none"
        /\ run'.todo = <<>>
        BY <1>4 DEF RecordPostcondition, TypeOK, Journals, Shape, Runs
  <2>2. /\ \A x \in Places : At(x)' = At(x)
        /\ HasSource' = HasSource
        BY <2>1 DEF At, HasSource
  <2>3. \A x \in Goals : At(x) = "none"
    <3>1. \A v, C, D : Tidies(v, <<>>, C, D) => v = "none"
          BY DEF Tidies, Will
    <3> QED BY <2>1, <3>1 DEF Cleared
  <2>4. /\ j'.pend = "none" /\ j'.term = j.term
        /\ j'.phase = CASE k = "authored-prepare" ->
                             IF run.mode = "fresh" THEN "authored-prepared" ELSE j.phase
                        [] k = "destination-parent-create" -> "destination-ready"
                        [] k = "runtime-stage-create" -> "runtime-staged"
                        [] k = "destination-backup-create" -> "destination-backed-up"
                        [] k = "destination-install" -> "runtime-installed"
                        [] k = "authored-target-commit" ->
                             IF j.ac + 1 = project.targets THEN "authored-committed" ELSE j.phase
                        [] k = "source-retire" -> "source-retired"
                        [] k = "runtime-rollback" -> "runtime-rolled-back"
                        [] k = "authored-target-rollback" ->
                             IF j.rc + 1 = j.ac THEN "authored-rolled-back" ELSE j.phase
                        [] k = "owned-slot-cleanup" -> "cleanup"
        BY <2>1, PostDoes
  <2> DEFINE After(s) ==
                CASE k = "authored-prepare" /\ run.mode = "fresh" /\ s = "authored" -> "pending"
                  [] k = "destination-parent-create" /\ s = "destinationParent" -> "pending"
                  [] k = "runtime-stage-create" /\ s = "runtimeStage" -> "pending"
                  [] k = "destination-backup-create" /\ s = "destinationBackup" -> "pending"
                  [] k = "destination-install" /\ s = "destinationParent" ->
                       IF project.parentPre THEN "unmaterialized" ELSE "pending"
                  [] k = "destination-install" /\ s = "runtimeStage" -> "removed"
                  [] k = "source-retire" /\ s = "sourceTombstone" -> "pending"
                  [] k = "runtime-rollback" /\ s = "destinationParent" ->
                       IF RemovesParent THEN "removed" ELSE j.slot[s]
                  [] k = "runtime-rollback" /\ s = "runtimeStage" ->
                       IF j.slot[s] = "pending" /\ (RemovesParent \/ j.install = "not-installed")
                       THEN "removed" ELSE j.slot[s]
                  [] k = "runtime-rollback" /\ s = "destinationBackup" ->
                       IF j.slot[s] = "pending" THEN "removed" ELSE j.slot[s]
                  [] k = "owned-slot-cleanup" /\ s = CleanupSlot -> "removed"
                  [] OTHER -> j.slot[s]
  <2>5. /\ \A s \in Slots : j'.slot[s] = After(s)
        /\ k = "destination-install" => j'.install = "installed"
        /\ k # "runtime-rollback" /\ j.install = "installed" => j'.install = "installed"
        BY <2>1, SlotsAfter
  <2>6. k = "owned-slot-cleanup" =>
           CleanupSlot \in {"destinationBackup", "sourceTombstone", "authored", "destinationParent"}
    <3>1. k = "owned-slot-cleanup" => PendingSlots # {} /\ j.slot["runtimeStage"] # "pending"
          BY DEF Materialized, Shape, PhasesOf, CleanupPhases
    <3> QED BY <3>1, NextSlot
  <2>7. ASSUME NEW x \in Places, Open(x), ~Open(x)', x \notin Goals
        PROVE  FALSE
    <3>1. CASE x \in {"parentStage", "stage"}
      <4>1. j'.slot["runtimeStage"] # "pending" /\ k # "destination-install" => x # "stage"
            BY <2>1, <2>5, <2>6, <2>7, <3>1 DEF Open, Goals, Slots, Materialized
      <4> QED BY <2>4, <2>7, <3>1, <4>1 DEF Open, Goals
    <3>2. CASE x = "destination"
          BY <2>1, <2>5, <2>7, <3>2 DEF Open, Goals
    <3>3. CASE x \in {"backup", "backupOwner"}
      <4>1. j'.slot["destinationBackup"] = After("destinationBackup")
            /\ j'.slot["destinationBackup"] # "pending"
            BY <2>5, <2>7, <3>3 DEF Open, Slots
      <4> QED BY <2>7, <3>3, <4>1 DEF Open, Goals
    <3>4. CASE x \in {"backupCleanup", "tombstoneCleanup"}
          BY <2>7, <3>4 DEF Open, Goals
    <3>5. CASE x \in {"tombstone", "tombstoneOwner"}
      <4>1. j'.slot["sourceTombstone"] = After("sourceTombstone")
            /\ j'.slot["sourceTombstone"] # "pending"
            BY <2>5, <2>7, <3>5 DEF Open, Slots
      <4> QED BY <2>7, <3>5, <4>1 DEF Open, Goals
    <3>6. CASE x = "artifacts"
      <4>1. j'.slot["authored"] = After("authored") /\ j'.slot["authored"] # "pending"
            BY <2>5, <2>7, <3>6 DEF Open, Slots
      <4> QED BY <2>7, <3>6, <4>1 DEF Open, Goals
    <3>7. CASE x = "parentOwner"
      <4>1. j'.slot["destinationParent"] = After("destinationParent")
            /\ j'.slot["destinationParent"] # "pending"
            BY <2>5, <2>7, <3>7 DEF Open, Slots
      <4>2. j.slot["destinationParent"] = "pending" \/ k = "destination-parent-create"
            BY <2>7, <3>7 DEF Open
      <4>3. j.slot["destinationParent"] = "pending" => ~project.parentPre
            BY DEF Routed
      <4> QED BY <2>7, <3>7, <4>1, <4>2, <4>3 DEF Goals
    <3>8. CASE x = "rollback"
          BY <2>7, <3>8 DEF Open, Goals
    <3>9. CASE x = "source"
      <4>1. HasSource /\ ~(\/ j.phase \in {"source-retired", "authority-verified", "committed"}
                           \/ j.phase \in Closed /\ j.term = "committed")
            BY <2>7, <3>9 DEF Open
      <4>2. \/ j'.phase \in {"source-retired", "authority-verified", "committed"}
            \/ j'.phase \in Closed /\ j.term = "committed"
            BY <2>2, <2>4, <2>7, <3>9, <4>1 DEF Open
      <4>3. k # "source-retire"
            BY <2>7, <3>9 DEF Goals
      <4> QED BY <2>1, <2>4, <4>1, <4>2, <4>3 DEF PhasesOf, Kinds, Closed, CleanupPhases
    <3>10. CASE x = "parent"
      <4>1. /\ ~project.parentPre /\ j.slot["authored"] # "unmaterialized"
            /\ ~(j.phase \in Closed /\ j.term = "rolled-back")
            BY <2>1, <2>7, <3>10 DEF Open
      <4>2. j'.slot["authored"] # "unmaterialized"
            BY <2>5, <2>6, <4>1 DEF Slots
      <4>3. j'.phase \in Closed /\ j.term = "rolled-back"
            BY <2>1, <2>4, <2>7, <3>10, <4>1, <4>2 DEF Open
      <4> QED BY <2>1, <2>4, <4>1, <4>3 DEF PhasesOf, Kinds, Closed, CleanupPhases
    <3>11. CASE x = "stageCleanup"
          BY <2>7, <3>11 DEF Open
    <3> QED BY <3>1, <3>2, <3>3, <3>4, <3>5, <3>6, <3>7, <3>8, <3>9, <3>10, <3>11
            DEF Places, Roots, Marks
  <2> HIDE DEF After
  <2> QED BY <1>0, <2>1, <2>2, <2>3, <2>7 DEF Unseen
<1>5. CASE Working
  <2>1. j' = j /\ project' = project
        BY <1>5, WorkingDoes
  <2>2. \A x \in Places : Open(x)' <=> Open(x)
        BY <2>1 DEF Open, HasSource, CleanupSlot, PendingSlots
  <2>3. ASSUME NEW x \in Places, ~Open(x)
        PROVE  At(x)' = "none" /\ Without(run'.todo, Dirt(x))
    <3>1. At(x) = "none" /\ Without(run.todo, Dirt(x))
          BY <2>3 DEF Unseen
    <3>2. CASE Mutate
      <4>1. /\ run.todo # <<>> /\ Head(run.todo) \in Mutations /\ fs' = Apply(Head(run.todo))
            /\ run'.todo = Tail(run.todo)
            BY <3>2, Mutated
      <4>2. Without(Tail(run.todo), Dirt(x)) /\ Head(run.todo) \notin Dirt(x)
            BY <1>0, <3>1, <4>1, WithoutTail
      <4> QED BY <3>1, <4>1, <4>2, AppliedAt
    <3>3. CASE Stop
      <4>1. At(x)' = At(x) /\ run'.todo = <<>>
            BY <3>1, <3>3, StoppedAt, Stopped DEF NoRun
      <4> QED BY <1>0, <3>1, <4>1
    <3>4. CASE ~Mutate /\ ~Stop
      <4>1. At(x)' = At(x)
            BY <1>5, <3>4, Rested DEF At
      <4>2. CASE run.todo # <<>> /\ Head(run.todo) \in Calls
                 /\ run'.todo = Body(Head(run.todo).on) \o Tail(run.todo)
        <5> DEFINE b == Body(Head(run.todo).on)
        <5>1. Without(b, Dirt(x))
              BY <2>3, <4>2, UnseenBodies
        <5>2. b \in Seq(Steps)
              BY <1>0, <4>2, Bodies, FootSteps, Wider
        <5>3. Tail(run.todo) \in Seq(Steps) /\ Without(Tail(run.todo), Dirt(x))
              BY <1>0, <3>1, <4>2, WithoutTail, TailIndexed
        <5> HIDE DEF b
        <5>4. Without(b \o Tail(run.todo), Dirt(x))
              BY <5>1, <5>2, <5>3, WithoutJoined
        <5> QED BY <3>1, <4>1, <4>2, <5>4 DEF b
      <4>3. CASE \/ run'.todo = run.todo \/ run'.todo = <<>>
                 \/ j.pend # "none" /\ run'.todo = <<Call(j.pend)>>
        <5>1. Without(run'.todo, Dirt(x))
          <6>1. CASE run'.todo = run.todo
                BY <3>1, <6>1
          <6>2. CASE run'.todo = <<>>
                BY <1>0, <6>2
          <6>3. CASE j.pend # "none" /\ run'.todo = <<Call(j.pend)>>
                BY <1>0, <6>3
          <6> QED BY <4>3, <6>1, <6>2, <6>3
        <5> QED BY <3>1, <4>1, <5>1
      <4>4. NoRun.todo = <<>>
            BY DEF NoRun
      <4>5. \/ /\ run.todo # <<>> /\ Head(run.todo) \in Calls
               /\ run'.todo = Body(Head(run.todo).on) \o Tail(run.todo)
            \/ run'.todo = run.todo \/ run' = NoRun \/ run' = run
            \/ run'.todo = IF j.pend = "none" THEN <<>> ELSE <<Call(j.pend)>>
        <5> HIDE DEF IInv
        <5> QED BY <1>5, <3>4, Rested DEF IInv
      <4>6. \/ /\ run.todo # <<>> /\ Head(run.todo) \in Calls
               /\ run'.todo = Body(Head(run.todo).on) \o Tail(run.todo)
            \/ run'.todo = run.todo \/ run'.todo = <<>>
            \/ j.pend # "none" /\ run'.todo = <<Call(j.pend)>>
            BY <4>4, <4>5
      <4> QED BY <4>2, <4>3, <4>6
    <3> QED BY <3>2, <3>3, <3>4
  <2> QED BY <2>2, <2>3 DEF Unseen
<1> QED BY <1>1, <1>2, <1>3, <1>4, <1>5, Actions

LEMMA ClearedStep ==
    ASSUME IInv, Tidy, [Next]_vars
    PROVE  Cleared'
<1> USE DEF IInv, Tidy
<1>0. /\ run.todo \in Seq(Steps) /\ j.pend \in Kinds \cup {"none"}
      /\ \A x, v, D : Tidies(v, <<Call(j.pend)>>, Clears(x), D)
  <2>1. \A x : Call(j.pend) \in Clears(x)
        BY DEF Clears, Clearing
  <2> QED BY <2>1, WillOne DEF TypeOK, Runs, Journals, Tidies
<1>1. CASE Sealing \/ UnlinkJournal \/ RecordPostcondition
  <2>1. run'.mode = "none" \/ j'.pend = "none"
    <3>1. CASE Sealing
          BY <3>1, Sealed
    <3>2. CASE UnlinkJournal
          BY <3>2 DEF UnlinkJournal, NoRun
    <3>3. CASE RecordPostcondition
          BY <3>3, PostDoes DEF RecordPostcondition
    <3> QED BY <1>1, <3>1, <3>2, <3>3
  <2> QED BY <2>1 DEF Cleared, Goals
<1>2. ASSUME NEW kind \in Kinds, RecordIntent(kind)
      PROVE  Cleared'
  <2>1. j'.pend = kind /\ run'.todo = <<Call(kind)>>
        BY <1>2, IntentDoes DEF TypeOK, Journals, Runs
  <2>2. \A x : Call(kind) \in Clears(x)'
        BY <2>1 DEF Clears, Clearing
  <2> QED BY <2>1, <2>2, WillOne DEF Cleared, Tidies
<1>3. CASE Working
  <2>1. j' = j /\ project' = project
        BY <1>3, WorkingDoes
  <2>2. \A x : Clears(x)' = Clears(x)
        BY <2>1 DEF Clears, Clearing
  <2>3. run'.mode = run.mode => Goals' = Goals
        BY <2>1 DEF Goals, CleanupSlot, PendingSlots, RemovesParent
  <2>4. CASE Mutate
    <3>1. /\ run.todo # <<>> /\ Head(run.todo) \in Mutations /\ fs' = Apply(Head(run.todo))
          /\ run'.todo = Tail(run.todo) /\ run'.mode = run.mode /\ run.mode # "none"
          BY <2>4, Mutated
    <3>2. ASSUME NEW x \in Goals
          PROVE  Tidies(At(x)', Tail(run.todo), Clears(x), Dirt(x))
      <4>1. x \in Places
            BY <3>2 DEF Goals, Places, Roots, Marks
      <4>2. Tidies(At(x), run.todo, Clears(x), Dirt(x))
            BY <3>1, <3>2 DEF Cleared
      <4>3. /\ Head(run.todo) \in Clears(x) \/ (At(x) = "none" /\ Head(run.todo) \notin Dirt(x))
            => At(x)' = "none"
            BY <3>1, <4>1, AppliedAt
      <4> QED BY <1>0, <3>1, <4>2, <4>3, TidiesMutate
    <3> QED BY <2>2, <2>3, <3>1, <3>2 DEF Cleared
  <2>5. CASE Stop
        BY <2>5 DEF Stop, NoRun, Cleared
  <2>6. CASE ~Mutate /\ ~Stop
    <3>1. fs' = fs /\ \A x : At(x)' = At(x)
          BY <1>3, <2>6, Rested DEF At
    <3>2. CASE run.todo # <<>> /\ Head(run.todo) \in Calls /\ run'.mode = run.mode
               /\ run'.todo = Body(Head(run.todo).on) \o Tail(run.todo)
      <4> DEFINE b == Body(Head(run.todo).on)
      <4>1. b \in Seq(Steps)
            BY <1>0, <3>2, Bodies, FootSteps, Wider
      <4>2. ASSUME NEW x \in Goals
            PROVE  Tidies(At(x), b \o Tail(run.todo), Clears(x), Dirt(x))
        <5>1. Tidies(At(x), run.todo, Clears(x), Dirt(x))
              BY <3>2, <4>2, Called DEF Cleared
        <5>2. /\ Head(run.todo) \in Clears(x) \/ (At(x) = "none" /\ Head(run.todo) \notin Dirt(x))
              => Tidies(At(x), b, Clears(x), Dirt(x))
              BY <3>2, <4>2, BodiesTidy
        <5> HIDE DEF b
        <5> QED BY <1>0, <3>2, <4>1, <5>1, <5>2, TidiesEnter
      <4> QED BY <2>2, <2>3, <3>1, <3>2, <4>2 DEF Cleared
    <3>3. CASE run'.mode = "undo" /\ j.pend = "none"
          BY <2>1, <3>3 DEF Cleared, Goals
    <3>4. CASE run' = NoRun
          BY <3>4 DEF Cleared, NoRun
    <3>5. CASE run'.mode = "recover"
               /\ run'.todo = IF j.pend = "none" THEN <<>> ELSE <<Call(j.pend)>>
      <4>1. CASE j.pend = "none"
            BY <2>1, <4>1 DEF Cleared, Goals
      <4>2. CASE j.pend # "none"
            BY <1>0, <2>2, <3>5, <4>2 DEF Cleared
      <4> QED BY <4>1, <4>2
    <3>6. CASE run' = run
          BY <2>2, <2>3, <3>1, <3>6 DEF Cleared
    <3> QED BY <1>3, <2>6, <3>2, <3>3, <3>4, <3>5, <3>6, Rested
  <2> QED BY <2>4, <2>5, <2>6
<1> QED BY <1>1, <1>2, <1>3, Actions

-----------------------------------------------------------------------------
(* The directory that holds the runtime. *)

StageSteps == {Refusal, Publish("stageCleanup"), Unlink("stageCleanup")} \cup Puts("stage")
InstallSteps == {Refusal, Put("stage", "new"), Move("stage", "destination")}
RemovalSteps == {Refusal, Publish("rollback"), Unlink("rollback")} \cup Puts("destination")

LEMMA PlainSteps ==
    ASSUME TypeOK
    PROVE  /\ InParent(StageRuntime) \in Seq(StageSteps) /\ RemoveStage \in Seq(StageSteps)
           /\ InParent(Install) \in Seq(InstallSteps) /\ RemoveInstalled \in Seq(RemovalSteps)
<1> USE DEF TypeOK, InParent, Refuse
<1>1. InParent(StageRuntime) \in Seq(StageSteps) /\ RemoveStage \in Seq(StageSteps)
  <2> DEFINE S == StageSteps
  <2>1. /\ Refusal \in S /\ Publish("stageCleanup") \in S /\ Unlink("stageCleanup") \in S
        /\ \A c \in Contents : Put("stage", c) \in S
        BY DEF StageSteps, Puts
  <2> HIDE DEF S
  <2>2. CopyStage \in Seq(S)
        BY <2>1, Short DEF CopyStage, Contents
  <2>3. \A v \in BOOLEAN : CleanupOwned("stage", "stageCleanup", v, <<>>) \in Seq(S)
        BY <2>1, Short, CleanupParts DEF Roots, Marks
  <2>4. CleanupOwned("stage", "stageCleanup", TRUE, <<>>) \o CopyStage \in Seq(S)
        BY <2>2, <2>3, Joined
  <2>5. StageRuntime \in Seq(S)
        BY <2>1, <2>2, <2>4, Short DEF StageRuntime
  <2>6. InParent(StageRuntime) \in Seq(S)
        BY <2>1, <2>5, Short
  <2>7. CleanupOwned("stage", "stageCleanup", Is("stage", "marked"), <<>>) \in Seq(S)
    <3>1. Is("stage", "marked") \in BOOLEAN
          BY DEF Is
    <3> QED BY <2>3, <3>1
  <2>8. RemoveStage \in Seq(S)
        BY <2>1, <2>7, Short DEF RemoveStage
  <2> QED BY <2>6, <2>8 DEF S
<1>2. InParent(Install) \in Seq(InstallSteps)
      BY Short DEF Install, InstallSteps
<1>3. RemoveInstalled \in Seq(RemovalSteps)
  <2> DEFINE S == RemovalSteps
             t == RemoveTree("destination")
             u == <<Unlink("rollback")>>
             p == <<Publish("rollback")>>
  <2>1. /\ Refusal \in S /\ Publish("rollback") \in S /\ Unlink("rollback") \in S
        /\ \A c \in Contents : Put("destination", c) \in S
        BY DEF RemovalSteps, Puts
  <2> HIDE DEF S
  <2>2. t \in Seq(S)
        BY <2>1, Short DEF RemoveTree, Contents
  <2>3. u \in Seq(S) /\ p \in Seq(S) /\ <<Refusal>> \in Seq(S) /\ <<>> \in Seq(S)
        BY <2>1, Short
  <2>4. RemoveInstalled \in {<<>>, <<Refusal>>, t \o u, (p \o t) \o u}
        BY DEF RemoveInstalled, FileSystems, Marks
  <2> HIDE DEF t, u, p
  <2>5. t \o u \in Seq(S) /\ p \o t \in Seq(S)
        BY <2>2, <2>3, Joined
  <2>6. (p \o t) \o u \in Seq(S)
        BY <2>3, <2>5, Joined
  <2>7. RemoveInstalled \in Seq(S)
        BY <2>3, <2>4, <2>5, <2>6
  <2> QED BY <2>7 DEF S
<1> QED BY <1>1, <1>2, <1>3

LEMMA PlainApart ==
    /\ \A S \in {StageSteps, InstallSteps, RemovalSteps} : S \cap Calls = {} /\ S \cap Removes = {}
    /\ \A k \in Kinds \ {"runtime-rollback", "authored-target-rollback"} : Foot(k) \cap Removes = {}
<1> USE DEF Removes, RemovesIt, Put, Call
<1>1. \A o \in Puts("stage") \cup Puts("destination") : o \notin Calls /\ o \notin Removes
      BY DEF Puts, Calls
<1>2. \A o \in StageSteps \cup InstallSteps \cup RemovalSteps : o \notin Calls /\ o \notin Removes
      BY <1>1 DEF StageSteps, InstallSteps, RemovalSteps, Refusal, Publish, Unlink, Move, Calls
<1>3. ASSUME NEW k \in Kinds \ {"runtime-rollback", "authored-target-rollback"},
             NEW o \in Foot(k), o \in Removes
      PROVE  FALSE
  <2>1. o = Put("parent", "none") \/ o \in {Call("remove-parent"), Call("remove-created-parent")}
        BY <1>3
  <2>2. CASE k \in {"destination-parent-create", "destination-backup-create",
                    "destination-install", "source-retire", "authored-target-commit"}
        BY <1>3, <2>1, <2>2 DEF Foot, Refusal, Publish, Unlink, Move, Files
  <2>3. CASE k \in {"runtime-stage-create", "authored-prepare", "owned-slot-cleanup"}
        BY <1>3, <2>1, <2>3 DEF Foot, Refusal, Publish, Unlink, Move, Puts
  <2> QED BY <1>3, <2>2, <2>3 DEF Kinds
<1> QED BY <1>2, <1>3

LEMMA HousedBodies ==
    ASSUME TypeOK, Shape, Materialized, Housed, run.todo # <<>>, Head(run.todo) \in Calls,
           NEW b, b = Body(Head(run.todo).on)
    PROVE  /\ Without(b, Dirt("stage")) \/ Without(b, Calls)
           /\ Absent("parent") => Without(b, Dirt("stage"))
           /\ (b = <<RemovesIt>> /\ ParentEmpty) \/ Without(b, {RemovesIt})
           /\ project.parentPre => Without(b, Removes)
<1> DEFINE c == Head(run.todo).on
           k == j.pend
<1>1. /\ k \in Kinds /\ Head(run.todo) = Call(c)
      /\ c \in IF k = "runtime-rollback"
               THEN {"runtime-rollback", "remove-stage", "remove-parent",
                     "remove-created-parent", "remove-installed", "restore-backup",
                     "expect-no-destination", "settle-parent"}
               ELSE {k} \cup IF k = "authored-target-rollback" THEN {"remove-parent"} ELSE {}
      BY Called
<1>2. b \in Seq(Foot(k))
      BY Bodies
<1>3. project.parentPre => c \notin {"remove-parent", "remove-created-parent"}
  <2>1. run.todo \in Seq(Steps)
        BY DEF TypeOK, Runs
  <2>2. project.parentPre => Head(run.todo) \notin Removes
        BY <2>1, WithoutTail DEF Housed
  <2> QED BY <1>1, <2>2 DEF Removes
<1>4. /\ c = "runtime-rollback" => b = RollBackRuntime
      /\ c = "remove-stage" => b = RemoveStage
      /\ c = "remove-parent" => b = RemoveParent
      /\ c = "remove-created-parent" => b = RemoveCreatedParent
      /\ c = "remove-installed" => b = RemoveInstalled
      /\ c = "restore-backup" => b = RestoreBackup
      /\ c = "expect-no-destination" => b = ExpectNoDestination
      /\ c = "settle-parent" => b = SettleParent
      /\ c = "authored-target-rollback" => b = RollBackTarget
      /\ c = "runtime-stage-create" => b = InParent(StageRuntime)
      /\ c = "destination-install" => b = InParent(Install)
      BY DEF Body
<1> HIDE DEF c
<1>5. Without(b, Removes) => Without(b, {RemovesIt})
      BY DEF Without, Removes
<1>6. /\ Without(b, Dirt("stage")) \/ Without(b, Calls)
      /\ Absent("parent") => Without(b, Dirt("stage"))
  <2>1. CASE c \in {"runtime-stage-create", "destination-install"}
    <3>1. Without(b, Calls)
          BY <1>4, <2>1, PlainSteps, PlainApart, WithoutIn
    <3>2. Absent("parent") => b = <<Refusal>>
          BY <1>4, <2>1 DEF InParent, ParentOpen, Refuse, Absent, Is
    <3>3. Without(<<Refusal>>, Dirt("stage"))
          BY DirtIs, WithoutNothing
    <3> QED BY <3>1, <3>2, <3>3
  <2>2. CASE c = "remove-stage"
    <3>1. Without(b, Calls)
          BY <1>4, <2>2, PlainSteps, PlainApart, WithoutIn
    <3>2. Absent("stage") => Without(b, Dirt("stage"))
          BY <1>4, <2>2, RollbackDirt
    <3> QED BY <3>1, <3>2 DEF Housed
  <2>3. CASE k = "runtime-rollback" /\ c # "remove-stage"
    <3>1. Without(b, Dirt("stage"))
          BY <1>1, <1>4, <2>3, RollbackDirt
    <3> QED BY <3>1
  <2>4. CASE k \notin {"runtime-rollback", "runtime-stage-create", "destination-install"}
    <3>1. "stage" \notin Touches(k)
          BY <2>4 DEF Touches
    <3>2. Without(b, Dirt("stage"))
          BY <1>1, <1>2, <3>1, FootDirt, WithoutIn
    <3> QED BY <3>2
  <2> QED BY <1>1, <2>1, <2>2, <2>3, <2>4
<1>7. c # "remove-parent" => Without(b, Removes)
  <2> DEFINE D == Removes
  <2>1. /\ Refusal \notin D /\ \A m : Unlink(m) \notin D
        /\ \A p : p \notin {"remove-parent", "remove-created-parent"} => Call(p) \notin D
        /\ ~project.parentPre => \A p : Call(p) \notin D
        /\ Put("parentStage", "none") \notin D /\ Move("backup", "destination") \notin D
        /\ Files("erase") \notin D
        BY DEF Removes, RemovesIt, Put, Call, Refusal, Unlink, Move, Files
  <2>2. /\ Without(<<>>, D) /\ Without(<<Refusal>>, D)
        /\ \A m : Without(<<Unlink(m)>>, D)
        BY <2>1, WithoutNothing
  <2>3. \A m \in Marks : DropOwner(m) \in {<<>>, <<Refusal>>, <<Unlink(m)>>}
        BY DEF DropOwner, Refuse, TypeOK, FileSystems
  <2>4. \A m \in Marks : Without(DropOwner(m), D)
        BY <2>2, <2>3
  <2> HIDE DEF D
  <2>5. CASE k \notin {"runtime-rollback", "authored-target-rollback"}
        BY <1>1, <1>2, <2>5, PlainApart, WithoutIn DEF D
  <2>6. CASE c = "runtime-rollback"
    <3> DEFINE d == Call(IF project.destPre THEN "restore-backup" ELSE "expect-no-destination")
    <3>1. d \notin D
          BY <2>1
    <3> HIDE DEF d
    <3>2. /\ Call("remove-installed") \notin D /\ Call("settle-parent") \notin D
          /\ Call("remove-stage") \notin D
          /\ ~project.parentPre => Call("remove-created-parent") \notin D
          BY <2>1
    <3>3. \/ RollBackRuntime = <<Refusal>>
          \/ ~project.parentPre /\ RollBackRuntime = <<Call("remove-created-parent")>>
          \/ RollBackRuntime = <<Call("remove-installed"), d, Call("settle-parent")>>
          \/ RollBackRuntime = <<Call("remove-stage"), d>>
          \/ RollBackRuntime = <<d>>
          BY RollBackIs DEF d
    <3>4. Without(RollBackRuntime, D)
          BY <2>2, <3>1, <3>2, <3>3, WithoutNothing
    <3> QED BY <1>4, <2>6, <3>4 DEF D
  <2>7. CASE c \in {"remove-stage", "remove-installed"}
        BY <1>4, <2>7, PlainSteps, PlainApart, WithoutIn
  <2>8. CASE c = "remove-created-parent"
    <3>1. ~project.parentPre
          BY <1>3, <2>8
    <3>2. \A p : Call(p) \notin D
          BY <2>1, <3>1
    <3>3. RemoveCreatedParent \in {DropOwner("parentOwner"), <<Refusal>>,
                <<Call("remove-stage"), Call("remove-parent"), Unlink("parentOwner")>>,
                <<Put("parentStage", "none"), Unlink("parentOwner")>>}
          BY DEF RemoveCreatedParent, InParent, Refuse
    <3>4. Without(RemoveCreatedParent, D)
          BY <2>1, <2>2, <2>4, <3>2, <3>3, WithoutNothing DEF Marks
    <3> QED BY <1>4, <2>8, <3>4 DEF D
  <2>9. CASE c = "restore-backup"
    <3>1. RestoreBackup \in {<<Move("backup", "destination"), Unlink("backupOwner")>>, <<Refusal>>,
                             DropOwner("backupOwner")}
          BY DEF RestoreBackup, Refuse
    <3>2. Without(RestoreBackup, D)
          BY <2>1, <2>2, <2>4, <3>1, WithoutNothing DEF Marks
    <3> QED BY <1>4, <2>9, <3>2 DEF D
  <2>10. CASE c = "expect-no-destination"
    <3>1. ExpectNoDestination \in {<<>>, <<Refusal>>}
          BY DEF ExpectNoDestination, Refuse
    <3> QED BY <1>4, <2>2, <2>10, <3>1 DEF D
  <2>11. CASE c = "settle-parent"
    <3>1. \/ SettleParent \in {<<>>, <<Refusal>>, DropOwner("parentOwner")}
          \/ ~project.parentPre /\ SettleParent = <<Call("remove-parent"), Unlink("parentOwner")>>
          BY DEF SettleParent, Refuse
    <3>2. Without(SettleParent, D)
          BY <2>1, <2>2, <2>4, <3>1, WithoutNothing DEF Marks
    <3> QED BY <1>4, <2>11, <3>2 DEF D
  <2>12. CASE c = "authored-target-rollback"
    <3>1. \/ RollBackTarget \in {<<>>, <<Files("erase")>>}
          \/ ~project.parentPre /\ RollBackTarget = <<Call("remove-parent")>>
          BY DEF RollBackTarget, IsDirectory
    <3>2. Without(RollBackTarget, D)
          BY <2>1, <2>2, <3>1, WithoutNothing
    <3> QED BY <1>4, <2>12, <3>2 DEF D
  <2> QED BY <1>1, <2>5, <2>6, <2>7, <2>8, <2>9, <2>10, <2>11, <2>12
<1>8. c = "remove-parent" =>
         /\ ~project.parentPre
         /\ (b = <<RemovesIt>> /\ ParentEmpty) \/ b = <<Refusal>>
      BY <1>3, <1>4 DEF RemoveParent, RemovesIt, Refuse
<1>9. Without(<<Refusal>>, {RemovesIt})
      BY WithoutNothing DEF RemovesIt, Refusal, Put
<1> QED BY <1>5, <1>6, <1>7, <1>8, <1>9

LEMMA OrderJoined ==
    ASSUME NEW S, NEW b \in Seq(S), NEW t \in Seq(S), NEW C, NEW D,
           Without(b, C) \/ Without(b, D), Without(t, D)
    PROVE  \A i, k \in 1..Len(b \o t) : i < k /\ (b \o t)[i] \in C => (b \o t)[k] \notin D
<1> DEFINE n == b \o t
<1>1. /\ Len(b) \in Nat /\ Len(t) \in Nat /\ Len(n) = Len(b) + Len(t)
      /\ \A i \in 1..Len(b) : n[i] = b[i]
      /\ \A i \in 1..Len(t) : n[Len(b) + i] = t[i]
      BY Indexed
<1> HIDE DEF n
<1>2. ASSUME NEW i \in 1..Len(n), NEW k \in 1..Len(n), i < k, n[i] \in C
      PROVE  n[k] \notin D
  <2>1. CASE k \in 1..Len(b)
    <3>1. i \in 1..Len(b)
          BY <1>1, <1>2, <2>1
    <3>2. Without(b, D)
          BY <1>1, <1>2, <3>1 DEF Without
    <3> QED BY <1>1, <2>1, <3>2 DEF Without
  <2>2. CASE k \notin 1..Len(b)
    <3>1. k - Len(b) \in 1..Len(t) /\ k = Len(b) + (k - Len(b))
          BY <1>1, <2>2
    <3> QED BY <1>1, <3>1 DEF Without
  <2> QED BY <2>1, <2>2
<1> QED BY <1>2 DEF n

\* The steps of a process that moves on keep the order: what a call may put into the directory is
\* not left for after the call, and the directory goes when nothing is left to be put into it.
LEMMA HousedEnters ==
    ASSUME TypeOK, Shape, Materialized, Housed, run.todo # <<>>, Head(run.todo) \in Calls,
           NEW b, b = Body(Head(run.todo).on), NEW n, n = b \o Tail(run.todo)
    PROVE  /\ Absent("parent") => Without(n, Dirt("stage"))
           /\ n # <<>> => /\ Without(Tail(n), {RemovesIt})
                          /\ Head(n) = RemovesIt =>
                                ParentEmpty /\ Without(Tail(n), Dirt("stage"))
           /\ \A i, k \in 1..Len(n) : i < k /\ n[i] \in Calls => n[k] \notin Dirt("stage")
           /\ project.parentPre => Without(n, Removes)
<1> DEFINE t == Tail(run.todo)
<1>1. /\ run.todo \in Seq(Steps) /\ b \in Seq(Steps) /\ t \in Seq(Steps)
      /\ Len(run.todo) \in Nat \ {0} /\ Len(t) = Len(run.todo) - 1 /\ Head(run.todo) = run.todo[1]
      /\ \A i \in 1..Len(t) : t[i] = run.todo[i + 1]
  <2>1. run.todo \in Seq(Steps)
        BY DEF TypeOK, Runs
  <2>2. b \in Seq(Steps)
        BY Pending, Bodies, FootSteps, Wider
  <2> QED BY <2>1, <2>2, TailIndexed
<1>2. /\ Without(b, Dirt("stage")) \/ Without(b, Calls)
      /\ Absent("parent") => Without(b, Dirt("stage"))
      /\ (b = <<RemovesIt>> /\ ParentEmpty) \/ Without(b, {RemovesIt})
      /\ project.parentPre => Without(b, Removes)
      BY HousedBodies
<1>3. /\ Without(t, {RemovesIt})
      /\ Absent("parent") => Without(t, Dirt("stage"))
      /\ project.parentPre => Without(t, Removes)
      BY <1>1, WithoutTail DEF Housed
<1>4. Without(t, Dirt("stage"))
  <2>1. ASSUME NEW k \in 1..Len(t)
        PROVE  t[k] \notin Dirt("stage")
    <3>1. 1 \in 1..Len(run.todo) /\ k + 1 \in 1..Len(run.todo) /\ 1 < k + 1
          BY <1>1
    <3> QED BY <1>1, <3>1 DEF Housed
  <2> QED BY <2>1 DEF Without
<1>5. \A D : Without(b, D) /\ Without(t, D) => Without(b \o t, D)
      BY <1>1, WithoutJoined
<1>6. \A i, k \in 1..Len(b \o t) : i < k /\ (b \o t)[i] \in Calls => (b \o t)[k] \notin Dirt("stage")
      BY <1>1, <1>2, <1>4, OrderJoined
<1>7. b \o t # <<>> =>
         /\ Without(Tail(b \o t), {RemovesIt})
         /\ Head(b \o t) = RemovesIt => b = <<RemovesIt>> /\ Tail(b \o t) = t
  <2> DEFINE m == b \o t
  <2>1. m \in Seq(Steps)
        BY <1>1, Joined
  <2>2. CASE Without(b, {RemovesIt})
    <3>1. Without(m, {RemovesIt})
          BY <1>3, <1>5, <2>2
    <3> HIDE DEF m
    <3>2. m # <<>> => Without(Tail(m), {RemovesIt}) /\ Head(m) \notin {RemovesIt}
          BY <2>1, <3>1, WithoutTail
    <3> QED BY <3>2 DEF m
  <2>3. CASE b = <<RemovesIt>>
    <3>1. b # <<>> /\ Tail(b) = <<>>
          BY <2>3, ShortTails
    <3>2. Tail(m) = Tail(b) \o t
          BY <1>1, <3>1, JoinedHead
    <3>3. Tail(m) = t
          BY <1>1, <3>1, <3>2, ConcatEmptySeq
    <3> HIDE DEF m, t
    <3>4. Without(Tail(m), {RemovesIt})
          BY <1>3, <3>3
    <3> QED BY <2>3, <3>3, <3>4 DEF m
  <2> QED BY <1>2, <2>2, <2>3
<1>8. b = <<RemovesIt>> => ParentEmpty
  <2>1. ~Without(<<RemovesIt>>, {RemovesIt})
        BY DEF Without
  <2> QED BY <1>2, <2>1
<1>9. n = b \o t
      OBVIOUS
<1> HIDE DEF t
<1> QED BY <1>2, <1>3, <1>4, <1>5, <1>6, <1>7, <1>8, <1>9

\* What is left is at most one call of the pending intent.
HousedBriefly(s) == s = <<>> \/ \E k \in Kinds : s = <<Call(k)>>

LEMMA Briefly ==
    ASSUME Housed, HousedBriefly(run'.todo), project' = project,
           fs'.root["parent"] = fs.root["parent"], fs'.root["parentStage"] = fs.root["parentStage"],
           Absent("parent") => Absent("stage")'
    PROVE  Housed'
<1> DEFINE n == run'.todo
<1>1. (Len(n) = 0 \/ Len(n) = 1) /\ Without(n, Dirt("stage")) /\ Without(n, Removes')
  <2>1. CASE n = <<>>
        BY <2>1, WithoutNothing
  <2>2. ASSUME NEW k \in Kinds, n = <<Call(k)>>
        PROVE  Len(n) = 1 /\ Without(n, Dirt("stage")) /\ Without(n, Removes')
    <3>1. Call(k) \notin Dirt("stage")
          BY DirtIs
    <3>2. Call(k) \notin Removes'
          BY DEF Removes, RemovesIt, Call, Put, Kinds
    <3> QED BY <2>2, <3>1, <3>2, WithoutNothing
  <2> QED BY <2>1, <2>2 DEF HousedBriefly
<1>2. n # <<>> => Tail(n) = <<>> /\ Head(n) # RemovesIt
  <2>1. ASSUME NEW k \in Kinds, n = <<Call(k)>>
        PROVE  Tail(n) = <<>> /\ Head(n) # RemovesIt
    <3>1. Call(k) # RemovesIt
          BY DEF RemovesIt, Call, Put
    <3>2. Head(n) = Call(k) /\ Tail(n) = <<>>
      <4> HIDE DEF n
      <4> QED BY <2>1, ShortTails
    <3> QED BY <3>1, <3>2
  <2> QED BY <2>1 DEF HousedBriefly
<1>3. \A D : Without(<<>>, D)
      BY WithoutNothing
<1>4. \A i, k \in 1..Len(n) : ~(i < k)
  <2>1. CASE Len(n) = 0
        BY <2>1
  <2>2. CASE Len(n) = 1
        BY <2>2
  <2> QED BY <1>1, <2>1, <2>2
<1> HIDE DEF n
<1>5. /\ Absent("parent")' <=> Absent("parent")
      /\ Is("parent", "dir")' <=> Is("parent", "dir")
      BY DEF Absent, Is
<1> QED BY <1>1, <1>2, <1>3, <1>4, <1>5 DEF Housed, n

LEMMA HousedMutates ==
    ASSUME TypeOK, Shape, Materialized, Routed, Housed, Unseen, Mutate
    PROVE  Housed'
<1> DEFINE o == Head(run.todo)
           n == Tail(run.todo)
<1>1. /\ run.todo # <<>> /\ o \in Mutations /\ o \in Foot(j.pend) /\ fs' = Apply(o)
      /\ run'.todo = n /\ j.pend \in Kinds /\ project' = project
      BY Mutated
<1>2. /\ run.todo \in Seq(Steps) /\ n \in Seq(Steps)
      /\ Len(run.todo) \in Nat \ {0} /\ Len(n) = Len(run.todo) - 1 /\ o = run.todo[1]
      /\ \A i \in 1..Len(n) : n[i] = run.todo[i + 1]
      BY <1>1, TailIndexed DEF TypeOK, Runs
<1>3. o = RemovesIt => Absent("stage") /\ Without(n, Dirt("stage"))
      BY <1>1 DEF Housed, ParentEmpty
<1>4. /\ Without(n, {RemovesIt})
      /\ Absent("parent") => Without(n, Dirt("stage")) /\ o \notin Dirt("stage") /\ Absent("stage")
      /\ project.parentPre => Without(n, Removes) /\ o # RemovesIt
      BY <1>1, <1>2, WithoutTail DEF Housed, Removes
<1> HIDE DEF o, n
<1>5. \/ fs'.root["parent"] = fs.root["parent"] /\ fs'.root["parentStage"] = fs.root["parentStage"]
      \/ o = RemovesIt /\ fs' = [fs EXCEPT !.root["parent"] = "none"]
      \/ o = Put("parent", "dir") /\ fs' = [fs EXCEPT !.root["parent"] = "dir"]
      \/ \E c \in {"dir", "none"} : o = Put("parentStage", c) /\ fs' = [fs EXCEPT !.root["parentStage"] = c]
      \/ /\ o = Move("parentStage", "parent") /\ j.pend = "destination-parent-create"
         /\ fs' = [fs EXCEPT !.root["parent"] = fs.root["parentStage"], !.root["parentStage"] = "none"]
  <2>1. \/ o = RemovesIt \/ o = Put("parent", "dir") \/ o = Put("parentStage", "dir")
        \/ o = Put("parentStage", "none")
        \/ o = Move("parentStage", "parent") /\ j.pend = "destination-parent-create"
        \/ Spares(o, "parent") /\ Spares(o, "parentStage")
    <3> DEFINE k == j.pend
    <3> USE DEF Spares, Put, Move, Publish, Unlink, Files, Call, Refusal, RemovesIt
    <3>1. CASE k \in {"destination-parent-create", "destination-backup-create", "destination-install",
                      "source-retire", "authored-target-commit", "authored-target-rollback"}
          BY <1>1, <3>1 DEF Foot
    <3>2. CASE k \in {"runtime-stage-create", "authored-prepare", "owned-slot-cleanup"}
          BY <1>1, <3>2 DEF Foot, Puts
    <3>3. CASE k = "runtime-rollback"
          BY <1>1, <3>3 DEF Foot, Puts
    <3> QED BY <1>1, <3>1, <3>2, <3>3 DEF Kinds
  <2>2. CASE Spares(o, "parent") /\ Spares(o, "parentStage")
        BY <1>1, <2>2, Spared DEF Roots
  <2>3. CASE \E r, c : o = Put(r, c)
        BY <1>1, <2>1, <2>2, <2>3 DEF Apply, Put, RemovesIt, Move
  <2>4. CASE o = Move("parentStage", "parent") /\ j.pend = "destination-parent-create"
        BY <1>1, <2>4 DEF Apply, Move
  <2> QED BY <2>1, <2>2, <2>3, <2>4 DEF RemovesIt
<1>6. fs.root \in [Roots -> Contents] /\ fs.root["parent"] \in {"none", "dir"}
      /\ fs.root["parentStage"] \in {"none", "dir"}
      BY DEF TypeOK, FileSystems, Housed
<1>7. j.pend = "destination-parent-create" =>
         ~project.parentPre /\ Absent("stage") /\ o \notin Dirt("stage") /\ Without(n, Dirt("stage"))
  <2>1. j.pend = "destination-parent-create" => ~Open("stage")
    <3>1. j.pend = "destination-parent-create" => j.phase = "authored-prepared"
          BY DEF Shape, PhasesOf
    <3> QED BY <3>1 DEF Open, Materialized
  <2>2. "stage" \in Places /\ At("stage") = fs.root["stage"]
        BY DEF Places, Roots, At
  <2>3. j.pend = "destination-parent-create" =>
           fs.root["stage"] = "none" /\ Without(run.todo, Dirt("stage"))
        BY <2>1, <2>2 DEF Unseen
  <2> QED BY <1>1, <1>2, <2>3, WithoutTail DEF Routed, Absent, Is, o, n
<1>8. /\ fs'.root["parent"] \in {"none", "dir"} /\ fs'.root["parentStage"] \in {"none", "dir"}
      /\ fs'.root["parent"] = "none" =>
            \/ fs.root["parent"] = "none" \/ o = RemovesIt
            \/ j.pend = "destination-parent-create"
      /\ project.parentPre => fs'.root["parent"] = "dir"
  <2>1. fs.root["parent"] \in {"none", "dir"} /\ fs.root["parentStage"] \in {"none", "dir"}
        /\ (project.parentPre => fs.root["parent"] = "dir")
        BY DEF Housed, Is
  <2>2. fs \in [root : [Roots -> Contents], mark : [Marks -> {"none", "torn", "exact"}], files : Nat]
        BY DEF TypeOK, FileSystems
  <2>3. {"parent", "parentStage"} \subseteq Roots
        BY DEF Roots
  <2>4. CASE fs'.root["parent"] = fs.root["parent"] /\ fs'.root["parentStage"] = fs.root["parentStage"]
        BY <2>1, <2>4
  <2>5. CASE o = RemovesIt /\ fs' = [fs EXCEPT !.root["parent"] = "none"]
        BY <1>4, <2>1, <2>2, <2>3, <2>5
  <2>6. CASE fs' = [fs EXCEPT !.root["parent"] = "dir"]
        BY <2>1, <2>2, <2>3, <2>6
  <2>7. ASSUME NEW c \in {"dir", "none"}, fs' = [fs EXCEPT !.root["parentStage"] = c]
        PROVE  fs'.root["parent"] = fs.root["parent"] /\ fs'.root["parentStage"] \in {"none", "dir"}
        BY <2>2, <2>3, <2>7
  <2>8. CASE /\ j.pend = "destination-parent-create"
             /\ fs' = [fs EXCEPT !.root["parent"] = fs.root["parentStage"], !.root["parentStage"] = "none"]
        BY <1>7, <2>1, <2>2, <2>3, <2>8
  <2> QED BY <1>5, <2>1, <2>4, <2>5, <2>6, <2>7, <2>8
<1>9. \/ Absent("parent") \/ o = RemovesIt \/ j.pend = "destination-parent-create"
      => Absent("stage")' /\ Without(n, Dirt("stage"))
  <2>1. "stage" \in Places /\ At("stage") = fs.root["stage"] /\ At("stage")' = fs'.root["stage"]
        BY DEF Places, Roots, At
  <2>2. RemovesIt \notin Dirt("stage")
        BY DirtIs DEF RemovesIt
  <2>3. Absent("stage") /\ o \notin Dirt("stage") => Absent("stage")'
        BY <1>1, <2>1, AppliedAt DEF Absent, Is
  <2> QED BY <1>3, <1>4, <1>7, <2>2, <2>3
<1>10. n # <<>> => /\ Without(Tail(n), {RemovesIt}) /\ Head(n) # RemovesIt
  <2>1. n # <<>> => Without(Tail(n), {RemovesIt}) /\ Head(n) \notin {RemovesIt}
        BY <1>2, <1>4, WithoutTail
  <2> QED BY <2>1
<1>11. \A i, k \in 1..Len(n) : i < k /\ n[i] \in Calls => n[k] \notin Dirt("stage")
  <2>1. ASSUME NEW i \in 1..Len(n), NEW k \in 1..Len(n), i < k, n[i] \in Calls
        PROVE  n[k] \notin Dirt("stage")
    <3>1. i + 1 \in 1..Len(run.todo) /\ k + 1 \in 1..Len(run.todo) /\ i + 1 < k + 1
          BY <1>2, <2>1
    <3> QED BY <1>2, <2>1, <3>1 DEF Housed
  <2> QED BY <2>1
<1>12. Removes' = Removes
       BY <1>1 DEF Removes, RemovesIt
<1> QED BY <1>1, <1>4, <1>8, <1>9, <1>10, <1>11, <1>12 DEF Housed, Absent, Is

LEMMA HousedStep ==
    ASSUME TypeOK, Shape, Materialized, Routed, Housed, Unseen, [Next]_vars
    PROVE  Housed'
<1>1. CASE Sealing
  <2>1. UNCHANGED <<project, fs, run>>
        BY <1>1, Sealed
  <2> QED BY <2>1 DEF Housed, Absent, Is, ParentEmpty, Removes
<1>2. CASE UnlinkJournal
      BY <1>2, Briefly DEF UnlinkJournal, NoRun, HousedBriefly, Housed, Absent, Is
<1>3. CASE RecordPostcondition
  <2>1. UNCHANGED <<project, fs>> /\ run'.todo = <<>>
        BY <1>3 DEF RecordPostcondition, TypeOK, Runs
  <2> QED BY <2>1, Briefly DEF HousedBriefly, Housed, Absent, Is
<1>4. ASSUME NEW kind \in Kinds, RecordIntent(kind)
      PROVE  Housed'
  <2>1. UNCHANGED <<project, fs>> /\ run'.todo = <<Call(kind)>>
        BY <1>4, IntentDoes DEF TypeOK, Runs
  <2> QED BY <2>1, Briefly DEF HousedBriefly, Housed, Absent, Is
<1>5. CASE Mutate
      BY <1>5, HousedMutates
<1>6. CASE Stop
  <2>1. /\ run' = NoRun /\ project' = project
        /\ fs'.root["parent"] = fs.root["parent"]
        /\ fs'.root["parentStage"] = fs.root["parentStage"]
        BY <1>6, Stopped DEF Roots
  <2>2. Absent("parent") => Absent("stage")'
    <3>1. "stage" \in Places /\ At("stage") = fs.root["stage"] /\ At("stage")' = fs'.root["stage"]
          BY DEF Places, Roots, At
    <3>2. Absent("parent") => fs.root["stage"] = "none" /\ Without(run.todo, Dirt("stage"))
          BY DEF Housed, Absent, Is
    <3> QED BY <1>6, <3>1, <3>2, StoppedAt DEF Absent, Is
  <2> QED BY <2>1, <2>2, Briefly DEF HousedBriefly, NoRun
<1>7. CASE Working /\ ~Mutate /\ ~Stop
  <2>1. project' = project /\ fs' = fs
        BY <1>7, Rested
  <2>2. ASSUME run.todo # <<>>, Head(run.todo) \in Calls,
               run'.todo = Body(Head(run.todo).on) \o Tail(run.todo)
        PROVE  Housed'
    <3> DEFINE n == Body(Head(run.todo).on) \o Tail(run.todo)
    <3>1. /\ Absent("parent") => Without(n, Dirt("stage"))
          /\ n # <<>> => /\ Without(Tail(n), {RemovesIt})
                         /\ Head(n) = RemovesIt =>
                               ParentEmpty /\ Without(Tail(n), Dirt("stage"))
          /\ \A i, k \in 1..Len(n) : i < k /\ n[i] \in Calls => n[k] \notin Dirt("stage")
          /\ project.parentPre => Without(n, Removes)
          BY <2>2, HousedEnters
    <3>2. run'.todo = n
          BY <2>2
    <3> HIDE DEF n
    <3>3. Removes' = Removes /\ (ParentEmpty' <=> ParentEmpty)
          BY <2>1 DEF Removes, ParentEmpty, Absent, Is
    <3> QED BY <2>1, <3>1, <3>2, <3>3 DEF Housed, Absent, Is
  <2>3. ASSUME HousedBriefly(run'.todo)
        PROVE  Housed'
        BY <2>1, <2>3, Briefly DEF Housed, Absent, Is
  <2>4. CASE run'.todo = run.todo
        BY <2>1, <2>4 DEF Housed, Absent, Is, ParentEmpty, Removes
  <2>5. \/ run.todo # <<>> /\ Head(run.todo) \in Calls
           /\ run'.todo = Body(Head(run.todo).on) \o Tail(run.todo)
        \/ run'.todo = run.todo \/ run' = NoRun \/ run' = run
        \/ run'.todo = IF j.pend = "none" THEN <<>> ELSE <<Call(j.pend)>>
        BY <1>7, Rested
  <2>6. /\ NoRun.todo = <<>> /\ HousedBriefly(<<>>)
        /\ j.pend # "none" => HousedBriefly(<<Call(j.pend)>>)
        BY DEF HousedBriefly, NoRun, TypeOK, Journals
  <2> QED BY <2>2, <2>3, <2>4, <2>5, <2>6
<1>8. Working => Mutate \/ Stop \/ (Working /\ ~Mutate /\ ~Stop)
      OBVIOUS
<1> QED BY <1>1, <1>2, <1>3, <1>4, <1>5, <1>6, <1>7, <1>8, Actions

-----------------------------------------------------------------------------
(* The inductive invariant, and the outcome. *)

LEMMA TidyInit ==
    ASSUME Init
    PROVE  Tidy
<1>1. /\ j.phase = "prepared" /\ j.pend = "none" /\ j.term = "none" /\ j.install = "not-installed"
      /\ j.slot = [s \in Slots |-> "unmaterialized"] /\ run.todo = <<>>
      BY DEF Init
<1>2. \A D : Without(run.todo, D)
      BY <1>1, WithoutNothing
<1>3. /\ \A r \in Roots \ {"parent", "destination", "source"} : fs.root[r] = "none"
      /\ fs.root["parent"] = IF project.parentPre THEN "dir" ELSE "none"
      /\ ~project.destPre => fs.root["destination"] = "none"
      /\ ~HasSource => fs.root["source"] = "none"
      /\ \A m \in Marks : fs.mark[m] = "none"
      BY DEF Init, Roots
<1>4. Routed
      BY <1>1 DEF Routed, Closed, CleanupPhases, Slots
<1>5. Housed
  <2>1. "parentStage" \in Roots \ {"parent", "destination", "source"}
        /\ "stage" \in Roots \ {"parent", "destination", "source"}
        BY DEF Roots
  <2>2. \A i, k \in 1..Len(run.todo) : i < k /\ run.todo[i] \in Calls => run.todo[k] \notin Dirt("stage")
        BY <1>2 DEF Without
  <2> QED BY <1>1, <1>2, <1>3, <2>1, <2>2 DEF Housed, Absent, Is
<1>6. ASSUME NEW x \in Places, ~Open(x)
      PROVE  At(x) = "none"
  <2>1. CASE x \in Marks
        BY <1>3, <2>1 DEF At, Marks, Roots
  <2>2. CASE x \in Roots \ {"parent", "destination", "source"}
        BY <1>3, <2>2 DEF At
  <2>3. CASE x = "parent"
        BY <1>3, <1>6, <2>3 DEF At, Roots, Open
  <2>4. CASE x = "destination"
        BY <1>3, <1>6, <2>4 DEF At, Roots, Open
  <2>5. CASE x = "source"
        BY <1>1, <1>3, <1>6, <2>5 DEF At, Roots, Open, Closed, CleanupPhases
  <2> QED BY <2>1, <2>2, <2>3, <2>4, <2>5 DEF Places
<1>7. Unseen
      BY <1>2, <1>6 DEF Unseen
<1>8. Goals = {}
      BY <1>1 DEF Goals
<1> QED BY <1>4, <1>5, <1>7, <1>8 DEF Tidy, Cleared

LEMMA TidyStep ==
    ASSUME IInv, Tidy, [Next]_vars
    PROVE  Tidy'
<1>1. Routed' /\ Housed'
      BY RoutedStep, HousedStep DEF IInv, Tidy
<1> QED BY <1>1, UnseenStep, ClearedStep DEF Tidy

LEMMA TidyAlways == Spec => [](IInv /\ Tidy)
<1>1. Init => Tidy
      BY TidyInit
<1>2. IInv /\ Tidy /\ [Next]_vars => Tidy'
      BY TidyStep
<1> QED BY <1>1, <1>2, Invariant, PTL DEF Spec

\* What is known of a closed journal.
LEMMA ClosedKnows ==
    ASSUME IInv, Tidy, j.phase \in Closed
    PROVE  /\ j.pend \in {"none", "owned-slot-cleanup"}
           /\ j.phase = "unlinked" => j.pend = "none" /\ \A s \in Slots : j.slot[s] # "pending"
           /\ j.term \in {"committed", "rolled-back"}
           /\ \A x \in Places : ~Open(x) => At(x) = "none"
<1>1. j.pend \in Kinds \cup {"none"} /\ j.term \in {"none", "committed", "rolled-back"}
      BY DEF IInv, TypeOK, Journals
<1>2. j.pend # "none" => j.phase \in PhasesOf(j.pend)
      BY DEF IInv, Shape
<1>3. \A k \in Kinds : j.phase \in PhasesOf(k) => k = "owned-slot-cleanup" /\ j.phase # "unlinked"
      BY DEF PhasesOf, Kinds, Closed, CleanupPhases
<1>4. j.phase = "unlinked" => PendingSlots = {}
      BY DEF Tidy, Routed
<1>5. j.term # "none"
      BY DEF IInv, Terminal
<1> QED BY <1>1, <1>2, <1>3, <1>4, <1>5 DEF PendingSlots, Tidy, Unseen

LEMMA CommittedIs ==
    ASSUME IInv, Tidy, j.phase \in Closed, j.term = "committed"
    PROVE  CommittedExactly
<1>1. fs.files = FilesOf(project.targets)
      BY DEF Tidy, Routed
<1>2. project \in Selections /\ BackedUp /\ Retired
      BY ProjectsAssumption DEF IInv, TypeOK
<1>3. project.route = "authored-only" \/ Successor
  <2>1. CASE HasSource
        BY <1>2, <2>1 DEF Retired, Retiring
  <2>2. CASE ~HasSource
    <3>1. project.route \in {"authored-only", "project-authority"} /\ ~Promotes
          BY <1>2, <2>2 DEF Selections, Routes, HasSource, Promotes
    <3>2. project.route = "project-authority" => project.destPre
          BY <1>2 DEF Selections
    <3> QED BY <1>2, <3>1, <3>2 DEF BackedUp, Successor
  <2> QED BY <2>1, <2>2
<1>4. ~Is("source", "cache")
  <2>1. "source" \in Places /\ "source" \in Roots
        BY DEF Places, Roots
  <2>2. ~Open("source")
        BY DEF Open
  <2> QED BY <2>1, <2>2, ClosedKnows DEF At, Is
<1> QED BY <1>1, <1>3, <1>4 DEF CommittedExactly

LEMMA RolledBackIs ==
    ASSUME IInv, Tidy, j.phase \in Closed, j.term = "rolled-back"
    PROVE  RolledBackExactly
<1>1. fs.files = 0
      BY DEF IInv, Written
<1>2. "parent" \in Places /\ "parent" \in Roots /\ "destination" \in Places /\ "destination" \in Roots
      BY DEF Places, Roots
<1>3. Is("parent", IF project.parentPre THEN "dir" ELSE "none")
  <2>1. CASE project.parentPre
        BY <2>1 DEF Tidy, Housed
  <2>2. CASE ~project.parentPre
        BY <1>2, <2>2, ClosedKnows DEF Open, At, Is
  <2> QED BY <2>1, <2>2
<1>4. Is("destination", IF project.destPre THEN "old" ELSE "none")
  <2>1. CASE project.destPre
        BY <2>1 DEF IInv, BackedUp
  <2>2. CASE ~project.destPre
    <3>1. j.install # "installed"
          BY DEF Tidy, Routed
    <3>2. ~Open("destination")
          BY <2>2, <3>1, ClosedKnows DEF Open
    <3> QED BY <1>2, <2>2, <3>2, ClosedKnows DEF At, Is
  <2> QED BY <2>1, <2>2
<1>5. HasSource => Is("source", "cache")
  <2>1. ~Retiring
        BY ClosedKnows DEF Retiring, Closed, CleanupPhases
  <2> QED BY <2>1 DEF IInv, Retired
<1> QED BY <1>1, <1>3, <1>4, <1>5 DEF RolledBackExactly

LEMMA NothingLeft ==
    ASSUME IInv, Tidy, j.phase = "unlinked"
    PROVE  NoResidue
<1>1. /\ j.pend = "none" /\ \A s \in Slots : j.slot[s] # "pending"
      /\ \A x \in Places : ~Open(x) => At(x) = "none"
      BY ClosedKnows DEF Closed
<1>2. ASSUME NEW r \in {"parentStage", "stage", "backup", "tombstone", "artifacts"}
      PROVE  Absent(r)
  <2>1. ~Open(r) /\ r \in Roots
        BY <1>1 DEF Open, Slots, Roots
  <2> QED BY <1>1, <2>1 DEF Places, At, Absent, Is
<1>3. ASSUME NEW m \in Marks \ {"stageCleanup"}
      PROVE  fs.mark[m] = "none"
  <2>1. ~Open(m) /\ m \notin Roots
        BY <1>1 DEF Open, Slots, Roots, Marks
  <2> QED BY <1>1, <2>1 DEF Places, At
<1> QED BY <1>2, <1>3 DEF NoResidue

\* A promotion that has closed its journal is done or undone as a whole, whichever processes have
\* worked on it, wherever each of them was stopped and whatever init had found: after a commit
\* every authored file is written, the project has the runtime its route promises and the cache
\* has none; after a rollback no file is, the project has the directory and the runtime it had,
\* and the cache its own.  The cleanup keeps it so, and a journal that is gone has left no stage,
\* backup, tombstone, artifact or marker behind but, it may be, the cleanup marker of a stage.
THEOREM OutcomeIsExact == Spec => []OutcomeExact
<1>1. ASSUME IInv, Tidy
      PROVE  OutcomeExact
      BY <1>1, ClosedKnows, CommittedIs, RolledBackIs, NothingLeft DEF OutcomeExact, Closed
<1>2. IInv /\ Tidy => OutcomeExact
      BY <1>1
<1> QED BY <1>2, TidyAlways, PTL
=============================================================================
