---------------------------- MODULE UserRemoval ----------------------------
(***************************************************************************)
(* The user-level uninstall of packages/cli/src/commands/uninstall: the    *)
(* user root is marked, renamed to a tombstone and deleted, and a receipt  *)
(* outside of it is rewritten before each of these steps, so that another  *)
(* run can finish what a crash interrupted.                                *)
(*                                                                         *)
(* A run inspects the receipt without a lock, asks the user, acquires the  *)
(* global maintenance lease and then drives the transaction; tx holds the  *)
(* variables of the run that holds the lease.  A write of the receipt is a *)
(* critical section of the coordination mutex (runtime-lease.ts): a        *)
(* temporary beside the receipt, then a link or a rename.  Every section   *)
(* removes the temporary a crash has left; the inspection without a lock   *)
(* cannot, and calls the receipt malformed.  Everything else is one action *)
(* per call to the file system.                                            *)
(*                                                                         *)
(* Other programs may create a missing user root at any time.  They do not *)
(* touch tombstones, markers or the receipt, and no record is damaged, so  *)
(* the discard of a malformed receipt always ends with a refusal.          *)
(***************************************************************************)
EXTENDS Naturals, FiniteSets

CONSTANTS
    Processes, Nobody,
    Ops, NoOp,        \* operation identifiers; each has a tombstone name of its own
    Bodies, NoBody,   \* contents of marker files; a digest is the content it identifies
    Torn,             \* what a marker's temporary holds before it is written
    Files,            \* the entries of a user root
    Persistent,       \* processes whose user runs the command again until it is done
    Gated,            \* processes that start runs as the command does: with the startup lease
    MaxTransitions,   \* MAX_RECEIPT_TRANSITIONS
    MaxReceipts,      \* MAX_REMOVAL_RECEIPTS
    MaxFaults,        \* bound: crashes and failing calls
    MaxRecreated      \* bound: times a missing user root is created again

ASSUME NamesAssumption == /\ Nobody \notin Processes /\ Persistent \subseteq Processes /\ Gated \subseteq Processes
                          /\ NoOp \notin Ops
                          /\ NoBody \notin Bodies /\ Torn \notin Bodies \cup {NoBody}
ASSUME BoundsAssumption == /\ MaxTransitions \in Nat /\ MaxTransitions >= 7
                           /\ MaxReceipts \in Nat \ {0}
                           /\ MaxFaults \in Nat /\ MaxRecreated \in Nat

Directories == [there : BOOLEAN, files : SUBSET Files, marker : Bodies \cup {NoBody},
                drafts : SUBSET (Ops \X (Bodies \cup {Torn}))]
Missing == [there |-> FALSE, files |-> {}, marker |-> NoBody, drafts |-> {}]
Fresh == [Missing EXCEPT !.there = TRUE, !.files = Files]

\* A closed receipt has phase "deleted" and state "closed": "closed" stands for the pair.
Phases == {"marker-create-intent", "marker-created", "rename-intent", "renamed",
           "delete-intent", "deleted", "closed"}
Receipts == [phase : Phases, op : Ops, digest : Bodies]
NoReceipt == [phase |-> "none", op |-> NoOp, digest |-> NoBody]

\* The unlocked view of the receipt, and the variables of a transaction: the receipt it has
\* read or written last, the one it writes next, the content of a marker it may still have to
\* publish, and how many transitions and receipts it has behind it.
Headers == [status : {"absent", "valid", "malformed"}, op : Ops \cup {NoOp}]
NoHeader == [status |-> "absent", op |-> NoOp]
Transactions == [cur : Receipts \cup {NoReceipt}, next : Receipts \cup {NoReceipt},
                 pending : Bodies \cup {NoBody}, steps : Nat, retired : Nat]
NoTx == [cur |-> NoReceipt, next |-> NoReceipt, pending |-> NoBody, steps |-> 0, retired |-> 0]

Outside == {"idle", "startup", "inspect", "collect", "acquire"}
Writing == {"publish", "settle"}
Inside == Writing \cup {"begin", "loop", "stage", "draft", "fill", "link", "undraft", "verify",
                        "clear", "rmdir", "retire", "again"}
Outcomes == {"none", "empty", "cancelled", "malformed", "refused", "recovery-required",
             "timeout", "unsafe", "recreated", "failed", "crashed", "removed"}

VARIABLES
    root,       \* the user root
    tombs,      \* the tombstone of each operation
    receipt,    \* the user-uninstall receipt
    tmp,        \* a temporary of the receipt is beside it
    lease,      \* who holds the global maintenance lease
    pc,         \* where each run is
    discard,    \* the run was started with --discard-recovery
    header,     \* what each run has seen of the receipt
    tx,         \* the transaction of the holder
    outcome,    \* how the last run of each process ended
    faults, recreated

disk == <<root, tombs, receipt, tmp>>
vars == <<disk, lease, pc, discard, header, tx, outcome, faults, recreated>>

TypeOK ==
    /\ root \in Directories /\ tombs \in [Ops -> Directories]
    /\ receipt \in Receipts \cup {NoReceipt} /\ tmp \in BOOLEAN
    /\ lease \in Processes \cup {Nobody}
    /\ pc \in [Processes -> Outside \cup Inside]
    /\ discard \in [Processes -> BOOLEAN]
    /\ header \in [Processes -> Headers]
    /\ tx \in Transactions
    /\ outcome \in [Processes -> Outcomes]
    /\ faults \in Nat /\ recreated \in Nat

Init ==
    /\ root = Fresh /\ tombs = [o \in Ops |-> Missing]
    /\ receipt = NoReceipt /\ tmp = FALSE
    /\ lease = Nobody
    /\ pc = [p \in Processes |-> "idle"]
    /\ discard = [p \in Processes |-> FALSE]
    /\ header = [p \in Processes |-> NoHeader]
    /\ tx = NoTx
    /\ outcome = [p \in Processes |-> "none"]
    /\ faults = 0 /\ recreated = 0

-----------------------------------------------------------------------------
\* What is in use, and a random value nobody has used.  NoReceipt, NoHeader and NoBody are no
\* identifiers, so the sets may contain their placeholders.
UsedOps == {receipt.op, tx.cur.op, tx.next.op} \cup {header[p].op : p \in Processes}
           \cup {o \in Ops : tombs[o].there} \cup {d[1] : d \in root.drafts}
UsedBodies == {receipt.digest, tx.cur.digest, tx.next.digest, tx.pending, root.marker}
              \cup {d[2] : d \in root.drafts}
NewOp == CHOOSE o \in Ops : o \notin UsedOps
NewBody == CHOOSE b \in Bodies : b \notin UsedBodies

\* The coordination mutex is free: no section is half way.
MutexFree == \A p \in Processes : pc[p] \notin Writing

Goto(p, there) == pc' = [pc EXCEPT ![p] = there]

\* The run of p ends.
End(p, how) ==
    /\ Goto(p, "idle")
    /\ outcome' = [outcome EXCEPT ![p] = how]
    /\ header' = [header EXCEPT ![p] = NoHeader]
    /\ discard' = [discard EXCEPT ![p] = FALSE]
    /\ UNCHANGED <<faults, recreated>>

\* ... and gives the lease back if p has it.
EndHolder(p, how) == End(p, how) /\ lease' = Nobody /\ tx' = NoTx

\* A step inside of the run, beside the disk and the transaction.
Continue(p, there) ==
    /\ Goto(p, there)
    /\ UNCHANGED <<lease, discard, header, outcome, faults, recreated>>

RecoveryOpen == receipt.phase \notin {"none", "closed"}

-----------------------------------------------------------------------------
\* A user runs the command.
Start(p, discarding) ==
    /\ pc[p] = "idle"
    /\ pc' = [pc EXCEPT ![p] = IF p \in Gated THEN "startup" ELSE "inspect"]
    /\ discard' = [discard EXCEPT ![p] = discarding]
    /\ outcome' = [outcome EXCEPT ![p] = "none"]
    /\ UNCHANGED <<disk, lease, header, tx, faults, recreated>>

\* The command reads user state while it starts, under a shared lease it gives back before the
\* uninstall begins; an open receipt refuses that lease.
StartupRefused(p) ==
    /\ pc[p] = "startup" /\ MutexFree /\ RecoveryOpen
    /\ End(p, "recovery-required")
    /\ tmp' = FALSE
    /\ UNCHANGED <<root, tombs, receipt, lease, tx>>
StartupAdmitted(p) ==
    /\ pc[p] = "startup" /\ MutexFree /\ ~RecoveryOpen /\ lease = Nobody
    /\ tmp' = FALSE
    /\ Continue(p, "inspect")
    /\ UNCHANGED <<root, tombs, receipt, tx>>

\* The receipt without a lock: a temporary beside it makes it malformed.
Seen == [status |-> IF tmp THEN "malformed" ELSE IF receipt = NoReceipt THEN "absent"
                    ELSE "valid",
         op |-> IF tmp THEN NoOp ELSE receipt.op]

Inspect(p) ==
    /\ pc[p] = "inspect"
    /\ IF discard[p] THEN Seen.status = "malformed" ELSE Seen.status # "malformed"
    /\ header' = [header EXCEPT ![p] = Seen]
    /\ Goto(p, IF discard[p] THEN "acquire" ELSE "collect")
    /\ UNCHANGED <<disk, lease, discard, tx, outcome, faults, recreated>>
InspectEnds(p) ==
    /\ pc[p] = "inspect"
    /\ IF discard[p] THEN Seen.status # "malformed" ELSE Seen.status = "malformed"
    /\ End(p, CASE Seen.status = "malformed" -> "malformed"
                [] Seen.status = "valid" -> "refused"
                [] OTHER -> "empty")
    /\ UNCHANGED <<disk, lease, tx>>

\* What there is to remove is listed, and the user confirms.
Collect(p) ==
    /\ pc[p] = "collect"
    /\ root.there \/ header[p].status = "valid"
    /\ Continue(p, "acquire")
    /\ UNCHANGED <<disk, tx>>
CollectEnds(p) ==
    /\ pc[p] = "collect"
    /\ End(p, IF root.there \/ header[p].status = "valid" THEN "cancelled" ELSE "empty")
    /\ UNCHANGED <<disk, lease, tx>>

\* The posture of the lease against the receipt, under the mutex and without a temporary:
\* normal, user-recovery of the operation seen, or receipt-only-discard.
PostureHolds_OpenOnly(p) ==
    /\ ~discard[p]
    /\ IF header[p].status = "absent" THEN receipt = NoReceipt
       ELSE RecoveryOpen /\ receipt.op = header[p].op
PostureHolds(p) ==
    /\ ~discard[p]
    /\ IF header[p].status = "absent" THEN receipt = NoReceipt
       ELSE receipt # NoReceipt /\ receipt.op = header[p].op

Acquire(p) ==
    /\ pc[p] = "acquire" /\ MutexFree /\ PostureHolds(p) /\ lease = Nobody
    /\ lease' = p
    /\ tmp' = FALSE
    /\ Goto(p, "begin")
    /\ UNCHANGED <<root, tombs, receipt, discard, header, tx, outcome, faults, recreated>>
AcquireRefused(p) ==
    /\ pc[p] = "acquire" /\ MutexFree /\ ~PostureHolds(p)
    /\ End(p, "recovery-required")
    /\ tmp' = FALSE
    /\ UNCHANGED <<root, tombs, receipt, lease, tx>>
AcquireTimesOut(p) ==
    /\ pc[p] = "acquire" /\ lease # Nobody
    /\ End(p, "timeout")
    /\ UNCHANGED <<disk, lease, tx>>

-----------------------------------------------------------------------------
\* A new receipt, with the digest of the marker that will be published.
NewReceipt == /\ \E o \in Ops : o \notin UsedOps
              /\ \E b \in Bodies : b \notin UsedBodies
              /\ tx' = [NoTx EXCEPT
                          !.next = [phase |-> "marker-create-intent", op |-> NewOp,
                                    digest |-> NewBody],
                          !.pending = NewBody, !.retired = tx.retired]

\* The transaction begins: with the receipt that was admitted, or with a new one.
BeginEmpty(p) ==
    /\ pc[p] = "begin" /\ ~root.there /\ header[p].status = "absent"
    /\ EndHolder(p, "empty")
    /\ UNCHANGED disk
BeginNew(p) ==
    /\ pc[p] = "begin" /\ root.there /\ header[p].status = "absent"
    /\ NewReceipt
    /\ Continue(p, "stage")
    /\ UNCHANGED disk
BeginRecovery(p) ==
    /\ pc[p] = "begin" /\ header[p].status = "valid" /\ receipt.op = header[p].op
    /\ tx' = [NoTx EXCEPT !.cur = receipt]
    /\ Continue(p, IF receipt.phase = "closed" THEN "retire" ELSE "loop")
    /\ UNCHANGED disk

\* A write of the receipt is due: the section that performs it begins.
Advance(p, phase) ==
    /\ tx' = [tx EXCEPT !.next = [tx.cur EXCEPT !.phase = phase]]
    /\ Continue(p, "stage")

\* The section compares the receipt with the one the run knows and writes a temporary,
StageReceipt(p) ==
    /\ pc[p] = "stage" /\ receipt = tx.cur
    /\ tmp' = TRUE
    /\ Continue(p, "publish")
    /\ UNCHANGED <<root, tombs, receipt, tx>>

\* What follows a written receipt; a new digest in the same phase is not a transition.
Written(p, published) ==
    /\ tx' = [tx EXCEPT !.cur = published, !.next = NoReceipt,
                        !.pending = IF published.phase = "marker-create-intent" THEN @ ELSE NoBody,
                        !.steps = IF tx.cur = NoReceipt \/ published.phase = "marker-create-intent"
                                  THEN @ ELSE @ + 1]
    /\ Continue(p, IF published.phase = "closed" THEN "retire"
                   ELSE IF tx.cur # NoReceipt /\ published.phase = "marker-create-intent"
                   THEN "draft" ELSE "loop")

\* ... renames it over the receipt,
ReplaceReceipt(p) ==
    /\ pc[p] = "publish" /\ tx.cur # NoReceipt
    /\ receipt' = tx.next /\ tmp' = FALSE
    /\ Written(p, tx.next)
    /\ UNCHANGED <<root, tombs>>

\* ... or, for a new receipt, links it and removes it.
LinkReceipt(p) ==
    /\ pc[p] = "publish" /\ tx.cur = NoReceipt
    /\ receipt' = tx.next
    /\ Continue(p, "settle")
    /\ UNCHANGED <<root, tombs, tmp, tx>>
SettleReceipt(p) ==
    /\ pc[p] = "settle"
    /\ tmp' = FALSE
    /\ Written(p, tx.next)
    /\ UNCHANGED <<root, tombs, receipt>>

-----------------------------------------------------------------------------
\* One turn of the loop reads both directories and dispatches on the phase.
Op == tx.cur.op
Marked(dir) == dir.marker = tx.cur.digest
Turning(p) == pc[p] = "loop" /\ tx.steps < MaxTransitions
AlreadyDeleted == /\ ~tombs[Op].there
                  /\ \/ tx.cur.phase = "delete-intent"
                     \/ ~root.there /\ tx.cur.phase # "deleted"
Turn(p, phase) == Turning(p) /\ ~AlreadyDeleted /\ tx.cur.phase = phase

SkipDeleted(p) ==
    /\ Turning(p) /\ AlreadyDeleted
    /\ Advance(p, "deleted")
    /\ UNCHANGED disk

\* marker-create-intent: the marker is already there, or it is published, with new content
\* when the run has not written the receipt itself.
MarkerFound(p) ==
    /\ Turn(p, "marker-create-intent")
    /\ IF tombs[Op].there THEN Marked(tombs[Op]) ELSE Marked(root)
    /\ Advance(p, IF tombs[Op].there THEN "renamed" ELSE "marker-created")
    /\ UNCHANGED disk
MarkerMissing_Unannounced(p) ==
    /\ Turn(p, "marker-create-intent")
    /\ ~tombs[Op].there /\ root.marker = NoBody
    /\ \E b \in Bodies : b \notin UsedBodies
    /\ tx' = [tx EXCEPT !.pending = IF @ # NoBody THEN @ ELSE NewBody]
    /\ Continue(p, "draft")
    /\ UNCHANGED disk
MarkerMissing_OldContent(p) ==
    /\ Turn(p, "marker-create-intent")
    /\ ~tombs[Op].there /\ root.marker = NoBody
    /\ IF tx.pending # NoBody
       THEN tx' = tx /\ Continue(p, "draft")
       ELSE /\ \E b \in Bodies : b \notin UsedBodies
            /\ tx' = [tx EXCEPT !.next = [tx.cur EXCEPT !.digest = tx.pending],
                                !.pending = NewBody]
            /\ Continue(p, "stage")
    /\ UNCHANGED disk
MarkerMissing(p) ==
    /\ Turn(p, "marker-create-intent")
    /\ ~tombs[Op].there /\ root.marker = NoBody
    /\ IF tx.pending # NoBody
       THEN tx' = tx /\ Continue(p, "draft")
       ELSE /\ \E b \in Bodies : b \notin UsedBodies
            /\ tx' = [tx EXCEPT !.next = [tx.cur EXCEPT !.digest = NewBody],
                                !.pending = NewBody]
            /\ Continue(p, "stage")
    /\ UNCHANGED disk

\* publishExclusiveMarker: a temporary of this operation is replaced unless it is complete,
MyDrafts == {d \in root.drafts : d[1] = Op}
DiscardDraft(p) ==
    /\ pc[p] = "draft" /\ MyDrafts \notin {{}, {<<Op, tx.pending>>}}
    /\ root' = [root EXCEPT !.drafts = @ \ MyDrafts]
    /\ UNCHANGED <<tombs, receipt, tmp, tx>>
    /\ Continue(p, "draft")
OpenDraft(p) ==
    /\ pc[p] = "draft" /\ MyDrafts \in {{}, {<<Op, tx.pending>>}}
    /\ root' = [root EXCEPT !.drafts = IF MyDrafts = {} THEN @ \cup {<<Op, Torn>>} ELSE @]
    /\ Continue(p, "fill")
    /\ UNCHANGED <<tombs, receipt, tmp, tx>>
FillDraft(p) ==
    /\ pc[p] = "fill"
    /\ root' = [root EXCEPT !.drafts = (@ \ MyDrafts) \cup {<<Op, tx.pending>>}]
    /\ Continue(p, "link")
    /\ UNCHANGED <<tombs, receipt, tmp, tx>>
\* ... linked to the marker's name and removed.
LinkMarker(p) ==
    /\ pc[p] = "link" /\ root.marker \in {NoBody, tx.pending}
    /\ root' = [root EXCEPT !.marker = tx.pending]
    /\ Continue(p, "undraft")
    /\ UNCHANGED <<tombs, receipt, tmp, tx>>
RemoveDraft(p) ==
    /\ pc[p] = "undraft" /\ Marked(root)
    /\ root' = [root EXCEPT !.drafts = @ \ MyDrafts]
    /\ Advance(p, "marker-created")
    /\ UNCHANGED <<tombs, receipt, tmp>>

MarkerCreated(p) ==
    /\ Turn(p, "marker-created")
    /\ Marked(IF tombs[Op].there THEN tombs[Op] ELSE root)
    /\ Advance(p, IF tombs[Op].there THEN "renamed" ELSE "rename-intent")
    /\ UNCHANGED disk

\* rename-intent: a live root beside the tombstone is a later generation and stays.
RenameRoot_Early(p) ==
    /\ Turn(p, "marker-created") /\ root.there /\ ~tombs[Op].there /\ Marked(root)
    /\ tombs' = [tombs EXCEPT ![Op] = root]
    /\ root' = Missing
    /\ tx' = tx
    /\ Continue(p, "verify")
    /\ UNCHANGED <<receipt, tmp>>
RenameRoot(p) ==
    /\ Turn(p, "rename-intent") /\ root.there /\ ~tombs[Op].there /\ Marked(root)
    /\ tombs' = [tombs EXCEPT ![Op] = root]
    /\ root' = Missing
    /\ tx' = tx
    /\ Continue(p, "verify")
    /\ UNCHANGED <<receipt, tmp>>
VerifyRenamed(p) ==
    /\ pc[p] = "verify" \/ (Turn(p, "rename-intent") /\ tombs[Op].there)
    /\ Marked(tombs[Op])
    /\ Advance(p, "renamed")
    /\ UNCHANGED disk

Renamed(p) ==
    /\ Turn(p, "renamed") /\ tombs[Op].there /\ Marked(tombs[Op])
    /\ Advance(p, "delete-intent")
    /\ UNCHANGED disk

\* delete-intent: the entries go first, the marker next and the directory last; without its
\* marker only an empty tombstone is removed.
Bare(dir) == dir.files = {} /\ dir.drafts = {}
DeleteIntent(p) ==
    /\ Turn(p, "delete-intent")
    /\ Marked(tombs[Op]) \/ (tombs[Op].marker = NoBody /\ Bare(tombs[Op]))
    /\ tx' = tx
    /\ Continue(p, IF Marked(tombs[Op]) THEN "clear" ELSE "rmdir")
    /\ UNCHANGED disk
RemoveEntry(p) ==
    /\ pc[p] = "clear"
    /\ \/ \E f \in tombs[Op].files : tombs' = [tombs EXCEPT ![Op].files = @ \ {f}]
       \/ \E d \in tombs[Op].drafts : tombs' = [tombs EXCEPT ![Op].drafts = @ \ {d}]
    /\ Continue(p, "clear")
    /\ UNCHANGED <<root, receipt, tmp, tx>>
UnlinkMarker_First(p) ==
    /\ pc[p] = "clear" /\ Marked(tombs[Op])
    /\ tombs' = [tombs EXCEPT ![Op].marker = NoBody]
    /\ Continue(p, "rmdir")
    /\ UNCHANGED <<root, receipt, tmp, tx>>
UnlinkMarker(p) ==
    /\ pc[p] = "clear" /\ Bare(tombs[Op]) /\ Marked(tombs[Op])
    /\ tombs' = [tombs EXCEPT ![Op].marker = NoBody]
    /\ Continue(p, "rmdir")
    /\ UNCHANGED <<root, receipt, tmp, tx>>
RemoveDirectory(p) ==
    /\ pc[p] = "rmdir"
    /\ tombs' = [tombs EXCEPT ![Op] = Missing]
    /\ Advance(p, "deleted")
    /\ UNCHANGED <<root, receipt, tmp>>

Deleted(p) ==
    /\ Turn(p, "deleted") /\ ~tombs[Op].there
    /\ Advance(p, "closed")
    /\ UNCHANGED disk

-----------------------------------------------------------------------------
\* The closed receipt is unlinked, in one section; a receipt that is gone is not an error.
Retire(p) ==
    /\ pc[p] = "retire" /\ receipt \in {tx.cur, NoReceipt}
    /\ receipt' = NoReceipt
    /\ tx' = [NoTx EXCEPT !.retired = tx.retired + 1]
    /\ Continue(p, "again")
    /\ UNCHANGED <<root, tombs, tmp>>
\* A root that is there again is removed under another receipt.
RetireDone_Unchecked(p) ==
    /\ pc[p] = "again"
    /\ EndHolder(p, "removed")
    /\ UNCHANGED disk
RetireDone(p) ==
    /\ pc[p] = "again" /\ ~root.there
    /\ EndHolder(p, "removed")
    /\ UNCHANGED disk
RetireAgain(p) ==
    /\ pc[p] = "again" /\ root.there /\ tx.retired < MaxReceipts
    /\ NewReceipt
    /\ Continue(p, "stage")
    /\ UNCHANGED disk

\* recoveryFailure, and the refused comparison of a receipt with the one on disk: the run ends
\* and leaves everything where it is.
Repeated(p) == pc[p] = "again" /\ root.there /\ tx.retired >= MaxReceipts
Unsafe(p) ==
    \/ pc[p] = "begin" /\ header[p].status = "valid" /\ receipt.op # header[p].op
    \/ pc[p] = "stage" /\ receipt # tx.cur
    \/ pc[p] = "loop" /\ tx.steps >= MaxTransitions
    \/ Turn(p, "marker-create-intent") /\ tombs[Op].there /\ ~Marked(tombs[Op])
    \/ Turn(p, "marker-create-intent") /\ ~tombs[Op].there /\ ~Marked(root)
                                       /\ root.marker # NoBody
    \/ pc[p] = "link" /\ root.marker \notin {NoBody, tx.pending}
    \/ pc[p] = "undraft" /\ ~Marked(root)
    \/ Turn(p, "marker-created") /\ ~Marked(IF tombs[Op].there THEN tombs[Op] ELSE root)
    \/ Turn(p, "rename-intent") /\ ~Marked(IF tombs[Op].there THEN tombs[Op] ELSE root)
    \/ pc[p] = "verify" /\ ~Marked(tombs[Op])
    \/ Turn(p, "renamed") /\ ~(tombs[Op].there /\ Marked(tombs[Op]))
    \/ Turn(p, "delete-intent") /\ ~Marked(tombs[Op])
                                /\ ~(tombs[Op].marker = NoBody /\ Bare(tombs[Op]))
    \/ pc[p] = "clear" /\ Bare(tombs[Op]) /\ ~Marked(tombs[Op])
    \/ Turn(p, "deleted") /\ tombs[Op].there
    \/ pc[p] = "retire" /\ receipt \notin {tx.cur, NoReceipt}
RecoveryFailure(p) ==
    /\ Unsafe(p) \/ Repeated(p)
    /\ EndHolder(p, IF Repeated(p) THEN "recreated" ELSE "unsafe")
    /\ UNCHANGED disk

-----------------------------------------------------------------------------
\* The process dies: the lease it held and the mutex are found stale by the next section.
Crash(p) ==
    /\ pc[p] \in Inside /\ faults < MaxFaults
    /\ pc' = [pc EXCEPT ![p] = "idle"]
    /\ outcome' = [outcome EXCEPT ![p] = "crashed"]
    /\ header' = [header EXCEPT ![p] = NoHeader]
    /\ discard' = [discard EXCEPT ![p] = FALSE]
    /\ lease' = Nobody /\ tx' = NoTx
    /\ faults' = faults + 1
    /\ UNCHANGED <<disk, recreated>>

\* A call to the file system fails: the run ends, and removes its temporary if it can.
Fail(p) ==
    /\ pc[p] \in Inside /\ faults < MaxFaults
    /\ pc' = [pc EXCEPT ![p] = "idle"]
    /\ outcome' = [outcome EXCEPT ![p] = "failed"]
    /\ header' = [header EXCEPT ![p] = NoHeader]
    /\ discard' = [discard EXCEPT ![p] = FALSE]
    /\ lease' = Nobody /\ tx' = NoTx
    /\ faults' = faults + 1
    /\ tmp' \in {tmp, FALSE}
    /\ UNCHANGED <<root, tombs, receipt, recreated>>

\* Something creates the user root again.
Recreate ==
    /\ ~root.there /\ recreated < MaxRecreated
    /\ root' = Fresh
    /\ recreated' = recreated + 1
    /\ UNCHANGED <<tombs, receipt, tmp, lease, pc, discard, header, tx, outcome, faults>>

\* Another command enters a section and removes the temporary of an interrupted write.
OtherCommand ==
    /\ MutexFree /\ tmp
    /\ tmp' = FALSE
    /\ UNCHANGED <<root, tombs, receipt, lease, pc, discard, header, tx, outcome, faults, recreated>>

\* A step a run takes by itself.
Step(p) ==
    \/ StartupRefused(p) \/ StartupAdmitted(p) \/ Inspect(p) \/ InspectEnds(p) \/ Collect(p)
    \/ Acquire(p) \/ AcquireRefused(p) \/ BeginEmpty(p) \/ BeginNew(p) \/ BeginRecovery(p)
    \/ StageReceipt(p) \/ ReplaceReceipt(p) \/ LinkReceipt(p) \/ SettleReceipt(p)
    \/ SkipDeleted(p) \/ MarkerFound(p) \/ MarkerMissing(p)
    \/ DiscardDraft(p) \/ OpenDraft(p) \/ FillDraft(p) \/ LinkMarker(p) \/ RemoveDraft(p)
    \/ MarkerCreated(p) \/ RenameRoot(p) \/ VerifyRenamed(p) \/ Renamed(p)
    \/ DeleteIntent(p) \/ RemoveEntry(p) \/ UnlinkMarker(p) \/ RemoveDirectory(p) \/ Deleted(p)
    \/ Retire(p) \/ RetireDone(p) \/ RetireAgain(p) \/ RecoveryFailure(p)

Next ==
    \/ \E p \in Processes : \/ Start(p, TRUE) \/ Start(p, FALSE)
                            \/ Step(p) \/ CollectEnds(p) \/ AcquireTimesOut(p)
                            \/ Crash(p) \/ Fail(p)
    \/ Recreate \/ OtherCommand

Spec == Init /\ [][Next]_vars

\* A run that is under way goes on, and its question is answered; a persistent user keeps trying,
\* with and without --discard-recovery, and confirms in the end.
FairSpec == /\ Spec
            /\ \A p \in Processes : WF_vars(Step(p) \/ CollectEnds(p))
            /\ \A p \in Persistent : /\ SF_vars(Collect(p))
                                     /\ SF_vars(Start(p, FALSE)) /\ SF_vars(Start(p, TRUE))

-----------------------------------------------------------------------------
\* No crash, failure or recreated root leads to a state recovery refuses: every precondition
\* of user-removal-transaction.ts that throws recoveryFailure holds when it is tested, and no
\* write of the receipt meets another content than the one the run has read.
NeverUnsafe == \A p \in Processes : outcome[p] # "unsafe"

\* Every tombstone on disk is named by the receipt, so a later run finds and removes it.
NoOrphan == \A o \in Ops : tombs[o].there => receipt.op = o /\ RecoveryOpen

\* A marker in the live root belongs to the receipt: a root that is no longer being removed
\* never keeps a marker that the next uninstall would take for a foreign one.
MarkerOwned == root.marker # NoBody => RecoveryOpen /\ root.marker = receipt.digest

\* Nothing a removal has left in the file system is without the receipt that explains it.
Accounted == NoOrphan /\ MarkerOwned

\* Nothing is destroyed before the receipt says so: the live root goes away only by the rename
\* announced for it, and a tombstone changes only under delete-intent.
WriteAhead ==
    [][/\ root.there /\ ~root'.there =>
             /\ receipt.phase = "rename-intent" /\ root.marker = receipt.digest
             /\ tombs'[receipt.op] = root
       /\ \A o \in Ops : tombs[o].there /\ tombs'[o] # tombs[o] =>
             receipt.phase = "delete-intent" /\ receipt.op = o]_vars

\* A run that reports 'removed' leaves neither a receipt nor a tombstone, and the user root was
\* missing when it looked.
RemovedMeansGone ==
    [][\A p \in Processes : pc[p] # "idle" /\ outcome'[p] = "removed" =>
          receipt = NoReceipt /\ ~root.there /\ \A o \in Ops : ~tombs[o].there]_vars

\* The live root, and the tombstones, as DirectoryRemoval sees them.
Live(dir) == IF ~dir.there THEN "gone" ELSE IF dir.marker = NoBody THEN "plain" ELSE "claimed"
Doomed(dirs) == LET left == {o \in Ops : dirs[o].there}
                IN  [there |-> left # {}, files |-> UNION {dirs[o].files : o \in left}]
Promise == INSTANCE DirectoryRemoval WITH live <- Live(root), doomed <- Doomed(tombs),
                                          open <- RecoveryOpen

\* The calls of the transaction and the phases of the receipt implement a removal in which the
\* root goes away as a whole, through crashes, failing calls, recoveries by other users and
\* roots that are created again.
ImplementsRemoval == Promise!RemovalSpec

\* An interrupted uninstall is finished by running it again.
Recovers == receipt # NoReceipt ~> receipt = NoReceipt
=============================================================================
