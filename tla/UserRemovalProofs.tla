-------------------------- MODULE UserRemovalProofs --------------------------
(* Theorems about UserRemoval, for any processes, users, faults and recreated roots. *)
EXTENDS UserRemoval, TLAPS

\* The phases in the order of a removal.
Rank(phase) ==
    CASE phase = "marker-created" -> 1
      [] phase = "rename-intent" -> 2
      [] phase = "renamed" -> 3
      [] phase = "delete-intent" -> 4
      [] phase = "deleted" -> 5
      [] phase = "closed" -> 6
      [] OTHER -> 0

\* The root that is being removed is still in its place, or is the tombstone.
InPlace(r) == root.there /\ root.marker = r.digest /\ ~tombs[r.op].there
Renaming(r) == tombs[r.op].there /\ tombs[r.op].marker = r.digest /\ root.marker = NoBody

\* The receipt r says where the root is, and how much of it may be gone.
Explains(r) ==
    /\ \A o \in Ops : tombs[o].there => r.op = o
    /\ r.phase \in {"none", "deleted", "closed"} => root.marker = NoBody /\ \A o \in Ops : ~tombs[o].there
    /\ r.phase = "marker-create-intent" =>
          root.there /\ root.marker \in {NoBody, r.digest} /\ ~tombs[r.op].there
    /\ r.phase = "marker-created" => InPlace(r)
    /\ r.phase = "rename-intent" => InPlace(r) \/ Renaming(r)
    /\ r.phase = "renamed" => Renaming(r)
    /\ r.phase = "delete-intent" =>
          /\ root.marker = NoBody
          /\ \/ ~tombs[r.op].there
             \/ tombs[r.op].marker = r.digest
             \/ tombs[r.op].marker = NoBody /\ Bare(tombs[r.op])

Explained == Explains(receipt)

\* Whoever is inside of the transaction holds the lease.
Held == \A p \in Processes : pc[p] \in Inside <=> lease = p

\* A write that is due takes the receipt forward, and the disk is as the new receipt says already.
Announced ==
    /\ tx.next \in Receipts /\ Explains(tx.next)
    /\ tx.cur = NoReceipt => tx.next.phase = "marker-create-intent"
    /\ IF tx.next.phase = "marker-create-intent"
       THEN tx.cur.phase \in {"none", "marker-create-intent"} /\ tx.pending = tx.next.digest
       ELSE Rank(tx.next.phase) > Rank(tx.cur.phase)

Publishing == {"draft", "fill", "link", "undraft"}
Working == Publishing \cup {"loop", "verify", "clear", "rmdir"}

\* What the holder knows of the receipt and of the disk is true.
Follows(p) ==
    /\ pc[p] = "begin" => IF header[p].status = "valid" THEN receipt # NoReceipt /\ receipt.op = header[p].op
                          ELSE header[p].status = "absent" => receipt = NoReceipt
    /\ pc[p] \in {"stage", "publish"} => receipt = tx.cur /\ Announced
    /\ pc[p] = "settle" => tx.cur = NoReceipt /\ receipt = tx.next /\ Announced
    /\ pc[p] \in Working => /\ receipt = tx.cur /\ tx.cur # NoReceipt /\ tx.cur.phase # "closed"
                            /\ tx.pending \in {NoBody, tx.cur.digest}
    /\ pc[p] \in Publishing => tx.cur.phase = "marker-create-intent" /\ tx.pending = tx.cur.digest
    /\ pc[p] = "undraft" => root.marker = tx.cur.digest
    /\ pc[p] = "verify" => tx.cur.phase = "rename-intent" /\ Renaming(tx.cur)
    /\ pc[p] \in {"clear", "rmdir"} => tx.cur.phase = "delete-intent" /\ tombs[tx.cur.op].there
    /\ pc[p] = "clear" => tombs[tx.cur.op].marker = tx.cur.digest
    /\ pc[p] = "rmdir" => tombs[tx.cur.op].marker = NoBody /\ Bare(tombs[tx.cur.op])
    /\ pc[p] = "retire" => receipt = tx.cur /\ tx.cur.phase = "closed"
    /\ pc[p] = "again" => receipt = NoReceipt /\ tx.cur = NoReceipt

Following == \A p \in Processes : Follows(p)

\* A run makes no more transitions than there are phases.
Counted == tx.steps <= Rank(tx.cur.phase)

\* A run that is under way has reported nothing, and none has reported a state it refuses.
Reporting == \A p \in Processes : /\ pc[p] # "idle" => outcome[p] = "none"
                                  /\ outcome[p] # "unsafe"

IInv == TypeOK /\ Explained /\ Held /\ Following /\ Counted /\ Reporting

-----------------------------------------------------------------------------
(* Types. *)

\* The placeholders are not what they stand for.
LEMMA Placeholders ==
    /\ NoReceipt \notin Receipts
    /\ NoBody \notin Bodies
    /\ Nobody \notin Processes
    /\ NoOp \notin Ops
  BY NamesAssumption DEF NoReceipt, Receipts, Phases

\* The directories, and the end of a run, keep their types.
LEMMA EndTyped ==
    ASSUME TypeOK, NEW p \in Processes, NEW how \in Outcomes, End(p, how),
           root' \in Directories, tombs' \in [Ops -> Directories],
           receipt' \in Receipts \cup {NoReceipt}, tmp' \in BOOLEAN,
           lease' \in Processes \cup {Nobody}, tx' \in Transactions
    PROVE  TypeOK'
<1>1. NoHeader \in Headers
  BY DEF NoHeader, Headers
<1>2. "idle" \in Outside \cup Inside
  BY DEF Outside
<1> QED
  BY <1>1, <1>2 DEF TypeOK, End, Goto

LEMMA ContinueTyped ==
    ASSUME TypeOK, NEW p \in Processes, NEW q \in Outside \cup Inside, Continue(p, q),
           root' \in Directories, tombs' \in [Ops -> Directories],
           receipt' \in Receipts \cup {NoReceipt}, tmp' \in BOOLEAN, tx' \in Transactions
    PROVE  TypeOK'
  BY DEF TypeOK, Continue, Goto

LEMMA DiskTyped ==
    ASSUME TypeOK, UNCHANGED disk
    PROVE  /\ root' \in Directories /\ tombs' \in [Ops -> Directories]
           /\ receipt' \in Receipts \cup {NoReceipt} /\ tmp' \in BOOLEAN
  BY DEF TypeOK, disk

LEMMA NoTxTyped == NoTx \in Transactions
  BY DEF NoTx, Transactions, NoReceipt

LEMMA MissingTyped == Missing \in Directories /\ Fresh \in Directories
  BY DEF Missing, Fresh, Directories

LEMMA InitTyped == Init => TypeOK
<1>1. "idle" \in Outside /\ "none" \in Outcomes /\ NoHeader \in Headers
  BY DEF Outside, Outcomes, NoHeader, Headers
<1>2. ASSUME Init
      PROVE  TypeOK
  <2>1. root \in Directories /\ tombs \in [Ops -> Directories]
    BY <1>2, MissingTyped DEF Init
  <2>2. pc \in [Processes -> Outside \cup Inside] /\ header \in [Processes -> Headers]
        /\ outcome \in [Processes -> Outcomes] /\ discard \in [Processes -> BOOLEAN]
    BY <1>1, <1>2 DEF Init
  <2>3. receipt \in Receipts \cup {NoReceipt} /\ tmp \in BOOLEAN /\ lease \in Processes \cup {Nobody}
        /\ tx \in Transactions /\ faults \in Nat /\ recreated \in Nat
    BY <1>2, NoTxTyped DEF Init
  <2> QED
    BY <2>1, <2>2, <2>3 DEF TypeOK
<1> QED
  BY <1>2

\* A new receipt is one, and its fields are as they should be.
LEMMA NewReceiptIs ==
    ASSUME TypeOK, NewReceipt
    PROVE  /\ tx' \in Transactions
           /\ tx'.next \in Receipts /\ tx'.next.phase = "marker-create-intent"
           /\ tx'.pending = tx'.next.digest /\ tx'.cur = NoReceipt /\ tx'.steps = 0
<1>1. NewOp \in Ops /\ NewBody \in Bodies
  BY DEF NewReceipt, NewOp, NewBody
<1>2. tx.retired \in Nat
  BY DEF TypeOK, Transactions
<1> QED
  BY <1>1, <1>2 DEF NewReceipt, NoTx, Transactions, Receipts, Phases, NoReceipt

\* A transaction that is about to advance, or has written its receipt.
LEMMA AdvanceTyped ==
    ASSUME TypeOK, NEW p \in Processes, NEW phase \in Phases, tx.cur # NoReceipt, Advance(p, phase),
           root' \in Directories, tombs' \in [Ops -> Directories],
           receipt' \in Receipts \cup {NoReceipt}, tmp' \in BOOLEAN
    PROVE  TypeOK'
<1>1. tx' \in Transactions
  BY DEF Advance, TypeOK, Transactions, Receipts
<1>2. Continue(p, "stage") /\ "stage" \in Inside
  BY DEF Advance, Inside
<1> QED
  BY <1>1, <1>2, ContinueTyped

LEMMA WrittenTyped ==
    ASSUME TypeOK, NEW p \in Processes, tx.next \in Receipts, Written(p, tx.next),
           root' \in Directories, tombs' \in [Ops -> Directories],
           receipt' \in Receipts \cup {NoReceipt}, tmp' \in BOOLEAN
    PROVE  TypeOK'
<1> DEFINE pending == IF tx.next.phase = "marker-create-intent" THEN tx.pending ELSE NoBody
           steps == IF tx.cur = NoReceipt \/ tx.next.phase = "marker-create-intent"
                    THEN tx.steps ELSE tx.steps + 1
<1>a. tx \in Transactions
  BY DEF TypeOK
<1>b. tx' = [tx EXCEPT !.cur = tx.next, !.next = NoReceipt, !.pending = pending, !.steps = steps]
  BY DEF Written
<1>c. pending \in Bodies \cup {NoBody} /\ steps \in Nat
  BY <1>a DEF Transactions
<1> HIDE DEF pending, steps
<1>1. tx' \in Transactions
  BY <1>a, <1>b, <1>c DEF Transactions
<1>2. PICK q \in {"retire", "draft", "loop"} : Continue(p, q)
  BY DEF Written
<1>3. q \in Inside
  BY <1>2 DEF Inside
<1> QED
  BY <1>1, <1>2, <1>3, ContinueTyped

-----------------------------------------------------------------------------
(* Frames. *)

\* A run that is not inside knows nothing that could be wrong.
LEMMA OutsideKnowsNothing ==
    ASSUME NEW p \in Processes, pc'[p] \notin Inside
    PROVE  Follows(p)'
  BY DEF Follows, Inside, Writing, Working, Publishing

\* Only one run is inside.
LEMMA OneInside ==
    ASSUME Held, NEW p \in Processes, NEW q \in Processes, pc[p] \in Inside, pc[q] \in Inside
    PROVE  p = q
  BY DEF Held

LEMMA InsideStep ==
    ASSUME TypeOK, Held, Reporting, NEW p \in Processes, pc[p] \in Inside,
           NEW q \in Inside, Continue(p, q), Follows(p)'
    PROVE  Held' /\ Reporting' /\ Following'
<1>1. pc' = [pc EXCEPT ![p] = q] /\ pc \in [Processes -> Outside \cup Inside]
  BY DEF Continue, Goto, TypeOK
<1>2. lease' = lease /\ outcome' = outcome
  BY DEF Continue
<1>3. "idle" \notin Inside
  BY DEF Inside, Writing
<1>4. Held'
  BY <1>1, <1>2 DEF Held
<1>5. Reporting'
  BY <1>1, <1>2, <1>3 DEF Reporting
<1>6. ASSUME NEW r \in Processes
      PROVE  Follows(r)'
  <2>1. CASE r = p
    BY <2>1
  <2>2. CASE r # p
    <3>1. pc'[r] \notin Inside
      BY <1>1, <2>2, OneInside
    <3> QED
      BY <3>1, OutsideKnowsNothing
  <2> QED
    BY <2>1, <2>2
<1> QED
  BY <1>4, <1>5, <1>6 DEF Following

\* A step of a run that is not inside, before and after.
LEMMA OutsideStep ==
    ASSUME TypeOK, Held, Following, NEW p \in Processes, pc[p] \notin Inside, NEW q \in Outside,
           pc' = [pc EXCEPT ![p] = q], lease' = lease,
           root' = root, tombs' = tombs, receipt' = receipt, tx' = tx,
           \A r \in Processes \ {p} : header'[r] = header[r]
    PROVE  Held' /\ Following'
<1>1. pc \in [Processes -> Outside \cup Inside] /\ q \notin Inside
  BY DEF TypeOK, Outside, Inside, Writing
<1>2. Held'
  BY <1>1 DEF Held
<1>3. ASSUME NEW r \in Processes
      PROVE  Follows(r)'
  <2>1. CASE pc'[r] \notin Inside
    BY <2>1, OutsideKnowsNothing
  <2>2. CASE pc'[r] \in Inside
    <3>1. r # p /\ pc'[r] = pc[r] /\ header'[r] = header[r]
      BY <1>1, <2>2
    <3>2. Follows(r)
      BY DEF Following
    <3> QED
      BY <3>1, <3>2 DEF Follows, Announced, Explains, InPlace, Renaming, Bare
  <2> QED
    BY <2>1, <2>2
<1> QED
  BY <1>2, <1>3 DEF Following

\* The holder's run ends.
LEMMA HolderEnds ==
    ASSUME TypeOK, Held, NEW p \in Processes, pc[p] \in Inside,
           pc' = [pc EXCEPT ![p] = "idle"], lease' = Nobody, tx' = NoTx
    PROVE  Held' /\ Following' /\ Counted'
<1>1. pc \in [Processes -> Outside \cup Inside] /\ "idle" \notin Inside
  BY DEF TypeOK, Inside, Writing
<1>2. \A r \in Processes : pc'[r] \notin Inside
  BY <1>1, OneInside
<1>3. Held'
  BY <1>2, NamesAssumption DEF Held
<1>4. Following'
  BY <1>2, OutsideKnowsNothing DEF Following
<1>5. Counted'
  BY DEF Counted, NoTx, NoReceipt, Rank
<1> QED
  BY <1>3, <1>4, <1>5

\* The receipt explains the disk as long as neither changes.
LEMMA StillExplained ==
    ASSUME Explained, root' = root, tombs' = tombs, receipt' = receipt
    PROVE  Explained'
  BY DEF Explained, Explains, InPlace, Renaming, Bare

LEMMA EndReports ==
    ASSUME TypeOK, Reporting, NEW p \in Processes, NEW how \in Outcomes \ {"unsafe"},
           pc' = [pc EXCEPT ![p] = "idle"], outcome' = [outcome EXCEPT ![p] = how]
    PROVE  Reporting'
  BY DEF TypeOK, Reporting

-----------------------------------------------------------------------------
(* What a step inside has to show. *)

LEMMA Goes ==
    ASSUME IInv, NEW p \in Processes, pc[p] \in Inside, NEW q \in Inside, Continue(p, q),
           root' \in Directories, tombs' \in [Ops -> Directories],
           receipt' \in Receipts \cup {NoReceipt}, tmp' \in BOOLEAN, tx' \in Transactions,
           Explained', Follows(p)', Counted'
    PROVE  IInv'
<1>1. TypeOK'
  BY ContinueTyped DEF IInv
<1>2. Held' /\ Reporting' /\ Following'
  BY InsideStep DEF IInv
<1> QED
  BY <1>1, <1>2 DEF IInv

\* A turn of the loop that decides on the next phase.
LEMMA Advances ==
    ASSUME IInv, NEW p \in Processes, pc[p] \in Working,
           NEW phase \in Phases \ {"marker-create-intent"}, Rank(phase) > Rank(tx.cur.phase),
           Advance(p, phase), receipt' = receipt, tmp' = tmp,
           root' \in Directories, tombs' \in [Ops -> Directories],
           Explained', Explains([tx.cur EXCEPT !.phase = phase])'
    PROVE  IInv'
<1>1. /\ TypeOK /\ Follows(p) /\ tx \in Transactions
      /\ receipt' \in Receipts \cup {NoReceipt} /\ tmp' \in BOOLEAN
  BY DEF IInv, TypeOK, Following
<1>2. pc[p] \in Inside /\ "stage" \in Inside
  BY DEF Working, Publishing, Inside
<1>3. tx.cur # NoReceipt /\ receipt = tx.cur /\ tx.cur \in Receipts
  BY <1>1 DEF Follows, Transactions
<1>4. /\ tx' = [tx EXCEPT !.next = [tx.cur EXCEPT !.phase = phase]]
      /\ Continue(p, "stage")
  BY DEF Advance
<1>5. [tx.cur EXCEPT !.phase = phase] \in Receipts
  BY <1>3 DEF Receipts
<1>6. tx' \in Transactions /\ tx'.cur = tx.cur /\ tx'.next = [tx.cur EXCEPT !.phase = phase]
      /\ tx'.steps = tx.steps
  BY <1>1, <1>4, <1>5 DEF Transactions
<1>7. tx'.next.phase = phase
  BY <1>3, <1>6 DEF Receipts
<1>8. Explains(tx.next)'
  BY <1>6
<1>9. Announced'
  BY <1>3, <1>5, <1>6, <1>7, <1>8 DEF Announced
<1>10. pc' = [pc EXCEPT ![p] = "stage"] /\ pc \in [Processes -> Outside \cup Inside]
  BY <1>1, <1>4 DEF Continue, Goto, TypeOK
<1>11. Follows(p)'
  BY <1>3, <1>6, <1>9, <1>10 DEF Follows, Working, Publishing
<1>12. Counted'
  BY <1>6 DEF IInv, Counted
<1> QED
  BY <1>1, <1>2, <1>4, <1>6, <1>11, <1>12, Goes

LEMMA AdvancesOnly ==
    ASSUME IInv, NEW p \in Processes, pc[p] \in Working,
           NEW phase \in Phases \ {"marker-create-intent"}, Rank(phase) > Rank(tx.cur.phase),
           Advance(p, phase), UNCHANGED disk,
           Explains([tx.cur EXCEPT !.phase = phase])
    PROVE  IInv'
<1>1. root' = root /\ tombs' = tombs /\ receipt' = receipt /\ tmp' = tmp
  BY DEF disk
<1>2. root' \in Directories /\ tombs' \in [Ops -> Directories]
  BY DiskTyped DEF IInv
<1>3. Explained'
  BY <1>1, StillExplained DEF IInv
<1>4. tx'.cur = tx.cur
  BY DEF Advance, IInv, TypeOK, Transactions
<1>5. Explains([tx.cur EXCEPT !.phase = phase])'
  BY <1>1, <1>4 DEF Explains, InPlace, Renaming, Bare
<1> QED
  BY <1>1, <1>2, <1>3, <1>5, Advances

-----------------------------------------------------------------------------
(* The steps of a transaction, one by one. *)

\* What the facts about a turn of the loop have in common.
LEMMA InLoop ==
    ASSUME IInv, NEW p \in Processes, pc[p] \in Working
    PROVE  /\ pc[p] \in Inside
           /\ receipt = tx.cur /\ tx.cur \in Receipts /\ tx \in Transactions
           /\ Explains(tx.cur)
           /\ Follows(p) /\ Op \in Ops
           /\ root \in Directories /\ tombs \in [Ops -> Directories]
           /\ receipt \in Receipts \cup {NoReceipt} /\ tmp \in BOOLEAN
<1>1. /\ Follows(p) /\ tx \in Transactions /\ Explained
      /\ root \in Directories /\ tombs \in [Ops -> Directories]
      /\ receipt \in Receipts \cup {NoReceipt} /\ tmp \in BOOLEAN
  BY DEF IInv, Following, TypeOK
<1>2. receipt = tx.cur /\ tx.cur # NoReceipt
  BY <1>1 DEF Follows
<1>3. tx.cur \in Receipts
  BY <1>1, <1>2 DEF Transactions
<1> QED
  BY <1>1, <1>2, <1>3 DEF Explained, Op, Receipts, Working, Publishing, Inside

LEMMA KeepsSkipDeleted ==
    ASSUME IInv, NEW p \in Processes, SkipDeleted(p)
    PROVE  IInv'
<1>1. pc[p] \in Working /\ Advance(p, "deleted") /\ UNCHANGED disk /\ AlreadyDeleted
  BY DEF SkipDeleted, Turning, Working
<1>2. tx.cur \in Receipts /\ Explains(tx.cur) /\ tx.cur.phase # "closed"
  BY <1>1, InLoop DEF Follows
<1>3. tx.cur.phase = "delete-intent"
  BY <1>1, <1>2 DEF AlreadyDeleted, Explains, InPlace, Renaming, Op, Receipts, Phases
<1>4. Explains([tx.cur EXCEPT !.phase = "deleted"])
  BY <1>1, <1>2, <1>3 DEF Explains, AlreadyDeleted, Op, Receipts
<1> QED
  BY <1>1, <1>3, <1>4, AdvancesOnly DEF Rank, Phases

LEMMA KeepsMarkerFound ==
    ASSUME IInv, NEW p \in Processes, MarkerFound(p)
    PROVE  IInv'
<1>1. pc[p] \in Working /\ UNCHANGED disk /\ tx.cur.phase = "marker-create-intent"
  BY DEF MarkerFound, Turn, Turning, Working
<1>2. tx.cur \in Receipts /\ Explains(tx.cur)
  BY <1>1, InLoop
<1>3. ~tombs[Op].there /\ root.there
  BY <1>1, <1>2 DEF Explains, Op
<1>4. Advance(p, "marker-created") /\ Marked(root)
  BY <1>3 DEF MarkerFound
<1>5. Explains([tx.cur EXCEPT !.phase = "marker-created"])
  BY <1>1, <1>2, <1>3, <1>4 DEF Explains, InPlace, Marked, Op, Receipts
<1> QED
  BY <1>1, <1>4, <1>5, AdvancesOnly DEF Rank, Phases

LEMMA KeepsMarkerCreated ==
    ASSUME IInv, NEW p \in Processes, MarkerCreated(p)
    PROVE  IInv'
<1>1. pc[p] \in Working /\ UNCHANGED disk /\ tx.cur.phase = "marker-created"
  BY DEF MarkerCreated, Turn, Turning, Working
<1>2. tx.cur \in Receipts /\ Explains(tx.cur)
  BY <1>1, InLoop
<1>3. InPlace(tx.cur)
  BY <1>1, <1>2 DEF Explains
<1>4. Advance(p, "rename-intent")
  BY <1>3 DEF MarkerCreated, InPlace, Op
<1>5. Explains([tx.cur EXCEPT !.phase = "rename-intent"])
  BY <1>1, <1>2, <1>3 DEF Explains, InPlace, Receipts
<1> QED
  BY <1>1, <1>4, <1>5, AdvancesOnly DEF Rank, Phases

LEMMA KeepsVerifyRenamed ==
    ASSUME IInv, NEW p \in Processes, VerifyRenamed(p)
    PROVE  IInv'
<1>1. pc[p] \in Working /\ UNCHANGED disk /\ Advance(p, "renamed")
  BY DEF VerifyRenamed, Turn, Turning, Working
<1>2. tx.cur \in Receipts /\ Explains(tx.cur) /\ Follows(p)
  BY <1>1, InLoop
<1>3. tx.cur.phase = "rename-intent" /\ Renaming(tx.cur)
  BY <1>2 DEF VerifyRenamed, Turn, Follows, Explains, InPlace, Op
<1>4. Explains([tx.cur EXCEPT !.phase = "renamed"])
  BY <1>2, <1>3 DEF Explains, Renaming, Receipts
<1> QED
  BY <1>1, <1>3, <1>4, AdvancesOnly DEF Rank, Phases

LEMMA KeepsRenamed ==
    ASSUME IInv, NEW p \in Processes, Renamed(p)
    PROVE  IInv'
<1>1. pc[p] \in Working /\ UNCHANGED disk /\ Advance(p, "delete-intent") /\ tx.cur.phase = "renamed"
  BY DEF Renamed, Turn, Turning, Working
<1>2. tx.cur \in Receipts /\ Explains(tx.cur)
  BY <1>1, InLoop
<1>3. Explains([tx.cur EXCEPT !.phase = "delete-intent"])
  BY <1>1, <1>2 DEF Explains, Renaming, Receipts
<1> QED
  BY <1>1, <1>3, AdvancesOnly DEF Rank, Phases

LEMMA KeepsDeleted ==
    ASSUME IInv, NEW p \in Processes, Deleted(p)
    PROVE  IInv'
<1>1. pc[p] \in Working /\ UNCHANGED disk /\ Advance(p, "closed") /\ tx.cur.phase = "deleted"
  BY DEF Deleted, Turn, Turning, Working
<1>2. tx.cur \in Receipts /\ Explains(tx.cur)
  BY <1>1, InLoop
<1>3. Explains([tx.cur EXCEPT !.phase = "closed"])
  BY <1>1, <1>2 DEF Explains, Receipts
<1> QED
  BY <1>1, <1>3, AdvancesOnly DEF Rank, Phases

\* The directory of the tombstone is removed: the other tombstones are not there anyway.
LEMMA KeepsRemoveDirectory ==
    ASSUME IInv, NEW p \in Processes, RemoveDirectory(p)
    PROVE  IInv'
<1>1. /\ pc[p] = "rmdir" /\ Advance(p, "deleted")
      /\ root' = root /\ receipt' = receipt /\ tmp' = tmp
      /\ tombs' = [tombs EXCEPT ![Op] = Missing]
  BY DEF RemoveDirectory
<1>2. pc[p] \in Working
  BY <1>1 DEF Working
<1>3. /\ tx.cur \in Receipts /\ Explains(tx.cur) /\ Follows(p) /\ Op \in Ops /\ receipt = tx.cur
      /\ root \in Directories /\ tombs \in [Ops -> Directories] /\ tx \in Transactions
  BY <1>2, InLoop
<1>4. tx.cur.phase = "delete-intent"
  BY <1>1, <1>3 DEF Follows
<1>5. tombs' \in [Ops -> Directories] /\ \A o \in Ops : ~tombs'[o].there
  BY <1>1, <1>3, MissingTyped DEF Explains, Missing, Op
<1>6. root.marker = NoBody
  BY <1>3, <1>4 DEF Explains
<1>7. tx'.cur = tx.cur
  BY <1>1, <1>3 DEF Advance, Transactions
<1>8. Explained'
  BY <1>1, <1>3, <1>4, <1>5, <1>6 DEF Explained, Explains
<1>9. Explains([tx.cur EXCEPT !.phase = "deleted"])'
  BY <1>1, <1>3, <1>4, <1>5, <1>6, <1>7 DEF Explains, Receipts
<1> QED
  BY <1>1, <1>2, <1>3, <1>4, <1>5, <1>8, <1>9, Advances DEF Rank, Phases

\* The temporaries of the marker: the entries of the live root that are not in question.
LEMMA DraftStep ==
    ASSUME IInv, NEW p \in Processes, pc[p] \in {"draft", "fill"}, NEW q \in Publishing \ {"undraft"},
           Continue(p, q), tombs' = tombs, receipt' = receipt, tmp' = tmp, tx' = tx,
           NEW D \in SUBSET (Ops \X (Bodies \cup {Torn})), root' = [root EXCEPT !.drafts = D]
    PROVE  IInv'
<1>1. pc[p] \in Working /\ pc[p] \in Publishing /\ q \in Inside
  BY DEF Working, Publishing, Inside
<1>2. /\ tx.cur \in Receipts /\ Explains(tx.cur) /\ Follows(p) /\ receipt = tx.cur
      /\ root \in Directories /\ tombs \in [Ops -> Directories] /\ tx \in Transactions
      /\ pc[p] \in Inside /\ tmp \in BOOLEAN
  BY <1>1, InLoop
<1>3. root' \in Directories /\ root'.there = root.there /\ root'.marker = root.marker
  BY <1>2 DEF Directories
<1>4. Explained'
  BY <1>2, <1>3 DEF Explained, Explains, InPlace, Renaming, Bare
<1>5. pc' = [pc EXCEPT ![p] = q] /\ pc \in [Processes -> Outside \cup Inside]
  BY DEF Continue, Goto, IInv, TypeOK
<1>6. pc'[p] = q
  BY <1>5
<1>7. Follows(p)'
  BY <1>1, <1>2, <1>6 DEF Follows, Working, Publishing
<1>8. Counted'
  BY DEF IInv, Counted
<1> QED
  BY <1>1, <1>2, <1>3, <1>4, <1>7, <1>8, Goes

LEMMA KeepsDrafts ==
    ASSUME IInv, NEW p \in Processes, DiscardDraft(p) \/ OpenDraft(p) \/ FillDraft(p)
    PROVE  IInv'
<1>1. pc[p] \in {"draft", "fill"} /\ pc[p] \in Working /\ pc[p] \in Publishing
  BY DEF DiscardDraft, OpenDraft, FillDraft, Working, Publishing
<1>2. /\ tx.cur \in Receipts /\ Follows(p) /\ Op \in Ops /\ root \in Directories
  BY <1>1, InLoop
<1>3. tx.pending \in Bodies
  BY <1>1, <1>2 DEF Follows, Receipts
<1>4. root.drafts \in SUBSET (Ops \X (Bodies \cup {Torn}))
  BY <1>2 DEF Directories
<1> DEFINE D1 == root.drafts \ MyDrafts
           D2 == IF MyDrafts = {} THEN root.drafts \cup {<<Op, Torn>>} ELSE root.drafts
           D3 == (root.drafts \ MyDrafts) \cup {<<Op, tx.pending>>}
<1>5. /\ D1 \in SUBSET (Ops \X (Bodies \cup {Torn}))
      /\ D2 \in SUBSET (Ops \X (Bodies \cup {Torn}))
      /\ D3 \in SUBSET (Ops \X (Bodies \cup {Torn}))
  BY <1>2, <1>3, <1>4
<1>6. CASE DiscardDraft(p)
  <2>1. root' = [root EXCEPT !.drafts = D1] /\ Continue(p, "draft") /\ "draft" \in Publishing \ {"undraft"}
        /\ UNCHANGED <<tombs, receipt, tmp, tx>>
    BY <1>6 DEF DiscardDraft, Publishing
  <2> QED
    BY ONLY <1>1, <1>5, <2>1, DraftStep, IInv, p \in Processes
<1>7. CASE OpenDraft(p)
  <2>1. root' = [root EXCEPT !.drafts = D2] /\ Continue(p, "fill") /\ "fill" \in Publishing \ {"undraft"}
        /\ UNCHANGED <<tombs, receipt, tmp, tx>>
    BY <1>7 DEF OpenDraft, Publishing
  <2> QED
    BY ONLY <1>1, <1>5, <2>1, DraftStep, IInv, p \in Processes
<1>8. CASE FillDraft(p)
  <2>1. root' = [root EXCEPT !.drafts = D3] /\ Continue(p, "link") /\ "link" \in Publishing \ {"undraft"}
        /\ UNCHANGED <<tombs, receipt, tmp, tx>>
    BY <1>8 DEF FillDraft, Publishing
  <2> QED
    BY ONLY <1>1, <1>5, <2>1, DraftStep, IInv, p \in Processes
<1> QED
  BY <1>6, <1>7, <1>8

LEMMA KeepsLinkMarker ==
    ASSUME IInv, NEW p \in Processes, LinkMarker(p)
    PROVE  IInv'
<1>1. pc[p] \in Working /\ pc[p] \in Publishing /\ "undraft" \in Inside
  BY DEF LinkMarker, Working, Publishing, Inside
<1>2. /\ tx.cur \in Receipts /\ Explains(tx.cur) /\ Follows(p) /\ receipt = tx.cur
      /\ root \in Directories /\ tombs \in [Ops -> Directories] /\ tx \in Transactions
      /\ pc[p] \in Inside /\ tmp \in BOOLEAN
  BY <1>1, InLoop
<1>3. tx.cur.phase = "marker-create-intent" /\ tx.pending = tx.cur.digest
  BY <1>1, <1>2 DEF Follows
<1>4. /\ root' = [root EXCEPT !.marker = tx.pending] /\ Continue(p, "undraft")
      /\ tombs' = tombs /\ receipt' = receipt /\ tmp' = tmp /\ tx' = tx
  BY DEF LinkMarker
<1>5. root' \in Directories /\ root'.there = root.there /\ root'.marker = tx.cur.digest
  BY <1>2, <1>3, <1>4 DEF Directories, Receipts
<1>6. Explained'
  BY <1>2, <1>3, <1>4, <1>5 DEF Explained, Explains
<1>7. pc'[p] = "undraft"
  BY <1>4 DEF Continue, Goto, IInv, TypeOK
<1>8. Follows(p)'
  BY <1>1, <1>2, <1>3, <1>4, <1>5, <1>7 DEF Follows, Working, Publishing
<1>9. Counted'
  BY <1>4 DEF IInv, Counted
<1> QED
  BY <1>1, <1>2, <1>4, <1>5, <1>6, <1>8, <1>9, Goes

LEMMA KeepsRemoveDraft ==
    ASSUME IInv, NEW p \in Processes, RemoveDraft(p)
    PROVE  IInv'
<1>1. pc[p] = "undraft" /\ pc[p] \in Working /\ pc[p] \in Publishing
  BY DEF RemoveDraft, Working, Publishing
<1>2. /\ tx.cur \in Receipts /\ Explains(tx.cur) /\ Follows(p) /\ receipt = tx.cur
      /\ root \in Directories /\ tombs \in [Ops -> Directories] /\ tx \in Transactions
  BY <1>1, InLoop
<1>3. tx.cur.phase = "marker-create-intent" /\ root.marker = tx.cur.digest
  BY <1>1, <1>2 DEF Follows
<1>4. /\ root' = [root EXCEPT !.drafts = root.drafts \ MyDrafts] /\ Advance(p, "marker-created")
      /\ tombs' = tombs /\ receipt' = receipt /\ tmp' = tmp
  BY DEF RemoveDraft
<1>5. root' \in Directories /\ root'.there = root.there /\ root'.marker = root.marker
  BY <1>2, <1>4 DEF Directories
<1>6. Explained'
  BY <1>2, <1>3, <1>4, <1>5 DEF Explained, Explains
<1>7. tx'.cur = tx.cur
  BY <1>2, <1>4 DEF Advance, Transactions
<1>8. Explains([tx.cur EXCEPT !.phase = "marker-created"])'
  BY <1>2, <1>3, <1>4, <1>5, <1>7 DEF Explains, InPlace, Receipts
<1>9. /\ "marker-created" \in Phases \ {"marker-create-intent"}
      /\ Rank("marker-created") > Rank(tx.cur.phase)
  BY <1>3 DEF Rank, Phases
<1>10. tombs' \in [Ops -> Directories]
  BY <1>2, <1>4
<1> QED
  BY <1>1, <1>4, <1>5, <1>6, <1>8, <1>9, <1>10, Advances

\* The marker is missing: the content this run has announced is published, or new content is announced.
LEMMA KeepsMarkerMissing ==
    ASSUME IInv, NEW p \in Processes, MarkerMissing(p)
    PROVE  IInv'
<1>1. /\ pc[p] = "loop" /\ pc[p] \in Working /\ UNCHANGED disk
      /\ tx.cur.phase = "marker-create-intent" /\ root.marker = NoBody
  BY DEF MarkerMissing, Turn, Turning, Working
<1>2. /\ tx.cur \in Receipts /\ Explains(tx.cur) /\ Follows(p) /\ receipt = tx.cur
      /\ tx \in Transactions /\ pc[p] \in Inside
  BY <1>1, InLoop
<1>3. /\ root' \in Directories /\ tombs' \in [Ops -> Directories] /\ tmp' \in BOOLEAN
      /\ receipt' \in Receipts \cup {NoReceipt}
  BY <1>1, DiskTyped DEF IInv
<1>4. root' = root /\ tombs' = tombs /\ receipt' = receipt
  BY <1>1 DEF disk
<1>5. Explained'
  BY <1>4, StillExplained DEF IInv
<1>6. CASE tx.pending # NoBody
  <2>1. tx' = tx /\ Continue(p, "draft") /\ "draft" \in Inside
    BY <1>6 DEF MarkerMissing, Inside
  <2>2. pc'[p] = "draft" /\ tx.pending = tx.cur.digest
    BY <1>1, <1>2, <1>6, <2>1 DEF Continue, Goto, IInv, TypeOK, Follows
  <2>3. Follows(p)'
    BY <1>1, <1>2, <1>4, <2>1, <2>2 DEF Follows, Working, Publishing
  <2>4. Counted'
    BY <2>1 DEF IInv, Counted
  <2> QED
    BY <1>2, <1>3, <1>5, <2>1, <2>3, <2>4, Goes
<1>7. CASE tx.pending = NoBody
  <2>1. /\ NewBody \in Bodies /\ Continue(p, "stage") /\ "stage" \in Inside
        /\ tx' = [tx EXCEPT !.next = [tx.cur EXCEPT !.digest = NewBody], !.pending = NewBody]
    BY <1>7 DEF MarkerMissing, NewBody, Inside
  <2>2. /\ tx' \in Transactions /\ tx'.cur = tx.cur /\ tx'.next \in Receipts /\ tx'.steps = tx.steps
        /\ tx'.next.phase = "marker-create-intent" /\ tx'.next.op = tx.cur.op
        /\ tx'.pending = tx'.next.digest
    BY <1>1, <1>2, <2>1 DEF Transactions, Receipts
  <2>3. Explains(tx.next)'
    BY <1>1, <1>2, <1>4, <2>2 DEF Explains
  <2>4. Announced'
    BY <1>1, <1>2, <2>2, <2>3, Placeholders DEF Announced
  <2>5. pc'[p] = "stage"
    BY <2>1 DEF Continue, Goto, IInv, TypeOK
  <2>6. Follows(p)'
    BY <1>2, <1>4, <2>2, <2>4, <2>5 DEF Follows, Working, Publishing
  <2>7. Counted'
    BY <2>2 DEF IInv, Counted
  <2> QED
    BY <1>2, <1>3, <1>5, <2>1, <2>2, <2>6, <2>7, Goes
<1> QED
  BY <1>6, <1>7

\* The root is renamed to the tombstone, which is not there.
LEMMA KeepsRenameRoot ==
    ASSUME IInv, NEW p \in Processes, RenameRoot(p)
    PROVE  IInv'
<1>1. pc[p] \in Working /\ "verify" \in Inside /\ "verify" \in Working /\ tx.cur.phase = "rename-intent"
  BY DEF RenameRoot, Turn, Turning, Working, Inside
<1>2. /\ tx.cur \in Receipts /\ Explains(tx.cur) /\ Follows(p) /\ receipt = tx.cur
      /\ root \in Directories /\ tombs \in [Ops -> Directories] /\ tx \in Transactions
      /\ pc[p] \in Inside /\ Op \in Ops /\ tmp \in BOOLEAN
  BY <1>1, InLoop
<1>3. /\ root.there /\ Marked(root)
      /\ tombs' = [tombs EXCEPT ![Op] = root] /\ root' = Missing
      /\ tx' = tx /\ Continue(p, "verify") /\ receipt' = receipt /\ tmp' = tmp
  BY DEF RenameRoot
<1>4. root' \in Directories /\ tombs' \in [Ops -> Directories] /\ root'.marker = NoBody
  BY <1>2, <1>3, MissingTyped DEF Missing
<1>5. Renaming(tx.cur)'
  BY <1>2, <1>3, <1>4 DEF Renaming, Marked, Op
<1>6. Explains(tx.cur)'
  BY <1>1, <1>2, <1>3, <1>5 DEF Explains, Op
<1>7. Explained'
  BY <1>2, <1>3, <1>6 DEF Explained
<1>8. pc'[p] = "verify"
  BY <1>3 DEF Continue, Goto, IInv, TypeOK
<1>9. Follows(p)'
  BY <1>1, <1>2, <1>3, <1>5, <1>8 DEF Follows, Working, Publishing
<1>10. Counted'
  BY <1>3 DEF IInv, Counted
<1> QED
  BY <1>1, <1>2, <1>3, <1>4, <1>7, <1>9, <1>10, Goes

LEMMA KeepsDeleteIntent ==
    ASSUME IInv, NEW p \in Processes, DeleteIntent(p)
    PROVE  IInv'
<1>1. pc[p] \in Working /\ tx.cur.phase = "delete-intent" /\ UNCHANGED disk /\ tx' = tx /\ ~AlreadyDeleted
  BY DEF DeleteIntent, Turn, Turning, Working
<1>2. PICK q \in {"clear", "rmdir"} : /\ Continue(p, q)
                                      /\ q = IF Marked(tombs[Op]) THEN "clear" ELSE "rmdir"
  BY DEF DeleteIntent
<1>3. /\ tx.cur \in Receipts /\ Follows(p) /\ receipt = tx.cur /\ tx \in Transactions /\ pc[p] \in Inside
  BY <1>1, InLoop
<1>4. /\ root' \in Directories /\ tombs' \in [Ops -> Directories] /\ tmp' \in BOOLEAN
      /\ receipt' \in Receipts \cup {NoReceipt}
  BY <1>1, DiskTyped DEF IInv
<1>5. root' = root /\ tombs' = tombs /\ receipt' = receipt /\ q \in Inside /\ q \in Working
  BY <1>1 DEF disk, Inside, Working
<1>6. Explained'
  BY <1>5, StillExplained DEF IInv
<1>7. tombs[Op].there /\ (Marked(tombs[Op]) \/ (tombs[Op].marker = NoBody /\ Bare(tombs[Op])))
  BY <1>1 DEF DeleteIntent, AlreadyDeleted
<1>8. pc'[p] = q
  BY <1>2 DEF Continue, Goto, IInv, TypeOK
<1>9. q = "clear" => tombs[Op].marker = tx.cur.digest
  BY <1>2 DEF Marked
<1>10. q = "rmdir" => tombs[Op].marker = NoBody /\ Bare(tombs[Op])
  BY <1>2, <1>7
<1>11. Follows(p)'
  BY <1>1, <1>3, <1>5, <1>7, <1>8, <1>9, <1>10 DEF Follows, Working, Publishing, Op, Bare
<1>12. Counted'
  BY <1>1 DEF IInv, Counted
<1> QED
  BY <1>1, <1>2, <1>3, <1>4, <1>5, <1>6, <1>11, <1>12, Goes

\* A change of the tombstone under delete-intent.
LEMMA TombStep ==
    ASSUME IInv, NEW p \in Processes, pc[p] = "clear", NEW q \in {"clear", "rmdir"}, Continue(p, q),
           root' = root, receipt' = receipt, tmp' = tmp, tx' = tx,
           NEW d \in Directories, tombs' = [tombs EXCEPT ![Op] = d], d.there,
           IF q = "clear" THEN d.marker = tx.cur.digest ELSE d.marker = NoBody /\ Bare(d)
    PROVE  IInv'
<1>1. pc[p] \in Working /\ q \in Inside /\ q \in Working /\ q \notin Publishing
  BY DEF Working, Publishing, Inside
<1>2. /\ tx.cur \in Receipts /\ Explains(tx.cur) /\ Follows(p) /\ receipt = tx.cur
      /\ root \in Directories /\ tombs \in [Ops -> Directories] /\ tx \in Transactions
      /\ pc[p] \in Inside /\ Op \in Ops /\ tmp \in BOOLEAN
  BY <1>1, InLoop
<1>3. tx.cur.phase = "delete-intent"
  BY <1>2 DEF Follows
<1>4. tombs' \in [Ops -> Directories] /\ tombs'[Op] = d /\ \A o \in Ops \ {Op} : tombs'[o] = tombs[o]
  BY <1>2
<1>5. Explained'
  BY <1>2, <1>3, <1>4 DEF Explained, Explains, Op, Bare
<1>6. pc'[p] = q
  BY DEF Continue, Goto, IInv, TypeOK
<1>7. Follows(p)'
  BY <1>1, <1>2, <1>3, <1>4, <1>6 DEF Follows, Op, Bare
<1>8. Counted'
  BY DEF IInv, Counted
<1> QED
  BY <1>1, <1>2, <1>4, <1>5, <1>7, <1>8, Goes

LEMMA KeepsRemoveEntry ==
    ASSUME IInv, NEW p \in Processes, RemoveEntry(p)
    PROVE  IInv'
<1>1. pc[p] = "clear" /\ pc[p] \in Working
  BY DEF RemoveEntry, Working
<1>2. Follows(p) /\ tombs \in [Ops -> Directories] /\ Op \in Ops
  BY <1>1, InLoop
<1>3. /\ Continue(p, "clear") /\ root' = root /\ receipt' = receipt /\ tmp' = tmp /\ tx' = tx
  BY DEF RemoveEntry
<1>4. tombs[Op].there /\ tombs[Op].marker = tx.cur.digest
  BY <1>1, <1>2 DEF Follows, Op
<1>5. PICK d \in Directories : tombs' = [tombs EXCEPT ![Op] = d] /\ d.there /\ d.marker = tx.cur.digest
  <2>1. tombs[Op] \in Directories
    BY <1>2
  <2>2. CASE \E f \in tombs[Op].files : tombs' = [tombs EXCEPT ![Op].files = @ \ {f}]
    <3>1. PICK f \in tombs[Op].files : tombs' = [tombs EXCEPT ![Op].files = @ \ {f}]
      BY <2>2
    <3>2. tombs' = [tombs EXCEPT ![Op] = [tombs[Op] EXCEPT !.files = tombs[Op].files \ {f}]]
      BY <3>1
    <3>3. /\ [tombs[Op] EXCEPT !.files = tombs[Op].files \ {f}] \in Directories
          /\ [tombs[Op] EXCEPT !.files = tombs[Op].files \ {f}].there
          /\ [tombs[Op] EXCEPT !.files = tombs[Op].files \ {f}].marker = tx.cur.digest
      BY <2>1, <1>4 DEF Directories
    <3> QED
      BY <3>2, <3>3
  <2>3. CASE \E e \in tombs[Op].drafts : tombs' = [tombs EXCEPT ![Op].drafts = @ \ {e}]
    <3>1. PICK e \in tombs[Op].drafts : tombs' = [tombs EXCEPT ![Op].drafts = @ \ {e}]
      BY <2>3
    <3>2. tombs' = [tombs EXCEPT ![Op] = [tombs[Op] EXCEPT !.drafts = tombs[Op].drafts \ {e}]]
      BY <3>1
    <3>3. /\ [tombs[Op] EXCEPT !.drafts = tombs[Op].drafts \ {e}] \in Directories
          /\ [tombs[Op] EXCEPT !.drafts = tombs[Op].drafts \ {e}].there
          /\ [tombs[Op] EXCEPT !.drafts = tombs[Op].drafts \ {e}].marker = tx.cur.digest
      BY <2>1, <1>4 DEF Directories
    <3> QED
      BY <3>2, <3>3
  <2> QED
    BY <2>2, <2>3 DEF RemoveEntry
<1> QED
  BY <1>1, <1>3, <1>5, TombStep

LEMMA KeepsUnlinkMarker ==
    ASSUME IInv, NEW p \in Processes, UnlinkMarker(p)
    PROVE  IInv'
<1>1. pc[p] = "clear" /\ pc[p] \in Working
  BY DEF UnlinkMarker, Working
<1>2. Follows(p) /\ tombs \in [Ops -> Directories] /\ Op \in Ops
  BY <1>1, InLoop
<1>3. /\ Continue(p, "rmdir") /\ root' = root /\ receipt' = receipt /\ tmp' = tmp /\ tx' = tx
      /\ Bare(tombs[Op]) /\ tombs' = [tombs EXCEPT ![Op].marker = NoBody]
  BY DEF UnlinkMarker
<1>4. tombs[Op].there /\ tombs[Op] \in Directories
  BY <1>1, <1>2 DEF Follows, Op
<1> DEFINE d == [tombs[Op] EXCEPT !.marker = NoBody]
<1>5. d \in Directories /\ d.there /\ d.marker = NoBody /\ Bare(d)
  BY <1>3, <1>4 DEF Directories, Bare
<1>6. tombs' = [tombs EXCEPT ![Op] = d]
  BY <1>3
<1> QED
  BY <1>1, <1>3, <1>5, <1>6, TombStep

-----------------------------------------------------------------------------
(* Receipts. *)

\* A new receipt for a root that is there, while no other receipt is.
LEMMA KeepsNewReceipt ==
    ASSUME IInv, NEW p \in Processes, pc[p] \in Inside, receipt = NoReceipt, root.there,
           NewReceipt, Continue(p, "stage"), UNCHANGED disk
    PROVE  IInv'
<1>1. /\ tx' \in Transactions
      /\ tx'.next \in Receipts /\ tx'.next.phase = "marker-create-intent"
      /\ tx'.pending = tx'.next.digest /\ tx'.cur = NoReceipt /\ tx'.steps = 0
  BY NewReceiptIs DEF IInv
<1>2. /\ root' \in Directories /\ tombs' \in [Ops -> Directories] /\ tmp' \in BOOLEAN
      /\ receipt' \in Receipts \cup {NoReceipt}
  BY DiskTyped DEF IInv
<1>3. root' = root /\ tombs' = tombs /\ receipt' = receipt
  BY DEF disk
<1>4. Explained'
  BY <1>3, StillExplained DEF IInv
<1>5. root.marker = NoBody /\ \A o \in Ops : ~tombs[o].there
  BY DEF IInv, Explained, Explains, NoReceipt
<1>6. Explains(tx.next)'
  BY <1>1, <1>3, <1>5 DEF Explains, Receipts
<1>7. Announced'
  BY <1>1, <1>6 DEF Announced, NoReceipt
<1>8. pc'[p] = "stage" /\ "stage" \in Inside
  BY DEF Continue, Goto, IInv, TypeOK, Inside
<1>9. Follows(p)'
  BY <1>1, <1>3, <1>7, <1>8 DEF Follows, Working, Publishing
<1>10. Counted'
  BY <1>1 DEF Counted, Rank, NoReceipt
<1> QED
  BY <1>1, <1>2, <1>4, <1>8, <1>9, <1>10, Goes

LEMMA KeepsBeginNew ==
    ASSUME IInv, NEW p \in Processes, BeginNew(p)
    PROVE  IInv'
<1>1. pc[p] = "begin" /\ pc[p] \in Inside /\ header[p].status = "absent" /\ Follows(p)
  BY DEF BeginNew, Inside, IInv, Following
<1>2. receipt = NoReceipt
  BY <1>1 DEF Follows
<1> QED
  BY <1>1, <1>2, KeepsNewReceipt DEF BeginNew

LEMMA KeepsRetireAgain ==
    ASSUME IInv, NEW p \in Processes, RetireAgain(p)
    PROVE  IInv'
<1>1. pc[p] = "again" /\ pc[p] \in Inside /\ Follows(p)
  BY DEF RetireAgain, Inside, IInv, Following
<1>2. receipt = NoReceipt
  BY <1>1 DEF Follows
<1> QED
  BY <1>1, <1>2, KeepsNewReceipt DEF RetireAgain

LEMMA KeepsBeginRecovery ==
    ASSUME IInv, NEW p \in Processes, BeginRecovery(p)
    PROVE  IInv'
<1>1. /\ pc[p] = "begin" /\ pc[p] \in Inside /\ header[p].status = "valid" /\ Follows(p)
      /\ UNCHANGED disk /\ tx' = [NoTx EXCEPT !.cur = receipt]
  BY DEF BeginRecovery, Inside, IInv, Following
<1>2. receipt # NoReceipt /\ receipt \in Receipts
  BY <1>1 DEF Follows, IInv, TypeOK
<1>3. PICK q \in {"retire", "loop"} : /\ Continue(p, q)
                                      /\ q = IF receipt.phase = "closed" THEN "retire" ELSE "loop"
  BY DEF BeginRecovery
<1>4. /\ root' \in Directories /\ tombs' \in [Ops -> Directories] /\ tmp' \in BOOLEAN
      /\ receipt' \in Receipts \cup {NoReceipt}
  BY <1>1, DiskTyped DEF IInv
<1>5. root' = root /\ tombs' = tombs /\ receipt' = receipt
  BY <1>1 DEF disk
<1>6. Explained'
  BY <1>5, StillExplained DEF IInv
<1>7. tx' \in Transactions /\ tx'.cur = receipt /\ tx'.pending = NoBody /\ tx'.steps = 0
  BY <1>1, <1>2 DEF Transactions, NoTx
<1>8. pc'[p] = q /\ q \in Inside
  BY <1>3 DEF Continue, Goto, IInv, TypeOK, Inside
<1>9. Follows(p)'
  BY <1>2, <1>3, <1>5, <1>7, <1>8 DEF Follows, Working, Publishing
<1>10. Counted'
  BY <1>7 DEF Counted, Rank
<1> QED
  BY <1>1, <1>3, <1>4, <1>6, <1>7, <1>8, <1>9, <1>10, Goes

LEMMA KeepsStageReceipt ==
    ASSUME IInv, NEW p \in Processes, StageReceipt(p)
    PROVE  IInv'
<1>1. /\ pc[p] = "stage" /\ pc[p] \in Inside /\ "publish" \in Inside /\ Follows(p)
      /\ root' = root /\ tombs' = tombs /\ receipt' = receipt /\ tx' = tx /\ tmp' = TRUE
      /\ Continue(p, "publish")
  BY DEF StageReceipt, Inside, Writing, IInv, Following
<1>2. Explained'
  BY <1>1, StillExplained DEF IInv
<1>3. pc'[p] = "publish"
  BY <1>1 DEF Continue, Goto, IInv, TypeOK
<1>4. Explains(tx.next)'
  BY <1>1 DEF Follows, Announced, Explains, InPlace, Renaming, Bare
<1>5. Announced'
  BY <1>1, <1>4 DEF Follows, Announced
<1>6. Follows(p)'
  BY <1>1, <1>3, <1>5 DEF Follows, Working, Publishing
<1>7. Counted'
  BY <1>1 DEF IInv, Counted
<1>8. /\ root' \in Directories /\ tombs' \in [Ops -> Directories] /\ tmp' \in BOOLEAN
      /\ receipt' \in Receipts \cup {NoReceipt} /\ tx' \in Transactions
  BY <1>1 DEF IInv, TypeOK
<1> QED
  BY <1>1, <1>2, <1>6, <1>7, <1>8, Goes

LEMMA KeepsLinkReceipt ==
    ASSUME IInv, NEW p \in Processes, LinkReceipt(p)
    PROVE  IInv'
<1>1. /\ pc[p] = "publish" /\ pc[p] \in Inside /\ "settle" \in Inside /\ Follows(p)
      /\ root' = root /\ tombs' = tombs /\ receipt' = tx.next /\ tx' = tx /\ tmp' = tmp
      /\ tx.cur = NoReceipt /\ Continue(p, "settle")
  BY DEF LinkReceipt, Inside, Writing, IInv, Following
<1>2. Announced
  BY <1>1 DEF Follows
<1>3. pc'[p] = "settle"
  BY <1>1 DEF Continue, Goto, IInv, TypeOK
<1>4. Explains(tx.next)'
  BY <1>1, <1>2 DEF Announced, Explains, InPlace, Renaming, Bare
<1>5. Announced'
  BY <1>1, <1>2, <1>4 DEF Announced
<1>6. Explained'
  BY <1>1, <1>4 DEF Explained
<1>7. Follows(p)'
  BY <1>1, <1>3, <1>5 DEF Follows, Working, Publishing
<1>8. Counted'
  BY <1>1 DEF IInv, Counted
<1>9. /\ root' \in Directories /\ tombs' \in [Ops -> Directories] /\ tmp' \in BOOLEAN
      /\ receipt' \in Receipts \cup {NoReceipt} /\ tx' \in Transactions
  BY <1>1, <1>2 DEF IInv, TypeOK, Announced
<1> QED
  BY <1>1, <1>6, <1>7, <1>8, <1>9, Goes

\* The announced receipt is on disk, and the run knows it.
LEMMA KeepsWritten ==
    ASSUME IInv, NEW p \in Processes, pc[p] \in Inside, Announced,
           Written(p, tx.next), root' = root, tombs' = tombs, receipt' = tx.next, tmp' = FALSE
    PROVE  IInv'
<1> DEFINE n == tx.next
           opening == n.phase = "marker-create-intent"
           q == IF n.phase = "closed" THEN "retire"
                ELSE IF tx.cur # NoReceipt /\ opening THEN "draft" ELSE "loop"
<1>1. tx \in Transactions /\ n \in Receipts /\ n # NoReceipt
  BY Placeholders DEF IInv, TypeOK, Announced
<1>2. TypeOK'
  <2>1. /\ root' \in Directories /\ tombs' \in [Ops -> Directories] /\ tmp' \in BOOLEAN
        /\ receipt' \in Receipts \cup {NoReceipt}
    BY <1>1 DEF IInv, TypeOK
  <2> QED
    BY <1>1, <2>1, WrittenTyped DEF IInv
<1>3. tx' = [tx EXCEPT !.cur = n, !.next = NoReceipt,
                       !.pending = IF opening THEN tx.pending ELSE NoBody,
                       !.steps = IF tx.cur = NoReceipt \/ opening THEN tx.steps ELSE tx.steps + 1]
  BY DEF Written
<1>4. /\ tx'.cur = n /\ tx'.pending = IF opening THEN tx.pending ELSE NoBody
      /\ tx'.steps = IF tx.cur = NoReceipt \/ opening THEN tx.steps ELSE tx.steps + 1
  BY <1>1, <1>3 DEF Transactions
<1>5. Continue(p, q)
  BY DEF Written
<1>6. q \in Inside
  BY DEF Inside
<1>7. pc'[p] = q
  BY <1>5 DEF Continue, Goto, IInv, TypeOK
<1>8. Explained'
  BY DEF Explained, Announced, Explains, InPlace, Renaming, Bare
<1>9. opening => tx.pending = n.digest /\ tx.cur.phase \in {"none", "marker-create-intent"}
  BY DEF Announced
<1>10. Follows(p)'
  <2>1. CASE q = "retire"
    BY <1>4, <1>7, <2>1 DEF Follows, Working, Publishing
  <2>2. CASE q = "draft"
    BY <1>1, <1>4, <1>7, <1>9, <2>2 DEF Follows, Working, Publishing
  <2>3. CASE q = "loop"
    BY <1>1, <1>4, <1>7, <1>9, <2>3 DEF Follows, Working, Publishing
  <2> QED
    BY <2>1, <2>2, <2>3
<1>11. Counted'
  <2>1. tx.steps \in Nat /\ tx.steps <= Rank(tx.cur.phase)
    BY <1>1 DEF Transactions, IInv, Counted
  <2>2. Rank(n.phase) \in 0..6 /\ Rank(tx.cur.phase) \in 0..6
    BY DEF Rank
  <2>3. CASE opening
    <3>1. Rank(tx.cur.phase) = 0
      BY <1>9, <2>3 DEF Rank
    <3> QED
      BY <1>4, <2>1, <2>2, <2>3, <3>1 DEF Counted
  <2>4. CASE ~opening
    <3>1. Rank(n.phase) > Rank(tx.cur.phase) /\ tx.cur # NoReceipt
      BY <2>4 DEF Announced
    <3> QED
      BY <1>4, <2>1, <2>2, <2>4, <3>1 DEF Counted
  <2> QED
    BY <2>3, <2>4
<1>12. Held' /\ Reporting' /\ Following'
  BY <1>5, <1>6, <1>10, InsideStep DEF IInv
<1> QED
  BY <1>2, <1>8, <1>11, <1>12 DEF IInv

LEMMA KeepsReplaceReceipt ==
    ASSUME IInv, NEW p \in Processes, ReplaceReceipt(p)
    PROVE  IInv'
<1>1. /\ pc[p] = "publish" /\ pc[p] \in Inside /\ Follows(p) /\ Written(p, tx.next)
      /\ root' = root /\ tombs' = tombs /\ receipt' = tx.next /\ tmp' = FALSE
  BY DEF ReplaceReceipt, Inside, Writing, IInv, Following
<1>2. Announced
  BY <1>1 DEF Follows
<1> QED
  BY <1>1, <1>2, KeepsWritten

LEMMA KeepsSettleReceipt ==
    ASSUME IInv, NEW p \in Processes, SettleReceipt(p)
    PROVE  IInv'
<1>1. /\ pc[p] = "settle" /\ pc[p] \in Inside /\ Follows(p) /\ Written(p, tx.next)
      /\ root' = root /\ tombs' = tombs /\ receipt' = receipt /\ tmp' = FALSE
  BY DEF SettleReceipt, Inside, Writing, IInv, Following
<1>2. Announced /\ receipt = tx.next
  BY <1>1 DEF Follows
<1> QED
  BY <1>1, <1>2, KeepsWritten

LEMMA KeepsRetire ==
    ASSUME IInv, NEW p \in Processes, Retire(p)
    PROVE  IInv'
<1>1. /\ pc[p] = "retire" /\ pc[p] \in Inside /\ Follows(p) /\ "again" \in Inside
      /\ root' = root /\ tombs' = tombs /\ receipt' = NoReceipt /\ tmp' = tmp
      /\ tx' = [NoTx EXCEPT !.retired = tx.retired + 1] /\ Continue(p, "again")
  BY DEF Retire, Inside, IInv, Following
<1>2. tx' \in Transactions /\ tx'.cur = NoReceipt /\ tx'.steps = 0
  BY <1>1 DEF IInv, TypeOK, Transactions, NoTx
<1>3. receipt.phase = "closed"
  BY <1>1 DEF Follows
<1>4. Explained'
  BY <1>1, <1>3 DEF IInv, Explained, Explains, NoReceipt
<1>5. pc'[p] = "again"
  BY <1>1 DEF Continue, Goto, IInv, TypeOK
<1>6. Follows(p)'
  BY <1>1, <1>2, <1>5 DEF Follows, Working, Publishing
<1>7. Counted'
  BY <1>2 DEF Counted, Rank, NoReceipt
<1>8. /\ root' \in Directories /\ tombs' \in [Ops -> Directories] /\ tmp' \in BOOLEAN
      /\ receipt' \in Receipts \cup {NoReceipt}
  BY <1>1 DEF IInv, TypeOK
<1> QED
  BY <1>1, <1>2, <1>4, <1>6, <1>7, <1>8, Goes

-----------------------------------------------------------------------------
(* The end of a run, and steps outside of the transaction. *)

\* None of the preconditions the transaction tests fails.
LEMMA NothingIsUnsafe ==
    ASSUME IInv, NEW p \in Processes
    PROVE  ~Unsafe(p)
<1>1. Follows(p) /\ Explained /\ Counted /\ tx \in Transactions
  BY DEF IInv, Following, TypeOK
<1>2. ASSUME pc[p] \in Working
      PROVE  Explains(tx.cur) /\ receipt = tx.cur /\ tx.cur \in Receipts
  BY <1>2, InLoop
<1>3. ~(pc[p] = "begin" /\ header[p].status = "valid" /\ receipt.op # header[p].op)
  BY <1>1 DEF Follows
<1>4. ~(pc[p] = "stage" /\ receipt # tx.cur)
  BY <1>1 DEF Follows
<1>5. ~(pc[p] = "loop" /\ tx.steps >= MaxTransitions)
  <2>1. tx.steps \in Nat /\ MaxTransitions \in Nat /\ MaxTransitions >= 7
    BY <1>1, BoundsAssumption DEF Transactions
  <2>2. Rank(tx.cur.phase) \in 0..6
    BY DEF Rank
  <2> QED
    BY <1>1, <2>1, <2>2 DEF Counted
<1>6. ASSUME NEW phase, Turn(p, phase)
      PROVE  /\ pc[p] \in Working /\ tx.cur.phase = phase
             /\ Explains(tx.cur) /\ receipt = tx.cur /\ tx.cur \in Receipts /\ ~AlreadyDeleted
  BY <1>2, <1>6 DEF Turn, Turning, Working
<1>7. ~(Turn(p, "marker-create-intent") /\ tombs[Op].there /\ ~Marked(tombs[Op]))
  BY <1>6 DEF Explains, Op
<1>8. ~(Turn(p, "marker-create-intent") /\ ~tombs[Op].there /\ ~Marked(root) /\ root.marker # NoBody)
  BY <1>6 DEF Explains, Op, Marked
<1>9. ~(pc[p] = "link" /\ root.marker \notin {NoBody, tx.pending})
  BY <1>1, <1>2 DEF Follows, Working, Publishing, Explains
<1>10. ~(pc[p] = "undraft" /\ ~Marked(root))
  BY <1>1 DEF Follows, Marked
<1>11. ~(Turn(p, "marker-created") /\ ~Marked(IF tombs[Op].there THEN tombs[Op] ELSE root))
  BY <1>6 DEF Explains, InPlace, Op, Marked
<1>12. ~(Turn(p, "rename-intent") /\ ~Marked(IF tombs[Op].there THEN tombs[Op] ELSE root))
  BY <1>6 DEF Explains, InPlace, Renaming, Op, Marked
<1>13. ~(pc[p] = "verify" /\ ~Marked(tombs[Op]))
  BY <1>1 DEF Follows, Renaming, Op, Marked
<1>14. ~(Turn(p, "renamed") /\ ~(tombs[Op].there /\ Marked(tombs[Op])))
  BY <1>6 DEF Explains, Renaming, Op, Marked
<1>15. ~(Turn(p, "delete-intent") /\ ~Marked(tombs[Op])
                                  /\ ~(tombs[Op].marker = NoBody /\ Bare(tombs[Op])))
  BY <1>6 DEF Explains, AlreadyDeleted, Op, Marked
<1>16. ~(pc[p] = "clear" /\ Bare(tombs[Op]) /\ ~Marked(tombs[Op]))
  BY <1>1 DEF Follows, Op, Marked
<1>17. ~(Turn(p, "deleted") /\ tombs[Op].there)
  <2>1. ASSUME Turn(p, "deleted")
        PROVE  ~tombs[Op].there
    <3>1. Explains(tx.cur) /\ tx.cur.phase = "deleted" /\ tx.cur \in Receipts
      BY <1>6, <2>1
    <3> QED
      BY <3>1 DEF Explains, Receipts, Op
  <2> QED
    BY <2>1
<1>18. ~(pc[p] = "retire" /\ receipt \notin {tx.cur, NoReceipt})
  BY <1>1 DEF Follows
<1> QED
  BY <1>3, <1>4, <1>5, <1>7, <1>8, <1>9, <1>10, <1>11, <1>12, <1>13, <1>14, <1>15, <1>16, <1>17, <1>18
     DEF Unsafe

\* A run that ends inside leaves the disk as it is and gives the lease back.
LEMMA EndHolderKeeps ==
    ASSUME IInv, NEW p \in Processes, pc[p] \in Inside, NEW how \in Outcomes \ {"unsafe"},
           EndHolder(p, how), UNCHANGED disk
    PROVE  IInv'
<1>1. /\ pc' = [pc EXCEPT ![p] = "idle"] /\ lease' = Nobody /\ tx' = NoTx
      /\ outcome' = [outcome EXCEPT ![p] = how]
      /\ root' = root /\ tombs' = tombs /\ receipt' = receipt
  BY DEF EndHolder, End, Goto, disk
<1>2. TypeOK'
  <2>1. /\ root' \in Directories /\ tombs' \in [Ops -> Directories]
        /\ receipt' \in Receipts \cup {NoReceipt} /\ tmp' \in BOOLEAN
    BY DiskTyped DEF IInv
  <2> QED
    BY <1>1, <2>1, EndTyped, NoTxTyped DEF IInv, EndHolder
<1>3. Explained'
  BY <1>1, StillExplained DEF IInv
<1>4. Held' /\ Following' /\ Counted'
  BY <1>1, HolderEnds DEF IInv
<1>5. Reporting'
  BY <1>1, EndReports DEF IInv
<1> QED
  BY <1>2, <1>3, <1>4, <1>5 DEF IInv

LEMMA KeepsEnds ==
    ASSUME IInv, NEW p \in Processes, BeginEmpty(p) \/ RetireDone(p) \/ RecoveryFailure(p)
    PROVE  IInv'
<1>1. CASE BeginEmpty(p)
  BY <1>1, EndHolderKeeps DEF BeginEmpty, Inside, Outcomes
<1>2. CASE RetireDone(p)
  BY <1>2, EndHolderKeeps DEF RetireDone, Inside, Outcomes
<1>3. CASE RecoveryFailure(p)
  <2>1. Repeated(p)
    BY <1>3, NothingIsUnsafe DEF RecoveryFailure
  <2>2. EndHolder(p, "recreated") /\ UNCHANGED disk /\ pc[p] \in Inside
    BY <1>3, <2>1 DEF RecoveryFailure, Repeated, Inside
  <2> QED
    BY <2>2, EndHolderKeeps DEF Outcomes
<1> QED
  BY <1>1, <1>2, <1>3

LEMMA KeepsFaults ==
    ASSUME IInv, NEW p \in Processes, Crash(p) \/ Fail(p)
    PROVE  IInv'
<1>1. PICK how \in {"crashed", "failed"} : outcome' = [outcome EXCEPT ![p] = how]
  BY DEF Crash, Fail
<1>2. /\ pc[p] \in Inside /\ pc' = [pc EXCEPT ![p] = "idle"] /\ lease' = Nobody /\ tx' = NoTx
      /\ header' = [header EXCEPT ![p] = NoHeader] /\ discard' = [discard EXCEPT ![p] = FALSE]
      /\ root' = root /\ tombs' = tombs /\ receipt' = receipt /\ tmp' \in {tmp, FALSE}
      /\ faults' = faults + 1 /\ recreated' = recreated
  BY DEF Crash, Fail, disk
<1>3. how \in Outcomes \ {"unsafe"}
  BY DEF Outcomes
<1>4. TypeOK'
  <2>1. NoHeader \in Headers /\ "idle" \in Outside
    BY DEF NoHeader, Headers, Outside
  <2>2. /\ root' \in Directories /\ tombs' \in [Ops -> Directories]
        /\ receipt' \in Receipts \cup {NoReceipt}
        /\ lease' \in Processes \cup {Nobody} /\ tx' \in Transactions
        /\ faults' \in Nat /\ recreated' \in Nat
    BY <1>2, NoTxTyped DEF IInv, TypeOK
  <2>4. tmp' \in BOOLEAN
    BY <1>2 DEF IInv, TypeOK
  <2>3. /\ pc' \in [Processes -> Outside \cup Inside] /\ outcome' \in [Processes -> Outcomes]
        /\ header' \in [Processes -> Headers] /\ discard' \in [Processes -> BOOLEAN]
    BY <1>1, <1>2, <1>3, <2>1 DEF IInv, TypeOK
  <2> QED
    BY <2>2, <2>3, <2>4 DEF TypeOK
<1>5. Explained'
  BY <1>2, StillExplained DEF IInv
<1>6. Held' /\ Following' /\ Counted'
  BY <1>2, HolderEnds DEF IInv
<1>7. Reporting'
  BY <1>1, <1>2, <1>3, EndReports DEF IInv
<1> QED
  BY <1>4, <1>5, <1>6, <1>7 DEF IInv

\* A run that ends, or goes on, outside.
LEMMA OutsideEnds ==
    ASSUME IInv, NEW p \in Processes, pc[p] \in Outside, NEW how \in Outcomes \ {"unsafe"},
           End(p, how), UNCHANGED <<root, tombs, receipt, lease, tx>>, tmp' \in BOOLEAN
    PROVE  IInv'
<1>1. /\ pc' = [pc EXCEPT ![p] = "idle"] /\ header' = [header EXCEPT ![p] = NoHeader]
      /\ outcome' = [outcome EXCEPT ![p] = how]
  BY DEF End, Goto
<1>2. TypeOK'
  <2>1. /\ root' \in Directories /\ tombs' \in [Ops -> Directories]
        /\ receipt' \in Receipts \cup {NoReceipt}
        /\ lease' \in Processes \cup {Nobody} /\ tx' \in Transactions
    BY DEF IInv, TypeOK
  <2> QED
    BY <2>1, EndTyped DEF IInv
<1>3. pc[p] \notin Inside /\ "idle" \in Outside
  BY DEF Outside, Inside, Writing
<1>4. \A r \in Processes \ {p} : header'[r] = header[r]
  BY <1>1 DEF IInv, TypeOK
<1>5. Held' /\ Following'
  BY <1>1, <1>3, <1>4, OutsideStep DEF IInv
<1>6. Explained'
  BY StillExplained DEF IInv
<1>7. Reporting'
  BY <1>1, EndReports DEF IInv
<1>8. Counted'
  BY DEF IInv, Counted
<1> QED
  BY <1>2, <1>5, <1>6, <1>7, <1>8 DEF IInv

LEMMA OutsideGoes ==
    ASSUME IInv, NEW p \in Processes, pc[p] \in Outside, NEW q \in Outside \ {"idle"},
           pc' = [pc EXCEPT ![p] = q], tmp' \in BOOLEAN,
           UNCHANGED <<root, tombs, receipt, lease, tx, faults, recreated>>,
           \/ outcome' = [outcome EXCEPT ![p] = "none"]
           \/ outcome' = outcome /\ pc[p] # "idle",
           header' \in [Processes -> Headers], discard' \in [Processes -> BOOLEAN],
           \A r \in Processes \ {p} : header'[r] = header[r]
    PROVE  IInv'
<1>1. TypeOK'
  <2>1. "none" \in Outcomes
    BY DEF Outcomes
  <2>2. /\ root' \in Directories /\ tombs' \in [Ops -> Directories]
        /\ receipt' \in Receipts \cup {NoReceipt} /\ lease' \in Processes \cup {Nobody}
        /\ tx' \in Transactions /\ faults' \in Nat /\ recreated' \in Nat
    BY DEF IInv, TypeOK
  <2>3. pc' \in [Processes -> Outside \cup Inside] /\ outcome' \in [Processes -> Outcomes]
    BY <2>1 DEF IInv, TypeOK
  <2> QED
    BY <2>2, <2>3 DEF TypeOK
<1>2. pc[p] \notin Inside
  BY DEF Outside, Inside, Writing
<1>3. Held' /\ Following'
  BY <1>2, OutsideStep DEF IInv
<1>4. Explained'
  BY StillExplained DEF IInv
<1>5. Reporting'
  BY DEF IInv, TypeOK, Reporting
<1>6. Counted'
  BY DEF IInv, Counted
<1> QED
  BY <1>1, <1>3, <1>4, <1>5, <1>6 DEF IInv

LEMMA KeepsOutside ==
    ASSUME IInv, NEW p \in Processes,
           \/ Start(p, TRUE) \/ Start(p, FALSE) \/ StartupRefused(p) \/ StartupAdmitted(p)
           \/ Inspect(p) \/ InspectEnds(p) \/ Collect(p) \/ CollectEnds(p)
           \/ AcquireRefused(p) \/ AcquireTimesOut(p)
    PROVE  IInv'
<1>1. TypeOK /\ header \in [Processes -> Headers] /\ discard \in [Processes -> BOOLEAN]
      /\ tmp \in BOOLEAN
  BY DEF IInv, TypeOK
<1>2. ASSUME NEW d \in BOOLEAN, Start(p, d)
      PROVE  IInv'
  <2>1. PICK q \in {"startup", "inspect"} : pc' = [pc EXCEPT ![p] = q]
    BY <1>2 DEF Start
  <2>2. /\ pc[p] = "idle" /\ discard' = [discard EXCEPT ![p] = d]
        /\ outcome' = [outcome EXCEPT ![p] = "none"] /\ header' = header
        /\ UNCHANGED <<root, tombs, receipt, tmp, lease, tx, faults, recreated>>
    BY <1>2 DEF Start, disk
  <2>3. q \in Outside \ {"idle"} /\ pc[p] \in Outside
    BY <2>2 DEF Outside
  <2>4. discard' \in [Processes -> BOOLEAN]
    BY <1>1, <2>2
  <2> QED
    BY <1>1, <2>1, <2>2, <2>3, <2>4, OutsideGoes
<1>3. CASE StartupRefused(p)
  BY <1>3, OutsideEnds DEF StartupRefused, Outside, Outcomes
<1>4. CASE StartupAdmitted(p)
  <2>1. /\ pc[p] = "startup" /\ pc' = [pc EXCEPT ![p] = "inspect"] /\ tmp' = FALSE
        /\ UNCHANGED <<root, tombs, receipt, lease, tx, faults, recreated, outcome, header, discard>>
    BY <1>4 DEF StartupAdmitted, Continue, Goto
  <2> QED
    BY <1>1, <2>1, OutsideGoes DEF Outside
<1>5. CASE Inspect(p)
  <2>1. PICK q \in {"acquire", "collect"} : pc' = [pc EXCEPT ![p] = q]
    BY <1>5 DEF Inspect, Goto
  <2>2. /\ pc[p] = "inspect" /\ header' = [header EXCEPT ![p] = Seen]
        /\ UNCHANGED <<root, tombs, receipt, tmp, lease, tx, faults, recreated, outcome, discard>>
    BY <1>5 DEF Inspect, disk
  <2>3. Seen \in Headers
    BY DEF Seen, Headers, IInv, TypeOK, Receipts, NoReceipt
  <2>4. header' \in [Processes -> Headers] /\ \A r \in Processes \ {p} : header'[r] = header[r]
    BY <1>1, <2>2, <2>3
  <2> QED
    BY <1>1, <2>1, <2>2, <2>4, OutsideGoes DEF Outside
<1>6. CASE InspectEnds(p)
  <2>1. PICK how \in {"malformed", "refused", "empty"} : End(p, how)
    BY <1>6 DEF InspectEnds
  <2>2. pc[p] \in Outside /\ how \in Outcomes \ {"unsafe"}
    BY <1>6 DEF InspectEnds, Outside, Outcomes
  <2> QED
    BY <1>1, <1>6, <2>1, <2>2, OutsideEnds DEF InspectEnds, disk
<1>7. CASE Collect(p)
  <2>1. /\ pc[p] = "collect" /\ pc' = [pc EXCEPT ![p] = "acquire"]
        /\ UNCHANGED <<root, tombs, receipt, tmp, lease, tx, faults, recreated, outcome, header, discard>>
    BY <1>7 DEF Collect, Continue, Goto, disk
  <2> QED
    BY <1>1, <2>1, OutsideGoes DEF Outside
<1>8. CASE CollectEnds(p)
  <2>1. PICK how \in {"cancelled", "empty"} : End(p, how)
    BY <1>8 DEF CollectEnds
  <2>2. pc[p] \in Outside /\ how \in Outcomes \ {"unsafe"}
    BY <1>8 DEF CollectEnds, Outside, Outcomes
  <2> QED
    BY <1>1, <1>8, <2>1, <2>2, OutsideEnds DEF CollectEnds, disk
<1>9. CASE AcquireRefused(p)
  BY <1>9, OutsideEnds DEF AcquireRefused, Outside, Outcomes
<1>10. CASE AcquireTimesOut(p)
  BY <1>1, <1>10, OutsideEnds DEF AcquireTimesOut, Outside, Outcomes, disk
<1> QED
  BY <1>2, <1>3, <1>4, <1>5, <1>6, <1>7, <1>8, <1>9, <1>10

\* The lease is taken, and the posture of the run fits the receipt.
LEMMA KeepsAcquire ==
    ASSUME IInv, NEW p \in Processes, Acquire(p)
    PROVE  IInv'
<1>1. /\ pc[p] = "acquire" /\ lease = Nobody /\ lease' = p /\ pc' = [pc EXCEPT ![p] = "begin"]
      /\ tmp' = FALSE /\ root' = root /\ tombs' = tombs /\ receipt' = receipt /\ tx' = tx
      /\ header' = header /\ outcome' = outcome /\ PostureHolds(p)
      /\ discard' = discard /\ faults' = faults /\ recreated' = recreated
  BY DEF Acquire, Goto
<1>2. pc \in [Processes -> Outside \cup Inside] /\ "begin" \in Inside
  BY DEF IInv, TypeOK, Inside
<1>3. TypeOK'
  BY <1>1, <1>2 DEF IInv, TypeOK
<1>4. \A r \in Processes : pc[r] \notin Inside
  BY <1>1, NamesAssumption DEF IInv, Held
<1>5. Held'
  BY <1>1, <1>2, <1>4 DEF Held
<1>6. ASSUME NEW r \in Processes
      PROVE  Follows(r)'
  <2>1. CASE r # p
    <3>1. pc'[r] \notin Inside
      BY <1>1, <1>2, <1>4, <2>1
    <3> QED
      BY <3>1, OutsideKnowsNothing
  <2>2. CASE r = p
    <3>1. pc'[p] = "begin"
      BY <1>1, <1>2
    <3> QED
      BY <1>1, <2>2, <3>1 DEF PostureHolds, Follows, Working, Publishing
  <2> QED
    BY <2>1, <2>2
<1>7. Reporting'
  BY <1>1, <1>2 DEF IInv, Reporting
<1>8. Explained'
  BY <1>1, StillExplained DEF IInv
<1>9. Counted'
  BY <1>1 DEF IInv, Counted
<1> QED
  BY <1>3, <1>5, <1>6, <1>7, <1>8, <1>9 DEF IInv, Following

\* A receipt stays true when the root is created again beside it.
LEMMA RecreateExplains ==
    ASSUME NEW r, Explains(r), ~root.there, root' = Fresh, tombs' = tombs,
           r.phase \in Phases \cup {"none"}
    PROVE  /\ r.phase \notin {"marker-create-intent", "marker-created"}
           /\ root'.marker = NoBody /\ root.marker = NoBody
           /\ r.phase = "rename-intent" => Renaming(r)
<1>1. root'.marker = NoBody
  BY DEF Fresh, Missing
<1>2. r.phase = "rename-intent" => Renaming(r)
  BY DEF Explains, InPlace
<1>3. r.phase \notin {"marker-create-intent", "marker-created"}
  BY DEF Explains, InPlace
<1>4. root.marker = NoBody
  BY <1>2, <1>3 DEF Explains, Renaming, Phases
<1> QED
  BY <1>1, <1>2, <1>3, <1>4

LEMMA KeepsRecreate ==
    ASSUME IInv, Recreate
    PROVE  IInv'
<1>1. /\ ~root.there /\ root' = Fresh /\ recreated' = recreated + 1
      /\ UNCHANGED <<tombs, receipt, tmp, lease, pc, discard, header, tx, outcome, faults>>
  BY DEF Recreate
<1>2. TypeOK'
  BY <1>1, MissingTyped DEF IInv, TypeOK
<1>3. receipt.phase \in Phases \cup {"none"}
  BY DEF IInv, TypeOK, Receipts, NoReceipt
<1>4. root'.marker = NoBody
  BY <1>1 DEF Fresh, Missing
<1>5. Explained'
  BY <1>1, <1>3, RecreateExplains DEF IInv, Explained, Explains, Renaming, Bare
<1>6. Held' /\ Reporting' /\ Counted'
  BY <1>1 DEF IInv, Held, Reporting, Counted
<1>7. ASSUME NEW p \in Processes
      PROVE  Follows(p)'
  <2>1. Follows(p)
    BY DEF IInv, Following
  <2>2. pc[p] \in Publishing => FALSE
    <3>1. ASSUME pc[p] \in Publishing
          PROVE  FALSE
      <4>1. pc[p] \in Working
        BY <3>1 DEF Working
      <4>2. Explains(tx.cur)
        BY <4>1, InLoop
      <4> QED
        BY <1>1, <2>1, <3>1, <4>2 DEF Follows, Explains
    <3> QED
      BY <3>1
  <2>3. ASSUME Announced
        PROVE  Announced'
    <3>1. tx.next \in Receipts /\ Explains(tx.next) /\ tx.next.phase \in Phases
      BY <2>3 DEF Announced, Receipts
    <3>2. /\ tx.next.phase \notin {"marker-create-intent", "marker-created"}
          /\ tx.next.phase = "rename-intent" => Renaming(tx.next)
      BY <1>1, <3>1, RecreateExplains
    <3>3. Explains(tx.next)'
      BY <1>1, <1>4, <3>1, <3>2 DEF Explains, Renaming, Bare
    <3> QED
      BY <1>1, <2>3, <3>3 DEF Announced
  <2> QED
    BY <1>1, <1>4, <2>1, <2>2, <2>3 DEF Follows, Renaming, Bare, Publishing
<1> QED
  BY <1>2, <1>5, <1>6, <1>7 DEF IInv, Following

LEMMA KeepsOtherCommand ==
    ASSUME IInv, OtherCommand
    PROVE  IInv'
<1>1. /\ tmp' = FALSE
      /\ UNCHANGED <<root, tombs, receipt, lease, pc, discard, header, tx, outcome, faults, recreated>>
  BY DEF OtherCommand
<1>2. TypeOK'
  BY <1>1 DEF IInv, TypeOK
<1>3. Explained'
  BY <1>1, StillExplained DEF IInv
<1>4. Held' /\ Reporting' /\ Counted'
  BY <1>1 DEF IInv, Held, Reporting, Counted
<1>5. ASSUME NEW p \in Processes
      PROVE  Follows(p)'
  <2>1. Follows(p)
    BY DEF IInv, Following
  <2> QED
    BY <1>1, <2>1 DEF Follows, Announced, Explains, InPlace, Renaming, Bare
<1> QED
  BY <1>2, <1>3, <1>4, <1>5 DEF IInv, Following

-----------------------------------------------------------------------------
(* The invariant, and the theorems. *)

LEMMA Initially == Init => IInv
<1> SUFFICES ASSUME Init
             PROVE  IInv
  OBVIOUS
<1>1. TypeOK
  BY InitTyped
<1>2. Explained
  BY DEF Init, Explained, Explains, NoReceipt, Missing, Fresh
<1>3. \A p \in Processes : pc[p] \notin Inside /\ outcome[p] = "none"
  BY DEF Init, Inside, Writing
<1>4. Held
  BY <1>3, NamesAssumption DEF Init, Held
<1>5. Following
  BY <1>3 DEF Following, Follows, Inside, Writing, Working, Publishing
<1>6. Counted
  BY DEF Init, Counted, NoTx, NoReceipt, Rank
<1>7. Reporting
  BY <1>3 DEF Reporting
<1> QED
  BY <1>1, <1>2, <1>4, <1>5, <1>6, <1>7 DEF IInv

LEMMA StepKeeps ==
    ASSUME IInv, NEW p \in Processes, Step(p)
    PROVE  IInv'
<1>1. CASE StartupRefused(p) \/ StartupAdmitted(p) \/ Inspect(p) \/ InspectEnds(p) \/ Collect(p)
           \/ AcquireRefused(p)
  BY <1>1, KeepsOutside
<1>2. CASE Acquire(p) \/ BeginNew(p) \/ BeginRecovery(p) \/ RetireAgain(p)
  BY <1>2, KeepsAcquire, KeepsBeginNew, KeepsBeginRecovery, KeepsRetireAgain
<1>3. CASE StageReceipt(p) \/ ReplaceReceipt(p) \/ LinkReceipt(p) \/ SettleReceipt(p) \/ Retire(p)
  BY <1>3, KeepsStageReceipt, KeepsReplaceReceipt, KeepsLinkReceipt, KeepsSettleReceipt, KeepsRetire
<1>4. CASE SkipDeleted(p) \/ MarkerFound(p) \/ MarkerMissing(p) \/ MarkerCreated(p)
           \/ VerifyRenamed(p) \/ Renamed(p) \/ Deleted(p)
  BY <1>4, KeepsSkipDeleted, KeepsMarkerFound, KeepsMarkerMissing, KeepsMarkerCreated,
     KeepsVerifyRenamed, KeepsRenamed, KeepsDeleted
<1>5. CASE DiscardDraft(p) \/ OpenDraft(p) \/ FillDraft(p) \/ LinkMarker(p) \/ RemoveDraft(p)
  BY <1>5, KeepsDrafts, KeepsLinkMarker, KeepsRemoveDraft
<1>6. CASE RenameRoot(p) \/ DeleteIntent(p) \/ RemoveEntry(p) \/ UnlinkMarker(p) \/ RemoveDirectory(p)
  BY <1>6, KeepsRenameRoot, KeepsDeleteIntent, KeepsRemoveEntry, KeepsUnlinkMarker,
     KeepsRemoveDirectory
<1>7. CASE BeginEmpty(p) \/ RetireDone(p) \/ RecoveryFailure(p)
  BY <1>7, KeepsEnds
<1> QED
  BY <1>1, <1>2, <1>3, <1>4, <1>5, <1>6, <1>7 DEF Step

LEMMA Inductive ==
    ASSUME IInv, [Next]_vars
    PROVE  IInv'
<1>1. ASSUME NEW p \in Processes,
             Start(p, TRUE) \/ Start(p, FALSE) \/ CollectEnds(p) \/ AcquireTimesOut(p)
      PROVE  IInv'
  BY <1>1, KeepsOutside
<1>2. ASSUME NEW p \in Processes, Step(p)
      PROVE  IInv'
  BY <1>2, StepKeeps
<1>3. ASSUME NEW p \in Processes, Crash(p) \/ Fail(p)
      PROVE  IInv'
  BY <1>3, KeepsFaults
<1>4. CASE Recreate \/ OtherCommand
  BY <1>4, KeepsRecreate, KeepsOtherCommand
<1>5. CASE UNCHANGED vars
  <2>1. /\ root' = root /\ tombs' = tombs /\ receipt' = receipt /\ tmp' = tmp /\ lease' = lease
        /\ pc' = pc /\ discard' = discard /\ header' = header /\ tx' = tx /\ outcome' = outcome
        /\ faults' = faults /\ recreated' = recreated
    BY <1>5 DEF vars, disk
  <2>2. TypeOK'
    BY <2>1 DEF IInv, TypeOK
  <2>3. Explained'
    BY <2>1, StillExplained DEF IInv
  <2>4. Held' /\ Reporting' /\ Counted'
    BY <2>1 DEF IInv, Held, Reporting, Counted
  <2>5. ASSUME NEW p \in Processes
        PROVE  Follows(p)'
    <3>1. Follows(p)
      BY DEF IInv, Following
    <3> QED
      BY <2>1, <3>1 DEF Follows, Announced, Explains, InPlace, Renaming, Bare
  <2> QED
    BY <2>2, <2>3, <2>4, <2>5 DEF IInv, Following
<1> QED
  BY <1>1, <1>2, <1>3, <1>4, <1>5 DEF Next

LEMMA Invariant == Spec => []IInv
<1>1. Init => IInv
  BY Initially
<1>2. IInv /\ [Next]_vars => IInv'
  BY Inductive
<1> QED
  BY <1>1, <1>2, PTL DEF Spec

\* Every variable keeps its type: directories, receipts and transactions are what
\* user-removal-transaction.ts and user-removal-receipt.ts define.
THEOREM TypeCorrect == Spec => []TypeOK
<1>1. IInv => TypeOK
  BY DEF IInv
<1> QED
  BY <1>1, Invariant, PTL

\* No recovery ever meets a state that user-removal-transaction.ts refuses with recoveryFailure,
\* whatever crashed or failed before it.
THEOREM RecoveryIsSafe == Spec => []NeverUnsafe
<1>1. IInv => NeverUnsafe
  BY DEF IInv, Reporting, NeverUnsafe
<1> QED
  BY <1>1, Invariant, PTL

\* Every tombstone and every marker that is on disk belongs to the receipt of
\* user-removal-receipt.ts, so that a later run can account for it.
THEOREM NothingIsOrphaned == Spec => []Accounted
<1>1. ASSUME IInv
      PROVE  Accounted
  <2>1. Explains(receipt) /\ receipt \in Receipts \cup {NoReceipt}
    BY <1>1 DEF IInv, Explained, TypeOK
  <2>2. NoOrphan
    BY <2>1 DEF NoOrphan, RecoveryOpen, Explains
  <2>3. MarkerOwned
    <3>1. receipt.phase \in Phases \cup {"none"}
      BY <2>1 DEF Receipts, NoReceipt
    <3> QED
      BY <2>1, <3>1 DEF MarkerOwned, RecoveryOpen, Explains, InPlace, Renaming, Phases
  <2> QED
    BY <2>2, <2>3 DEF Accounted
<1> QED
  BY <1>1, Invariant, PTL

-----------------------------------------------------------------------------
(* What a step may never do. *)

\* The body of WriteAhead.
Announces ==
    /\ root.there /\ ~root'.there =>
          /\ receipt.phase = "rename-intent" /\ root.marker = receipt.digest
          /\ tombs'[receipt.op] = root
    /\ \A o \in Ops : tombs[o].there /\ tombs'[o] # tombs[o] =>
          receipt.phase = "delete-intent" /\ receipt.op = o

LEMMA UntouchedAnnounces ==
    ASSUME root' = root, tombs' = tombs
    PROVE  Announces
  BY DEF Announces

LEMMA RootAnnounces ==
    ASSUME IInv, NEW p \in Processes,
           \/ DiscardDraft(p) \/ OpenDraft(p) \/ FillDraft(p) \/ LinkMarker(p) \/ RemoveDraft(p)
    PROVE  Announces
<1>1. root \in Directories
  BY DEF IInv, TypeOK
<1>2. tombs' = tombs
  BY DEF DiscardDraft, OpenDraft, FillDraft, LinkMarker, RemoveDraft
<1>3. root'.there = root.there
  <2>1. CASE LinkMarker(p)
    <3>1. root' = [root EXCEPT !.marker = tx.pending]
      BY <2>1 DEF LinkMarker
    <3> QED
      BY <1>1, <3>1 DEF Directories
  <2>2. CASE DiscardDraft(p) \/ OpenDraft(p) \/ FillDraft(p) \/ RemoveDraft(p)
    <3>1. PICK D : root' = [root EXCEPT !.drafts = D]
      BY <2>2 DEF DiscardDraft, OpenDraft, FillDraft, RemoveDraft
    <3> QED
      BY <1>1, <3>1 DEF Directories
  <2> QED
    BY <2>1, <2>2
<1> QED
  BY <1>2, <1>3 DEF Announces

LEMMA RenameAnnounces ==
    ASSUME IInv, NEW p \in Processes, RenameRoot(p)
    PROVE  Announces
<1>1. pc[p] \in Working /\ tx.cur.phase = "rename-intent"
  BY DEF RenameRoot, Turn, Turning, Working
<1>2. receipt = tx.cur /\ Op \in Ops /\ tombs \in [Ops -> Directories]
  BY <1>1, InLoop
<1>3. Marked(root) /\ ~tombs[Op].there /\ tombs' = [tombs EXCEPT ![Op] = root]
  BY DEF RenameRoot
<1> QED
  BY <1>1, <1>2, <1>3 DEF Announces, Marked, Op

LEMMA DeletionAnnounces ==
    ASSUME IInv, NEW p \in Processes, RemoveEntry(p) \/ UnlinkMarker(p) \/ RemoveDirectory(p)
    PROVE  Announces
<1>1. pc[p] \in {"clear", "rmdir"} /\ pc[p] \in Working /\ root' = root
  BY DEF RemoveEntry, UnlinkMarker, RemoveDirectory, Working
<1>2. receipt = tx.cur /\ Op \in Ops /\ tombs \in [Ops -> Directories] /\ Follows(p)
  BY <1>1, InLoop
<1>3. receipt.phase = "delete-intent" /\ receipt.op = Op
  BY <1>1, <1>2 DEF Follows, Op
<1>4. PICK d : tombs' = [tombs EXCEPT ![Op] = d]
  <2>1. CASE RemoveDirectory(p)
    BY <2>1 DEF RemoveDirectory
  <2>2. CASE UnlinkMarker(p)
    <3>1. tombs' = [tombs EXCEPT ![Op] = [tombs[Op] EXCEPT !.marker = NoBody]]
      BY <2>2 DEF UnlinkMarker
    <3> QED
      BY <3>1
  <2>3. CASE RemoveEntry(p)
    <3>1. CASE \E f \in tombs[Op].files : tombs' = [tombs EXCEPT ![Op].files = @ \ {f}]
      <4>1. PICK f \in tombs[Op].files : tombs' = [tombs EXCEPT ![Op].files = @ \ {f}]
        BY <3>1
      <4>2. tombs' = [tombs EXCEPT ![Op] = [tombs[Op] EXCEPT !.files = tombs[Op].files \ {f}]]
        BY <4>1
      <4> QED
        BY <4>2
    <3>2. CASE \E e \in tombs[Op].drafts : tombs' = [tombs EXCEPT ![Op].drafts = @ \ {e}]
      <4>1. PICK e \in tombs[Op].drafts : tombs' = [tombs EXCEPT ![Op].drafts = @ \ {e}]
        BY <3>2
      <4>2. tombs' = [tombs EXCEPT ![Op] = [tombs[Op] EXCEPT !.drafts = tombs[Op].drafts \ {e}]]
        BY <4>1
      <4> QED
        BY <4>2
    <3> QED
      BY <2>3, <3>1, <3>2 DEF RemoveEntry
  <2> QED
    BY <2>1, <2>2, <2>3
<1>5. \A o \in Ops : o # Op => tombs'[o] = tombs[o]
  BY <1>2, <1>4
<1> QED
  BY <1>1, <1>3, <1>5 DEF Announces

LEMMA EveryStepAnnounces ==
    ASSUME IInv, Next
    PROVE  Announces
<1>1. ASSUME NEW p \in Processes,
             \/ Start(p, TRUE) \/ Start(p, FALSE) \/ CollectEnds(p) \/ AcquireTimesOut(p)
             \/ Crash(p) \/ Fail(p)
      PROVE  Announces
  <2>1. root' = root /\ tombs' = tombs
    BY <1>1 DEF Start, CollectEnds, AcquireTimesOut, Crash, Fail, disk
  <2> QED
    BY <2>1, UntouchedAnnounces
<1>2. ASSUME NEW p \in Processes, Step(p)
      PROVE  Announces
  <2>1. CASE StartupRefused(p) \/ StartupAdmitted(p) \/ Inspect(p) \/ InspectEnds(p) \/ Collect(p)
             \/ AcquireRefused(p) \/ Acquire(p)
    <3>1. root' = root /\ tombs' = tombs
      BY <2>1 DEF StartupRefused, StartupAdmitted, Inspect, InspectEnds, Collect, AcquireRefused,
         Acquire, disk
    <3> QED
      BY <3>1, UntouchedAnnounces
  <2>2. CASE BeginEmpty(p) \/ BeginNew(p) \/ BeginRecovery(p) \/ StageReceipt(p) \/ ReplaceReceipt(p)
             \/ LinkReceipt(p) \/ SettleReceipt(p) \/ Retire(p) \/ RetireDone(p) \/ RetireAgain(p)
             \/ RecoveryFailure(p)
    <3>1. root' = root /\ tombs' = tombs
      BY <2>2 DEF BeginEmpty, BeginNew, BeginRecovery, StageReceipt, ReplaceReceipt, LinkReceipt,
         SettleReceipt, Retire, RetireDone, RetireAgain, RecoveryFailure, disk
    <3> QED
      BY <3>1, UntouchedAnnounces
  <2>3. CASE SkipDeleted(p) \/ MarkerFound(p) \/ MarkerMissing(p) \/ MarkerCreated(p)
             \/ VerifyRenamed(p) \/ Renamed(p) \/ DeleteIntent(p) \/ Deleted(p)
    <3>1. root' = root /\ tombs' = tombs
      BY <2>3 DEF SkipDeleted, MarkerFound, MarkerMissing, MarkerCreated, VerifyRenamed, Renamed,
         DeleteIntent, Deleted, disk
    <3> QED
      BY <3>1, UntouchedAnnounces
  <2>4. CASE DiscardDraft(p) \/ OpenDraft(p) \/ FillDraft(p) \/ LinkMarker(p) \/ RemoveDraft(p)
    BY <2>4, RootAnnounces
  <2>5. CASE RenameRoot(p) \/ RemoveEntry(p) \/ UnlinkMarker(p) \/ RemoveDirectory(p)
    BY <2>5, RenameAnnounces, DeletionAnnounces
  <2> QED
    BY <1>2, <2>1, <2>2, <2>3, <2>4, <2>5 DEF Step
<1>3. CASE Recreate
  <2>1. ~root.there /\ tombs' = tombs
    BY <1>3 DEF Recreate
  <2> QED
    BY <2>1 DEF Announces
<1>4. CASE OtherCommand
  BY <1>4, UntouchedAnnounces DEF OtherCommand
<1> QED
  BY <1>1, <1>2, <1>3, <1>4 DEF Next

\* The live root goes away only by the rename user-removal-receipt.ts has announced for it, and
\* a tombstone changes only under its delete-intent.
THEOREM AnnouncedFirst == Spec => WriteAhead
<1>1. IInv /\ [Next]_vars => [Announces]_vars
  BY EveryStepAnnounces
<1>2. [][Announces]_vars => WriteAhead
  BY PTL DEF WriteAhead, Announces
<1> QED
  BY <1>1, <1>2, Invariant, PTL DEF Spec

\* What a report of removal promises.
Gone == /\ receipt = NoReceipt /\ ~root.there
        /\ \A o \in Ops : ~tombs[o].there

LEMMA OnlyRetireDoneReports ==
    ASSUME IInv, Next, NEW p \in Processes, pc[p] # "idle", outcome'[p] = "removed"
    PROVE  RetireDone(p)
<1>1. outcome[p] = "none" /\ outcome \in [Processes -> Outcomes]
  BY DEF IInv, Reporting, TypeOK
<1>2. ASSUME outcome' = outcome
      PROVE  FALSE
  BY <1>1, <1>2
<1>3. ASSUME NEW r \in Processes, NEW how, how # "removed", outcome' = [outcome EXCEPT ![r] = how]
      PROVE  FALSE
  BY <1>1, <1>3
<1>4. ASSUME NEW r \in Processes,
             \/ Start(r, TRUE) \/ Start(r, FALSE) \/ CollectEnds(r) \/ AcquireTimesOut(r)
             \/ Crash(r) \/ Fail(r)
      PROVE  FALSE
  <2>1. \E how : how # "removed" /\ outcome' = [outcome EXCEPT ![r] = how]
    BY <1>4 DEF Start, CollectEnds, AcquireTimesOut, Crash, Fail, End
  <2> QED
    BY <2>1, <1>3
<1>5. ASSUME NEW r \in Processes, Step(r), ~RetireDone(r)
      PROVE  FALSE
  <2>1. CASE StartupRefused(r) \/ InspectEnds(r) \/ AcquireRefused(r) \/ BeginEmpty(r)
             \/ RecoveryFailure(r)
    <3>1. \E how : how # "removed" /\ outcome' = [outcome EXCEPT ![r] = how]
      BY <2>1 DEF StartupRefused, InspectEnds, AcquireRefused, BeginEmpty, RecoveryFailure,
         EndHolder, End
    <3> QED
      BY <3>1, <1>3
  <2>2. CASE StartupAdmitted(r) \/ Inspect(r) \/ Collect(r) \/ Acquire(r) \/ BeginNew(r)
             \/ BeginRecovery(r) \/ StageReceipt(r) \/ ReplaceReceipt(r) \/ LinkReceipt(r)
             \/ SettleReceipt(r) \/ Retire(r) \/ RetireAgain(r)
    <3>1. outcome' = outcome
      BY <2>2 DEF StartupAdmitted, Inspect, Collect, Acquire, BeginNew, BeginRecovery, StageReceipt,
         ReplaceReceipt, LinkReceipt, SettleReceipt, Retire, RetireAgain, Written, Continue
    <3> QED
      BY <3>1, <1>2
  <2>3. CASE SkipDeleted(r) \/ MarkerFound(r) \/ MarkerMissing(r) \/ MarkerCreated(r)
             \/ VerifyRenamed(r) \/ Renamed(r) \/ DeleteIntent(r) \/ Deleted(r)
             \/ DiscardDraft(r) \/ OpenDraft(r) \/ FillDraft(r) \/ LinkMarker(r) \/ RemoveDraft(r)
             \/ RenameRoot(r) \/ RemoveEntry(r) \/ UnlinkMarker(r) \/ RemoveDirectory(r)
    <3>1. outcome' = outcome
      BY <2>3 DEF SkipDeleted, MarkerFound, MarkerMissing, MarkerCreated, VerifyRenamed, Renamed,
         DeleteIntent, Deleted, DiscardDraft, OpenDraft, FillDraft, LinkMarker, RemoveDraft,
         RenameRoot, RemoveEntry, UnlinkMarker, RemoveDirectory, Advance, Continue
    <3> QED
      BY <3>1, <1>2
  <2> QED
    BY <1>5, <2>1, <2>2, <2>3 DEF Step
<1>6. CASE Recreate \/ OtherCommand
  BY <1>2, <1>6 DEF Recreate, OtherCommand
<1>7. PICK r \in Processes : RetireDone(r)
  BY <1>4, <1>5, <1>6 DEF Next
<1>8. outcome' = [outcome EXCEPT ![r] = "removed"]
  BY <1>7 DEF RetireDone, EndHolder, End
<1>9. r = p
  BY <1>1, <1>8
<1> QED
  BY <1>7, <1>9

\* A run that reports 'removed' (user-removal.ts) leaves neither a receipt nor a tombstone, and
\* the user root was missing when it looked.
THEOREM RemovalIsTrue == Spec => RemovedMeansGone
<1> DEFINE Report == \A p \in Processes : pc[p] # "idle" /\ outcome'[p] = "removed" =>
                        receipt = NoReceipt /\ ~root.there /\ \A o \in Ops : ~tombs[o].there
<1>1. ASSUME IInv, [Next]_vars
      PROVE  [Report]_vars
  <2>1. CASE UNCHANGED vars
    BY <2>1
  <2>2. ASSUME Next, NEW p \in Processes, pc[p] # "idle", outcome'[p] = "removed"
        PROVE  Gone
    <3>1. RetireDone(p)
      BY <1>1, <2>2, OnlyRetireDoneReports
    <3>2. pc[p] = "again" /\ ~root.there
      BY <3>1 DEF RetireDone
    <3>3. receipt = NoReceipt
      BY <1>1, <3>2 DEF IInv, Following, Follows
    <3>4. \A o \in Ops : ~tombs[o].there
      BY <1>1, <3>3 DEF IInv, Explained, Explains, NoReceipt
    <3> QED
      BY <3>2, <3>3, <3>4 DEF Gone
  <2> QED
    BY <1>1, <2>1, <2>2 DEF Gone
<1>2. [][Report]_vars => RemovedMeansGone
  BY PTL DEF RemovedMeansGone
<1> QED
  BY <1>1, <1>2, Invariant, PTL DEF Spec

-----------------------------------------------------------------------------
(* The refinement. *)

\* What the steps of Next may do to the disk: the rest leaves root, tombstones and receipt.
LEMMA DiskSteps ==
    ASSUME [Next]_vars
    PROVE  \/ UNCHANGED <<root, tombs, receipt>>
           \/ Recreate
           \/ \E p \in Processes :
                 \/ DiscardDraft(p) \/ OpenDraft(p) \/ FillDraft(p) \/ RemoveDraft(p)
                 \/ LinkMarker(p) \/ RenameRoot(p)
                 \/ RemoveEntry(p) \/ UnlinkMarker(p) \/ RemoveDirectory(p)
                 \/ LinkReceipt(p) \/ ReplaceReceipt(p) \/ Retire(p)
<1>1. CASE UNCHANGED vars
  BY <1>1 DEF vars, disk
<1>2. ASSUME NEW p \in Processes,
             \/ Start(p, TRUE) \/ Start(p, FALSE) \/ CollectEnds(p) \/ AcquireTimesOut(p)
             \/ Crash(p) \/ Fail(p)
      PROVE  UNCHANGED <<root, tombs, receipt>>
  BY <1>2 DEF Start, CollectEnds, AcquireTimesOut, Crash, Fail, disk
<1>3. CASE OtherCommand
  BY <1>3 DEF OtherCommand
<1>4. ASSUME NEW p \in Processes,
             \/ StartupRefused(p) \/ StartupAdmitted(p) \/ Inspect(p) \/ InspectEnds(p)
             \/ Collect(p) \/ AcquireRefused(p) \/ Acquire(p) \/ BeginEmpty(p) \/ BeginNew(p)
             \/ BeginRecovery(p) \/ StageReceipt(p) \/ SettleReceipt(p) \/ RetireDone(p)
             \/ RetireAgain(p) \/ RecoveryFailure(p)
      PROVE  UNCHANGED <<root, tombs, receipt>>
  BY <1>4 DEF StartupRefused, StartupAdmitted, Inspect, InspectEnds, Collect, AcquireRefused,
     Acquire, BeginEmpty, BeginNew, BeginRecovery, StageReceipt, SettleReceipt, RetireDone,
     RetireAgain, RecoveryFailure, disk
<1>5. ASSUME NEW p \in Processes,
             \/ SkipDeleted(p) \/ MarkerFound(p) \/ MarkerMissing(p) \/ MarkerCreated(p)
             \/ VerifyRenamed(p) \/ Renamed(p) \/ DeleteIntent(p) \/ Deleted(p)
      PROVE  UNCHANGED <<root, tombs, receipt>>
  BY <1>5 DEF SkipDeleted, MarkerFound, MarkerMissing, MarkerCreated, VerifyRenamed, Renamed,
     DeleteIntent, Deleted, disk
<1> QED
  BY <1>1, <1>2, <1>3, <1>4, <1>5 DEF Next, Step

\* The live root has all its entries: nothing is deleted before the rename.
Whole == root.there => root.files = Files

\* A step that writes a temporary of the marker changes nothing else in the root.
LEMMA DraftsOnly ==
    ASSUME IInv, NEW p \in Processes,
           DiscardDraft(p) \/ OpenDraft(p) \/ FillDraft(p) \/ RemoveDraft(p)
    PROVE  /\ root'.there = root.there /\ root'.marker = root.marker /\ root'.files = root.files
           /\ tombs' = tombs /\ receipt' = receipt
<1>1. root \in Directories
  BY DEF IInv, TypeOK
<1>2. PICK D : root' = [root EXCEPT !.drafts = D]
  BY DEF DiscardDraft, OpenDraft, FillDraft, RemoveDraft
<1>3. tombs' = tombs /\ receipt' = receipt
  BY DEF DiscardDraft, OpenDraft, FillDraft, RemoveDraft
<1> QED
  BY <1>1, <1>2, <1>3 DEF Directories

\* The marker is linked in a root that stays, under an open receipt.
LEMMA LinkMarkerOnly ==
    ASSUME IInv, NEW p \in Processes, LinkMarker(p)
    PROVE  /\ root.there /\ root'.there /\ root'.files = root.files
           /\ root'.marker \in Bodies /\ root.marker \in {NoBody, root'.marker}
           /\ tombs' = tombs /\ receipt' = receipt /\ RecoveryOpen
<1>1. pc[p] \in Working /\ pc[p] \in Publishing
  BY DEF LinkMarker, Working, Publishing
<1>2. /\ tx.cur \in Receipts /\ Explains(tx.cur) /\ Follows(p) /\ receipt = tx.cur
      /\ root \in Directories
  BY <1>1, InLoop
<1>3. tx.cur.phase = "marker-create-intent" /\ tx.pending = tx.cur.digest
  BY <1>1, <1>2 DEF Follows
<1>4. /\ root' = [root EXCEPT !.marker = tx.pending] /\ root.marker \in {NoBody, tx.pending}
      /\ tombs' = tombs /\ receipt' = receipt
  BY DEF LinkMarker
<1>5. root'.there = root.there /\ root'.files = root.files /\ root'.marker = tx.cur.digest
  BY <1>2, <1>3, <1>4 DEF Directories
<1>6. root.there /\ tx.cur.digest \in Bodies
  BY <1>2, <1>3 DEF Explains, Receipts
<1> QED
  BY <1>2, <1>3, <1>4, <1>5, <1>6 DEF RecoveryOpen

LEMMA InitWhole == Init => Whole
  BY DEF Init, Whole, Fresh, Missing

LEMMA KeepsWhole ==
    ASSUME IInv, Whole, [Next]_vars
    PROVE  Whole'
<1>1. CASE root' = root
  BY <1>1 DEF Whole
<1>2. CASE Recreate
  <2>1. root'.files = Files
    BY <1>2 DEF Recreate, Fresh, Missing
  <2> QED
    BY <2>1 DEF Whole
<1>6. ASSUME NEW p \in Processes, RenameRoot(p)
      PROVE  Whole'
  <2>1. ~root'.there
    BY <1>6 DEF RenameRoot, Missing
  <2> QED
    BY <2>1 DEF Whole
<1>3. ASSUME NEW p \in Processes,
             DiscardDraft(p) \/ OpenDraft(p) \/ FillDraft(p) \/ RemoveDraft(p)
      PROVE  Whole'
  BY <1>3, DraftsOnly DEF Whole
<1>4. ASSUME NEW p \in Processes, LinkMarker(p)
      PROVE  Whole'
  BY <1>4, LinkMarkerOnly DEF Whole
<1>5. ASSUME NEW p \in Processes,
             \/ RemoveEntry(p) \/ UnlinkMarker(p) \/ RemoveDirectory(p)
             \/ LinkReceipt(p) \/ ReplaceReceipt(p) \/ Retire(p)
      PROVE  root' = root
  BY <1>5 DEF RemoveEntry, UnlinkMarker, RemoveDirectory, LinkReceipt, ReplaceReceipt, Retire
<1> QED
  BY <1>1, <1>2, <1>3, <1>4, <1>5, <1>6, DiskSteps

\* Only one tombstone is there: what it holds is all that is doomed.
LEMMA DoomedIs ==
    ASSUME NEW dirs, NEW o \in Ops, \A q \in Ops : dirs[q].there => q = o,
           dirs[o].there \in BOOLEAN
    PROVE  Doomed(dirs) = [there |-> dirs[o].there,
                           files |-> IF dirs[o].there THEN dirs[o].files ELSE {}]
<1>1. CASE dirs[o].there
  <2>1. {q \in Ops : dirs[q].there} = {o}
    BY <1>1
  <2>2. UNION {dirs[q].files : q \in {o}} = dirs[o].files
    OBVIOUS
  <2> QED
    BY <1>1, <2>1, <2>2 DEF Doomed
<1>2. CASE ~dirs[o].there
  <2>1. {q \in Ops : dirs[q].there} = {}
    BY <1>2
  <2> QED
    BY <1>2, <2>1 DEF Doomed
<1> QED
  BY <1>1, <1>2

LEMMA DoomedNothing ==
    ASSUME NEW dirs, \A q \in Ops : ~dirs[q].there
    PROVE  Doomed(dirs) = Promise!Nothing
<1>1. {q \in Ops : dirs[q].there} = {}
  OBVIOUS
<1> QED
  BY <1>1 DEF Doomed, Promise!Nothing

\* A receipt is opened by the link of a new one and closed by the write of its last phase, when
\* the disk bears no trace of the removal.
LEMMA ReceiptStep ==
    ASSUME IInv, NEW p \in Processes, LinkReceipt(p) \/ ReplaceReceipt(p) \/ Retire(p)
    PROVE  Promise!RemovalNext \/ UNCHANGED Promise!removal
<1>1. root' = root /\ tombs' = tombs
  BY DEF LinkReceipt, ReplaceReceipt, Retire
<1>2. Follows(p) /\ tx.cur \in Receipts \cup {NoReceipt} /\ root \in Directories
  BY DEF IInv, Following, TypeOK, Transactions
<1>3. CASE LinkReceipt(p)
  <2>1. receipt = NoReceipt /\ receipt' = tx.next /\ tx.next.phase = "marker-create-intent"
    BY <1>2, <1>3 DEF LinkReceipt, Follows, Announced
  <2>2. ~RecoveryOpen /\ RecoveryOpen'
    BY <2>1 DEF RecoveryOpen, NoReceipt
  <2> QED
    BY <1>1, <2>2 DEF Promise!RemovalNext, Promise!Open
<1>4. CASE ReplaceReceipt(p)
  <2>1. /\ receipt = tx.cur /\ tx.cur \in Receipts /\ receipt' = tx.next /\ Announced
    BY <1>2, <1>4 DEF ReplaceReceipt, Follows
  <2>2. tx.cur.phase \in Phases \ {"closed"}
    BY <2>1 DEF Announced, Receipts, Phases, Rank
  <2>3. RecoveryOpen
    BY <2>1, <2>2 DEF RecoveryOpen, Phases
  <2>4. CASE tx.next.phase = "closed"
    <3>1. root.marker = NoBody /\ \A o \in Ops : ~tombs[o].there
      BY <2>1, <2>4 DEF Announced, Explains
    <3>2. Live(root) # "claimed" /\ ~Doomed(tombs).there
      BY <3>1, DoomedNothing DEF Live, Promise!Nothing
    <3>3. ~RecoveryOpen'
      BY <2>1, <2>4 DEF RecoveryOpen
    <3> QED
      BY <1>1, <2>3, <3>2, <3>3 DEF Promise!RemovalNext, Promise!Close
  <2>5. CASE tx.next.phase # "closed"
    <3>1. tx.next.phase \in Phases
      BY <2>1 DEF Announced, Receipts
    <3>2. RecoveryOpen'
      BY <2>1, <2>5, <3>1 DEF RecoveryOpen, Phases
    <3> QED
      BY <1>1, <2>3, <3>2 DEF Promise!removal
  <2> QED
    BY <2>4, <2>5
<1>5. CASE Retire(p)
  <2>1. receipt.phase = "closed" /\ receipt' = NoReceipt
    BY <1>2, <1>5 DEF Retire, Follows
  <2>2. RecoveryOpen' = RecoveryOpen
    BY <2>1 DEF RecoveryOpen, NoReceipt
  <2> QED
    BY <1>1, <2>2 DEF Promise!removal
<1> QED
  BY <1>3, <1>4, <1>5

\* The root is claimed, taken away or created, or only a temporary in it changes.
LEMMA RootStep ==
    ASSUME IInv, Whole,
           \/ Recreate
           \/ \E p \in Processes : \/ DiscardDraft(p) \/ OpenDraft(p) \/ FillDraft(p)
                                   \/ RemoveDraft(p) \/ LinkMarker(p) \/ RenameRoot(p)
    PROVE  Promise!RemovalNext \/ UNCHANGED Promise!removal
<1>1. root \in Directories /\ tombs \in [Ops -> Directories]
  BY DEF IInv, TypeOK
<1>2. CASE Recreate
  <2>1. Live(root) = "gone" /\ Live(root') = "plain" /\ tombs' = tombs /\ receipt' = receipt
    BY <1>2 DEF Recreate, Live, Fresh, Missing
  <2> QED
    BY <2>1 DEF Promise!RemovalNext, Promise!Appear, RecoveryOpen
<1>3. ASSUME NEW p \in Processes,
             DiscardDraft(p) \/ OpenDraft(p) \/ FillDraft(p) \/ RemoveDraft(p)
      PROVE  UNCHANGED Promise!removal
  BY <1>3, DraftsOnly DEF Promise!removal, Live, RecoveryOpen
<1>4. ASSUME NEW p \in Processes, LinkMarker(p)
      PROVE  Promise!RemovalNext \/ UNCHANGED Promise!removal
  <2>1. /\ Live(root') = "claimed" /\ Live(root) \in {"plain", "claimed"}
        /\ tombs' = tombs /\ receipt' = receipt /\ RecoveryOpen
    BY <1>4, LinkMarkerOnly, Placeholders DEF Live
  <2> QED
    BY <2>1 DEF Promise!RemovalNext, Promise!Claim, Promise!removal, RecoveryOpen
<1>5. ASSUME NEW p \in Processes, RenameRoot(p)
      PROVE  Promise!RemovalNext
  <2>1. pc[p] \in Working /\ tx.cur.phase = "rename-intent"
    BY <1>5 DEF RenameRoot, Turn, Turning, Working
  <2>2. /\ tx.cur \in Receipts /\ Explains(tx.cur) /\ receipt = tx.cur /\ Op \in Ops
    BY <2>1, InLoop
  <2>3. /\ root.there /\ ~tombs[Op].there /\ root.marker \in Bodies
        /\ tombs' = [tombs EXCEPT ![Op] = root] /\ root' = Missing /\ receipt' = receipt
    BY <1>5, <2>2 DEF RenameRoot, Marked, Receipts
  <2>4. \A q \in Ops : tombs[q].there => q = Op
    BY <2>2 DEF Explains, Op
  <2>5. \A q \in Ops : tombs'[q].there => q = Op
    BY <1>1, <2>3, <2>4
  <2>6. tombs'[Op] = root /\ root.there = TRUE
    BY <1>1, <2>2, <2>3 DEF Directories
  <2>7. ~Doomed(tombs).there
    <3>1. \A q \in Ops : ~tombs[q].there
      BY <2>3, <2>4
    <3> QED
      BY <3>1, DoomedNothing DEF Promise!Nothing
  <2>8. Doomed(tombs') = [there |-> TRUE, files |-> Files]
    <3>1. Doomed(tombs') = [there |-> root.there, files |-> IF root.there THEN root.files ELSE {}]
      BY <2>2, <2>5, <2>6, DoomedIs
    <3> QED
      BY <2>6, <3>1 DEF Whole
  <2>9. Live(root) = "claimed" /\ Live(root') = "gone"
    BY <2>3, Placeholders DEF Live, Missing
  <2>10. RecoveryOpen /\ RecoveryOpen'
    BY <2>1, <2>2, <2>3 DEF RecoveryOpen
  <2> QED
    BY <2>7, <2>8, <2>9, <2>10 DEF Promise!RemovalNext, Promise!TakeAway
<1> QED
  BY <1>2, <1>3, <1>4, <1>5

\* The tombstone of the open receipt loses an entry, or its marker, or goes away empty.
LEMMA TombstoneStep ==
    ASSUME IInv, NEW p \in Processes, RemoveEntry(p) \/ UnlinkMarker(p) \/ RemoveDirectory(p)
    PROVE  Promise!RemovalNext \/ UNCHANGED Promise!removal
<1>1. pc[p] \in {"clear", "rmdir"} /\ pc[p] \in Working /\ root' = root /\ receipt' = receipt
  BY DEF RemoveEntry, UnlinkMarker, RemoveDirectory, Working
<1>2. /\ tx.cur \in Receipts /\ Explains(tx.cur) /\ Follows(p) /\ receipt = tx.cur
      /\ tombs \in [Ops -> Directories] /\ Op \in Ops
  BY <1>1, InLoop
<1>3. tx.cur.phase = "delete-intent" /\ tombs[Op].there
  BY <1>1, <1>2 DEF Follows, Op
<1>4. RecoveryOpen /\ RecoveryOpen'
  BY <1>1, <1>2, <1>3 DEF RecoveryOpen
<1>5. \A q \in Ops : tombs[q].there => q = Op
  BY <1>2 DEF Explains, Op
<1>7. tombs[Op] \in Directories /\ tombs[Op].there = TRUE
  BY <1>2, <1>3 DEF Directories
<1>6. Doomed(tombs) = [there |-> TRUE, files |-> tombs[Op].files]
  BY <1>2, <1>5, <1>7, DoomedIs
<1>8. ASSUME NEW d, tombs' = [tombs EXCEPT ![Op] = d], d.there \in BOOLEAN
      PROVE  Doomed(tombs') = [there |-> d.there, files |-> IF d.there THEN d.files ELSE {}]
  <2>1. tombs'[Op] = d /\ \A q \in Ops : tombs'[q].there => q = Op
    BY <1>2, <1>5, <1>8
  <2> QED
    BY <1>2, <1>8, <2>1, DoomedIs
<1>9. ASSUME NEW f \in tombs[Op].files, tombs' = [tombs EXCEPT ![Op].files = @ \ {f}]
      PROVE  Promise!RemovalNext
  <2> DEFINE d == [tombs[Op] EXCEPT !.files = tombs[Op].files \ {f}]
  <2>1. tombs' = [tombs EXCEPT ![Op] = d]
    BY <1>9
  <2>2. d.there = TRUE /\ d.files = tombs[Op].files \ {f}
    BY <1>3, <1>7 DEF Directories
  <2>3. Doomed(tombs') = [there |-> TRUE, files |-> tombs[Op].files \ {f}]
    BY <1>8, <2>1, <2>2
  <2>4. Doomed(tombs).files = tombs[Op].files /\ Doomed(tombs).there = TRUE
    BY <1>6
  <2>5. RecoveryOpen' = RecoveryOpen
    BY <1>1 DEF RecoveryOpen
  <2>6. Promise!DeleteEntry
    BY <1>1, <1>4, <1>9, <2>3, <2>4, <2>5 DEF Promise!DeleteEntry
  <2> QED
    BY <2>6 DEF Promise!RemovalNext
<1>10. ASSUME NEW d, tombs' = [tombs EXCEPT ![Op] = d], d.there = TRUE, d.files = tombs[Op].files
       PROVE  UNCHANGED Promise!removal
  BY <1>1, <1>4, <1>6, <1>8, <1>10 DEF Promise!removal
<1>11. CASE RemoveEntry(p)
  <2>1. ASSUME NEW e \in tombs[Op].drafts, tombs' = [tombs EXCEPT ![Op].drafts = @ \ {e}]
        PROVE  UNCHANGED Promise!removal
    <3> DEFINE d == [tombs[Op] EXCEPT !.drafts = tombs[Op].drafts \ {e}]
    <3>1. tombs' = [tombs EXCEPT ![Op] = d]
      BY <2>1
    <3>2. d.there = TRUE /\ d.files = tombs[Op].files
      BY <1>3, <1>7 DEF Directories
    <3> QED
      BY <1>10, <3>1, <3>2
  <2> QED
    BY <1>9, <1>11, <2>1 DEF RemoveEntry
<1>12. CASE UnlinkMarker(p)
  <2> DEFINE d == [tombs[Op] EXCEPT !.marker = NoBody]
  <2>1. tombs' = [tombs EXCEPT ![Op] = d]
    BY <1>12 DEF UnlinkMarker
  <2>2. d.there = TRUE /\ d.files = tombs[Op].files
    BY <1>3, <1>7 DEF Directories
  <2> QED
    BY <1>10, <2>1, <2>2
<1>13. CASE RemoveDirectory(p)
  <2>1. tombs' = [tombs EXCEPT ![Op] = Missing] /\ Missing.there = FALSE /\ tombs[Op].files = {}
    BY <1>2, <1>13 DEF RemoveDirectory, Missing, Follows, Bare, Op
  <2>2. Doomed(tombs') = Promise!Nothing
    BY <1>8, <2>1 DEF Promise!Nothing
  <2> QED
    BY <1>1, <1>4, <1>6, <2>1, <2>2 DEF Promise!RemovalNext, Promise!DeleteLast
<1> QED
  BY <1>11, <1>12, <1>13

\* The calls of user-removal-transaction.ts and the receipt implement a removal that takes the
\* root away as a whole, deletes only what it took, and closes when no trace of it is left,
\* for any processes, users, faults and recreated roots.
THEOREM UninstallImplementsRemoval == Spec => ImplementsRemoval
<1>1. Init => Promise!RemovalInit
  <2> SUFFICES ASSUME Init PROVE Promise!RemovalInit
    OBVIOUS
  <2>1. Live(root) = "plain" /\ ~RecoveryOpen
    BY DEF Init, Live, Fresh, Missing, RecoveryOpen, NoReceipt
  <2>2. Doomed(tombs) = Promise!Nothing
    BY DoomedNothing DEF Init, Missing
  <2> QED
    BY <2>1, <2>2 DEF Promise!RemovalInit
<1>2. IInv /\ Whole /\ [Next]_vars => [Promise!RemovalNext]_(Promise!removal)
  <2> SUFFICES ASSUME IInv, Whole, [Next]_vars
               PROVE  Promise!RemovalNext \/ UNCHANGED Promise!removal
    OBVIOUS
  <2>1. CASE UNCHANGED <<root, tombs, receipt>>
    BY <2>1 DEF Promise!removal, RecoveryOpen
  <2> QED
    BY <2>1, DiskSteps, RootStep, TombstoneStep, ReceiptStep
<1> QED
  BY <1>1, <1>2, Invariant, InitWhole, KeepsWhole, PTL
  DEF Spec, ImplementsRemoval, Promise!RemovalSpec
=============================================================================
