-------------------------- MODULE DirectoryRemoval --------------------------
(***************************************************************************)
(* What the uninstall promises, without receipts, markers' contents, runs, *)
(* leases and crashes: a removal is opened, the directory is claimed and   *)
(* taken away in one step, as a whole, and only what was taken away is     *)
(* deleted entry by entry.  A removal is closed when nothing it took is    *)
(* left and the live directory bears no claim.  A new directory may appear *)
(* whenever there is none, and no step of an open removal touches it but   *)
(* another claim.                                                          *)
(***************************************************************************)
CONSTANT Files    \* the entries of a directory

VARIABLES
    live,      \* the directory under its own name: "gone", "plain" or "claimed"
    doomed,    \* what was taken away and is not deleted yet
    open       \* a removal is open

RemovalTypeOK == /\ live \in {"gone", "plain", "claimed"}
                 /\ doomed \in [there : BOOLEAN, files : SUBSET Files]
                 /\ open \in BOOLEAN

Nothing == [there |-> FALSE, files |-> {}]

RemovalInit == live = "plain" /\ doomed = Nothing /\ open = FALSE

Open == ~open /\ open' = TRUE /\ UNCHANGED <<live, doomed>>

Claim == open /\ live = "plain" /\ live' = "claimed" /\ UNCHANGED <<doomed, open>>

TakeAway ==
    /\ open /\ live = "claimed" /\ ~doomed.there
    /\ live' = "gone" /\ doomed' = [there |-> TRUE, files |-> Files]
    /\ UNCHANGED open

DeleteEntry ==
    /\ open /\ doomed.there
    /\ \E f \in doomed.files : doomed' = [there |-> TRUE, files |-> doomed.files \ {f}]
    /\ UNCHANGED <<live, open>>

DeleteLast ==
    /\ open /\ doomed = [there |-> TRUE, files |-> {}]
    /\ doomed' = Nothing
    /\ UNCHANGED <<live, open>>

Close ==
    /\ open /\ ~doomed.there /\ live # "claimed"
    /\ open' = FALSE
    /\ UNCHANGED <<live, doomed>>

Appear == live = "gone" /\ live' = "plain" /\ UNCHANGED <<doomed, open>>

RemovalNext == Open \/ Claim \/ TakeAway \/ DeleteEntry \/ DeleteLast \/ Close \/ Appear

removal == <<live, doomed, open>>
RemovalSpec == RemovalInit /\ [][RemovalNext]_removal
=============================================================================
