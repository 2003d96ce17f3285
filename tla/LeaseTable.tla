------------------------------ MODULE LeaseTable ------------------------------
(***************************************************************************)
(* What the runtime lease promises to its callers, without files, queues,  *)
(* sequences or recovery: a table of held leases.  A lease is granted only *)
(* when it does not clash with any lease held by anyone, in one step; it   *)
(* ends when its holder gives it up or dies.                               *)
(***************************************************************************)
CONSTANTS Handles, Dimensions, NoLease

Modes == [exclusive : BOOLEAN, scope : SUBSET Dimensions]

VARIABLE holding    \* holding[h]: the mode of the lease h, or NoLease

TableTypeOK == holding \in [Handles -> Modes \cup {NoLease}]

TableInit == holding = [h \in Handles |-> NoLease]

Clash(m, n) == (m.exclusive \/ n.exclusive) /\ m.scope \cap n.scope # {}

\* Variant: leases are granted without a look at the table.
GrantBlindly(h, m) == holding[h] = NoLease /\ holding' = [holding EXCEPT ![h] = m]

Grant(h, m) ==
    /\ holding[h] = NoLease
    /\ \A g \in Handles : holding[g] # NoLease => ~Clash(holding[g], m)
    /\ holding' = [holding EXCEPT ![h] = m]

\* One holder gives its lease up, or a process dies with all it holds.
End(gone) ==
    holding' = [h \in Handles |-> IF h \in gone THEN NoLease ELSE holding[h]]

TableNext == \/ \E h \in Handles, m \in Modes : Grant(h, m)
             \/ \E gone \in SUBSET Handles : End(gone)

TableSpec == TableInit /\ [][TableNext]_holding

\* No two leases that are held clash.
NoClash == \A g, h \in Handles :
              g # h /\ holding[g] # NoLease /\ holding[h] # NoLease
              => ~Clash(holding[g], holding[h])
=============================================================================
