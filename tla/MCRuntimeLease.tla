--------------------------- MODULE MCRuntimeLease ---------------------------
(* Instances of RuntimeLease for TLC. *)
EXTENDS RuntimeLease

CONSTANTS p1, p2, p3, p4, o1, o2, o3, o4, h1, h2, h3, h4, h5, k1, k2, op1

\* The requests of acquireRuntimeReadLease, acquireUserStateReadLease,
\* acquireRuntimeAccessLease (inherit: the startup of a command),
\* acquireRuntimeExclusiveLease and acquireGlobalRuntimeMaintenanceLease.
Shared(k, user, inherit) ==
    [kind |-> "shared", key |-> k, user |-> user, inherit |-> inherit,
     posture |-> "normal", op |-> NoOp]
Read(k) == Shared(k, FALSE, FALSE)
UserState == Shared(NoKey, TRUE, FALSE)
Access(k) == Shared(k, TRUE, FALSE)
Startup(k) == Shared(k, TRUE, TRUE)
Project(k, posture, op) ==
    [kind |-> "project", key |-> k, user |-> FALSE, inherit |-> FALSE,
     posture |-> posture, op |-> op]
Global(posture, op) ==
    [kind |-> "global", key |-> NoKey, user |-> FALSE, inherit |-> FALSE,
     posture |-> posture, op |-> op]
Maintain(k) == Project(k, "normal", NoOp)
MaintainAll == Global("normal", NoOp)

\* Each owner token has a process of its own; p1 may be the parent of p2.
ProcessEach == [o \in Owners |-> CASE o = o1 -> p1 [] o = o2 -> p2 [] o = o3 -> p3
                                   [] OTHER -> p4]
NoParents == [p \in Processes |-> NoProcess]
ChildOfP1 == [p \in Processes |-> IF p = p2 THEN p1 ELSE NoProcess]

\* The first owner has two handles.
OwnerEach == [h \in Handles |-> CASE h \in {h1, h2} -> o1 [] h = h3 -> o2
                                  [] h = h4 -> o3 [] OTHER -> o4]

OpenHeader == [status |-> "open", op |-> op1]
ClosedHeader == [status |-> "closed", op |-> op1]
MalformedHeader == [status |-> "malformed", op |-> NoOp]
NothingLeft == {Absent}
AnyLeft == {Absent, OpenHeader, ClosedHeader, MalformedHeader}

\* Two leases of one owner, the first of which may cover two dimensions, another reader or
\* project writer, and a writer of everything or of another project.
MixMenu == [h \in Handles |->
    CASE h = h1 -> {Access(k1), Maintain(k1)}
      [] h = h2 -> {UserState, Read(k1)}
      [] h = h3 -> {Access(k1), Maintain(k1)}
      [] OTHER -> {MaintainAll, Maintain(k2)}]

\* A command, the command it spawns, a writer and one more caller: more readers, references
\* and writers than there is room for.
SpawnMenu == [h \in Handles |->
    CASE h \in {h1, h3} -> {Startup(k1)}
      [] h = h2 -> {Access(k1)}
      [] h = h4 -> {Maintain(k1)}
      [] OTHER -> {Read(k1), MaintainAll}]

\* A command and the one it spawns, and every posture of the two kinds of writer.
RecoveryMenu == [h \in Handles |->
    CASE h \in {h1, h3} -> {Startup(k1)}
      [] h = h4 -> {Maintain(k1), Project(k1, "init-recovery", op1),
                    Project(k1, "destructive-discard", NoOp)}
      [] OTHER -> {MaintainAll, Global("user-recovery", op1),
                   Global("receipt-only-discard", NoOp)}]

\* An owner that reads the project adds user state, and the project again.
AddUserMenu == [h \in Handles |->
    CASE h = h1 -> {Read(k1)} [] h = h2 -> {UserState} [] OTHER -> {MaintainAll}]

\* An owner that reads user state adds the project.
AddProjectMenu == [h \in Handles |->
    CASE h = h1 -> {UserState} [] h = h2 -> {Access(k1)} [] h = h3 -> {MaintainAll}
      [] OTHER -> {Maintain(k1)}]
=============================================================================
