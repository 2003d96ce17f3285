------------------------- MODULE MCRuntimePromotion -------------------------
(* Instances of RuntimePromotion for TLC. *)
EXTENDS RuntimePromotion

P(route, parentPre, destPre, targets) ==
    [route |-> route, parentPre |-> parentPre, destPre |-> destPre, targets |-> targets]

\* Every route, posture of the project and number of targets up to two.
EveryProject == {p \in [route : Routes, parentPre : BOOLEAN, destPre : BOOLEAN, targets : 0..2] :
                    /\ p.destPre => p.parentPre
                    /\ p.route = "authored-only" => ~p.destPre
                    /\ p.route \in {"project-authority", "keep-project"} => p.destPre
                    /\ ~p.parentPre => p.targets > 0}

\* A cached runtime is promoted to a project without the directory.
NewProject == {P("promote-cache", FALSE, FALSE, 2)}
=============================================================================
