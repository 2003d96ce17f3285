--------------------------- MODULE MCUnitExecution ---------------------------
(* Constants for model checking UnitExecution. *)
EXTENDS UnitExecution
Recipe(tool, window, retries, strict) ==
    [tool |-> tool, window |-> window, retries |-> retries, strict |-> strict]
Recipes == {Recipe("fit", 2, 0, TRUE), Recipe("fit", 1, 1, FALSE),
            Recipe("sim", 2, 0, FALSE), Recipe("sim", 1, 0, TRUE)}
=============================================================================
