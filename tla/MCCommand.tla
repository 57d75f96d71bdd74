----------------------------- MODULE MCCommand -----------------------------
(* Values for the constants of Command.tla.                                *)
EXTENDS Command

CONSTANTS a, b, ab, none, nil

\* "a,b" is a string with a comma; read keeps "a" of it.
MCStrings == {a, ab}
MCFirstPart == [s \in MCStrings |-> IF s = ab THEN a ELSE s]
MCWords == {a, b, none, nil}

MCAuthArgs == {NotInt, -1, 0, 1, 2}
MCTimes == {NotInt, -2, -1, 0, 1}
MCIndices == {NotInt, -3, -1, 0, 2}
MCLists == {<<a>>, <<a, nil>>}
=============================================================================
