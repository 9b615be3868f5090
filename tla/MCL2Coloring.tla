---------------------------- MODULE MCL2Coloring ----------------------------
(***************************************************************************)
(* L2Coloring on every interference graph over two registers and four      *)
(* variables of which two may interfere with registers (precoloured        *)
(* neighbours), and every order in which the hash table may present equal  *)
(* degrees.  Four variables are the least for which a node of degree at    *)
(* least two can get a colour all the same (the cycle of length four).     *)
(***************************************************************************)
EXTENDS L2Coloring

CONSTANTS r1, r2, NumVars

MCGPR == {r1, r2}
MCColorOrder == <<r1, r2>>
MCNames == 1 .. NumVars

(* A graph is given by the edges between variables and those that join a   *)
(* variable to a register.                                                 *)
VarEdges == {e \in SUBSET MCNames : Cardinality(e) = 2}

GraphOf(varEdges, regEdges) ==
    [x \in MCNames \cup MCGPR |->
        IF x \in MCGPR
        THEN (MCGPR \ {x}) \cup {v \in MCNames : <<v, x>> \in regEdges}
        ELSE {w \in MCNames : w # x /\ {x, w} \in varEdges}
             \cup {r \in MCGPR : <<x, r>> \in regEdges}]

MCGraphs == {GraphOf(ve, re) : ve \in SUBSET VarEdges,
                               re \in SUBSET ((1 .. 2) \X MCGPR)}
=============================================================================
