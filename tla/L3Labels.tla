------------------------------ MODULE L3Labels ------------------------------
(***************************************************************************)
(* globalize_labels (L3/src/label_globalization.cpp and modify_label in    *)
(* L3/src/L3.cpp): the labels of a function, which other functions may     *)
(* have too, get a number from one counter.                                *)
(***************************************************************************)
EXTENDS L3Code

VARIABLES
    functions, f, k,   \* the program, the function and instruction at hand
    L3_to_L2,          \* what the labels of this function have become
    globalCounter

labelVars == <<functions, f, k, L3_to_L2, globalCounter>>

instr == functions[f].body[k]

InFunction == f <= Len(functions) /\ k <= Len(functions[f].body)

(* The label of an instruction: where it goes, or a label it takes the     *)
(* address of.  Functions keep their names.                                *)
InArgument == instr.op \in {"assign", "store"} /\ instr.args[1].t = "label"

HasLabel == instr.op \in {"label", "branch", "cond"} \/ InArgument

label == IF InArgument THEN instr.args[1].x ELSE instr.to

Renamed(to) ==
    IF InArgument THEN [instr EXCEPT !.args[1].x = to] ELSE [instr EXCEPT !.to = to]

ModifyLabel ==
    /\ InFunction /\ HasLabel
    /\ LET known == label \in DOMAIN L3_to_L2
           to    == IF known THEN L3_to_L2[label] ELSE Global(globalCounter)
       IN  /\ functions' = [functions EXCEPT ![f].body[k] = Renamed(to)]
           /\ L3_to_L2' = IF known THEN L3_to_L2 ELSE (label :> to) @@ L3_to_L2
           /\ globalCounter' = IF known THEN globalCounter ELSE globalCounter + 1
    /\ k' = k + 1
    /\ UNCHANGED f

PassInstruction ==
    /\ InFunction /\ ~HasLabel
    /\ k' = k + 1
    /\ UNCHANGED <<functions, f, L3_to_L2, globalCounter>>

(* Variant: the numbers start again with each function.                    *)
NextFunctionRestarts ==
    /\ f <= Len(functions) /\ k > Len(functions[f].body)
    /\ f' = f + 1 /\ k' = 1
    /\ L3_to_L2' = <<>>
    /\ globalCounter' = 0
    /\ UNCHANGED functions

NextFunction ==
    /\ f <= Len(functions) /\ k > Len(functions[f].body)
    /\ f' = f + 1 /\ k' = 1
    /\ L3_to_L2' = <<>>
    /\ UNCHANGED <<functions, globalCounter>>

LabelsNext == ModifyLabel \/ PassInstruction \/ NextFunction
=============================================================================
