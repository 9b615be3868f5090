------------------------------ MODULE L3Select ------------------------------
(***************************************************************************)
(* select_instructions (L3/src/program.cpp) for one function after the     *)
(* other: load_and_identify_contexts, generate_trees, merge_trees and      *)
(* tile_trees (L3/src/instruction_selection.cpp).  Then                    *)
(* emit_L2_instructions: parameters, contexts, labels, and calls with      *)
(* their arguments and return labels.                                      *)
(***************************************************************************)
EXTENDS L3Tiles

VARIABLES
    functions, f, k,  \* the program, the function and instruction at hand
    pass,             \* "load", "merge" or "tile"
    context,          \* the trees of the context that is open
    partitions,       \* of the function: contexts, labels and calls
    p, n,             \* the partition and tree at hand
    toVisit,          \* the stack of tile_trees: subtrees to be tiled
    treeL2Code,       \* the code of the tree so far
    contexts,         \* functionContexts: the partitions of the functions done
    returnInstructionCounter,
    code,             \* of the function that is emitted
    out               \* the functions emitted

selectVars ==
    <<functions, f, k, pass, context, partitions, p, n, toVisit, treeL2Code, contexts>>

instr == functions[f].body[k]

InFunction == f <= Len(functions)

(* A context has no instruction, a label or a call has no trees.           *)
NoInstr       == Instr("none", NoName, <<>>, NoName)
Single(i)     == [instr |-> i, trees |-> <<>>, L2Code |-> <<>>]
Context(trees) == [instr |-> NoInstr, trees |-> trees, L2Code |-> <<>>]

Closed == IF context = <<>> THEN partitions ELSE Append(partitions, Context(context))

(* One instruction of load_and_identify_contexts, with its tree.           *)
LoadInstruction ==
    /\ InFunction /\ pass = "load" /\ k <= Len(functions[f].body)
    /\ CASE instr.op \in {"label", "call"} ->
              context' = <<>> /\ partitions' = Append(Closed, Single(instr))
         [] instr.op \in {"branch", "cond", "return"} ->
              /\ context' = <<>>
              /\ partitions' = Append(partitions, Context(Append(context, MakeTree(instr))))
         [] OTHER ->
              context' = Append(context, MakeTree(instr)) /\ UNCHANGED partitions
    /\ k' = k + 1
    /\ UNCHANGED <<functions, f, pass, p, n, toVisit, treeL2Code, contexts>>

LoadEnd ==
    /\ InFunction /\ pass = "load" /\ k > Len(functions[f].body)
    /\ partitions' = Closed /\ context' = <<>>
    /\ pass' = "merge" /\ p' = 1
    /\ UNCHANGED <<functions, f, k, n, toVisit, treeL2Code, contexts>>

-----------------------------------------------------------------------------
AtPartition(name) == InFunction /\ pass = name /\ p <= Len(partitions)

trees == partitions[p].trees

OtherTrees == UNION {Range(partitions[o].trees) : o \in DOMAIN partitions \ {p}}

UsedByCalls ==
    {a.x : a \in {b \in UNION {Range(part.instr.args) : part \in Range(partitions)} : IsVar(b)}}

Mergeable ==
    {j \in 2 .. Len(trees) : CanMerge(trees, j - 1, j, OtherTrees, UsedByCalls)}

(* The first two neighbours that can be merged are; the loop starts again. *)
MergePair ==
    /\ AtPartition("merge") /\ Mergeable # {}
    /\ LET j      == Min(Mergeable)
           merged == MergeTree(trees[j], trees[j - 1], DefinedVar(trees[j - 1]))
       IN  partitions' = [partitions EXCEPT ![p].trees =
               RemoveAt([@ EXCEPT ![j] = merged], j - 1)]
    /\ UNCHANGED <<functions, f, k, pass, context, p, n, toVisit, treeL2Code, contexts>>

MergeNext ==
    /\ AtPartition("merge") /\ Mergeable = {}
    /\ p' = p + 1
    /\ UNCHANGED <<functions, f, k, pass, context, partitions, n, toVisit, treeL2Code, contexts>>

MergeEnd ==
    /\ InFunction /\ pass = "merge" /\ p > Len(partitions)
    /\ pass' = "tile" /\ p' = 1 /\ n' = 1
    /\ UNCHANGED <<functions, f, k, context, partitions, toVisit, treeL2Code, contexts>>

-----------------------------------------------------------------------------
TileStart ==
    /\ AtPartition("tile") /\ toVisit = <<>> /\ treeL2Code = <<>> /\ n <= Len(trees)
    /\ toVisit' = <<trees[n]>>
    /\ UNCHANGED <<functions, f, k, pass, context, partitions, p, n, treeL2Code, contexts>>

(* Code found later comes earlier.                                         *)
TileNode ==
    /\ AtPartition("tile") /\ toVisit # <<>> /\ Tile(Last(toVisit)) # "none"
    /\ treeL2Code' = GenerateL2(Last(toVisit)) \o treeL2Code
    /\ toVisit' = Front(toVisit) \o FindChildren(Last(toVisit))
    /\ UNCHANGED <<functions, f, k, pass, context, partitions, p, n, contexts>>

TileNext ==
    /\ AtPartition("tile") /\ toVisit = <<>> /\ treeL2Code # <<>>
    /\ partitions' = [partitions EXCEPT ![p].L2Code = @ \o treeL2Code]
    /\ treeL2Code' = <<>> /\ n' = n + 1
    /\ UNCHANGED <<functions, f, k, pass, context, p, toVisit, contexts>>

TilePartitionEnd ==
    /\ AtPartition("tile") /\ toVisit = <<>> /\ treeL2Code = <<>> /\ n > Len(trees)
    /\ p' = p + 1 /\ n' = 1
    /\ UNCHANGED <<functions, f, k, pass, context, partitions, toVisit, treeL2Code, contexts>>

FunctionEnd ==
    /\ InFunction /\ pass = "tile" /\ p > Len(partitions)
    /\ contexts' = Append(contexts, partitions)
    /\ f' = f + 1 /\ k' = 1 /\ pass' = "load" /\ partitions' = <<>> /\ p' = 1 /\ n' = 1
    /\ UNCHANGED <<functions, context, toVisit, treeL2Code>>

SelectNext ==
    \/ LoadInstruction \/ LoadEnd \/ MergePair \/ MergeNext \/ MergeEnd
    \/ TileStart \/ TileNode \/ TileNext \/ TilePartitionEnd \/ FunctionEnd

-----------------------------------------------------------------------------
(* The emission, from functionContexts.                                    *)
emitVars == <<functions, f, contexts, p, returnInstructionCounter, code, out>>

vs == functions[f].vars

(* Six parameters are in registers, the last one of the others on top.     *)
EmitParameters ==
    /\ InFunction /\ p = 0
    /\ code' = [m \in 1 .. Len(vs) |->
           IF m <= 6 THEN Move(vs[m], Node("var", ArgRegister(m), 0, <<>>))
           ELSE StackArg(vs[m], 8 * (Len(vs) - m))]
    /\ p' = 1
    /\ UNCHANGED <<functions, f, contexts, returnInstructionCounter, out>>

unit == contexts[f][p]
AtUnit(S) == InFunction /\ p \in DOMAIN contexts[f] /\ unit.instr.op \in S

EmitContext ==
    /\ AtUnit({"none"})
    /\ code' = code \o unit.L2Code
    /\ p' = p + 1
    /\ UNCHANGED <<functions, f, contexts, returnInstructionCounter, out>>

EmitLabel ==
    /\ AtUnit({"label"})
    /\ code' = Append(code, [Place(unit.instr.to) EXCEPT !.of = unit.instr.of])
    /\ p' = p + 1
    /\ UNCHANGED <<functions, f, contexts, returnInstructionCounter, out>>

args == Tail(unit.instr.args)
callee == unit.instr.args[1]

(* Variant: the first argument on the stack is put where the return label  *)
(* goes.                                                                   *)
CallSetupTooHigh ==
    [m \in 1 .. Len(args) |->
        IF m <= 6 THEN Move(ArgRegister(m), args[m]) ELSE Pass(8 * (m - 6), args[m])]

(* The slot at rsp - 8 is left for the return label.                       *)
CallSetup ==
    [m \in 1 .. Len(args) |->
        IF m <= 6 THEN Move(ArgRegister(m), args[m]) ELSE Pass(8 * (m - 5), args[m])]

Result ==
    IF unit.instr.dst = NoName THEN <<>>
    ELSE <<Move(unit.instr.dst, Node("var", Rax, 0, <<>>))>>

(* print, allocate, input, tuple-error and tensor-error.                   *)
EmitRuntimeCall ==
    /\ AtUnit({"call"}) /\ callee.t = "runtime"
    /\ code' = code \o CallSetup \o <<CallOf(callee, Len(args))>> \o Result
    /\ p' = p + 1
    /\ UNCHANGED <<functions, f, contexts, returnInstructionCounter, out>>

EmitCall ==
    /\ AtUnit({"call"}) /\ callee.t # "runtime"
    /\ LET back == Return(callee.x, returnInstructionCounter)
       IN  code' = code \o CallSetup
                        \o <<Pass(8, Node("label", back, 0, <<>>)), CallOf(callee, Len(args)), Place(back)>>
                        \o Result
    /\ returnInstructionCounter' = returnInstructionCounter + 1
    /\ p' = p + 1
    /\ UNCHANGED <<functions, f, contexts, out>>

EmitEnd ==
    /\ InFunction /\ p > Len(contexts[f])
    /\ out' = Append(out, code)
    /\ code' = <<>> /\ p' = 0 /\ f' = f + 1
    /\ UNCHANGED <<functions, contexts, returnInstructionCounter>>

EmitNext ==
    \/ EmitParameters \/ EmitContext \/ EmitLabel \/ EmitRuntimeCall \/ EmitCall \/ EmitEnd
=============================================================================
