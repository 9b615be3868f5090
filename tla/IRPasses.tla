------------------------------ MODULE IRPasses ------------------------------
(***************************************************************************)
(* The IR compiler (IR/src/compiler.cpp) on one function: rounds of the    *)
(* optimisation passes, the order of the blocks and the lowering to L3.    *)
(* Then the source and the result run (IRRun).                             *)
(***************************************************************************)
EXTENDS IRCode

CONSTANTS
    Sources,        \* the functions compiled
    Inputs,         \* the numbers parameters may have
    CallResults,    \* the numbers calls may return
    MaxSteps        \* bound on the steps of a run of the source

VARIABLES
    source, blocks, graph,              \* program and cfg_graphs
    factsIn, factsOut,                  \* of IRConstProp
    dominators, backedges,              \* of IRSimplify: loops
    liveIn, liveOut,                    \* of IRSimplify: liveness
    b, k, out, types, cache,            \* of IRLower
    stage,       \* the pass, "source", "result" or "stopped"
    iteration, changed,                 \* of main: rounds, and the passes of this
                                        \* round that changed the program
    at, pc, inputs, vals, heap, trace, steps    \* of IRRun

factState  == <<factsIn, factsOut>>
loopState  == <<dominators, backedges>>
liveState  == <<liveIn, liveOut>>
lowerState == <<b, k, out, types, cache>>
roundState == <<iteration, changed>>
runState   == <<at, pc, inputs, vals, heap, trace, steps>>

vars == <<source, blocks, graph, factState, loopState, liveState, lowerState,
          stage, roundState, runState>>

C == INSTANCE IRConstProp
S == INSTANCE IRSimplify
W == INSTANCE IRLower
R == INSTANCE IRRun

kMaxIterations == 8

Init ==
    /\ source \in Sources
    /\ blocks = source.blocks /\ graph = Graph(blocks)
    /\ factsIn = [j \in DOMAIN blocks |-> <<>>] /\ factsOut = factsIn
    /\ dominators = <<>> /\ backedges = <<>> /\ liveIn = <<>> /\ liveOut = <<>>
    /\ b = 1 /\ k = 0 /\ out = <<>> /\ types = <<>> /\ cache = <<>>
    /\ stage = "facts" /\ iteration = 0 /\ changed = {}
    /\ at = 1 /\ pc = 1 /\ inputs = <<>> /\ vals = <<>> /\ heap = <<>>
    /\ trace = <<>> /\ steps = 0

-----------------------------------------------------------------------------
(* The passes.  A pass that has made the blocks new is remembered.         *)
Becomes(pass, new) ==
    /\ blocks' = new
    /\ changed' = IF new = blocks THEN changed ELSE changed \cup {pass}
    /\ UNCHANGED <<source, iteration, lowerState, runState>>

SweepFacts ==
    /\ stage = "facts" /\ C!SweepFacts
    /\ UNCHANGED <<source, blocks, graph, loopState, liveState, lowerState, stage,
                   roundState, runState>>

PropagateConstants ==
    /\ stage = "facts" /\ C!FactsStable
    /\ Becomes("constants", C!ConstPropResult)
    /\ factsIn' = <<>> /\ factsOut' = <<>>
    /\ stage' = "algebra"
    /\ UNCHANGED <<graph, loopState, liveState>>

SimplifyAlgebra ==
    /\ stage = "algebra"
    /\ Becomes("algebra", S!AlgebraResult)
    /\ stage' = "branches"
    /\ UNCHANGED <<graph, factState, loopState, liveState>>

SimplifyBranches ==
    /\ stage = "branches" /\ S!BranchRound # blocks
    /\ Becomes("branches", S!BranchRound)
    /\ UNCHANGED <<stage, graph, factState, loopState, liveState>>

StartLicm ==
    /\ stage = "branches" /\ S!BranchRound = blocks
    /\ blocks' = blocks /\ S!DominatorsStart
    /\ stage' = "dominators"
    /\ UNCHANGED <<source, graph, factState, backedges, liveState, lowerState,
                   roundState, runState>>

SweepDominators ==
    /\ stage = "dominators" /\ S!SweepDominators
    /\ UNCHANGED <<source, blocks, graph, factState, backedges, liveState, lowerState,
                   stage, roundState, runState>>

FindBackedges ==
    /\ stage = "dominators" /\ S!DominatorSweep = dominators
    /\ backedges' = S!FindBackedges
    /\ stage' = "licm"
    /\ UNCHANGED <<source, blocks, graph, factState, dominators, liveState, lowerState,
                   roundState, runState>>

HoistAlongEdge ==
    /\ stage = "licm" /\ S!HoistAlongEdge
    /\ changed' = IF blocks' = blocks THEN changed ELSE changed \cup {"licm"}
    /\ UNCHANGED <<source, graph, factState, dominators, liveState, lowerState, stage,
                   iteration, runState>>

(* Variant: only constant propagation is thought to change the graph.      *)
GraphAfter(passes) == IF "constants" \in passes THEN Graph(blocks) ELSE graph

(* cfg_graphs is built again unless only the loops have changed.           *)
GraphNow(passes) ==
    IF passes \cap {"constants", "algebra", "branches"} # {} THEN Graph(blocks) ELSE graph

StartDce ==
    /\ stage = "licm" /\ backedges = <<>>
    /\ graph' = GraphNow(changed)
    /\ blocks' = blocks /\ S!LiveStart
    /\ dominators' = <<>>
    /\ stage' = "liveness"
    /\ UNCHANGED <<source, factState, backedges, lowerState, roundState, runState>>

SweepLiveness ==
    /\ stage = "liveness" /\ S!SweepLiveness
    /\ UNCHANGED <<source, blocks, graph, factState, loopState, lowerState, stage,
                   roundState, runState>>

EliminateDead ==
    /\ stage = "liveness" /\ S!LiveStable
    /\ blocks' = S!DceResult
    /\ liveIn' = <<>> /\ liveOut' = <<>>
    /\ iteration' = iteration + 1
    /\ changed' = {}
    /\ IF (changed # {} \/ blocks' # blocks) /\ iteration' < kMaxIterations
       THEN /\ graph' = Graph(blocks')
            /\ C!FactsStart
            /\ stage' = "facts"
       ELSE stage' = "linearize" /\ UNCHANGED <<graph, factState>>
    /\ UNCHANGED <<source, loopState, lowerState, runState>>

Linearize ==
    /\ stage = "linearize"
    /\ blocks' = W!LinearBlocks
    /\ W!LowerStart
    /\ stage' = "lower"
    /\ UNCHANGED <<source, graph, factState, loopState, liveState, roundState, runState>>

Lower ==
    /\ stage = "lower" /\ W!LowerNext
    /\ UNCHANGED <<source, blocks, graph, factState, loopState, liveState, stage,
                   roundState, runState>>

StartRun ==
    /\ stage = "lower" /\ b > Len(blocks)
    /\ R!Begin
    /\ UNCHANGED <<source, blocks, graph, factState, loopState, liveState, lowerState,
                   roundState>>

Run ==
    /\ R!RunNext
    /\ UNCHANGED <<source, blocks, graph, factState, loopState, liveState, lowerState,
                   roundState>>

Next ==
    \/ SweepFacts \/ PropagateConstants \/ SimplifyAlgebra \/ SimplifyBranches
    \/ StartLicm \/ SweepDominators \/ FindBackedges \/ HoistAlongEdge
    \/ StartDce \/ SweepLiveness \/ EliminateDead
    \/ Linearize \/ Lower \/ StartRun \/ Run

(* The compiler is one thread that does not wait for anything.             *)
Spec == Init /\ [][Next]_vars /\ WF_vars(Next)

-----------------------------------------------------------------------------
(* Whenever the source returns, the result calls the same functions on the *)
(* same values in the same order and returns the same, it never takes a    *)
(* branch on what is not 0 or 1, and reads and writes words of objects     *)
(* only: no pass moves, drops or folds an instruction that mattered.       *)
SameEffects == stage = "result" => R!IsDefined /\ R!EffectAgrees

(* At each of these calls, and at the return, the objects are the same     *)
(* word for word, and an address computed before a collection is not used  *)
(* after it: the caches of the lowering are valid where they are used.     *)
HeapsAgree == stage = "result" => R!HeapAgrees

(* The graph that constant propagation and dead code elimination work with *)
(* is that of the blocks as they are then.                                 *)
GraphIsCurrent == stage \in {"facts", "liveness"} => graph = Graph(blocks)

(* Every pass, every sweep and the rounds themselves come to an end, and   *)
(* so does the result if its source does.                                  *)
Compiles == <>(stage = "stopped")
=============================================================================
