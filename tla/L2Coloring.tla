----------------------------- MODULE L2Coloring -----------------------------
(***************************************************************************)
(* RegisterAllocator::color_graph (src/src/L2/src/program.cpp): the nodes  *)
(* of the interference graph that are variables are taken out one by one   *)
(* and pushed on a stack, first those of degree below the number of        *)
(* registers, then the others; they are popped in the opposite order and   *)
(* given the first register no neighbour has, or put on the spill list.    *)
(*                                                                         *)
(* The candidates are found by iterating over an unordered_map, so which   *)
(* of several nodes of equal degree goes first depends on the hash order:  *)
(* it is a nondeterministic choice here.                                   *)
(***************************************************************************)
EXTENDS Integers, Sequences, FiniteSets

CONSTANTS
    GPR,         \* the general purpose registers, all of them colours
    Names,       \* the variable names
    ColorOrder,  \* coloringOrdering: the registers in order of preference
    NoReg,       \* marks a variable without a colour
    Graphs       \* the interference graphs the function may be given

(* The literal 15 of color_graph.                                          *)
NumColors == Cardinality(GPR)

(* What generate_interference_graph produces: a symmetric, irreflexive     *)
(* adjacency map over variables and registers in which the registers are   *)
(* pairwise adjacent.                                                      *)
IsInterferenceGraph(g) ==
    /\ GPR \subseteq DOMAIN g /\ DOMAIN g \subseteq GPR \cup Names
    /\ g \in [DOMAIN g -> SUBSET DOMAIN g]
    /\ \A x \in DOMAIN g : x \notin g[x]
    /\ \A x, y \in DOMAIN g : y \in g[x] => x \in g[y]
    /\ \A r, s \in GPR : r # s => s \in g[r]

ASSUME ColorsAssumption ==
    /\ IsFiniteSet(GPR) /\ Names \cap GPR = {} /\ NoReg \notin GPR
    /\ ColorOrder \in Seq(GPR)
    /\ \A r \in GPR : \E k \in DOMAIN ColorOrder : ColorOrder[k] = r

ASSUME GraphsAssumption ==
    \A g \in Graphs : IsInterferenceGraph(g) /\ IsFiniteSet(DOMAIN g)

VARIABLES
    graph,        \* interfGraph
    degree,       \* degree: edges to nodes still in the graph, -1 once removed
    varStack,     \* the removed variables, the last one removed on top
    unavailable,  \* unavailableColors: colours given to a neighbour
    coloring,     \* the register of each variable, or NoReg
    toSpill,      \* toSpillVars
    cpc           \* "idle", "simplify", "push", "select" or "done"

cvars == <<graph, degree, varStack, unavailable, coloring, toSpill, cpc>>

Variables == DOMAIN graph \ GPR

Init ==
    /\ graph \in Graphs
    /\ degree = <<>> /\ varStack = <<>> /\ unavailable = <<>>
    /\ coloring = <<>> /\ toSpill = <<>>
    /\ cpc = "idle"

(* The maps are cleared and every degree is the size of the adjacency set. *)
Begin ==
    /\ cpc = "idle"
    /\ degree' = [x \in DOMAIN graph |-> Cardinality(graph[x])]
    /\ varStack' = <<>> /\ toSpill' = <<>>
    /\ unavailable' = [x \in DOMAIN graph |-> {}]
    /\ coloring' = [v \in Variables |-> NoReg]
    /\ cpc' = "simplify"
    /\ UNCHANGED graph

-----------------------------------------------------------------------------
(* Taking the nodes out.                                                   *)

Remaining == {v \in Variables : degree[v] > -1}
SimpleOffByOne == {v \in Remaining : degree[v] <= NumColors} \* variant
Simple    == {v \in Remaining : degree[v] < NumColors}

(* Only a strictly greater degree replaces the candidate found so far, so  *)
(* any node of maximal degree may be the one that is left at the end.      *)
Candidates(S) == {v \in S : \A w \in S : degree[w] <= degree[v]}

(* Variant: the neighbours keep their degree.                              *)
RemoveOnly(v) ==
    /\ degree' = [degree EXCEPT ![v] = -1]
    /\ varStack' = Append(varStack, v)

(* The neighbours lose an edge, the removed ones and registers too.        *)
Remove(v) ==
    /\ degree' = [x \in DOMAIN degree |->
                    IF x = v THEN -1
                    ELSE IF x \in graph[v] THEN degree[x] - 1
                    ELSE degree[x]]
    /\ varStack' = Append(varStack, v)

Simplify ==
    /\ cpc = "simplify"
    /\ \E v \in Candidates(Simple) : Remove(v)
    /\ UNCHANGED <<graph, unavailable, coloring, toSpill, cpc>>

SimplifyDone ==
    /\ cpc = "simplify" /\ Simple = {}
    /\ cpc' = "push"
    /\ UNCHANGED <<graph, degree, varStack, unavailable, coloring, toSpill>>

(* Variables whose degree does not guarantee a colour.                     *)
PushRest ==
    /\ cpc = "push"
    /\ \E v \in Candidates(Remaining) : Remove(v)
    /\ UNCHANGED <<graph, unavailable, coloring, toSpill, cpc>>

PushDone ==
    /\ cpc = "push" /\ Remaining = {}
    /\ cpc' = "select"
    /\ UNCHANGED <<graph, degree, varStack, unavailable, coloring, toSpill>>

-----------------------------------------------------------------------------
(* Giving the colours.                                                     *)

Top  == varStack[Len(varStack)]
Rest == SubSeq(varStack, 1, Len(varStack) - 1)

(* Variants: the colours of the neighbours are ignored; the last register  *)
(* is never tried.                                                         *)
FreeOfRegisters(v) == {k \in DOMAIN ColorOrder : ColorOrder[k] \notin graph[v]}

FreeButLast(v) ==
    {k \in 1 .. NumColors - 1 : ColorOrder[k] \notin graph[v] \cup unavailable[v]}

(* The colours left for v: no register adjacent to v, no colour of a       *)
(* neighbour.                                                              *)
Free(v) == {k \in DOMAIN ColorOrder : ColorOrder[k] \notin graph[v] \cup unavailable[v]}

(* Variant: the variable is left on the stack.                             *)
SelectWithoutPop ==
    /\ cpc = "select" /\ varStack # <<>>
    /\ \E k \in Free(Top) :
         /\ \A j \in Free(Top) : k <= j
         /\ coloring' = [coloring EXCEPT ![Top] = ColorOrder[k]]
         /\ unavailable' = [x \in DOMAIN graph |->
                              IF x \in graph[Top]
                              THEN unavailable[x] \cup {ColorOrder[k]}
                              ELSE unavailable[x]]
    /\ UNCHANGED <<graph, degree, varStack, toSpill, cpc>>

Select ==
    /\ cpc = "select" /\ varStack # <<>>
    /\ \E k \in Free(Top) :
         /\ \A j \in Free(Top) : k <= j
         /\ coloring' = [coloring EXCEPT ![Top] = ColorOrder[k]]
         /\ unavailable' = [x \in DOMAIN graph |->
                              IF x \in graph[Top]
                              THEN unavailable[x] \cup {ColorOrder[k]}
                              ELSE unavailable[x]]
    /\ varStack' = Rest
    /\ UNCHANGED <<graph, degree, toSpill, cpc>>

(* Variant: the variable is dropped.                                       *)
MustSpillForgets ==
    /\ cpc = "select" /\ varStack # <<>> /\ Free(Top) = {}
    /\ varStack' = Rest
    /\ UNCHANGED <<graph, degree, unavailable, coloring, toSpill, cpc>>

MustSpill ==
    /\ cpc = "select" /\ varStack # <<>> /\ Free(Top) = {}
    /\ toSpill' = Append(toSpill, Top)
    /\ varStack' = Rest
    /\ UNCHANGED <<graph, degree, unavailable, coloring, cpc>>

SelectDone ==
    /\ cpc = "select" /\ varStack = <<>>
    /\ cpc' = "done"
    /\ UNCHANGED <<graph, degree, varStack, unavailable, coloring, toSpill>>

Next ==
    \/ Begin
    \/ Simplify \/ SimplifyDone
    \/ PushRest \/ PushDone
    \/ Select \/ MustSpill \/ SelectDone

Spec == Init /\ [][Next]_cvars

FairSpec == Spec /\ WF_cvars(Next)

-----------------------------------------------------------------------------
(* The type invariant.                                                     *)
TypeOK ==
    /\ IsInterferenceGraph(graph) /\ IsFiniteSet(DOMAIN graph)
    /\ cpc \in {"idle", "simplify", "push", "select", "done"}
    /\ cpc # "idle" =>
         /\ degree \in [DOMAIN graph -> Int]
         /\ varStack \in Seq(Variables)
         /\ unavailable \in [DOMAIN graph -> SUBSET GPR]
         /\ coloring \in [Variables -> GPR \cup {NoReg}]
         /\ toSpill \in Seq(Variables)

Elements(s) == {s[i] : i \in DOMAIN s}
Distinct(s) == \A i, j \in DOMAIN s : s[i] = s[j] => i = j

Stacked == Elements(varStack)
Spilled == Elements(toSpill)

(* The point of the graph: two variables that interfere never share a      *)
(* register, and no variable sits in a register it interferes with.        *)
ProperColoring ==
    cpc # "idle" =>
        \A v \in Variables : coloring[v] # NoReg =>
            /\ coloring[v] \notin graph[v]
            /\ \A w \in Variables \cap graph[v] : coloring[w] # coloring[v]

(* The degree of a node that is still in the graph counts exactly its      *)
(* neighbours still in the graph, so that "degree > -1" selects the nodes  *)
(* not yet removed and the comparison with the number of registers means   *)
(* what it should.                                                         *)
DegreeExact ==
    cpc \in {"simplify", "push"} =>
        /\ Remaining = Variables \ Stacked
        /\ \A x \in DOMAIN graph \ Stacked :
              degree[x] = Cardinality(graph[x] \ Stacked)

(* No variable is lost and none is treated twice: at the end each variable *)
(* of the graph has a colour or is on the spill list, never both, and the  *)
(* spill list names it once.                                               *)
Complete ==
    cpc = "done" =>
        /\ \A v \in Variables : coloring[v] = NoReg <=> v \in Spilled
        /\ Distinct(toSpill)

(* No spill is unnecessary: a variable is spilled only when its neighbours *)
(* take up every register.                                                 *)
SpillOnlyIfBlocked ==
    cpc = "done" =>
        \A v \in Spilled :
            GPR \subseteq graph[v] \cup {coloring[w] : w \in Variables \cap graph[v]}

(* The reason for the order of removal: when every set of variables has a  *)
(* member with fewer neighbours in the set and among the registers than    *)
(* there are registers, no variable is spilled, whichever node of equal    *)
(* degree the hash order puts first.                                       *)
SimplifiableNeverSpills ==
    /\ cpc = "done"
    /\ \A S \in SUBSET Variables \ {{}} :
         \E v \in S : Cardinality(graph[v] \cap (S \cup GPR)) < NumColors
    => toSpill = <<>>

(* color_graph returns.                                                    *)
Terminates == <>(cpc = "done")
=============================================================================
