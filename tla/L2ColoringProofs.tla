-------------------------- MODULE L2ColoringProofs --------------------------
(***************************************************************************)
(* For every interference graph, every register file and every order of    *)
(* equal degrees: color_graph gives interfering nodes different registers, *)
(* its degrees count the neighbours that are left, and no variable is lost *)
(* between the graph, the stack, the colouring and the spill list.         *)
(***************************************************************************)
EXTENDS L2Coloring, FiniteSetTheorems, FunctionTheorems, SequenceTheorems, TLAPS

(* Pushing adds one element, and keeps the stack free of repetitions when  *)
(* the element is new.                                                     *)
LEMMA PushElements ==
    ASSUME NEW S, NEW s \in Seq(S), NEW e \in S
    PROVE  /\ Append(s, e) \in Seq(S)
           /\ Elements(Append(s, e)) = Elements(s) \cup {e}
           /\ Distinct(s) /\ e \notin Elements(s) => Distinct(Append(s, e))
<1>1. /\ Append(s, e) \in Seq(S)
      /\ DOMAIN s = 1 .. Len(s)
      /\ DOMAIN Append(s, e) = 1 .. Len(s) + 1
      /\ Len(s) \in Nat
  OBVIOUS
<1>2. \A i \in 1 .. Len(s) + 1 :
         Append(s, e)[i] = IF i = Len(s) + 1 THEN e ELSE s[i]
  OBVIOUS
<1>3. Elements(Append(s, e)) = Elements(s) \cup {e}
  BY <1>1, <1>2 DEF Elements
<1>4. Distinct(s) /\ e \notin Elements(s) => Distinct(Append(s, e))
  BY <1>1, <1>2 DEF Elements, Distinct
<1>. QED BY <1>1, <1>3, <1>4

(* Popping takes the last element out and leaves the others.               *)
LEMMA PopElements ==
    ASSUME NEW S, NEW s \in Seq(S), s # <<>>
    PROVE  LET r == SubSeq(s, 1, Len(s) - 1)
           IN  /\ r \in Seq(S)
               /\ s[Len(s)] \in S
               /\ Elements(s) = Elements(r) \cup {s[Len(s)]}
               /\ Distinct(s) => Distinct(r) /\ s[Len(s)] \notin Elements(r)
<1>. DEFINE r == SubSeq(s, 1, Len(s) - 1)
<1>1. Len(s) \in Nat \ {0} /\ DOMAIN s = 1 .. Len(s)
  BY EmptySeq
<1>2. /\ r \in Seq(S) /\ DOMAIN r = 1 .. Len(s) - 1
      /\ \A i \in 1 .. Len(s) - 1 : r[i] = s[i]
  BY <1>1
<1>3. s[Len(s)] \in S
  BY <1>1
<1>4. Elements(s) = Elements(r) \cup {s[Len(s)]}
  <2>1. 1 .. Len(s) = (1 .. Len(s) - 1) \cup {Len(s)}
    BY <1>1
  <2>. QED BY <1>1, <1>2, <2>1 DEF Elements
<1>5. Distinct(s) => Distinct(r) /\ s[Len(s)] \notin Elements(r)
  BY <1>1, <1>2 DEF Distinct, Elements
<1>. QED BY <1>2, <1>3, <1>4, <1>5

-----------------------------------------------------------------------------
(* The graph is the one the function was given.                            *)
LEMMA BeginType ==
    ASSUME TypeOK, Begin
    PROVE  /\ degree' \in [DOMAIN graph -> Nat]
           /\ varStack' = <<>> /\ toSpill' = <<>>
           /\ unavailable' \in [DOMAIN graph -> SUBSET GPR]
           /\ coloring' = [v \in Variables |-> NoReg]
           /\ graph' = graph /\ cpc' = "simplify"
<1>1. \A x \in DOMAIN graph : Cardinality(graph[x]) \in Nat
  <2>. SUFFICES ASSUME NEW x \in DOMAIN graph PROVE Cardinality(graph[x]) \in Nat
    OBVIOUS
  <2>1. graph[x] \in SUBSET DOMAIN graph
    BY DEF TypeOK, IsInterferenceGraph
  <2>2. IsFiniteSet(graph[x])
    BY <2>1, FS_Subset DEF TypeOK
  <2>. QED BY <2>2, FS_CardinalityType
<1>. QED BY <1>1 DEF Begin

LEMMA RemoveType ==
    ASSUME TypeOK, cpc # "idle", NEW v \in Variables, Remove(v)
    PROVE  /\ degree' \in [DOMAIN graph -> Int]
           /\ varStack' \in Seq(Variables)
<1>. QED BY DEF TypeOK, Remove

(* Every step keeps the types.                                             *)
LEMMA TypeStep == TypeOK /\ [Next]_cvars => TypeOK'
<1>. SUFFICES ASSUME TypeOK, [Next]_cvars PROVE TypeOK'
  OBVIOUS
<1>. USE DEF TypeOK
<1>1. CASE Begin
  <2>1. <<>> \in Seq(Variables)
    BY EmptySeq
  <2>2. degree' \in [DOMAIN graph -> Int] /\ UNCHANGED graph
    BY <1>1, BeginType
  <2>3. coloring' \in [Variables -> GPR \cup {NoReg}]
    BY <1>1, BeginType
  <2>. QED BY <1>1, <2>1, <2>2, <2>3, BeginType DEF Variables
<1>2. CASE Simplify
  BY <1>2, RemoveType DEF Simplify, Candidates, Simple, Remaining, Variables
<1>3. CASE SimplifyDone
  BY <1>3 DEF SimplifyDone, Variables
<1>4. CASE PushRest
  BY <1>4, RemoveType DEF PushRest, Candidates, Remaining, Variables
<1>5. CASE PushDone
  BY <1>5 DEF PushDone, Variables
<1>6. CASE Select
  <2>1. Rest \in Seq(Variables) /\ Top \in Variables
    BY <1>6, PopElements DEF Select, Rest, Top
  <2>2. \A k \in Free(Top) : ColorOrder[k] \in GPR
    BY ColorsAssumption DEF Free
  <2>. QED BY <1>6, <2>1, <2>2 DEF Select, Variables
<1>7. CASE MustSpill
  <2>1. Rest \in Seq(Variables) /\ Top \in Variables
    BY <1>7, PopElements DEF MustSpill, Rest, Top
  <2>. QED BY <1>7, <2>1 DEF MustSpill, Variables
<1>8. CASE SelectDone
  BY <1>8 DEF SelectDone, Variables
<1>9. CASE UNCHANGED cvars
  BY <1>9 DEF cvars, Variables
<1>. QED BY <1>1, <1>2, <1>3, <1>4, <1>5, <1>6, <1>7, <1>8, <1>9 DEF Next

(* TypeOK holds throughout.                                                *)
THEOREM TypeCorrect == Spec => []TypeOK
<1>1. Init => TypeOK
  BY GraphsAssumption DEF Init, TypeOK
<1>2. TypeOK /\ [Next]_cvars => TypeOK'
  BY TypeStep
<1>. QED BY <1>1, <1>2, PTL DEF Spec

-----------------------------------------------------------------------------
(* ProperColoring is not inductive: it does not say that the colours a     *)
(* later pop may use avoid those already given.  That is what the          *)
(* unavailable sets are for: they hold the colour of every coloured        *)
(* neighbour.                                                              *)
UnavailableCovers ==
    cpc # "idle" =>
        \A u \in Variables : coloring[u] # NoReg =>
            \A x \in graph[u] : coloring[u] \in unavailable[x]

ProperInv == UnavailableCovers /\ ProperColoring

(* Every step keeps the unavailable sets complete and the colours apart.   *)
LEMMA ProperStep == TypeOK /\ ProperInv /\ [Next]_cvars => ProperInv'
<1>. SUFFICES ASSUME TypeOK, ProperInv, [Next]_cvars PROVE ProperInv'
  OBVIOUS
<1>1. CASE Begin
  BY <1>1, BeginType
  DEF ProperInv, UnavailableCovers, ProperColoring, Variables
<1>2. CASE Simplify \/ SimplifyDone \/ PushRest \/ PushDone \/ MustSpill
             \/ SelectDone \/ UNCHANGED cvars
  <2>1. UNCHANGED <<graph, coloring, unavailable>> /\ (cpc # "idle" <=> cpc' # "idle")
    BY <1>2 DEF Simplify, SimplifyDone, PushRest, PushDone, MustSpill,
                SelectDone, cvars
  <2>. QED BY <2>1 DEF ProperInv, UnavailableCovers, ProperColoring, Variables
<1>3. CASE Select
  <2>. DEFINE v == Top
  <2>1. v \in Variables /\ v \in DOMAIN graph
    BY <1>3, PopElements DEF Select, Top, TypeOK, Variables
  <2>2. PICK k \in Free(v) :
           /\ coloring' = [coloring EXCEPT ![v] = ColorOrder[k]]
           /\ unavailable' = [x \in DOMAIN graph |->
                                IF x \in graph[v]
                                THEN unavailable[x] \cup {ColorOrder[k]}
                                ELSE unavailable[x]]
    BY <1>3 DEF Select
  <2>. DEFINE c == ColorOrder[k]
  <2>3. c \in GPR /\ c # NoReg /\ c \notin graph[v] /\ c \notin unavailable[v]
    BY <2>2, ColorsAssumption DEF Free
  <2>4. graph' = graph /\ cpc = "select" /\ cpc' = "select"
    BY <1>3 DEF Select
  <2>5. /\ graph \in [DOMAIN graph -> SUBSET DOMAIN graph]
        /\ \A x, y \in DOMAIN graph : y \in graph[x] => x \in graph[y]
        /\ \A x \in DOMAIN graph : x \notin graph[x]
    BY DEF TypeOK, IsInterferenceGraph
  <2>6. /\ coloring'[v] = c
        /\ \A u \in Variables : u # v => coloring'[u] = coloring[u]
    BY <2>1, <2>2, <2>4 DEF TypeOK
  <2>7. UnavailableCovers'
    <3>. SUFFICES ASSUME NEW u \in Variables, coloring'[u] # NoReg,
                         NEW x \in graph[u]
                  PROVE  coloring'[u] \in unavailable'[x]
      BY <2>4 DEF UnavailableCovers, Variables
    <3>1. x \in DOMAIN graph
      BY <2>5 DEF Variables
    <3>2. CASE u = v
      BY <2>2, <2>6, <3>1, <3>2
    <3>3. CASE u # v
      <4>1. coloring[u] \in unavailable[x] /\ coloring'[u] = coloring[u]
        BY <2>4, <2>6, <3>3 DEF ProperInv, UnavailableCovers
      <4>. QED BY <2>2, <3>1, <4>1
    <3>. QED BY <3>2, <3>3
  <2>8. ProperColoring'
    <3>. SUFFICES ASSUME NEW u \in Variables, coloring'[u] # NoReg
                  PROVE  /\ coloring'[u] \notin graph[u]
                         /\ \A w \in Variables \cap graph[u] :
                               coloring'[w] # coloring'[u]
      BY <2>4 DEF ProperColoring, Variables
    <3>1. \A w \in Variables \cap graph[v] : coloring[w] # c
      <4>. SUFFICES ASSUME NEW w \in Variables \cap graph[v], coloring[w] = c
                    PROVE  FALSE
        OBVIOUS
      <4>1. v \in graph[w]
        BY <2>1, <2>5 DEF Variables
      <4>2. c \in unavailable[v]
        BY <2>3, <2>4, <4>1 DEF ProperInv, UnavailableCovers
      <4>. QED BY <2>3, <4>2
    <3>2. CASE u = v
      <4>1. \A w \in Variables \cap graph[v] : w # v
        BY <2>1, <2>5
      <4>. QED BY <2>3, <2>6, <3>1, <3>2, <4>1
    <3>3. CASE u # v
      <4>1. /\ coloring'[u] = coloring[u] /\ coloring[u] \notin graph[u]
            /\ \A w \in Variables \cap graph[u] : coloring[w] # coloring[u]
        BY <2>4, <2>6, <3>3 DEF ProperInv, ProperColoring
      <4>2. v \in graph[u] => c # coloring[u]
        BY <2>1, <2>5, <3>1 DEF Variables
      <4>. QED BY <2>6, <4>1, <4>2
    <3>. QED BY <3>2, <3>3
  <2>. QED BY <2>7, <2>8 DEF ProperInv
<1>. QED BY <1>1, <1>2, <1>3 DEF Next

(* Interfering variables never share a register, and no variable gets a    *)
(* register it interferes with, for every graph.                           *)
THEOREM ColoringIsProper == Spec => []ProperColoring
<1>1. Init => ProperInv
  BY DEF Init, ProperInv, UnavailableCovers, ProperColoring
<1>2. TypeOK /\ ProperInv /\ [Next]_cvars => ProperInv'
  BY ProperStep
<1>3. ProperInv => ProperColoring
  BY DEF ProperInv
<1>. QED BY <1>1, <1>2, <1>3, TypeCorrect, PTL DEF Spec

-----------------------------------------------------------------------------
(* While variables are taken out: the stack holds each removed variable    *)
(* once, a removed node has a negative degree, and the degree of any other *)
(* node counts its neighbours that are left.                               *)
RemovalInv ==
    cpc \in {"simplify", "push"} =>
        /\ Distinct(varStack)
        /\ \A v \in Stacked : degree[v] < 0
        /\ \A x \in DOMAIN graph \ Stacked :
              degree[x] = Cardinality(graph[x] \ Stacked)
        /\ \A v \in Variables : coloring[v] = NoReg
        /\ toSpill = <<>>

LEMMA NeighboursFinite ==
    ASSUME TypeOK, NEW x \in DOMAIN graph, NEW S
    PROVE  IsFiniteSet(graph[x] \ S) /\ Cardinality(graph[x] \ S) \in Nat
<1>1. graph[x] \ S \in SUBSET DOMAIN graph
  BY DEF TypeOK, IsInterferenceGraph
<1>2. IsFiniteSet(graph[x] \ S)
  BY <1>1, FS_Subset DEF TypeOK
<1>. QED BY <1>2, FS_CardinalityType

(* The code tests "degree > -1" for "still in the graph": the two agree.   *)
LEMMA RemainingIsUnstacked ==
    ASSUME TypeOK, RemovalInv, cpc \in {"simplify", "push"}
    PROVE  Remaining = Variables \ Stacked
<1>1. \A v \in Variables \ Stacked : degree[v] > -1
  <2>. SUFFICES ASSUME NEW v \in Variables \ Stacked PROVE degree[v] > -1
    OBVIOUS
  <2>1. degree[v] = Cardinality(graph[v] \ Stacked) /\ v \in DOMAIN graph
    BY DEF RemovalInv, Variables
  <2>2. Cardinality(graph[v] \ Stacked) \in Nat
    BY <2>1, NeighboursFinite
  <2>. QED BY <2>1, <2>2
<1>2. \A v \in Stacked : ~(degree[v] > -1)
  <2>. SUFFICES ASSUME NEW v \in Stacked PROVE ~(degree[v] > -1)
    OBVIOUS
  <2>1. v \in Variables
    BY DEF TypeOK, Stacked, Elements
  <2>2. degree[v] \in Int /\ degree[v] < 0
    BY <2>1 DEF TypeOK, RemovalInv, Variables
  <2>. QED BY <2>2
<1>. QED BY <1>1, <1>2 DEF Remaining

(* Taking one more variable out keeps the degrees exact.                   *)
LEMMA RemoveKeepsDegrees ==
    ASSUME TypeOK, RemovalInv, cpc \in {"simplify", "push"},
           NEW v \in Remaining, Remove(v),
           UNCHANGED <<graph, coloring, toSpill>>
    PROVE  RemovalInv'
<1>1. v \in Variables /\ v \notin Stacked /\ v \in DOMAIN graph
  BY RemainingIsUnstacked DEF Variables
<1>2. Stacked' = Stacked \cup {v} /\ Distinct(varStack')
  BY <1>1, PushElements DEF TypeOK, Remove, RemovalInv, Stacked
<1>3. DOMAIN degree = DOMAIN graph
  BY DEF TypeOK
<1>4. ASSUME NEW w \in Stacked' PROVE degree'[w] < 0
  <2>1. CASE w = v
    BY <1>1, <1>3, <2>1 DEF Remove
  <2>2. CASE w # v
    <3>0. w \in Stacked
      BY <1>2, <1>4, <2>2
    <3>1. w \in Stacked /\ w \in DOMAIN graph
      BY <3>0 DEF TypeOK, Stacked, Elements, Variables
    <3>2. degree[w] \in Int /\ degree[w] < 0
      BY <3>1 DEF TypeOK, RemovalInv
    <3>. QED BY <1>3, <2>2, <3>1, <3>2 DEF Remove
  <2>. QED BY <2>1, <2>2
<1>5. ASSUME NEW x \in DOMAIN graph \ Stacked'
      PROVE  degree'[x] = Cardinality(graph[x] \ Stacked')
  <2>1. x # v /\ x \notin Stacked
    BY <1>2
  <2>2. degree[x] = Cardinality(graph[x] \ Stacked)
    BY <1>5, <2>1 DEF RemovalInv
  <2>3. x \in graph[v] <=> v \in graph[x]
    BY <1>1 DEF TypeOK, IsInterferenceGraph
  <2>4. CASE x \in graph[v]
    <3>1. degree'[x] = degree[x] - 1
      BY <1>3, <2>1, <2>4 DEF Remove
    <3>2. graph[x] \ Stacked' = (graph[x] \ Stacked) \ {v} /\ v \in graph[x] \ Stacked
      BY <1>1, <1>2, <2>3, <2>4
    <3>3. Cardinality((graph[x] \ Stacked) \ {v}) = Cardinality(graph[x] \ Stacked) - 1
      BY <3>2, NeighboursFinite, FS_RemoveElement
    <3>. QED BY <2>2, <3>1, <3>2, <3>3
  <2>5. CASE x \notin graph[v]
    <3>1. degree'[x] = degree[x]
      BY <1>3, <2>1, <2>5 DEF Remove
    <3>2. graph[x] \ Stacked' = graph[x] \ Stacked
      BY <1>2, <2>3, <2>5
    <3>. QED BY <2>2, <3>1, <3>2
  <2>. QED BY <2>4, <2>5
<1>. QED BY <1>2, <1>4, <1>5 DEF RemovalInv, Variables

(* Every step keeps the degrees exact.                                     *)
LEMMA RemovalStep == TypeOK /\ RemovalInv /\ [Next]_cvars => RemovalInv'
<1>. SUFFICES ASSUME TypeOK, RemovalInv, [Next]_cvars PROVE RemovalInv'
  OBVIOUS
<1>1. CASE Begin
  <2>1. Stacked' = {} /\ Distinct(varStack')
    BY <1>1 DEF Begin, Stacked, Elements, Distinct
  <2>2. \A x \in DOMAIN graph : degree'[x] = Cardinality(graph[x] \ {})
    BY <1>1 DEF Begin
  <2>3. \A v \in Variables : coloring'[v] = NoReg
    BY <1>1 DEF Begin
  <2>. QED BY <1>1, <2>1, <2>2, <2>3 DEF Begin, RemovalInv, Variables
<1>2. CASE Simplify
  <2>1. PICK v \in Remaining : Remove(v)
    BY <1>2 DEF Simplify, Candidates, Simple
  <2>. QED BY <1>2, <2>1, RemoveKeepsDegrees DEF Simplify
<1>3. CASE SimplifyDone
  BY <1>3 DEF SimplifyDone, RemovalInv, Stacked, Variables
<1>4. CASE PushRest
  <2>1. PICK v \in Remaining : Remove(v)
    BY <1>4 DEF PushRest, Candidates
  <2>. QED BY <1>4, <2>1, RemoveKeepsDegrees DEF PushRest
<1>5. CASE PushDone \/ Select \/ MustSpill \/ SelectDone
  BY <1>5 DEF PushDone, Select, MustSpill, SelectDone, RemovalInv
<1>6. CASE UNCHANGED cvars
  BY <1>6 DEF cvars, RemovalInv, Stacked, Variables
<1>. QED BY <1>1, <1>2, <1>3, <1>4, <1>5, <1>6 DEF Next

(* RemovalInv is maintained by every step.                                 *)
LEMMA RemovalInvHolds == Spec => []RemovalInv
<1>1. Init => RemovalInv
  BY DEF Init, RemovalInv
<1>2. TypeOK /\ RemovalInv /\ [Next]_cvars => RemovalInv'
  BY RemovalStep
<1>. QED BY <1>1, <1>2, TypeCorrect, PTL DEF Spec

(* The degrees the heuristic compares are the true ones, in every graph.   *)
THEOREM DegreesAreExact == Spec => []DegreeExact
<1>1. TypeOK /\ RemovalInv => DegreeExact
  BY RemainingIsUnstacked DEF DegreeExact, RemovalInv
<1>. QED BY <1>1, TypeCorrect, RemovalInvHolds, PTL

-----------------------------------------------------------------------------
(* While colours are given: every variable is on the stack, coloured or on *)
(* the spill list, in one of them only, and both lists name it once.       *)
SelectInv ==
    cpc \in {"select", "done"} =>
        /\ Distinct(varStack) /\ Distinct(toSpill)
        /\ Stacked \cap Spilled = {}
        /\ \A v \in Variables :
              coloring[v] = NoReg <=> v \in Stacked \cup Spilled
        /\ cpc = "done" => varStack = <<>>

(* Every step keeps each variable in one place.                            *)
LEMMA SelectStep == TypeOK /\ RemovalInv /\ SelectInv /\ [Next]_cvars => SelectInv'
<1>. SUFFICES ASSUME TypeOK, RemovalInv, SelectInv, [Next]_cvars
              PROVE  SelectInv'
  OBVIOUS
<1>1. CASE Begin \/ Simplify \/ SimplifyDone \/ PushRest
  BY <1>1 DEF Begin, Simplify, SimplifyDone, PushRest, SelectInv
<1>2. CASE PushDone
  <2>1. cpc = "push" /\ Stacked = Variables
    <3>1. Stacked \subseteq Variables
      BY <1>2 DEF PushDone, TypeOK, Stacked, Elements
    <3>. QED BY <1>2, <3>1, RemainingIsUnstacked DEF PushDone
  <2>2. toSpill = <<>> /\ Distinct(varStack) /\ \A v \in Variables : coloring[v] = NoReg
    BY <2>1 DEF RemovalInv
  <2>3. Distinct(toSpill) /\ Spilled = {}
    BY <2>2 DEF Distinct, Spilled, Elements
  <2>. QED BY <1>2, <2>1, <2>2, <2>3
       DEF PushDone, SelectInv, Stacked, Spilled, Variables
<1>3. CASE Select
  <2>1. /\ cpc = "select" /\ varStack \in Seq(Variables) /\ varStack # <<>>
        /\ coloring \in [Variables -> GPR \cup {NoReg}]
        /\ varStack' = Rest
        /\ UNCHANGED <<graph, toSpill, cpc>>
    BY <1>3 DEF Select, TypeOK
  <2>2. /\ Top \in Variables
        /\ Stacked = Stacked' \cup {Top} /\ Top \notin Stacked'
        /\ Distinct(varStack')
    BY <2>1, PopElements DEF SelectInv, Stacked, Rest, Top
  <2>3. PICK k \in Free(Top) : coloring' = [coloring EXCEPT ![Top] = ColorOrder[k]]
    BY <1>3 DEF Select
  <2>4. ColorOrder[k] # NoReg
    BY <2>3, ColorsAssumption DEF Free
  <2>5. \A v \in Variables :
           coloring'[v] = NoReg <=> v \in Stacked' \cup Spilled
    BY <2>1, <2>2, <2>3, <2>4 DEF SelectInv
  <2>. QED BY <2>1, <2>2, <2>5 DEF SelectInv, Spilled, Variables
<1>4. CASE MustSpill
  <2>1. /\ cpc = "select" /\ varStack \in Seq(Variables) /\ varStack # <<>>
        /\ toSpill \in Seq(Variables)
        /\ varStack' = Rest /\ toSpill' = Append(toSpill, Top)
        /\ UNCHANGED <<graph, coloring, cpc>>
    BY <1>4 DEF MustSpill, TypeOK
  <2>2. /\ Top \in Variables
        /\ Stacked = Stacked' \cup {Top} /\ Top \notin Stacked'
        /\ Distinct(varStack')
    BY <2>1, PopElements DEF SelectInv, Stacked, Rest, Top
  <2>3. Spilled' = Spilled \cup {Top} /\ Distinct(toSpill')
    BY <2>1, <2>2, PushElements DEF SelectInv, Spilled
  <2>. QED BY <2>1, <2>2, <2>3 DEF SelectInv, Variables
<1>5. CASE SelectDone
  BY <1>5 DEF SelectDone, SelectInv, Stacked, Spilled, Variables
<1>6. CASE UNCHANGED cvars
  BY <1>6 DEF cvars, SelectInv, Stacked, Spilled, Variables
<1>. QED BY <1>1, <1>2, <1>3, <1>4, <1>5, <1>6 DEF Next

(* SelectInv is maintained by every step.                                  *)
LEMMA SelectInvHolds == Spec => []SelectInv
<1>1. Init => SelectInv
  BY DEF Init, SelectInv
<1>2. TypeOK /\ RemovalInv /\ SelectInv /\ [Next]_cvars => SelectInv'
  BY SelectStep
<1>. QED BY <1>1, <1>2, TypeCorrect, RemovalInvHolds, PTL DEF Spec

(* No variable is lost and none is both coloured and spilled.              *)
THEOREM NothingLost == Spec => []Complete
<1>1. SelectInv => Complete
  BY DEF SelectInv, Complete, Stacked, Elements
<1>. QED BY <1>1, SelectInvHolds, PTL

-----------------------------------------------------------------------------
(* Why a spill is forced.  An unavailable set never holds a colour that no *)
(* neighbour has, and the neighbours of a spilled variable keep the        *)
(* colours they had when it was spilled.                                   *)
ColorsAround(x) == {coloring[w] : w \in Variables \cap graph[x]}

UnavailableIsTaken ==
    cpc # "idle" => \A x \in DOMAIN graph : unavailable[x] \subseteq ColorsAround(x)

Blocked(v) == GPR \subseteq graph[v] \cup ColorsAround(v)

BlockedInv ==
    /\ UnavailableIsTaken
    /\ cpc \in {"select", "done"} => \A v \in Spilled : Blocked(v)

(* When no colour is free, every register is a neighbour or the colour of  *)
(* one.                                                                    *)
LEMMA NoneFree ==
    ASSUME TypeOK, UnavailableIsTaken, cpc = "select",
           NEW v \in Variables, Free(v) = {}
    PROVE  Blocked(v)
<1>. SUFFICES ASSUME NEW r \in GPR PROVE r \in graph[v] \cup ColorsAround(v)
  BY DEF Blocked
<1>1. PICK k \in DOMAIN ColorOrder : ColorOrder[k] = r
  BY ColorsAssumption
<1>2. r \in graph[v] \cup unavailable[v]
  BY <1>1 DEF Free
<1>. QED BY <1>2 DEF UnavailableIsTaken, Variables

(* Colouring the top of the stack, which has no colour yet, takes none     *)
(* away from the colours around a node.                                    *)
LEMMA SelectKeepsColors ==
    ASSUME TypeOK, SelectInv, Select
    PROVE  /\ Top \in Variables /\ Top \in DOMAIN graph
           /\ \A x \in DOMAIN graph : ColorsAround(x) \ {NoReg} \subseteq ColorsAround(x)'
           /\ \A x \in graph[Top] : coloring'[Top] \in ColorsAround(x)'
<1>1. Top \in Variables /\ Top \in Stacked
  <2>1. Len(varStack) \in DOMAIN varStack
    BY EmptySeq DEF Select, TypeOK
  <2>. QED BY <2>1 DEF Select, TypeOK, Top, Stacked, Elements
<1>2. coloring[Top] = NoReg
  BY <1>1 DEF Select, SelectInv
<1>3. PICK k \in Free(Top) : coloring' = [coloring EXCEPT ![Top] = ColorOrder[k]]
  BY DEF Select
<1>4. \A w \in Variables : w # Top => coloring'[w] = coloring[w]
  BY <1>3 DEF Select, TypeOK
<1>5. graph' = graph /\ Variables' = Variables
  BY DEF Select, Variables
<1>6. ASSUME NEW x \in DOMAIN graph
      PROVE  ColorsAround(x) \ {NoReg} \subseteq ColorsAround(x)'
  BY <1>2, <1>4, <1>5 DEF ColorsAround
<1>7. ASSUME NEW x \in graph[Top] PROVE coloring'[Top] \in ColorsAround(x)'
  <2>1. Top \in graph[x]
    BY <1>1 DEF TypeOK, IsInterferenceGraph, Variables
  <2>. QED BY <1>1, <1>5, <2>1 DEF ColorsAround
<1>. QED BY <1>1, <1>6, <1>7 DEF Variables

LEMMA BlockedInvHolds == Spec => []BlockedInv
<1>1. Init => BlockedInv
  BY DEF Init, BlockedInv, UnavailableIsTaken
<1>2. TypeOK /\ RemovalInv /\ SelectInv /\ BlockedInv /\ [Next]_cvars => BlockedInv'
  <2>. SUFFICES ASSUME TypeOK, RemovalInv, SelectInv, BlockedInv, [Next]_cvars
                PROVE  BlockedInv'
    OBVIOUS
  <2>1. CASE Begin
    BY <2>1 DEF Begin, BlockedInv, UnavailableIsTaken
  <2>2. CASE Simplify \/ SimplifyDone \/ PushRest
    BY <2>2 DEF Simplify, SimplifyDone, PushRest, BlockedInv, UnavailableIsTaken,
                ColorsAround, Variables
  <2>3. CASE PushDone
    <3>1. Spilled' = {}
      BY <2>3 DEF PushDone, RemovalInv, Spilled, Elements
    <3>. QED BY <2>3, <3>1 DEF PushDone, BlockedInv, UnavailableIsTaken,
                ColorsAround, Variables
  <2>4. CASE Select
    <3>. DEFINE v == Top
    <3>1. PICK k \in Free(v) :
             /\ coloring' = [coloring EXCEPT ![v] = ColorOrder[k]]
             /\ unavailable' = [x \in DOMAIN graph |->
                                  IF x \in graph[v]
                                  THEN unavailable[x] \cup {ColorOrder[k]}
                                  ELSE unavailable[x]]
      BY <2>4 DEF Select
    <3>2. coloring'[v] = ColorOrder[k]
      BY <2>4, <3>1, SelectKeepsColors DEF TypeOK, Select
    <3>3. ASSUME NEW x \in DOMAIN graph PROVE unavailable'[x] \subseteq ColorsAround(x)'
      <4>1. unavailable[x] \subseteq ColorsAround(x) \ {NoReg}
        BY <2>4, ColorsAssumption DEF Select, TypeOK, BlockedInv, UnavailableIsTaken
      <4>2. unavailable[x] \subseteq ColorsAround(x)'
        BY <2>4, <4>1, SelectKeepsColors
      <4>3. x \in graph[v] => ColorOrder[k] \in ColorsAround(x)'
        BY <2>4, <3>2, SelectKeepsColors
      <4>. QED BY <3>1, <4>2, <4>3
    <3>4. ASSUME NEW u \in Spilled PROVE Blocked(u)'
      <4>1. u \in DOMAIN graph /\ graph' = graph
        BY <2>4 DEF Select, TypeOK, Spilled, Elements, Variables
      <4>2. GPR \subseteq graph[u] \cup (ColorsAround(u) \ {NoReg})
        BY <2>4, ColorsAssumption DEF Select, BlockedInv, Blocked
      <4>. QED BY <2>4, <4>1, <4>2, SelectKeepsColors DEF Blocked
    <3>. QED BY <2>4, <3>3, <3>4 DEF Select, BlockedInv, UnavailableIsTaken, Spilled
  <2>5. CASE MustSpill
    <3>1. /\ cpc = "select" /\ varStack \in Seq(Variables) /\ varStack # <<>>
          /\ toSpill \in Seq(Variables) /\ toSpill' = Append(toSpill, Top)
          /\ UNCHANGED <<graph, coloring, unavailable, cpc>>
      BY <2>5 DEF MustSpill, TypeOK
    <3>2. Top \in Variables
      BY <3>1, PopElements DEF Top
    <3>3. Spilled' = Spilled \cup {Top}
      BY <3>1, <3>2, PushElements DEF Spilled
    <3>4. Blocked(Top)
      BY <2>5, <3>1, <3>2, NoneFree DEF MustSpill, BlockedInv
    <3>. QED BY <3>1, <3>3, <3>4
         DEF BlockedInv, UnavailableIsTaken, Blocked, ColorsAround, Variables
  <2>6. CASE SelectDone \/ UNCHANGED cvars
    BY <2>6 DEF SelectDone, cvars, BlockedInv, UnavailableIsTaken, Blocked,
                ColorsAround, Variables, Spilled
  <2>. QED BY <2>1, <2>2, <2>3, <2>4, <2>5, <2>6 DEF Next
<1>. QED BY <1>1, <1>2, TypeCorrect, RemovalInvHolds, SelectInvHolds, PTL DEF Spec

(* A variable is spilled only when its neighbours take up every register,  *)
(* in every graph and for every order of equal degrees.                    *)
THEOREM SpillsAreForced == Spec => []SpillOnlyIfBlocked
<1>1. BlockedInv => SpillOnlyIfBlocked
  BY DEF BlockedInv, SpillOnlyIfBlocked, Blocked, ColorsAround
<1>. QED BY <1>1, BlockedInvHolds, PTL

-----------------------------------------------------------------------------
(* Why the variables of low degree are taken out first.  Every set of      *)
(* variables of a graph that can be simplified away has a member with      *)
(* fewer neighbours in the set and among the registers than there are      *)
(* registers.                                                              *)
CanSimplify ==
    \A S \in SUBSET Variables \ {{}} :
        \E v \in S : Cardinality(graph[v] \cap (S \cup GPR)) < NumColors

Below(k) == {varStack[j] : j \in 1 .. k - 1}

(* Each variable had fewer neighbours than there are registers when it was *)
(* taken out: the ones that are not below it on the stack.                 *)
StackIsSimple ==
    \A k \in 1 .. Len(varStack) :
        Cardinality(graph[varStack[k]] \ Below(k)) < NumColors

(* Then the second loop finds nothing to push, and nothing is spilled.     *)
SimplifiedInv ==
    CanSimplify =>
        /\ cpc \in {"simplify", "push", "select"} => StackIsSimple
        /\ cpc = "push" => Remaining = {}
        /\ cpc # "idle" => toSpill = <<>>

LEMMA RegistersCounted == NumColors \in Nat
  BY ColorsAssumption, FS_CardinalityType DEF NumColors

LEMMA FrontOf ==
    ASSUME NEW S, NEW s \in Seq(S), Len(s) \in Nat \ {0}
    PROVE  LET r == SubSeq(s, 1, Len(s) - 1)
           IN  /\ r \in Seq(S) /\ Len(r) = Len(s) - 1
               /\ DOMAIN r = 1 .. Len(s) - 1
               /\ \A k \in 1 .. Len(s) - 1 : r[k] = s[k]
<1>. DEFINE r == SubSeq(s, 1, Len(s) - 1)
<1>1. Len(s) - 1 \in Nat
  OBVIOUS
<1>2. /\ r \in Seq(S) /\ DOMAIN r = 1 .. Len(s) - 1
      /\ \A i \in 1 .. Len(s) - 1 : r[i] = s[i]
  BY <1>1
<1>3. Len(r) = Len(s) - 1
  <2>. HIDE DEF r
  <2>. QED BY <1>1, <1>2, LenProperties
<1>. QED BY <1>2, <1>3

(* Below the top of the stack is what is left of it.                       *)
LEMMA BelowTop ==
    ASSUME TypeOK, cpc # "idle", varStack # <<>>
    PROVE  /\ Len(varStack) \in 1 .. Len(varStack)
           /\ Below(Len(varStack)) = Elements(Rest)
           /\ \A k \in 1 .. Len(Rest) : Rest[k] = varStack[k]
           /\ Len(Rest) = Len(varStack) - 1
<1>1. varStack \in Seq(Variables) /\ Len(varStack) \in Nat \ {0}
  BY EmptySeq DEF TypeOK
<1>2. /\ Rest \in Seq(Variables) /\ Len(Rest) = Len(varStack) - 1
      /\ DOMAIN Rest = 1 .. Len(varStack) - 1
      /\ \A k \in 1 .. Len(varStack) - 1 : Rest[k] = varStack[k]
  BY <1>1, FrontOf DEF Rest
<1>. QED BY <1>1, <1>2 DEF Below, Elements

(* A variable with a free neighbourhood gets a colour: the blocked         *)
(* registers are itself neighbours or colours of neighbours that have      *)
(* left the stack, and there are too few of those.                         *)
LEMMA SimpleHasColor ==
    ASSUME TypeOK, SelectInv, BlockedInv, cpc = "select", varStack # <<>>,
           Cardinality(graph[Top] \ Below(Len(varStack))) < NumColors
    PROVE  Free(Top) # {}
<1>. DEFINE D == graph[Top] \ Elements(Rest)
            color == [x \in D |-> IF x \in GPR THEN x ELSE coloring[x]]
<1>1. /\ Top \in Variables /\ Top \in DOMAIN graph
      /\ Stacked = Elements(Rest) \cup {Top}
  BY PopElements DEF TypeOK, Top, Rest, Stacked, Variables
<1>2. IsFiniteSet(D) /\ Cardinality(D) \in Nat
  BY <1>1, NeighboursFinite
<1>3. Cardinality(D) < NumColors
  BY BelowTop
<1>. SUFFICES ASSUME Free(Top) = {} PROVE FALSE
  OBVIOUS
<1>4. GPR \subseteq graph[Top] \cup ColorsAround(Top)
  BY <1>1, NoneFree DEF BlockedInv, Blocked
<1>5. GPR \cap Variables = {} /\ DOMAIN graph = GPR \cup Variables
  BY DEF TypeOK, IsInterferenceGraph, Variables
<1>6. ASSUME NEW r \in GPR PROVE \E x \in D : color[x] = r
  <2>1. CASE r \in graph[Top]
    <3>1. r \notin Stacked
      BY <1>5 DEF TypeOK, Stacked, Elements
    <3>. QED BY <1>1, <2>1, <3>1
  <2>2. CASE r \in ColorsAround(Top)
    <3>1. PICK w \in Variables \cap graph[Top] : coloring[w] = r
      BY <2>2 DEF ColorsAround
    <3>2. w \notin Stacked
      BY <3>1, ColorsAssumption DEF SelectInv
    <3>3. w \in D /\ w \notin GPR
      BY <1>1, <1>5, <3>1, <3>2
    <3>. QED BY <3>1, <3>3
  <2>. QED BY <1>4, <2>1, <2>2
<1>. DEFINE T == {color[x] : x \in D}
<1>7. color \in Surjection(D, T)
  BY DEF Surjection
<1>8. IsFiniteSet(T) /\ Cardinality(T) <= Cardinality(D)
  <2>. HIDE DEF D, color, T
  <2>. QED BY <1>2, <1>7, FS_Surjection
<1>9. GPR \in SUBSET T
  BY <1>6
<1>10. Cardinality(GPR) <= Cardinality(T)
  <2>. HIDE DEF T
  <2>. QED BY <1>8, <1>9, FS_Subset
<1>11. Cardinality(T) \in Nat
  <2>. HIDE DEF T
  <2>. QED BY <1>8, FS_CardinalityType
<1>. QED
  <2>. HIDE DEF D, T
  <2>. QED BY <1>2, <1>3, <1>8, <1>10, <1>11, RegistersCounted DEF NumColors

(* While a graph that can be simplified has variables left, one of them is *)
(* simple.                                                                 *)
LEMMA SomeSimple ==
    ASSUME TypeOK, RemovalInv, cpc = "simplify", CanSimplify, Simple = {}
    PROVE  Remaining = {}
<1>. SUFFICES ASSUME Remaining # {} PROVE FALSE
  OBVIOUS
<1>1. Remaining = Variables \ Stacked
  BY RemainingIsUnstacked
<1>2. PICK v \in Remaining : Cardinality(graph[v] \cap (Remaining \cup GPR)) < NumColors
  BY <1>1 DEF CanSimplify
<1>3. v \in DOMAIN graph \ Stacked
  BY <1>1 DEF Variables
<1>4. GPR \cap Stacked = {}
  BY DEF TypeOK, Stacked, Elements, Variables
<1>5. graph[v] \subseteq DOMAIN graph
  BY <1>3 DEF TypeOK, IsInterferenceGraph
<1>6. graph[v] \cap (Remaining \cup GPR) = graph[v] \ Stacked
  BY <1>1, <1>4, <1>5 DEF Variables
<1>7. degree[v] = Cardinality(graph[v] \ Stacked)
  BY <1>3 DEF RemovalInv
<1>. QED BY <1>2, <1>6, <1>7 DEF Simple

(* Taking a simple variable out puts it on the stack with its neighbours   *)
(* counted.                                                                *)
LEMMA SimplifyKeepsSimple ==
    ASSUME TypeOK, RemovalInv, StackIsSimple, Simplify
    PROVE  StackIsSimple'
<1>1. PICK v \in Simple : Remove(v)
  BY DEF Simplify, Candidates
<1>2. /\ cpc = "simplify" /\ graph' = graph /\ varStack' = Append(varStack, v)
      /\ varStack \in Seq(Variables)
  BY <1>1 DEF Simplify, Remove, TypeOK
<1>3. v \in DOMAIN graph \ Stacked /\ v \in Variables
  BY <1>1, <1>2, RemainingIsUnstacked DEF Simple, Variables
<1>4. Cardinality(graph[v] \ Stacked) < NumColors
  <2>1. degree[v] = Cardinality(graph[v] \ Stacked)
    BY <1>2, <1>3 DEF RemovalInv
  <2>. QED BY <1>1, <2>1 DEF Simple
<1>5. /\ Len(varStack) \in Nat /\ Len(varStack') = Len(varStack) + 1
      /\ \A k \in 1 .. Len(varStack) : varStack'[k] = varStack[k]
      /\ varStack'[Len(varStack) + 1] = v
  BY <1>2, <1>3
<1>6. ASSUME NEW k \in 1 .. Len(varStack) + 1
      PROVE  Below(k)' = {varStack[j] : j \in 1 .. k - 1}
  BY <1>5 DEF Below
<1>. SUFFICES ASSUME NEW k \in 1 .. Len(varStack) + 1
              PROVE  Cardinality(graph[varStack'[k]] \ Below(k)') < NumColors
  BY <1>2, <1>5 DEF StackIsSimple
<1>8. CASE k = Len(varStack) + 1
  <2>1. k - 1 = Len(varStack) /\ DOMAIN varStack = 1 .. Len(varStack)
    BY <1>2, <1>5, <1>8
  <2>2. Below(k)' = Stacked
    BY <1>6, <2>1 DEF Stacked, Elements
  <2>. QED BY <1>4, <1>5, <1>8, <2>2
<1>9. CASE k # Len(varStack) + 1
  <2>1. k \in 1 .. Len(varStack)
    BY <1>5, <1>9
  <2>2. Below(k)' = Below(k) /\ varStack'[k] = varStack[k]
    BY <1>5, <1>6, <2>1 DEF Below
  <2>. QED BY <2>1, <2>2 DEF StackIsSimple
<1>. QED BY <1>8, <1>9

(* When the graph can be simplified, nothing is spilled, whichever node of *)
(* equal degree goes first.                                                *)
THEOREM SimplifiableIsColored == Spec => []SimplifiableNeverSpills
<1>1. Init => SimplifiedInv
  BY DEF Init, SimplifiedInv
<1>2. TypeOK /\ RemovalInv /\ SelectInv /\ BlockedInv /\ SimplifiedInv /\ [Next]_cvars
        => SimplifiedInv'
  <2>. SUFFICES ASSUME TypeOK, RemovalInv, SelectInv, BlockedInv, SimplifiedInv,
                       [Next]_cvars
                PROVE  SimplifiedInv'
    OBVIOUS
  <2>1. graph' = graph /\ Variables' = Variables /\ (CanSimplify' <=> CanSimplify)
    BY DEF Next, Begin, Simplify, SimplifyDone, PushRest, PushDone, Select,
           MustSpill, SelectDone, cvars, Variables, CanSimplify
  <2>. SUFFICES ASSUME CanSimplify
                PROVE  /\ cpc' \in {"simplify", "push", "select"} => StackIsSimple'
                       /\ cpc' = "push" => Remaining' = {}
                       /\ cpc' # "idle" => toSpill' = <<>>
    BY <2>1 DEF SimplifiedInv
  <2>2. CASE Begin
    BY <2>2 DEF Begin, StackIsSimple
  <2>3. CASE Simplify
    BY <2>3, SimplifyKeepsSimple DEF Simplify, SimplifiedInv
  <2>4. CASE SimplifyDone
    <3>1. Remaining' = {}
      BY <2>4, SomeSimple DEF SimplifyDone, Remaining, Variables
    <3>. QED BY <2>4, <3>1 DEF SimplifyDone, SimplifiedInv, StackIsSimple, Below
  <2>5. CASE PushRest
    <3>1. Remaining # {}
      BY <2>5 DEF PushRest, Candidates
    <3>. QED BY <2>5, <3>1 DEF PushRest, SimplifiedInv
  <2>6. CASE PushDone
    BY <2>6 DEF PushDone, SimplifiedInv, StackIsSimple, Below
  <2>7. CASE Select
    <3>1. /\ varStack' = Rest /\ cpc = "select" /\ cpc' = cpc /\ varStack # <<>>
          /\ toSpill' = toSpill
      BY <2>7 DEF Select
    <3>2. Len(varStack) \in Nat
      BY <3>1 DEF TypeOK
    <3>3. StackIsSimple'
      <4>. SUFFICES ASSUME NEW k \in 1 .. Len(varStack) - 1
                    PROVE  Cardinality(graph[varStack'[k]] \ Below(k)') < NumColors
        BY <2>1, <3>1, BelowTop DEF StackIsSimple
      <4>1. k \in 1 .. Len(varStack) /\ varStack'[k] = varStack[k] /\ Below(k)' = Below(k)
        BY <3>1, <3>2, BelowTop DEF Below
      <4>. QED BY <3>1, <4>1 DEF SimplifiedInv, StackIsSimple
    <3>. QED BY <3>1, <3>3 DEF SimplifiedInv
  <2>8. CASE MustSpill
    <3>1. cpc = "select" /\ varStack # <<>> /\ Free(Top) = {}
      BY <2>8 DEF MustSpill
    <3>2. Cardinality(graph[Top] \ Below(Len(varStack))) < NumColors
      BY <3>1, BelowTop DEF SimplifiedInv, StackIsSimple, Top
    <3>. QED BY <3>1, <3>2, SimpleHasColor
  <2>9. CASE SelectDone \/ UNCHANGED cvars
    BY <2>9 DEF SelectDone, cvars, SimplifiedInv, StackIsSimple, Below, Remaining,
                Variables
  <2>. QED BY <2>2, <2>3, <2>4, <2>5, <2>6, <2>7, <2>8, <2>9 DEF Next
<1>3. SimplifiedInv => SimplifiableNeverSpills
  BY DEF SimplifiedInv, SimplifiableNeverSpills, CanSimplify
<1>. QED BY <1>1, <1>2, <1>3, TypeCorrect, RemovalInvHolds, SelectInvHolds,
            BlockedInvHolds, PTL DEF Spec
=============================================================================
