-------------------------- MODULE L2LivenessProofs --------------------------
(***************************************************************************)
(* For every program and every register file: the IN and OUT sets have     *)
(* their types, generate_IN_OUT only stops at a solution of the dataflow   *)
(* equations, and never goes above the least one.                          *)
(***************************************************************************)
EXTENDS L2Liveness, FiniteSetTheorems, WellFoundedInduction, TLAPS

(* GEN, KILL and the successors stay within the locations and instructions. *)
LEMMA GenKillType ==
    ASSUME NEW ins0
    PROVE  Gen(ins0) \subseteq Locations /\ Kill(ins0) \subseteq Locations
<1>1. ArgumentRegisters(ins0.k) \subseteq Locations
  BY RegistersAssumption DEF ArgumentRegisters, Locations, Registers
<1>2. Gen(ins0) \subseteq Locations
  BY <1>1, RegistersAssumption DEF Gen, Locations, Registers
<1>3. Kill(ins0) \subseteq Locations
  BY RegistersAssumption DEF Kill, Locations, Registers
<1>. QED BY <1>2, <1>3

LEMMA SuccType ==
    ASSUME NEW c \in Seq(Instructions), NEW i \in 1 .. Len(c)
    PROVE  Succ(c, i) \subseteq 1 .. Len(c)
<1>1. DOMAIN c = 1 .. Len(c)
  OBVIOUS
<1>. QED BY <1>1 DEF Succ, Targets, LabelIndices

(* Every step keeps the types.                                             *)
LEMMA TypeStep == TypeOK /\ [Next]_lvars => TypeOK'
<1>. SUFFICES ASSUME TypeOK, [Next]_lvars PROVE TypeOK'
  OBVIOUS
<1>0. Len(code) \in Nat
  BY DEF TypeOK
<1>1. CASE Analyze
  <2>1. [i \in Indices |-> Succ(code, i)] \in [Indices -> SUBSET Indices]
    BY SuccType DEF TypeOK, Indices
  <2>2. Indices' = Indices /\ Len(code) \in 0 .. Len(code)
    BY <1>0, <1>1 DEF Analyze, Indices
  <2>. QED BY <1>1, <2>1, <2>2 DEF Analyze, TypeOK
<1>2. CASE LabelNotFound
  BY <1>2 DEF LabelNotFound, TypeOK, Indices
<1>3. CASE SweepStep
  <2>1. idx \in Indices
    BY <1>0, <1>3 DEF SweepStep, TypeOK, Indices
  <2>2. OutOf(idx) \subseteq Locations
    BY <1>3, <2>1 DEF OutOf, SweepStep, TypeOK
  <2>3. InOf(idx, OutOf(idx)) \subseteq Locations
    BY <2>2, GenKillType DEF InOf
  <2>4. changed' \in BOOLEAN
    BY <1>3 DEF SweepStep, TypeOK
  <2>5. idx' \in 0 .. Len(code) /\ Indices' = Indices
    BY <1>0, <1>3, <2>1 DEF SweepStep, Indices
  <2>6. /\ ins' \in [Indices -> SUBSET Locations]
        /\ outs' \in [Indices -> SUBSET Locations]
    BY <1>3, <2>1, <2>2, <2>3 DEF SweepStep, TypeOK
  <2>. QED BY <1>3, <2>4, <2>5, <2>6 DEF SweepStep, TypeOK
<1>4. CASE SweepAgain
  <2>1. Len(code) \in 0 .. Len(code) /\ Indices' = Indices
    BY <1>0, <1>4 DEF SweepAgain, Indices
  <2>2. changed' \in BOOLEAN
    BY <1>4 DEF SweepAgain
  <2>. QED BY <1>4, <2>1, <2>2 DEF SweepAgain, TypeOK
<1>5. CASE Converged
  BY <1>5 DEF Converged, TypeOK, Indices
<1>6. CASE UNCHANGED lvars
  BY <1>6 DEF lvars, TypeOK, Indices
<1>. QED BY <1>1, <1>2, <1>3, <1>4, <1>5, <1>6 DEF Next

(* TypeOK holds throughout: the analysis never indexes a set it has not    *)
(* created and never names anything but a location.                        *)
THEOREM TypeCorrect == Spec => []TypeOK
<1>1. Init => TypeOK
  <2>. SUFFICES ASSUME Init PROVE TypeOK
    OBVIOUS
  <2>1. Len(code) \in Nat
    BY ProgramsAssumption DEF Init
  <2>2. changed \in BOOLEAN
    BY DEF Init
  <2>3. idx \in 0 .. Len(code)
    BY <2>1 DEF Init
  <2>. QED BY <2>2, <2>3, ProgramsAssumption DEF Init, TypeOK
<1>2. TypeOK /\ [Next]_lvars => TypeOK'
  BY TypeStep
<1>. QED BY <1>1, <1>2, PTL DEF Spec

-----------------------------------------------------------------------------
(* Solved is not inductive: it says nothing while the sweep runs.  What    *)
(* the loop maintains is that, as long as the current sweep has changed    *)
(* nothing, the equations hold at every instruction it has visited.        *)
SolvedSoFar ==
    /\ lpc = "sweep" /\ ~changed => \A i \in (idx + 1) .. Len(code) : EquationAt(i)
    /\ Solved

(* Every step of the sweep keeps it.                                       *)
LEMMA SolvedStep == TypeOK /\ SolvedSoFar /\ [Next]_lvars => SolvedSoFar'
<1>. SUFFICES ASSUME TypeOK, SolvedSoFar, [Next]_lvars PROVE SolvedSoFar'
  OBVIOUS
<1>0. Len(code) \in Nat
  BY DEF TypeOK
<1>1. CASE Analyze
  BY <1>0, <1>1 DEF Analyze, SolvedSoFar, Solved
<1>2. CASE LabelNotFound
  BY <1>2 DEF LabelNotFound, SolvedSoFar, Solved
<1>3. CASE SweepStep
  <2>0. idx \in Indices /\ lpc' = "sweep"
    BY <1>0, <1>3 DEF SweepStep, TypeOK, Indices
  <2>1. CASE changed'
    BY <2>0, <2>1 DEF SolvedSoFar, Solved
  <2>2. CASE ~changed'
    <3>1. /\ ~changed
          /\ OutOf(idx) = outs[idx]
          /\ InOf(idx, OutOf(idx)) = ins[idx]
      BY <1>3, <2>2 DEF SweepStep
    <3>2. ins' = ins /\ outs' = outs /\ UNCHANGED <<code, succ>>
      BY <1>3, <2>0, <3>1 DEF SweepStep, TypeOK
    <3>3. \A i \in idx .. Len(code) : EquationAt(i)
      BY <1>0, <1>3, <2>0, <3>1 DEF SolvedSoFar, EquationAt, SweepStep, TypeOK, Indices
    <3>4. \A i \in (idx' + 1) .. Len(code') : EquationAt(i)'
      BY <1>0, <1>3, <2>0, <3>2, <3>3
      DEF EquationAt, OutOf, InOf, SweepStep, TypeOK, Indices
    <3>. QED BY <2>0, <3>4 DEF SolvedSoFar, Solved
  <2>. QED BY <2>1, <2>2
<1>4. CASE SweepAgain
  BY <1>0, <1>4 DEF SweepAgain, SolvedSoFar, Solved
<1>5. CASE Converged
  <2>1. \A i \in Indices : EquationAt(i)
    BY <1>0, <1>5 DEF Converged, SolvedSoFar, Indices
  <2>. QED BY <1>5, <2>1
       DEF Converged, SolvedSoFar, Solved, EquationAt, OutOf, InOf, Indices
<1>6. CASE UNCHANGED lvars
  BY <1>6 DEF lvars, SolvedSoFar, Solved, EquationAt, OutOf, InOf, Indices
<1>. QED BY <1>1, <1>2, <1>3, <1>4, <1>5, <1>6 DEF Next

(* When generate_IN_OUT returns, every IN and OUT set satisfies its        *)
(* dataflow equation, whatever the program.                                *)
THEOREM SolvedAtTheEnd == Spec => []Solved
<1>1. Init => SolvedSoFar
  BY DEF Init, SolvedSoFar, Solved
<1>2. TypeOK /\ SolvedSoFar /\ [Next]_lvars => SolvedSoFar'
  BY SolvedStep
<1>3. SolvedSoFar => Solved
  BY DEF SolvedSoFar
<1>. QED BY <1>1, <1>2, <1>3, TypeCorrect, PTL DEF Spec

-----------------------------------------------------------------------------
(* The analysis reports the least solution: at no point of the sweep does  *)
(* an IN set hold a location that a family closed under the equations      *)
(* leaves out.                                                             *)
THEOREM NeverAboveLeast == Spec => []Least
<1>1. Init => Least
  BY DEF Init, Least
<1>2. TypeOK /\ Least /\ [Next]_lvars => Least'
  <2>. SUFFICES ASSUME TypeOK, Least, [Next]_lvars,
                       (lpc \in {"sweep", "done"})',
                       NEW I \in [Indices' -> SUBSET Locations],
                       ClosedFamily(I)',
                       NEW i \in Indices'
                PROVE  ins'[i] \subseteq I[i]
    BY DEF Least
  <2>0. Len(code) \in Nat /\ code' = code /\ Indices' = Indices
    BY DEF TypeOK, Next, Analyze, LabelNotFound, SweepStep, SweepAgain, Converged,
        lvars, Indices
  <2>1. CASE Analyze
    BY <2>0, <2>1 DEF Analyze, Indices
  <2>2. CASE LabelNotFound
    BY <2>2 DEF LabelNotFound
  <2>3. CASE SweepStep
    <3>1. lpc = "sweep" /\ idx \in Indices /\ succ' = succ
      BY <2>0, <2>3 DEF SweepStep, TypeOK, Indices
    <3>2. ClosedFamily(I)
      BY <2>0, <3>1 DEF ClosedFamily, Indices
    <3>3. \A j \in Indices : ins[j] \subseteq I[j]
      BY <2>0, <3>1, <3>2 DEF Least
    <3>4. OutOf(idx) \subseteq UNION {I[s] : s \in succ[idx]}
      BY <3>1, <3>3 DEF OutOf, TypeOK
    <3>5. InOf(idx, OutOf(idx)) \subseteq I[idx]
      BY <3>1, <3>2, <3>4 DEF InOf, ClosedFamily
    <3>. QED BY <2>0, <2>3, <3>1, <3>3, <3>5 DEF SweepStep, TypeOK
  <2>4. CASE SweepAgain \/ Converged \/ UNCHANGED lvars
    <3>1. lpc \in {"sweep", "done"} /\ succ' = succ /\ ins' = ins
      BY <2>4 DEF SweepAgain, Converged, lvars
    <3>2. ClosedFamily(I)
      BY <2>0, <3>1 DEF ClosedFamily, Indices
    <3>. QED BY <2>0, <3>1, <3>2 DEF Least
  <2>. QED BY <2>1, <2>2, <2>3, <2>4 DEF Next
<1>. QED BY <1>1, <1>2, TypeCorrect, PTL DEF Spec

-----------------------------------------------------------------------------
(* Liveness as reachability.                                               *)

(* Induction: a set of naturals has a least element.                       *)
LEMMA HasLeast ==
    ASSUME NEW T, T \subseteq Nat, T # {}
    PROVE  \E x \in T : \A y \in T : x <= y
<1>. DEFINE R == {p \in Nat \X Nat : p[1] < p[2]}
<1>1. IsWellFoundedOn(OpToRel(<, Nat), Nat)
  BY NatLessThanWellFounded
<1>2. OpToRel(<, Nat) = R
  BY DEF OpToRel
<1>3. \E x \in T : \A y \in T : <<y, x>> \notin R
  <2>1. IsWellFoundedOn(R, Nat)
    BY <1>1, <1>2
  <2>. HIDE DEF R
  <2>. QED BY <2>1, WFMin
<1>4. PICK x \in T : \A y \in T : <<y, x>> \notin R
  BY <1>3
<1>5. \A y \in T : x <= y
  <2>. SUFFICES ASSUME NEW y \in T, ~ (x <= y) PROVE FALSE
    OBVIOUS
  <2>1. x \in Nat /\ y \in Nat /\ y < x
    OBVIOUS
  <2>2. <<y, x>> \in R
    BY <2>1
  <2>. QED BY <2>2, <1>4
<1>. QED BY <1>5

(* ReadsReached is the least set that has the reads of l and is closed     *)
(* backwards: as long as it is not, it grows in each of the Len(code)      *)
(* rounds, and there are no more instructions than that.                   *)
LEMMA ReachedIsLeast ==
    ASSUME Len(code) \in Nat, NEW l
    PROVE  /\ Reads(l) \subseteq ReadsReached(l)
           /\ ReadsReached(l) \subseteq Indices
           /\ Before(l, ReadsReached(l)) \subseteq ReadsReached(l)
           /\ \A S \in SUBSET Indices :
                 Reads(l) \subseteq S /\ Before(l, S) \subseteq S => ReadsReached(l) \subseteq S
<1>. DEFINE N == Len(code)
            U == Reads(l)
            B(S) == Before(l, S)
            step(g, k) == IF k = 0 THEN U ELSE g[k - 1] \cup B(g[k - 1])
            upTo(g, n) == /\ g = [k \in 0 .. n |-> g[k]]
                          /\ \A k \in 0 .. n : g[k] = step(g, k)
            bad == {n \in 0 .. N : ~\E g : upTo(g, n)}
<1>0. /\ N \in Nat /\ U \subseteq Indices /\ \A S : B(S) \subseteq Indices
      /\ \A S, T : S \subseteq T => B(S) \subseteq B(T)
  BY DEF Reads, Before
<1>. HIDE DEF N, U, B
<1>1. bad = {}
  <2>. SUFFICES ASSUME bad # {} PROVE FALSE
    OBVIOUS
  <2>1. bad \subseteq Nat
    BY <1>0
  <2>2. PICK n \in bad : \A m \in bad : n <= m
    <3>. HIDE DEF bad
    <3>. QED BY <2>1, HasLeast
  <2>3. n \in 0 .. N /\ n \in Nat
    BY <1>0
  <2>4. CASE n = 0
    <3>. DEFINE g == [k \in 0 .. 0 |-> U]
    <3>1. upTo(g, 0)
      OBVIOUS
    <3>. QED BY <2>4, <3>1
  <2>5. CASE n # 0
    <3>1. n - 1 \in 0 .. N /\ n - 1 \notin bad
      <4>1. n - 1 \in 0 .. N /\ n \in 1 .. N /\ ~(n <= n - 1)
        BY <1>0, <2>3, <2>5
      <4>. HIDE DEF bad
      <4>. QED BY <2>2, <4>1
    <3>2. PICK f : upTo(f, n - 1)
      BY <3>1
    <3>. DEFINE g == [k \in 0 .. n |-> IF k = n THEN step(f, n) ELSE f[k]]
    <3>3. \A k \in 0 .. n - 1 : g[k] = f[k] /\ k \in 0 .. n
      BY <2>3
    <3>4. ASSUME NEW k \in 0 .. n
          PROVE  g[k] = step(g, k)
      <4>1. CASE k = n
        BY <2>3, <2>5, <3>3, <4>1
      <4>2. CASE k # n
        <5>1. k \in 0 .. n - 1 /\ (k # 0 => k - 1 \in 0 .. n - 1)
          BY <2>3, <4>2
        <5>. QED BY <3>2, <3>3, <5>1
      <4>. QED BY <4>1, <4>2
    <3>5. upTo(g, n)
      BY <3>4
    <3>6. \E h : upTo(h, n)
      <4>. HIDE DEF upTo, g
      <4>. QED BY <3>5
    <3>. QED BY <3>6
  <2>. QED BY <2>4, <2>5
<1>2. \E f : f = [k \in 0 .. N |-> step(f, k)]
  <2>0. N \in 0 .. N /\ N \notin bad
    <3>1. N \in 0 .. N
      BY <1>0
    <3>. HIDE DEF bad
    <3>. QED BY <1>1, <3>1
  <2>1. PICK g : upTo(g, N)
    <3>. HIDE DEF upTo
    <3>. QED BY <2>0
  <2>2. g = [k \in 0 .. N |-> step(g, k)]
    BY <2>1
  <2>. QED BY <2>2
<1>. DEFINE within == CHOOSE f : f = [k \in 0 .. N |-> step(f, k)]
<1>3. within = [k \in 0 .. N |-> step(within, k)]
  BY <1>2
<1>4. ReadsReached(l) = within[N]
  BY DEF ReadsReached, N, U, B
<1>. HIDE DEF within
<1>5. /\ within[0] = U
      /\ \A n \in 1 .. N : within[n] = within[n - 1] \cup B(within[n - 1])
  <2>1. within[0] = U
    BY <1>0, <1>3
  <2>2. ASSUME NEW n \in 1 .. N
        PROVE  within[n] = within[n - 1] \cup B(within[n - 1])
    <3>1. n \in 0 .. N /\ n # 0
      BY <1>0
    <3>. QED BY <1>3, <3>1
  <2>. QED BY <2>1, <2>2
<1>. DEFINE good(n) == /\ U \subseteq within[n] /\ within[n] \subseteq Indices
                       /\ B(within[n]) \subseteq within[n] \/ Cardinality(within[n]) >= n
                       /\ \A S \in SUBSET Indices :
                             U \subseteq S /\ B(S) \subseteq S => within[n] \subseteq S
<1>6. IsFiniteSet(Indices) /\ Cardinality(Indices) = N
  BY <1>0, FS_Interval DEF Indices, N
<1>7. \A n \in 0 .. N : good(n)
  <2>. DEFINE wrong == {n \in 0 .. N : ~good(n)}
  <2>. SUFFICES ASSUME wrong # {} PROVE FALSE
    OBVIOUS
  <2>1. wrong \subseteq Nat
    BY <1>0
  <2>2. PICK n \in wrong : \A m \in wrong : n <= m
    <3>. HIDE DEF wrong
    <3>. QED BY <2>1, HasLeast
  <2>3. n \in 0 .. N /\ n \in Nat /\ ~good(n)
    BY <1>0
  <2>4. CASE n = 0
    <3>1. Cardinality(U) \in Nat
      BY <1>0, <1>6, FS_Subset, FS_CardinalityType
    <3>. QED BY <1>0, <1>5, <2>3, <2>4, <3>1
  <2>5. CASE n # 0
    <3>1. n - 1 \in 0 .. N /\ n - 1 \notin wrong /\ n \in 1 .. N
      <4>1. n - 1 \in 0 .. N /\ n \in 1 .. N /\ ~(n <= n - 1)
        BY <1>0, <2>3, <2>5
      <4>. HIDE DEF wrong
      <4>. QED BY <2>2, <4>1
    <3>. DEFINE W == within[n - 1]
                V == within[n]
    <3>2. good(n - 1)
      BY <3>1
    <3>3. V = W \cup B(W)
      BY <1>5, <3>1
    <3>4. U \subseteq V /\ V \subseteq Indices
      BY <1>0, <3>2, <3>3
    <3>5. ASSUME NEW S \in SUBSET Indices, U \subseteq S, B(S) \subseteq S
          PROVE  V \subseteq S
      <4>1. W \subseteq S
        BY <3>2, <3>5
      <4>2. B(W) \subseteq B(S)
        BY <1>0, <4>1
      <4>. QED BY <3>3, <3>5, <4>1, <4>2
    <3>6. B(V) \subseteq V \/ Cardinality(V) >= n
      <4>1. CASE B(W) \subseteq W
        <5>1. V = W
          BY <3>3, <4>1
        <5>. QED BY <4>1, <5>1
      <4>2. CASE ~(B(W) \subseteq W)
        <5>1. W \subseteq V /\ W # V /\ IsFiniteSet(V) /\ IsFiniteSet(W)
          <6>1. W \subseteq V /\ W # V
            BY <3>3, <4>2
          <6>. HIDE DEF V, W
          <6>. QED BY <1>6, <3>4, <6>1, FS_Subset
        <5>2. Cardinality(W) >= n - 1
          BY <3>2, <4>2
        <5>. HIDE DEF V, W
        <5>3. Cardinality(V) \in Nat /\ Cardinality(W) \in Nat /\ Cardinality(W) < Cardinality(V)
          <6>1. Cardinality(V) \in Nat /\ Cardinality(W) \in Nat
            BY <5>1, FS_CardinalityType
          <6>2. Cardinality(W) <= Cardinality(V) /\ Cardinality(W) # Cardinality(V)
            BY <5>1, FS_Subset
          <6>. QED BY <6>1, <6>2
        <5>. QED BY <2>3, <5>2, <5>3
      <4>. QED BY <4>1, <4>2
    <3>. QED BY <2>3, <3>4, <3>5, <3>6
  <2>. QED BY <2>4, <2>5
<1>8. good(N)
  BY <1>0, <1>7
<1>9. B(within[N]) \subseteq within[N]
  <2>. SUFFICES ASSUME Cardinality(within[N]) >= N
                PROVE  B(within[N]) \subseteq within[N]
    BY <1>8
  <2>. DEFINE W == within[N]
  <2>1. W \subseteq Indices /\ Cardinality(W) >= N
    BY <1>8
  <2>. HIDE DEF W
  <2>2. W = Indices
    <3>1. Cardinality(W) \in Nat /\ Cardinality(W) <= N
      BY <1>6, <2>1, FS_Subset, FS_CardinalityType
    <3>2. Cardinality(W) = Cardinality(Indices)
      BY <1>0, <1>6, <2>1, <3>1
    <3>. QED BY <1>6, <2>1, <3>2, FS_Subset
  <2>. QED BY <1>0, <2>2 DEF W
<1>. QED BY <1>4, <1>8, <1>9 DEF U, B

LEMMA LiveIsReached == TypeOK /\ Solved /\ Least => LiveIffUseReachable
<1>. SUFFICES ASSUME TypeOK, Solved, Least, lpc = "done", NEW l \in Locations
              PROVE  {i \in Indices : l \in ins[i]} = ReadsReached(l)
  BY DEF LiveIffUseReachable
<1>. DEFINE R == ReadsReached(l)
            L == {i \in Indices : l \in ins[i]}
<1>1. /\ Reads(l) \subseteq R /\ R \subseteq Indices /\ Before(l, R) \subseteq R
      /\ \A S \in SUBSET Indices : Reads(l) \subseteq S /\ Before(l, S) \subseteq S => R \subseteq S
  <2>1. Len(code) \in Nat
    BY DEF TypeOK
  <2>. QED BY <2>1, ReachedIsLeast
<1>2. \A i \in Indices : succ[i] \subseteq Indices
  BY DEF TypeOK
<1>. HIDE DEF R
(* The live places have the reads and are closed.                          *)
<1>3. R \subseteq L
  <2>1. Reads(l) \subseteq L
    BY DEF Solved, EquationAt, InOf, Reads
  <2>2. ASSUME NEW i \in Before(l, L)
        PROVE  i \in L
    <3>1. i \in Indices /\ l \notin Kill(code[i]) /\ \E s \in succ[i] : l \in ins[s]
      BY DEF Before
    <3>2. l \in outs[i]
      BY <3>1 DEF Solved, EquationAt, OutOf
    <3>. QED BY <3>1, <3>2 DEF Solved, EquationAt, InOf
  <2>. QED BY <1>1, <2>1, <2>2
(* Nowhere else is l needed.                                               *)
<1>4. L \subseteq R
  <2>. DEFINE I == [i \in Indices |-> IF i \in R THEN Locations ELSE Locations \ {l}]
  <2>1. I \in [Indices -> SUBSET Locations]
    OBVIOUS
  <2>2. ClosedFamily(I)
    <3>. SUFFICES ASSUME NEW i \in Indices,
                         NEW x \in Gen(code[i]) \cup ((UNION {I[s] : s \in succ[i]}) \ Kill(code[i]))
                  PROVE  x \in I[i]
      BY DEF ClosedFamily
    <3>1. x \in Locations
      BY <1>2, GenKillType
    <3>2. CASE i \in R
      BY <3>1, <3>2
    <3>3. CASE i \notin R
      <4>1. l \notin Gen(code[i])
        BY <1>1, <3>3 DEF Reads
      <4>2. l \in Kill(code[i]) \/ succ[i] \cap R = {}
        BY <1>1, <3>3 DEF Before
      <4>3. \A s \in succ[i] : l \in I[s] => s \in R
        BY <1>2
      <4>4. x # l
        BY <4>1, <4>2, <4>3
      <4>. QED BY <3>1, <4>4
    <3>. QED BY <3>2, <3>3
  <2>. HIDE DEF I
  <2>3. \A i \in Indices : ins[i] \subseteq I[i]
    BY <2>1, <2>2 DEF Least
  <2>. QED BY <2>3 DEF I
<1>. QED BY <1>3, <1>4 DEF R

(* When generate_IN_OUT returns, a location is live exactly where control  *)
(* can reach a read of it that sees the value, in every program.           *)
THEOREM LiveIsUseReachable == Spec => []LiveIffUseReachable
BY TypeCorrect, SolvedAtTheEnd, NeverAboveLeast, LiveIsReached, PTL

-----------------------------------------------------------------------------
(* No set is ahead of what the equations say.                              *)
Behind ==
    lpc = "sweep" => \A i \in Indices : outs[i] \subseteq OutOf(i) /\ ins[i] \subseteq InOf(i, outs[i])

(* The sets of the others only get larger, and so do the ones computed.    *)
LEMMA StepGrows ==
    ASSUME TypeOK, Behind, [Next]_lvars
    PROVE  Behind' /\ Grows
<1>1. CASE Analyze
  <2>1. lpc # "sweep" /\ Indices' = Indices /\ \A i \in Indices : outs'[i] = {} /\ ins'[i] = {}
    BY <1>1 DEF Analyze, Indices
  <2>. QED BY <2>1 DEF Behind, Grows
<1>2. CASE LabelNotFound
  BY <1>2 DEF LabelNotFound, Behind, Grows
<1>3. CASE SweepStep
  <2>1. /\ lpc = "sweep" /\ lpc' = lpc /\ code' = code /\ succ' = succ /\ Indices' = Indices
        /\ outs' = [outs EXCEPT ![idx] = OutOf(idx)]
        /\ ins' = [ins EXCEPT ![idx] = InOf(idx, OutOf(idx))]
    BY <1>3 DEF SweepStep, Indices
  <2>2. idx \in Indices
    BY <1>3 DEF SweepStep, TypeOK, Indices
  <2>3. succ \in [Indices -> SUBSET Indices] /\ DOMAIN ins = Indices /\ DOMAIN outs = Indices
    BY <2>1 DEF TypeOK
  <2>4. \A i \in Indices : outs[i] \subseteq OutOf(i) /\ ins[i] \subseteq InOf(i, outs[i])
    BY <2>1 DEF Behind
  <2>5. \A i, o, q : o \subseteq q => InOf(i, o) \subseteq InOf(i, q)
    BY DEF InOf
  <2>6. \A i \in Indices : ins[i] \subseteq ins'[i] /\ outs[i] \subseteq outs'[i]
    <3>. TAKE i \in Indices
    <3>1. CASE i = idx
      <4>1. InOf(i, outs[i]) \subseteq InOf(i, OutOf(i))
        BY <2>4, <2>5
      <4>. QED BY <2>1, <2>3, <2>4, <3>1, <4>1
    <3>2. CASE i # idx
      BY <2>1, <2>3, <3>2
    <3>. QED BY <3>1, <3>2
  <2>7. \A i \in Indices : OutOf(i) \subseteq OutOf(i)'
    BY <2>1, <2>3, <2>6 DEF OutOf
  <2>8. ASSUME NEW i \in Indices
        PROVE  outs'[i] \subseteq OutOf(i)' /\ ins'[i] \subseteq InOf(i, outs'[i])
    <3>1. CASE i = idx
      <4>1. outs'[i] = OutOf(i) /\ ins'[i] = InOf(i, OutOf(i))
        BY <2>1, <2>3, <3>1
      <4>. QED BY <2>7, <4>1
    <3>2. CASE i # idx
      <4>1. outs'[i] = outs[i] /\ ins'[i] = ins[i]
        BY <2>1, <2>3, <3>2
      <4>. QED BY <2>4, <2>7, <4>1
    <3>. QED BY <3>1, <3>2
  <2>9. \A i \in Indices : InOf(i, outs[i])' = InOf(i, outs'[i])
    BY <2>1 DEF InOf
  <2>. QED BY <2>1, <2>6, <2>8, <2>9 DEF Behind, Grows
<1>4. CASE SweepAgain
  BY <1>4 DEF SweepAgain, Behind, Grows, OutOf, InOf, Indices
<1>5. CASE Converged
  BY <1>5 DEF Converged, Behind, Grows
<1>6. CASE UNCHANGED lvars
  BY <1>6 DEF lvars, Behind, Grows, OutOf, InOf, Indices
<1>. QED BY <1>1, <1>2, <1>3, <1>4, <1>5, <1>6 DEF Next

(* A sweep takes no location out of a set, whatever the program.           *)
THEOREM SetsGrow == Spec => SetsOnlyGrow
<1>1. Init => Behind
  BY DEF Init, Behind
<1>2. TypeOK /\ Behind /\ [Next]_lvars => Behind' /\ [Grows]_lvars
  BY StepGrows
<1>. QED BY <1>1, <1>2, TypeCorrect, PTL DEF Spec, SetsOnlyGrow
=============================================================================
