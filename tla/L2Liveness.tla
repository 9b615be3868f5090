----------------------------- MODULE L2Liveness -----------------------------
(***************************************************************************)
(* RegisterAllocator::generate_GEN_KILL, generate_succGraph and            *)
(* generate_IN_OUT (src/src/L2/src/program.cpp), one action per loop body. *)
(* The IN and OUT sets are recomputed instruction by instruction, from the *)
(* last to the first, and the sweep is repeated until nothing changes.     *)
(***************************************************************************)
EXTENDS L2Code

CONSTANT Programs   \* the instruction sequences the analysis may be given

ASSUME ProgramsAssumption == \A p \in Programs : p \in Seq(Instructions)

VARIABLES
    code,      \* the instructions being analysed
    succ,      \* succGraph: the successors of each instruction
    ins, outs, \* inOut: the IN and the OUT set of each instruction
    idx,       \* i of the inner loop: the next instruction of this sweep
    changed,   \* changeToInOut
    lpc        \* "idle", "sweep", "done", or "error" (an exception escaped)

lvars == <<code, succ, ins, outs, idx, changed, lpc>>

Indices == 1 .. Len(code)

Init ==
    /\ code \in Programs
    /\ succ = <<>> /\ ins = <<>> /\ outs = <<>>
    /\ idx = 0 /\ changed = FALSE
    /\ lpc = "idle"

(* Variant: the OUT sets of an earlier analysis are kept.                  *)
AnalyzeKeepingOuts ==
    /\ lpc = "idle"
    /\ LabelsResolve(code)
    /\ succ' = [i \in Indices |-> Succ(code, i)]
    /\ ins'  = [i \in Indices |-> {}]
    /\ idx' = Len(code) /\ changed' = FALSE
    /\ lpc' = "sweep"
    /\ UNCHANGED <<code, outs>>

(* The successor lists are built and every IN and OUT set starts empty.    *)
Analyze ==
    /\ lpc = "idle"
    /\ LabelsResolve(code)
    /\ succ' = [i \in Indices |-> Succ(code, i)]
    /\ ins'  = [i \in Indices |-> {}]
    /\ outs' = [i \in Indices |-> {}]
    /\ idx' = Len(code) /\ changed' = FALSE
    /\ lpc' = "sweep"
    /\ UNCHANGED code

(* findLabelIndex throws: a jump names a label the function does not have. *)
LabelNotFound ==
    /\ lpc = "idle"
    /\ ~LabelsResolve(code)
    /\ lpc' = "error"
    /\ UNCHANGED <<code, succ, ins, outs, idx, changed>>

(* Variant: a jump is taken for an instruction that falls through.         *)
OutOfNext(i) == UNION {ins[s] : s \in succ[i] \cap {i + 1}}

OutOf(i)   == UNION {ins[s] : s \in succ[i]}
InOf(i, o) == Gen(code[i]) \cup (o \ Kill(code[i]))

(* Variant: the flag tells about the last instruction visited only.        *)
SweepStepLastOnly ==
    /\ lpc = "sweep" /\ idx > 0
    /\ LET o == OutOf(idx)
           n == InOf(idx, o)
       IN  /\ outs' = [outs EXCEPT ![idx] = o]
           /\ ins'  = [ins EXCEPT ![idx] = n]
           /\ changed' = (o # outs[idx] \/ n # ins[idx])
    /\ idx' = idx - 1
    /\ UNCHANGED <<code, succ, lpc>>

(* One iteration of the inner loop.                                        *)
SweepStep ==
    /\ lpc = "sweep" /\ idx > 0
    /\ LET o == OutOf(idx)
           n == InOf(idx, o)
       IN  /\ outs' = [outs EXCEPT ![idx] = o]
           /\ ins'  = [ins EXCEPT ![idx] = n]
           /\ changed' = (changed \/ o # outs[idx] \/ n # ins[idx])
    /\ idx' = idx - 1
    /\ UNCHANGED <<code, succ, lpc>>

(* Variants: the flag is never cleared; the sets are cleared every time.   *)
SweepAgainForever ==
    /\ lpc = "sweep" /\ idx = 0 /\ changed
    /\ idx' = Len(code)
    /\ UNCHANGED <<code, succ, ins, outs, changed, lpc>>

SweepAgainAfresh ==
    /\ lpc = "sweep" /\ idx = 0 /\ changed
    /\ idx' = Len(code) /\ changed' = FALSE
    /\ ins' = [i \in Indices |-> {}]
    /\ UNCHANGED <<code, succ, outs, lpc>>

(* The while condition: sweep again if this sweep changed a set.           *)
SweepAgain ==
    /\ lpc = "sweep" /\ idx = 0 /\ changed
    /\ idx' = Len(code) /\ changed' = FALSE
    /\ UNCHANGED <<code, succ, ins, outs, lpc>>

Converged ==
    /\ lpc = "sweep" /\ idx = 0 /\ ~changed
    /\ lpc' = "done"
    /\ UNCHANGED <<code, succ, ins, outs, idx, changed>>

Next == Analyze \/ LabelNotFound \/ SweepStep \/ SweepAgain \/ Converged

Spec == Init /\ [][Next]_lvars

(* The analysis is one sequential function: it takes its steps until none  *)
(* is left.                                                                *)
FairSpec == Spec /\ WF_lvars(Next)

-----------------------------------------------------------------------------
(* The type invariant: the sets hold locations only, and cover exactly the *)
(* instructions of the program while and after they are computed.          *)
TypeOK ==
    /\ code \in Seq(Instructions)
    /\ idx \in 0 .. Len(code)
    /\ changed \in BOOLEAN
    /\ lpc \in {"idle", "sweep", "done", "error"}
    /\ lpc \in {"sweep", "done"} =>
         /\ succ \in [Indices -> SUBSET Indices]
         /\ ins  \in [Indices -> SUBSET Locations]
         /\ outs \in [Indices -> SUBSET Locations]

(* The dataflow equations of instruction i.                                *)
EquationAt(i) ==
    /\ outs[i] = OutOf(i)
    /\ ins[i] = InOf(i, outs[i])

(* When generate_IN_OUT returns, IN and OUT satisfy the equations at every *)
(* instruction, the ones visited before the last change included.          *)
Solved == lpc = "done" => \A i \in Indices : EquationAt(i)

(* A set family I that is closed under the liveness equations.             *)
ClosedFamily(I) ==
    \A i \in Indices :
        Gen(code[i]) \cup ((UNION {I[s] : s \in succ[i]}) \ Kill(code[i]))
            \subseteq I[i]

(* The analysis never reports more than the least solution: at every point *)
(* of the sweep the IN sets lie below every family closed under the        *)
(* equations, so nothing is live without a use that makes it so.           *)
Least ==
    lpc \in {"sweep", "done"} =>
        \A I \in [Indices -> SUBSET Locations] :
            ClosedFamily(I) => \A i \in Indices : ins[i] \subseteq I[i]

(* The instructions from which control reaches one that reads l without    *)
(* overwriting it before: a path that takes more steps than there are      *)
(* instructions is a detour.                                               *)
Reads(l) == {i \in Indices : l \in Gen(code[i])}

Before(l, S) == {i \in Indices : l \notin Kill(code[i]) /\ succ[i] \cap S # {}}

ReadsReached(l) ==
    LET within[n \in 0 .. Len(code)] ==
            IF n = 0 THEN Reads(l) ELSE within[n - 1] \cup Before(l, within[n - 1])
    IN  within[Len(code)]

(* What liveness means, without dataflow equations: l is live at           *)
(* instruction i when control can reach, from i and without overwriting l, *)
(* an instruction that reads l.  generate_IN_OUT computes exactly that.    *)
LiveIffUseReachable ==
    lpc = "done" =>
        \A l \in Locations : {i \in Indices : l \in ins[i]} = ReadsReached(l)

(* A sweep never takes a location out of an IN or an OUT set.              *)
Grows ==
    lpc = "sweep" => \A i \in Indices : /\ ins[i] \subseteq ins'[i]
                                        /\ outs[i] \subseteq outs'[i]
SetsOnlyGrow == [][Grows]_lvars

(* The fixpoint iteration of every program ends.                           *)
Terminates == <>(lpc \in {"done", "error"})
=============================================================================
