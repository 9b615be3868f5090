------------------------------ MODULE LBPasses ------------------------------
(***************************************************************************)
(* The LB compiler (LB/src/compiler.cpp): translate_variable_decl,         *)
(* flatten_nested_scopes and translate_if_while, one after the other, on   *)
(* one function.  Then source and result run side by side; the run is a    *)
(* model of what the languages mean, not of code of the repository.        *)
(***************************************************************************)
EXTENDS LBLowering

CONSTANTS
    Params,    \* the names of the parameters
    Sources    \* the bodies compiled

ASSUME ParamsAssumption == IsFiniteSet(Params)

VARIABLES
    source,
    stage,     \* "scopes", "loops", "lower", "run" or "stopped"
    at,        \* the instruction the source is about to run
    pc         \* the instruction the result is about to run

scopeState == <<scopeMaps, nameCounters>>
loopState  == <<loopStack, loopOf>>

vars == <<source, params, code, i, out, scopeState, loopState, stage, at, pc>>

-----------------------------------------------------------------------------
(* What names mean in a body b.                                            *)

Level(b, k) ==
    Cardinality({j \in 1 .. k : b[j].op = "open"})
    - Cardinality({j \in 1 .. k : b[j].op = "close"})

Declares(b, j, x) == b[j].op = "declare" /\ b[j].names[1] = x

(* The declarations of x up to place k whose scope is still open there.    *)
Visible(b, k, x) ==
    {j \in 1 .. k : Declares(b, j, x) /\ \A h \in j .. k : Level(b, h) >= Level(b, j)}

(* What a name at place k means: the last of them, or the parameter or     *)
(* function of that name.                                                  *)
Binding(b, k, x) ==
    IF Visible(b, k, x) = {} THEN <<0, x>> ELSE <<Latest(Visible(b, k, x)), x>>

Occurrences(b) == UNION {{<<k, j>> : j \in DOMAIN b[k].names} : k \in DOMAIN b}

NameAt(b, o) == b[o[1]].names[o[2]]

Means(b, o) == Binding(b, o[1], NameAt(b, o))

(* The parser reads a body as a tree of scopes.                            *)
WellNested(b) ==
    \A k \in DOMAIN b : Level(b, k) >= IF b[k].op = "declare" THEN 1 ELSE 0

ASSUME SourcesAssumption ==
    \A b \in Sources : b \in Seq(Items) /\ WellNested(b)

(* No parameter or function that is used is named like a renamed variable, *)
(* x_0 for x.  The code takes it for granted.                              *)
FreeNames(b) == {NameAt(b, o) : o \in {q \in Occurrences(b) : Means(b, q)[1] = 0}}

Renamings(b) ==
    {Suffixed(b[j].names[1], n) :
        j \in {k \in DOMAIN b : b[k].op = "declare"}, n \in 0 .. Len(b)}

ASSUME NamesAssumption ==
    \A b \in Sources : FreeNames(b) \cap Renamings(b) = {}

(* A label is in one place only, and every loop has two of its own.        *)
ASSUME LabelsAssumption ==
    \A b \in Sources :
        /\ \A j, k \in DOMAIN b :
             b[j].op = "label" /\ b[k].op = "label" /\ b[j].to = b[k].to => j = k
        /\ \A j, k \in DOMAIN b : \A m, n \in 1 .. 2 :
             b[j].op = "while" /\ b[k].op = "while" /\ b[j].to[m] = b[k].to[n] =>
                 j = k /\ m = n

-----------------------------------------------------------------------------
Init ==
    /\ \E b \in Sources : source = [k \in DOMAIN b |-> [b[k] EXCEPT !.of = k]]
    /\ params = Params
    /\ code = source /\ i = 1 /\ out = <<>>
    /\ scopeMaps = <<>> /\ nameCounters = <<>>
    /\ loopStack = <<>> /\ loopOf = <<>>
    /\ stage = "scopes" /\ at = 1 /\ pc = 1

TranslateDecls ==
    /\ stage = "scopes"
    /\ ScopesNext
    /\ UNCHANGED <<source, params, loopState, stage, at, pc>>

FlattenScopes ==
    /\ stage = "scopes" /\ i > Len(code)
    /\ LoopsStart(Flat(out))
    /\ scopeMaps' = <<>> /\ nameCounters' = <<>>
    /\ stage' = "loops"
    /\ UNCHANGED <<source, params, at, pc>>

FindLoops ==
    /\ stage = "loops"
    /\ AssignLoop
    /\ UNCHANGED <<source, scopeState, stage, at, pc>>

StartLowering ==
    /\ stage = "loops" /\ i > Len(code)
    /\ LowerStart
    /\ stage' = "lower"
    /\ UNCHANGED <<source, scopeState, at, pc>>

Lower ==
    /\ stage = "lower"
    /\ LowerNext
    /\ UNCHANGED <<source, scopeState, stage, at, pc>>

(* The first place from k on that is an instruction.                       *)
Instruction(k) ==
    CHOOSE j \in k .. Len(source) + 1 :
        /\ j \in DOMAIN source => ~IsMark(source[j])
        /\ \A h \in k .. j - 1 : IsMark(source[h])

StartRun ==
    /\ stage = "lower" /\ i > Len(code)
    /\ code' = out
    /\ i' = 1 /\ out' = <<>> /\ loopStack' = <<>> /\ loopOf' = <<>>
    /\ stage' = "run"
    /\ at' = Instruction(1)
    /\ UNCHANGED <<source, params, scopeState, pc>>

-----------------------------------------------------------------------------
(* What the instructions mean.                                             *)

now == code[pc]

(* The loops that hold place k: their begin label is before k, and no end  *)
(* label of theirs lies between.                                           *)
LoopsAround(k) ==
    {w \in DOMAIN source :
        /\ source[w].op = "while"
        /\ \E b \in Places(source, source[w].to[1]) :
             b < k /\ \A e \in Places(source, source[w].to[2]) : ~(b < e /\ e < k)}

(* The innermost one is the one that began last.                           *)
LoopAround(k) ==
    CHOOSE w \in LoopsAround(k) :
        \A v \in LoopsAround(k) :
            \E b \in Places(source, source[w].to[1]) :
                \A c \in Places(source, source[v].to[1]) : c <= b \/ c > k

CanRun == stage = "run" /\ pc \in DOMAIN code

(* Both take the same branch.                                              *)
RunBranch ==
    /\ CanRun /\ now.op = "cond" /\ at \in DOMAIN source
    /\ \E k \in DOMAIN source[at].to :
         /\ at' \in {Instruction(p) : p \in Places(source, source[at].to[k])}
         /\ pc' \in Places(code, now.to[k])
    /\ UNCHANGED stage

(* continue goes back to the while of its loop, break to its end label.    *)
Target(k) ==
    CASE source[k].op = "branch" -> Places(source, source[k].to[1])
      [] source[k].op = "break"  -> Places(source, source[LoopAround(k)].to[2])
      [] OTHER                   -> {LoopAround(k)}

RunJump ==
    /\ CanRun /\ now.op = "branch" /\ at \in DOMAIN source
    /\ source[at].op = "branch" \/ LoopsAround(at) # {}
    /\ at' \in {Instruction(p) : p \in Target(at)}
    /\ pc' \in Places(code, now.to[1])
    /\ UNCHANGED stage

RunOther ==
    /\ CanRun /\ now.op \in {"declare", "use", "label"}
    /\ at' = IF now.of = 0 THEN at ELSE Instruction(at + 1)
    /\ pc' = pc + 1
    /\ UNCHANGED stage

RunCompare ==
    /\ CanRun /\ now.op = "compare"
    /\ pc' = pc + 1
    /\ UNCHANGED <<at, stage>>

(* A return, the end, or a break that belongs to no loop.                  *)
RunStop ==
    /\ stage = "run"
    /\ pc \in DOMAIN code => now.op \in {"return", "break", "continue"}
    /\ stage' = "stopped"
    /\ UNCHANGED <<at, pc>>

Run ==
    /\ RunBranch \/ RunJump \/ RunOther \/ RunCompare \/ RunStop
    /\ UNCHANGED <<source, params, code, i, out, scopeState, loopState>>

Next ==
    \/ TranslateDecls \/ FlattenScopes \/ FindLoops \/ StartLowering
    \/ Lower \/ StartRun \/ Run

Spec == Init /\ [][Next]_vars

-----------------------------------------------------------------------------
(* The result has no scopes: two names in it are the same exactly if they  *)
(* mean the same in the source, the ones of parameters and functions       *)
(* included.                                                               *)
ScopesAreRespected ==
    stage = "scopes" /\ i > Len(code) =>
        \A o, q \in Occurrences(source) :
            NameAt(out, o) = NameAt(out, q) <=> Means(source, o) = Means(source, q)

(* The result is in step with its source on every path: break and continue *)
(* go where their own loop says, every branch is on the comparison that    *)
(* stands for its condition, in a variable the source does not have, and   *)
(* what is no part of a loop stays where it was.                           *)
InStep ==
    stage = "run" =>
        IF pc \notin DOMAIN code THEN at = Len(source) + 1
        ELSE /\ now.of # 0 => at = now.of
             /\ now.op = "branch" => source[at].op = "branch" \/ LoopsAround(at) # {}
             /\ now.op \in {"break", "continue"} => LoopsAround(at) = {}
             /\ now.op = "cond" =>
                  /\ code[pc - 1].op = "compare" /\ code[pc - 1].of = now.of
                  /\ code[pc - 1].names[1] = now.names[1]
                  /\ \A k \in DOMAIN code :
                       now.names[1] \in Range(code[k].names) =>
                           code[k].op \in {"cond", "compare"} \/ code[k].of = 0
                  /\ now.names[1] \notin Range(Tail(code[pc - 1].names)) \cup params
=============================================================================
