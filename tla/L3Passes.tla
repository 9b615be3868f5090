------------------------------ MODULE L3Passes ------------------------------
(***************************************************************************)
(* The L3 compiler (L3/src/compiler.cpp): globalize_labels,                *)
(* select_instructions and the emission of L2, on one program.  Then one   *)
(* function of the source and of the result run by turns, each up to its   *)
(* next effect: a store, a call, a branch, a label or a return.  The run   *)
(* is a model of what the languages mean, not of code of the repository;   *)
(* values are the expressions that compute them.                           *)
(***************************************************************************)
EXTENDS L3Tiles

CONSTANTS
    Sources,      \* the programs compiled
    MaxEffects    \* bound on the effects of a run

ASSUME EffectsAssumption == MaxEffects \in Nat

VARIABLES
    source, functions, f, k,
    L3_to_L2, globalCounter,               \* of L3Labels
    pass, context, partitions, p, n,
    toVisit, treeL2Code, contexts,         \* of L3Select
    returnInstructionCounter, code, out,   \* of L3Select: emission
    stage,       \* "labels", "select", "emit", "run" or "stopped"
    fn,          \* the function that runs
    at, env,     \* source: the next instruction, the values of the variables
    pc, regs,    \* result: the same, registers included
    slots,       \* result: the words below rsp
    effect,      \* the effect of the source the result has yet to have
    effects      \* how many there have been

labelState  == <<L3_to_L2, globalCounter>>
selectState == <<pass, context, partitions, n, toVisit, treeL2Code>>
emitState   == <<returnInstructionCounter, code, out>>
runState    == <<fn, at, env, pc, regs, slots, effect, effects>>

vars == <<source, functions, f, k, labelState, selectState, p, contexts, emitState, stage, runState>>

La == INSTANCE L3Labels
Se == INSTANCE L3Select

Effect(what, values) == [what |-> what, values |-> values]
NoEffect == Effect("none", <<>>)

Placed(prog) ==
    [g \in DOMAIN prog |->
        [prog[g] EXCEPT !.body = [h \in DOMAIN @ |-> [@[h] EXCEPT !.of = h]]]]

Init ==
    /\ source \in {Placed(prog) : prog \in Sources}
    /\ functions = source /\ f = 1 /\ k = 1
    /\ L3_to_L2 = <<>> /\ globalCounter = 0
    /\ pass = "load" /\ context = <<>> /\ partitions = <<>> /\ p = 1 /\ n = 1
    /\ toVisit = <<>> /\ treeL2Code = <<>> /\ contexts = <<>>
    /\ returnInstructionCounter = 0 /\ code = <<>> /\ out = <<>>
    /\ stage = "labels"
    /\ fn = 1 /\ at = 1 /\ env = <<>> /\ pc = 1 /\ regs = <<>> /\ slots = <<>>
    /\ effect = NoEffect /\ effects = 0

GlobalizeLabels ==
    /\ stage = "labels"
    /\ La!LabelsNext
    /\ UNCHANGED <<source, selectState, p, contexts, emitState, stage, runState>>

StartSelection ==
    /\ stage = "labels" /\ f > Len(functions)
    /\ f' = 1 /\ stage' = "select"
    /\ UNCHANGED <<source, functions, k, labelState, selectState, p, contexts, emitState, runState>>

SelectInstructions ==
    /\ stage = "select"
    /\ Se!SelectNext
    /\ UNCHANGED <<source, labelState, emitState, stage, runState>>

StartEmission ==
    /\ stage = "select" /\ f > Len(functions)
    /\ f' = 1 /\ p' = 0 /\ stage' = "emit"
    /\ UNCHANGED <<source, functions, k, labelState, selectState, contexts, emitState, runState>>

GenerateCode ==
    /\ stage = "emit"
    /\ Se!EmitNext
    /\ UNCHANGED <<source, k, labelState, selectState, stage, runState>>

Parameters(g) == source[g].vars

StartRun ==
    /\ stage = "emit" /\ f > Len(functions)
    /\ stage' = "run"
    /\ fn' \in DOMAIN source
    /\ LET arg(m) == <<"arg", m>>
           vs     == Parameters(fn')
       IN  /\ env' = [x \in Range(vs) |-> arg(CHOOSE m \in DOMAIN vs : vs[m] = x)]
           /\ regs' = [x \in {ArgRegister(m) : m \in 1 .. Min({6, Len(vs)})} |->
                          arg(CHOOSE m \in 1 .. 6 : ArgRegister(m) = x)]
    /\ UNCHANGED <<source, functions, f, k, labelState, selectState, p, contexts, emitState,
                   at, pc, slots, effect, effects>>

-----------------------------------------------------------------------------
(* Values.  Numbers are computed; of a sum, a product or a comparison it   *)
(* does not matter how it was written.                                     *)
IsTruth(v) == v[1] = "op" /\ v[2] \in {"<", "<=", "="}

Truth(b) == <<"num", IF b THEN 1 ELSE 0>>

Computed(o, a, b) ==
    CASE o \in Arithmetic -> <<"num", Fold(o, a, b)>>
      [] o = "<"  -> Truth(a < b)
      [] o = "<=" -> Truth(a <= b)
      [] o = "="  -> Truth(a = b)

Directed(o, a, b) ==
    CASE a[1] = "num" /\ b[1] = "num"              -> Computed(o, a[2], b[2])
      [] o = "=" /\ IsTruth(a) /\ b = <<"num", 1>> -> a
      [] o \in {"+", "*", "&", "="} /\ ~(a[1] = "num" /\ b[1] = "num")
           /\ ~(o = "=" /\ IsTruth(a) /\ b = <<"num", 1>>) -> <<"op", o, {a, b}>>
      [] OTHER                                     -> <<"op", o, <<a, b>>>>

Apply(o, a, b) ==
    IF o \in {">", ">="} THEN Directed(Mirrored(o), b, a) ELSE Directed(o, a, b)

Get(e, x) == IF x \in DOMAIN e THEN e[x] ELSE <<"unset", x>>

Places(body, l) == {c \in DOMAIN body : body[c].op = "label" /\ body[c].to = l}

(* The value of a term; a label is the place it names in the source.       *)
Value(e, body, t) ==
    CASE IsVar(t)      -> Get(e, t.x)
      [] t.t = "num"   -> <<"num", t.n>>
      [] t.t = "label" ->
           IF t.x[2] = "_ret" THEN <<"back", t.x>>
           ELSE <<"place", {body[c].of : c \in Places(body, t.x)}>>
      [] OTHER         -> <<t.t, t.x>>

Set(e, x, v) == (x :> v) @@ e

-----------------------------------------------------------------------------
(* The source.                                                             *)
body == source[fn].body
now  == body[at]

InSource == stage = "run" /\ effect = NoEffect /\ at \in DOMAIN body /\ effects < MaxEffects

Val(t) == Value(env, body, t)

Rhs3(t) ==
    IF t.t \in Arithmetic \cup Compares THEN Apply(t.t, Val(t.kids[1]), Val(t.kids[2])) ELSE Val(t)

SourceAssign ==
    /\ InSource /\ now.op \in {"assign", "load"}
    /\ env' = Set(env, now.dst,
                  IF now.op = "assign" THEN Rhs3(now.args[1])
                  ELSE <<"load", Val(now.args[1]), effects>>)
    /\ at' = at + 1
    /\ UNCHANGED <<effect, effects>>

SourceBranch ==
    /\ InSource /\ now.op = "branch"
    /\ at' \in Places(body, now.to)
    /\ UNCHANGED <<env, effect, effects>>

Has(what, values) == effect' = Effect(what, values) /\ effects' = effects + 1

SourceStore ==
    /\ InSource /\ now.op = "store"
    /\ Has("store", <<Get(env, now.dst), Val(now.args[1])>>)
    /\ at' = at + 1
    /\ UNCHANGED env

SourceLabel ==
    /\ InSource /\ now.op = "label"
    /\ Has("label", <<at>>)
    /\ at' = at + 1
    /\ UNCHANGED env

(* A condition that is no number may go either way.                        *)
SourceCond ==
    /\ InSource /\ now.op = "cond"
    /\ LET v == Apply("=", Val(now.args[1]), <<"num", 1>>)
       IN  \/ v # Truth(FALSE) /\ Has("taken", <<v>>) /\ at' \in Places(body, now.to)
           \/ v # Truth(TRUE) /\ Has("passed", <<v>>) /\ at' = at + 1
    /\ UNCHANGED env

SourceCall ==
    /\ InSource /\ now.op = "call"
    /\ Has("call", [m \in DOMAIN now.args |-> Val(now.args[m])])
    /\ env' = IF now.dst = NoName THEN env ELSE Set(env, now.dst, <<"result", effects'>>)
    /\ at' = at + 1

SourceReturn ==
    /\ InSource /\ now.op = "return"
    /\ Has("return", [m \in DOMAIN now.args |-> Val(now.args[m])])
    /\ at' = Len(body) + 1
    /\ UNCHANGED env

Source ==
    /\ \/ SourceAssign \/ SourceBranch \/ SourceStore \/ SourceLabel
       \/ SourceCond \/ SourceCall \/ SourceReturn
    /\ UNCHANGED <<stage, pc, regs, slots>>

-----------------------------------------------------------------------------
(* The result.                                                             *)
target == out[fn]
inst   == target[pc]

InResult == stage = "run" /\ effect # NoEffect /\ pc \in DOMAIN target

Got(t) == Value(regs, target, t)

(* The stores and calls before: not the effect that is yet to come.        *)
SoFar == effects - 1

Computes ==
    CASE inst.op = "move"    -> Got(inst.args[1])
      [] inst.op = "update"  -> Apply(inst.args[1].t, Get(regs, inst.dst), Got(inst.args[2]))
      [] inst.op = "compare" -> Apply(inst.args[1].t, Got(inst.args[2]), Got(inst.args[3]))
      [] inst.op = "lea"     -> Apply("+", Got(inst.args[1]),
                                       Apply("*", Got(inst.args[2]), Got(inst.args[3])))
      [] inst.op = "load"    -> <<"load", Got(inst.args[1]), SoFar>>
      [] inst.op = "stackarg" -> <<"arg", Len(Parameters(fn)) - inst.args[1].n \div 8>>

ResultComputes ==
    /\ InResult /\ inst.op \in {"move", "update", "compare", "lea", "load", "stackarg"}
    /\ regs' = Set(regs, inst.dst, Computes)
    /\ pc' = pc + 1
    /\ UNCHANGED <<slots, effect>>

ResultPass ==
    /\ InResult /\ inst.op = "pass"
    /\ slots' = Set(slots, inst.args[1].n, Got(inst.args[2]))
    /\ pc' = pc + 1
    /\ UNCHANGED <<regs, effect>>

(* Of the labels, those of returns are no effect.                          *)
ResultGoesOn ==
    /\ InResult
    /\ \/ inst.op = "goto" /\ pc' \in Places(target, inst.to)
       \/ inst.op = "label" /\ inst.of = 0 /\ pc' = pc + 1
    /\ UNCHANGED <<regs, slots, effect>>

PassedAt(m) == IF m <= 6 THEN Get(regs, ArgRegister(m)) ELSE Get(slots, 8 * (m - 5))

(* What the effect of the instruction is; a branch goes where the source   *)
(* went.                                                                   *)
ResultEffect ==
    CASE inst.op = "store"  -> Effect("store", <<Get(regs, inst.dst), Got(inst.args[1])>>)
      [] inst.op = "label"  -> Effect("label", <<inst.of>>)
      [] inst.op = "cjump"  ->
           Effect(effect.what, <<Apply(inst.args[1].t, Got(inst.args[2]), Got(inst.args[3]))>>)
      [] inst.op = "call"   ->
           Effect("call", <<Got(inst.args[1])>> \o [m \in 1 .. inst.args[2].n |-> PassedAt(m)])
      [] inst.op = "return" ->
           Effect("return", [m \in 1 .. Len(effect.values) |-> Get(regs, Rax)])

AtEffect ==
    /\ InResult
    /\ inst.op \in {"store", "cjump", "call", "return"} \/ (inst.op = "label" /\ inst.of # 0)

(* A call destroys the argument registers and what is below rsp; that of a *)
(* function goes on at the label below the return address.                 *)
ResultCall ==
    /\ AtEffect /\ inst.op = "call"
    /\ regs' = [x \in (DOMAIN regs \cup {Rax}) \ {ArgRegister(m) : m \in 1 .. 6} |->
                   IF x = Rax THEN <<"result", effects>> ELSE regs[x]]
    /\ slots' = <<>>
    /\ IF inst.args[1].t = "runtime" THEN pc' = pc + 1
       ELSE pc' \in Places(target, Get(slots, 8)[2])
    /\ UNCHANGED stage

ResultBranch ==
    /\ AtEffect /\ inst.op = "cjump"
    /\ \/ effect.what = "taken" /\ pc' \in Places(target, inst.to)
       \/ effect.what = "passed" /\ pc' = pc + 1
    /\ UNCHANGED <<regs, slots, stage>>

ResultOther ==
    /\ AtEffect /\ inst.op \in {"store", "label"}
    /\ pc' = pc + 1
    /\ UNCHANGED <<regs, slots, stage>>

ResultReturn ==
    /\ AtEffect /\ inst.op = "return"
    /\ stage' = "stopped"
    /\ UNCHANGED <<pc, regs, slots>>

Result ==
    /\ \/ (ResultComputes \/ ResultPass \/ ResultGoesOn) /\ UNCHANGED stage
       \/ (ResultCall \/ ResultBranch \/ ResultOther \/ ResultReturn) /\ effect' = NoEffect
    /\ UNCHANGED <<at, env, effects>>

Run ==
    /\ Source \/ Result
    /\ UNCHANGED <<source, functions, f, k, labelState, selectState, p, contexts, emitState, fn>>

Next ==
    \/ GlobalizeLabels \/ StartSelection \/ SelectInstructions \/ StartEmission
    \/ GenerateCode \/ StartRun \/ Run

Spec == Init /\ [][Next]_vars

-----------------------------------------------------------------------------
(* Whatever merging makes, there is a tile for it: the compiler does not   *)
(* throw "Insuffient tiles".                                               *)
TilesSuffice == toVisit # <<>> => Tile(Last(toVisit)) # "none"

(* No two places of the program have the same label, those where calls     *)
(* return included, and each label jumped to is in the function.           *)
LabelsAreDistinct ==
    \A g, h \in DOMAIN out :
        /\ \A c \in DOMAIN out[g], d \in DOMAIN out[h] :
             out[g][c].op = "label" /\ out[h][d].op = "label" /\ out[g][c].to = out[h][d].to =>
                 g = h /\ c = d
        /\ \A c \in DOMAIN out[g] :
             out[g][c].op \in {"goto", "cjump"} => Places(out[g], out[g][c].to) # {}

(* On every path the result has the effects of the source, in its order    *)
(* and on the same values: nothing merged was lost, moved past what it     *)
(* depends on, or overwritten.                                             *)
SameEffects == AtEffect => ResultEffect = effect
=============================================================================
