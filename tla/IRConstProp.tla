----------------------------- MODULE IRConstProp -----------------------------
(***************************************************************************)
(* Constant propagation (IR/src/const_prop.cpp).  Facts say of the names   *)
(* assigned so far whether they are undefined, a constant or neither; one  *)
(* step is one sweep over the blocks.                                      *)
(***************************************************************************)
EXTENDS IRCode

VARIABLES
    source, blocks,
    graph,      \* cfg_graphs
    factsIn,    \* block_in
    factsOut    \* block_out

Undef    == [kind |-> "UNDEF", num |-> 0]
Const(n) == [kind |-> "CONST", num |-> n]
Nac      == [kind |-> "NAC", num |-> 0]

(* meet_value.                                                             *)
Meet(v, w) ==
    CASE v.kind = "NAC" \/ w.kind = "NAC" -> Nac
      [] v.kind = "UNDEF"                 -> w
      [] w.kind = "UNDEF"                 -> v
      [] OTHER                            -> IF v = w THEN v ELSE Nac

Lookup(facts, x) == IF x \in DOMAIN facts THEN facts[x] ELSE Undef

Merge(f, g) == [x \in DOMAIN f \cup DOMAIN g |-> Meet(Lookup(f, x), Lookup(g, x))]

-----------------------------------------------------------------------------
(* The analysis.                                                           *)
Eval(facts, t) ==
    CASE IsNum(t) -> Const(t.num)
      [] IsVar(t) -> Lookup(facts, t.name)
      [] OTHER    -> Nac

(* Variant: what is not a constant is taken for undefined.                 *)
ComputedOrUndef(o, v, w) ==
    IF v.kind = "CONST" /\ w.kind = "CONST" THEN Const(Fold(o, v.num, w.num)) ELSE Undef

Computed(o, v, w) ==
    CASE v.kind = "CONST" /\ w.kind = "CONST" -> Const(Fold(o, v.num, w.num))
      [] v.kind = "NAC" \/ w.kind = "NAC"     -> Nac
      [] OTHER                                -> Undef

Outcome(facts, ins) ==
    CASE ins.op = "def"    -> Undef
      [] ins.op = "assign" -> Eval(facts, ins.args[1])
      [] ins.op = "op"     -> Computed(ins.kind, Eval(facts, ins.args[1]),
                                       Eval(facts, ins.args[2]))
      [] OTHER             -> Nac

Transfer(facts, ins) ==
    IF Written(ins) = NoName THEN facts
    ELSE (Written(ins) :> Outcome(facts, ins)) @@ facts

EntrySeed == [x \in {p.name : p \in Range(source.params)} |-> Nac]

Incoming(outs, k) ==
    Along(LAMBDA facts, p : Merge(facts, outs[p]), IF k = 1 THEN EntrySeed ELSE <<>>,
          SelectSeq([p \in DOMAIN blocks |-> p], LAMBDA p : k \in graph[p]))

SweepBlock(s, k) ==
    LET facts == Incoming(s.outs, k)
    IN  [ins  |-> [s.ins EXCEPT ![k] = facts],
         outs |-> [s.outs EXCEPT ![k] = Along(Transfer, facts, blocks[k].body)]]

Swept ==
    Along(SweepBlock, [ins |-> factsIn, outs |-> factsOut],
             [k \in DOMAIN blocks |-> k])

FactsStable == Swept = [ins |-> factsIn, outs |-> factsOut]

FactsStart ==
    /\ factsIn' = [k \in DOMAIN blocks' |-> <<>>]
    /\ factsOut' = [k \in DOMAIN blocks' |-> <<>>]

SweepFacts ==
    /\ ~FactsStable
    /\ factsIn' = Swept.ins /\ factsOut' = Swept.outs

-----------------------------------------------------------------------------
(* apply_transformations.                                                  *)
Replace(facts, t) ==
    IF IsVar(t) /\ Lookup(facts, t.name).kind = "CONST"
    THEN Num(Lookup(facts, t.name).num) ELSE t

(* The value of a store stays: only indices are replaced there.            *)
IsReplaceable(ins, j) == ins.op # "store" \/ j < Len(ins.args)

Replaced(facts, ins) ==
    [ins EXCEPT !.args =
        [j \in DOMAIN ins.args |->
            IF IsReplaceable(ins, j) THEN Replace(facts, ins.args[j]) ELSE ins.args[j]]]

Folded(ins) ==
    IF ins.op = "op" /\ IsNum(ins.args[1]) /\ IsNum(ins.args[2])
    THEN Assign(ins.dst, Num(Fold(ins.kind, ins.args[1].num, ins.args[2].num)))
    ELSE ins

(* The facts in front of instruction j of block k.                         *)
FactsAt(k, j) == Along(Transfer, factsIn[k], SubSeq(blocks[k].body, 1, j - 1))

Propagated ==
    [k \in DOMAIN blocks |->
        LET body == blocks[k].body
        IN  [blocks[k] EXCEPT
                !.body = [j \in DOMAIN body |-> Folded(Replaced(FactsAt(k, j), body[j]))],
                !.te   = Decided(Replaced(FactsAt(k, Len(body) + 1), blocks[k].te))]]

ConstPropResult == Pruned(Propagated)
=============================================================================
