----------------------------- MODULE IRSimplify -----------------------------
(***************************************************************************)
(* The algebraic simplification of operators                               *)
(* (IR/src/algebraic_simplify.cpp) and the simplification of branches      *)
(* (IR/src/branch_simplify.cpp).  Operands of IR are terms: the cases of   *)
(* the code for an operator within an operator do not occur.  And dead     *)
(* code elimination (IR/src/dce.cpp): one step is one sweep of the         *)
(* liveness of the blocks, from the last to the first.  And loop-invariant *)
(* code motion (IR/src/loop_licm.cpp), from the header of a natural loop   *)
(* to the block in front of it: one step is a sweep of the dominators or   *)
(* one back edge.                                                          *)
(***************************************************************************)
EXTENDS IRCode

VARIABLES
    blocks,
    graph,      \* cfg_graphs, as the driver hands it over
    liveIn, liveOut,  \* of dead code elimination
    dominators,       \* of loop-invariant code motion
    backedges         \* those still to be looked at

Commutative == {"+", "*", "&", "="}

(* simplify_operator_expr, with the constant on the right.                 *)
SimplifiedOp(x, l, o, r) ==
    CASE IsNum(l) /\ IsNum(r)                       -> Assign(x, Num(Fold(o, l.num, r.num)))
      [] l = r /\ o \in {"-", "<", ">"}             -> Assign(x, Num(0))
      [] l = r /\ o \in {"=", "<=", ">="}           -> Assign(x, Num(1))
      [] l = r /\ o = "&"                           -> Assign(x, l)
      [] r = Num(0) /\ o \in {"*", "&"}             -> Assign(x, Num(0))
      [] r = Num(0) /\ o \in {"+", "-", "<<", ">>"} -> Assign(x, l)
      [] r = Num(1) /\ o = "*"                      -> Assign(x, l)
      [] r = Num(-1) /\ o = "&"                     -> Assign(x, l)
      [] OTHER                                      -> Op(x, l, o, r)

Simplified(ins) ==
    LET l == ins.args[1] r == ins.args[2]
    IN  CASE ins.op # "op" -> ins
          [] ins.op = "op" /\ ins.kind \in Commutative /\ IsNum(l) ->
                SimplifiedOp(ins.dst, r, ins.kind, l)
          [] OTHER -> SimplifiedOp(ins.dst, l, ins.kind, r)

AlgebraResult ==
    [k \in DOMAIN blocks |->
        [blocks[k] EXCEPT !.body = [j \in DOMAIN @ |-> Simplified(@[j])]]]

-----------------------------------------------------------------------------
IsPassage(b) == b.body = <<>> /\ b.te.op = "branch"

Follow(bs, walk) ==
    IF walk.at \in walk.seen \/ walk.at \notin Labels(bs) \/ ~IsPassage(bs[Place(bs, walk.at)])
    THEN walk
    ELSE [at |-> bs[Place(bs, walk.at)].te.to[1], seen |-> walk.seen \cup {walk.at}]

(* resolve_thread_target: past blocks that only branch, once around a      *)
(* cycle of them.                                                          *)
ThreadTarget(bs, l) ==
    Along(LAMBDA walk, b : Follow(bs, walk), [at |-> l, seen |-> {}], bs).at

Threaded(bs, te) ==
    LET to == [j \in DOMAIN te.to |-> ThreadTarget(bs, te.to[j])]
    IN  IF te.op = "cond" /\ to[1] = to[2] THEN Branch(to[1]) ELSE [te EXCEPT !.to = to]

(* One round of the loop of run.  Targets are looked up in the blocks as   *)
(* they are by then.                                                       *)
BranchRound ==
    LET decided == [k \in DOMAIN blocks |-> [blocks[k] EXCEPT !.te = Decided(@)]]
    IN  Pruned(Along(LAMBDA bs, k : [bs EXCEPT ![k].te = Threaded(bs, @)],
                        decided, [k \in DOMAIN blocks |-> k]))

-----------------------------------------------------------------------------
Uses(ins) == IF ins.op = "def" THEN {} ELSE Reads(ins)

Removable == {"assign", "op", "load", "length"}

Before(live, ins) == (live \ {Written(ins)}) \cup Uses(ins)

(* The names live in front of the whole block, and in front of its         *)
(* instruction j.                                                          *)
LiveAt(out, k, j) ==
    Along(Before, out \cup Uses(blocks[k].te),
          Reverse(SubSeq(blocks[k].body, j, Len(blocks[k].body))))

SweepLiveBlock(s, k) ==
    LET out == UNION {s.ins[m] : m \in graph[k]}
    IN  [ins  |-> [s.ins EXCEPT ![k] = LiveAt(out, k, 1)],
         outs |-> [s.outs EXCEPT ![k] = out]]

LiveSweep ==
    Along(SweepLiveBlock, [ins |-> liveIn, outs |-> liveOut],
          Reverse([k \in DOMAIN blocks |-> k]))

LiveStable == LiveSweep = [ins |-> liveIn, outs |-> liveOut]

LiveStart ==
    /\ liveIn' = [k \in DOMAIN blocks' |-> {}]
    /\ liveOut' = [k \in DOMAIN blocks' |-> {}]

SweepLiveness ==
    /\ ~LiveStable
    /\ liveIn' = LiveSweep.ins /\ liveOut' = LiveSweep.outs

IsDead(k, j) ==
    LET ins == blocks[k].body[j]
    IN  ins.op \in Removable /\ Written(ins) \notin LiveAt(liveOut[k], k, j + 1)

DceResult ==
    [k \in DOMAIN blocks |->
        [blocks[k] EXCEPT !.body =
            Along(LAMBDA body, j : IF IsDead(k, j) THEN body ELSE Append(body, @[j]),
                  <<>>, [j \in DOMAIN @ |-> j])]]

-----------------------------------------------------------------------------
(* Neither the labels nor the terminators change here, so the graph of the *)
(* blocks is that of the beginning of the pass.                            *)
licmGraph == Graph(blocks)

DominatorsStart ==
    dominators' = [k \in DOMAIN blocks' |-> IF k = 1 THEN {1} ELSE DOMAIN blocks']

DominatorSweep ==
    Along(LAMBDA dom, k :
                [dom EXCEPT ![k] = {k} \cup {d \in DOMAIN blocks :
                    /\ Predecessors(licmGraph, k) # {}
                    /\ \A p \in Predecessors(licmGraph, k) : d \in dom[p]}],
             dominators, [k \in 1 .. Len(blocks) - 1 |-> k + 1])

SweepDominators ==
    /\ DominatorSweep # dominators
    /\ dominators' = DominatorSweep

(* find_backedges, by tail and head.                                       *)
FindBackedges ==
    LET n == Len(blocks)
        pairs == [k \in 1 .. n * n |-> <<((k - 1) \div n) + 1, ((k - 1) % n) + 1>>]
    IN  SelectSeq(pairs, LAMBDA e : e[2] \in licmGraph[e[1]] /\ e[2] \in dominators[e[1]])

(* build_natural_loop.  If the tail is the head, its predecessors count.   *)
NaturalLoop(tail, head) ==
    Along(LAMBDA nodes, k :
                nodes \cup UNION {Predecessors(licmGraph, n) : n \in (nodes \ {head}) \cup {tail}},
             {head, tail}, blocks)

IsSimplePreheader(p, head, nodes) ==
    /\ Predecessors(licmGraph, head) \ nodes = {p}
    /\ licmGraph[p] = {head}
    /\ blocks[p].te.op = "branch"

(* The places of the loop where x is written.                              *)
Definitions(nodes, x) ==
    UNION {{k} \X {j \in DOMAIN blocks[k].body : Written(blocks[k].body[j]) = x} : k \in nodes}

DefinedIn(nodes) ==
    UNION {{Written(blocks[k].body[j]) : j \in DOMAIN blocks[k].body} : k \in nodes} \ {NoName}

(* Variant: a name may be assigned at several places of the loop.          *)
IsHoistedAny(blocked, nodes, ins) ==
    /\ ins.op \in {"assign", "op"}
    /\ Reads(ins) \cap blocked = {}

IsHoisted(blocked, nodes, ins) ==
    /\ ins.op \in {"assign", "op"}
    /\ Cardinality(Definitions(nodes, ins.dst)) = 1
    /\ Reads(ins) \cap blocked = {}

(* What is moved from the header, what stays there, and the names that     *)
(* still block others.                                                     *)
Partition(nodes, head) ==
    Along(LAMBDA s, ins :
                IF IsHoisted(s.blocked, nodes, ins)
                THEN [s EXCEPT !.moved = Append(@, ins), !.blocked = @ \ {ins.dst}]
                ELSE [s EXCEPT !.kept = Append(@, ins)],
             [moved |-> <<>>, kept |-> <<>>, blocked |-> DefinedIn(nodes)],
             blocks[head].body)

HoistAlongEdge ==
    /\ backedges # <<>>
    /\ backedges' = Tail(backedges)
    /\ LET head  == backedges[1][2]
           nodes == NaturalLoop(backedges[1][1], head)
           parts == Partition(nodes, head)
       IN  blocks' = [k \in DOMAIN blocks |->
              CASE IsSimplePreheader(k, head, nodes) -> [blocks[k] EXCEPT !.body = @ \o parts.moved]
                [] k = head /\ \E p \in DOMAIN blocks : IsSimplePreheader(p, head, nodes) ->
                       [blocks[k] EXCEPT !.body = parts.kept]
                [] OTHER -> blocks[k]]
=============================================================================
