------------------------------- MODULE IRCode -------------------------------
(***************************************************************************)
(* The functions of IR (IR/src/program.h): blocks of the instructions LA   *)
(* has too, each with a label and one terminator, and the graph of their   *)
(* successors (IR/src/cfg_graph.cpp).  The first block is the entry.       *)
(***************************************************************************)
EXTENDS LACode

(* The name of a function, as a term.                                      *)
FunctionName(f) == [name |-> <<f, -1>>, num |-> 0]

IsVar(t) == ~IsNum(t) /\ t.name[2] # -1

Block(l, body, te) == [label |-> l, body |-> body, te |-> te]

Labels(blocks) == {blocks[k].label : k \in DOMAIN blocks}

Place(blocks, l) == CHOOSE k \in DOMAIN blocks : blocks[k].label = l

(* FoldLeft, with each intermediate value computed once even where TLC     *)
(* finds out whether an action is enabled.                                 *)
Along(Step(_, _), first, seq) ==
    FoldLeft(LAMBDA value, x : CHOOSE r \in {Step(v, x) : v \in {value}} : TRUE, first, seq)

(* build_cfg_graphs: the successors of each block.                         *)
Graph(blocks) ==
    [k \in DOMAIN blocks |->
        {Place(blocks, l) : l \in Range(blocks[k].te.to) \cap Labels(blocks)}]

Predecessors(graph, k) == {p \in DOMAIN graph : k \in graph[p]}

Reached(graph) ==
    Along(LAMBDA seen, k : seen \cup UNION {graph[p] : p \in seen},
          {1} \cap DOMAIN graph, graph)

(* Without the blocks the entry does not lead to.                          *)
Pruned(blocks) ==
    LET reached == {blocks[k].label : k \in Reached(Graph(blocks))}
    IN  SelectSeq(blocks, LAMBDA b : b.label \in reached)

(* A terminator whose condition is a number.                               *)
Decided(te) ==
    IF te.op = "cond" /\ IsNum(te.args[1])
    THEN Branch(te.to[IF te.args[1].num # 0 THEN 1 ELSE 2])
    ELSE te

Truth(b) == IF b THEN 1 ELSE 0

(* The conjunction of two words of nine bits.                              *)
BitAnd(m, n) ==
    FoldLeft(LAMBDA s, k : s + 2 ^ k * ((m \div 2 ^ k) % 2) * ((n \div 2 ^ k) % 2),
             IF m < 0 /\ n < 0 THEN -256 ELSE 0, <<0, 1, 2, 3, 4, 5, 6, 7>>)

(* compute_binary_op, and what the operators mean.  A shift is by less     *)
(* than the width of a word.                                               *)
Fold(o, m, n) ==
    CASE o = "+"  -> m + n
      [] o = "-"  -> m - n
      [] o = "*"  -> m * n
      [] o = "&"  -> BitAnd(m, n)
      [] o = "<<" -> m * 2 ^ n
      [] o = ">>" -> m \div 2 ^ n
      [] o = "<"  -> Truth(m < n)
      [] o = "<=" -> Truth(m <= n)
      [] o = "="  -> Truth(m = n)
      [] o = ">=" -> Truth(m >= n)
      [] o = ">"  -> Truth(m > n)
=============================================================================
