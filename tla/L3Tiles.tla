------------------------------- MODULE L3Tiles -------------------------------
(***************************************************************************)
(* The trees of instruction selection (L3/src/instruction_selection.cpp):  *)
(* generate_tree, can_merge_trees and merge_tree; and its tiles            *)
(* (load_tiles): which trees they match, the L2 code they give and the     *)
(* subtrees that are left.  More nodes come first, then fewer              *)
(* instructions.                                                           *)
(***************************************************************************)
EXTENDS L3Code, FiniteSetsExt

(* An assignment is VAR -> ARROW -> right-hand side.                       *)
Definition(x, rhs) == Node("var", x, 0, <<Inner("arrow", <<rhs>>)>>)

MakeTree(i) ==
    CASE i.op = "assign" -> Definition(i.dst, i.args[1])
      [] i.op = "load"   -> Definition(i.dst, Inner("load", i.args))
      [] i.op = "store"  -> Inner("store", <<Definition(i.dst, i.args[1])>>)
      [] i.op = "return" -> Inner("return", i.args)
      [] i.op = "branch" -> Inner("br", <<Node("label", i.to, 0, <<>>)>>)
      [] i.op = "cond"   ->
           Inner("br", <<[i.args[1] EXCEPT !.kids = <<Node("label", i.to, 0, <<>>)>>]>>)

RECURSIVE Nodes(_)
Nodes(t) == {t} \cup UNION {Nodes(t.kids[n]) : n \in DOMAIN t.kids}

Below(t) == Nodes(t) \ {t}

(* get_used_vars and get_defined_var.                                      *)
UsedVars(t)   == {m.x : m \in {b \in Below(t) : IsVar(b)}}
DefinedVar(t) == IF IsVar(t) THEN t.x ELSE NoName

InvolvesMemory(t) == \E m \in Nodes(t) : m.t \in {"load", "store"}

IsDefinition(t) ==
    /\ IsVar(t) /\ Len(t.kids) = 1
    /\ t.kids[1].t = "arrow" /\ Len(t.kids[1].kids) = 1

Rhs(t) == t.kids[1].kids[1]

DefinesInside(t, v) ==
    \E m \in Nodes(t) : IsVar(m) /\ m.x = v /\ m.kids # <<>> /\ m.kids[1].t = "arrow"

IsLeafVar(t, v) == IsVar(t) /\ t.x = v /\ t.kids = <<>>
IsCondVar(t, v) == IsVar(t) /\ t.x = v /\ Len(t.kids) = 1 /\ t.kids[1].t = "label"

(* Variant: any definition may become the condition of a branch.           *)
HasAnyPlace(bottom, v, t) == \E m \in Nodes(t) : IsLeafVar(m, v) \/ IsCondVar(m, v)

(* Where the definition bottom of v can go: an operand, or the condition   *)
(* of a branch if it is a comparison.                                      *)
HasPlace(bottom, v, t) ==
    \E m \in Nodes(t) :
        \/ IsLeafVar(m, v)
        \/ IsCondVar(m, v) /\ IsDefinition(bottom) /\ Rhs(bottom).t \in Compares

(* Variant: only the trees of the same context are looked at.              *)
UsedInContext(trees, i, j, v, others, calls) ==
    \E k \in DOMAIN trees \ {i, j} : v \in UsedVars(trees[k])

(* Condition A: no other tree uses v; calls is what the calls of the       *)
(* function use, others the trees of the other contexts.                   *)
UsedElsewhere(trees, i, j, v, others, calls) ==
    \/ \E k \in DOMAIN trees \ {i, j} : v \in UsedVars(trees[k])
    \/ \E t \in others : v \in UsedVars(t)
    \/ v \in calls

(* Condition B and the one on memory, for the trees in between.            *)
CanMove(trees, i, j, v) ==
    \A k \in i + 1 .. j - 1 :
        /\ DefinedVar(trees[k]) # v /\ ~DefinesInside(trees[k], v)
        /\ DefinedVar(trees[k]) \notin UsedVars(trees[i])
        /\ ~(InvolvesMemory(trees[i]) /\ InvolvesMemory(trees[k]))

CanMerge(trees, i, j, others, calls) ==
    LET v == DefinedVar(trees[i])
    IN  /\ v # NoName
        /\ v \in UsedVars(trees[j])
        /\ HasPlace(trees[i], v, trees[j])
        /\ ~UsedElsewhere(trees, i, j, v, others, calls)
        /\ CanMove(trees, i, j, v)

(* The first place for v in t, in preorder, becomes bottom; a label that   *)
(* was there goes along.                                                   *)
RECURSIVE MergeTree(_, _, _)
MergeTree(t, bottom, v) ==
    LET Hit(m)  == IsLeafVar(m, v) \/ IsCondVar(m, v)
        n       == Min({h \in DOMAIN t.kids : \E m \in Nodes(t.kids[h]) : Hit(m)})
        merged  == IF Hit(t.kids[n])
                   THEN [bottom EXCEPT !.kids = @ \o t.kids[n].kids]
                   ELSE MergeTree(t.kids[n], bottom, v)
    IN  [t EXCEPT !.kids[n] = merged]

-----------------------------------------------------------------------------
SCR == Name("scratch")

IsLeafTerm(t) == t.t \in {"var", "num", "label", "fn"}

(* A definition whose right-hand side is an operator of ops.               *)
Defines(t, ops) ==
    /\ IsDefinition(t) /\ Rhs(t).t \in ops
    /\ Len(Rhs(t).kids) = 2 /\ \A n \in 1 .. 2 : IsTerm(Rhs(t).kids[n])

IsScale(t) == t.t = "num" /\ t.n \in {1, 2, 4, 8}
IsLeaf(t)  == IsVar(t) /\ t.kids = <<>>

IsMergedMul(t) ==
    /\ Defines(t, {"*"})
    /\ LET l == Rhs(t).kids[1] r == Rhs(t).kids[2]
       IN  (IsScale(r) /\ IsLeaf(l)) \/ (IsScale(l) /\ IsLeaf(r))

IsLea(t) ==
    /\ IsDefinition(t) /\ Rhs(t).t = "+" /\ Len(Rhs(t).kids) = 2
    /\ LET l == Rhs(t).kids[1] r == Rhs(t).kids[2]
       IN  (IsMergedMul(l) /\ IsLeaf(r)) \/ (IsMergedMul(r) /\ IsLeaf(l))

(* A branch whose condition is a comparison: VAR -> {ARROW, LABEL}.        *)
KidsOf(t, type) == {n \in DOMAIN t.kids : t.kids[n].t = type}

IsCompareBranch(t) ==
    /\ t.t = "br" /\ Len(t.kids) = 1 /\ IsVar(t.kids[1])
    /\ LET c == t.kids[1]
       IN  /\ Cardinality(KidsOf(c, "arrow")) = 1 /\ Cardinality(KidsOf(c, "label")) = 1
           /\ Len(c.kids) = 2
           /\ Defines([c EXCEPT !.kids = <<c.kids[Min(KidsOf(c, "arrow"))]>>], Compares)

IsStore(t) ==
    t.t = "store" /\ Len(t.kids) = 1 /\ IsDefinition(t.kids[1]) /\ IsLeafTerm(Rhs(t.kids[1]))

IsCondBranch(t) ==
    /\ t.t = "br" /\ Len(t.kids) = 1 /\ IsTerm(t.kids[1])
    /\ Len(t.kids[1].kids) = 1 /\ t.kids[1].kids[1].t = "label"

Tile(t) ==
    CASE IsLea(t)                                             -> "lea"
      [] IsCompareBranch(t)                                   -> "compareBranch"
      [] Defines(t, Compares)                                 -> "assignCompareOp"
      [] Defines(t, Arithmetic) /\ ~IsLea(t)                  -> "assignArithOp"
      [] IsDefinition(t) /\ Rhs(t).t = "load"                 -> "load"
      [] IsStore(t)                                           -> "store"
      [] IsDefinition(t) /\ IsLeafTerm(Rhs(t))                -> "assign"
      [] IsCondBranch(t)                                      -> "condBranch"
      [] t.t = "return" /\ t.kids # <<>>                      -> "returnVal"
      [] t.t = "br" /\ Len(t.kids) = 1 /\ t.kids[1].t = "label" -> "branch"
      [] t.t = "return" /\ t.kids = <<>>                      -> "return"
      [] OTHER                                                -> "none"

-----------------------------------------------------------------------------
Fold(o, a, b) ==
    CASE o = "+" -> a + b
      [] o = "-" -> a - b
      [] o = "*" -> a * b
      [] o = "<<" -> a * 2 ^ b
      [] o = ">>" -> a \div 2 ^ b
      [] o = "&" -> a   \* of equal numbers; others are not used

(* x <- l o r with two operands per instruction.                           *)
Arith(x, o, l, r) ==
    LET leftIsDst == IsVar(l) /\ l.x = x
        rightIsDst == IsVar(r) /\ r.x = x
    IN  CASE l.t = "num" /\ r.t = "num"             -> <<Move(x, Num(Fold(o, l.n, r.n)))>>
          [] leftIsDst                              -> <<Update(x, o, Leaf(r))>>
          [] ~leftIsDst /\ rightIsDst /\ o \in {"+", "*", "&"} -> <<Update(x, o, Leaf(l))>>
          [] ~leftIsDst /\ rightIsDst /\ o \notin {"+", "*", "&"} ->
               <<Move(SCR, Leaf(r)), Move(x, Leaf(l)), Update(x, o, Node("var", SCR, 0, <<>>))>>
          [] OTHER                                  -> <<Move(x, Leaf(l)), Update(x, o, Leaf(r))>>

(* > and >= are < and <= with the operands exchanged: L2 has no others.    *)
Mirrored(o) == CASE o = ">" -> "<" [] o = ">=" -> "<=" [] OTHER -> o
First(o, l, r)  == IF o \in {">", ">="} THEN Leaf(r) ELSE Leaf(l)
Second(o, l, r) == IF o \in {">", ">="} THEN Leaf(l) ELSE Leaf(r)

Operands(t) == Rhs(t).kids

LeaOf(t) ==
    LET l    == Operands(t)[1]
        r    == Operands(t)[2]
        mul  == Operands(IF IsMergedMul(l) THEN l ELSE r)
        e    == IF IsScale(mul[2]) THEN 2 ELSE 1
    IN  [base |-> IF IsMergedMul(l) THEN r ELSE l, index |-> mul[3 - e], scale |-> mul[e]]

(* The comparison a branch is on.                                          *)
Condition(t) == t.kids[1].kids[Min(KidsOf(t.kids[1], "arrow"))].kids[1]
Target(t)    == t.kids[1].kids[Min(KidsOf(t.kids[1], "label"))].x

GenerateL2(t) ==
    CASE Tile(t) = "lea"             -> <<Lea(t.x, LeaOf(t).base, LeaOf(t).index, LeaOf(t).scale)>>
      [] Tile(t) = "assignArithOp"   -> Arith(t.x, Rhs(t).t, Operands(t)[1], Operands(t)[2])
      [] Tile(t) = "assignCompareOp" ->
           LET o == Rhs(t).t l == Operands(t)[1] r == Operands(t)[2]
           IN  <<Compare(t.x, Mirrored(o), First(o, l, r), Second(o, l, r))>>
      [] Tile(t) = "compareBranch"   ->
           LET o == Condition(t).t l == Condition(t).kids[1] r == Condition(t).kids[2]
           IN  <<Jump(Mirrored(o), First(o, l, r), Second(o, l, r), Target(t))>>
      [] Tile(t) = "condBranch"      -> <<Jump("=", Leaf(t.kids[1]), Num(1), t.kids[1].kids[1].x)>>
      [] Tile(t) = "load"            -> <<LoadFrom(t.x, Leaf(Rhs(t).kids[1]))>>
      [] Tile(t) = "store"           -> <<StoreAt(t.kids[1].x, Leaf(Rhs(t.kids[1])))>>
      [] Tile(t) = "assign"          -> <<Move(t.x, Leaf(Rhs(t)))>>
      [] Tile(t) = "branch"          -> <<Goto(t.kids[1].x)>>
      [] Tile(t) = "returnVal"       -> <<Move(Rax, Leaf(t.kids[1])), Leave>>
      [] Tile(t) = "return"          -> <<Leave>>

(* find_children: the operands that are definitions themselves.            *)
FindChildren(t) ==
    SelectSeq(
        CASE Tile(t) = "lea" -> <<LeaOf(t).base, LeaOf(t).index>>
          [] Tile(t) \in {"assignArithOp", "assignCompareOp"} -> Operands(t)
          [] Tile(t) = "compareBranch" -> Condition(t).kids
          [] Tile(t) = "load" -> Rhs(t).kids
          [] Tile(t) = "store" -> <<Rhs(t.kids[1])>>
          [] Tile(t) = "assign" -> <<Rhs(t)>>
          [] Tile(t) = "returnVal" -> t.kids
          [] OTHER -> <<>>,
        LAMBDA s : s.kids # <<>>)
=============================================================================
