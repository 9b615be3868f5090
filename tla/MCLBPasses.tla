----------------------------- MODULE MCLBPasses -----------------------------
(***************************************************************************)
(* LBPasses on all well-nested bodies of five items that declare and use   *)
(* two names in nested scopes, one of which looks like a renaming of the   *)
(* other, and on all orders of the parts of two loops with a break or a    *)
(* continue somewhere.                                                     *)
(***************************************************************************)
EXTENDS LBPasses

x == Name("x")
x0 == Suffixed(x, 0)
p == Name("p")
tmp == <<"__lb_cond_tmp", <<0>>>>

Scope(body) == <<Open>> \o body \o <<Close>>

Pieces == {Open, Close, Declare(x), Declare(x0), Use(<<x, x0>>)}

Nested == {b \in [1 .. 6 -> Pieces] : WellNested(Scope(b)) /\ Level(b, 6) = 0}

(* x0 is only used where it is declared, see NamesAssumption.              *)
OwnNames(b) == FreeNames(b) \cap Renamings(b) = {}

Parts == <<While(<<x>>, Name("b1"), Name("e1")), Label(Name("b1")), Label(Name("e1")),
           While(<<p, tmp>>, Name("b2"), Name("e2")), Label(Name("b2")), Label(Name("e2"))>>

Orders == {f \in [1 .. 6 -> 1 .. 6] : Range(f) = 1 .. 6}

TwoLoops ==
    {InsertAt([k \in 1 .. 6 |-> Parts[f[k]]], n, jump) :
        f \in Orders, n \in 1 .. 7, jump \in {Break, Continue}}

(* Three loops, scopes that close inside, ifs, a goto, and a label that    *)
(* looks like one that would be made up.                                   *)
Larger ==
    <<Label(<<"__lb_while_cond", <<1>>>>),
      While(<<x>>, Name("b1"), Name("e1")), Label(Name("b1")), Declare(x),
      Open, While(<<x>>, Name("b2"), Name("e2")), Label(Name("b2")), Declare(x), Use(<<x>>),
      While(<<x>>, Name("b3"), Name("e3")), Label(Name("b3")),
      If(<<x, x>>, Name("t"), Name("f")), Label(Name("t")), Continue,
      Label(Name("f")), Close, Break, Label(Name("e3")), Use(<<x>>), Continue,
      Label(Name("e2")), If(<<x>>, Name("g"), Name("h")), Label(Name("g")), Branch(Name("b1")),
      Label(Name("h")), Break, Label(Name("e1")), Return(<<x>>)>>

MCParams == {p, tmp}

MCSources ==
    {b \in {Scope(c) : c \in Nested \cup TwoLoops \cup {Larger}} : OwnNames(b)}

=============================================================================
