----------------------------- MODULE MCLAPasses -----------------------------
(***************************************************************************)
(* LAPasses on every loop around three instructions of a menu that reads   *)
(* and writes an array, its index and their copies, and on functions with  *)
(* tuples, two dimensions, declarations, calls and code no label leads to. *)
(***************************************************************************)
EXTENDS LAPasses

a == Name("a")  b == Name("b")  c == Name("c")  t == Name("t")
n == Name("n")  x == Name("x")  y == Name("y")
f == Name("f")  g == Name("g")  print == Name("print")
l == Name("l")  m == Name("m")
new1 == NewVar(1)   \* a programmer may use such names

MCSignatures == f :> <<"int64", "int64">>

Param(name, type) == [name |-> name, type |-> type]

Params == <<Param(a, "int64[]"), Param(b, "int64[]"), Param(n, "int64"), Param(x, "int64")>>

Function(params, returns, body) == [params |-> params, returns |-> returns, body |-> body]

Menu == {
    Load(x, a, <<Var(n)>>), Load(n, a, <<Num(1)>>), Store(a, <<Var(x)>>, Var(n)),
    Op(n, Var(n), "+", Num(1)), Assign(n, Var(x)), Assign(x, Num(5)), Assign(a, Var(b)),
    Call(x, f, <<Var(n), Num(2)>>), Alloc(a, "array", <<Var(n)>>)}

Loops ==
    {Function(Params, "int64",
        <<Label(l)>> \o body \o <<Cond(Var(n), l, m), Label(m), Return(<<Var(x)>>)>>) :
            body \in [1 .. 3 -> Menu]}

(* Two dimensions, a tuple, lengths, declarations and a variable with the  *)
(* name of one that would be made up.                                      *)
Tensor ==
    Function(<<Param(n, "int64")>>, "int64",
        <<Def(c, "int64[][]"), Def(t, "tuple"), Def(new1, "int64"),
          Alloc(c, "array", <<Num(3), Var(n)>>),
          Store(c, <<Var(n), Num(0)>>, Num(7)),
          Alloc(t, "tuple", <<Num(2)>>),
          Store(t, <<Num(0)>>, Var(c)), Store(t, <<Num(1)>>, Num(4)),
          Load(new1, t, <<Var(n)>>), Load(c, t, <<Num(0)>>),
          Load(n, c, <<Var(new1), Var(n)>>), Length(n, c, <<Var(n)>>),
          Length(n, t, <<>>), Op(n, Var(t), "=", Num(0)), Return(<<Var(n)>>)>>)

(* Calls without a result, and no return at the end.                       *)
Calls ==
    Function(<<Param(n, "int64")>>, "void",
        <<Label(Name("beginning_label")), Call(NoName, print, <<Var(n)>>), Def(y, "int64"),
          Op(y, Var(n), "<<", Var(n)), Assign(n, Var(y)), Op(y, Var(n), "-", Var(y)),
          Label(l), Call(NoName, f, <<Var(y), Num(0)>>), Call(NoName, print, <<Num(3)>>)>>)

(* Code no label leads to, branches, and no return value at the end.       *)
Unreachable ==
    Function(<<Param(n, "int64"), Param(a, "int64[]")>>, "int64",
        <<Cond(Var(n), l, m), Assign(n, Num(1)), Branch(m), Branch(l),
          Label(l), Def(y, "int64[]"), Assign(y, Num(0)), Return(<<Num(2)>>),
          Op(n, Var(n), "*", Var(n)), Label(m), Assign(y, Var(a))>>)

Empty == Function(<<>>, "void", <<>>)

MCSources == Loops \cup {Tensor, Calls, Unreachable, Empty}

-----------------------------------------------------------------------------
(* Sources for the runs that find the code at fault.                       *)

(* n is used before and after an allocation.                               *)
AllocateBetween ==
    {Function(Params, "int64",
        <<Op(x, Var(n), "+", Num(1)), Alloc(a, "array", <<Var(x)>>),
          Op(x, Var(n), "+", Var(x)), Return(<<Var(x)>>)>>),
     Tensor}

=============================================================================
