----------------------------- MODULE MCIRPasses -----------------------------
(***************************************************************************)
(* IRPasses on loops, joins, every three accesses of a menu to arrays of   *)
(* two dimensions, and functions with tuples, three dimensions, empty      *)
(* blocks, cycles of them and blocks the entry does not lead to.           *)
(***************************************************************************)
EXTENDS IRPasses

a == Name("a")  b2 == Name("b")  c == Name("c")  g == Name("g")  i == Name("i")
n == Name("n")  t == Name("t")   v == Name("v")  x == Name("x")  y == Name("y")
f == Name("f")  print == Name("print")

E0 == Name("E")  H == Name("H")  B1 == Name("B")  X == Name("X")  Y == Name("Y")

Param(name, type) == [name |-> name, type |-> type]

Function(params, blks) == [params |-> params, blocks |-> blks]

Of(body) == Function(<<Param(x, "int64")>>, body)

(* A loop that runs twice.  What the header reads is not written later in  *)
(* it.                                                                     *)
HeaderMenu == {
    Assign(y, Num(5)), Op(y, Var(x), "+", Num(1)), Op(y, Var(i), "+", Num(1)),
    Call(y, f, <<Var(x)>>)}

BodyMenu == {
    Assign(v, Var(y)), Op(x, Var(x), "+", Num(0)), Op(y, Var(y), "+", Num(3)),
    Call(NoName, print, <<Var(y)>>)}

Loops ==
    {Of(<<Block(E0, <<Assign(i, Num(0)), Assign(v, Num(4))>>, Branch(H)),
          Block(H, <<h, Op(c, Var(i), "<", Num(2))>>, Cond(Var(c), B1, X)),
          Block(B1, <<s, Op(i, Var(i), "+", Num(1))>>, Branch(H)),
          Block(X, <<Op(y, Var(y), "-", Var(v))>>, Return(<<Var(y)>>))>>) :
            h \in HeaderMenu, s \in BodyMenu}

(* Values that meet: constants, the parameter, and none.                   *)
Values == {<<>>, <<Assign(y, Num(1))>>, <<Assign(y, Num(2))>>, <<Assign(y, Var(x))>>}

Tests == {Num(1), Num(0), Var(x)}

Joins ==
    {Of(<<Block(E0, <<Op(c, test, "=", Num(1))>>, Cond(Var(c), B1, X)),
          Block(B1, p, Branch(H)),
          Block(X, q, Branch(H)),
          Block(H, <<Op(v, Var(y), "*", Num(1)), Op(v, Var(v), "+", Var(x)),
                     Op(n, Var(v), "-", Var(v))>>, Return(<<Var(v)>>))>>) :
            test \in Tests, p \in Values, q \in Values}

(* Accesses.  Both arrays have two lines; a line of a has three elements.  *)
Accesses2 == {
    Store(a, <<Var(x), Var(n)>>, Num(7)), Load(v, a, <<Var(x), Var(n)>>),
    Assign(x, Var(n)), Assign(a, Var(b2)), Length(n, a, <<Var(n)>>),
    Call(n, f, <<Var(v), Var(a)>>)}

Arrays ==
    {Of(<<Block(E0,
            <<Def(a, "int64[][]"), Def(b2, "int64[][]"), Op(n, Num(1), "-", Var(x)),
              Alloc(a, "array", <<Num(5), Num(7)>>), Alloc(b2, "array", <<Num(5), Num(5)>>),
              Load(v, a, <<Var(x), Var(n)>>)>>
            \o body \o <<Store(a, <<Var(x), Var(n)>>, Var(v))>>,
            Return(<<Var(v)>>))>>) : body \in [1 .. 3 -> Accesses2]}

Tensor ==
    Of(<<Block(E0, <<Def(a, "int64[][][]"), Alloc(a, "array", <<Num(5), Num(7), Num(5)>>)>>,
               Branch(H)),
         Block(X, <<>>, Return(<<Var(v)>>)),
         Block(H, <<Store(a, <<Var(x), Num(2), Var(x)>>, Num(9)),
                    Load(v, a, <<Num(1), Var(x), Num(0)>>),
                    Load(v, a, <<Var(x), Num(2), Var(x)>>),
                    Length(n, a, <<Num(2)>>)>>, Branch(X))>>)

Tuples ==
    Function(<<Param(x, "int64"), Param(n, "int64")>>,
       <<Block(E0, <<Def(t, "tuple"), Def(g, "code"), Assign(g, FunctionName("f")),
                     Alloc(t, "tuple", <<Num(5)>>),
                     Store(t, <<Num(0)>>, Num(9)), Store(t, <<Num(1)>>, Num(7)),
                     Load(v, t, <<Var(x)>>), Call(v, g, <<Var(v), FunctionName("f"), Var(t)>>),
                     Store(t, <<Var(x)>>, Var(n)),
                     Length(v, t, <<>>), Op(y, Var(t), "=", Num(0))>>,
               Cond(Var(y), X, H)),
         Block(X, <<>>, Return(<<>>)),
         Block(H, <<Op(v, Var(v), "&", Var(n)), Op(v, Var(v), "<<", Num(1)),
                    Op(n, Var(n), ">=", Var(v))>>, Return(<<Var(n)>>))>>)

(* Blocks that only branch, some of them for ever.                         *)
Empty ==
    {Of(<<Block(E0, <<Op(c, Var(x), "<=", Num(0))>>, Cond(Var(c), p, q)),
          Block(H, <<>>, Branch(B1)), Block(B1, <<>>, Branch(X)),
          Block(X, <<>>, Branch(Y)), Block(Y, <<>>, last)>>) :
            p \in {H, B1, Y}, q \in {X, Y},
            last \in {Return(<<Var(x)>>), Branch(B1), Cond(Var(x), Y, E0)}}

(* Two loops with one header, a loop of one block, and an access outside.  *)
Others ==
    {Of(<<Block(E0, <<>>, Branch(H)),
          Block(H, <<Assign(v, Num(3)), Op(x, Var(x), "+", Num(1)), Op(c, Var(x), "<", Num(3))>>,
                Cond(Var(c), B1, X)),
          Block(Y, <<Assign(v, Num(4))>>, Branch(H)),
          Block(B1, <<Op(n, Var(v), ">", Var(x))>>, Cond(Var(n), H, Y)),
          Block(X, <<Op(x, Var(x), "*", Var(v))>>, Return(<<Var(x)>>))>>),
     Of(<<Block(E0, <<>>, Branch(H)),
          Block(H, <<Op(x, Var(x), "+", Num(1)), Op(c, Var(x), "<", Num(3))>>,
                Cond(Var(c), H, X)),
          Block(X, <<Op(x, Var(x), ">>", Num(1))>>, Return(<<Var(x)>>))>>),
     Of(<<Block(E0, <<Def(a, "int64[]"), Alloc(a, "array", <<Num(3)>>),
                      Store(a, <<Var(x)>>, Var(x)), Load(v, a, <<Num(0)>>)>>,
                Return(<<Var(v)>>))>>)}

MCSources == Loops \cup Joins \cup Arrays \cup {Tensor, Tuples} \cup Empty \cup Others

=============================================================================
