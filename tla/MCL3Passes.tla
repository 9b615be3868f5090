----------------------------- MODULE MCL3Passes -----------------------------
(***************************************************************************)
(* L3Passes on bodies of three and four instructions of a menu, in a loop, *)
(* and on larger programs with several functions, calls and labels of the  *)
(* same name.                                                              *)
(***************************************************************************)
EXTENDS L3Passes

a == Var("a")  b == Var("b")  c == Var("c")

Menu == {
    Assign("b", Op("*", a, Num(4))), Assign("c", Op("+", b, a)), Assign("a", Op("-", c, b)),
    Assign("b", Op("<", a, c)), Assign("c", b), Load("b", a), Store("c", b),
    Cond(b, "l")}

Looped(is) ==
    <<Function(Name("f"), <<Name("a"), Name("c")>>,
        <<LabelInst("l")>> \o is \o <<Cond(c, "l"), ReturnVal(b)>>)>>

(* What an instruction reads and writes, as often as it does.              *)
Reads(i) ==
    LET kids == IF i.args = <<>> THEN <<>> ELSE i.args[1].kids
    IN  SelectSeq([m \in 1 .. Len(i.args) |-> i.args[m].x] \o [m \in DOMAIN kids |-> kids[m].x],
                  LAMBDA x : x # NoName)

IsDef(i, v) == i.op \in {"assign", "load"} /\ i.dst = v

(* A product by 1, 2, 4 or 8, or a comparison, that merging may drop while *)
(* its variable is read by itself or twice by the next instruction.        *)
DropsDefinition(is) ==
    \E m \in DOMAIN is :
        /\ is[m].op = "assign" /\ is[m].args[1].t \in Compares \cup {"*"}
        /\ \/ is[m].dst \in Range(Reads(is[m]))
           \/ m < Len(is) /\ Len(SelectSeq(Reads(is[m + 1]), LAMBDA x : x = is[m].dst)) > 1

(* A variable that is assigned twice and not read in between.              *)
AssignsTwice(is) ==
    \E m, h \in DOMAIN is :
        /\ m < h /\ is[m].dst # NoName /\ is[m].op # "store" /\ IsDef(is[h], is[m].dst)
        /\ \A o \in m + 1 .. h : is[m].dst \notin Range(Reads(is[o]))
        /\ \A o \in m + 1 .. h - 1 : is[o].op # "cond"

Short == {is \in [1 .. 3 -> Menu] : ~DropsDefinition(is) /\ ~AssignsTwice(is)}

seven == <<Num(1), a, Num(3), b, Num(5), c, a, Num(8)>>

(* Two functions with the same labels, calls of each kind, eight           *)
(* parameters, chains of definitions, an address of a label.               *)
Calls ==
    <<Function(Name("main"), <<>>,
        <<LabelInst("l"), Call(Runtime("input"), <<>>),
          AssignCall("a", Fn("g"), <<Num(1), Num(2), Num(3), Num(4), Num(5), Num(6), Num(7), Num(8)>>),
          Assign("c", Fn("g")), AssignCall("b", c, <<a>>),
          Assign("b", Op("<=", b, a)), Cond(b, "l"), Branch("m"), LabelInst("m"), ReturnInst>>),
      Function(Name("g"),
        [m \in 1 .. 8 |-> Name(<<"a", "b", "c", "d", "e", "f", "g", "h">>[m])],
        <<LabelInst("l"), Call(Runtime("print"), <<Var("h")>>),
          Assign("i", Op("+", a, Var("g"))), Assign("i", Op("<<", Var("i"), Num(1))),
          AssignCall("b", Fn("g"), seven), Call(Fn("g"), seven),
          Assign("d", Op(">=", b, Var("h"))), Cond(Var("d"), "l"),
          Assign("e", Label("l")), Store("a", Var("e")), ReturnVal(Var("i"))>>)>>

(* Definitions merged into both sides, with loads, a shift and a product   *)
(* on either side, and a condition that is a number.                       *)
Chains ==
    <<Function(Name("f"), <<Name("a"), Name("c")>>,
        <<Load("x", a), Assign("y", Op("*", Num(2), c)), Assign("z", Op("+", a, Var("y"))),
          Assign("w", Op("-", Var("x"), Var("z"))), Assign("v", Op("&", Var("w"), c)),
          Store("a", Var("v")), Load("x", c), Assign("u", Op(">>", Var("x"), Num(3))),
          Assign("v", Op("-", c, Var("u"))), Assign("v", Op("+", Num(2), Num(3))),
          Store("c", Var("v")), Cond(Num(1), "l"), Store("a", Num(0)), LabelInst("l"),
          Assign("t", Op(">", Var("v"), a)), Assign("s", Op("*", Var("v"), Num(8))),
          Assign("r", Op("+", Var("s"), Var("t"))), ReturnVal(Var("r"))>>)>>

MCSources == {Looped(is) : is \in Short} \cup {Calls, Chains}

(* For the run that finds the code at fault.                               *)
i == Var("i")

Doubled ==
    {<<Function(Name("f"), <<Name("a")>>,
        <<Assign("i", Num(1)), LabelInst("l"), Assign("i", Op("*", i, Num(2))),
          Assign("b", Op("+", i, a)), Call(Runtime("print"), <<b>>), Branch("l")>>)>>}
=============================================================================
