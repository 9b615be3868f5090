------------------------------- MODULE L3Code -------------------------------
(***************************************************************************)
(* L3 programs (L3/src/L3.h), the trees instruction selection makes of     *)
(* them (L3/src/instruction_selection.h) and the L2 instructions it emits. *)
(* The field of is history: the place in the source of the instruction it  *)
(* stands for, 0 for one that was inserted.                                *)
(***************************************************************************)
EXTENDS Integers, SequencesExt

(* A name: a word, and what the compiler puts behind a word of its own.    *)
Name(w)      == <<w, "", -1>>
NoName       == Name("")
Global(n)    == <<"", "__label__", n>>
Return(x, n) == <<x[1], "_ret", n>>

(* The nodes of trees.  The type of an operator is the operator.           *)
Node(t, x, n, kids) == [t |-> t, x |-> x, n |-> n, kids |-> kids]

Var(w)        == Node("var", Name(w), 0, <<>>)
Num(n)        == Node("num", NoName, n, <<>>)
Label(w)      == Node("label", Name(w), 0, <<>>)
Fn(w)         == Node("fn", Name(w), 0, <<>>)
Runtime(w)    == Node("runtime", Name(w), 0, <<>>)
Inner(t, kids) == Node(t, NoName, 0, kids)
Op(o, l, r)   == Inner(o, <<l, r>>)

Arithmetic == {"+", "-", "*", "&", "<<", ">>"}
Compares   == {"<", "<=", "=", ">=", ">"}

IsVar(t)  == t.t = "var"
IsTerm(t) == t.t \in {"var", "num"}
Leaf(t)   == [t EXCEPT !.kids = <<>>]

Instr(op, dst, args, to) == [op |-> op, dst |-> dst, args |-> args, to |-> to, of |-> 0]

Assign(w, rhs)     == Instr("assign", Name(w), <<rhs>>, NoName)
Load(w, v)         == Instr("load", Name(w), <<v>>, NoName)
Store(w, t)        == Instr("store", Name(w), <<t>>, NoName)
ReturnInst         == Instr("return", NoName, <<>>, NoName)
ReturnVal(t)       == Instr("return", NoName, <<t>>, NoName)
Branch(w)          == Instr("branch", NoName, <<>>, Name(w))
Cond(t, w)         == Instr("cond", NoName, <<t>>, Name(w))
LabelInst(w)       == Instr("label", NoName, <<>>, Name(w))
(* The callee is the first of args.                                        *)
Call(callee, args)          == Instr("call", NoName, <<callee>> \o args, NoName)
AssignCall(w, callee, args) == Instr("call", Name(w), <<callee>> \o args, NoName)

Function(name, vars, body) == [name |-> name, vars |-> vars, body |-> body]

-----------------------------------------------------------------------------
(* L2.  Registers are variables whose names no variable has.               *)
ArgRegister(k) == <<"", <<"rdi", "rsi", "rdx", "rcx", "r8", "r9">>[k], 0>>
Rax            == <<"", "rax", 0>>

Move(x, t)          == Instr("move", x, <<t>>, NoName)
Update(x, o, t)     == Instr("update", x, <<Inner(o, <<>>), t>>, NoName)
Compare(x, o, l, r) == Instr("compare", x, <<Inner(o, <<>>), l, r>>, NoName)
Lea(x, b, i, e)     == Instr("lea", x, <<b, i, e>>, NoName)
Jump(o, l, r, to)   == Instr("cjump", NoName, <<Inner(o, <<>>), l, r>>, to)
Goto(to)            == Instr("goto", NoName, <<>>, to)
Place(to)           == Instr("label", NoName, <<>>, to)
LoadFrom(x, a)      == Instr("load", x, <<a>>, NoName)
StoreAt(x, t)       == Instr("store", x, <<t>>, NoName)
(* mem rsp -n <- t, x <- stack-arg n and call with n arguments.            *)
Pass(n, t)          == Instr("pass", NoName, <<Num(n), t>>, NoName)
StackArg(x, n)      == Instr("stackarg", x, <<Num(n)>>, NoName)
CallOf(callee, n)   == Instr("call", NoName, <<callee, Num(n)>>, NoName)
Leave               == Instr("return", NoName, <<>>, NoName)
=============================================================================
