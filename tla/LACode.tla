------------------------------- MODULE LACode -------------------------------
(***************************************************************************)
(* The instructions of LA (LA/src/instruction.h), as its three passes see  *)
(* them, and the names the passes make up (LA/src/code_generator.cpp).     *)
(*                                                                         *)
(* An instruction has an operation, a kind (the type of a declaration, the *)
(* operator, or what is allocated), the name it writes, the array or the   *)
(* function it uses, terms and labels.  Its field of is history: the       *)
(* instruction of the source it stands for, or 0 for one that was          *)
(* inserted.  That is its line number, too.                                *)
(***************************************************************************)
EXTENDS Integers, FiniteSets, SequencesExt

(* A name is a pair, so that the ones made up can be numbered.  A label    *)
(* is a name as well; a label and a variable may have the same.            *)
Name(s)   == <<s, 0>>
NewVar(n) == <<"new_var", n>>
NoName    == Name("")

Var(x) == [name |-> x, num |-> 0]
Num(n) == [name |-> NoName, num |-> n]

IsNum(t) == t.name = NoName

Instr(op, kind, dst, base, args, to) ==
    [op |-> op, kind |-> kind, dst |-> dst, base |-> base, args |-> args,
     to |-> to, of |-> 0]

Def(x, type)      == Instr("def", type, x, NoName, <<>>, <<>>)
Assign(x, t)      == Instr("assign", "", x, NoName, <<t>>, <<>>)
Op(x, l, o, r)    == Instr("op", o, x, NoName, <<l, r>>, <<>>)
Label(l)          == Instr("label", "", NoName, NoName, <<>>, <<l>>)
Branch(l)         == Instr("branch", "", NoName, NoName, <<>>, <<l>>)
Cond(t, l, m)     == Instr("cond", "", NoName, NoName, <<t>>, <<l, m>>)
Return(ts)        == Instr("return", "", NoName, NoName, ts, <<>>)
Load(x, a, ts)    == Instr("load", "", x, a, ts, <<>>)
Store(a, ts, t)   == Instr("store", "", NoName, a, Append(ts, t), <<>>)
Length(x, a, ts)  == Instr("length", "", x, a, ts, <<>>)
Call(x, f, ts)    == Instr("call", "", x, f, ts, <<>>)
Alloc(x, kind, ts) == Instr("alloc", kind, x, NoName, ts, <<>>)

Ops == {"def", "assign", "op", "label", "branch", "cond", "return", "load", "store",
        "length", "call", "alloc"}

Names        == STRING \X Nat
Terms        == [name : Names, num : Int]
Instructions == [op : Ops, kind : STRING, dst : Names, base : Names, args : Seq(Terms),
                 to : Seq(Names), of : Nat]

(* written_name_of_instruction: NoName for one that writes nothing.        *)
Written(ins) == ins.dst

Accesses == {"load", "store", "length"}

(* The places of a label.                                                  *)
Places(c, l) == {k \in DOMAIN c : c[k].op = "label" /\ c[k].to[1] = l}

IsTerminator(ins) == ins.op \in {"branch", "cond", "return"}

(* The terms between the brackets.                                         *)
Indices(ins) == IF ins.op = "store" THEN Front(ins.args) ELSE ins.args

NamesOf(terms) == {terms[j].name : j \in DOMAIN terms} \ {NoName}

Reads(ins) == NamesOf(ins.args) \cup ({ins.base} \ {NoName})

(* reservedCodegenNames.  collect_names_from_ast adds labels too, but with *)
(* their colon, so that no candidate ever equals one.                      *)
Reserved(params, code) ==
    {params[j].name : j \in DOMAIN params} \cup
    UNION {Reads(code[j]) \cup ({Written(code[j])} \ {NoName}) : j \in DOMAIN code}

(* The number fresh_codegen_var takes with tempCounter at k, and those it  *)
(* takes in n calls.                                                       *)
NextFree(reserved, k) ==
    CHOOSE j \in k .. k + Cardinality(reserved) :
        NewVar(j) \notin reserved /\ \A q \in k .. j - 1 : NewVar(q) \in reserved

Fresh(reserved, k, n) ==
    LET taken[c \in 1 .. n] == NextFree(reserved, IF c = 1 THEN k ELSE taken[c - 1] + 1)
    IN  taken

EncodeNumber(n) == 2 * n + 1

ErrorCalls == {Name("tensor-error"), Name("tuple-error")}
=============================================================================
