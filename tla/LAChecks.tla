------------------------------ MODULE LAChecks ------------------------------
(***************************************************************************)
(* The two passes over encoded LA code (LA/src/code_generator.cpp).        *)
(*                                                                         *)
(* check_allocation_access comes first.  Before an access to an array or a *)
(* tuple it inserts code that compares the variable with null and each     *)
(* index with 0 and with the length, and reports the line otherwise.  In   *)
(* straight-line code a check is not repeated as long as none of the       *)
(* variables it is about is written.                                       *)
(*                                                                         *)
(* A cached check is a pair of an array and the indices checked; that is   *)
(* its key in cachedArrayChecks or cachedTupleChecks (a variable has one   *)
(* type) and, with the names in it, its entry in cacheDeps.                *)
(***************************************************************************)
EXTENDS LACode

VARIABLES
    fun, code, i, out, counter,   \* as in LAEncode
    nonNull,    \* knownNonNullArrays
    checked,    \* cachedArrayChecks and cachedTupleChecks
    useError,   \* useTensorErr1
    afterTerminator   \* lastWasTerminator of generate_basic_blocks; between two
                      \* iterations needBlockLabel has the same value

names == Reserved(fun.params, code)

ins == code[i]

(* collect_var_types: parameters, and declarations wherever they are; the  *)
(* last one of a name counts.                                              *)
TypeOf(x) ==
    LET defs == {j \in DOMAIN code : code[j].op = "def" /\ code[j].dst = x}
        pars == {j \in DOMAIN fun.params : fun.params[j].name = x}
    IN  IF defs # {} THEN code[CHOOSE j \in defs : \A k \in defs : k <= j].kind
        ELSE IF pars # {} THEN fun.params[CHOOSE j \in pars : \A k \in pars : k <= j].type
        ELSE ""

Rank(type) == CASE type = "int64[]" -> 1 [] type = "int64[][]" -> 2 [] OTHER -> 0

(* SharedFailureBlocks takes the first two numbers.                        *)
Shared(c) == Fresh(Reserved(fun.params, c), 0, 2)

errLine  == NewVar(Shared(code)[1])
errLabel == NewVar(Shared(code)[2])

(* The pass starts on the instructions c.                                  *)
CheckStart(c) ==
    /\ code' = c
    /\ i' = 1 /\ out' = <<>> /\ counter' = Shared(c)[2] + 1
    /\ UNCHANGED fun

line == ins.of   \* lineNumber

Number(n) == Num(EncodeNumber(n))

(* Variant: the line is only set where it may differ from its first value. *)
NullCheckKeepsLine(a, k) ==
    LET n == Fresh(names, k, 2) cond == NewVar(n[1]) ok == NewVar(n[2])
    IN  <<Def(cond, "int64")>> \o
        (IF useError THEN <<>> ELSE <<Assign(errLine, Number(line))>>) \o
        <<Op(cond, Var(a), "=", Num(0)), Cond(Var(cond), errLabel, ok), Label(ok)>>

(* append_allocation_check: two fresh names.                               *)
NullCheck(a, k) ==
    LET n == Fresh(names, k, 2) cond == NewVar(n[1]) ok == NewVar(n[2])
    IN  <<Def(cond, "int64"),
          Assign(errLine, Number(line)),
          Op(cond, Var(a), "=", Num(0)),
          Cond(Var(cond), errLabel, ok),
          Label(ok)>>

(* append_tuple_bounds_check, and one dimension of                         *)
(* append_array_tensor_bounds_check: seven fresh names, and one more to    *)
(* encode an index that is a variable (encode_term_from_decoded).          *)
BoundsCheck(a, d, t, lineVar, k) ==
    LET n      == Fresh(names, k, IF IsNum(t) THEN 7 ELSE 8)
        lenEnc == NewVar(n[1])   lenDec   == NewVar(n[2])
        nonNeg == NewVar(n[3])   lessThan == NewVar(n[4])
        below  == NewVar(n[5])   err == NewVar(n[6])   ok == NewVar(n[7])
        encode == IF IsNum(t) THEN <<>>
                  ELSE <<Def(NewVar(n[8]), "int64"),
                         Op(NewVar(n[8]), t, "<<", Num(1)),
                         Op(NewVar(n[8]), Var(NewVar(n[8])), "+", Num(1))>>
        index  == IF IsNum(t) THEN Number(t.num) ELSE Var(NewVar(n[8]))
        tuple  == TypeOf(a) = "tuple"
        report == CASE tuple -> Call(NoName, Name("tuple-error"),
                                     <<Var(lineVar), Var(lenEnc), index>>)
                    [] Rank(TypeOf(a)) = 1 -> Call(NoName, Name("tensor-error"),
                                     <<Var(lineVar), Var(lenEnc), index>>)
                    [] OTHER -> Call(NoName, Name("tensor-error"),
                                     <<Var(lineVar), Number(d - 1), Var(lenEnc), index>>)
    IN  [new |-> <<Def(lenEnc, "int64"), Def(lenDec, "int64"),
                   Def(nonNeg, "int64"), Def(lessThan, "int64"),
                   Length(lenEnc, a, IF tuple THEN <<>> ELSE <<Num(d - 1)>>),
                   Op(lenDec, Var(lenEnc), ">>", Num(1)),
                   Op(nonNeg, t, ">=", Num(0)),
                   Cond(Var(nonNeg), below, err),
                   Label(below),
                   Op(lessThan, t, "<", Var(lenDec)),
                   Cond(Var(lessThan), ok, err),
                   Label(err)>> \o encode \o <<report, Label(ok)>>,
         counter |-> Last(n) + 1]

(* The whole check of the indices, with one variable for the line.         *)
BoundsChecks(a, terms, k) ==
    LET lineNo == Fresh(names, k, 1)[1]
        after[d \in 0 .. Len(terms)] ==
            IF d = 0
            THEN [new |-> <<Def(NewVar(lineNo), "int64"), Assign(NewVar(lineNo), Number(line))>>,
                  counter |-> lineNo + 1]
            ELSE LET c == BoundsCheck(a, d, terms[d], NewVar(lineNo), after[d - 1].counter)
                 IN  [new |-> after[d - 1].new \o c.new, counter |-> c.counter]
    IN  after[Len(terms)]

(* What a check of this access compares: the first index of a tuple, all   *)
(* of an array, none of what has neither type.                             *)
IndicesToCheck ==
    IF ins.op = "length" THEN <<>>
    ELSE CASE TypeOf(ins.base) = "tuple" -> SubSeq(Indices(ins), 1, 1)
           [] Rank(TypeOf(ins.base)) > 0 -> Indices(ins)
           [] OTHER                      -> <<>>

(* Variant of the next: only the indices are looked at.                    *)
WithoutIndicesOnly(checks, x) == {c \in checks : x \notin NamesOf(c[2])}

(* invalidate_cached_checks_for_write.                                     *)
Without(checks, x) == {c \in checks : x # c[1] /\ x \notin NamesOf(c[2])}

At == i <= Len(code)

Emit(seq, k) ==
    /\ i' = i + 1
    /\ out' = out \o Append(seq, ins)
    /\ counter' = k
    /\ UNCHANGED <<fun, code>>

CheckAccess ==
    /\ At /\ ins.op \in Accesses
    /\ LET a         == ins.base
           key       == <<a, IndicesToCheck>>
           allocated == IF a \in nonNull THEN <<>> ELSE NullCheck(a, counter)
           k         == IF a \in nonNull THEN counter
                        ELSE Fresh(names, counter, 2)[2] + 1
           bounds    == IF key[2] = <<>> \/ key \in checked
                        THEN [new |-> <<>>, counter |-> k]
                        ELSE BoundsChecks(a, key[2], k)
       IN  /\ Emit(allocated \o bounds.new, bounds.counter)
           /\ nonNull' = (nonNull \cup {a}) \ {Written(ins)}
           /\ checked' = Without(checked \cup (IF key[2] = <<>> THEN {} ELSE {key}),
                                 Written(ins))
    /\ useError' = (useError \/ ins.base \notin nonNull)

(* Control may come from elsewhere, or go elsewhere.                       *)
PassBoundary ==
    /\ At /\ (IsTerminator(ins) \/ ins.op \in {"label", "call"})
    /\ Emit(<<>>, counter)
    /\ nonNull' = {} /\ checked' = {}
    /\ UNCHANGED useError

PassOther ==
    /\ At /\ ins.op \in {"def", "assign", "op", "alloc"}
    /\ Emit(<<>>, counter)
    /\ nonNull' = nonNull \ {Written(ins)}
    /\ checked' = Without(checked, Written(ins))
    /\ UNCHANGED useError

CheckNext == CheckAccess \/ PassBoundary \/ PassOther

(* append_declarations and append_blocks.                                  *)
CheckResult ==
    IF ~useError THEN out
    ELSE <<Def(errLine, "int64")>> \o out \o
         <<Label(errLabel),
           Call(NoName, Name("tensor-error"), <<Var(errLine)>>),
           Branch(errLabel)>>

-----------------------------------------------------------------------------
(* generate_basic_blocks, the pass that follows: every block begins with a *)
(* label and ends with a branch or a return.                               *)

beginning == Name("beginning_label")

(* That pass starts on the instructions c; the result starts from          *)
(* :beginning_label, which may be there already.                           *)
BlockStart(c) ==
    LET there == c # <<>> /\ c[1].op = "label" /\ c[1].to = <<beginning>>
    IN  /\ code' = c
        /\ i' = IF there THEN 2 ELSE 1
        /\ out' = <<IF there THEN c[1] ELSE Label(beginning)>>
        /\ counter' = 0
        /\ UNCHANGED <<fun, afterTerminator>>

EmitBlock(seq) ==
    /\ i' = i + 1
    /\ out' = out \o Append(seq, ins)
    /\ afterTerminator' = IsTerminator(ins)
    /\ UNCHANGED <<fun, code>>

(* Variant: control is left to fall through.                               *)
EnterBlockFallsThrough ==
    /\ At /\ ins.op = "label"
    /\ EmitBlock(<<>>)
    /\ UNCHANGED counter

(* A block that falls through to a label branches to it.                   *)
EnterBlock ==
    /\ At /\ ins.op = "label"
    /\ EmitBlock(IF afterTerminator THEN <<>> ELSE <<Branch(ins.to[1])>>)
    /\ UNCHANGED counter

StayInBlock ==
    /\ At /\ ins.op # "label" /\ ~afterTerminator
    /\ EmitBlock(<<>>)
    /\ UNCHANGED counter

(* Code no label leads to gets a block with a label made up for it.        *)
OpenBlock ==
    /\ At /\ ins.op # "label" /\ afterTerminator
    /\ LET n == Fresh(Reserved(fun.params, code), counter, 1)[1]
       IN  /\ EmitBlock(<<Label(NewVar(n))>>)
           /\ counter' = n + 1

BlockNext == EnterBlock \/ StayInBlock \/ OpenBlock

(* A function that runs off its end returns, with 0 if it has a result.    *)
BlockResult ==
    IF afterTerminator THEN out
    ELSE Append(out, Return(IF fun.returns = "void" THEN <<>> ELSE <<Num(0)>>))
=============================================================================
