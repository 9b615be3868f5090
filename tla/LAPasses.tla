------------------------------ MODULE LAPasses ------------------------------
(***************************************************************************)
(* The LA compiler (LA/src/compiler.cpp): encode_decode_values,            *)
(* check_access and generate_basic_blocks, one after the other, on one     *)
(* function.  Then source and result run side by side, taking the same     *)
(* branches.                                                               *)
(*                                                                         *)
(* The state has no values.  For each variable of the result it records    *)
(* which variables of the source have, at this moment, the value it holds, *)
(* and in which form, encoded or decoded; or what a check has found out.   *)
(* The run is a model of what instructions mean, not of code of the        *)
(* repository.                                                             *)
(***************************************************************************)
EXTENDS LACode

CONSTANTS
    Sources,      \* the functions compiled
    Signatures    \* as in LAEncode

(* A function is a sequence of instructions, and every label it jumps to   *)
(* is in it.                                                               *)
ASSUME SourcesAssumption ==
    \A f \in Sources :
        /\ DOMAIN f = {"params", "returns", "body"}
        /\ f.body \in Seq(Instructions)
        /\ f.params \in Seq([name : Names, type : STRING])
        /\ \A k \in DOMAIN f.body : IsTerminator(f.body[k]) =>
             \A l \in Range(f.body[k].to) : Places(f.body, l) # {}

(* The types a name is given, as a parameter or by its declarations.       *)
TypesOf(f, x) ==
    {f.params[j].type : j \in {m \in DOMAIN f.params : f.params[m].name = x}} \cup
    {f.body[k].kind : k \in {m \in DOMAIN f.body : f.body[m].op = "def" /\ f.body[m].dst = x}}

(* What is written has a name.  What is accessed is declared an array or a *)
(* tuple, and an element of a tuple has one index.  A label has a name,    *)
(* and none looks like one that is made up.                                *)
ASSUME AccessesAssumption ==
    \A f \in Sources : \A k \in DOMAIN f.body :
        LET s == f.body[k]
        IN  /\ s.op \in {"def", "assign", "op", "load", "length", "alloc"} => s.dst # NoName
            /\ s.op \in Accesses => s.base # NoName
            /\ s.op \in {"load", "store"} =>
                 /\ TypesOf(f, s.base) # {}
                 /\ \/ TypesOf(f, s.base) \subseteq {"int64[]", "int64[][]"}
                    \/ TypesOf(f, s.base) = {"tuple"} /\ Len(Indices(s)) = 1
            /\ \A l \in Range(s.to) : l[1] # "new_var"
            /\ s.op = "label" => s.to # <<>>

VARIABLES
    fun, code, i, out, counter,       \* of all passes
    types, cache,                     \* of encode_decode_values
    nonNull, checked, useError,       \* of check_allocation_access
    afterTerminator,                  \* of generate_basic_blocks
    stage,     \* "encode", "check", "blocks", "run" or "stopped"
    at,        \* the instruction the source is about to run
    pc,        \* the instruction the result is about to run
    holds,     \* what the variables of the result hold
    facts,     \* the checks that have succeeded and still hold
    crossed    \* raw numbers that were there when a collection could happen

encodeState == <<types, cache>>
checkState  == <<nonNull, checked, useError>>
runState    == <<at, pc, holds, facts, crossed>>

vars == <<fun, code, i, out, counter, encodeState, checkState, afterTerminator,
          stage, runState>>

E == INSTANCE LAEncode
C == INSTANCE LAChecks

Init ==
    /\ \E f \in Sources :
         fun = [f EXCEPT !.body = [k \in DOMAIN @ |-> [@[k] EXCEPT !.of = k]]]
    /\ code = fun.body
    /\ E!EncodeInit
    /\ nonNull = {} /\ checked = {} /\ useError = FALSE
    /\ afterTerminator = FALSE
    /\ stage = "encode"
    /\ at = 1 /\ pc = 1 /\ holds = <<>> /\ facts = {} /\ crossed = {}

EncodeValues ==
    /\ stage = "encode"
    /\ E!EncodeNext
    /\ UNCHANGED <<checkState, afterTerminator, stage, runState>>

(* setInstructions; the next pass starts with empty caches.                *)
StartChecks ==
    /\ stage = "encode" /\ i > Len(code)
    /\ C!CheckStart(out)
    /\ types' = <<>> /\ cache' = <<>>
    /\ stage' = "check"
    /\ UNCHANGED <<checkState, afterTerminator, runState>>

CheckAccesses ==
    /\ stage = "check"
    /\ C!CheckNext
    /\ UNCHANGED <<encodeState, afterTerminator, stage, runState>>

StartBlocks ==
    /\ stage = "check" /\ i > Len(code)
    /\ C!BlockStart(C!CheckResult)
    /\ nonNull' = {} /\ checked' = {} /\ useError' = FALSE
    /\ stage' = "blocks"
    /\ UNCHANGED <<encodeState, runState>>

FormBlocks ==
    /\ stage = "blocks"
    /\ C!BlockNext
    /\ UNCHANGED <<encodeState, checkState, stage, runState>>

Holding(form, S) ==
    [form |-> form, of |-> S, base |-> NoName, arg |-> Num(0), dim |-> 0]

StartRun ==
    /\ stage = "blocks" /\ i > Len(code)
    /\ code' = C!BlockResult
    /\ out' = <<>> /\ i' = 1 /\ counter' = 0 /\ afterTerminator' = FALSE
    /\ holds' = FoldLeft(LAMBDA h, p : (p.name :> Holding("encoded", {p.name})) @@ h,
                         <<>>, fun.params)
    /\ stage' = "run"
    /\ UNCHANGED <<fun, encodeState, checkState, at, pc, facts, crossed>>

-----------------------------------------------------------------------------
(* What an instruction does.                                               *)

now == code[pc]

(* The instruction of the source that the next one stands for.             *)
source == fun.body[now.of]

IsImage == now.of # 0

IsIntVar(x) ==
    \/ \E p \in Range(fun.params) : p.name = x /\ p.type = "int64"
    \/ \E s \in Range(fun.body) : s.op = "def" /\ s.dst = x /\ s.kind = "int64"

Unknown == Holding("encoded", {})

Value(t) == CASE IsNum(t)                -> [Holding("number", {}) EXCEPT !.arg = t]
              [] t.name \in DOMAIN holds -> holds[t.name]
              [] OTHER                   -> Unknown

(* A length, a decoded length or a comparison: of dimension dim of the     *)
(* array base, with the term arg.                                          *)
Finding(form, a, t, d) ==
    [form |-> form, of |-> {}, base |-> a, arg |-> t, dim |-> d]

Mentions(v, x) == v.base = x \/ v.arg.name = x

(* Variable x of the result is given the value v: what was known of x is   *)
(* known no more.                                                          *)
SetTo(h, x, v) ==
    [y \in DOMAIN h \cup {x} |->
        IF y = x THEN v ELSE IF Mentions(h[y], x) THEN Unknown ELSE h[y]]

(* The source gives x a new value, or a copy of that of y.                 *)
NewValue(x) == [y \in DOMAIN holds |-> [holds[y] EXCEPT !.of = @ \ {x}]]

CopiedValue(x, y) ==
    [z \in DOMAIN holds |-> [holds[z] EXCEPT !.of = IF y \in @ THEN @ \cup {x} ELSE @ \ {x}]]

Forget(x) ==
    /\ facts' = {f \in facts : ~Mentions(f, x)}
    /\ crossed' = crossed \ {x}

Step == pc' = pc + 1

-----------------------------------------------------------------------------
(* Instructions of the source, in both.                                    *)

CanRun == stage = "run" /\ pc \in DOMAIN code

RunsWith(ops) == CanRun /\ IsImage /\ at \in DOMAIN fun.body /\ source.op \in ops

RunCopy ==
    /\ RunsWith({"assign"}) /\ ~IsNum(source.args[1])
    /\ at' = at + 1 /\ Step
    /\ LET h == CopiedValue(source.dst, source.args[1].name)
           y == now.args[1].name
       IN  holds' = SetTo(h, now.dst, IF y \in DOMAIN h THEN h[y] ELSE Unknown)
    /\ Forget(now.dst)

RunWrite ==
    /\ \/ RunsWith({"def", "op", "load", "length"})
       \/ RunsWith({"assign"}) /\ IsNum(source.args[1])
    /\ at' = at + 1 /\ Step
    /\ holds' = SetTo(NewValue(source.dst), now.dst,
                      Holding(IF source.op = "op" /\ IsIntVar(source.dst)
                              THEN "decoded" ELSE "encoded", {source.dst}))
    /\ Forget(now.dst)

(* Every callee may allocate.  A raw number is one that is not encoded.    *)
IsRaw(x) == holds[x].form \in {"decoded", "shifted", "length>>1", "null", ">=", "<"}

RunCall ==
    /\ RunsWith({"call", "alloc"})
    /\ at' = at + 1 /\ Step
    /\ IF source.dst = NoName
       THEN UNCHANGED <<holds, facts>>
       ELSE /\ holds' = SetTo(NewValue(source.dst), now.dst,
                              Holding("encoded", {source.dst}))
            /\ facts' = {f \in facts : ~Mentions(f, now.dst)}
    /\ crossed' = (crossed \cup {x \in DOMAIN holds : IsRaw(x)}) \ {now.dst}

RunStore ==
    /\ RunsWith({"store", "label"})
    /\ at' = at + 1 /\ Step
    /\ UNCHANGED <<holds, facts, crossed>>

(* If there is more than one such label, the stages below decide.          *)
RunJump ==
    /\ RunsWith({"branch", "cond"})
    /\ \E k \in DOMAIN source.to :
         /\ at' \in Places(fun.body, source.to[k])
         /\ pc' \in Places(code, now.to[k])
    /\ UNCHANGED <<holds, facts, crossed>>

RunReturn ==
    /\ \/ RunsWith({"return"})
       \/ CanRun /\ ~IsImage /\ now.op = "return"
    /\ stage' = "stopped"
    /\ UNCHANGED runState

(* Instructions that were inserted.                                        *)
Inserted(op) == CanRun /\ ~IsImage /\ now.op = op

RunInsertedMark ==
    /\ Inserted("def") \/ Inserted("label")
    /\ Step
    /\ UNCHANGED <<at, holds, facts, crossed>>

RunInsertedAssign ==
    /\ Inserted("assign")
    /\ Step
    /\ holds' = SetTo(holds, now.dst, Value(now.args[1]))
    /\ Forget(now.dst)
    /\ UNCHANGED at

RunInsertedLength ==
    /\ Inserted("length")
    /\ Step
    /\ holds' = SetTo(holds, now.dst,
                      Finding("length", now.base, Num(0),
                              IF now.args = <<>> THEN 0 ELSE now.args[1].num))
    /\ Forget(now.dst)
    /\ UNCHANGED at

(* Decoding, encoding in two steps, and the comparisons of the checks.     *)
Computed ==
    LET l == now.args[1] v == Value(l) r == Value(now.args[2]) o == now.kind
    IN  CASE o = ">>" /\ v.form = "encoded" -> Holding("decoded", v.of)
          [] o = ">>" /\ v.form = "length"  -> [v EXCEPT !.form = "length>>1"]
          [] o = "<<" /\ v.form = "decoded" -> Holding("shifted", v.of)
          [] o = "+"  /\ v.form = "shifted" -> Holding("encoded", v.of)
          [] o = "="                        -> Finding("null", l.name, Num(0), 0)
          [] o = ">="                       -> Finding(">=", NoName, l, 0)
          [] o = "<" /\ r.form = "length>>1" -> Finding("<", r.base, l, r.dim)
          [] OTHER                          -> Unknown

RunInsertedOp ==
    /\ Inserted("op")
    /\ Step
    /\ holds' = SetTo(holds, now.dst, Computed)
    /\ Forget(now.dst)
    /\ UNCHANGED at

(* A check succeeds if it has already; otherwise it may go either way.     *)
RunInsertedCond ==
    /\ Inserted("cond")
    /\ LET test == Value(now.args[1])
           good == IF test.form = "null" THEN 2 ELSE 1
       IN  \/ /\ pc' \in Places(code, now.to[good])
              /\ facts' = facts \cup {test}
           \/ /\ test \notin facts
              /\ pc' \in Places(code, now.to[3 - good])
              /\ UNCHANGED facts
    /\ UNCHANGED <<at, holds, crossed>>

RunInsertedBranch ==
    /\ Inserted("branch")
    /\ pc' \in Places(code, now.to[1])
    /\ UNCHANGED <<at, holds, facts, crossed>>

(* tensor-error and tuple-error do not return.                             *)
RunError ==
    /\ Inserted("call")
    /\ stage' = "stopped"
    /\ UNCHANGED runState

Instruction ==
    \/ RunCopy \/ RunWrite \/ RunCall \/ RunStore \/ RunJump
    \/ RunInsertedMark \/ RunInsertedAssign \/ RunInsertedLength
    \/ RunInsertedOp \/ RunInsertedCond \/ RunInsertedBranch

Run ==
    /\ \/ Instruction /\ UNCHANGED stage
       \/ RunReturn
       \/ RunError
    /\ UNCHANGED <<fun, code, i, out, counter, encodeState, checkState, afterTerminator>>

Next ==
    \/ EncodeValues \/ StartChecks \/ CheckAccesses \/ StartBlocks
    \/ FormBlocks \/ StartRun \/ Run

Spec == Init /\ [][Next]_vars

-----------------------------------------------------------------------------
(* The term t of the result is the term s of the source, encoded.          *)
IsEncoded(t, s) ==
    IF IsNum(s) THEN t = Num(EncodeNumber(s.num))
    ELSE Value(t).form = "encoded" /\ s.name \in Value(t).of

(* The term t of the result is the term s of the source, decoded if it is  *)
(* an integer.                                                             *)
IsDecoded(t, s) ==
    CASE IsNum(s)         -> t = s
      [] IsIntVar(s.name) -> Value(t).form = "decoded" /\ s.name \in Value(t).of
      [] OTHER            -> IsEncoded(t, s)

IsDecodedPosition(k) ==
    \/ source.op \in {"op", "cond", "load", "length"}
    \/ source.op = "store" /\ k < Len(source.args)

(* Where a number stays as it is, because its type is not int64.           *)
IsRawPosition(k) ==
    /\ IsNum(source.args[k])
    /\ \/ source.op = "assign" /\ ~IsIntVar(source.dst)
       \/ source.op = "return" /\ fun.returns # "int64"

(* The result is in step with its source on every path: an instruction of  *)
(* the source is run when the source would run it, on the values of the    *)
(* same variables at that moment, decoded where the machine computes with  *)
(* them and encoded where they are stored, passed or returned.             *)
ComputesTheSame ==
    stage = "run" =>
        /\ IsImage =>
             /\ at = now.of
             /\ source.op \in Accesses =>
                   IsEncoded(Var(now.base), Var(source.base))
             /\ source.op = "def" =>
                   now.args = <<Num(IF source.kind = "int64" THEN EncodeNumber(0) ELSE 0)>>
             /\ source.op # "def" =>
                   /\ Len(now.args) = Len(source.args)
                   /\ \A k \in DOMAIN now.args :
                        CASE IsRawPosition(k)     -> now.args[k] = source.args[k]
                          [] IsDecodedPosition(k) -> IsDecoded(now.args[k], source.args[k])
                          [] OTHER                -> IsEncoded(now.args[k], source.args[k])
        /\ ~IsImage /\ now.op = "return" => at = Len(fun.body) + 1

(* No element is read or written before this path has compared the array,  *)
(* as it is now, with null, and each index, as it is now, with 0 and with  *)
(* the length of its dimension; no length is read of null.                 *)
AccessIsChecked ==
    stage = "run" /\ IsImage /\ source.op \in Accesses =>
        /\ Finding("null", now.base, Num(0), 0) \in facts
        /\ source.op # "length" =>
             \A d \in DOMAIN Indices(now) :
                LET t == Indices(now)[d]
                IN  /\ Finding(">=", NoName, t, 0) \in facts
                    /\ Finding("<", now.base, t, d - 1) \in facts

(* An error is reported only at an access, with its line and, if an index  *)
(* is to blame, with the dimension, its length and the index, all encoded  *)
(* (lib/runtime.c: "instruction at line ... attempted to access").         *)
ReportsTheAccess ==
    stage = "run" /\ ~IsImage /\ now.op = "call" =>
        /\ at \in DOMAIN fun.body /\ fun.body[at].op \in Accesses
        /\ LET s == fun.body[at] n == Len(now.args)
           IN  /\ Value(now.args[1]) = Value(Num(EncodeNumber(at)))
               /\ n > 1 =>
                    \E d \in DOMAIN Indices(s) :
                        /\ Value(now.args[n - 1]) = Finding("length", s.base, Num(0), d - 1)
                        /\ IsEncoded(now.args[n], Indices(s)[d])
                        /\ n = 4 => now.args[2] = Num(EncodeNumber(d - 1))

(* What the IR compiler needs: a block begins with a label and ends with   *)
(* the one terminator it has, and every label that is used is there.       *)
BlocksAreFormed ==
    stage = "run" =>
        /\ code[1].op = "label" /\ IsTerminator(Last(code))
        /\ \A k \in 2 .. Len(code) :
             IsTerminator(code[k - 1]) <=> code[k].op = "label"
        /\ \A k \in DOMAIN code : IsTerminator(code[k]) =>
             \A l \in Range(code[k].to) : Places(code, l) # {}

(* The constraint of lib/runtime.c, lines 7 to 17: no unencoded number is  *)
(* in a register or on the stack when allocate is called.  A variable is   *)
(* there if it is read later.                                              *)
NoRawAcrossAllocate ==
    stage = "run" => Reads(now) \cap crossed = {}
=============================================================================
