------------------------------ MODULE LAEncode ------------------------------
(***************************************************************************)
(* encode_decode_values (LA/src/code_generator.cpp).  In the result an     *)
(* integer x is held as 2x+1; operators, conditions and indices work on    *)
(* decoded copies in new variables.  decodedCache remembers the decoded    *)
(* copy of a variable, so that straight-line code decodes it once.  One    *)
(* action is one iteration of the loop over the instructions.              *)
(***************************************************************************)
EXTENDS LACode

CONSTANT Signatures   \* the types of the parameters of each known function

VARIABLES
    fun,       \* the function: its parameters, return type and source
    code,      \* the instructions the pass reads
    i,         \* the next one
    out,       \* the instructions written so far
    counter,   \* tempCounter
    types,     \* varTypes
    cache      \* decodedCache

encodeVars == <<fun, code, i, out, counter, types, cache>>

names == Reserved(fun.params, code)

ins == code[i]

IsInt(x) == x \in DOMAIN types /\ types[x] = "int64"

Without(c, x) == [y \in DOMAIN c \ {x} |-> c[y]]

ParamTypes == FoldLeft(LAMBDA f, p : (p.name :> p.type) @@ f, <<>>, fun.params)

EncodeInit ==
    /\ i = 1 /\ out = <<>> /\ counter = 0
    /\ types = ParamTypes /\ cache = <<>>

At(op) == i <= Len(code) /\ ins.op = op

Emit(seq, c, k) ==
    /\ i' = i + 1
    /\ out' = out \o seq
    /\ cache' = c
    /\ counter' = k
    /\ UNCHANGED <<fun, code>>

(* encode_term_if_needed: variables are encoded already.                   *)
Encoded(t) == IF IsNum(t) THEN Num(EncodeNumber(t.num)) ELSE t

EncodedAll(terms) == [j \in DOMAIN terms |-> Encoded(terms[j])]

(* decode_term_to_decoded, for one term after another: the instructions    *)
(* that decode, the terms in their place, the cache and the counter.       *)
DecodeTerm(acc, t) ==
    LET n == Fresh(names, acc.counter, 1)[1]
    IN  CASE IsNum(t) \/ ~IsInt(t.name) ->
               [acc EXCEPT !.terms = Append(@, t)]
          [] ~IsNum(t) /\ IsInt(t.name) /\ t.name \in DOMAIN acc.cache ->
               [acc EXCEPT !.terms = Append(@, Var(acc.cache[t.name]))]
          [] OTHER ->
               [new     |-> acc.new \o <<Def(NewVar(n), "int64"),
                                         Op(NewVar(n), t, ">>", Num(1))>>,
                terms   |-> Append(acc.terms, Var(NewVar(n))),
                cache   |-> (t.name :> NewVar(n)) @@ acc.cache,
                counter |-> n + 1]

Decode(terms) ==
    LET after[j \in 0 .. Len(terms)] ==
            IF j = 0
            THEN [new |-> <<>>, terms |-> <<>>, cache |-> cache, counter |-> counter]
            ELSE DecodeTerm(after[j - 1], terms[j])
    IN  after[Len(terms)]

(* A local starts with the encoded 0, one that is no integer with null.    *)
EncodeDef ==
    /\ At("def")
    /\ types' = (ins.dst :> ins.kind) @@ types
    /\ Emit(<<[ins EXCEPT !.of = 0],
              [Assign(ins.dst, Num(IF ins.kind = "int64" THEN 1 ELSE 0)) EXCEPT !.of = ins.of]>>,
            Without(cache, ins.dst), counter)

(* A copy of an integer shares the decoded copy of the original.           *)
EncodeAssign ==
    /\ At("assign")
    /\ LET t == ins.args[1]
           shared == IsInt(ins.dst) /\ ~IsNum(t) /\ IsInt(t.name) /\ t.name \in DOMAIN cache
           rest == Without(cache, ins.dst)
       IN  Emit(<<[ins EXCEPT !.args = <<IF IsInt(ins.dst) THEN Encoded(t) ELSE t>>]>>,
                IF shared THEN (ins.dst :> cache[t.name]) @@ rest ELSE rest,
                counter)
    /\ UNCHANGED types

(* The result is computed decoded, encoded into the destination, and kept. *)
EncodeOp ==
    /\ At("op")
    /\ LET d   == Decode(ins.args)
           n   == Fresh(names, d.counter, 1)[1]
           tmp == NewVar(n)
           x   == ins.dst
       IN  IF IsInt(x)
           THEN Emit(d.new \o <<Def(tmp, "int64"),
                                [ins EXCEPT !.dst = tmp, !.args = d.terms],
                                Op(x, Var(tmp), "<<", Num(1)),
                                Op(x, Var(x), "+", Num(1))>>,
                     (x :> tmp) @@ d.cache, n + 1)
           ELSE Emit(Append(d.new, [ins EXCEPT !.args = d.terms]),
                     Without(d.cache, x), d.counter)
    /\ UNCHANGED types

EncodeCond ==
    /\ At("cond")
    /\ LET d == Decode(ins.args)
       IN  Emit(Append(d.new, [ins EXCEPT !.args = d.terms]), <<>>, d.counter)
    /\ UNCHANGED types

EncodeReturn ==
    /\ At("return")
    /\ Emit(<<[ins EXCEPT !.args = IF fun.returns = "int64" THEN EncodedAll(@) ELSE @]>>,
            <<>>, counter)
    /\ UNCHANGED types

(* Variant: the variable that is loaded keeps its decoded copy.            *)
EncodeLoadKeeps ==
    /\ At("load")
    /\ LET d == Decode(ins.args)
       IN  Emit(Append(d.new, [ins EXCEPT !.args = d.terms]), d.cache, d.counter)
    /\ UNCHANGED types

EncodeLoad ==
    /\ At("load")
    /\ LET d == Decode(ins.args)
       IN  Emit(Append(d.new, [ins EXCEPT !.args = d.terms]),
                Without(d.cache, ins.dst), d.counter)
    /\ UNCHANGED types

EncodeStore ==
    /\ At("store")
    /\ LET d == Decode(Front(ins.args))
       IN  Emit(Append(d.new, [ins EXCEPT !.args = Append(d.terms, Encoded(Last(@)))]),
                d.cache, d.counter)
    /\ UNCHANGED types

EncodeLength ==
    /\ At("length")
    /\ LET d == Decode(ins.args)
       IN  Emit(Append(d.new, [ins EXCEPT !.args = d.terms]),
                Without(d.cache, ins.dst), d.counter)
    /\ UNCHANGED types

(* encode_function_call_args.  A call through a variable has no signature. *)
EncodedArgs(f, terms) ==
    [j \in DOMAIN terms |->
        IF \/ f \in DOMAIN Signatures /\ j <= Len(Signatures[f]) /\ Signatures[f][j] = "int64"
           \/ f \notin DOMAIN Signatures /\ f \in {Name("print"), Name("tensor-error")}
        THEN Encoded(terms[j]) ELSE terms[j]]

EncodeCall ==
    /\ At("call")
    /\ Emit(<<[ins EXCEPT !.args = EncodedArgs(ins.base, @)]>>, <<>>, counter)
    /\ UNCHANGED types

(* new Array and new Tuple.  The decoded copies stay in the cache.         *)
EncodeAlloc ==
    /\ At("alloc")
    /\ Emit(<<[ins EXCEPT !.args = EncodedAll(@)]>>, Without(cache, ins.dst), counter)
    /\ UNCHANGED types

EncodeLabel  == At("label")  /\ Emit(<<ins>>, <<>>, counter) /\ UNCHANGED types

EncodeBranch == At("branch") /\ Emit(<<ins>>, <<>>, counter) /\ UNCHANGED types

EncodeNext ==
    \/ EncodeDef \/ EncodeAssign \/ EncodeOp \/ EncodeCond \/ EncodeReturn
    \/ EncodeLoad \/ EncodeStore \/ EncodeLength \/ EncodeCall \/ EncodeAlloc
    \/ EncodeLabel \/ EncodeBranch
=============================================================================
