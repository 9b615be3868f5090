------------------------------- MODULE IRLower -------------------------------
(***************************************************************************)
(* The order of the blocks (IR/src/linearize.cpp) and the lowering to L3   *)
(* (IR/src/codegen_visitor.cpp, codegen_context.cpp).  An instruction of   *)
(* L3 is one of IR without arrays: load and store take an address.         *)
(* Addresses and lengths computed in a block are kept and used again.      *)
(***************************************************************************)
EXTENDS IRCode

VARIABLES
    source, blocks,
    b, k,        \* the block that is lowered, and the instruction in it
    out,         \* the L3 code so far
    types,       \* var_types
    cache        \* temp_counter, decoded_dim_cache, stride_cache and
                 \* index_address_cache, and what has just been emitted

-----------------------------------------------------------------------------
(* linearize_cfg: choose_next, the false target first, or else the first   *)
(* block that is not yet placed.                                           *)
NextBlock(order) ==
    LET free    == {m \in DOMAIN blocks : m \notin Range(order)}
        targets == IF order = <<>> THEN <<>> ELSE Reverse(blocks[Last(order)].te.to)
        open    == SelectSeq(targets, LAMBDA l : l \in {blocks[m].label : m \in free})
    IN  IF open = <<>> THEN Min(free) ELSE Place(blocks, open[1])

Order == Along(LAMBDA order, m : Append(order, NextBlock(order)), <<>>, blocks)

LinearBlocks == [j \in DOMAIN Order |-> blocks[Order[j]]]

-----------------------------------------------------------------------------
(* Emission.  c.value is what the last operator returns.  Intermediate     *)
(* values are arguments: those of LET cost TLC a copy for each use.        *)
Fresh3(n) == <<"thisIsANewVar", n>>

LoadAt(x, a)   == Instr("load", "", x, NoName, <<Var(a)>>, <<>>)
StoreTo(a, t)  == Instr("store", "", NoName, NoName, <<Var(a), t>>, <<>>)
Jump(t, l)     == Instr("cond", "", NoName, NoName, <<t>>, <<l>>)

NoCaches(n) == [n |-> n, dims |-> <<>>, strides |-> <<>>, addresses |-> <<>>,
                code |-> <<>>, value |-> NoName]

Emit(c, code, used) == [c EXCEPT !.code = @ \o code, !.n = @ + used]

(* get_or_emit_decoded_dim.                                                *)
Dimension(c, a, d) ==
    IF <<a, d>> \in DOMAIN c.dims THEN [c EXCEPT !.value = c.dims[<<a, d>>]]
    ELSE LET addr == Fresh3(c.n) encoded == Fresh3(c.n + 1) decoded == Fresh3(c.n + 2)
         IN  [Emit(c, <<Op(addr, Var(a), "+", Num(8 + 8 * d)), LoadAt(encoded, addr),
                        Op(decoded, Var(encoded), ">>", Num(1))>>, 3)
                EXCEPT !.dims = (<<a, d>> :> decoded) @@ @, !.value = decoded]

(* get_or_emit_stride: the elements one step of dimension d - 1 passes.    *)
Product(c, dim) ==
    [Emit(c, <<Op(Fresh3(c.n), Var(dim), "*", Var(c.value))>>, 1) EXCEPT !.value = Fresh3(c.n)]

KeepStride(c, key) == [c EXCEPT !.strides = (key :> c.value) @@ @]

RECURSIVE Stride(_, _, _, _)
StrideBehind(c, a, d, n) ==
    IF d = n - 1 THEN c ELSE Product(Stride(c, a, d + 1, n), c.value)

Stride(c, a, d, n) ==
    IF <<a, d, n>> \in DOMAIN c.strides THEN [c EXCEPT !.value = c.strides[<<a, d, n>>]]
    ELSE KeepStride(StrideBehind(Dimension(c, a, d), a, d, n), <<a, d, n>>)

(* The body of the loop over all dimensions but the last: the product of   *)
(* the index and its stride is added to linear.                            *)
AddTerm(c, index, linear) ==
    Emit(c, <<Op(Fresh3(c.n), index, "*", Var(c.value)),
              Op(linear, Var(Fresh3(c.n)), "+", Var(linear))>>, 1)

FromLinear(c, a, idx, linear, addr) ==
    [Emit(c, <<Op(linear, Var(linear), "+", Last(idx)),
               Op(Fresh3(c.n), Var(linear), "*", Num(8)),
               Op(Fresh3(c.n), Var(Fresh3(c.n)), "+", Num(8 * (Len(idx) + 1))),
               Op(addr, Var(a), "+", Var(Fresh3(c.n)))>>, 1)
       EXCEPT !.value = addr]

ArrayAddress(c, a, idx) ==
    LET addr == Fresh3(c.n) linear == Fresh3(c.n + 1)
    IN  FromLinear(
            Along(LAMBDA s, j : AddTerm(Stride(s, a, j, Len(idx)), idx[j], linear),
                  Emit(c, <<Assign(linear, Num(0))>>, 2), [j \in 1 .. Len(idx) - 1 |-> j]),
            a, idx, linear, addr)

TupleAddress(c, a, idx) ==
    LET addr == Fresh3(c.n) offset == Fresh3(c.n + 1)
    IN  [Emit(c, <<Op(offset, idx[1], "*", Num(8)), Op(offset, Var(offset), "+", Num(8)),
                   Op(addr, Var(a), "+", Var(offset))>>, 2)
           EXCEPT !.value = addr]

IsTuple(a) == a \in DOMAIN types /\ types[a] = "tuple"

(* build_expr_key, and what an address depends on.                         *)
Key(a, idx) == <<IsTuple(a), a, idx>>

Dependencies(key) == {key[2]} \cup NamesOf(key[3])

(* emit_index_address.                                                     *)
KeepAddress(c, key) == [c EXCEPT !.addresses = (key :> c.value) @@ @]

Address(c, a, idx) ==
    IF Key(a, idx) \in DOMAIN c.addresses THEN [c EXCEPT !.value = c.addresses[Key(a, idx)]]
    ELSE KeepAddress(IF IsTuple(a) THEN TupleAddress(c, a, idx) ELSE ArrayAddress(c, a, idx),
                     Key(a, idx))

(* Variant: an address is kept when an index has changed.                  *)
InvalidateBase(c, x) ==
    [c EXCEPT !.dims      = Restrict(@, {key \in DOMAIN @ : key[1] # x}),
              !.strides   = Restrict(@, {key \in DOMAIN @ : key[1] # x}),
              !.addresses = Restrict(@, {key \in DOMAIN @ : key[2] # x})]

(* invalidate_codegen_caches_for_var.                                      *)
Invalidate(c, x) ==
    [c EXCEPT !.dims      = Restrict(@, {key \in DOMAIN @ : key[1] # x}),
              !.strides   = Restrict(@, {key \in DOMAIN @ : key[1] # x}),
              !.addresses = Restrict(@, {key \in DOMAIN @ : x \notin Dependencies(key)})]

(* clear_codegen_caches.                                                   *)
Cleared(c) == [NoCaches(c.n) EXCEPT !.code = c.code]

-----------------------------------------------------------------------------
(* The instructions.                                                       *)
LoadInto(c, x) == Invalidate(Emit(c, <<LoadAt(x, c.value)>>, 0), x)

LowerLoad(c, ins) == LoadInto(Address(c, ins.base, ins.args), ins.dst)

StoreFrom(c, t) == Emit(c, <<StoreTo(c.value, t)>>, 0)

LowerStore(c, ins) == StoreFrom(Address(c, ins.base, Indices(ins)), Last(ins.args))

LowerLength(c, ins) ==
    LET first == Fresh3(c.n) addr == Fresh3(c.n + 1)
    IN  Invalidate(
            IF ins.args = <<>>
            THEN Emit(c, <<LoadAt(first, ins.base), Op(first, Var(first), "<<", Num(1)),
                           Op(first, Var(first), "+", Num(1)), Assign(ins.dst, Var(first))>>, 1)
            ELSE Emit(c, <<Op(first, ins.args[1], "*", Num(8)),
                           Op(first, Var(first), "+", Num(8)),
                           Op(addr, Var(ins.base), "+", Var(first)),
                           LoadAt(ins.dst, addr)>>, 2),
            ins.dst)

allocate == Name("allocate")

(* decoded_product has the number c.n and first_decoded the next.          *)
LowerNewArray(c, ins) ==
    LET n       == Len(ins.args)
        product == Fresh3(c.n)
        times   == [j \in 1 .. n - 1 |->
                      <<Op(Fresh3(c.n + 1 + j), ins.args[j + 1], ">>", Num(1)),
                        Op(product, Var(product), "*", Var(Fresh3(c.n + 1 + j)))>>]
        dims    == [j \in 1 .. n |->
                      <<Op(Fresh3(c.n + n + j), Var(ins.dst), "+", Num(8 * j)),
                        StoreTo(Fresh3(c.n + n + j), ins.args[j])>>]
    IN  Cleared(Emit(c,
            <<Op(Fresh3(c.n + 1), ins.args[1], ">>", Num(1)),
              Assign(product, Var(Fresh3(c.n + 1)))>>
            \o FlattenSeq(times)
            \o <<Op(product, Var(product), "<<", Num(1)), Op(product, Var(product), "+", Num(1)),
                 Op(product, Var(product), "+", Num(2 * n)),
                 Call(ins.dst, allocate, <<Var(product), Num(1)>>)>>
            \o FlattenSeq(dims), 2 * n + 1))

LowerNewTuple(c, ins) ==
    Cleared(Emit(c, <<Call(ins.dst, allocate, <<ins.args[1], Num(1)>>)>>, 0))

Lowered(c, ins) ==
    CASE ins.op = "def"              -> Invalidate(c, ins.dst)
      [] ins.op \in {"assign", "op"} -> Invalidate(Emit(c, <<ins>>, 0), ins.dst)
      [] ins.op = "load"             -> LowerLoad(c, ins)
      [] ins.op = "store"            -> LowerStore(c, ins)
      [] ins.op = "length"           -> LowerLength(c, ins)
      [] ins.op = "call"             -> Cleared(Emit(c, <<ins>>, 0))
      [] ins.op = "alloc" /\ ins.kind = "array" -> LowerNewArray(c, ins)
      [] ins.op = "alloc" /\ ins.kind = "tuple" -> LowerNewTuple(c, ins)

(* The terminator: a branch to the next block is left out.                 *)
LowerEnd(te, next) ==
    CASE te.op = "branch" -> IF te.to[1] = next THEN <<>> ELSE <<te>>
      [] te.op = "cond" ->
            <<Jump(te.args[1], te.to[1])>> \o
            (IF te.to[2] = next THEN <<>> ELSE <<Branch(te.to[2])>>)
      [] te.op = "return" -> <<te>>

-----------------------------------------------------------------------------
LowerStart ==
    /\ b' = 1 /\ k' = 0 /\ out' = <<>> /\ cache' = NoCaches(0)
    /\ types' = Along(LAMBDA f, p : (p.name :> p.type) @@ f, <<>>, source.params)

EnterBlock ==
    /\ b <= Len(blocks) /\ k = 0
    /\ out' = Append(out, Label(blocks[b].label))
    /\ cache' = Cleared(cache)
    /\ k' = 1
    /\ UNCHANGED <<b, types>>

LowerInstruction ==
    /\ b <= Len(blocks) /\ k \in DOMAIN blocks[b].body
    /\ \E c \in {Lowered(cache, blocks[b].body[k])} :
          /\ out' = out \o c.code
          /\ cache' = [c EXCEPT !.code = <<>>, !.value = NoName]
    /\ types' = LET ins == blocks[b].body[k]
                IN  IF ins.op = "def" THEN (ins.dst :> ins.kind) @@ types ELSE types
    /\ k' = k + 1
    /\ UNCHANGED b

LeaveBlock ==
    /\ b <= Len(blocks) /\ k > Len(blocks[b].body)
    /\ out' = out \o LowerEnd(blocks[b].te, IF b = Len(blocks) THEN NoName ELSE blocks[b + 1].label)
    /\ b' = b + 1 /\ k' = 0
    /\ UNCHANGED <<types, cache>>

LowerNext == EnterBlock \/ LowerInstruction \/ LeaveBlock
=============================================================================
