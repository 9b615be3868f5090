------------------------------- MODULE IRRun -------------------------------
(***************************************************************************)
(* What functions of IR and the L3 code made of them do.  First the source *)
(* runs and leaves a trace of its calls and its return, then the result    *)
(* runs against that trace.  This is a model of what the languages and the *)
(* runtime mean, not of code of the IR compiler.                           *)
(***************************************************************************)
EXTENDS IRCode

CONSTANTS
    Inputs,         \* the numbers parameters may have
    CallResults,    \* the numbers calls may return
    MaxSteps        \* bound on the steps of a run of the source

VARIABLES
    source, out,
    stage,         \* "source" or "result"; "stopped" at the end
    at, pc,        \* the block of the source and the instruction that runs
    inputs,        \* the values of the parameters
    vals, heap,    \* the values of the variables, the objects
    trace,         \* the effects of the source the result has yet to have
    steps          \* how far the source has run

-----------------------------------------------------------------------------
(* Values.  obj is 0 for a number, -1 for what is undefined and otherwise  *)
(* the object an address is in, with num the offset.                       *)
Number(n)     == [obj |-> 0, num |-> n, code |-> NoName]
Address(o, n) == [obj |-> o, num |-> n, code |-> NoName]
Undefined     == [obj |-> -1, num |-> 0, code |-> NoName]

IsNumber(v) == v.obj = 0 /\ v.code = NoName

Value(t) ==
    CASE IsNum(t)                            -> Number(t.num)
      [] IsVar(t) /\ t.name \in DOMAIN vals  -> vals[t.name]
      [] IsVar(t) /\ t.name \notin DOMAIN vals -> Undefined
      [] OTHER -> [obj |-> 0, num |-> 0, code |-> Name(t.name[1])]

Combined(o, v, w) ==
    CASE IsNumber(v) /\ IsNumber(w)               -> Number(Fold(o, v.num, w.num))
      [] o = "=" /\ v.obj > 0 /\ w.obj >= 0       -> Number(Truth(v = w))
      [] o = "+" /\ v.obj > 0 /\ IsNumber(w)      -> Address(v.obj, v.num + w.num)
      [] OTHER                                    -> Undefined

(* An object: its dimensions, none for a tuple, and its words.             *)
Object(dims, words) == [dims |-> dims, words |-> words]

(* allocate of lib/runtime.c: the length, then the initial value.          *)
Words(n, v) == [w \in 0 .. n |-> IF w = 0 THEN Number(n) ELSE v]

Product(ns) == FoldLeft(LAMBDA p, n : p * n, 1, ns)

(* Where an element is: the dimensions lie behind the length, and the last *)
(* index is the fastest.                                                   *)
Element(dims, idx) ==
    Len(dims) + 1 + FoldLeftDomain(LAMBDA s, j : s * dims[j] + idx[j], 0, dims)

IsWithin(dims, idx) ==
    /\ Len(idx) = Len(dims)
    /\ \A j \in DOMAIN dims : idx[j] >= 0 /\ idx[j] < dims[j]

Nowhere == [obj |-> -1, word |-> 0]

ElementAt(base, is) ==
    LET idx == [j \in DOMAIN is |-> is[j].num]
    IN  CASE base.obj < 1 \/ \E j \in DOMAIN is : ~IsNumber(is[j]) -> Nowhere
          [] base.obj > 0 /\ (\A j \in DOMAIN is : IsNumber(is[j])) /\ heap[base.obj].dims = <<>> ->
                [obj |-> base.obj, word |-> IF idx[1] < 0 THEN -1 ELSE idx[1] + 1]
          [] OTHER ->
                IF IsWithin(heap[base.obj].dims, idx)
                THEN [obj |-> base.obj, word |-> Element(heap[base.obj].dims, idx)]
                ELSE Nowhere

-----------------------------------------------------------------------------
(* The runs.                                                               *)
IsRunning == stage \in {"source", "result"}

here == source.blocks[at]

now ==
    CASE stage = "result"                      -> out[pc]
      [] stage = "source" /\ pc <= Len(here.body) -> here.body[pc]
      [] stage = "source" /\ pc > Len(here.body)  -> here.te

arguments == [j \in DOMAIN now.args |-> Value(now.args[j])]

(* The word that a load or a store is about.                               *)
target ==
    IF stage = "source"
    THEN ElementAt(Value(Var(now.base)),
                   [j \in DOMAIN Indices(now) |-> Value(Indices(now)[j])])
    ELSE LET a == arguments[1]
         IN  IF a.num % 8 = 0 THEN [obj |-> a.obj, word |-> a.num \div 8] ELSE Nowhere

IsWord(t) == t.obj \in DOMAIN heap /\ t.word \in DOMAIN heap[t.obj].words

callee == IF now.base \in DOMAIN vals THEN vals[now.base].code ELSE now.base

(* What a result that is in step with its source never does.               *)
IsDefined ==
    CASE now.op \in {"load", "store"} -> IsWord(target)
      [] now.op = "cond" -> arguments[1] \in {Number(0), Number(1)}
      [] now.op = "call" -> callee # NoName
      [] now.op = "alloc" -> \A j \in DOMAIN arguments :
                                IsNumber(arguments[j]) /\ arguments[j].num >= 0
      [] now.op = "length" ->
            LET base == Value(Var(now.base))
            IN  /\ base.obj > 0
                /\ now.args # <<>> => /\ IsNumber(arguments[1])
                                      /\ arguments[1].num + 1 \in DOMAIN heap[base.obj].dims
      [] OTHER -> TRUE

CanRun(ops) ==
    /\ IsRunning /\ now.op \in ops
    /\ IsDefined
    /\ stage = "source" => steps < MaxSteps
    /\ steps' = IF stage = "source" THEN steps + 1 ELSE steps

AssignTo(x, v) == vals' = IF x = NoName THEN vals ELSE (x :> v) @@ vals

(* The arrays of vals after a collection: an address that is not that of   *)
(* an object is not updated.                                               *)
Collected ==
    [x \in DOMAIN vals |->
        IF stage = "result" /\ vals[x].obj > 0 /\ vals[x].num # 0
        THEN Undefined ELSE vals[x]]

Compute ==
    /\ CanRun({"def", "assign", "op", "label"})
    /\ AssignTo(now.dst,
          CASE now.op = "assign" -> arguments[1]
            [] now.op = "op"     -> Combined(now.kind, arguments[1], arguments[2])
            [] OTHER             -> Undefined)
    /\ pc' = pc + 1
    /\ UNCHANGED <<at, heap, trace, stage>>

LoadWord ==
    /\ CanRun({"load"})
    /\ AssignTo(now.dst, heap[target.obj].words[target.word])
    /\ pc' = pc + 1
    /\ UNCHANGED <<at, heap, trace, stage>>

StoreWord ==
    /\ CanRun({"store"})
    /\ heap' = [heap EXCEPT ![target.obj].words[target.word] = Last(arguments)]
    /\ pc' = pc + 1
    /\ UNCHANGED <<at, vals, trace, stage>>

TakeLength ==
    /\ CanRun({"length"})
    /\ LET o == heap[Value(Var(now.base)).obj]
       IN  AssignTo(now.dst, IF now.args = <<>> THEN Number(2 * o.words[0].num + 1)
                             ELSE o.words[arguments[1].num + 1])
    /\ pc' = pc + 1
    /\ UNCHANGED <<at, heap, trace, stage>>

(* new Array and new Tuple: all lengths are encoded, and every element is  *)
(* an encoded 0.                                                           *)
NewObject ==
    /\ CanRun({"alloc"})
    /\ LET lengths == [j \in DOMAIN arguments |-> arguments[j].num \div 2]
           dims    == IF now.kind = "array" THEN lengths ELSE <<>>
           empty   == Words(Len(dims) + Product(lengths), Number(1))
           words   == [w \in DOMAIN empty |->
                         IF w \in DOMAIN dims THEN arguments[w] ELSE empty[w]]
       IN  heap' = Append(heap, Object(dims, words))
    /\ AssignTo(now.dst, Address(Len(heap'), 0))
    /\ pc' = pc + 1
    /\ UNCHANGED <<at, trace, stage>>

IsAllocate == stage = "result" /\ now.op = "call" /\ now.base = Name("allocate")

Allocate ==
    /\ CanRun({"call"}) /\ IsAllocate
    /\ IsNumber(arguments[1]) /\ arguments[1].num >= 0
    /\ heap' = Append(heap, Object(<<>>, Words(arguments[1].num \div 2, arguments[2])))
    /\ vals' = (now.dst :> Address(Len(heap'), 0)) @@ Collected
    /\ pc' = pc + 1
    /\ UNCHANGED <<at, trace, stage>>

Effect(f, v) == [callee |-> f, args |-> arguments, heap |-> heap, value |-> v]

(* The callee of the result returns what that of the source has returned.  *)
CallOut ==
    /\ CanRun({"call"}) /\ ~IsAllocate
    /\ \E n \in CallResults :
          /\ IF stage = "source" THEN trace' = Append(trace, Effect(callee, n))
             ELSE trace # <<>> /\ n = trace[1].value /\ trace' = Tail(trace)
          /\ vals' = IF now.dst = NoName THEN Collected ELSE (now.dst :> Number(n)) @@ Collected
    /\ pc' = pc + 1
    /\ UNCHANGED <<at, heap, stage>>

GoTo(l) ==
    IF stage = "source" THEN at' = Place(source.blocks, l) /\ pc' = 1
    ELSE /\ pc' = CHOOSE j \in DOMAIN out : out[j] = Label(l)
         /\ UNCHANGED at

TakeBranch ==
    /\ CanRun({"branch"})
    /\ GoTo(now.to[1])
    /\ UNCHANGED <<vals, heap, trace, stage>>

TakeCondition ==
    /\ CanRun({"cond"})
    /\ CASE arguments[1] = Number(1) -> GoTo(now.to[1])
         [] arguments[1] = Number(0) /\ stage = "source" -> GoTo(now.to[2])
         [] arguments[1] = Number(0) /\ stage = "result" -> pc' = pc + 1 /\ UNCHANGED at
    /\ UNCHANGED <<vals, heap, trace, stage>>

Begin ==
    /\ \E ns \in [{p.name : p \in Range(source.params)} -> Inputs] :
          inputs' = [x \in DOMAIN ns |-> Number(ns[x])]
    /\ vals' = inputs' /\ heap' = <<>>
    /\ at' = 1 /\ pc' = 1
    /\ trace' = <<>> /\ steps' = 0
    /\ stage' = "source"

(* The result begins as the source did.                                    *)
ReturnFromSource ==
    /\ stage = "source" /\ CanRun({"return"})
    /\ trace' = Append(trace, Effect(NoName, 0))
    /\ vals' = inputs /\ heap' = <<>>
    /\ at' = 1 /\ pc' = 1
    /\ stage' = "result"

(* What the source must not do, and runs that take too long, are not       *)
(* compared.                                                               *)
GiveUp ==
    /\ stage = "source" /\ (~IsDefined \/ steps = MaxSteps)
    /\ stage' = "stopped"
    /\ UNCHANGED <<at, pc, vals, heap, trace, steps>>

ReturnFromResult ==
    /\ stage = "result" /\ CanRun({"return"})
    /\ trace' = Tail(trace)
    /\ stage' = "stopped"
    /\ UNCHANGED <<at, pc, vals, heap>>

RunNext ==
    /\ \/ Compute \/ LoadWord \/ StoreWord \/ TakeLength \/ NewObject \/ Allocate
       \/ CallOut \/ TakeBranch \/ TakeCondition
       \/ ReturnFromSource \/ GiveUp \/ ReturnFromResult
    /\ UNCHANGED inputs

-----------------------------------------------------------------------------
(* A value of the source that is undefined may be anything.                *)
Matches(v, w) == v.obj = -1 \/ v = w

EffectAgrees ==
    now.op = "return" \/ (now.op = "call" /\ ~IsAllocate) =>
        /\ trace # <<>>
        /\ trace[1].callee = IF now.op = "return" THEN NoName ELSE callee
        /\ Len(trace[1].args) = Len(arguments)
        /\ \A j \in DOMAIN arguments : Matches(trace[1].args[j], arguments[j])

HeapAgrees ==
    (now.op = "return" \/ (now.op = "call" /\ ~IsAllocate)) /\ trace # <<>> =>
        /\ Len(trace[1].heap) = Len(heap)
        /\ \A o \in DOMAIN heap :
             /\ DOMAIN heap[o].words = DOMAIN trace[1].heap[o].words
             /\ \A w \in DOMAIN heap[o].words :
                  Matches(trace[1].heap[o].words[w], heap[o].words[w])
=============================================================================
