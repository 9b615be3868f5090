------------------------------ MODULE CallFrame ------------------------------
(***************************************************************************)
(* The stack of a compiled program.  Three stages and the boilerplate of   *)
(* go agree on its layout: L3 stores arguments and return label below rsp  *)
(* (emit_L2_instructions in L3/src/instruction_selection.cpp), L2 keeps    *)
(* spilled variables above rsp and finds the arguments behind them         *)
(* (L2/src/program.cpp), L1 moves rsp (L1/src/L1.cpp).  Addresses are      *)
(* counted in words of eight bytes, from the return address of go down.    *)
(***************************************************************************)
EXTENDS Integers, Sequences

CONSTANTS
    Functions, entryPoint,
    numArgs, numLocals,   \* the numbers in the header of an L1 function
    Sites, caller,        \* the return labels, and the function each is in
    goSite, main,         \* where the entry point and go return to
    Values, unset,
    MaxFrames             \* bound on the depth of calls

ASSUME FunctionsAssumption ==
    /\ entryPoint \in Functions
    /\ numArgs \in [Functions -> Nat] /\ numLocals \in [Functions -> Nat]
    /\ numArgs[entryPoint] = 0

ASSUME SitesAssumption ==
    caller \in [Sites -> Functions] /\ goSite \notin Sites /\ main \notin Sites

ASSUME ValuesAssumption == unset \notin Values

ASSUME MaxFramesAssumption == MaxFrames \in Nat

VARIABLES
    mem, rsp,     \* the words of the stack that are defined, the register
    fn,           \* the function that runs
    at,           \* "go", "prologue", "body", "setup", "jump", "return" or "main"
    call, passed, \* the call that is set up, the number of arguments passed
    restored,     \* the callee-saved registers when go returns
    frames        \* history: the calls that have not returned

vars == <<mem, rsp, fn, at, call, passed, restored, frames>>

(* An argument is a word on the stack from the seventh on.                 *)
StackArgs(g) == 7 .. numArgs[g]
Slots(g)     == 0 .. numLocals[g] - 1

(* callFrameBytes: the return address and the arguments on the stack.      *)
callFrame(n) == IF n > 6 THEN 1 + (n - 6) ELSE 1

(* An argument as L3 names it, and the place L2 reads.                     *)
stackArg(g, i)   == numArgs[g] - i
ArgumentAt(g, i) == rsp + numLocals[g] + stackArg(g, i)

Write(a, v) == [b \in DOMAIN mem \cup {a} |-> IF b = a THEN v ELSE mem[b]]

Frame(g, args, site, sp) ==
    [fn |-> g, args |-> args, locals |-> [j \in Slots(g) |-> unset], site |-> site, sp |-> sp]

NoCall == [fn |-> entryPoint, args |-> [i \in StackArgs(entryPoint) |-> unset], site |-> goSite]

Depth == Len(frames)
top   == frames[Depth]

Init ==
    /\ mem = [a \in {0} |-> main] /\ rsp = 0
    /\ fn = entryPoint /\ at = "main"
    /\ call = NoCall /\ passed = 6
    /\ restored = <<>> /\ frames = <<>>

(* go saves six registers (word k stands for what the k-th one held) and   *)
(* calls the entry point.                                                  *)
Go ==
    /\ at = "main" /\ restored = <<>>
    /\ mem' = [a \in -7 .. 0 |-> IF a = 0 THEN main ELSE IF a = -7 THEN goSite ELSE -a]
    /\ rsp' = -7
    /\ at' = "prologue"
    /\ frames' = <<Frame(entryPoint, NoCall.args, goSite, -7 - numLocals[entryPoint])>>
    /\ UNCHANGED <<fn, call, passed, restored>>

Prologue ==
    /\ at = "prologue"
    /\ rsp' = rsp - numLocals[fn]
    /\ at' = "body"
    /\ UNCHANGED <<mem, fn, call, passed, restored, frames>>

(* mem rsp 8j <- v for a spilled variable.                                 *)
SpillStore ==
    /\ at = "body"
    /\ \E j \in Slots(fn), v \in Values :
          /\ mem' = Write(rsp + j, v)
          /\ frames' = [frames EXCEPT ![Depth].locals[j] = v]
    /\ UNCHANGED <<rsp, fn, at, call, passed, restored>>

(* print, input, allocate: C code uses the stack below rsp as it likes.    *)
CallRuntime ==
    /\ at = "body"
    /\ mem' = [a \in {b \in DOMAIN mem : b >= rsp} |-> mem[a]]
    /\ UNCHANGED <<rsp, fn, at, call, passed, restored, frames>>

-----------------------------------------------------------------------------
(* A call: arguments, return label, then the jump.                         *)
BeginCall ==
    /\ at = "body" /\ Depth < MaxFrames
    /\ \E site \in Sites, g \in Functions :
          /\ caller[site] = fn
          /\ \E args \in [StackArgs(g) -> Values] :
                call' = [fn |-> g, args |-> args, site |-> site]
    /\ passed' = 6
    /\ at' = "setup"
    /\ UNCHANGED <<mem, rsp, fn, restored, frames>>

(* Variant: the first argument goes where the return label does.           *)
PassArgTooHigh ==
    /\ at = "setup" /\ passed < numArgs[call.fn]
    /\ mem' = Write(rsp - (passed + 1 - 6), call.args[passed + 1])
    /\ passed' = passed + 1
    /\ UNCHANGED <<rsp, fn, at, call, restored, frames>>

(* Variant: arguments on the stack are counted from the seventh.           *)
PassArgAtRsp ==
    /\ at = "setup" /\ passed < numArgs[call.fn]
    /\ mem' = Write(rsp - (passed + 1 - 7), call.args[passed + 1])
    /\ passed' = passed + 1
    /\ UNCHANGED <<rsp, fn, at, call, restored, frames>>

PassArg ==
    /\ at = "setup" /\ passed < numArgs[call.fn]
    /\ mem' = Write(rsp - (passed + 1 - 5), call.args[passed + 1])
    /\ passed' = passed + 1
    /\ UNCHANGED <<rsp, fn, at, call, restored, frames>>

PassReturnLabel ==
    /\ at = "setup" /\ passed >= numArgs[call.fn]
    /\ mem' = Write(rsp - 1, call.site)
    /\ at' = "jump"
    /\ UNCHANGED <<rsp, fn, call, passed, restored, frames>>

CallInstruction ==
    /\ at = "jump"
    /\ rsp' = rsp - callFrame(numArgs[call.fn])
    /\ fn' = call.fn
    /\ at' = "prologue"
    /\ frames' = Append(frames, Frame(call.fn, call.args, call.site, rsp' - numLocals[call.fn]))
    /\ UNCHANGED <<mem, call, passed, restored>>

-----------------------------------------------------------------------------
(* Variant: the arguments stay on the stack.                               *)
EpilogueLocalsOnly ==
    /\ at = "body"
    /\ rsp' = rsp + numLocals[fn]
    /\ at' = "return"
    /\ UNCHANGED <<mem, fn, call, passed, restored, frames>>

Epilogue ==
    /\ at = "body"
    /\ rsp' = rsp + numLocals[fn] + callFrame(numArgs[fn]) - 1
    /\ at' = "return"
    /\ UNCHANGED <<mem, fn, call, passed, restored, frames>>

(* retq pops the address it goes on at.                                    *)
Return ==
    /\ at = "return" /\ rsp \in DOMAIN mem
    /\ \/ mem[rsp] = goSite /\ at' = "go" /\ UNCHANGED fn
       \/ mem[rsp] \in Sites /\ at' = "body" /\ fn' = caller[mem[rsp]]
    /\ rsp' = rsp + 1
    /\ frames' = SubSeq(frames, 1, Depth - 1)
    /\ UNCHANGED <<mem, call, passed, restored>>

(* go pops its registers and returns.                                      *)
GoReturns ==
    /\ at = "go"
    /\ restored' = [k \in 1 .. 6 |-> mem[rsp + (6 - k)]]
    /\ rsp' = rsp + 6
    /\ at' = "main"
    /\ UNCHANGED <<mem, fn, call, passed, frames>>

Next ==
    \/ Go \/ Prologue \/ SpillStore \/ CallRuntime
    \/ BeginCall \/ PassArg \/ PassReturnLabel \/ CallInstruction
    \/ Epilogue \/ Return \/ GoReturns

Spec == Init /\ [][Next]_vars

-----------------------------------------------------------------------------
Holds(a, v) == a \in DOMAIN mem /\ mem[a] = v

InFunction == at \in {"body", "setup", "jump"}

(* The type invariant.                                                     *)
TypeOK ==
    /\ DOMAIN mem \subseteq Int /\ rsp \in Int
    /\ fn \in Functions
    /\ at \in {"go", "prologue", "body", "setup", "jump", "return", "main"}
    /\ call.fn \in Functions /\ call.site \in Sites \cup {goSite}
    /\ DOMAIN call.args = StackArgs(call.fn)
    /\ passed \in Nat
    /\ DOMAIN frames = 1 .. Depth
    /\ at \notin {"go", "main"} => frames # <<>>

(* stack-arg n: the callee reads the arguments its caller passed, at the   *)
(* place L3 and L2 compute, as long as it runs.                            *)
ArgumentsArrive ==
    InFunction =>
        \A i \in StackArgs(fn) : Holds(ArgumentAt(fn, i), top.args[i])

(* Calls, of the runtime or of functions, nested as they may be, do not    *)
(* change the spilled variables of the caller.                             *)
LocalsSurvive ==
    InFunction => \A j \in Slots(fn) : top.locals[j] # unset => Holds(rsp + j, top.locals[j])

(* Each function returns to its call, with rsp as it was; go returns with  *)
(* the registers it was entered with.                                      *)
StackIsBalanced ==
    /\ InFunction => rsp = top.sp /\ fn = top.fn
    /\ at = "return" => Holds(rsp, top.site)
    /\ at = "main" /\ restored # <<>> =>
           rsp = 0 /\ Holds(rsp, main) /\ \A k \in 1 .. 6 : restored[k] = k
=============================================================================
