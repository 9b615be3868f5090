--------------------------- MODULE CallFrameProofs ---------------------------
(***************************************************************************)
(* For all functions, with any numbers of parameters and spilled           *)
(* variables, and calls nested to any depth: the callee finds its          *)
(* arguments, the caller its variables, and rsp is balanced.               *)
(***************************************************************************)
EXTENDS CallFrame, SequenceTheorems, TLAPS

(* The address of the return address of a call.                            *)
Top(fr) == fr.sp + numLocals[fr.fn] + callFrame(numArgs[fr.fn]) - 1

Args   == UNION {[StackArgs(g) -> Values \cup {unset}] : g \in Functions}
Locals == UNION {[Slots(g) -> Values \cup {unset}] : g \in Functions}
FrameSet == [fn : Functions, args : Args, locals : Locals, site : Sites \cup {goSite}, sp : Int]

At(m, a, v) == a \in DOMAIN m /\ m[a] = v

(* What the frame of a call holds.                                         *)
Stored(fr, m) ==
    /\ \A j \in Slots(fr.fn) : fr.locals[j] # unset => At(m, fr.sp + j, fr.locals[j])
    /\ \A i \in StackArgs(fr.fn) :
          At(m, fr.sp + numLocals[fr.fn] + (numArgs[fr.fn] - i), fr.args[i])
    /\ At(m, Top(fr), fr.site)

(* The words go has pushed.                                                *)
Saved(m) == At(m, 0, main) /\ \A k \in 1 .. 6 : At(m, -k, k)

Types ==
    /\ TypeOK
    /\ frames \in Seq(FrameSet)
    /\ call.args \in Args
    /\ \A d \in 1 .. Depth : DOMAIN frames[d].locals = Slots(frames[d].fn)

FramesStored == \A d \in 1 .. Depth : Stored(frames[d], mem)

(* Frames lie one below the other, the first below what go has pushed.     *)
Adjacent ==
    /\ \A d \in 1 .. Depth - 1 :
          /\ Top(frames[d + 1]) + 1 = frames[d].sp
          /\ frames[d + 1].site \in Sites
          /\ caller[frames[d + 1].site] = frames[d].fn
    /\ frames # <<>> => frames[1].site = goSite /\ Top(frames[1]) = -7

Ordered ==
    /\ \A c, d \in 1 .. Depth : c < d => Top(frames[d]) < frames[c].sp
    /\ \A d \in 1 .. Depth : Top(frames[d]) <= -7

(* Where rsp is.                                                           *)
Position ==
    /\ at \in {"main", "go"} => frames = <<>>
    /\ at = "main" /\ restored = <<>> => fn = entryPoint
    /\ at = "go" => rsp = -6
    /\ InFunction => rsp = top.sp /\ fn = top.fn
    /\ at = "prologue" => fn = top.fn /\ rsp = top.sp + numLocals[fn]
    /\ at = "return" => rsp = Top(top)

PassedSoFar ==
    /\ at \in {"setup", "jump"} => call.site \in Sites /\ caller[call.site] = fn
    /\ at = "setup" =>
          passed >= 6 /\ \A i \in 7 .. passed : At(mem, rsp - (i - 5), call.args[i])
    /\ at = "jump" =>
          /\ \A i \in StackArgs(call.fn) : At(mem, rsp - (i - 5), call.args[i])
          /\ At(mem, rsp - 1, call.site)

GoIsSafe ==
    /\ at # "main" => Saved(mem)
    /\ at = "main" /\ restored # <<>> =>
          rsp = 0 /\ At(mem, 0, main) /\ \A k \in 1 .. 6 : restored[k] = k

IInv == Types /\ FramesStored /\ Adjacent /\ Ordered /\ Position /\ PassedSoFar /\ GoIsSafe

-----------------------------------------------------------------------------
LEMMA Header ==
    ASSUME NEW g \in Functions
    PROVE  /\ numArgs[g] \in Nat /\ numLocals[g] \in Nat
           /\ callFrame(numArgs[g]) \in Nat \ {0}
           /\ numArgs[g] > 6 => callFrame(numArgs[g]) = numArgs[g] - 5
<1>1. numArgs[g] \in Nat /\ numLocals[g] \in Nat
  BY FunctionsAssumption
<1>. QED BY <1>1 DEF callFrame

(* Variables, arguments and return address of a frame, from below.         *)
LEMMA Layout ==
    ASSUME NEW fr \in FrameSet
    PROVE  /\ fr.fn \in Functions /\ fr.sp \in Int /\ Top(fr) \in Int
           /\ numLocals[fr.fn] \in Nat /\ numArgs[fr.fn] \in Nat
           /\ fr.sp + numLocals[fr.fn] <= Top(fr)
           /\ \A i \in StackArgs(fr.fn) :
                 LET a == fr.sp + numLocals[fr.fn] + (numArgs[fr.fn] - i)
                 IN  a \in Int /\ fr.sp + numLocals[fr.fn] <= a /\ a < Top(fr)
<1>1. fr.fn \in Functions /\ fr.sp \in Int
  BY DEF FrameSet
<1>2. /\ numArgs[fr.fn] \in Nat /\ numLocals[fr.fn] \in Nat
      /\ callFrame(numArgs[fr.fn]) \in Nat \ {0}
      /\ numArgs[fr.fn] > 6 => callFrame(numArgs[fr.fn]) = numArgs[fr.fn] - 5
  BY <1>1, Header
<1>. QED BY <1>1, <1>2 DEF Top, StackArgs

(* A frame is not affected by what happens below it.                       *)
LEMMA StoredKept ==
    ASSUME NEW fr \in FrameSet, NEW m, NEW m2, NEW r \in Int,
           r <= fr.sp,
           \A a \in Int : a >= r /\ a \in DOMAIN m => a \in DOMAIN m2 /\ m2[a] = m[a],
           Stored(fr, m)
    PROVE  Stored(fr, m2)
<1>1. /\ fr.sp \in Int /\ Top(fr) \in Int /\ fr.sp <= Top(fr)
      /\ numLocals[fr.fn] \in Nat
      /\ \A i \in StackArgs(fr.fn) :
            LET a == fr.sp + numLocals[fr.fn] + (numArgs[fr.fn] - i)
            IN  a \in Int /\ fr.sp <= a
  BY Layout
<1>2. ASSUME NEW a \in Int, NEW v, fr.sp <= a, At(m, a, v)
      PROVE  At(m2, a, v)
  BY <1>1, <1>2 DEF At
<1>3. ASSUME NEW j \in Slots(fr.fn), fr.locals[j] # unset
      PROVE  At(m2, fr.sp + j, fr.locals[j])
  <2>1. fr.sp + j \in Int /\ fr.sp <= fr.sp + j
    BY <1>1 DEF Slots
  <2>. QED BY <1>2, <1>3, <2>1 DEF Stored
<1>4. ASSUME NEW i \in StackArgs(fr.fn)
      PROVE  At(m2, fr.sp + numLocals[fr.fn] + (numArgs[fr.fn] - i), fr.args[i])
  BY <1>1, <1>2 DEF Stored
<1>5. At(m2, Top(fr), fr.site)
  BY <1>1, <1>2 DEF Stored
<1>. QED BY <1>3, <1>4, <1>5 DEF Stored

(* Writing changes one word.                                               *)
LEMMA WriteOne ==
    ASSUME NEW a, NEW v
    PROVE  /\ At(Write(a, v), a, v)
           /\ \A b \in DOMAIN mem \ {a} : b \in DOMAIN Write(a, v) /\ Write(a, v)[b] = mem[b]
           /\ DOMAIN Write(a, v) = DOMAIN mem \cup {a}
BY DEF Write, At

LEMMA TopFrame ==
    ASSUME Types, frames # <<>>
    PROVE  /\ Depth \in Nat \ {0} /\ Depth \in 1 .. Depth
           /\ top \in FrameSet /\ top.fn \in Functions /\ top.sp \in Int
           /\ \A d \in 1 .. Depth : frames[d] \in FrameSet
<1>1. Depth \in Nat \ {0} /\ \A d \in 1 .. Depth : frames[d] \in FrameSet
  BY DEF Types, Depth
<1>2. top \in FrameSet
  BY <1>1 DEF top, Depth
<1>. QED BY <1>1, <1>2 DEF FrameSet

(* All frames begin at or above the last one.                              *)
LEMMA LastIsLowest ==
    ASSUME IInv, NEW d \in 1 .. Depth
    PROVE  /\ frames[d] \in FrameSet /\ top.sp \in Int /\ top.sp <= frames[d].sp
           /\ top.sp <= Top(top)
           /\ d < Depth => Top(top) < frames[d].sp
<1>0. Types /\ frames # <<>> /\ Ordered
  BY DEF IInv, Types, Depth
<1>1. Depth \in 1 .. Depth /\ Depth \in Nat /\ top \in FrameSet /\ frames[d] \in FrameSet
  BY <1>0, TopFrame
<1>2. /\ top.sp \in Int /\ Top(top) \in Int /\ frames[d].sp \in Int
      /\ numLocals[top.fn] \in Nat /\ top.sp + numLocals[top.fn] <= Top(top)
  BY <1>1, Layout
<1>3. top.sp <= Top(top)
  BY <1>2
<1>4. d < Depth => Top(top) < frames[d].sp
  BY <1>0, <1>1 DEF Ordered, top
<1>5. d = Depth => frames[d] = top
  BY DEF top
<1>. QED BY <1>1, <1>2, <1>3, <1>4, <1>5

(* What is below the last frame may change.                                *)
LEMMA KeptAbove ==
    ASSUME IInv, frames # <<>>, at # "main", NEW m2,
           \A a \in Int : a >= top.sp /\ a \in DOMAIN mem => a \in DOMAIN m2 /\ m2[a] = mem[a]
    PROVE  (\A d \in 1 .. Depth : Stored(frames[d], m2)) /\ Saved(m2)
<1>1. Depth \in 1 .. Depth /\ top.sp \in Int /\ top \in FrameSet
  BY TopFrame DEF IInv
<1>2. ASSUME NEW d \in 1 .. Depth
      PROVE  Stored(frames[d], m2)
  <2>1. frames[d] \in FrameSet /\ top.sp <= frames[d].sp
    BY LastIsLowest
  <2>2. Stored(frames[d], mem)
    BY DEF IInv, FramesStored
  <2>. QED BY <1>1, <2>1, <2>2, StoredKept
<1>3. Saved(m2)
  <2>1. top.sp <= -7
    <3>1. top.sp <= Top(top)
      BY <1>1, Layout
    <3>2. \A d \in 1 .. Depth : Top(frames[d]) <= -7
      BY DEF IInv, Ordered
    <3>3. Top(top) <= -7
      BY <1>1, <3>2 DEF top
    <3>4. Top(top) \in Int
      BY <1>1, Layout
    <3>. QED BY <1>1, <3>1, <3>3, <3>4
  <2>2. Saved(mem)
    BY DEF IInv, GoIsSafe
  <2>. QED BY <1>1, <2>1, <2>2 DEF Saved, At
<1>. QED BY <1>2, <1>3

(* Replacing the last element of a sequence.                               *)
LEMMA ReplaceLast ==
    ASSUME NEW S, NEW s \in Seq(S), NEW n \in 1 .. Len(s), NEW e \in S,
           NEW t, t = [s EXCEPT ![n] = e]
    PROVE  /\ t \in Seq(S) /\ Len(t) = Len(s)
           /\ \A k \in 1 .. Len(s) : t[k] = IF k = n THEN e ELSE s[k]
OBVIOUS

LEMMA WithoutLast ==
    ASSUME NEW S, NEW s \in Seq(S), Len(s) > 0, NEW t, t = SubSeq(s, 1, Len(s) - 1)
    PROVE  /\ t \in Seq(S) /\ Len(t) = Len(s) - 1
           /\ \A k \in 1 .. Len(s) - 1 : t[k] = s[k]
<1>. DEFINE n == Len(s) - 1
<1>1. n \in Nat /\ n + 1 = Len(s)
  OBVIOUS
<1>2. n \in 1 - 1 .. Len(s) /\ 1 \in 1 .. Len(s) + 1
  BY <1>1
<1>. QED BY <1>1, <1>2, SubSeqProperties

-----------------------------------------------------------------------------
LEMMA InitIInv == Init => IInv
<1>. SUFFICES ASSUME Init PROVE IInv
  OBVIOUS
<1>. USE DEF Init
<1>1. Types
  <2>1. call.args \in [StackArgs(entryPoint) -> Values \cup {unset}]
    BY DEF NoCall
  <2>2. call.args \in Args
    BY <2>1, FunctionsAssumption DEF Args, NoCall
  <2>. QED BY <2>2, FunctionsAssumption DEF Types, TypeOK, NoCall, Depth
<1>2. FramesStored /\ Adjacent /\ Ordered
  BY DEF FramesStored, Adjacent, Ordered, Depth
<1>3. Position /\ PassedSoFar /\ GoIsSafe
  BY DEF Position, PassedSoFar, GoIsSafe, InFunction
<1>. QED BY <1>1, <1>2, <1>3 DEF IInv

LEMMA GoKeeps == IInv /\ Go => IInv'
<1>. SUFFICES ASSUME IInv, Go PROVE IInv'
  OBVIOUS
<1>. DEFINE fr == Frame(entryPoint, NoCall.args, goSite, -7 - numLocals[entryPoint])
<1>1. /\ frames' = <<fr>> /\ frames'[1] = fr /\ Depth' = 1
      /\ rsp' = -7 /\ at' = "prologue" /\ UNCHANGED <<fn, call, passed, restored>>
  BY DEF Go, Depth
<1>2. /\ entryPoint \in Functions /\ numArgs[entryPoint] = 0
      /\ numLocals[entryPoint] \in Nat
  BY FunctionsAssumption
<1>3. fr \in FrameSet /\ DOMAIN fr.locals = Slots(fr.fn)
  <2>1. NoCall.args \in [StackArgs(entryPoint) -> Values \cup {unset}]
    BY DEF NoCall
  <2>2. NoCall.args \in Args
    BY <1>2, <2>1 DEF Args
  <2>3. [j \in Slots(entryPoint) |-> unset] \in [Slots(entryPoint) -> Values \cup {unset}]
    OBVIOUS
  <2>4. [j \in Slots(entryPoint) |-> unset] \in Locals
    BY <1>2, <2>3 DEF Locals
  <2>. QED BY <1>2, <2>2, <2>4 DEF Frame, FrameSet
<1>4. Top(fr) = -7
  BY <1>2 DEF Top, callFrame, Frame
<1>5. fn = entryPoint
  BY DEF IInv, Go, Position
<1>6. /\ DOMAIN mem' = -7 .. 0 /\ mem'[0] = main /\ mem'[-7] = goSite
      /\ \A k \in 1 .. 6 : -k \in DOMAIN mem' /\ mem'[-k] = k
  <2>1. mem' = [a \in -7 .. 0 |-> IF a = 0 THEN main ELSE IF a = -7 THEN goSite ELSE -a]
    BY DEF Go
  <2>2. DOMAIN mem' = -7 .. 0
    BY <2>1
  <2>3. 0 \in -7 .. 0 /\ -7 \in -7 .. 0 /\ -7 # 0
    OBVIOUS
  <2>4. mem'[0] = main /\ mem'[-7] = goSite
    BY <2>1, <2>3
  <2>5. ASSUME NEW k \in 1 .. 6
        PROVE  -k \in DOMAIN mem' /\ mem'[-k] = k
    <3>1. -k \in -7 .. 0 /\ -k # 0 /\ -k # -7 /\ -(-k) = k
      OBVIOUS
    <3>2. mem'[-k] = -(-k)
      BY <2>1, <3>1
    <3>. QED BY <2>2, <3>1, <3>2
  <2>. QED BY <2>2, <2>4, <2>5
<1>7. Types'
  <2>1. TypeOK'
    BY <1>1, <1>2, <1>5, <1>6 DEF TypeOK, Depth, IInv, Types
  <2>2. frames' \in Seq(FrameSet)
    BY <1>1, <1>3
  <2>. QED BY <1>1, <1>3, <2>1, <2>2 DEF Types, IInv
<1>8. Stored(fr, mem')
  <2>1. \A j \in Slots(fr.fn) : fr.locals[j] = unset
    BY DEF Frame
  <2>2. StackArgs(fr.fn) = {}
    BY <1>2 DEF Frame, StackArgs
  <2>3. At(mem', Top(fr), fr.site)
    BY <1>4, <1>6 DEF At, Frame
  <2>. QED BY <2>1, <2>2, <2>3 DEF Stored
<1>9. FramesStored'
  BY <1>1, <1>8 DEF FramesStored
<1>10. Adjacent' /\ Ordered'
  BY <1>1, <1>4 DEF Adjacent, Ordered, Frame
<1>11. Position'
  <2>1. top' = fr
    BY <1>1 DEF top
  <2>. QED BY <1>1, <1>2, <1>5, <2>1 DEF Position, InFunction, Frame
<1>12. PassedSoFar' /\ GoIsSafe'
  BY <1>1, <1>6 DEF PassedSoFar, GoIsSafe, Saved, At
<1>. QED BY <1>7, <1>9, <1>10, <1>11, <1>12 DEF IInv

(* Steps that leave memory and frames as they are.                         *)
LEMMA PrologueKeeps == IInv /\ Prologue => IInv'
<1>. SUFFICES ASSUME IInv, Prologue PROVE IInv'
  OBVIOUS
<1>1. UNCHANGED <<mem, fn, call, passed, restored, frames>> /\ Depth' = Depth /\ top' = top
  BY DEF Prologue, Depth, top
<1>2. at = "prologue" /\ at' = "body" /\ rsp' = rsp - numLocals[fn]
  BY DEF Prologue
<1>3. numLocals[fn] \in Nat /\ rsp \in Int
  BY Header DEF IInv, Types, TypeOK
<1>4. Types'
  BY <1>1, <1>2, <1>3 DEF IInv, Types, TypeOK
<1>5. FramesStored' /\ Adjacent' /\ Ordered'
  BY <1>1 DEF IInv, FramesStored, Adjacent, Ordered
<1>6. Position'
  <2>1. top.sp \in Int
    BY <1>2, TopFrame DEF IInv, Types, TypeOK
  <2>2. rsp' = top.sp /\ fn = top.fn
    BY <1>2, <1>3, <2>1 DEF IInv, Position
  <2>. QED BY <1>1, <1>2, <2>2 DEF Position, InFunction
<1>7. PassedSoFar' /\ GoIsSafe'
  BY <1>1, <1>2 DEF IInv, PassedSoFar, GoIsSafe
<1>. QED BY <1>4, <1>5, <1>6, <1>7 DEF IInv

LEMMA EpilogueKeeps == IInv /\ Epilogue => IInv'
<1>. SUFFICES ASSUME IInv, Epilogue PROVE IInv'
  OBVIOUS
<1>1. UNCHANGED <<mem, fn, call, passed, restored, frames>> /\ Depth' = Depth /\ top' = top
  BY DEF Epilogue, Depth, top
<1>2. /\ at = "body" /\ at' = "return"
      /\ rsp' = rsp + numLocals[fn] + callFrame(numArgs[fn]) - 1
  BY DEF Epilogue
<1>3. numLocals[fn] \in Nat /\ callFrame(numArgs[fn]) \in Nat /\ rsp \in Int
  BY Header DEF IInv, Types, TypeOK
<1>4. Types'
  BY <1>1, <1>2, <1>3 DEF IInv, Types, TypeOK
<1>5. FramesStored' /\ Adjacent' /\ Ordered'
  BY <1>1 DEF IInv, FramesStored, Adjacent, Ordered
<1>6. Position'
  <2>1. rsp = top.sp /\ fn = top.fn
    BY <1>2 DEF IInv, Position, InFunction
  <2>. QED BY <1>1, <1>2, <2>1 DEF Position, InFunction, Top
<1>7. PassedSoFar' /\ GoIsSafe'
  BY <1>1, <1>2 DEF IInv, PassedSoFar, GoIsSafe
<1>. QED BY <1>4, <1>5, <1>6, <1>7 DEF IInv

LEMMA BeginCallKeeps == IInv /\ BeginCall => IInv'
<1>. SUFFICES ASSUME IInv, BeginCall PROVE IInv'
  OBVIOUS
<1>1. /\ UNCHANGED <<mem, rsp, fn, restored, frames>> /\ Depth' = Depth /\ top' = top
      /\ at = "body" /\ at' = "setup" /\ passed' = 6
  BY DEF BeginCall, Depth, top
<1>2. PICK site \in Sites, g \in Functions :
         /\ caller[site] = fn
         /\ \E args \in [StackArgs(g) -> Values] :
               call' = [fn |-> g, args |-> args, site |-> site]
  BY DEF BeginCall
<1>3. PICK args \in [StackArgs(g) -> Values] : call' = [fn |-> g, args |-> args, site |-> site]
  BY <1>2
<1>4. Types'
  <2>1. args \in [StackArgs(g) -> Values \cup {unset}]
    BY <1>3
  <2>2. call'.args \in Args
    BY <1>3, <2>1 DEF Args
  <2>3. TypeOK'
    BY <1>1, <1>3 DEF IInv, Types, TypeOK
  <2>. QED BY <1>1, <2>2, <2>3 DEF IInv, Types
<1>5. FramesStored' /\ Adjacent' /\ Ordered'
  BY <1>1 DEF IInv, FramesStored, Adjacent, Ordered
<1>6. Position'
  BY <1>1 DEF IInv, Position, InFunction
<1>7. PassedSoFar' /\ GoIsSafe'
  BY <1>1, <1>2, <1>3 DEF IInv, PassedSoFar, GoIsSafe
<1>. QED BY <1>4, <1>5, <1>6, <1>7 DEF IInv

LEMMA GoReturnsKeeps == IInv /\ GoReturns => IInv'
<1>. SUFFICES ASSUME IInv, GoReturns PROVE IInv'
  OBVIOUS
<1>1. /\ UNCHANGED <<mem, fn, call, passed, frames>> /\ Depth' = Depth
      /\ at = "go" /\ at' = "main" /\ rsp' = rsp + 6
      /\ restored' = [k \in 1 .. 6 |-> mem[rsp + (6 - k)]]
  BY DEF GoReturns, Depth
<1>2. frames = <<>> /\ rsp = -6 /\ Saved(mem)
  BY <1>1 DEF IInv, Position, GoIsSafe
<1>3. Types'
  BY <1>1, <1>2 DEF IInv, Types, TypeOK, Depth
<1>4. FramesStored' /\ Adjacent' /\ Ordered'
  BY <1>1 DEF IInv, FramesStored, Adjacent, Ordered
<1>5. restored' # <<>> /\ \A k \in 1 .. 6 : restored'[k] = k
  <2>1. \A k \in 1 .. 6 : rsp + (6 - k) = -k
    BY <1>2
  <2>2. \A k \in 1 .. 6 : restored'[k] = k
    BY <1>1, <1>2, <2>1 DEF Saved, At
  <2>. QED BY <1>1, <2>2
<1>6. Position'
  BY <1>1, <1>2, <1>5 DEF Position, InFunction
<1>7. PassedSoFar' /\ GoIsSafe'
  BY <1>1, <1>2, <1>5 DEF PassedSoFar, GoIsSafe, Saved
<1>. QED BY <1>3, <1>4, <1>6, <1>7 DEF IInv
(* Steps that write below or into the last frame.                          *)
LEMMA SpillStoreKeeps == IInv /\ SpillStore => IInv'
<1>. SUFFICES ASSUME IInv, SpillStore PROVE IInv'
  OBVIOUS
<1>1. at = "body" /\ UNCHANGED <<rsp, fn, at, call, passed, restored>>
  BY DEF SpillStore
<1>2. PICK j \in Slots(fn), v \in Values :
         mem' = Write(rsp + j, v) /\ frames' = [frames EXCEPT ![Depth].locals[j] = v]
  BY DEF SpillStore
<1>3. Types /\ frames # <<>> /\ rsp = top.sp /\ fn = top.fn
  BY <1>1 DEF IInv, Types, TypeOK, Position, InFunction
<1>4. /\ Depth \in Nat \ {0} /\ Depth \in 1 .. Depth
      /\ top \in FrameSet /\ top.fn \in Functions /\ top.sp \in Int
      /\ \A d \in 1 .. Depth : frames[d] \in FrameSet
  BY <1>3, TopFrame
<1>. DEFINE new == [top EXCEPT !.locals[j] = v]
<1>5. /\ frames' = [frames EXCEPT ![Depth] = new]
  BY <1>2 DEF top
<1>6. new \in FrameSet /\ DOMAIN new.locals = Slots(new.fn)
      /\ new.fn = top.fn /\ new.args = top.args /\ new.site = top.site /\ new.sp = top.sp
      /\ new.locals = [top.locals EXCEPT ![j] = v]
  <2>1. DOMAIN top.locals = Slots(top.fn)
    BY <1>3, <1>4 DEF Types, top
  <2>2. PICK g \in Functions : top.locals \in [Slots(g) -> Values \cup {unset}]
    BY <1>4 DEF FrameSet, Locals
  <2>3. [top.locals EXCEPT ![j] = v] \in [Slots(g) -> Values \cup {unset}]
    BY <2>2
  <2>4. [top.locals EXCEPT ![j] = v] \in Locals
    BY <2>3 DEF Locals
  <2>. QED BY <1>4, <2>1, <2>4 DEF FrameSet
<1>7. /\ frames' \in Seq(FrameSet) /\ Depth' = Depth
      /\ \A d \in 1 .. Depth : frames'[d] = IF d = Depth THEN new ELSE frames[d]
  <2>1. frames \in Seq(FrameSet)
    BY <1>3 DEF Types
  <2>. QED BY <1>4, <1>5, <1>6, <2>1, ReplaceLast DEF Depth
<1>8. top' = new
  BY <1>4, <1>7 DEF top
<1>9. \A d \in 1 .. Depth :
         /\ frames'[d].fn = frames[d].fn /\ frames'[d].site = frames[d].site
         /\ frames'[d].sp = frames[d].sp /\ Top(frames'[d]) = Top(frames[d])
  BY <1>4, <1>6, <1>7 DEF Top, top
<1>10. /\ numLocals[fn] \in Nat /\ Top(top) \in Int
       /\ rsp + j \in Int /\ rsp + j < Top(top) /\ j \in Nat /\ Top(top) <= -7
       /\ \A i \in StackArgs(fn) :
             LET a == rsp + numLocals[fn] + (numArgs[fn] - i)
             IN  a \in Int /\ a > rsp + j
  <2>1. /\ numLocals[fn] \in Nat /\ Top(top) \in Int /\ rsp + numLocals[fn] <= Top(top)
        /\ \A i \in StackArgs(fn) :
              LET a == rsp + numLocals[fn] + (numArgs[fn] - i)
              IN  a \in Int /\ rsp + numLocals[fn] <= a
    BY <1>3, <1>4, Layout
  <2>2. j \in Nat /\ j < numLocals[fn]
    BY <2>1 DEF Slots
  <2>3. \A d \in 1 .. Depth : Top(frames[d]) <= -7
    BY DEF IInv, Ordered
  <2>4. Top(top) <= -7
    BY <1>4, <2>3 DEF top
  <2>. QED BY <1>3, <1>4, <2>1, <2>2, <2>4
<1>11. /\ At(mem', rsp + j, v)
       /\ \A a \in Int : a # rsp + j /\ a \in DOMAIN mem => a \in DOMAIN mem' /\ mem'[a] = mem[a]
  <2>1. At(Write(rsp + j, v), rsp + j, v)
    BY WriteOne
  <2>2. \A a \in DOMAIN mem \ {rsp + j} :
           a \in DOMAIN Write(rsp + j, v) /\ Write(rsp + j, v)[a] = mem[a]
    BY WriteOne
  <2>. QED BY <1>2, <2>1, <2>2
<1>12. Stored(new, mem')
  <2>1. Stored(top, mem)
    BY <1>4 DEF IInv, FramesStored, top
  <2>2. ASSUME NEW k \in Slots(new.fn), new.locals[k] # unset
        PROVE  At(mem', new.sp + k, new.locals[k])
    <3>1. k \in Int /\ new.sp + k = rsp + k /\ rsp \in Int /\ k \in Slots(top.fn)
      BY <1>3, <1>4, <1>6, <1>10 DEF Slots
    <3>2. CASE k = j
      <4>1. new.locals[k] = v
        BY <1>3, <1>4, <1>6, <3>1, <3>2
      <4>. QED BY <1>11, <3>1, <3>2, <4>1
    <3>3. CASE k # j
      <4>1. new.locals[k] = top.locals[k]
        BY <1>6, <3>3, <2>2
      <4>2. At(mem, rsp + k, top.locals[k])
        BY <1>3, <2>1, <2>2, <3>1, <4>1 DEF Stored
      <4>3. rsp + k \in Int /\ rsp + k # rsp + j
        BY <1>10, <3>1, <3>3
      <4>. QED BY <1>11, <3>1, <4>1, <4>2, <4>3 DEF At
    <3>. QED BY <3>2, <3>3
  <2>3. ASSUME NEW i \in StackArgs(new.fn)
        PROVE  At(mem', new.sp + numLocals[new.fn] + (numArgs[new.fn] - i), new.args[i])
    <3>1. At(mem, rsp + numLocals[fn] + (numArgs[fn] - i), top.args[i])
      BY <1>3, <1>6, <2>1 DEF Stored
    <3>2. /\ rsp + numLocals[fn] + (numArgs[fn] - i) \in Int
          /\ rsp + numLocals[fn] + (numArgs[fn] - i) # rsp + j
      BY <1>3, <1>6, <1>10
    <3>. QED BY <1>3, <1>6, <1>11, <3>1, <3>2 DEF At
  <2>4. At(mem', Top(new), new.site)
    <3>1. Top(new) = Top(top)
      BY <1>6 DEF Top
    <3>. QED BY <1>6, <1>10, <1>11, <2>1, <3>1 DEF At, Stored
  <2>. QED BY <2>2, <2>3, <2>4 DEF Stored
<1>13. FramesStored'
  <2>1. ASSUME NEW d \in 1 .. Depth, d # Depth
        PROVE  Stored(frames'[d], mem')
    <3>1. frames'[d] = frames[d] /\ frames[d] \in FrameSet
      BY <1>4, <1>7, <2>1
    <3>2. d < Depth
      BY <1>4, <2>1
    <3>3. Top(top) < frames[d].sp
      BY <2>1, <3>2, LastIsLowest
    <3>. Top(top) <= frames[d].sp
      BY <1>10, <3>1, <3>3 DEF FrameSet
    <3>4. \A a \in Int : a >= Top(top) /\ a \in DOMAIN mem => a \in DOMAIN mem' /\ mem'[a] = mem[a]
      BY <1>10, <1>11
    <3>5. Stored(frames[d], mem)
      BY DEF IInv, FramesStored
    <3>. QED BY <1>10, <3>1, <3>3, <3>4, <3>5, StoredKept
  <2>. QED BY <1>7, <1>12, <2>1 DEF FramesStored
<1>14. Types'
  <2>1. TypeOK'
    <3>1. DOMAIN mem' = DOMAIN mem \cup {rsp + j}
      BY <1>2, WriteOne
    <3>2. DOMAIN frames' = 1 .. Depth' /\ frames' # <<>>
      BY <1>4, <1>7 DEF Depth
    <3>. QED BY <1>1, <1>3, <1>10, <3>1, <3>2 DEF TypeOK, Types
  <2>2. \A d \in 1 .. Depth' : DOMAIN frames'[d].locals = Slots(frames'[d].fn)
    BY <1>6, <1>7, <1>3 DEF Types
  <2>. QED BY <1>1, <1>3, <1>7, <2>1, <2>2 DEF Types
<1>15. Adjacent' /\ Ordered'
  <2>1. ASSUME NEW d \in 1 .. Depth - 1
        PROVE  /\ Top(frames'[d + 1]) + 1 = frames'[d].sp
               /\ frames'[d + 1].site \in Sites
               /\ caller[frames'[d + 1].site] = frames'[d].fn
    <3>1. d \in 1 .. Depth /\ d + 1 \in 1 .. Depth
      BY <1>4
    <3>. QED BY <1>9, <3>1 DEF IInv, Adjacent
  <2>2. frames'[1].site = goSite /\ Top(frames'[1]) = -7
    BY <1>3, <1>4, <1>9 DEF IInv, Adjacent
  <2>3. Adjacent'
    BY <1>7, <2>1, <2>2 DEF Adjacent
  <2>4. Ordered'
    BY <1>7, <1>9 DEF IInv, Ordered
  <2>. QED BY <2>3, <2>4
<1>16. Position'
  BY <1>1, <1>3, <1>6, <1>7, <1>8 DEF Position, InFunction
<1>17. PassedSoFar'
  BY <1>1 DEF IInv, PassedSoFar
<1>18. GoIsSafe'
  <2>1. Saved(mem)
    BY <1>1 DEF IInv, GoIsSafe
  <2>. QED BY <1>1, <1>10, <1>11, <2>1 DEF GoIsSafe, Saved, At
<1>. QED BY <1>13, <1>14, <1>15, <1>16, <1>17, <1>18 DEF IInv
(* Steps that change memory below rsp only.                                *)
LEMMA BelowKeeps ==
    ASSUME IInv, InFunction, InFunction', UNCHANGED <<rsp, fn, restored, frames>>,
           DOMAIN mem' \subseteq Int,
           \A a \in Int : a >= rsp /\ a \in DOMAIN mem => a \in DOMAIN mem' /\ mem'[a] = mem[a]
    PROVE  /\ FramesStored' /\ Adjacent' /\ Ordered' /\ Position' /\ GoIsSafe'
           /\ rsp \in Int /\ rsp = top.sp
<1>1. /\ Types /\ frames # <<>> /\ rsp = top.sp /\ fn = top.fn /\ at # "main"
      /\ rsp \in Int /\ Depth' = Depth /\ top' = top
  BY DEF IInv, Types, TypeOK, Position, InFunction, Depth, top
<1>2. (\A d \in 1 .. Depth : Stored(frames[d], mem')) /\ Saved(mem')
  BY <1>1, KeptAbove
<1>3. FramesStored' /\ GoIsSafe'
  BY <1>1, <1>2 DEF FramesStored, GoIsSafe, InFunction
<1>4. Adjacent' /\ Ordered'
  BY <1>1 DEF IInv, Adjacent, Ordered
<1>5. Position'
  BY <1>1 DEF Position, InFunction
<1>. QED BY <1>1, <1>3, <1>4, <1>5

LEMMA CallRuntimeKeeps == IInv /\ CallRuntime => IInv'
<1>. SUFFICES ASSUME IInv, CallRuntime PROVE IInv'
  OBVIOUS
<1>1. /\ at = "body" /\ UNCHANGED <<rsp, fn, at, call, passed, restored, frames>>
      /\ Depth' = Depth
      /\ mem' = [a \in {b \in DOMAIN mem : b >= rsp} |-> mem[a]]
  BY DEF CallRuntime, Depth
<1>2. DOMAIN mem' \subseteq Int
  BY <1>1 DEF IInv, Types, TypeOK
<1>3. FramesStored' /\ Adjacent' /\ Ordered' /\ Position' /\ GoIsSafe'
  BY <1>1, <1>2, BelowKeeps DEF InFunction
<1>4. Types'
  BY <1>1, <1>2 DEF IInv, Types, TypeOK
<1>5. PassedSoFar'
  BY <1>1 DEF IInv, PassedSoFar
<1>. QED BY <1>3, <1>4, <1>5 DEF IInv

LEMMA PassArgKeeps == IInv /\ PassArg => IInv'
<1>. SUFFICES ASSUME IInv, PassArg PROVE IInv'
  OBVIOUS
<1>. DEFINE a == rsp - (passed + 1 - 5)
            v == call.args[passed + 1]
<1>1. /\ at = "setup" /\ UNCHANGED <<rsp, fn, at, call, restored, frames>>
      /\ mem' = Write(a, v) /\ passed' = passed + 1 /\ Depth' = Depth
  BY DEF PassArg, Depth
<1>2. /\ passed \in Nat /\ passed >= 6 /\ rsp \in Int /\ DOMAIN mem \subseteq Int
  BY <1>1 DEF IInv, Types, TypeOK, PassedSoFar
<1>3. a \in Int /\ a < rsp
  BY <1>2
<1>4. DOMAIN Write(a, v) = DOMAIN mem \cup {a} /\ At(Write(a, v), a, v)
  BY WriteOne
<1>5. \A b \in DOMAIN mem \ {a} : b \in DOMAIN Write(a, v) /\ Write(a, v)[b] = mem[b]
  BY WriteOne
<1>6. DOMAIN mem' \subseteq Int /\ At(mem', a, v)
  BY <1>1, <1>2, <1>3, <1>4
<1>7. \A b \in Int : b # a /\ b \in DOMAIN mem => b \in DOMAIN mem' /\ mem'[b] = mem[b]
  BY <1>1, <1>5
<1>8. FramesStored' /\ Adjacent' /\ Ordered' /\ Position' /\ GoIsSafe'
  <2>1. \A b \in Int : b >= rsp /\ b \in DOMAIN mem => b \in DOMAIN mem' /\ mem'[b] = mem[b]
    BY <1>2, <1>3, <1>7
  <2>. QED BY <1>1, <1>6, <2>1, BelowKeeps DEF InFunction
<1>9. Types'
  BY <1>1, <1>2, <1>6 DEF IInv, Types, TypeOK
<1>10. PassedSoFar'
  <2>1. ASSUME NEW i \in 7 .. passed + 1
        PROVE  At(mem', rsp - (i - 5), call.args[i])
    <3>1. CASE i = passed + 1
      <4>1. rsp - (i - 5) = a /\ call.args[i] = v
        BY <1>2, <3>1
      <4>. QED BY <1>6, <4>1
    <3>2. CASE i # passed + 1
      <4>1. i \in 7 .. passed /\ rsp - (i - 5) \in Int /\ rsp - (i - 5) # a
        BY <1>2, <3>2
      <4>2. At(mem, rsp - (i - 5), call.args[i])
        BY <1>1, <4>1 DEF IInv, PassedSoFar
      <4>. QED BY <1>7, <4>1, <4>2 DEF At
    <3>. QED BY <3>1, <3>2
  <2>2. passed + 1 >= 6
    BY <1>2
  <2>. QED BY <1>1, <2>1, <2>2 DEF IInv, PassedSoFar
<1>. QED BY <1>8, <1>9, <1>10 DEF IInv

LEMMA PassReturnLabelKeeps == IInv /\ PassReturnLabel => IInv'
<1>. SUFFICES ASSUME IInv, PassReturnLabel PROVE IInv'
  OBVIOUS
<1>. DEFINE a == rsp - 1
            v == call.site
<1>1. /\ at = "setup" /\ at' = "jump" /\ passed >= numArgs[call.fn]
      /\ UNCHANGED <<rsp, fn, call, passed, restored, frames>>
      /\ mem' = Write(a, v) /\ Depth' = Depth
  BY DEF PassReturnLabel, Depth
<1>2. /\ passed \in Nat /\ rsp \in Int /\ DOMAIN mem \subseteq Int
      /\ numArgs[call.fn] \in Nat
  BY <1>1, Header DEF IInv, Types, TypeOK
<1>3. a \in Int /\ a < rsp
  BY <1>2
<1>4. DOMAIN Write(a, v) = DOMAIN mem \cup {a} /\ At(Write(a, v), a, v)
  BY WriteOne
<1>5. \A b \in DOMAIN mem \ {a} : b \in DOMAIN Write(a, v) /\ Write(a, v)[b] = mem[b]
  BY WriteOne
<1>6. DOMAIN mem' \subseteq Int /\ At(mem', a, v)
  BY <1>1, <1>2, <1>3, <1>4
<1>7. \A b \in Int : b # a /\ b \in DOMAIN mem => b \in DOMAIN mem' /\ mem'[b] = mem[b]
  BY <1>1, <1>5
<1>8. FramesStored' /\ Adjacent' /\ Ordered' /\ Position' /\ GoIsSafe'
  <2>1. \A b \in Int : b >= rsp /\ b \in DOMAIN mem => b \in DOMAIN mem' /\ mem'[b] = mem[b]
    BY <1>2, <1>3, <1>7
  <2>. QED BY <1>1, <1>6, <2>1, BelowKeeps DEF InFunction
<1>9. Types'
  BY <1>1, <1>6 DEF IInv, Types, TypeOK
<1>10. PassedSoFar'
  <2>1. ASSUME NEW i \in StackArgs(call.fn)
        PROVE  At(mem', rsp - (i - 5), call.args[i])
    <3>1. i \in 7 .. passed /\ rsp - (i - 5) \in Int /\ rsp - (i - 5) # a
      BY <1>1, <1>2 DEF StackArgs
    <3>2. At(mem, rsp - (i - 5), call.args[i])
      BY <1>1, <3>1 DEF IInv, PassedSoFar
    <3>. QED BY <1>7, <3>1, <3>2 DEF At
  <2>. QED BY <1>1, <1>6, <2>1 DEF IInv, PassedSoFar
<1>. QED BY <1>8, <1>9, <1>10 DEF IInv
-----------------------------------------------------------------------------
(* The frame of a called function is below that of the caller.             *)
LEMMA CallInstructionKeeps == IInv /\ CallInstruction => IInv'
<1>. SUFFICES ASSUME IInv, CallInstruction PROVE IInv'
  OBVIOUS
<1>. DEFINE g == call.fn
            n == callFrame(numArgs[g])
            new == Frame(g, call.args, call.site, rsp' - numLocals[g])
<1>1. /\ at = "jump" /\ at' = "prologue" /\ rsp' = rsp - n /\ fn' = g
      /\ frames' = Append(frames, new)
      /\ UNCHANGED <<mem, call, passed, restored>>
  BY DEF CallInstruction
<1>2. /\ Types /\ frames # <<>> /\ rsp = top.sp /\ fn = top.fn /\ rsp \in Int
      /\ g \in Functions /\ call.site \in Sites /\ caller[call.site] = fn
  BY <1>1 DEF IInv, Types, TypeOK, Position, InFunction, PassedSoFar
<1>3. /\ Depth \in Nat \ {0} /\ Depth \in 1 .. Depth
      /\ top \in FrameSet /\ \A d \in 1 .. Depth : frames[d] \in FrameSet
  BY <1>2, TopFrame
<1>4. /\ numArgs[g] \in Nat /\ numLocals[g] \in Nat /\ n \in Nat \ {0}
      /\ numArgs[g] > 6 => n = numArgs[g] - 5
  BY <1>2, Header
<1>5. rsp' \in Int /\ rsp' - numLocals[g] \in Int
  BY <1>1, <1>2, <1>4
<1>6. /\ new.fn = g /\ new.args = call.args /\ new.site = call.site
      /\ new.sp = rsp' - numLocals[g] /\ new.locals = [j \in Slots(g) |-> unset]
  BY DEF Frame
<1>7. new \in FrameSet /\ DOMAIN new.locals = Slots(new.fn)
  <2>1. [j \in Slots(g) |-> unset] \in [Slots(g) -> Values \cup {unset}]
    OBVIOUS
  <2>2. [j \in Slots(g) |-> unset] \in Locals
    BY <1>2, <2>1 DEF Locals
  <2>3. call.args \in Args /\ call.site \in Sites \cup {goSite}
    BY <1>2 DEF Types
  <2>. QED BY <1>2, <1>5, <1>6, <2>2, <2>3 DEF FrameSet, Frame
<1>8. Top(new) = rsp - 1
  <2>1. Top(new) = rsp' - numLocals[g] + numLocals[g] + n - 1
    BY <1>6 DEF Top
  <2>2. rsp' - numLocals[g] + numLocals[g] = rsp'
    BY <1>4, <1>5
  <2>3. rsp' + n - 1 = rsp - 1
    BY <1>1, <1>2, <1>4
  <2>. QED BY <2>1, <2>2, <2>3
<1>9. /\ frames' \in Seq(FrameSet) /\ Depth' = Depth + 1
      /\ \A d \in 1 .. Depth : frames'[d] = frames[d]
      /\ frames'[Depth + 1] = new
  BY <1>1, <1>2, <1>7 DEF Types, Depth
<1>10. top' = new
  BY <1>9 DEF top
<1>11. Stored(new, mem)
  <2>1. \A j \in Slots(new.fn) : new.locals[j] = unset
    BY <1>6
  <2>2. ASSUME NEW i \in StackArgs(new.fn)
        PROVE  At(mem, new.sp + numLocals[new.fn] + (numArgs[new.fn] - i), new.args[i])
    <3>1. At(mem, rsp - (i - 5), call.args[i])
      BY <1>1, <1>6, <2>2 DEF IInv, PassedSoFar
    <3>2. i \in Int /\ numArgs[g] > 6
      BY <1>4, <1>6 DEF StackArgs
    <3>3. new.sp + numLocals[new.fn] + (numArgs[new.fn] - i) = rsp - (i - 5)
      <4>1. new.sp + numLocals[new.fn] + (numArgs[new.fn] - i)
               = rsp' - numLocals[g] + numLocals[g] + (numArgs[g] - i)
        BY <1>6
      <4>2. rsp' - numLocals[g] + numLocals[g] = rsp'
        BY <1>4, <1>5
      <4>3. rsp' = rsp - (numArgs[g] - 5)
        BY <1>1, <1>4, <3>2
      <4>4. \A r, k, l \in Int : r - (k - 5) + (k - l) = r - (l - 5)
        OBVIOUS
      <4>5. rsp' + (numArgs[g] - i) = rsp - (i - 5)
        <5>1. rsp \in Int /\ numArgs[g] \in Int /\ i \in Int
          BY <1>2, <1>4, <3>2
        <5>. QED BY <4>3, <4>4, <5>1
      <4>. QED BY <4>1, <4>2, <4>5
    <3>. QED BY <1>6, <3>1, <3>3
  <2>3. At(mem, Top(new), new.site)
    BY <1>1, <1>6, <1>8 DEF IInv, PassedSoFar
  <2>. QED BY <2>1, <2>2, <2>3 DEF Stored
<1>12. FramesStored'
  <2>1. \A d \in 1 .. Depth + 1 : d \in 1 .. Depth \/ d = Depth + 1
    BY <1>3
  <2>. QED BY <1>1, <1>9, <1>11, <2>1 DEF IInv, FramesStored
<1>13. Types'
  <2>1. TypeOK'
    <3>1. DOMAIN frames' = 1 .. Depth' /\ frames' # <<>>
      BY <1>3, <1>9 DEF Depth
    <3>. QED BY <1>1, <1>2, <1>5, <3>1 DEF Types, TypeOK
  <2>2. \A d \in 1 .. Depth' : DOMAIN frames'[d].locals = Slots(frames'[d].fn)
    <3>1. \A d \in 1 .. Depth + 1 : d \in 1 .. Depth \/ d = Depth + 1
      BY <1>3
    <3>. QED BY <1>2, <1>7, <1>9, <3>1 DEF Types
  <2>. QED BY <1>1, <1>2, <1>9, <2>1, <2>2 DEF Types
<1>14. Adjacent'
  <2>1. ASSUME NEW d \in 1 .. Depth
        PROVE  /\ Top(frames'[d + 1]) + 1 = frames'[d].sp
               /\ frames'[d + 1].site \in Sites
               /\ caller[frames'[d + 1].site] = frames'[d].fn
    <3>1. CASE d = Depth
      <4>1. frames'[d + 1] = new /\ frames'[d] = top
        BY <1>9, <3>1 DEF top
      <4>. QED BY <1>2, <1>6, <1>8, <4>1
    <3>2. CASE d # Depth
      <4>1. d \in 1 .. Depth - 1 /\ d + 1 \in 1 .. Depth
        BY <1>3, <3>2
      <4>. QED BY <1>9, <4>1 DEF IInv, Adjacent
    <3>. QED BY <3>1, <3>2
  <2>2. frames'[1].site = goSite /\ Top(frames'[1]) = -7
    BY <1>2, <1>3, <1>9 DEF IInv, Adjacent
  <2>3. Depth' - 1 = Depth
    BY <1>3, <1>9
  <2>. QED BY <2>1, <2>2, <2>3 DEF Adjacent
<1>15. Ordered'
  <2>1. Top(new) < top.sp /\ Top(new) <= -7
    <3>1. top.sp <= Top(top)
      BY <1>3, LastIsLowest
    <3>2. Top(top) <= -7
      BY <1>3 DEF IInv, Ordered, top
    <3>3. Top(top) \in Int
      BY <1>3, Layout
    <3>. QED BY <1>2, <1>8, <3>1, <3>2, <3>3
  <2>2. ASSUME NEW c \in 1 .. Depth
        PROVE  Top(new) < frames[c].sp
    <3>1. top.sp <= frames[c].sp /\ frames[c].sp \in Int /\ Top(new) \in Int /\ top.sp \in Int
      BY <1>2, <1>3, <1>8, LastIsLowest DEF FrameSet
    <3>. QED BY <2>1, <3>1
  <2>3. ASSUME NEW c \in 1 .. Depth + 1, NEW d \in 1 .. Depth + 1, c < d
        PROVE  Top(frames'[d]) < frames'[c].sp
    <3>1. c \in 1 .. Depth
      BY <1>3, <2>3
    <3>2. CASE d = Depth + 1
      BY <1>9, <2>2, <3>1, <3>2
    <3>3. CASE d # Depth + 1
      <4>1. d \in 1 .. Depth
        BY <1>3, <3>3
      <4>. QED BY <1>9, <2>3, <3>1, <4>1 DEF IInv, Ordered
    <3>. QED BY <3>2, <3>3
  <2>4. ASSUME NEW d \in 1 .. Depth + 1
        PROVE  Top(frames'[d]) <= -7
    <3>1. d \in 1 .. Depth \/ d = Depth + 1
      BY <1>3
    <3>. QED BY <1>9, <2>1, <3>1 DEF IInv, Ordered
  <2>. QED BY <1>9, <2>3, <2>4 DEF Ordered
<1>16. Position'
  <2>1. rsp' = new.sp + numLocals[g]
    BY <1>4, <1>5, <1>6
  <2>. QED BY <1>1, <1>6, <1>10, <2>1 DEF Position, InFunction
<1>17. PassedSoFar' /\ GoIsSafe'
  BY <1>1 DEF IInv, PassedSoFar, GoIsSafe
<1>. QED BY <1>12, <1>13, <1>14, <1>15, <1>16, <1>17 DEF IInv
(* A return removes the frame and finds its caller's rsp.                  *)
LEMMA ReturnKeeps == IInv /\ Return => IInv'
<1>. SUFFICES ASSUME IInv, Return PROVE IInv'
  OBVIOUS
<1>1. /\ at = "return" /\ UNCHANGED <<mem, call, passed, restored>>
      /\ rsp' = rsp + 1 /\ frames' = SubSeq(frames, 1, Depth - 1)
      /\ \/ mem[rsp] = goSite /\ at' = "go" /\ UNCHANGED fn
         \/ mem[rsp] \in Sites /\ at' = "body" /\ fn' = caller[mem[rsp]]
  BY DEF Return
<1>2. Types /\ frames # <<>> /\ rsp = Top(top) /\ rsp \in Int /\ fn \in Functions
  BY <1>1 DEF IInv, Types, TypeOK, Position
<1>3. /\ Depth \in Nat \ {0} /\ Depth \in 1 .. Depth
      /\ \A d \in 1 .. Depth : frames[d] \in FrameSet
  BY <1>2, TopFrame
<1>4. mem[rsp] = top.site
  BY <1>2, <1>3 DEF IInv, FramesStored, Stored, At, top
<1>5. /\ frames' \in Seq(FrameSet) /\ Depth' = Depth - 1
      /\ \A d \in 1 .. Depth - 1 : frames'[d] = frames[d]
      /\ DOMAIN frames' = 1 .. Depth'
  <2>1. frames \in Seq(FrameSet) /\ Len(frames) > 0
    BY <1>2, <1>3 DEF Types, Depth
  <2>2. frames' = SubSeq(frames, 1, Len(frames) - 1)
    BY <1>1 DEF Depth
  <2>3. /\ frames' \in Seq(FrameSet) /\ Len(frames') = Len(frames) - 1
        /\ \A d \in 1 .. Len(frames) - 1 : frames'[d] = frames[d]
    BY <2>1, <2>2, WithoutLast
  <2>4. DOMAIN frames' = 1 .. Len(frames')
    BY <2>3
  <2>. QED BY <2>3, <2>4 DEF Depth
<1>6. FramesStored'
  <2>1. \A d \in 1 .. Depth - 1 : d \in 1 .. Depth
    BY <1>3
  <2>. QED BY <1>1, <1>5, <2>1 DEF IInv, FramesStored
<1>7. Adjacent' /\ Ordered'
  <2>1. \A d \in 1 .. Depth - 2 : d \in 1 .. Depth - 1 /\ d + 1 \in 1 .. Depth - 1
    BY <1>3
  <2>2. frames' # <<>> => 1 \in 1 .. Depth - 1
    BY <1>3, <1>5
  <2>3. Depth' - 1 = Depth - 2
    BY <1>3, <1>5
  <2>4. \A d \in 1 .. Depth - 1 : d \in 1 .. Depth
    BY <1>3
  <2>5. Adjacent'
    BY <1>2, <1>5, <2>1, <2>2, <2>3 DEF IInv, Adjacent
  <2>6. Ordered'
    BY <1>5, <2>4 DEF IInv, Ordered
  <2>. QED BY <2>5, <2>6
<1>8. \A d \in 1 .. Depth' : DOMAIN frames'[d].locals = Slots(frames'[d].fn)
  <2>1. \A d \in 1 .. Depth - 1 : d \in 1 .. Depth
    BY <1>3
  <2>. QED BY <1>2, <1>5, <2>1 DEF Types
<1>9. GoIsSafe'
  BY <1>1 DEF IInv, GoIsSafe
<1>10. CASE Depth = 1
  <2>1. mem[rsp] = goSite /\ rsp = -7
    BY <1>2, <1>4, <1>10 DEF IInv, Adjacent, top
  <2>2. at' = "go" /\ fn' = fn /\ frames' = <<>> /\ rsp' = -6
    BY <1>1, <1>5, <1>10, <2>1, SitesAssumption
  <2>3. Types'
    BY <1>1, <1>2, <1>5, <1>8, <2>2 DEF Types, TypeOK
  <2>4. Position'
    BY <2>2 DEF Position, InFunction
  <2>5. PassedSoFar'
    BY <2>2 DEF PassedSoFar
  <2>. QED BY <1>6, <1>7, <1>9, <2>3, <2>4, <2>5 DEF IInv
<1>11. CASE Depth # 1
  <2>. DEFINE d == Depth - 1
  <2>1. d \in 1 .. Depth - 1 /\ d \in 1 .. Depth /\ d + 1 = Depth
    BY <1>3, <1>11
  <2>2. /\ Top(top) + 1 = frames[d].sp /\ top.site \in Sites
        /\ caller[top.site] = frames[d].fn
    BY <2>1 DEF IInv, Adjacent, top
  <2>3. at' = "body" /\ fn' = frames[d].fn
    BY <1>1, <1>4, <2>2, SitesAssumption
  <2>4. top' = frames[d] /\ frames' # <<>> /\ fn' \in Functions
    BY <1>3, <1>5, <2>1, <2>3 DEF top, FrameSet
  <2>5. rsp' \in Int /\ rsp' = top'.sp
    BY <1>1, <1>2, <2>2, <2>4
  <2>6. Types'
    BY <1>1, <1>2, <1>5, <1>8, <2>3, <2>4, <2>5 DEF Types, TypeOK
  <2>7. Position'
    BY <2>3, <2>4, <2>5 DEF Position, InFunction
  <2>8. PassedSoFar'
    BY <2>3 DEF PassedSoFar
  <2>. QED BY <1>6, <1>7, <1>9, <2>6, <2>7, <2>8 DEF IInv
<1>. QED BY <1>10, <1>11

-----------------------------------------------------------------------------
THEOREM Inductive == Spec => []IInv
<1>1. IInv /\ [Next]_vars => IInv'
  <2>. SUFFICES ASSUME IInv, [Next]_vars PROVE IInv'
    OBVIOUS
  <2>1. CASE UNCHANGED vars
    <3>1. UNCHANGED <<mem, rsp, fn, at, call, passed, restored, frames>> /\ Depth' = Depth /\ top' = top
      BY <2>1 DEF vars, Depth, top
    <3>2. Types' /\ FramesStored' /\ Adjacent' /\ Ordered'
      BY <3>1 DEF IInv, Types, TypeOK, FramesStored, Adjacent, Ordered
    <3>3. Position' /\ PassedSoFar' /\ GoIsSafe'
      BY <3>1 DEF IInv, Position, InFunction, PassedSoFar, GoIsSafe
    <3>. QED BY <3>2, <3>3 DEF IInv
  <2>. QED
    BY <2>1, GoKeeps, PrologueKeeps, SpillStoreKeeps, CallRuntimeKeeps, BeginCallKeeps,
       PassArgKeeps, PassReturnLabelKeeps, CallInstructionKeeps, EpilogueKeeps,
       ReturnKeeps, GoReturnsKeeps DEF Next
<1>. QED BY InitIInv, <1>1, PTL DEF Spec

(* Every reachable state is type-correct.                                  *)
THEOREM TypeCorrect == Spec => []TypeOK
<1>1. IInv => TypeOK
  BY DEF IInv, Types
<1>. QED BY Inductive, <1>1, PTL

(* The arguments L3 stores below rsp are where L2 reads them, for all      *)
(* numbers of parameters and of spilled variables.                         *)
THEOREM ArgumentsAlwaysArrive == Spec => []ArgumentsArrive
<1>1. IInv => ArgumentsArrive
  <2>. SUFFICES ASSUME IInv, InFunction PROVE ArgumentsArrive
    BY DEF ArgumentsArrive
  <2>1. Types /\ frames # <<>> /\ rsp = top.sp /\ fn = top.fn
    BY DEF IInv, Types, TypeOK, Position, InFunction
  <2>2. Stored(top, mem)
    BY <2>1, TopFrame DEF IInv, FramesStored, top
  <2>. QED BY <2>1, <2>2 DEF ArgumentsArrive, ArgumentAt, stackArg, Stored, At, Holds
<1>. QED BY Inductive, <1>1, PTL

(* No call, however deep it nests, changes a spilled variable of its       *)
(* caller.                                                                 *)
THEOREM LocalsAlwaysSurvive == Spec => []LocalsSurvive
<1>1. IInv => LocalsSurvive
  <2>. SUFFICES ASSUME IInv, InFunction PROVE LocalsSurvive
    BY DEF LocalsSurvive
  <2>1. Types /\ frames # <<>> /\ rsp = top.sp /\ fn = top.fn
    BY DEF IInv, Types, TypeOK, Position, InFunction
  <2>2. Stored(top, mem)
    BY <2>1, TopFrame DEF IInv, FramesStored, top
  <2>. QED BY <2>1, <2>2 DEF LocalsSurvive, Stored, At, Holds
<1>. QED BY Inductive, <1>1, PTL

(* Calls return to where they were made, with rsp as it was, and go        *)
(* returns with the registers it was entered with.                         *)
THEOREM AlwaysBalanced == Spec => []StackIsBalanced
<1>1. IInv => StackIsBalanced
  <2>. SUFFICES ASSUME IInv PROVE StackIsBalanced
    OBVIOUS
  <2>1. InFunction => rsp = top.sp /\ fn = top.fn
    BY DEF IInv, Position
  <2>2. ASSUME at = "return" PROVE Holds(rsp, top.site)
    <3>1. Types /\ frames # <<>> /\ rsp = Top(top)
      BY <2>2 DEF IInv, Types, TypeOK, Position
    <3>2. Stored(top, mem)
      BY <3>1, TopFrame DEF IInv, FramesStored, top
    <3>. QED BY <3>1, <3>2 DEF Stored, At, Holds
  <2>3. at = "main" /\ restored # <<>> =>
           rsp = 0 /\ Holds(rsp, main) /\ \A k \in 1 .. 6 : restored[k] = k
    BY DEF IInv, GoIsSafe, At, Holds
  <2>. QED BY <2>1, <2>2, <2>3 DEF StackIsBalanced
<1>. QED BY Inductive, <1>1, PTL
=============================================================================
