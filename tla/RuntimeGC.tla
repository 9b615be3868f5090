------------------------------ MODULE RuntimeGC ------------------------------
(***************************************************************************)
(* The heap of the compiled program (lib/runtime.c): allocate_helper, gc   *)
(* and gc_copy, a collector that copies what the stack can reach from one  *)
(* heap into the other.  gc_copy is recursive; its activations are the     *)
(* sequence calls, and each word it copies is a step.                      *)
(*                                                                         *)
(* The compiled program is the environment: it moves words between its     *)
(* stack slots and the objects they point to, and it pushes and pops       *)
(* slots.  A slot that is pushed holds whatever was there before, possibly *)
(* a pointer that several collections have left behind; the collector      *)
(* scans it like any other, the program does not read it before it has     *)
(* written it.                                                             *)
(***************************************************************************)
EXTENDS Integers, Sequences, FiniteSets

CONSTANTS
    HeapSize,   \* HEAP_SIZE, in words
    NumSlots,   \* bound on the depth of the stack
    MaxSize     \* bound on the size of an object

ASSUME BoundsAssumption ==
    HeapSize \in Nat /\ NumSlots \in Nat \ {0} /\ MaxSize \in Nat

Heaps == {0, 1}
Slots == 1 .. NumSlots

(* A word is a pointer to a word of a heap, or a number: an encoded        *)
(* integer, the size of an object, or the mark -1 of a moved one.          *)
Number(n)     == [h |-> -1, i |-> n]
Pointer(h, i) == [h |-> h, i |-> i]
Words         == [h : Heaps \cup {-1}, i : Int]

VARIABLES
    cur,      \* which heap is heap; the other one is heap2
    data,     \* the words allocated in each heap
    valid,    \* the indices whose valid mark is set, of each heap
    stack,    \* the slots, those above sp included
    sp,       \* the number of slots in use
    live,     \* the slots the program has written since they were pushed
    request,  \* the arguments of allocate
    calls,    \* the activations of gc_copy
    root,     \* the stack slot gc is at
    before,   \* history: the words, the stack and fw_fill a collection found
    pc        \* "program", "allocate", "roots", "fill", "retry" or "exit"

memory == <<cur, data, valid>>
vars == <<memory, stack, sp, live, request, calls, root, before, pc>>

NoRequest  == [size |-> 0, fill |-> Number(1)]
NoSnapshot == [data |-> <<>>, stack |-> <<>>, fill |-> Number(1)]

(* The validity maps come from malloc and are never cleared.  The marks of *)
(* words that are not allocated are whatever was left there; the worst     *)
(* case, all marks set, stands for it.                                     *)
Init ==
    /\ cur = 0
    /\ data = [h \in Heaps |-> <<>>]
    /\ valid = [h \in Heaps |-> 1 .. HeapSize]
    /\ stack = [s \in Slots |-> Number(1)]
    /\ sp = 1 /\ live = {1}
    /\ request = NoRequest
    /\ calls = <<>> /\ root = 0 /\ before = NoSnapshot
    /\ pc = "program"

-----------------------------------------------------------------------------
(* Objects.                                                                *)

(* An object of size zero has room for a forwarding pointer all the same.  *)
Extent(size) == IF size = 0 THEN 2 ELSE size + 1

(* words_allocated is the length of the sequence: what lies beyond it is   *)
(* not part of the state.                                                  *)
WordsAllocated(h) == Len(data[h])

IsObject(h, w) == w.h = h /\ w.i \in 1 .. WordsAllocated(h) /\ w.i \in valid[h]

FieldsOf(h, w) == {data[h][w.i + f] : f \in 1 .. data[h][w.i].i}

-----------------------------------------------------------------------------
(* The compiled program.                                                   *)

LiveObjects == {s \in live : IsObject(cur, stack[s])}

(* What it can read: its slots and the fields of the objects they hold.    *)
Readable ==
    {Number(1)} \cup {stack[s] : s \in live}
    \cup UNION {FieldsOf(cur, stack[s]) : s \in LiveObjects}

Assign ==
    /\ pc = "program"
    /\ \E s \in 1 .. sp, w \in Readable :
         /\ stack' = [stack EXCEPT ![s] = w]
         /\ live' = live \cup {s}
    /\ UNCHANGED <<memory, sp, request, calls, root, before, pc>>

StoreField ==
    /\ pc = "program"
    /\ \E s \in LiveObjects, w \in Readable :
         \E f \in 1 .. data[cur][stack[s].i].i :
             data' = [data EXCEPT ![cur][stack[s].i + f] = w]
    /\ UNCHANGED <<cur, valid, stack, sp, live, request, calls, root, before, pc>>

Push ==
    /\ pc = "program" /\ sp < NumSlots
    /\ sp' = sp + 1
    /\ UNCHANGED <<memory, stack, live, request, calls, root, before, pc>>

Pop ==
    /\ pc = "program" /\ sp > 1
    /\ sp' = sp - 1
    /\ live' = live \ {sp}
    /\ UNCHANGED <<memory, stack, request, calls, root, before, pc>>

(* A size of -1 stands for the negative and the unencoded ones.            *)
CallAllocate ==
    /\ pc = "program"
    /\ \E size \in -1 .. MaxSize, w \in Readable :
         request' = [size |-> size, fill |-> w]
    /\ pc' = "allocate"
    /\ UNCHANGED <<memory, stack, sp, live, calls, root, before>>

-----------------------------------------------------------------------------
(* allocate_helper.                                                        *)

Reject ==
    /\ pc = "allocate" /\ request.size < 0
    /\ pc' = "exit"
    /\ UNCHANGED <<memory, stack, sp, live, request, calls, root, before>>

HasRoomForHeader == WordsAllocated(cur) < HeapSize \* variant

HasRoom == WordsAllocated(cur) + Extent(request.size) < HeapSize

(* The object is filled with the fill value; one of size zero gets a       *)
(* number, so that the collector never looks at an old word.  The program  *)
(* has the result in the slot on top.  heap2 is not looked at before it is *)
(* emptied by the next collection, so its words are dropped here.          *)
Allocate ==
    /\ pc \in {"allocate", "retry"} /\ request.size >= 0 /\ HasRoom
    /\ LET header == WordsAllocated(cur) + 1
           fill == IF request.size = 0 THEN Number(1) ELSE request.fill
           body == [i \in 1 .. Extent(request.size) - 1 |-> fill]
       IN  /\ data' = [data EXCEPT ![cur] = @ \o <<Number(request.size)>> \o body,
                                   ![1 - cur] = <<>>]
           /\ valid' = [valid EXCEPT ![cur] =
                 (@ \cup {header}) \ (header + 1 .. header + Extent(request.size) - 1),
                                     ![1 - cur] = 1 .. HeapSize]
           /\ stack' = [stack EXCEPT ![sp] = Pointer(cur, header)]
    /\ live' = live \cup {sp}
    /\ request' = NoRequest /\ before' = NoSnapshot
    /\ pc' = "program"
    /\ UNCHANGED <<cur, sp, calls, root>>

(* Variant: the popped slots are scanned.                                  *)
StartGCWholeStack ==
    /\ pc = "allocate" /\ request.size >= 0 /\ ~HasRoom
    /\ cur' = 1 - cur
    /\ data' = [data EXCEPT ![1 - cur] = <<>>]
    /\ before' = [data |-> data[cur], stack |-> SubSeq(stack, 1, sp),
                  fill |-> request.fill]
    /\ root' = NumSlots
    /\ pc' = "roots"
    /\ UNCHANGED <<valid, stack, sp, live, request, calls>>

(* The heaps are switched and the new one is empty.                        *)
StartGC ==
    /\ pc = "allocate" /\ request.size >= 0 /\ ~HasRoom
    /\ cur' = 1 - cur
    /\ data' = [data EXCEPT ![1 - cur] = <<>>]
    /\ before' = [data |-> data[cur], stack |-> SubSeq(stack, 1, sp),
                  fill |-> request.fill]
    /\ root' = sp
    /\ pc' = "roots"
    /\ UNCHANGED <<valid, stack, sp, live, request, calls>>

OutOfMemory ==
    /\ pc = "retry" /\ ~HasRoom
    /\ pc' = "exit"
    /\ UNCHANGED <<memory, stack, sp, live, request, calls, root, before>>

-----------------------------------------------------------------------------
(* gc and gc_copy.                                                         *)

from == 1 - cur

(* Variant: the first field is read after the forwarding pointer is put    *)
(* in its place.                                                           *)
ActivationLate(old, new, n, first) ==
    [old |-> old, new |-> new, n |-> n, first |-> Pointer(cur, new), at |-> 1]

(* An activation: the object, its copy, the number of words of both, the   *)
(* old first field and the next word to copy.                              *)
Activation(old, new, n, first) ==
    [old |-> old, new |-> new, n |-> n, first |-> first, at |-> 1]

Top == calls[Len(calls)]

(* There is a word to copy: of the object on top, the stack, or fw_fill.   *)
Copying ==
    \/ calls # <<>> /\ Top.at < Top.n
    \/ calls = <<>> /\ pc = "roots" /\ root > 0
    \/ calls = <<>> /\ pc = "fill"

Argument ==
    IF calls # <<>>
    THEN IF Top.at = 1 THEN Top.first ELSE data[from][Top.old + Top.at]
    ELSE IF pc = "roots" THEN stack[root] ELSE request.fill

(* Variant: the loop over the stack does not advance.                      *)
DeliverInPlace(rest, w) ==
    IF rest # <<>>
    THEN LET f == rest[Len(rest)]
         IN  /\ data' = [data EXCEPT ![cur][f.new + f.at] = w]
             /\ valid' = [valid EXCEPT ![cur] = (@ \cup {f.new}) \ {f.new + f.at}]
             /\ calls' = [rest EXCEPT ![Len(rest)].at = @ + 1]
             /\ UNCHANGED <<stack, request, root, pc>>
    ELSE /\ calls' = <<>>
         /\ IF pc = "roots"
            THEN stack' = [stack EXCEPT ![root] = w] /\ UNCHANGED <<request, pc>>
            ELSE request' = [request EXCEPT !.fill = w] /\ pc' = "retry" /\ UNCHANGED stack
         /\ UNCHANGED <<data, valid, root>>

(* gc_copy returns w to the activation below, to gc or to allocate_helper. *)
Deliver(rest, w) ==
    IF rest # <<>>
    THEN LET f == rest[Len(rest)]
         IN  /\ data' = [data EXCEPT ![cur][f.new + f.at] = w]
             /\ valid' = [valid EXCEPT ![cur] = (@ \cup {f.new}) \ {f.new + f.at}]
             /\ calls' = [rest EXCEPT ![Len(rest)].at = @ + 1]
             /\ UNCHANGED <<stack, request, root, pc>>
    ELSE /\ calls' = <<>>
         /\ IF pc = "roots"
            THEN /\ stack' = [stack EXCEPT ![root] = w]
                 /\ root' = root - 1
                 /\ UNCHANGED <<request, pc>>
            ELSE /\ request' = [request EXCEPT !.fill = w]
                 /\ pc' = "retry"
                 /\ UNCHANGED <<stack, root>>
         /\ UNCHANGED <<data, valid>>

Moved(w) == data[from][w.i] = Number(-1)

(* A word that is no pointer to an object of the old heap stays as it is;  *)
(* one to an object that has a copy becomes the forwarding pointer.        *)
CopyWord ==
    /\ Copying
    /\ LET w == Argument
       IN  \/ ~IsObject(from, w) /\ Deliver(calls, w)
           \/ IsObject(from, w) /\ Moved(w) /\ Deliver(calls, data[from][w.i + 1])
    /\ UNCHANGED <<cur, sp, live, before>>

(* The old header is marked, the word after it becomes the forwarding      *)
(* pointer, and the words after the new header are to be copied.           *)
CopyObject ==
    /\ Copying
    /\ IsObject(from, Argument) /\ ~Moved(Argument)
    /\ LET old  == Argument.i
           new  == WordsAllocated(cur) + 1
           n    == Extent(data[from][old].i)
       IN  /\ data' = [data EXCEPT ![from][old] = Number(-1),
                                   ![from][old + 1] = Pointer(cur, new),
                                   ![cur] = @ \o [i \in 1 .. n |-> data[from][old]]]
           /\ calls' = Append(calls, Activation(old, new, n, data[from][old + 1]))
    /\ UNCHANGED <<cur, valid, stack, sp, live, request, root, before, pc>>

CopyReturn ==
    /\ calls # <<>> /\ Top.at = Top.n
    /\ Deliver(SubSeq(calls, 1, Len(calls) - 1), Pointer(cur, Top.new))
    /\ UNCHANGED <<cur, sp, live, before>>

(* Variant: fw_fill is not copied.                                         *)
RootsDoneForgetsFill ==
    /\ pc = "roots" /\ root = 0 /\ calls = <<>>
    /\ pc' = "retry"
    /\ UNCHANGED <<memory, stack, sp, live, request, calls, root, before>>

RootsDone ==
    /\ pc = "roots" /\ root = 0 /\ calls = <<>>
    /\ pc' = "fill"
    /\ UNCHANGED <<memory, stack, sp, live, request, calls, root, before>>

Runtime ==
    \/ Reject \/ Allocate \/ StartGC \/ OutOfMemory
    \/ CopyWord \/ CopyObject \/ CopyReturn \/ RootsDone

Program == Assign \/ StoreField \/ Push \/ Pop \/ CallAllocate

Next == Runtime \/ Program

Spec == Init /\ [][Next]_vars

(* A call of allocate runs to its end; the program may stop calling it.    *)
FairSpec == Spec /\ WF_vars(Runtime)

-----------------------------------------------------------------------------
(* gc_copy never asks whether the new heap has room: it fits because no    *)
(* object is copied twice.                                                 *)
NeverOverflows == \A h \in Heaps : WordsAllocated(h) <= HeapSize

(* Between two calls of allocate every word the program can get at, and    *)
(* every field of every object, is a number or points to an object of the  *)
(* current heap.                                                           *)
NoDanglingPointer ==
    pc = "program" =>
        \A w \in {stack[s] : s \in live} \cup
                 UNION {FieldsOf(cur, Pointer(cur, i)) :
                           i \in valid[cur] \cap 1 .. WordsAllocated(cur)} :
            w.h = -1 \/ IsObject(cur, w)

(* The object graph a collection found.                                    *)
Found == valid[from] \cap 1 .. Len(before.data)

Refs(S) == {w.i : w \in {x \in S : x.h = from /\ x.i \in Found}}

FoundFields(o) == {before.data[o + f] : f \in 1 .. before.data[o].i}

Roots == Refs({before.fill} \cup {before.stack[s] : s \in DOMAIN before.stack})

Reachable ==
    {o \in Found : \A S \in SUBSET Found :
        (Roots \subseteq S /\ \A p \in S : Refs(FoundFields(p)) \subseteq S) => o \in S}

CopyOf(o) == data[from][o + 1].i

Image(w) ==
    IF w.h = from /\ w.i \in Found THEN Pointer(cur, CopyOf(w.i)) ELSE w

(* A collection keeps the object graph: each reachable object has one copy *)
(* of its own, of the same size, with the same numbers and with pointers   *)
(* to the copies of what it pointed to, sharing and cycles included; the   *)
(* stack and fw_fill point to the copies.                                  *)
GraphPreserved ==
    pc = "retry" =>
        /\ \A o \in Reachable :
              /\ Moved(Pointer(from, o)) /\ IsObject(cur, Pointer(cur, CopyOf(o)))
              /\ data[cur][CopyOf(o)] = before.data[o]
              /\ \A f \in 1 .. before.data[o].i :
                    data[cur][CopyOf(o) + f] = Image(before.data[o + f])
        /\ \A o, p \in Reachable :
              CopyOf(o) < CopyOf(p) =>
                  CopyOf(o) + Extent(before.data[o].i) <= CopyOf(p)
        /\ \A o, p \in Reachable : CopyOf(o) = CopyOf(p) => o = p
        /\ \A s \in 1 .. sp : stack[s] = Image(before.stack[s])
        /\ request.fill = Image(before.fill)

(* The words of the objects of S in the old heap.                          *)
WordsOf(S) == UNION {o .. o + Extent(before.data[o].i) - 1 : o \in S}

(* A collection reclaims everything else, so that "out of memory" is only  *)
(* reported when the reachable objects leave no room for the new one.      *)
ReclaimsTheRest ==
    pc = "retry" => WordsAllocated(cur) = Cardinality(WordsOf(Reachable))

(* Every collection ends, on cyclic objects too.                           *)
CollectionEnds == pc = "roots" ~> pc \in {"program", "exit"}
=============================================================================
