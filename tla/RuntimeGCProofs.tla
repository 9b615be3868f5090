--------------------------- MODULE RuntimeGCProofs ---------------------------
(***************************************************************************)
(* For every size of the heap, every depth of the stack and every size of  *)
(* the objects: the collector never runs out of room in the new heap, no   *)
(* word the program can get at is left behind, the object graph is kept,   *)
(* and what is not reachable is gone.                                      *)
(***************************************************************************)
EXTENDS RuntimeGC, FiniteSetTheorems, SequenceTheorems, TLAPS

-----------------------------------------------------------------------------
(* The types.                                                              *)

Activations == [old : Nat, new : Nat, n : Nat, first : Words, at : Nat]

TypeOK ==
    /\ cur \in Heaps
    /\ data \in [Heaps -> Seq(Words)]
    /\ valid \in [Heaps -> SUBSET Int]
    /\ stack \in [Slots -> Words]
    /\ sp \in Slots /\ live \subseteq 1 .. sp
    /\ request \in [size : Int, fill : Words]
    /\ calls \in Seq(Activations)
    /\ root \in Nat
    /\ before \in [data : Seq(Words), stack : Seq(Words), fill : Words]
    /\ pc \in {"program", "allocate", "roots", "fill", "retry", "exit"}

Collecting == pc \in {"roots", "fill", "retry"}

-----------------------------------------------------------------------------
(* A heap between two collections: d are its words, v the marks, h its     *)
(* number, st the slots, lv the ones that were written and fill the fill   *)
(* value of the program that uses it.                                      *)

Objects(d, v) == v \cap 1 .. Len(d)

(* The objects lie within the heap and do not overlap: no word of one is   *)
(* marked but its header.                                                  *)
Shape(d, v) ==
    \A o \in Objects(d, v) :
        /\ d[o].h = -1 /\ d[o].i \in Nat
        /\ o + Extent(d[o].i) - 1 <= Len(d)
        /\ \A j \in o + 1 .. o + Extent(d[o].i) - 1 : j \notin v
        /\ d[o].i = 0 => d[o + 1].h = -1

Good(w, h, S) == w.h = -1 \/ (w.h = h /\ w.i \in S)

WellFormed(d, v, h, st, lv, fill) ==
    /\ Len(d) <= HeapSize
    /\ Shape(d, v)
    /\ \A o \in Objects(d, v) : \A f \in 1 .. d[o].i : Good(d[o + f], h, Objects(d, v))
    /\ \A s \in lv : Good(st[s], h, Objects(d, v))
    /\ Good(fill, h, Objects(d, v))

HeapInv ==
    pc \in {"program", "allocate"} =>
        WellFormed(data[cur], valid[cur], cur, stack, live, request.fill)

-----------------------------------------------------------------------------
(* A collection, with cs for the activations of gc_copy.                   *)

Ext(o) == Extent(before.data[o].i)

(* The objects that have been moved.                                       *)
Gone == {o \in Found : Moved(Pointer(from, o))}

Seen(w) == (w.h = from /\ w.i \in Found) => w.i \in Gone

(* The program's last state is what the collection started from.           *)
SnapshotInv ==
    /\ WellFormed(before.data, valid[from], from, before.stack, live, before.fill)
    /\ Len(before.stack) = sp /\ root <= sp /\ request.size >= 0

(* The old heap: a moved object has the mark and the forwarding pointer in *)
(* its first two words, everything else is as it was.                      *)
OldHeapInv ==
    /\ Len(data[from]) = Len(before.data)
    /\ \A o \in Found : \A j \in o .. o + Ext(o) - 1 :
          data[from][j] = before.data[j] \/ (o \in Gone /\ j <= o + 1)
    /\ \A o \in Gone : data[from][o + 1] = Pointer(cur, CopyOf(o))

(* The new heap: the copies lie side by side, without gaps.                *)
NewHeapInv ==
    /\ \A o \in Gone :
          /\ CopyOf(o) \in Nat \ {0} /\ CopyOf(o) + Ext(o) - 1 <= Len(data[cur])
          /\ data[cur][CopyOf(o)] = before.data[o]
    /\ \A o, p \in Gone :
          o # p => \/ CopyOf(o) + Ext(o) <= CopyOf(p)
                   \/ CopyOf(p) + Ext(p) <= CopyOf(o)
    /\ \A i \in 1 .. Len(data[cur]) :
          \E o \in Gone : i \in CopyOf(o) .. CopyOf(o) + Ext(o) - 1
    /\ Len(data[cur]) = Cardinality(WordsOf(Gone))

(* The word gc or allocate_helper has gc_copy look at.                     *)
RootWord == IF pc = "roots" THEN before.stack[root] ELSE before.fill

(* Each activation copies a moved object of its own, which is what the     *)
(* word the activation below is at, or the root, points to.                *)
CallsInv(cs) ==
    /\ \A k \in DOMAIN cs :
          /\ cs[k].old \in Gone /\ cs[k].new = CopyOf(cs[k].old)
          /\ cs[k].n = Ext(cs[k].old) /\ cs[k].first = before.data[cs[k].old + 1]
          /\ 1 <= cs[k].at /\ cs[k].at <= cs[k].n
          /\ k # Len(cs) => cs[k].at < cs[k].n
          /\ k # 1 => before.data[cs[k - 1].old + cs[k - 1].at] = Pointer(from, cs[k].old)
    /\ \A k, m \in DOMAIN cs : cs[k].old = cs[m].old => k = m
    /\ cs # <<>> =>
          /\ RootWord = Pointer(from, cs[1].old)
          /\ (pc = "roots" /\ root > 0) \/ pc = "fill"

(* Word j of the copy of o is done.                                        *)
Filled(cs, o, j) == \A k \in DOMAIN cs : cs[k].old = o => j < cs[k].at

WordsInv(cs) ==
    \A o \in Gone : \A j \in 1 .. Ext(o) - 1 :
        Filled(cs, o, j) =>
            /\ data[cur][CopyOf(o) + j] = Image(before.data[o + j])
            /\ Seen(before.data[o + j])
            /\ CopyOf(o) \in valid[cur] /\ CopyOf(o) + j \notin valid[cur]

(* The slots from the top down to the current one are done, then fw_fill.  *)
RootsInv ==
    /\ \A s \in 1 .. sp :
          IF pc = "roots" /\ s <= root THEN stack[s] = before.stack[s]
          ELSE stack[s] = Image(before.stack[s]) /\ Seen(before.stack[s])
    /\ IF pc = "retry" THEN request.fill = Image(before.fill) /\ Seen(before.fill)
       ELSE request.fill = before.fill

CollectionInv(cs) ==
    /\ SnapshotInv /\ OldHeapInv /\ NewHeapInv
    /\ CallsInv(cs) /\ WordsInv(cs) /\ RootsInv
    /\ Gone \subseteq Reachable

IInv ==
    /\ TypeOK /\ NeverOverflows /\ HeapInv
    /\ Collecting => CollectionInv(calls)
    /\ ~Collecting => calls = <<>>

-----------------------------------------------------------------------------
(* Words and sizes.                                                        *)

LEMMA ExtentBounds ==
    ASSUME NEW n \in Nat
    PROVE  /\ Extent(n) \in Nat /\ Extent(n) >= 2 /\ Extent(n) >= n + 1
           /\ n # 0 => Extent(n) = n + 1
  BY DEF Extent

(* The words behind a header.                                              *)
LEMMA BodyWithin ==
    ASSUME NEW n \in Nat, NEW len \in Nat, NEW o \in 1 .. len, o + Extent(n) - 1 <= len
    PROVE  /\ o + 1 \in 1 .. len
           /\ \A f \in 1 .. n : o + f \in 1 .. len /\ o + f \in o + 1 .. o + Extent(n) - 1
  BY DEF Extent

LEMMA WordTypes ==
    /\ \A w \in Words : w.h \in Heaps \cup {-1} /\ w.i \in Int
    /\ \A n \in Int : /\ Number(n) \in Words
                      /\ Number(n).h = -1 /\ Number(n).i = n
    /\ \A h \in Heaps, n \in Int : /\ Pointer(h, n) \in Words
                                   /\ Pointer(h, n).h = h /\ Pointer(h, n).i = n
    /\ \A w \in Words : w = [h |-> w.h, i |-> w.i]
  BY DEF Words, Number, Pointer, Heaps

LEMMA LiveSlots ==
    ASSUME TypeOK, NEW s \in 1 .. sp
    PROVE  s \in Slots /\ stack[s] \in Words
  BY BoundsAssumption DEF TypeOK, Slots

LEMMA HeapTypes ==
    ASSUME TypeOK, NEW h \in Heaps
    PROVE  /\ data[h] \in Seq(Words) /\ Len(data[h]) \in Nat
           /\ DOMAIN data[h] = 1 .. Len(data[h])
           /\ \A k \in 1 .. Len(data[h]) : data[h][k] \in Words
           /\ 1 - h \in Heaps /\ 1 - h # h
  BY DEF TypeOK, Heaps

-----------------------------------------------------------------------------
(* The program.                                                            *)

(* What the program reads is a number or points to an object.              *)
LEMMA ReadableIsGood ==
    ASSUME TypeOK, HeapInv, pc = "program", NEW w \in Readable
    PROVE  w \in Words /\ Good(w, cur, Objects(data[cur], valid[cur]))
<1>1. cur \in Heaps /\ WellFormed(data[cur], valid[cur], cur, stack, live, request.fill)
  BY DEF HeapInv, TypeOK
<1>2. CASE w = Number(1)
  BY <1>2, WordTypes DEF Good
<1>3. ASSUME NEW s \in live, w = stack[s]
      PROVE  w \in Words /\ Good(w, cur, Objects(data[cur], valid[cur]))
  BY <1>1, <1>3, LiveSlots DEF TypeOK, WellFormed
<1>4. ASSUME NEW s \in LiveObjects, w \in FieldsOf(cur, stack[s])
      PROVE  w \in Words /\ Good(w, cur, Objects(data[cur], valid[cur]))
  <2>. DEFINE o == stack[s].i
  <2>1. o \in Objects(data[cur], valid[cur])
    BY <1>4 DEF LiveObjects, IsObject, WordsAllocated, Objects
  <2>2. PICK f \in 1 .. data[cur][o].i : w = data[cur][o + f]
    BY <1>4 DEF FieldsOf
  <2>3. /\ data[cur][o].i \in Nat /\ o + Extent(data[cur][o].i) - 1 <= Len(data[cur])
        /\ o \in 1 .. Len(data[cur])
    BY <1>1, <2>1 DEF WellFormed, Shape, Objects
  <2>4. o + f \in 1 .. Len(data[cur])
    <3>. HIDE DEF o
    <3>. QED BY <1>1, <2>2, <2>3, HeapTypes, BodyWithin
  <2>. QED BY <1>1, <2>1, <2>2, <2>4, HeapTypes DEF WellFormed
<1>. QED BY <1>2, <1>3, <1>4 DEF Readable

LEMMA AssignKeepsIInv ==
    ASSUME IInv, Assign
    PROVE  IInv'
<1>1. PICK s \in 1 .. sp, w \in Readable :
         stack' = [stack EXCEPT ![s] = w] /\ live' = live \cup {s}
  BY DEF Assign
<1>2. /\ pc = "program" /\ TypeOK /\ HeapInv /\ calls = <<>>
      /\ UNCHANGED <<cur, data, valid, sp, request, calls, root, before, pc>>
  BY DEF Assign, IInv, Collecting, memory
<1>3. w \in Words /\ Good(w, cur, Objects(data[cur], valid[cur]))
  BY <1>2, ReadableIsGood
<1>4. s \in Slots
  BY <1>2, BoundsAssumption DEF TypeOK, Slots
<1>5. TypeOK'
  BY <1>1, <1>2, <1>3, <1>4 DEF TypeOK
<1>6. HeapInv'
  <2>1. \A r \in live' : Good(stack'[r], cur, Objects(data[cur], valid[cur]))
    BY <1>1, <1>2, <1>3, <1>4 DEF HeapInv, WellFormed, TypeOK, Slots
  <2>. QED BY <1>2, <2>1 DEF HeapInv, WellFormed
<1>. QED BY <1>2, <1>5, <1>6 DEF IInv, Collecting, NeverOverflows, WordsAllocated

LEMMA PushPopKeepIInv ==
    ASSUME IInv, Push \/ Pop
    PROVE  IInv'
<1>1. /\ pc = "program" /\ TypeOK /\ HeapInv /\ calls = <<>>
      /\ UNCHANGED <<cur, data, valid, stack, request, calls, root, before, pc>>
      /\ live' \subseteq live /\ live' \subseteq 1 .. sp' /\ sp' \in Slots
  <2>1. CASE Push
    BY <2>1, BoundsAssumption DEF Push, IInv, Collecting, memory, TypeOK, Slots
  <2>2. CASE Pop
    BY <2>2, BoundsAssumption DEF Pop, IInv, Collecting, memory, TypeOK, Slots
  <2>. QED BY <2>1, <2>2
<1>2. TypeOK'
  BY <1>1 DEF TypeOK
<1>3. HeapInv'
  BY <1>1 DEF HeapInv, WellFormed
<1>. QED BY <1>1, <1>2, <1>3 DEF IInv, Collecting, NeverOverflows, WordsAllocated

LEMMA CallAllocateKeepsIInv ==
    ASSUME IInv, CallAllocate
    PROVE  IInv'
<1>1. PICK size \in -1 .. MaxSize, w \in Readable :
         request' = [size |-> size, fill |-> w]
  BY DEF CallAllocate
<1>2. /\ pc = "program" /\ pc' = "allocate" /\ TypeOK /\ HeapInv /\ calls = <<>>
      /\ UNCHANGED <<cur, data, valid, stack, sp, live, calls, root, before>>
  BY DEF CallAllocate, IInv, Collecting, memory
<1>3. w \in Words /\ Good(w, cur, Objects(data[cur], valid[cur]))
  BY <1>2, ReadableIsGood
<1>4. TypeOK'
  BY <1>1, <1>2, <1>3, BoundsAssumption DEF TypeOK
<1>5. HeapInv'
  BY <1>1, <1>2, <1>3 DEF HeapInv, WellFormed
<1>. QED BY <1>2, <1>4, <1>5 DEF IInv, Collecting, NeverOverflows, WordsAllocated

(* A store into a field keeps the headers and the marks.                   *)
LEMMA StoreFieldKeepsIInv ==
    ASSUME IInv, StoreField
    PROVE  IInv'
<1>1. PICK s \in LiveObjects, w \in Readable : \E f \in 1 .. data[cur][stack[s].i].i :
         data' = [data EXCEPT ![cur][stack[s].i + f] = w]
  BY DEF StoreField
<1>. DEFINE o == stack[s].i
<1>2. PICK f \in 1 .. data[cur][o].i : data' = [data EXCEPT ![cur][o + f] = w]
  BY <1>1
<1>3. /\ pc = "program" /\ TypeOK /\ HeapInv /\ calls = <<>>
      /\ UNCHANGED <<cur, valid, stack, sp, live, request, calls, root, before, pc>>
      /\ WellFormed(data[cur], valid[cur], cur, stack, live, request.fill)
      /\ cur \in Heaps
  BY DEF StoreField, IInv, Collecting, HeapInv, TypeOK
<1>4. w \in Words /\ Good(w, cur, Objects(data[cur], valid[cur]))
  BY <1>3, ReadableIsGood
<1>5. o \in Objects(data[cur], valid[cur])
  BY <1>3 DEF LiveObjects, IsObject, WordsAllocated, Objects
<1>6. /\ data[cur][o].i \in Nat /\ o + Extent(data[cur][o].i) - 1 <= Len(data[cur])
      /\ o \in 1 .. Len(data[cur])
      /\ \A j \in o + 1 .. o + Extent(data[cur][o].i) - 1 : j \notin valid[cur]
  BY <1>3, <1>5 DEF WellFormed, Shape, Objects
<1>. HIDE DEF o
<1>7. o + f \in 1 .. Len(data[cur]) /\ o + f \notin valid[cur]
  BY <1>2, <1>3, <1>6, HeapTypes, BodyWithin
<1>. DEFINE d == data[cur]
            e == data'[cur]
<1>8. /\ e \in Seq(Words) /\ Len(e) = Len(d)
      /\ \A k \in 1 .. Len(d) : e[k] = IF k = o + f THEN w ELSE d[k]
      /\ data' \in [Heaps -> Seq(Words)]
      /\ \A h \in Heaps : h # cur => data'[h] = data[h]
  BY <1>2, <1>3, <1>4, <1>7, HeapTypes DEF TypeOK
<1>9. TypeOK'
  BY <1>3, <1>8 DEF TypeOK
<1>10. WellFormed(e, valid[cur], cur, stack, live, request.fill)
  <2>. HIDE DEF d, e
  <2>1. Objects(e, valid[cur]) = Objects(d, valid[cur])
    BY <1>8 DEF Objects
  <2>2. ASSUME NEW p \in Objects(d, valid[cur])
        PROVE  /\ e[p] = d[p] /\ p \in 1 .. Len(d) /\ d[p].i \in Nat
               /\ p + Extent(d[p].i) - 1 <= Len(d)
               /\ d[p].i = 0 => e[p + 1].h = -1
    <3>1. p \in 1 .. Len(d) /\ p # o + f
      BY <1>7, <2>2 DEF Objects
    <3>2. /\ d[p].i \in Nat /\ p + Extent(d[p].i) - 1 <= Len(d)
          /\ \A j \in p + 1 .. p + Extent(d[p].i) - 1 : j \notin valid[cur]
          /\ d[p].i = 0 => d[p + 1].h = -1
      BY <1>3, <2>2 DEF WellFormed, Shape, d
    <3>3. d[p].i = 0 => e[p + 1].h = -1
      <4>. SUFFICES ASSUME d[p].i = 0 PROVE e[p + 1].h = -1
        OBVIOUS
      <4>1. p + 1 \in 1 .. Len(d)
        BY <1>3, <3>1, <3>2, HeapTypes, BodyWithin DEF d
      <4>2. CASE p + 1 # o + f
        BY <1>8, <3>2, <4>1, <4>2
      <4>3. CASE p + 1 = o + f
        <5>1. CASE f = 1
          BY <1>2, <1>6, <3>1, <4>3, <5>1 DEF d
        <5>2. CASE f # 1
          <6>1. PICK g \in 1 .. data[cur][o].i : p = o + g
            <7>1. f - 1 \in 1 .. data[cur][o].i /\ p = o + (f - 1)
              BY <1>2, <1>6, <3>1, <4>3, <5>2
            <7>. QED BY <7>1
          <6>2. p \in o + 1 .. o + Extent(data[cur][o].i) - 1
            BY <1>3, <1>6, <6>1, HeapTypes, BodyWithin
          <6>. QED BY <1>6, <2>2, <6>2 DEF Objects
        <5>. QED BY <5>1, <5>2
      <4>. QED BY <4>2, <4>3
    <3>. QED BY <1>8, <3>1, <3>2, <3>3
  <2>3. Shape(e, valid[cur])
    BY <1>3, <1>8, <2>1, <2>2 DEF Shape, WellFormed, d
  <2>4. ASSUME NEW p \in Objects(e, valid[cur]), NEW g \in 1 .. e[p].i
        PROVE  Good(e[p + g], cur, Objects(e, valid[cur]))
    <3>1. /\ e[p] = d[p] /\ p \in 1 .. Len(d) /\ d[p].i \in Nat
          /\ p + Extent(d[p].i) - 1 <= Len(d)
      BY <2>1, <2>2
    <3>2. p + g \in 1 .. Len(d)
      BY <1>3, <2>4, <3>1, HeapTypes, BodyWithin DEF d
    <3>3. Good(d[p + g], cur, Objects(d, valid[cur]))
      BY <1>3, <2>1, <2>4, <3>1 DEF WellFormed, d
    <3>. QED BY <1>4, <1>8, <2>1, <3>2, <3>3 DEF d
  <2>. QED BY <1>3, <1>8, <2>1, <2>3, <2>4 DEF WellFormed, d
<1>11. HeapInv'
  BY <1>3, <1>10 DEF HeapInv, WellFormed
<1>12. NeverOverflows'
  BY <1>3, <1>8 DEF IInv, NeverOverflows, WordsAllocated
<1>. QED BY <1>3, <1>9, <1>11, <1>12 DEF IInv, Collecting

-----------------------------------------------------------------------------
(* The objects a collection found.                                         *)

LEMMA FoundFacts ==
    ASSUME TypeOK, SnapshotInv, NEW o \in Found
    PROVE  /\ o \in Nat /\ o >= 1 /\ o <= Len(before.data) /\ Len(before.data) \in Nat
           /\ o \in valid[from]
           /\ before.data[o] \in Words
           /\ before.data[o].h = -1 /\ before.data[o].i \in Nat
           /\ Ext(o) \in Nat /\ Ext(o) >= 2
           /\ o + Ext(o) - 1 <= Len(before.data)
           /\ \A j \in o + 1 .. o + Ext(o) - 1 : j \notin valid[from]
           /\ \A j \in 1 .. Ext(o) - 1 : before.data[o + j] \in Words
           /\ before.data[o].i = 0 => before.data[o + 1].h = -1
           /\ \A f \in 1 .. before.data[o].i : Good(before.data[o + f], from, Found)
<1>1. before.data \in Seq(Words)
  BY DEF TypeOK
<1>2. o \in valid[from] /\ o \in 1 .. Len(before.data)
  BY DEF Found
<1>3. o \in Nat /\ o >= 1 /\ o <= Len(before.data) /\ Len(before.data) \in Nat
  BY <1>1, <1>2
<1>4. Found = Objects(before.data, valid[from])
  BY DEF Found, Objects
<1>5. /\ before.data[o].h = -1 /\ before.data[o].i \in Nat
      /\ o + Ext(o) - 1 <= Len(before.data)
      /\ \A j \in o + 1 .. o + Ext(o) - 1 : j \notin valid[from]
      /\ before.data[o].i = 0 => before.data[o + 1].h = -1
      /\ \A f \in 1 .. before.data[o].i : Good(before.data[o + f], from, Found)
  BY <1>4 DEF SnapshotInv, WellFormed, Shape, Ext
<1>6. Ext(o) \in Nat /\ Ext(o) >= 2
  BY <1>5, ExtentBounds DEF Ext
<1>7. before.data[o] \in Words /\ \A j \in 1 .. Ext(o) - 1 : before.data[o + j] \in Words
  BY <1>1, <1>3, <1>5, <1>6
<1>. QED BY <1>2, <1>3, <1>5, <1>6, <1>7

(* Two objects do not overlap.                                             *)
LEMMA FoundDisjoint ==
    ASSUME TypeOK, SnapshotInv, NEW o \in Found, NEW p \in Found, o # p
    PROVE  o + Ext(o) <= p \/ p + Ext(p) <= o
<1>1. /\ o \in Nat /\ Ext(o) \in Nat /\ p \in Nat /\ Ext(p) \in Nat
      /\ o \in valid[from] /\ p \in valid[from]
      /\ \A j \in o + 1 .. o + Ext(o) - 1 : j \notin valid[from]
      /\ \A j \in p + 1 .. p + Ext(p) - 1 : j \notin valid[from]
  BY FoundFacts
<1>2. p \notin o + 1 .. o + Ext(o) - 1 /\ o \notin p + 1 .. p + Ext(p) - 1
  BY <1>1
<1>. QED BY <1>1, <1>2

(* All of them lie in the old heap, so there are no more words to copy     *)
(* than it has.                                                            *)
LEMMA WordsOfFits ==
    ASSUME TypeOK, SnapshotInv, NEW S \in SUBSET Found
    PROVE  /\ IsFiniteSet(WordsOf(S)) /\ Cardinality(WordsOf(S)) \in Nat
           /\ Cardinality(WordsOf(S)) <= HeapSize
           /\ WordsOf(S) \subseteq 1 .. Len(before.data)
<1>1. Len(before.data) \in Nat /\ Len(before.data) <= HeapSize
  BY DEF TypeOK, SnapshotInv, WellFormed
<1>2. ASSUME NEW o \in S PROVE o .. o + Ext(o) - 1 \subseteq 1 .. Len(before.data)
  <2>1. /\ o \in Nat /\ o >= 1 /\ Ext(o) \in Nat
        /\ o + Ext(o) - 1 <= Len(before.data)
    BY FoundFacts
  <2>. QED BY <1>1, <2>1
<1>3. WordsOf(S) \in SUBSET (1 .. Len(before.data))
  BY <1>2 DEF WordsOf, Ext
<1>4. /\ IsFiniteSet(1 .. Len(before.data))
      /\ Cardinality(1 .. Len(before.data)) = Len(before.data)
  <2>1. PICK c \in Nat : c = Len(before.data)
    BY <1>1
  <2>2. IsFiniteSet(1 .. c) /\ Cardinality(1 .. c) = IF 1 > c THEN 0 ELSE c - 1 + 1
    BY FS_Interval
  <2>. QED BY <2>1, <2>2
<1>5. /\ IsFiniteSet(WordsOf(S))
      /\ Cardinality(WordsOf(S)) <= Cardinality(1 .. Len(before.data))
  BY <1>3, <1>4, FS_Subset
<1>6. Cardinality(WordsOf(S)) \in Nat
  BY <1>5, FS_CardinalityType
<1>. QED BY <1>1, <1>3, <1>4, <1>5, <1>6, BoundsAssumption

(* What a word has become: a number, or a pointer to a copy.               *)
Copies == {CopyOf(o) : o \in Gone}

LEMMA ImageFacts ==
    ASSUME TypeOK, NEW w \in Words, Good(w, from, Found), Seen(w)
    PROVE  Good(Image(w), cur, Copies) /\ (w.h = -1 => Image(w) = w)
<1>1. from # -1
  BY DEF TypeOK, Heaps, from
<1>2. CASE w.h = -1
  BY <1>1, <1>2 DEF Image, Good
<1>3. CASE w.h = from /\ w.i \in Found
  BY <1>1, <1>3 DEF Image, Good, Seen, Copies, Pointer
<1>. QED BY <1>2, <1>3 DEF Good

LEMMA GoneFacts ==
    ASSUME NEW o \in Gone
    PROVE  o \in Found /\ data[from][o] = Number(-1)
  BY DEF Gone, Moved, Pointer

(* After a collection the new heap is as well-formed as the old one was.   *)
LEMMA RetryIsWellFormed ==
    ASSUME TypeOK, pc = "retry", CollectionInv(<<>>)
    PROVE  WellFormed(data[cur], valid[cur], cur, stack, live, request.fill)
<1>. DEFINE d == data[cur]
            v == valid[cur]
<1>1. /\ SnapshotInv /\ OldHeapInv /\ NewHeapInv /\ WordsInv(<<>>) /\ RootsInv
  BY DEF CollectionInv
<1>2. cur \in Heaps /\ Len(d) \in Nat
  BY HeapTypes DEF TypeOK
<1>3. ASSUME NEW o \in Gone
      PROVE  /\ CopyOf(o) \in Nat \ {0} /\ CopyOf(o) + Ext(o) - 1 <= Len(d)
             /\ d[CopyOf(o)] = before.data[o]
             /\ CopyOf(o) \in v /\ o \in Found
             /\ Ext(o) \in Nat /\ Ext(o) >= 2
             /\ \A j \in 1 .. Ext(o) - 1 : /\ d[CopyOf(o) + j] = Image(before.data[o + j])
                                           /\ Seen(before.data[o + j])
                                           /\ CopyOf(o) + j \notin v
  <2>1. o \in Found /\ Ext(o) \in Nat /\ Ext(o) >= 2
    BY <1>1, GoneFacts, FoundFacts
  <2>2. \A j \in 1 .. Ext(o) - 1 : Filled(<<>>, o, j)
    BY DEF Filled
  <2>3. 1 \in 1 .. Ext(o) - 1
    BY <2>1
  <2>. QED BY <1>1, <2>1, <2>2, <2>3 DEF NewHeapInv, WordsInv
<1>4. Copies = Objects(d, v)
  <2>1. ASSUME NEW c \in Copies PROVE c \in Objects(d, v)
    <3>1. PICK o \in Gone : c = CopyOf(o)
      BY DEF Copies
    <3>. QED BY <1>2, <1>3, <3>1 DEF Objects
  <2>2. ASSUME NEW i \in Objects(d, v) PROVE i \in Copies
    <3>1. PICK o \in Gone : i \in CopyOf(o) .. CopyOf(o) + Ext(o) - 1
      BY <1>1 DEF Objects, NewHeapInv
    <3>2. CASE i = CopyOf(o)
      BY <3>2 DEF Copies
    <3>3. CASE i # CopyOf(o)
      <4>1. PICK j \in 1 .. Ext(o) - 1 : i = CopyOf(o) + j
        <5>1. i - CopyOf(o) \in 1 .. Ext(o) - 1 /\ i = CopyOf(o) + (i - CopyOf(o))
          BY <1>3, <3>1, <3>3
        <5>. QED BY <5>1
      <4>. QED BY <1>3, <2>2, <4>1 DEF Objects
    <3>. QED BY <3>2, <3>3
  <2>. QED BY <2>1, <2>2
<1>5. ASSUME NEW w \in Words, Good(w, from, Found), Seen(w)
      PROVE  Good(Image(w), cur, Objects(d, v)) /\ (w.h = -1 => Image(w) = w)
  BY <1>4, <1>5, ImageFacts
<1>6. ASSUME NEW c \in Objects(d, v)
      PROVE  /\ d[c].h = -1 /\ d[c].i \in Nat
             /\ c + Extent(d[c].i) - 1 <= Len(d)
             /\ \A j \in c + 1 .. c + Extent(d[c].i) - 1 : j \notin v
             /\ d[c].i = 0 => d[c + 1].h = -1
             /\ \A f \in 1 .. d[c].i : Good(d[c + f], cur, Objects(d, v))
  <2>1. PICK o \in Gone : c = CopyOf(o)
    BY <1>4, <1>6 DEF Copies
  <2>2. /\ d[c] = before.data[o] /\ c \in Nat /\ c + Ext(o) - 1 <= Len(d)
        /\ \A j \in 1 .. Ext(o) - 1 : /\ d[c + j] = Image(before.data[o + j])
                                      /\ Seen(before.data[o + j]) /\ c + j \notin v
        /\ Ext(o) \in Nat /\ Ext(o) >= 2 /\ o \in Found
    BY <1>3, <2>1
  <2>3. /\ before.data[o].h = -1 /\ before.data[o].i \in Nat
        /\ \A j \in 1 .. Ext(o) - 1 : before.data[o + j] \in Words
        /\ before.data[o].i = 0 => before.data[o + 1].h = -1
        /\ \A f \in 1 .. before.data[o].i : Good(before.data[o + f], from, Found)
    BY <1>1, <2>2, FoundFacts
  <2>4. \A j \in c + 1 .. c + Ext(o) - 1 : j \notin v
    <3>. SUFFICES ASSUME NEW j \in c + 1 .. c + Ext(o) - 1 PROVE j \notin v
      OBVIOUS
    <3>1. PICK m \in 1 .. Ext(o) - 1 : j = c + m
      <4>1. j - c \in 1 .. Ext(o) - 1 /\ j = c + (j - c)
        BY <2>2
      <4>. QED BY <4>1
    <3>. QED BY <2>2, <3>1
  <2>5. before.data[o].i = 0 => d[c + 1].h = -1
    <3>. SUFFICES ASSUME before.data[o].i = 0 PROVE d[c + 1].h = -1
      OBVIOUS
    <3>1. 1 \in 1 .. Ext(o) - 1
      BY <2>2
    <3>2. before.data[o + 1] \in Words /\ before.data[o + 1].h = -1
      BY <2>3, <3>1
    <3>3. Image(before.data[o + 1]) = before.data[o + 1]
      BY <1>5, <2>2, <3>1, <3>2 DEF Good
    <3>. QED BY <2>2, <3>1, <3>2, <3>3
  <2>6. ASSUME NEW f \in 1 .. before.data[o].i PROVE Good(d[c + f], cur, Objects(d, v))
    <3>1. Ext(o) >= before.data[o].i + 1
      BY <2>3, ExtentBounds DEF Ext
    <3>2. f \in 1 .. Ext(o) - 1
      BY <2>2, <2>3, <3>1
    <3>. QED BY <1>5, <2>2, <2>3, <3>2
  <2>. QED BY <2>2, <2>3, <2>4, <2>5, <2>6 DEF Ext
<1>7. ASSUME NEW s \in live PROVE Good(stack[s], cur, Objects(d, v))
  <2>1. s \in 1 .. sp /\ s \in DOMAIN before.stack
    BY <1>1 DEF TypeOK, SnapshotInv
  <2>2. before.stack[s] \in Words
    BY <2>1 DEF TypeOK
  <2>3. Good(before.stack[s], from, Found)
    BY <1>1, <1>7 DEF SnapshotInv, WellFormed, Objects, Found
  <2>4. stack[s] = Image(before.stack[s]) /\ Seen(before.stack[s])
    BY <1>1, <2>1 DEF RootsInv
  <2>. QED BY <1>5, <2>2, <2>3, <2>4
<1>8. Good(request.fill, cur, Objects(d, v))
  <2>1. before.fill \in Words /\ Good(before.fill, from, Found)
    BY <1>1 DEF TypeOK, SnapshotInv, WellFormed, Objects, Found
  <2>. QED BY <1>1, <1>5, <2>1 DEF RootsInv
<1>9. Len(d) <= HeapSize
  <2>1. Gone \in SUBSET Found
    BY DEF Gone
  <2>. QED BY <1>1, <2>1, WordsOfFits DEF NewHeapInv
<1>. QED BY <1>6, <1>7, <1>8, <1>9 DEF WellFormed, Shape

-----------------------------------------------------------------------------
(* allocate_helper.                                                        *)

LEMMA InitIInv == Init => IInv
<1>. SUFFICES ASSUME Init PROVE IInv
  OBVIOUS
<1>1. TypeOK
  BY BoundsAssumption, WordTypes DEF Init, TypeOK, Heaps, Slots, NoRequest, NoSnapshot
<1>2. HeapInv
  <2>1. Objects(data[cur], valid[cur]) = {} /\ Len(data[cur]) = 0
    BY DEF Init, Heaps, Objects
  <2>2. \A s \in live : stack[s] = Number(1)
    BY BoundsAssumption DEF Init, Slots
  <2>3. Good(Number(1), cur, {}) /\ request.fill = Number(1)
    BY WordTypes DEF Good, Init, NoRequest
  <2>4. Len(data[cur]) <= HeapSize
    BY <2>1, BoundsAssumption
  <2>. QED BY <2>1, <2>2, <2>3, <2>4 DEF HeapInv, WellFormed, Shape
<1>3. NeverOverflows
  BY BoundsAssumption DEF Init, NeverOverflows, WordsAllocated
<1>. QED BY <1>1, <1>2, <1>3 DEF Init, IInv, Collecting

(* Outside gc no activation of gc_copy is left.                            *)
LEMMA NoCalls ==
    ASSUME IInv, pc \notin {"roots", "fill"}
    PROVE  calls = <<>>
  BY DEF IInv, Collecting, CollectionInv, CallsInv

LEMMA ExitKeepsIInv ==
    ASSUME IInv, Reject \/ OutOfMemory
    PROVE  IInv'
<1>1. /\ TypeOK /\ NeverOverflows /\ calls = <<>> /\ pc' = "exit"
      /\ UNCHANGED <<cur, data, valid, stack, sp, live, request, calls, root, before>>
  BY NoCalls DEF Reject, OutOfMemory, memory, IInv
<1>2. TypeOK'
  BY <1>1 DEF TypeOK
<1>. QED BY <1>1, <1>2 DEF IInv, HeapInv, Collecting, NeverOverflows, WordsAllocated

(* What is appended to the words of a heap.                                *)
LEMMA Joined ==
    ASSUME NEW c \in Seq(Words), NEW body \in Seq(Words)
    PROVE  /\ c \o body \in Seq(Words) /\ Len(c \o body) = Len(c) + Len(body)
           /\ \A k \in 1 .. Len(c) : (c \o body)[k] = c[k]
           /\ \A f \in 1 .. Len(body) : (c \o body)[Len(c) + f] = body[f]
<1>1. Len(c) \in Nat /\ Len(body) \in Nat
  OBVIOUS
<1>2. /\ c \o body \in Seq(Words) /\ Len(c \o body) = Len(c) + Len(body)
      /\ \A k \in 1 .. Len(c) + Len(body) :
            (c \o body)[k] = IF k <= Len(c) THEN c[k] ELSE body[k - Len(c)]
  BY ConcatProperties
<1>3. \A k \in 1 .. Len(c) : (c \o body)[k] = c[k]
  BY <1>1, <1>2
<1>4. ASSUME NEW f \in 1 .. Len(body) PROVE (c \o body)[Len(c) + f] = body[f]
  <2>1. /\ Len(c) + f \in 1 .. Len(c) + Len(body)
        /\ ~(Len(c) + f <= Len(c)) /\ Len(c) + f - Len(c) = f
    BY <1>1
  <2>. QED BY <1>2, <2>1
<1>. QED BY <1>2, <1>3, <1>4

LEMMA Appended ==
    ASSUME NEW d \in Seq(Words), NEW header \in Words, NEW body \in Seq(Words)
    PROVE  /\ d \o <<header>> \o body \in Seq(Words)
           /\ Len(d \o <<header>> \o body) = Len(d) + 1 + Len(body)
           /\ \A k \in 1 .. Len(d) : (d \o <<header>> \o body)[k] = d[k]
           /\ (d \o <<header>> \o body)[Len(d) + 1] = header
           /\ \A f \in 1 .. Len(body) :
                 (d \o <<header>> \o body)[Len(d) + 1 + f] = body[f]
<1>. DEFINE one == <<header>>
            c == d \o one
<1>1. /\ one \in Seq(Words) /\ Len(one) = 1 /\ one[1] = header /\ 1 \in 1 .. 1
      /\ Len(d) \in Nat /\ Len(body) \in Nat
  OBVIOUS
<1>. HIDE DEF one
<1>2. /\ c \in Seq(Words) /\ Len(c) = Len(d) + 1 /\ c[Len(d) + 1] = header
      /\ \A k \in 1 .. Len(d) : c[k] = d[k]
  <2>1. /\ c \in Seq(Words) /\ Len(c) = Len(d) + Len(one)
        /\ \A k \in 1 .. Len(d) : c[k] = d[k]
        /\ \A f \in 1 .. Len(one) : c[Len(d) + f] = one[f]
    BY <1>1, Joined, Zenon
  <2>. HIDE DEF c
  <2>. QED BY <1>1, <2>1
<1>. HIDE DEF c
<1>3. /\ c \o body \in Seq(Words) /\ Len(c \o body) = Len(c) + Len(body)
      /\ \A k \in 1 .. Len(c) : (c \o body)[k] = c[k]
      /\ \A f \in 1 .. Len(body) : (c \o body)[Len(c) + f] = body[f]
  BY <1>2, Joined
<1>4. Len(d) + 1 \in 1 .. Len(c) /\ \A k \in 1 .. Len(d) : k \in 1 .. Len(c)
  BY <1>1, <1>2
<1>5. /\ \A k \in 1 .. Len(d) : (c \o body)[k] = d[k]
      /\ (c \o body)[Len(d) + 1] = header
  BY <1>2, <1>3, <1>4
<1>. QED BY <1>2, <1>3, <1>5 DEF c, one

LEMMA AllocateKeepsIInv ==
    ASSUME IInv, Allocate
    PROVE  IInv'
<1>. DEFINE d == data[cur]
            e == data'[cur]
            v == valid[cur]
            u == valid'[cur]
            size == request.size
            L == Len(data[cur])
            n == Extent(request.size)
            fill == IF request.size = 0 THEN Number(1) ELSE request.fill
<1>1. /\ TypeOK /\ NeverOverflows /\ calls = <<>> /\ pc \in {"allocate", "retry"}
      /\ UNCHANGED <<cur, sp, calls, root>>
      /\ pc' = "program" /\ live' = live \cup {sp}
      /\ request' = NoRequest /\ before' = NoSnapshot
  BY NoCalls DEF Allocate, IInv
<1>2. WellFormed(d, v, cur, stack, live, request.fill)
  <2>1. CASE pc = "allocate"
    BY <2>1 DEF IInv, HeapInv
  <2>2. CASE pc = "retry"
    BY <1>1, <2>2, RetryIsWellFormed DEF IInv, Collecting
  <2>. QED BY <1>1, <2>1, <2>2
<1>3. /\ cur \in Heaps /\ 1 - cur \in Heaps /\ 1 - cur # cur
      /\ d \in Seq(Words) /\ L \in Nat /\ size \in Nat
      /\ n \in Nat /\ n >= 2 /\ n >= size + 1 /\ (size # 0 => n = size + 1)
      /\ fill \in Words /\ request.fill \in Words
      /\ L + n < HeapSize
  <2>1. size \in Nat /\ request.fill \in Words
    BY <1>1 DEF Allocate, TypeOK
  <2>2. L + n < HeapSize
    BY DEF Allocate, HasRoom, WordsAllocated
  <2>. QED BY <1>1, <2>1, <2>2, HeapTypes, ExtentBounds, WordTypes DEF TypeOK
<1>4. /\ data' = [data EXCEPT ![cur] = @ \o <<Number(size)>> \o [i \in 1 .. n - 1 |-> fill],
                              ![1 - cur] = <<>>]
      /\ valid' = [valid EXCEPT ![cur] = (@ \cup {L + 1}) \ (L + 2 .. L + n),
                                ![1 - cur] = 1 .. HeapSize]
      /\ stack' = [stack EXCEPT ![sp] = Pointer(cur, L + 1)]
  <2>1. L + 1 + 1 = L + 2 /\ L + 1 + n - 1 = L + n
    BY <1>3
  <2>. QED BY <2>1 DEF Allocate, WordsAllocated
<1>5. /\ e = d \o <<Number(size)>> \o [i \in 1 .. n - 1 |-> fill]
      /\ u = (v \cup {L + 1}) \ (L + 2 .. L + n)
      /\ data'[1 - cur] = <<>>
  BY <1>1, <1>3, <1>4 DEF TypeOK
<1>6. /\ e \in Seq(Words) /\ Len(e) = L + n
      /\ \A k \in 1 .. L : e[k] = d[k]
      /\ e[L + 1] = Number(size)
      /\ \A f \in 1 .. n - 1 : e[L + 1 + f] = fill
  <2>. DEFINE body == [i \in 1 .. n - 1 |-> fill]
  <2>1. /\ body \in Seq(Words) /\ Len(body) = n - 1
        /\ \A i \in 1 .. n - 1 : body[i] = fill
    BY <1>3
  <2>2. e = d \o <<Number(size)>> \o body /\ L = Len(d)
    BY <1>5
  <2>3. d \in Seq(Words) /\ Number(size) \in Words
    BY <1>3, WordTypes
  <2>. HIDE DEF d, e, fill, n, size, L, body
  <2>4. /\ e \in Seq(Words) /\ Len(e) = Len(d) + 1 + Len(body)
        /\ \A k \in 1 .. Len(d) : e[k] = d[k]
        /\ e[Len(d) + 1] = Number(size)
        /\ \A f \in 1 .. Len(body) : e[Len(d) + 1 + f] = body[f]
    <3>1. body \in Seq(Words)
      BY <2>1
    <3>. DEFINE a == d \o <<Number(size)>> \o body
    <3>2. /\ a \in Seq(Words) /\ Len(a) = Len(d) + 1 + Len(body)
          /\ \A k \in 1 .. Len(d) : a[k] = d[k]
          /\ a[Len(d) + 1] = Number(size)
          /\ \A f \in 1 .. Len(body) : a[Len(d) + 1 + f] = body[f]
      BY <2>3, <3>1, Appended
    <3>. QED BY <2>2, <3>2
  <2>5. L + 1 + (n - 1) = L + n
    BY <1>3
  <2>. QED BY <2>1, <2>2, <2>4, <2>5
<1>7. sp \in Slots /\ Pointer(cur, L + 1) \in Words
  BY <1>1, <1>3, WordTypes DEF TypeOK
<1>8. TypeOK'
  <2>1. data' \in [Heaps -> Seq(Words)]
    <3>1. ASSUME NEW h \in Heaps PROVE data'[h] \in Seq(Words)
      <4>1. h = cur \/ h = 1 - cur
        BY <1>3 DEF Heaps
      <4>2. <<>> \in Seq(Words)
        OBVIOUS
      <4>. QED BY <1>5, <1>6, <4>1, <4>2
    <3>2. data' = [h \in Heaps |-> data'[h]]
      BY <1>1, <1>4 DEF TypeOK
    <3>. QED BY <3>1, <3>2
  <2>2. valid' \in [Heaps -> SUBSET Int]
    <3>1. (v \cup {L + 1}) \ (L + 2 .. L + n) \in SUBSET Int /\ 1 .. HeapSize \in SUBSET Int
      BY <1>1, <1>3, BoundsAssumption DEF TypeOK
    <3>. QED BY <1>1, <1>4, <3>1 DEF TypeOK
  <2>3. stack' \in [Slots -> Words]
    BY <1>1, <1>4, <1>7 DEF TypeOK
  <2>4. live' \subseteq 1 .. sp' /\ sp' \in Slots
    BY <1>1, <1>7 DEF TypeOK, Slots
  <2>5. NoRequest \in [size : Int, fill : Words]
        /\ NoSnapshot \in [data : Seq(Words), stack : Seq(Words), fill : Words]
    BY WordTypes DEF NoRequest, NoSnapshot
  <2>. QED BY <1>1, <2>1, <2>2, <2>3, <2>4, <2>5 DEF TypeOK
<1>9. NeverOverflows'
  <2>1. Len(e) <= HeapSize
    BY <1>3, <1>6, BoundsAssumption
  <2>2. Len(data'[1 - cur]) <= HeapSize
    BY <1>5, BoundsAssumption
  <2>3. \A h \in Heaps : h = cur \/ h = 1 - cur
    BY <1>3 DEF Heaps
  <2>. QED BY <2>1, <2>2, <2>3 DEF NeverOverflows, WordsAllocated
<1>10. WellFormed(e, u, cur, stack', live', Number(1))
  <2>. HIDE DEF d, e, v, u, L, n, size, fill
  <2>1. Objects(e, u) = Objects(d, v) \cup {L + 1}
    <3>1. v \cap 1 .. L \subseteq Int /\ L = Len(d)
      BY <1>3 DEF L, d
    <3>2. \A k \in 1 .. L + n : k \in u <=> (k \in v /\ k \in 1 .. L) \/ k = L + 1
      BY <1>3, <1>5
    <3>3. \A k : k \in 1 .. L \/ k = L + 1 => k \in 1 .. L + n
      BY <1>3
    <3>. QED BY <1>6, <3>1, <3>2, <3>3 DEF Objects
  <2>2. ASSUME NEW w, Good(w, cur, Objects(d, v))
        PROVE  Good(w, cur, Objects(e, u))
    BY <2>1, <2>2 DEF Good
  <2>3. ASSUME NEW o \in Objects(d, v)
        PROVE  /\ e[o].h = -1 /\ e[o].i \in Nat
               /\ o + Extent(e[o].i) - 1 <= Len(e)
               /\ \A j \in o + 1 .. o + Extent(e[o].i) - 1 : j \notin u
               /\ e[o].i = 0 => e[o + 1].h = -1
               /\ \A f \in 1 .. e[o].i : Good(e[o + f], cur, Objects(e, u))
    <3>1. /\ o \in 1 .. L /\ e[o] = d[o] /\ d[o].h = -1 /\ d[o].i \in Nat
          /\ o + Extent(d[o].i) - 1 <= L
          /\ \A j \in o + 1 .. o + Extent(d[o].i) - 1 : j \notin v
          /\ d[o].i = 0 => d[o + 1].h = -1
          /\ \A f \in 1 .. d[o].i : Good(d[o + f], cur, Objects(d, v))
      BY <1>2, <1>6, <2>3 DEF WellFormed, Shape, Objects, L, d
    <3>2. /\ o + 1 \in 1 .. L
          /\ \A f \in 1 .. d[o].i : o + f \in 1 .. L
      BY <1>3, <3>1, BodyWithin
    <3>3. Extent(d[o].i) \in Nat
      BY <3>1, ExtentBounds
    <3>4. \A j \in o + 1 .. o + Extent(d[o].i) - 1 : j \notin u
      BY <1>3, <1>5, <3>1, <3>3
    <3>5. e[o] = d[o] /\ e[o + 1] = d[o + 1] /\ o + Extent(d[o].i) - 1 <= Len(e)
      BY <1>3, <1>6, <3>1, <3>2, <3>3
    <3>6. \A f \in 1 .. d[o].i : Good(e[o + f], cur, Objects(e, u))
      BY <1>6, <2>2, <3>1, <3>2
    <3>. QED BY <3>1, <3>4, <3>5, <3>6
  <2>4. /\ e[L + 1].h = -1 /\ e[L + 1].i = size
        /\ L + 1 + n - 1 <= Len(e)
        /\ \A j \in L + 1 + 1 .. L + 1 + n - 1 : j \notin u
        /\ size = 0 => e[L + 1 + 1].h = -1
        /\ \A f \in 1 .. size : Good(e[L + 1 + f], cur, Objects(e, u))
    <3>1. e[L + 1].h = -1 /\ e[L + 1].i = size /\ L + 1 + n - 1 <= Len(e)
      BY <1>3, <1>6, WordTypes
    <3>2. \A j \in L + 1 + 1 .. L + 1 + n - 1 : j \notin u
      BY <1>3, <1>5
    <3>3. size = 0 => e[L + 1 + 1].h = -1
      <4>1. 1 \in 1 .. n - 1 /\ Number(1).h = -1
        BY <1>3, WordTypes
      <4>2. e[L + 1 + 1] = fill
        BY <1>6, <4>1
      <4>3. size = 0 => fill = Number(1)
        BY DEF fill, size
      <4>. QED BY <4>1, <4>2, <4>3
    <3>4. ASSUME NEW f \in 1 .. size PROVE Good(e[L + 1 + f], cur, Objects(e, u))
      <4>1. f \in 1 .. n - 1 /\ size # 0
        BY <1>3
      <4>2. fill = request.fill
        BY <4>1 DEF fill, size
      <4>. QED BY <1>2, <1>6, <2>2, <4>1, <4>2 DEF WellFormed
    <3>. QED BY <3>1, <3>2, <3>3, <3>4
  <2>5. Shape(e, u)
    BY <1>3, <2>1, <2>3, <2>4 DEF Shape, n, size
  <2>6. \A o \in Objects(e, u) : \A f \in 1 .. e[o].i : Good(e[o + f], cur, Objects(e, u))
    BY <2>1, <2>3, <2>4
  <2>7. \A s \in live' : Good(stack'[s], cur, Objects(e, u))
    <3>. SUFFICES ASSUME NEW s \in live' PROVE Good(stack'[s], cur, Objects(e, u))
      OBVIOUS
    <3>1. CASE s = sp
      <4>1. stack'[s] = Pointer(cur, L + 1)
        BY <1>1, <1>4, <1>7, <3>1 DEF TypeOK
      <4>. QED BY <1>3, <2>1, <4>1, WordTypes DEF Good
    <3>2. CASE s # sp
      <4>1. s \in live /\ s \in 1 .. sp
        BY <1>1, <3>2 DEF TypeOK
      <4>2. stack'[s] = stack[s]
        BY <1>1, <1>4, <3>2, <4>1, LiveSlots DEF TypeOK
      <4>. QED BY <1>2, <2>2, <4>1, <4>2 DEF WellFormed
    <3>. QED BY <3>1, <3>2
  <2>8. Good(Number(1), cur, Objects(e, u))
    BY WordTypes DEF Good
  <2>9. Len(e) <= HeapSize
    BY <1>3, <1>6, BoundsAssumption
  <2>. QED BY <2>5, <2>6, <2>7, <2>8, <2>9 DEF WellFormed
<1>11. HeapInv'
  BY <1>1, <1>10 DEF HeapInv, NoRequest
<1>. QED BY <1>1, <1>8, <1>9, <1>11 DEF IInv, Collecting

-----------------------------------------------------------------------------
(* gc.                                                                     *)

LEMMA StartGCKeepsIInv ==
    ASSUME IInv, StartGC
    PROVE  IInv'
<1>. DEFINE d == data[cur]
            v == valid[cur]
<1>1. /\ TypeOK /\ NeverOverflows /\ calls = <<>> /\ pc = "allocate"
      /\ request.size >= 0 /\ pc' = "roots" /\ root' = sp /\ cur' = 1 - cur
      /\ data' = [data EXCEPT ![1 - cur] = <<>>]
      /\ before' = [data |-> d, stack |-> SubSeq(stack, 1, sp), fill |-> request.fill]
      /\ UNCHANGED <<valid, stack, sp, live, request, calls>>
  BY NoCalls DEF StartGC, IInv
<1>2. WellFormed(d, v, cur, stack, live, request.fill)
  BY <1>1 DEF IInv, HeapInv
<1>3. /\ cur \in Heaps /\ 1 - cur \in Heaps /\ 1 - cur # cur
      /\ d \in Seq(Words) /\ request.fill \in Words
      /\ data'[cur] = d /\ data'[1 - cur] = <<>> /\ 1 - (1 - cur) = cur
  BY <1>1, HeapTypes DEF TypeOK, Heaps
<1>4. /\ before'.data = d /\ before'.fill = request.fill
      /\ before'.stack \in Seq(Words) /\ Len(before'.stack) = sp
      /\ \A s \in 1 .. sp : before'.stack[s] = stack[s]
  <2>1. /\ stack \in Seq(Words) /\ Len(stack) = NumSlots /\ sp \in 1 .. NumSlots
        /\ NumSlots \in Nat
    BY <1>1, BoundsAssumption DEF TypeOK, Slots
  <2>2. /\ SubSeq(stack, 1, sp) \in Seq(Words) /\ Len(SubSeq(stack, 1, sp)) = sp - 1 + 1
        /\ \A s \in 1 .. sp - 1 + 1 : SubSeq(stack, 1, sp)[s] = stack[1 + s - 1]
    BY <2>1, SubSeqProperties
  <2>3. sp - 1 + 1 = sp /\ \A s \in 1 .. sp : 1 + s - 1 = s
    BY <2>1
  <2>. QED BY <1>1, <2>2, <2>3
<1>5. TypeOK'
  <2>1. data' \in [Heaps -> Seq(Words)]
    <3>1. <<>> \in Seq(Words)
      OBVIOUS
    <3>. QED BY <1>1, <1>3, <3>1 DEF TypeOK
  <2>2. before' \in [data : Seq(Words), stack : Seq(Words), fill : Words]
    BY <1>1, <1>3, <1>4
  <2>. QED BY <1>1, <1>3, <2>1, <2>2 DEF TypeOK, Slots
<1>6. from' = cur /\ Found' = Objects(d, v)
  BY <1>1, <1>3, <1>4 DEF from, Found, Objects
<1>7. Gone' = {}
  <2>1. ASSUME NEW o \in Objects(d, v) PROVE d[o] # Number(-1)
    BY <1>2, <2>1, WordTypes DEF WellFormed, Shape
  <2>. QED BY <1>3, <1>6, <2>1 DEF Gone, Moved, Pointer
<1>8. SnapshotInv'
  <2>1. \A s \in live : before'.stack[s] = stack[s]
    BY <1>1, <1>4 DEF TypeOK
  <2>2. WellFormed(d, v, cur, before'.stack, live, request.fill)
    BY <1>2, <2>1 DEF WellFormed
  <2>3. sp <= sp
    BY <1>1 DEF TypeOK, Slots
  <2>. QED BY <1>1, <1>4, <1>6, <2>2, <2>3 DEF SnapshotInv
<1>9. OldHeapInv'
  BY <1>3, <1>4, <1>6, <1>7 DEF OldHeapInv
<1>10. NewHeapInv'
  <2>1. Len(data'[cur']) = 0
    BY <1>1, <1>3
  <2>2. WordsOf(Gone)' = {}
    BY <1>7 DEF WordsOf
  <2>3. (Len(data[cur]) = Cardinality(WordsOf(Gone)))'
    BY <2>1, <2>2, FS_EmptySet
  <2>4. 1 .. Len(data'[cur']) = {}
    BY <2>1
  <2>. QED BY <1>7, <2>3, <2>4 DEF NewHeapInv
<1>11. CallsInv(calls)'
  BY <1>1 DEF CallsInv
<1>12. WordsInv(calls)' /\ Gone' \subseteq Reachable'
  BY <1>7 DEF WordsInv
<1>13. RootsInv'
  BY <1>1, <1>4 DEF RootsInv
<1>14. NeverOverflows'
  <2>1. \A h \in Heaps : h = cur \/ h = 1 - cur
    BY <1>3 DEF Heaps
  <2>2. Len(<<>>) <= HeapSize
    BY BoundsAssumption
  <2>. QED BY <1>1, <1>3, <2>1, <2>2 DEF NeverOverflows, WordsAllocated
<1>15. CollectionInv(calls)'
  BY <1>8, <1>9, <1>10, <1>11, <1>12, <1>13 DEF CollectionInv
<1>. QED BY <1>1, <1>5, <1>14, <1>15 DEF IInv, HeapInv, Collecting

LEMMA RootsDoneKeepsIInv ==
    ASSUME IInv, RootsDone
    PROVE  IInv'
<1>1. /\ TypeOK /\ NeverOverflows /\ CollectionInv(calls) /\ calls = <<>>
      /\ pc = "roots" /\ pc' = "fill" /\ root = 0
      /\ UNCHANGED <<cur, data, valid, stack, sp, live, request, calls, root, before>>
  BY DEF RootsDone, memory, IInv, Collecting
<1>2. TypeOK' /\ NeverOverflows'
  BY <1>1 DEF TypeOK, NeverOverflows, WordsAllocated
<1>3. from' = from /\ Found' = Found /\ Gone' = Gone /\ Reachable' = Reachable
  BY <1>1 DEF from, Found, Gone, Moved, Pointer, Reachable, Roots, Refs, FoundFields
<1>4. SnapshotInv' /\ OldHeapInv' /\ NewHeapInv'
  BY <1>1, <1>3 DEF CollectionInv, SnapshotInv, OldHeapInv, NewHeapInv, CopyOf, Ext, WordsOf
<1>5. CallsInv(calls)'
  BY <1>1 DEF CallsInv
<1>6. WordsInv(calls)'
  BY <1>1, <1>3 DEF CollectionInv, WordsInv, CopyOf, Ext, Image, Seen, Filled
<1>7. RootsInv'
  <2>1. ASSUME NEW s \in 1 .. sp
        PROVE  stack[s] = Image(before.stack[s]) /\ Seen(before.stack[s])
    <3>1. ~(s <= root)
      BY <1>1, <2>1
    <3>. QED BY <1>1, <3>1 DEF CollectionInv, RootsInv
  <2>. QED BY <1>1, <1>3, <2>1 DEF CollectionInv, RootsInv, Image, Seen, CopyOf
<1>8. CollectionInv(calls)'
  BY <1>1, <1>3, <1>4, <1>5, <1>6, <1>7 DEF CollectionInv
<1>. QED BY <1>1, <1>2, <1>8 DEF IInv, HeapInv, Collecting

-----------------------------------------------------------------------------
(* gc_copy: the word it looks at.                                          *)

(* The word as it was when the collection started, for the activations cs. *)
Original(cs) ==
    IF cs # <<>> THEN before.data[cs[Len(cs)].old + cs[Len(cs)].at] ELSE RootWord

(* There is a word to copy.                                                *)
Pending(cs) ==
    IF cs # <<>> THEN cs[Len(cs)].at < cs[Len(cs)].n
    ELSE (pc = "roots" /\ root > 0) \/ pc = "fill"

LEMMA RootsAreReachable ==
    ASSUME NEW w \in {before.fill} \cup {before.stack[s] : s \in DOMAIN before.stack},
           w.h = from, w.i \in Found
    PROVE  w.i \in Reachable
<1>1. w.i \in Roots
  BY DEF Roots, Refs
<1>. QED BY <1>1 DEF Reachable

LEMMA ReachableIsClosed ==
    ASSUME NEW o \in Reachable, NEW w \in FoundFields(o), w.h = from, w.i \in Found
    PROVE  w.i \in Reachable
<1>1. w.i \in Refs(FoundFields(o))
  BY DEF Refs
<1>2. ASSUME NEW S \in SUBSET Found, Roots \subseteq S,
             \A p \in S : Refs(FoundFields(p)) \subseteq S
      PROVE  w.i \in S
  BY <1>1, <1>2 DEF Reachable
<1>. QED BY <1>2 DEF Reachable

(* The activation on top.                                                  *)
LEMMA TopFacts ==
    ASSUME TypeOK, NEW cs \in Seq(Activations), cs # <<>>, CollectionInv(cs),
           NEW f, f = cs[Len(cs)]
    PROVE  /\ Len(cs) \in Nat \ {0} /\ Len(cs) \in DOMAIN cs /\ DOMAIN cs = 1 .. Len(cs)
           /\ f \in Activations /\ f.old \in Gone /\ f.old \in Found
           /\ f.new = CopyOf(f.old) /\ f.n = Ext(f.old)
           /\ f.first = before.data[f.old + 1]
           /\ f.at \in Nat /\ 1 <= f.at /\ f.at <= f.n
<1>1. Len(cs) \in Nat \ {0} /\ Len(cs) \in DOMAIN cs /\ DOMAIN cs = 1 .. Len(cs)
  BY EmptySeq
<1>2. f \in Activations
  BY <1>1
<1>3. CallsInv(cs)
  BY DEF CollectionInv
<1>. QED BY <1>1, <1>2, <1>3, GoneFacts DEF CallsInv, Activations

LEMMA OriginalFacts ==
    ASSUME TypeOK, NEW cs \in Seq(Activations), CollectionInv(cs), Pending(cs)
    PROVE  /\ Original(cs) \in Words
           /\ (Original(cs).h = from /\ Original(cs).i \in Found)
                 => Original(cs).i \in Reachable
<1>. DEFINE w == Original(cs)
<1>1. SnapshotInv /\ Gone \subseteq Reachable /\ from # -1
  BY DEF CollectionInv, TypeOK, Heaps, from
<1>2. CASE cs # <<>>
  <2>. DEFINE f == cs[Len(cs)]
  <2>1. /\ f.old \in Gone /\ f.old \in Found /\ f.n = Ext(f.old)
        /\ f.at \in Nat /\ 1 <= f.at /\ f.at < f.n
    BY <1>2, TopFacts DEF Pending
  <2>2. w = before.data[f.old + f.at]
    BY <1>2 DEF Original
  <2>. HIDE DEF f, w
  <2>3. /\ Ext(f.old) \in Nat /\ before.data[f.old].i \in Nat
        /\ \A j \in 1 .. Ext(f.old) - 1 : before.data[f.old + j] \in Words
        /\ before.data[f.old].i = 0 => before.data[f.old + 1].h = -1
    BY <1>1, <2>1, FoundFacts
  <2>4. f.at \in 1 .. Ext(f.old) - 1
    BY <2>1, <2>3
  <2>5. CASE before.data[f.old].i = 0
    <3>1. f.at = 1
      BY <2>1, <2>5 DEF Ext, Extent
    <3>. QED BY <1>1, <2>2, <2>3, <2>4, <2>5, <3>1 DEF w
  <2>6. CASE before.data[f.old].i # 0
    <3>1. f.at \in 1 .. before.data[f.old].i
      BY <2>1, <2>3, <2>6 DEF Ext, Extent
    <3>2. w \in FoundFields(f.old)
      BY <2>2, <3>1 DEF FoundFields
    <3>3. (w.h = from /\ w.i \in Found) => w.i \in Reachable
      BY <1>1, <2>1, <3>2, ReachableIsClosed
    <3>. QED BY <2>2, <2>3, <2>4, <3>3 DEF w
  <2>. QED BY <2>5, <2>6
<1>3. CASE cs = <<>>
  <2>1. w \in {before.fill} \cup {before.stack[s] : s \in DOMAIN before.stack} /\ w \in Words
    <3>1. CASE pc = "roots"
      <4>1. root \in 1 .. sp /\ root \in DOMAIN before.stack
        BY <1>1, <1>3, <3>1 DEF Pending, SnapshotInv, TypeOK, Slots
      <4>. QED BY <1>3, <3>1, <4>1 DEF Original, RootWord, TypeOK
    <3>2. CASE pc # "roots"
      BY <1>3, <3>2 DEF Original, RootWord, TypeOK
    <3>. QED BY <3>1, <3>2
  <2>. HIDE DEF w
  <2>2. (w.h = from /\ w.i \in Found) => w.i \in Reachable
    BY <2>1, RootsAreReachable
  <2>. QED BY <2>1, <2>2 DEF w
<1>. QED BY <1>2, <1>3

(* gc_copy gets the word as it was.                                        *)
LEMMA ArgumentIsOriginal ==
    ASSUME TypeOK, CollectionInv(calls), Copying
    PROVE  Pending(calls) /\ Argument = Original(calls)
<1>1. Pending(calls)
  BY DEF Copying, Pending, Top
<1>2. SnapshotInv /\ OldHeapInv /\ RootsInv
  BY DEF CollectionInv
<1>3. CASE calls # <<>>
  <2>. DEFINE f == calls[Len(calls)]
  <2>0. calls \in Seq(Activations) /\ f.at < f.n
    BY <1>1, <1>3 DEF TypeOK, Pending
  <2>1. /\ f.old \in Gone /\ f.old \in Found /\ f.n = Ext(f.old)
        /\ f.first = before.data[f.old + 1]
        /\ f.at \in Nat /\ 1 <= f.at /\ f.at < f.n
    BY <1>3, <2>0, TopFacts
  <2>2. Argument = IF f.at = 1 THEN f.first ELSE data[from][f.old + f.at]
    BY <1>3 DEF Argument, Top
  <2>3. Original(calls) = before.data[f.old + f.at]
    BY <1>3 DEF Original
  <2>. HIDE DEF f
  <2>4. CASE f.at # 1
    <3>1. f.old \in Nat /\ Ext(f.old) \in Nat
      BY <1>2, <2>1, FoundFacts
    <3>2. /\ f.old + f.at \in f.old .. f.old + Ext(f.old) - 1
          /\ ~(f.old + f.at <= f.old + 1)
      BY <2>1, <2>4, <3>1
    <3>. QED BY <1>1, <1>2, <2>1, <2>2, <2>3, <2>4, <3>2 DEF OldHeapInv
  <2>. QED BY <1>1, <2>1, <2>2, <2>3, <2>4
<1>4. CASE calls = <<>> /\ pc = "roots"
  <2>1. root \in 1 .. sp /\ root <= root
    BY <1>1, <1>2, <1>4 DEF Pending, SnapshotInv, TypeOK, Slots
  <2>. QED BY <1>1, <1>2, <1>4, <2>1 DEF Argument, Original, RootWord, RootsInv
<1>5. CASE calls = <<>> /\ pc # "roots"
  BY <1>1, <1>2, <1>5 DEF Argument, Original, RootWord, RootsInv, Pending
<1>. QED BY <1>3, <1>4, <1>5

LEMMA ObjectsOfOldHeap ==
    ASSUME OldHeapInv, NEW w
    PROVE  IsObject(from, w) <=> w.h = from /\ w.i \in Found
  BY DEF OldHeapInv, IsObject, Found, WordsAllocated

-----------------------------------------------------------------------------
(* gc_copy: the word it returns.                                           *)

(* What does not change while the snapshot does not.                       *)
LEMMA SnapshotFrame ==
    ASSUME UNCHANGED <<cur, before>>, valid'[from] = valid[from]
    PROVE  /\ from' = from /\ Found' = Found /\ Roots' = Roots /\ Reachable' = Reachable
           /\ \A o : Ext(o)' = Ext(o)
           /\ \A S : WordsOf(S)' = WordsOf(S)
<1>1. from' = from /\ Found' = Found
  BY DEF from, Found
<1>2. \A S : Refs(S)' = Refs(S)
  BY <1>1 DEF Refs
<1>3. \A o : FoundFields(o)' = FoundFields(o)
  BY DEF FoundFields
<1>4. Roots' = Roots
  BY <1>1 DEF Roots, Refs
<1>5. Reachable' = Reachable
  BY <1>1, <1>4 DEF Reachable, Refs, FoundFields
<1>. QED BY <1>1, <1>4, <1>5 DEF Ext, WordsOf

(* A step that leaves the old heap alone.                                  *)
LEMMA OldHeapFrame ==
    ASSUME UNCHANGED <<cur, before>>, valid'[from] = valid[from], data'[from] = data[from]
    PROVE  /\ from' = from /\ Found' = Found /\ Reachable' = Reachable /\ Gone' = Gone
           /\ \A o : Ext(o)' = Ext(o) /\ CopyOf(o)' = CopyOf(o)
           /\ \A w : Image(w)' = Image(w) /\ (Seen(w)' <=> Seen(w))
           /\ WordsOf(Gone)' = WordsOf(Gone)
<1>1. from' = from /\ Found' = Found /\ Reachable' = Reachable /\ \A o : Ext(o)' = Ext(o)
  BY SnapshotFrame
<1>2. Gone' = Gone
  BY <1>1 DEF Gone, Moved, Pointer
<1>3. \A o : CopyOf(o)' = CopyOf(o)
  BY <1>1 DEF CopyOf
<1>4. \A w : Image(w)' = Image(w) /\ (Seen(w)' <=> Seen(w))
  BY <1>1, <1>2 DEF Image, Seen, CopyOf
<1>5. WordsOf(Gone)' = WordsOf(Gone)
  BY <1>2 DEF WordsOf
<1>. QED BY <1>1, <1>2, <1>3, <1>4, <1>5

LEMMA GoneSpans ==
    ASSUME TypeOK, SnapshotInv, NewHeapInv, NEW o \in Gone
    PROVE  /\ o \in Found /\ Ext(o) \in Nat /\ Ext(o) >= 2
           /\ CopyOf(o) \in Nat /\ CopyOf(o) >= 1
           /\ CopyOf(o) + Ext(o) - 1 <= Len(data[cur]) /\ Len(data[cur]) \in Nat
           /\ data[cur][CopyOf(o)] = before.data[o]
           /\ \A p \in Gone : p # o => \/ CopyOf(o) + Ext(o) <= CopyOf(p)
                                       \/ CopyOf(p) + Ext(p) <= CopyOf(o)
<1>1. o \in Found /\ Ext(o) \in Nat /\ Ext(o) >= 2
  BY GoneFacts, FoundFacts
<1>2. Len(data[cur]) \in Nat
  BY HeapTypes DEF TypeOK
<1>. QED BY <1>1, <1>2 DEF NewHeapInv

(* To gc or to allocate_helper.                                            *)
LEMMA DeliverToRoot ==
    ASSUME TypeOK, NeverOverflows, CollectionInv(<<>>), Pending(<<>>),
           Seen(Original(<<>>)), Deliver(<<>>, Image(Original(<<>>))),
           Image(Original(<<>>)) \in Words,
           UNCHANGED <<cur, sp, live, before>>
    PROVE  IInv'
<1>. DEFINE w == Original(<<>>)
<1>1. /\ UNCHANGED <<cur, data, valid, before, sp, live>> /\ calls' = <<>>
      /\ w = RootWord
      /\ SnapshotInv /\ OldHeapInv /\ NewHeapInv /\ WordsInv(<<>>) /\ RootsInv
      /\ Gone \subseteq Reachable
  BY DEF Deliver, Original, CollectionInv
<1>2. /\ from' = from /\ Found' = Found /\ Reachable' = Reachable /\ Gone' = Gone
      /\ \A o : Ext(o)' = Ext(o) /\ CopyOf(o)' = CopyOf(o)
      /\ \A x : Image(x)' = Image(x) /\ (Seen(x)' <=> Seen(x))
      /\ WordsOf(Gone)' = WordsOf(Gone)
  BY <1>1, OldHeapFrame DEF from
<1>3. sp \in Nat /\ root \in Nat /\ Len(before.stack) = sp
  BY <1>1 DEF TypeOK, Slots, SnapshotInv
<1>4. CASE pc = "roots"
  <2>1. /\ stack' = [stack EXCEPT ![root] = Image(w)] /\ root' = root - 1
        /\ UNCHANGED <<request, pc>> /\ root > 0 /\ root <= sp
    BY <1>1, <1>4 DEF Deliver, Pending, SnapshotInv
  <2>2. root \in Slots /\ root \in 1 .. sp
    BY <1>3, <2>1, BoundsAssumption DEF TypeOK, Slots
  <2>3. w = before.stack[root]
    BY <1>1, <1>4 DEF RootWord
  <2>. HIDE DEF w
  <2>4. TypeOK'
    BY <1>1, <2>1, <2>2 DEF TypeOK, w
  <2>5. RootsInv'
    <3>1. ASSUME NEW s \in 1 .. sp, s <= root - 1
          PROVE  stack'[s] = before.stack[s]
      <4>1. s # root /\ s <= root /\ s \in Slots
        BY <1>3, <3>1, BoundsAssumption DEF TypeOK, Slots
      <4>. QED BY <1>1, <1>4, <2>1, <3>1, <4>1 DEF RootsInv, TypeOK
    <3>2. ASSUME NEW s \in 1 .. sp, ~(s <= root - 1)
          PROVE  stack'[s] = Image(before.stack[s]) /\ Seen(before.stack[s])
      <4>1. CASE s = root
        BY <2>1, <2>2, <2>3, <4>1 DEF TypeOK, w
      <4>2. CASE s # root
        <5>1. ~(s <= root) /\ s \in Slots
          BY <1>3, <3>2, <4>2, BoundsAssumption DEF TypeOK, Slots
        <5>. QED BY <1>1, <1>4, <2>1, <3>2, <4>2, <5>1 DEF RootsInv, TypeOK
      <4>. QED BY <4>1, <4>2
    <3>3. request.fill = before.fill
      BY <1>1, <1>4 DEF RootsInv
    <3>. QED BY <1>1, <1>2, <1>4, <2>1, <3>1, <3>2, <3>3 DEF RootsInv
  <2>6. SnapshotInv'
    BY <1>1, <1>2, <1>3, <2>1 DEF SnapshotInv
  <2>7. Collecting'
    BY <1>4, <2>1 DEF Collecting
  <2>. QED BY <1>1, <1>2, <1>4, <2>1, <2>4, <2>5, <2>6, <2>7
           DEF IInv, HeapInv, Collecting, CollectionInv, NeverOverflows, WordsAllocated,
               OldHeapInv, NewHeapInv, WordsInv, CallsInv, Filled
<1>5. CASE pc # "roots"
  <2>1. /\ request' = [request EXCEPT !.fill = Image(w)] /\ pc' = "retry"
        /\ UNCHANGED <<stack, root>> /\ pc = "fill" /\ w = before.fill
    BY <1>1, <1>5 DEF Deliver, Pending, RootWord
  <2>2. request'.fill = Image(w) /\ request'.size = request.size
    BY <2>1 DEF TypeOK
  <2>. HIDE DEF w
  <2>3. TypeOK'
    <3>1. Image(w) \in Words
      BY DEF w
    <3>2. request' \in [size : Int, fill : Words]
      BY <2>1, <3>1 DEF TypeOK
    <3>. QED BY <1>1, <2>1, <3>2 DEF TypeOK
  <2>4. RootsInv'
    <3>1. ASSUME NEW s \in 1 .. sp
          PROVE  stack[s] = Image(before.stack[s]) /\ Seen(before.stack[s])
      BY <1>1, <2>1, <3>1 DEF RootsInv
    <3>2. request'.fill = Image(before.fill) /\ Seen(before.fill)
      BY <2>1, <2>2 DEF w
    <3>. QED BY <1>1, <1>2, <2>1, <3>1, <3>2 DEF RootsInv
  <2>5. SnapshotInv'
    BY <1>1, <1>2, <1>3, <2>1, <2>2 DEF SnapshotInv
  <2>6. Collecting'
    BY <2>1 DEF Collecting
  <2>. QED BY <1>1, <1>2, <2>1, <2>3, <2>4, <2>5, <2>6
           DEF IInv, HeapInv, Collecting, CollectionInv, NeverOverflows, WordsAllocated,
               OldHeapInv, NewHeapInv, WordsInv, CallsInv, Filled
<1>. QED BY <1>4, <1>5

(* To the activation below: the word is put in the copy.                   *)
LEMMA DeliverToCopy ==
    ASSUME TypeOK, NeverOverflows, NEW cs \in Seq(Activations), cs # <<>>,
           CollectionInv(cs), Pending(cs),
           Seen(Original(cs)), Deliver(cs, Image(Original(cs))),
           Image(Original(cs)) \in Words,
           UNCHANGED <<cur, sp, live, before>>
    PROVE  IInv'
<1>. DEFINE L == Len(cs)
            f == cs[Len(cs)]
            o == cs[Len(cs)].old
            j == cs[Len(cs)].at
            c == CopyOf(cs[Len(cs)].old)
            w == before.data[cs[Len(cs)].old + cs[Len(cs)].at]
            d == data[cur]
            e == data'[cur]
            v == valid[cur]
            u == valid'[cur]
<1>1. /\ L \in Nat \ {0} /\ L \in 1 .. L /\ DOMAIN cs = 1 .. L
      /\ f \in Activations /\ o \in Gone /\ o \in Found
      /\ f.new = c /\ f.n = Ext(o)
      /\ j \in Nat /\ 1 <= j /\ j < Ext(o)
  BY TopFacts DEF Pending
<1>2. /\ w = Original(cs) /\ Seen(w) /\ Image(w) \in Words
  BY DEF Original
<1>3. /\ data' = [data EXCEPT ![cur][c + j] = Image(w)]
      /\ valid' = [valid EXCEPT ![cur] = (@ \cup {c}) \ {c + j}]
      /\ calls' = [cs EXCEPT ![L].at = @ + 1]
      /\ UNCHANGED <<stack, request, root, pc>>
  BY <1>1, <1>2 DEF Deliver
<1>4. /\ SnapshotInv /\ OldHeapInv /\ NewHeapInv /\ CallsInv(cs) /\ WordsInv(cs) /\ RootsInv
      /\ Gone \subseteq Reachable
  BY DEF CollectionInv
<1>5. /\ c \in Nat /\ c >= 1 /\ c + Ext(o) - 1 <= Len(d) /\ Len(d) \in Nat
      /\ Ext(o) \in Nat /\ Ext(o) >= 2
      /\ c + j \in 1 .. Len(d) /\ c + j # c
  <2>1. /\ c \in Nat /\ c >= 1 /\ c + Ext(o) - 1 <= Len(d) /\ Len(d) \in Nat
        /\ Ext(o) \in Nat /\ Ext(o) >= 2
    BY <1>1, <1>4, GoneSpans
  <2>. QED BY <1>1, <2>1
<1>6. /\ cur \in Heaps /\ from \in Heaps /\ from # cur /\ d \in Seq(Words)
      /\ data \in [Heaps -> Seq(Words)] /\ valid \in [Heaps -> SUBSET Int]
  BY HeapTypes DEF TypeOK, from
<1>. HIDE DEF f, o, j, c, w, L
<1>7. /\ e \in Seq(Words) /\ Len(e) = Len(d) /\ e[c + j] = Image(w)
      /\ \A i \in 1 .. Len(d) : i # c + j => e[i] = d[i]
      /\ data'[from] = data[from] /\ data' \in [Heaps -> Seq(Words)]
      /\ \A h \in Heaps : Len(data'[h]) = Len(data[h])
  BY <1>2, <1>3, <1>5, <1>6
<1>8. /\ u = (v \cup {c}) \ {c + j} /\ valid'[from] = valid[from]
      /\ valid' \in [Heaps -> SUBSET Int]
  BY <1>3, <1>5, <1>6
<1>9. /\ from' = from /\ Found' = Found /\ Reachable' = Reachable /\ Gone' = Gone
      /\ \A p : Ext(p)' = Ext(p) /\ CopyOf(p)' = CopyOf(p)
      /\ \A x : Image(x)' = Image(x) /\ (Seen(x)' <=> Seen(x))
      /\ WordsOf(Gone)' = WordsOf(Gone)
  BY <1>7, <1>8, OldHeapFrame
<1>10. /\ calls' \in Seq(Activations) /\ Len(calls') = L /\ DOMAIN calls' = 1 .. L
       /\ \A k \in 1 .. L : k # L => calls'[k] = cs[k]
       /\ calls'[L].old = o /\ calls'[L].new = c /\ calls'[L].n = Ext(o)
       /\ calls'[L].first = cs[L].first /\ calls'[L].at = j + 1
       /\ calls' # <<>>
  <2>1. cs[L] = f /\ f.old = o /\ f.at = j
    BY DEF f, o, j, L
  <2>2. [f EXCEPT !.at = @ + 1] \in Activations
    <3>1. f.at \in Nat /\ f.at + 1 \in Nat /\ f \in Activations
      BY <1>1, <2>1
    <3>. HIDE DEF f
    <3>. QED BY <3>1 DEF Activations
  <2>3. calls' = [cs EXCEPT ![L] = [f EXCEPT !.at = @ + 1]]
    BY <1>3, <2>1
  <2>. QED BY <1>1, <2>1, <2>2, <2>3 DEF Activations
<1>. HIDE DEF d, e, v, u
<1>11. TypeOK'
  BY <1>3, <1>7, <1>8, <1>10 DEF TypeOK
<1>12. SnapshotInv' /\ OldHeapInv' /\ RootsInv'
  BY <1>3, <1>4, <1>7, <1>8, <1>9 DEF SnapshotInv, OldHeapInv, RootsInv
<1>13. \A p \in Gone : /\ CopyOf(p) # c + j
                       /\ \A m \in 1 .. Ext(p) - 1 :
                            p # o => CopyOf(p) + m # c + j /\ CopyOf(p) + m # c
  <2>. SUFFICES ASSUME NEW p \in Gone, p # o
                PROVE  /\ CopyOf(p) # c + j
                       /\ \A m \in 1 .. Ext(p) - 1 :
                             CopyOf(p) + m # c + j /\ CopyOf(p) + m # c
    BY <1>5 DEF c, o
  <2>1. /\ c + Ext(o) <= CopyOf(p) \/ CopyOf(p) + Ext(p) <= c
        /\ CopyOf(p) \in Nat /\ Ext(p) \in Nat /\ Ext(p) >= 2
    BY <1>1, <1>4, GoneSpans DEF c, o
  <2>. QED BY <1>1, <1>5, <2>1
<1>14. NewHeapInv'
  <2>1. ASSUME NEW p \in Gone PROVE e[CopyOf(p)] = before.data[p]
    <3>1. CopyOf(p) \in 1 .. Len(d) /\ d[CopyOf(p)] = before.data[p]
      BY <1>4, GoneSpans DEF d
    <3>. QED BY <1>7, <1>13, <3>1
  <2>. QED BY <1>4, <1>7, <1>9, <2>1 DEF NewHeapInv, d, e
<1>15. CallsInv(calls)'
  <2>1. ASSUME NEW k \in 1 .. L
        PROVE  /\ calls'[k].old = cs[k].old /\ calls'[k].new = cs[k].new
               /\ calls'[k].n = cs[k].n /\ calls'[k].first = cs[k].first
               /\ k # L => calls'[k].at = cs[k].at
    <3>1. cs[L] = f /\ f.old = o
      BY DEF f, o, L
    <3>. QED BY <1>1, <1>10, <3>1
  <2>2. ASSUME NEW k \in 1 .. L
        PROVE  /\ calls'[k].old \in Gone /\ calls'[k].new = CopyOf(calls'[k].old)
               /\ calls'[k].n = Ext(calls'[k].old)
               /\ calls'[k].first = before.data[calls'[k].old + 1]
               /\ 1 <= calls'[k].at /\ calls'[k].at <= calls'[k].n
               /\ k # L => calls'[k].at < calls'[k].n
               /\ k # 1 => before.data[calls'[k - 1].old + calls'[k - 1].at]
                              = Pointer(from, calls'[k].old)
    <3>1. /\ cs[k].old \in Gone /\ cs[k].new = CopyOf(cs[k].old)
          /\ cs[k].n = Ext(cs[k].old)
          /\ cs[k].first = before.data[cs[k].old + 1]
          /\ 1 <= cs[k].at /\ cs[k].at <= cs[k].n
          /\ k # L => cs[k].at < cs[k].n
          /\ k # 1 => before.data[cs[k - 1].old + cs[k - 1].at] = Pointer(from, cs[k].old)
      BY <1>1, <1>4 DEF CallsInv, L
    <3>2. 1 <= calls'[k].at /\ calls'[k].at <= calls'[k].n
      BY <1>1, <1>5, <1>10, <2>1, <3>1
    <3>3. k # 1 => k - 1 \in 1 .. L /\ k - 1 # L
      BY <1>1
    <3>. QED BY <2>1, <3>1, <3>2, <3>3
  <2>3. \A k, m \in 1 .. L : calls'[k].old = calls'[m].old => k = m
    BY <1>1, <1>4, <2>1 DEF CallsInv
  <2>4. /\ RootWord = Pointer(from, calls'[1].old)
        /\ (pc = "roots" /\ root > 0) \/ pc = "fill"
    BY <1>1, <1>4, <2>1 DEF CallsInv
  <2>5. RootWord' = RootWord
    BY <1>3 DEF RootWord
  <2>6. ASSUME NEW k \in 1 .. L
        PROVE  /\ (calls[k].old \in Gone)' /\ (calls[k].new = CopyOf(calls[k].old))'
               /\ (calls[k].n = Ext(calls[k].old))'
               /\ (calls[k].first = before.data[calls[k].old + 1])'
               /\ (1 <= calls[k].at /\ calls[k].at <= calls[k].n)'
               /\ (k # Len(calls) => calls[k].at < calls[k].n)'
               /\ (k # 1 => before.data[calls[k - 1].old + calls[k - 1].at]
                              = Pointer(from, calls[k].old))'
    <3>1. (calls[k].new = CopyOf(calls[k].old))' /\ (calls[k].n = Ext(calls[k].old))'
      BY <1>3, <1>7, <1>9, <2>2 DEF CopyOf, Ext
    <3>. QED BY <1>3, <1>9, <1>10, <2>2, <3>1 DEF Pointer
  <2>7. (\A k, m \in DOMAIN calls : calls[k].old = calls[m].old => k = m)'
    BY <1>10, <2>3
  <2>8. (calls # <<>> => /\ RootWord = Pointer(from, calls[1].old)
                         /\ (pc = "roots" /\ root > 0) \/ pc = "fill")'
    BY <1>3, <1>9, <2>4, <2>5 DEF Pointer
  <2>9. DOMAIN calls' = 1 .. L
    BY <1>10
  <2>. QED BY <2>6, <2>7, <2>8, <2>9 DEF CallsInv
<1>16. WordsInv(calls)'
  <2>1. ASSUME NEW p \in Gone, NEW m \in 1 .. Ext(p) - 1,
               \A k \in 1 .. L : calls'[k].old = p => m < calls'[k].at
        PROVE  /\ e[CopyOf(p) + m] = Image(before.data[p + m])
               /\ Seen(before.data[p + m])
               /\ CopyOf(p) \in u /\ CopyOf(p) + m \notin u
    <3>0. /\ CopyOf(p) \in Nat /\ CopyOf(p) >= 1 /\ Ext(p) \in Nat
          /\ CopyOf(p) + Ext(p) - 1 <= Len(d)
      BY <1>4, GoneSpans DEF d
    <3>1. CopyOf(p) + m \in 1 .. Len(d)
      BY <1>5, <3>0
    <3>2. CASE p = o /\ m = j
      <4>1. CopyOf(p) = c /\ before.data[p + m] = w
        BY <3>2 DEF c, w, o, j
      <4>. QED BY <1>2, <1>5, <1>7, <1>8, <3>2, <4>1
    <3>3. CASE ~(p = o /\ m = j)
      <4>1. Filled(cs, p, m)
        <5>. SUFFICES ASSUME NEW k \in 1 .. L, cs[k].old = p PROVE m < cs[k].at
          BY <1>1 DEF Filled
        <5>1. CASE k # L
          BY <1>10, <2>1, <5>1
        <5>2. CASE k = L
          <6>1. p = o /\ cs[k].at = j
            BY <5>2 DEF o, j, L
          <6>2. m < j + 1 /\ m # j
            BY <1>10, <2>1, <3>3, <5>2, <6>1
          <6>. QED BY <1>1, <3>0, <6>1, <6>2
        <5>. QED BY <5>1, <5>2
      <4>2. /\ d[CopyOf(p) + m] = Image(before.data[p + m])
            /\ Seen(before.data[p + m])
            /\ CopyOf(p) \in v /\ CopyOf(p) + m \notin v
        BY <1>4, <4>1 DEF WordsInv, d, v
      <4>3. CopyOf(p) + m # c + j /\ CopyOf(p) + m # c /\ CopyOf(p) # c + j
        <5>1. CASE p = o
          <6>1. CopyOf(p) = c
            BY <5>1 DEF c, o
          <6>. QED BY <1>1, <1>5, <3>0, <3>3, <5>1, <6>1
        <5>2. CASE p # o
          BY <1>13, <5>2
        <5>. QED BY <5>1, <5>2
      <4>. QED BY <1>7, <1>8, <3>1, <4>2, <4>3
    <3>. QED BY <3>2, <3>3
  <2>2. \A p, m : Filled(calls, p, m)' <=>
                    \A k \in 1 .. L : calls'[k].old = p => m < calls'[k].at
    BY <1>10 DEF Filled
  <2>. QED BY <1>3, <1>9, <2>1, <2>2 DEF WordsInv, e, u
<1>17. Collecting /\ Collecting'
  BY <1>1, <1>3, <1>4 DEF CallsInv, Collecting
<1>18. NeverOverflows' /\ HeapInv'
  BY <1>7, <1>17 DEF NeverOverflows, WordsAllocated, HeapInv, Collecting
<1>. QED BY <1>4, <1>9, <1>11, <1>12, <1>14, <1>15, <1>16, <1>17, <1>18
         DEF IInv, CollectionInv

LEMMA ImageType ==
    ASSUME TypeOK, NewHeapInv, NEW w \in Words, Seen(w)
    PROVE  Image(w) \in Words
<1>1. CASE w.h = from /\ w.i \in Found
  <2>1. CopyOf(w.i) \in Int /\ cur \in Heaps
    BY <1>1 DEF Seen, NewHeapInv, TypeOK
  <2>. QED BY <1>1, <2>1, WordTypes DEF Image
<1>2. CASE ~(w.h = from /\ w.i \in Found)
  BY <1>2 DEF Image
<1>. QED BY <1>1, <1>2

LEMMA DeliverKeepsIInv ==
    ASSUME TypeOK, NeverOverflows, NEW cs \in Seq(Activations),
           CollectionInv(cs), Pending(cs),
           Seen(Original(cs)), Deliver(cs, Image(Original(cs))),
           UNCHANGED <<cur, sp, live, before>>
    PROVE  IInv'
<1>1. Image(Original(cs)) \in Words
  BY OriginalFacts, ImageType DEF CollectionInv
<1>2. CASE cs = <<>>
  BY <1>1, <1>2, DeliverToRoot
<1>3. CASE cs # <<>>
  BY <1>1, <1>3, DeliverToCopy
<1>. QED BY <1>2, <1>3

LEMMA CopyWordKeepsIInv ==
    ASSUME IInv, CopyWord
    PROVE  IInv'
<1>. DEFINE w == Original(calls)
<1>1. TypeOK /\ NeverOverflows /\ calls \in Seq(Activations)
  BY DEF IInv, TypeOK
<1>2. Copying /\ UNCHANGED <<cur, sp, live, before>>
  BY DEF CopyWord
<1>3. CollectionInv(calls)
  BY <1>2 DEF IInv, Collecting, Copying
<1>4. Pending(calls) /\ Argument = w /\ OldHeapInv
  BY <1>1, <1>2, <1>3, ArgumentIsOriginal DEF CollectionInv
<1>5. Seen(w) /\ Deliver(calls, Image(w))
  <2>1. CASE ~IsObject(from, w) /\ Deliver(calls, w)
    <3>1. Image(w) = w /\ Seen(w)
      BY <1>4, <2>1, ObjectsOfOldHeap DEF Image, Seen
    <3>. QED BY <2>1, <3>1
  <2>2. CASE IsObject(from, w) /\ Moved(w) /\ Deliver(calls, data[from][w.i + 1])
    <3>1. w.h = from /\ w.i \in Found /\ w.i \in Gone
      BY <1>4, <2>2, ObjectsOfOldHeap DEF Gone, Moved, Pointer
    <3>2. data[from][w.i + 1] = Image(w) /\ Seen(w)
      BY <1>4, <3>1 DEF OldHeapInv, Image, Seen
    <3>. QED BY <2>2, <3>2
  <2>. QED BY <1>4, <2>1, <2>2 DEF CopyWord
<1>. QED BY <1>1, <1>2, <1>3, <1>4, <1>5, DeliverKeepsIInv

(* The activations without the one on top.                                 *)
Rest(cs) == SubSeq(cs, 1, Len(cs) - 1)

LEMMA Popped ==
    ASSUME NEW cs \in Seq(Activations), NEW n, n = Len(cs), n # 0,
           NEW rest, rest = Rest(cs)
    PROVE  /\ rest \in Seq(Activations) /\ Len(rest) = n - 1 /\ DOMAIN rest = 1 .. n - 1
           /\ \A k \in 1 .. n - 1 : /\ rest[k] = cs[k]
                                    /\ k \in 1 .. n /\ k # n
                                    /\ k # 1 => k - 1 \in 1 .. n - 1
           /\ n # 1 => n - 1 \in 1 .. n - 1
           /\ \A k \in 1 .. n : k # n => k \in 1 .. n - 1
           /\ rest = <<>> <=> n = 1
<1>0. n \in Nat \ {0}
  OBVIOUS
<1>1. /\ \A k \in 1 .. n - 1 : k \in 1 .. n /\ k # n /\ (k # 1 => k - 1 \in 1 .. n - 1)
      /\ n # 1 => n - 1 \in 1 .. n - 1
      /\ \A k \in 1 .. n : k # n => k \in 1 .. n - 1
  BY <1>0
<1>2. \A k \in 1 .. n - 1 : cs[k] \in Activations
  BY <1>1
<1>3. /\ rest \in Seq(Activations)
      /\ Len(rest) = IF 1 <= n - 1 THEN n - 1 - 1 + 1 ELSE 0
      /\ \A k \in 1 .. n - 1 - 1 + 1 : rest[k] = cs[1 + k - 1]
  BY <1>0, <1>2, SubSeqProperties DEF Rest
<1>4. /\ n - 1 - 1 + 1 = n - 1 /\ (~(1 <= n - 1) => n - 1 = 0)
      /\ \A k \in 1 .. n - 1 : 1 + k - 1 = k
  BY <1>0
<1>5. Len(rest) = n - 1 /\ \A k \in 1 .. n - 1 : rest[k] = cs[k]
  BY <1>0, <1>3, <1>4
<1>6. rest = <<>> <=> n = 1
  <2>1. rest = <<>> <=> Len(rest) = 0
    BY <1>3, EmptySeq
  <2>. QED BY <1>0, <1>5, <2>1
<1>7. DOMAIN rest = 1 .. n - 1
  <2>1. DOMAIN rest = 1 .. Len(rest)
    BY <1>3
  <2>. QED BY <1>5, <2>1
<1>8. rest \in Seq(Activations)
  BY <1>3
<1>. QED BY <1>1, <1>5, <1>6, <1>7, <1>8, Zenon

LEMMA CopyReturnKeepsIInv ==
    ASSUME IInv, CopyReturn
    PROVE  IInv'
<1>. DEFINE L == Len(calls)
            rest == SubSeq(calls, 1, Len(calls) - 1)
            o == calls[Len(calls)].old
<1>1. /\ TypeOK /\ NeverOverflows /\ calls \in Seq(Activations) /\ calls # <<>>
      /\ UNCHANGED <<cur, sp, live, before>>
      /\ calls[L].at = calls[L].n /\ Deliver(rest, Pointer(cur, calls[L].new))
  BY DEF IInv, TypeOK, CopyReturn, Top
<1>2. CollectionInv(calls)
  BY <1>1 DEF IInv
<1>3. /\ L \in Nat \ {0} /\ L \in 1 .. L /\ DOMAIN calls = 1 .. L
      /\ o \in Gone /\ o \in Found /\ calls[L].new = CopyOf(o)
      /\ calls[L].n = Ext(o)
  BY <1>1, <1>2, TopFacts
<1>4. /\ rest \in Seq(Activations) /\ Len(rest) = L - 1 /\ DOMAIN rest = 1 .. L - 1
      /\ \A k \in 1 .. L - 1 : /\ rest[k] = calls[k]
                               /\ k \in 1 .. L /\ k # L
                               /\ k # 1 => k - 1 \in 1 .. L - 1
      /\ L # 1 => L - 1 \in 1 .. L - 1
      /\ \A k \in 1 .. L : k # L => k \in 1 .. L - 1
      /\ rest = <<>> <=> L = 1
  <2>1. L = Len(calls) /\ rest = Rest(calls)
    BY DEF Rest
  <2>2. calls \in Seq(Activations) /\ L # 0
    BY <1>1, <1>3
  <2>. HIDE DEF L, rest
  <2>. QED BY <2>1, <2>2, Popped, SMTT(60)
<1>5. /\ SnapshotInv /\ OldHeapInv /\ NewHeapInv /\ CallsInv(calls) /\ WordsInv(calls)
      /\ RootsInv /\ Gone \subseteq Reachable
  BY <1>2 DEF CollectionInv
<1>. HIDE DEF rest, o
<1>6. CallsInv(rest)
  <2>1. ASSUME NEW k \in 1 .. L - 1
        PROVE  /\ rest[k].old \in Gone /\ rest[k].new = CopyOf(rest[k].old)
               /\ rest[k].n = Ext(rest[k].old)
               /\ rest[k].first = before.data[rest[k].old + 1]
               /\ 1 <= rest[k].at /\ rest[k].at <= rest[k].n
               /\ k # L - 1 => rest[k].at < rest[k].n
               /\ k # 1 => before.data[rest[k - 1].old + rest[k - 1].at]
                              = Pointer(from, rest[k].old)
    <3>1. /\ rest[k] = calls[k] /\ k \in DOMAIN calls /\ k # Len(calls)
          /\ k # 1 => rest[k - 1] = calls[k - 1]
      BY <1>3, <1>4
    <3>. QED BY <1>5, <3>1 DEF CallsInv
  <2>2. ASSUME NEW k \in 1 .. L - 1, NEW m \in 1 .. L - 1, rest[k].old = rest[m].old
        PROVE  k = m
    <3>1. /\ rest[k] = calls[k] /\ k \in DOMAIN calls
          /\ rest[m] = calls[m] /\ m \in DOMAIN calls
      BY <1>3, <1>4
    <3>. QED BY <1>5, <2>2, <3>1 DEF CallsInv
  <2>3. rest # <<>> => rest[1] = calls[1]
    <3>. SUFFICES ASSUME L # 1 PROVE rest[1] = calls[1]
      BY <1>4
    <3>1. 1 \in 1 .. L - 1
      BY <1>3
    <3>. QED BY <1>4, <3>1
  <2>4. rest # <<>> => /\ RootWord = Pointer(from, rest[1].old)
                       /\ (pc = "roots" /\ root > 0) \/ pc = "fill"
    BY <1>1, <1>5, <2>3 DEF CallsInv
  <2>5. Len(rest) = L - 1 /\ DOMAIN rest = 1 .. L - 1
    BY <1>4
  <2>. QED BY <2>1, <2>2, <2>4, <2>5 DEF CallsInv
<1>7. WordsInv(rest)
  <2>1. ASSUME NEW p \in Gone, NEW m \in 1 .. Ext(p) - 1, Filled(rest, p, m)
        PROVE  Filled(calls, p, m)
    <3>. SUFFICES ASSUME NEW k \in 1 .. L, calls[k].old = p PROVE m < calls[k].at
      BY <1>3 DEF Filled
    <3>1. CASE k = L
      <4>1. Ext(p) \in Nat /\ p = o
        BY <1>1, <1>5, <3>1, GoneSpans DEF o
      <4>. QED BY <1>1, <1>3, <2>1, <3>1, <4>1
    <3>2. CASE k # L
      <4>1. k \in 1 .. L - 1
        BY <1>4, <3>2
      <4>. QED BY <1>4, <2>1, <4>1 DEF Filled
    <3>. QED BY <3>1, <3>2
  <2>. QED BY <1>5, <2>1 DEF WordsInv
<1>8. CollectionInv(rest)
  BY <1>5, <1>6, <1>7 DEF CollectionInv
<1>9. Pending(rest) /\ Original(rest) = Pointer(from, o)
  <2>1. CASE L = 1
    BY <1>1, <1>4, <1>5, <2>1 DEF Pending, Original, CallsInv, o
  <2>2. CASE L # 1
    <3>1. L - 1 \in 1 .. L - 1 /\ L - 1 # L /\ L - 1 \in 1 .. L
      BY <1>4, <2>2
    <3>2. /\ calls[L - 1].at < calls[L - 1].n
          /\ before.data[calls[L - 1].old + calls[L - 1].at] = Pointer(from, calls[L].old)
      BY <1>3, <1>5, <2>2, <3>1 DEF CallsInv
    <3>3. rest # <<>> /\ rest[Len(rest)] = calls[L - 1]
      BY <1>4, <2>2, <3>1
    <3>. QED BY <3>2, <3>3 DEF Pending, Original, o
  <2>. QED BY <2>1, <2>2
<1>10. Seen(Pointer(from, o)) /\ Image(Pointer(from, o)) = Pointer(cur, calls[L].new)
  BY <1>3 DEF Seen, Image, Pointer
<1>. QED BY <1>1, <1>4, <1>8, <1>9, <1>10, DeliverKeepsIInv

-----------------------------------------------------------------------------
(* gc_copy: one more object.                                               *)

LEMMA SpanSize ==
    ASSUME NEW a \in Nat, NEW k \in Nat, k >= 1
    PROVE  IsFiniteSet(a .. a + k - 1) /\ Cardinality(a .. a + k - 1) = k
<1>1. PICK c \in Int : c = a + k - 1
  OBVIOUS
<1>2. a \in Int /\ ~(a > c) /\ c - a + 1 = k
  BY <1>1
<1>3. IsFiniteSet(a .. c) /\ Cardinality(a .. c) = c - a + 1
  BY <1>2, FS_Interval
<1>. QED BY <1>1, <1>2, <1>3

LEMMA AddedWords ==
    ASSUME TypeOK, SnapshotInv, NEW S \in SUBSET Found, NEW o \in Found, o \notin S
    PROVE  Cardinality(WordsOf(S \cup {o})) = Cardinality(WordsOf(S)) + Ext(o)
<1>. DEFINE T == o .. o + Ext(o) - 1
<1>1. o \in Nat /\ Ext(o) \in Nat /\ Ext(o) >= 2
  BY FoundFacts
<1>2. IsFiniteSet(T) /\ Cardinality(T) = Ext(o)
  <2>1. Ext(o) >= 1
    BY <1>1
  <2>. QED BY <1>1, <2>1, SpanSize
<1>3. IsFiniteSet(WordsOf(S)) /\ Cardinality(WordsOf(S)) \in Nat
  BY WordsOfFits
<1>4. WordsOf(S \cup {o}) = WordsOf(S) \cup T
  BY DEF WordsOf, Ext
<1>5. WordsOf(S) \cap T = {}
  <2>. SUFFICES ASSUME NEW k \in WordsOf(S), k \in T PROVE FALSE
    OBVIOUS
  <2>1. PICK p \in S : k \in p .. p + Ext(p) - 1
    BY DEF WordsOf, Ext
  <2>2. /\ p \in Found /\ p # o /\ p \in Nat /\ Ext(p) \in Nat
        /\ o + Ext(o) <= p \/ p + Ext(p) <= o
    BY FoundFacts, FoundDisjoint
  <2>. QED BY <1>1, <2>1, <2>2
<1>. HIDE DEF T
<1>6. Cardinality(WordsOf(S) \cup T)
         = Cardinality(WordsOf(S)) + Cardinality(T) - Cardinality(WordsOf(S) \cap T)
  BY <1>2, <1>3, FS_Union
<1>7. Cardinality(WordsOf(S) \cap T) = 0
  BY <1>5, FS_EmptySet
<1>8. Cardinality(WordsOf(S \cup {o}))
         = Cardinality(WordsOf(S)) + Cardinality(T) - Cardinality(WordsOf(S) \cap T)
  BY <1>4, <1>6, Zenon
<1>. QED BY <1>1, <1>2, <1>3, <1>7, <1>8

LEMMA CopyObjectKeepsIInv ==
    ASSUME IInv, CopyObject
    PROVE  IInv'
<1>. DEFINE w == Original(calls)
            old == w.i
            header == before.data[old]
            n == Ext(old)
            new == Len(data[cur]) + 1
            first == before.data[old + 1]
            body == [i \in 1 .. n |-> header]
            d == data[cur]
            e == data'[cur]
            b == data[from]
            g == data'[from]
<1>1. /\ TypeOK /\ NeverOverflows /\ calls \in Seq(Activations) /\ Copying
      /\ UNCHANGED <<cur, valid, stack, sp, live, request, root, before, pc>>
  BY DEF IInv, TypeOK, CopyObject
<1>2. CollectionInv(calls)
  BY <1>1 DEF IInv, Collecting, Copying
<1>3. /\ Pending(calls) /\ Argument = w
      /\ SnapshotInv /\ OldHeapInv /\ NewHeapInv /\ CallsInv(calls) /\ WordsInv(calls)
      /\ RootsInv /\ Gone \subseteq Reachable
  BY <1>1, <1>2, ArgumentIsOriginal DEF CollectionInv
<1>4. /\ w \in Words /\ w.h = from /\ old \in Found /\ old \notin Gone
      /\ old \in Reachable /\ w = Pointer(from, old)
  <2>1. w.h = from /\ old \in Found
    BY <1>3, ObjectsOfOldHeap DEF CopyObject
  <2>2. w \in Words /\ old \in Reachable
    BY <1>1, <1>2, <1>3, <2>1, OriginalFacts
  <2>3. old \notin Gone
    BY <1>3 DEF CopyObject, Gone, Moved, Pointer
  <2>4. w = Pointer(from, old)
    <3>. HIDE DEF w
    <3>. QED BY <2>1, <2>2, WordTypes DEF Pointer
  <2>. QED BY <2>1, <2>2, <2>3, <2>4
<1>. HIDE DEF w
<1>5. /\ old \in Nat /\ old >= 1 /\ header \in Words
      /\ n \in Nat /\ n >= 2 /\ old + n - 1 <= Len(before.data)
      /\ Len(before.data) \in Nat /\ first \in Words
  <2>. HIDE DEF old
  <2>1. /\ old \in Nat /\ old >= 1 /\ header \in Words
        /\ n \in Nat /\ n >= 2 /\ old + n - 1 <= Len(before.data)
        /\ Len(before.data) \in Nat
        /\ \A j \in 1 .. n - 1 : before.data[old + j] \in Words
    BY <1>1, <1>3, <1>4, FoundFacts
  <2>2. 1 \in 1 .. n - 1
    BY <2>1
  <2>. QED BY <2>1, <2>2
<1>6. b[old] = header /\ b[old + 1] = first
  <2>1. \A j \in old .. old + n - 1 : b[j] = before.data[j]
    BY <1>3, <1>4 DEF OldHeapInv
  <2>2. old \in old .. old + n - 1 /\ old + 1 \in old .. old + n - 1
    BY <1>5
  <2>. QED BY <2>1, <2>2
<1>7. /\ data' = [data EXCEPT ![from][old] = Number(-1),
                              ![from][old + 1] = Pointer(cur, new),
                              ![cur] = @ \o body]
      /\ calls' = Append(calls, Activation(old, new, n, first))
  BY <1>3, <1>6 DEF CopyObject, WordsAllocated, Ext
<1>8. /\ cur \in Heaps /\ from \in Heaps /\ from # cur
      /\ d \in Seq(Words) /\ b \in Seq(Words) /\ Len(d) \in Nat
      /\ Len(b) = Len(before.data) /\ data \in [Heaps -> Seq(Words)]
      /\ \A h \in Heaps : h = cur \/ h = from
  <2>1. cur \in Heaps /\ \A h \in Heaps : h = cur \/ h = from
    BY <1>1 DEF TypeOK, Heaps, from
  <2>. QED BY <1>1, <1>3, <2>1, HeapTypes DEF TypeOK, from, OldHeapInv
<1>. HIDE DEF old, n, header, first
<1>9. /\ body \in Seq(Words) /\ Len(body) = n /\ \A i \in 1 .. n : body[i] = header
  BY <1>5
<1>. HIDE DEF body
<1>10. e = d \o body /\ g = [b EXCEPT ![old] = Number(-1), ![old + 1] = Pointer(cur, new)]
  BY <1>7, <1>8
<1>11. /\ e \in Seq(Words) /\ Len(e) = Len(d) + n
       /\ \A k \in 1 .. Len(d) : e[k] = d[k]
       /\ \A i \in 1 .. n : e[Len(d) + i] = header
  <2>. HIDE DEF d, e
  <2>1. /\ d \o body \in Seq(Words) /\ Len(d \o body) = Len(d) + Len(body)
        /\ \A k \in 1 .. Len(d) : (d \o body)[k] = d[k]
        /\ \A i \in 1 .. Len(body) : (d \o body)[Len(d) + i] = body[i]
    <3>1. d \in Seq(Words) /\ body \in Seq(Words)
      BY <1>8, <1>9
    <3>. QED BY <3>1, Joined
  <2>. QED BY <1>9, <1>10, <2>1
<1>12. /\ g \in Seq(Words) /\ Len(g) = Len(before.data)
       /\ g[old] = Number(-1) /\ g[old + 1] = Pointer(cur, new)
       /\ \A k \in 1 .. Len(before.data) : k # old /\ k # old + 1 => g[k] = b[k]
  <2>1. old \in 1 .. Len(b) /\ old + 1 \in 1 .. Len(b) /\ old # old + 1
    BY <1>5, <1>8
  <2>2. Number(-1) \in Words /\ Pointer(cur, new) \in Words
    BY <1>8, WordTypes
  <2>. HIDE DEF b, g, new
  <2>. QED BY <1>8, <1>10, <2>1, <2>2
<1>. HIDE DEF d, e, b, g
<1>13. /\ from' = from /\ Found' = Found /\ Reachable' = Reachable
       /\ \A p : Ext(p)' = Ext(p)
       /\ \A S : WordsOf(S)' = WordsOf(S)
  BY <1>1, SnapshotFrame DEF from
<1>14. ASSUME NEW p \in Found, p # old
       PROVE  /\ p \in Nat /\ Ext(p) \in Nat /\ Ext(p) >= 2
              /\ \A j \in p .. p + Ext(p) - 1 : j # old /\ j # old + 1 /\ g[j] = b[j]
              /\ g[p] = b[p] /\ g[p + 1] = b[p + 1]
  <2>1. /\ p \in Nat /\ Ext(p) \in Nat /\ Ext(p) >= 2
        /\ old + n <= p \/ p + Ext(p) <= old
        /\ p >= 1 /\ p + Ext(p) - 1 <= Len(before.data)
    BY <1>1, <1>3, <1>4, <1>14, FoundFacts, FoundDisjoint DEF n
  <2>2. ASSUME NEW j \in p .. p + Ext(p) - 1
        PROVE  j # old /\ j # old + 1 /\ j \in 1 .. Len(before.data)
    BY <1>5, <2>1
  <2>3. p \in p .. p + Ext(p) - 1 /\ p + 1 \in p .. p + Ext(p) - 1
    BY <2>1
  <2>. QED BY <1>12, <2>1, <2>2, <2>3
<1>. PICK q : q = old
  OBVIOUS
<1>15. /\ Gone' = Gone \cup {old}
       /\ CopyOf(q)' = new
       /\ \A p \in Gone : p # old /\ CopyOf(p)' = CopyOf(p)
  <2>1. old \in Gone' /\ CopyOf(q)' = new
    <3>1. data'[from'][old] = Number(-1) /\ data'[from'][old + 1] = Pointer(cur, new)
      BY <1>12, <1>13 DEF g
    <3>2. old \in Gone'
      BY <1>4, <1>13, <3>1 DEF Gone, Moved, Pointer
    <3>3. Pointer(cur, new).i = new
      BY DEF Pointer
    <3>. QED BY <3>1, <3>2, <3>3 DEF CopyOf
  <2>2. ASSUME NEW p \in Found, p # old
        PROVE  (p \in Gone' <=> p \in Gone) /\ CopyOf(p)' = CopyOf(p)
    BY <1>13, <1>14, <2>2 DEF Gone, Moved, Pointer, CopyOf, g, b
  <2>3. Gone \subseteq Found /\ Gone' \subseteq Found
    BY <1>13 DEF Gone
  <2>. QED BY <1>4, <2>1, <2>2, <2>3
<1>16. /\ \A x : Seen(x) => Image(x)' = Image(x) /\ Seen(x)'
  <2>. SUFFICES ASSUME NEW x, Seen(x) PROVE Image(x)' = Image(x) /\ Seen(x)'
    OBVIOUS
  <2>1. Seen(x)'
    BY <1>13, <1>15 DEF Seen
  <2>2. CASE x.h = from /\ x.i \in Found
    <3>1. x.i \in Gone
      BY <2>2 DEF Seen
    <3>2. data'[from'][x.i + 1].i = data[from][x.i + 1].i
      BY <1>15, <3>1 DEF CopyOf
    <3>. QED BY <1>1, <1>13, <2>1, <2>2, <3>2 DEF Image, CopyOf, Pointer
  <2>3. CASE ~(x.h = from /\ x.i \in Found)
    BY <1>13, <2>1, <2>3 DEF Image
  <2>. QED BY <2>2, <2>3
<1>17. TypeOK'
  <2>1. Activation(old, new, n, first) \in Activations
    BY <1>5, <1>8 DEF Activation, Activations
  <2>2. calls' \in Seq(Activations)
    BY <1>1, <1>7, <2>1
  <2>3. data' \in [Heaps -> Seq(Words)]
    <3>1. \A h \in Heaps : data'[h] \in Seq(Words)
      BY <1>8, <1>11, <1>12 DEF e, g
    <3>2. data' = [h \in Heaps |-> data'[h]]
      BY <1>7, <1>8
    <3>. QED BY <3>1, <3>2
  <2>. QED BY <1>1, <2>2, <2>3 DEF TypeOK
<1>18. SnapshotInv'
  BY <1>1, <1>3, <1>13 DEF SnapshotInv
<1>19. OldHeapInv'
  <2>1. Len(data'[from']) = Len(before'.data)
    BY <1>1, <1>12, <1>13 DEF g
  <2>2. ASSUME NEW p \in Found, NEW j \in p .. p + Ext(p) - 1
        PROVE  g[j] = before.data[j] \/ (p \in Gone' /\ j <= p + 1)
    <3>1. CASE p = old
      <4>1. CASE j <= old + 1
        BY <1>15, <3>1, <4>1
      <4>2. CASE ~(j <= old + 1)
        <5>1. j \in 1 .. Len(before.data) /\ j # old /\ j # old + 1 /\ p \notin Gone
          BY <1>4, <1>5, <2>2, <3>1, <4>2 DEF n
        <5>. QED BY <1>3, <1>12, <2>2, <5>1 DEF OldHeapInv, b
      <4>. QED BY <4>1, <4>2
    <3>2. CASE p # old
      <4>1. g[j] = b[j]
        BY <1>14, <2>2, <3>2
      <4>. QED BY <1>3, <1>15, <2>2, <4>1 DEF OldHeapInv, b
    <3>. QED BY <3>1, <3>2
  <2>3. ASSUME NEW p \in Gone' PROVE (data[from][p + 1] = Pointer(cur, CopyOf(p)))'
    <3>1. CASE p = old
      <4>1. data'[from'][p + 1] = Pointer(cur, new)
        BY <1>12, <1>13, <3>1 DEF g
      <4>. QED BY <1>1, <1>15, <3>1, <4>1 DEF Pointer, CopyOf
    <3>2. CASE p # old
      <4>1. p \in Gone /\ p \in Found
        BY <1>15, <3>2, GoneFacts
      <4>2. data[from][p + 1] = Pointer(cur, CopyOf(p))
        BY <1>3, <4>1 DEF OldHeapInv
      <4>3. data'[from'][p + 1] = data[from][p + 1]
        BY <1>13, <1>14, <3>2, <4>1 DEF g, b
      <4>. QED BY <1>1, <4>2, <4>3 DEF Pointer, CopyOf
    <3>. QED BY <3>1, <3>2
  <2>4. (\A p \in Found : \A j \in p .. p + Ext(p) - 1 :
            data[from][j] = before.data[j] \/ (p \in Gone /\ j <= p + 1))'
    BY <1>1, <1>13, <2>2 DEF g
  <2>. QED BY <2>1, <2>3, <2>4 DEF OldHeapInv
<1>20. NewHeapInv'
  <2>1. ASSUME NEW p \in Gone'
        PROVE  /\ CopyOf(p)' \in Nat /\ CopyOf(p)' >= 1 /\ Ext(p) \in Nat
               /\ CopyOf(p)' + Ext(p) - 1 <= Len(e) /\ e[CopyOf(p)'] = before.data[p]
               /\ p \in Gone => CopyOf(p)' + Ext(p) - 1 <= Len(d)
               /\ p # old => p \in Gone
    <3>1. CASE p = old
      <4>1. CopyOf(p)' = new /\ Ext(p) = n /\ before.data[p] = header /\ p \notin Gone
        BY <1>4, <1>15, <3>1 DEF n, header
      <4>2. /\ new = Len(d) + 1 /\ new \in Nat /\ new >= 1 /\ new + n - 1 = Len(d) + n
            /\ 1 \in 1 .. n
        BY <1>5, <1>8 DEF d
      <4>. QED BY <1>5, <1>8, <1>11, <3>1, <4>1, <4>2
    <3>2. CASE p # old
      <4>1. p \in Gone /\ CopyOf(p)' = CopyOf(p)
        BY <1>15, <3>2
      <4>2. /\ CopyOf(p) \in Nat /\ CopyOf(p) >= 1 /\ Ext(p) \in Nat /\ Ext(p) >= 2
            /\ CopyOf(p) + Ext(p) - 1 <= Len(d) /\ d[CopyOf(p)] = before.data[p]
        BY <1>1, <1>3, <4>1, GoneSpans DEF d
      <4>3. CopyOf(p) \in 1 .. Len(d)
        BY <1>8, <4>2
      <4>. QED BY <1>5, <1>8, <1>11, <4>1, <4>2, <4>3
    <3>. QED BY <3>1, <3>2
  <2>2. ASSUME NEW p \in Gone', NEW r \in Gone', p # r
        PROVE  \/ CopyOf(p)' + Ext(p) <= CopyOf(r)'
               \/ CopyOf(r)' + Ext(r) <= CopyOf(p)'
    <3>1. CASE p \in Gone /\ r \in Gone
      BY <1>3, <1>15, <2>2, <3>1 DEF NewHeapInv
    <3>2. CASE p = old
      <4>1. r \in Gone
        BY <2>1, <2>2, <3>2
      <4>2. CopyOf(p)' = Len(d) + 1
        BY <1>15, <3>2 DEF d
      <4>. QED BY <1>8, <2>1, <4>1, <4>2
    <3>3. CASE r = old
      <4>1. p \in Gone
        BY <2>1, <2>2, <3>3
      <4>2. CopyOf(r)' = Len(d) + 1
        BY <1>15, <3>3 DEF d
      <4>. QED BY <1>8, <2>1, <4>1, <4>2
    <3>. QED BY <2>1, <3>1, <3>2, <3>3
  <2>3. ASSUME NEW i \in 1 .. Len(e)
        PROVE  \E p \in Gone' : i \in CopyOf(p)' .. CopyOf(p)' + Ext(p) - 1
    <3>1. CASE i <= Len(d)
      <4>1. i \in 1 .. Len(d)
        BY <1>8, <2>3, <3>1
      <4>2. PICK p \in Gone : i \in CopyOf(p) .. CopyOf(p) + Ext(p) - 1
        BY <1>3, <4>1 DEF NewHeapInv, d
      <4>. QED BY <1>15, <4>2
    <3>2. CASE ~(i <= Len(d))
      <4>1. i \in Len(d) + 1 .. Len(d) + 1 + n - 1
        BY <1>5, <1>8, <1>11, <2>3, <3>2
      <4>2. q \in Gone' /\ CopyOf(q)' = Len(d) + 1 /\ Ext(q) = n
        BY <1>15 DEF n, d
      <4>. QED BY <4>1, <4>2
    <3>. QED BY <3>1, <3>2
  <2>4. Len(e) = Cardinality(WordsOf(Gone \cup {old}))
    <3>1. Gone \in SUBSET Found
      BY DEF Gone
    <3>2. Cardinality(WordsOf(Gone \cup {old})) = Cardinality(WordsOf(Gone)) + n
      BY <1>1, <1>3, <1>4, <3>1, AddedWords DEF n
    <3>. QED BY <1>3, <1>11, <3>2 DEF NewHeapInv, d
  <2>5. (Len(data[cur]) = Cardinality(WordsOf(Gone)))'
    BY <1>1, <1>13, <1>15, <2>4 DEF e
  <2>6. (\A p \in Gone : /\ CopyOf(p) \in Nat \ {0}
                         /\ CopyOf(p) + Ext(p) - 1 <= Len(data[cur])
                         /\ data[cur][CopyOf(p)] = before.data[p])'
    BY <1>1, <1>13, <2>1 DEF e
  <2>7. (\A p, r \in Gone : p # r => \/ CopyOf(p) + Ext(p) <= CopyOf(r)
                                     \/ CopyOf(r) + Ext(r) <= CopyOf(p))'
    BY <1>13, <2>2
  <2>8. (\A i \in 1 .. Len(data[cur]) : \E p \in Gone : i \in CopyOf(p) .. CopyOf(p) + Ext(p) - 1)'
    BY <1>1, <1>13, <2>3 DEF e
  <2>. QED BY <2>5, <2>6, <2>7, <2>8 DEF NewHeapInv
<1>. DEFINE L == Len(calls)
            act == Activation(old, new, n, first)
<1>21. /\ L \in Nat /\ DOMAIN calls = 1 .. L
       /\ calls' \in Seq(Activations) /\ Len(calls') = L + 1 /\ DOMAIN calls' = 1 .. L + 1
       /\ \A k \in 1 .. L : calls'[k] = calls[k]
       /\ calls'[L + 1] = act /\ calls' # <<>>
       /\ act.old = old /\ act.new = new /\ act.n = n /\ act.first = first /\ act.at = 1
  <2>1. act \in Activations
    BY <1>5, <1>8 DEF Activation, Activations
  <2>2. act.old = old /\ act.new = new /\ act.n = n /\ act.first = first /\ act.at = 1
    BY DEF Activation
  <2>. HIDE DEF act, new
  <2>3. calls' = Append(calls, act)
    BY <1>7 DEF act
  <2>. QED BY <1>1, <2>1, <2>2, <2>3, AppendProperties
<1>. HIDE DEF L, act
<1>22. CallsInv(calls)'
  <2>1. ASSUME NEW k \in 1 .. L
        PROVE  /\ calls[k].old \in Gone /\ calls[k].new = CopyOf(calls[k].old)
               /\ calls[k].n = Ext(calls[k].old)
               /\ calls[k].first = before.data[calls[k].old + 1]
               /\ 1 <= calls[k].at /\ calls[k].at <= calls[k].n
               /\ calls[k].at < calls[k].n
               /\ k # 1 => before.data[calls[k - 1].old + calls[k - 1].at]
                              = Pointer(from, calls[k].old)
    <3>1. k = Len(calls) => calls[k].at < calls[k].n
      BY <1>3, <1>21, <2>1 DEF Pending, L
    <3>. QED BY <1>3, <1>21, <3>1 DEF CallsInv
  <2>2. ASSUME NEW k \in 1 .. L + 1
        PROVE  /\ (calls[k].old \in Gone)'
               /\ (calls[k].new = CopyOf(calls[k].old))'
               /\ (calls[k].n = Ext(calls[k].old))'
               /\ (calls[k].first = before.data[calls[k].old + 1])'
               /\ (1 <= calls[k].at /\ calls[k].at <= calls[k].n)'
               /\ k # L + 1 => (calls[k].at < calls[k].n)'
               /\ k # 1 => (before.data[calls[k - 1].old + calls[k - 1].at]
                              = Pointer(from, calls[k].old))'
    <3>1. CASE k \in 1 .. L
      <4>1. calls'[k] = calls[k] /\ (k # 1 => calls'[k - 1] = calls[k - 1])
        <5>1. k # 1 => k - 1 \in 1 .. L
          BY <1>21, <3>1
        <5>. QED BY <1>21, <3>1, <5>1
      <4>2. PICK o : o = calls[k].old
        OBVIOUS
      <4>3. o \in Gone /\ CopyOf(o)' = CopyOf(o) /\ Ext(o)' = Ext(o)
        BY <1>13, <1>15, <2>1, <3>1, <4>2
      <4>4. (calls[k].new = CopyOf(calls[k].old))' /\ (calls[k].n = Ext(calls[k].old))'
        BY <2>1, <3>1, <4>1, <4>2, <4>3 DEF CopyOf, Ext
      <4>. QED BY <1>1, <1>13, <1>15, <2>1, <3>1, <4>1, <4>4 DEF Pointer
    <3>2. CASE k = L + 1
      <4>1. calls'[k] = act
        BY <1>21, <3>2
      <4>2. (calls[k].new = CopyOf(calls[k].old))' /\ (calls[k].n = Ext(calls[k].old))'
        <5>1. data'[from'][old + 1].i = new
          BY <1>15 DEF CopyOf
        <5>2. Ext(q)' = n
          BY <1>13 DEF n
        <5>. QED BY <1>21, <4>1, <5>1, <5>2 DEF CopyOf, Ext
      <4>3. k # 1 => (before.data[calls[k - 1].old + calls[k - 1].at]
                         = Pointer(from, calls[k].old))'
        <5>. SUFFICES ASSUME k # 1
                      PROVE  (before.data[calls[k - 1].old + calls[k - 1].at]
                                = Pointer(from, calls[k].old))'
          OBVIOUS
        <5>1. L \in 1 .. L /\ k - 1 = L
          BY <1>21, <3>2
        <5>2. calls'[k - 1] = calls[L] /\ calls # <<>>
          BY <1>21, <5>1
        <5>3. before.data[calls[L].old + calls[L].at] = Pointer(from, old)
          BY <1>4, <5>2 DEF Original, L, w
        <5>. QED BY <1>1, <1>13, <1>21, <4>1, <5>2, <5>3 DEF Pointer
      <4>4. 1 <= act.at /\ act.at <= act.n
        BY <1>5, <1>21
      <4>5. (calls[k].first = before.data[calls[k].old + 1])'
        BY <1>1, <1>21, <4>1 DEF first
      <4>. QED BY <1>15, <1>21, <3>2, <4>1, <4>2, <4>3, <4>4, <4>5
    <3>. QED BY <1>21, <3>1, <3>2
  <2>3. ASSUME NEW k \in 1 .. L + 1, NEW m \in 1 .. L + 1, calls'[k].old = calls'[m].old
        PROVE  k = m
    <3>1. CASE k \in 1 .. L /\ m \in 1 .. L
      BY <1>3, <1>21, <2>3, <3>1 DEF CallsInv
    <3>2. CASE k = L + 1 /\ m \in 1 .. L
      <4>1. calls[m].old = old
        BY <1>21, <2>3, <3>2
      <4>. QED BY <1>4, <2>1, <3>2, <4>1
    <3>3. CASE m = L + 1 /\ k \in 1 .. L
      <4>1. calls[k].old = old
        BY <1>21, <2>3, <3>3
      <4>. QED BY <1>4, <2>1, <3>3, <4>1
    <3>. QED BY <1>21, <3>1, <3>2, <3>3
  <2>4. RootWord = Pointer(from, calls'[1].old) /\ ((pc = "roots" /\ root > 0) \/ pc = "fill")
    <3>1. CASE calls = <<>>
      <4>1. L = 0
        BY <3>1 DEF L
      <4>2. calls'[1].old = old
        BY <1>21, <4>1
      <4>. QED BY <1>3, <1>4, <3>1, <4>2 DEF Original, Pending, w
    <3>2. CASE calls # <<>>
      <4>1. 1 \in 1 .. L
        BY <1>1, <1>21, <3>2, EmptySeq DEF L
      <4>. QED BY <1>3, <1>21, <3>2, <4>1 DEF CallsInv
    <3>. QED BY <3>1, <3>2
  <2>5. (calls # <<>> => /\ RootWord = Pointer(from, calls[1].old)
                         /\ (pc = "roots" /\ root > 0) \/ pc = "fill")'
    BY <1>1, <1>13, <2>4 DEF Pointer, RootWord
  <2>6. (\A k, m \in DOMAIN calls : calls[k].old = calls[m].old => k = m)'
    BY <1>21, <2>3
  <2>. QED BY <1>21, <2>2, <2>5, <2>6 DEF CallsInv
<1>23. WordsInv(calls)'
  <2>1. ASSUME NEW p \in Gone', NEW m \in 1 .. Ext(p) - 1,
               \A k \in 1 .. L + 1 : calls'[k].old = p => m < calls'[k].at
        PROVE  /\ e[CopyOf(p)' + m] = Image(before.data[p + m])'
               /\ Seen(before.data[p + m])'
               /\ CopyOf(p)' \in valid[cur] /\ CopyOf(p)' + m \notin valid[cur]
    <3>1. p # old
      <4>. SUFFICES ASSUME p = old PROVE FALSE
        OBVIOUS
      <4>1. L + 1 \in 1 .. L + 1 /\ Ext(p) \in Nat
        BY <1>5, <1>21 DEF n
      <4>2. m < 1
        BY <1>21, <2>1, <4>1
      <4>. QED BY <2>1, <4>1, <4>2
    <3>2. p \in Gone /\ CopyOf(p)' = CopyOf(p)
      BY <1>15, <3>1
    <3>3. Filled(calls, p, m)
      <4>. SUFFICES ASSUME NEW k \in 1 .. L, calls[k].old = p PROVE m < calls[k].at
        BY <1>21 DEF Filled
      <4>1. k \in 1 .. L + 1 /\ calls'[k] = calls[k]
        BY <1>21
      <4>. QED BY <2>1, <4>1
    <3>4. /\ d[CopyOf(p) + m] = Image(before.data[p + m])
          /\ Seen(before.data[p + m])
          /\ CopyOf(p) \in valid[cur] /\ CopyOf(p) + m \notin valid[cur]
      BY <1>3, <3>2, <3>3 DEF WordsInv, d
    <3>5. CopyOf(p) + m \in 1 .. Len(d)
      <4>1. /\ CopyOf(p) \in Nat /\ CopyOf(p) >= 1 /\ Ext(p) \in Nat
            /\ CopyOf(p) + Ext(p) - 1 <= Len(d)
        BY <1>1, <1>3, <3>2, GoneSpans DEF d
      <4>. QED BY <1>8, <4>1
    <3>6. PICK x : x = before.data[p + m]
      OBVIOUS
    <3>7. Image(x)' = Image(x) /\ Seen(x)'
      BY <1>16, <3>4, <3>6
    <3>8. Image(before.data[p + m])' = Image(before.data[p + m])
          /\ Seen(before.data[p + m])'
      BY <1>1, <3>6, <3>7 DEF Image, Seen
    <3>. QED BY <1>11, <3>2, <3>4, <3>5, <3>8
  <2>2. \A p, m : Filled(calls, p, m)' <=>
                    \A k \in 1 .. L + 1 : calls'[k].old = p => m < calls'[k].at
    BY <1>21 DEF Filled
  <2>. QED BY <1>1, <1>13, <2>1, <2>2 DEF WordsInv, e
<1>24. RootsInv'
  <2>1. ASSUME NEW x, Seen(x)
        PROVE  Image(x)' = Image(x) /\ Seen(x)'
    BY <1>16, <2>1
  <2>2. ASSUME NEW s \in 1 .. sp
        PROVE  (IF pc = "roots" /\ s <= root THEN stack[s] = before.stack[s]
                ELSE stack[s] = Image(before.stack[s]) /\ Seen(before.stack[s]))'
    <3>1. CASE pc = "roots" /\ s <= root
      BY <1>1, <1>3, <3>1 DEF RootsInv
    <3>2. CASE ~(pc = "roots" /\ s <= root)
      <4>1. PICK x : x = before.stack[s]
        OBVIOUS
      <4>2. stack[s] = Image(x) /\ Seen(x)
        BY <1>3, <3>2, <4>1 DEF RootsInv
      <4>3. Image(x)' = Image(x) /\ Seen(x)'
        BY <2>1, <4>2
      <4>. QED BY <1>1, <3>2, <4>1, <4>2, <4>3 DEF Image, Seen
    <3>. QED BY <3>1, <3>2
  <2>3. pc # "retry" /\ request.fill = before.fill
    BY <1>1, <1>3 DEF Copying, CallsInv, RootsInv
  <2>. QED BY <1>1, <2>2, <2>3 DEF RootsInv
<1>25. Gone' \subseteq Reachable'
  BY <1>3, <1>4, <1>13, <1>15
<1>26. Collecting /\ Collecting'
  BY <1>1, <1>3 DEF Copying, CallsInv, Collecting
<1>27. NeverOverflows'
  <2>1. Len(e) <= HeapSize
    <3>1. WordsOf(Gone \cup {old}) = WordsOf(Gone)' /\ Gone \cup {old} \in SUBSET Found
      BY <1>4, <1>13, <1>15 DEF Gone
    <3>2. Cardinality(WordsOf(Gone \cup {old})) <= HeapSize
      BY <1>1, <1>3, <3>1, WordsOfFits
    <3>3. Len(e) = Cardinality(WordsOf(Gone)')
      BY <1>1, <1>20 DEF NewHeapInv, e
    <3>. QED BY <3>1, <3>2, <3>3
  <2>2. Len(g) <= HeapSize
    BY <1>3, <1>12 DEF SnapshotInv, WellFormed
  <2>. QED BY <1>8, <2>1, <2>2 DEF NeverOverflows, WordsAllocated, e, g
<1>28. CollectionInv(calls)'
  BY <1>18, <1>19, <1>20, <1>22, <1>23, <1>24, <1>25 DEF CollectionInv
<1>. QED BY <1>17, <1>26, <1>27, <1>28 DEF IInv, HeapInv, Collecting

-----------------------------------------------------------------------------
(* The theorems.                                                           *)

LEMMA NextKeepsIInv == IInv /\ [Next]_vars => IInv'
<1>. SUFFICES ASSUME IInv, [Next]_vars PROVE IInv'
  OBVIOUS
<1>1. CASE Program
  <2>1. CASE Assign       BY <2>1, AssignKeepsIInv
  <2>2. CASE StoreField   BY <2>2, StoreFieldKeepsIInv
  <2>3. CASE Push \/ Pop  BY <2>3, PushPopKeepIInv
  <2>4. CASE CallAllocate BY <2>4, CallAllocateKeepsIInv
  <2>. QED BY <1>1, <2>1, <2>2, <2>3, <2>4 DEF Program
<1>2. CASE Runtime
  <2>1. CASE Reject \/ OutOfMemory BY <2>1, ExitKeepsIInv
  <2>2. CASE Allocate   BY <2>2, AllocateKeepsIInv
  <2>3. CASE StartGC    BY <2>3, StartGCKeepsIInv
  <2>4. CASE RootsDone  BY <2>4, RootsDoneKeepsIInv
  <2>5. CASE CopyWord   BY <2>5, CopyWordKeepsIInv
  <2>6. CASE CopyObject BY <2>6, CopyObjectKeepsIInv
  <2>7. CASE CopyReturn BY <2>7, CopyReturnKeepsIInv
  <2>. QED BY <1>2, <2>1, <2>2, <2>3, <2>4, <2>5, <2>6, <2>7 DEF Runtime
<1>3. CASE UNCHANGED vars
  <2>1. UNCHANGED <<cur, data, valid, stack, sp, live, request, calls, root, before, pc>>
    BY <1>3 DEF vars, memory
  <2>2. TypeOK' /\ NeverOverflows' /\ HeapInv'
    BY <2>1 DEF IInv, TypeOK, NeverOverflows, WordsAllocated, HeapInv
  <2>3. from' = from /\ Found' = Found /\ Gone' = Gone /\ Reachable' = Reachable
    BY <2>1 DEF from, Found, Gone, Moved, Pointer, Reachable, Roots, Refs, FoundFields
  <2>4. CollectionInv(calls) => CollectionInv(calls)'
    <3>. SUFFICES ASSUME CollectionInv(calls) PROVE CollectionInv(calls)'
      OBVIOUS
    <3>1. SnapshotInv' /\ OldHeapInv' /\ NewHeapInv'
      BY <2>1, <2>3 DEF CollectionInv, SnapshotInv, OldHeapInv, NewHeapInv, CopyOf, Ext, WordsOf
    <3>2. CallsInv(calls)'
      BY <2>1, <2>3 DEF CollectionInv, CallsInv, CopyOf, Ext, RootWord
    <3>3. WordsInv(calls)'
      BY <2>1, <2>3 DEF CollectionInv, WordsInv, CopyOf, Ext, Image, Seen, Filled
    <3>4. RootsInv'
      BY <2>1, <2>3 DEF CollectionInv, RootsInv, CopyOf, Image, Seen
    <3>. QED BY <2>3, <3>1, <3>2, <3>3, <3>4 DEF CollectionInv
  <2>. QED BY <2>1, <2>2, <2>4 DEF IInv, Collecting
<1>. QED BY <1>1, <1>2, <1>3 DEF Next

LEMMA IInvHolds == Spec => []IInv
  BY InitIInv, NextKeepsIInv, PTL DEF Spec

(* When a collection is done, what has been moved is what is reachable:    *)
(* every root and every field of a moved object points to a moved object.  *)
LEMMA GoneIsReachable ==
    ASSUME IInv, pc = "retry"
    PROVE  /\ Gone = Reachable /\ CollectionInv(<<>>)
           /\ \A o \in Gone : \A j \in 1 .. Ext(o) - 1 :
                 /\ data[cur][CopyOf(o) + j] = Image(before.data[o + j])
                 /\ Seen(before.data[o + j]) /\ CopyOf(o) \in valid[cur]
<1>1. TypeOK /\ CollectionInv(<<>>)
  BY NoCalls DEF IInv, Collecting
<1>2. /\ SnapshotInv /\ NewHeapInv /\ WordsInv(<<>>) /\ RootsInv /\ Gone \subseteq Reachable
  BY <1>1 DEF CollectionInv
<1>3. ASSUME NEW o \in Gone, NEW j \in 1 .. Ext(o) - 1
      PROVE  /\ data[cur][CopyOf(o) + j] = Image(before.data[o + j])
             /\ Seen(before.data[o + j]) /\ CopyOf(o) \in valid[cur]
  BY <1>2 DEF WordsInv, Filled
<1>4. Gone \in SUBSET Found
  BY DEF Gone
<1>5. Roots \subseteq Gone
  <2>1. DOMAIN before.stack = 1 .. sp
    BY <1>1, <1>2 DEF SnapshotInv, TypeOK
  <2>. QED BY <1>2, <2>1 DEF Roots, Refs, RootsInv, Seen
<1>6. ASSUME NEW p \in Gone, NEW w \in FoundFields(p), w.h = from, w.i \in Found
      PROVE  w.i \in Gone
  <2>1. PICK f \in 1 .. before.data[p].i : w = before.data[p + f]
    BY <1>6 DEF FoundFields
  <2>2. p \in Found /\ before.data[p].i \in Nat /\ Ext(p) \in Nat
    BY <1>1, <1>2, <1>4, FoundFacts
  <2>3. Ext(p) >= before.data[p].i + 1
    BY <2>2, ExtentBounds DEF Ext
  <2>4. f \in 1 .. Ext(p) - 1
    BY <2>2, <2>3
  <2>. QED BY <1>3, <1>6, <2>1, <2>4 DEF Seen
<1>7. \A p \in Gone : Refs(FoundFields(p)) \subseteq Gone
  BY <1>6 DEF Refs
<1>8. Reachable \subseteq Gone
  BY <1>4, <1>5, <1>7 DEF Reachable
<1>. QED BY <1>1, <1>2, <1>3, <1>8

(* gc_copy never asks whether the new heap has room; it always has.        *)
THEOREM HeapsNeverOverflow == Spec => []NeverOverflows
<1>1. IInv => NeverOverflows
  BY DEF IInv
<1>. QED BY <1>1, IInvHolds, PTL

(* Between two calls of allocate no word the program can get at points     *)
(* into the old heap, or into the middle of an object.                     *)
THEOREM NothingDangles == Spec => []NoDanglingPointer
<1>1. IInv => NoDanglingPointer
  <2>. SUFFICES ASSUME IInv, pc = "program",
                       NEW w \in {stack[s] : s \in live} \cup
                                 UNION {FieldsOf(cur, Pointer(cur, i)) :
                                           i \in valid[cur] \cap 1 .. WordsAllocated(cur)}
                PROVE  w.h = -1 \/ IsObject(cur, w)
    BY DEF NoDanglingPointer
  <2>1. WellFormed(data[cur], valid[cur], cur, stack, live, request.fill)
    BY DEF IInv, HeapInv
  <2>2. Good(w, cur, Objects(data[cur], valid[cur]))
    <3>1. CASE w \in {stack[s] : s \in live}
      BY <2>1, <3>1 DEF WellFormed
    <3>2. ASSUME NEW i \in valid[cur] \cap 1 .. WordsAllocated(cur),
                 w \in FieldsOf(cur, Pointer(cur, i))
          PROVE  Good(w, cur, Objects(data[cur], valid[cur]))
      <4>1. i \in Objects(data[cur], valid[cur])
        BY DEF Objects, WordsAllocated
      <4>2. PICK f \in 1 .. data[cur][i].i : w = data[cur][i + f]
        BY <3>2 DEF FieldsOf, Pointer
      <4>. QED BY <2>1, <4>1, <4>2 DEF WellFormed
    <3>. QED BY <3>1, <3>2
  <2>. QED BY <2>2 DEF Good, IsObject, Objects, WordsAllocated
<1>. QED BY <1>1, IInvHolds, PTL

(* A collection keeps the object graph.                                    *)
THEOREM CollectionsKeepTheGraph == Spec => []GraphPreserved
<1>1. ASSUME IInv, pc = "retry" PROVE GraphPreserved
  <2>1. /\ Gone = Reachable /\ CollectionInv(<<>>) /\ TypeOK
        /\ \A o \in Gone : \A j \in 1 .. Ext(o) - 1 :
              data[cur][CopyOf(o) + j] = Image(before.data[o + j]) /\ CopyOf(o) \in valid[cur]
    BY <1>1, GoneIsReachable DEF IInv
  <2>2. SnapshotInv /\ NewHeapInv /\ RootsInv
    BY <2>1 DEF CollectionInv
  <2>3. ASSUME NEW o \in Gone
        PROVE  /\ Moved(Pointer(from, o)) /\ IsObject(cur, Pointer(cur, CopyOf(o)))
               /\ data[cur][CopyOf(o)] = before.data[o]
               /\ \A f \in 1 .. before.data[o].i :
                     data[cur][CopyOf(o) + f] = Image(before.data[o + f])
               /\ CopyOf(o) \in Nat /\ Ext(o) \in Nat /\ Ext(o) >= 2
               /\ \A p \in Gone : p # o => \/ CopyOf(o) + Ext(o) <= CopyOf(p)
                                           \/ CopyOf(p) + Ext(p) <= CopyOf(o)
    <3>1. /\ o \in Found /\ Ext(o) \in Nat /\ Ext(o) >= 2
          /\ CopyOf(o) \in Nat /\ CopyOf(o) >= 1
          /\ CopyOf(o) + Ext(o) - 1 <= Len(data[cur]) /\ Len(data[cur]) \in Nat
          /\ data[cur][CopyOf(o)] = before.data[o]
          /\ \A p \in Gone : p # o => \/ CopyOf(o) + Ext(o) <= CopyOf(p)
                                      \/ CopyOf(p) + Ext(p) <= CopyOf(o)
      BY <2>1, <2>2, GoneSpans
    <3>2. before.data[o].i \in Nat
      BY <2>1, <2>2, <3>1, FoundFacts
    <3>3. Ext(o) >= before.data[o].i + 1
      BY <3>2, ExtentBounds DEF Ext
    <3>4. 1 \in 1 .. Ext(o) - 1 /\ \A f \in 1 .. before.data[o].i : f \in 1 .. Ext(o) - 1
      BY <3>1, <3>2, <3>3
    <3>5. IsObject(cur, Pointer(cur, CopyOf(o)))
      <4>1. CopyOf(o) \in 1 .. Len(data[cur]) /\ CopyOf(o) \in valid[cur]
        BY <2>1, <3>1, <3>4
      <4>. QED BY <4>1 DEF IsObject, Pointer, WordsAllocated
    <3>6. Moved(Pointer(from, o))
      BY DEF Gone
    <3>. QED BY <2>1, <3>1, <3>4, <3>5, <3>6
  <2>4. ASSUME NEW o \in Gone, NEW p \in Gone
        PROVE  /\ CopyOf(o) < CopyOf(p) => CopyOf(o) + Ext(o) <= CopyOf(p)
               /\ CopyOf(o) = CopyOf(p) => o = p
    <3>1. /\ CopyOf(o) \in Nat /\ Ext(o) \in Nat /\ Ext(o) >= 2
          /\ CopyOf(p) \in Nat /\ Ext(p) \in Nat /\ Ext(p) >= 2
          /\ p # o => \/ CopyOf(o) + Ext(o) <= CopyOf(p)
                      \/ CopyOf(p) + Ext(p) <= CopyOf(o)
      BY <2>3
    <3>. QED BY <3>1
  <2>5. /\ \A s \in 1 .. sp : stack[s] = Image(before.stack[s])
        /\ request.fill = Image(before.fill)
    BY <1>1, <2>2 DEF RootsInv
  <2>. QED BY <2>1, <2>3, <2>4, <2>5 DEF GraphPreserved, Ext
<1>2. IInv => GraphPreserved
  BY <1>1 DEF GraphPreserved
<1>. QED BY <1>2, IInvHolds, PTL

(* What the new heap holds after a collection is the reachable objects and *)
(* nothing else, so that "out of memory" is never reported too early.      *)
THEOREM CollectionsReclaim == Spec => []ReclaimsTheRest
<1>1. ASSUME IInv, pc = "retry" PROVE ReclaimsTheRest
  <2>1. Gone = Reachable /\ NewHeapInv
    BY <1>1, GoneIsReachable DEF CollectionInv
  <2>. QED BY <2>1 DEF NewHeapInv, ReclaimsTheRest, WordsAllocated
<1>2. IInv => ReclaimsTheRest
  BY <1>1 DEF ReclaimsTheRest
<1>. QED BY <1>2, IInvHolds, PTL
=============================================================================
