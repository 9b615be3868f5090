--------------------------- MODULE L2SpillProofs ----------------------------
(***************************************************************************)
(* What every round of the allocation loop preserves: a certificate that   *)
(* the code at hand computes what the source does.  It says for every      *)
(* instruction of the code which source instruction is due there, and      *)
(* which source locations have the value that a location and a spill slot  *)
(* of the code hold.  Spilling a variable keeps the certificate, and so    *)
(* does the renaming of the variables into the registers of a proper       *)
(* colouring.  All of it is about one piece of code: L2AllocProofs says    *)
(* what the states of the allocator have to do with it.                    *)
(***************************************************************************)
EXTENDS L2Alloc, SequenceTheorems, TLAPS

(* Where code can keep a value.                                            *)
Homes == GPR \cup Names

(* The words above rsp are the slots; only the allocator's code loads and  *)
(* stores there.                                                           *)
IsLoad(m)  == m.op = "load" /\ m.u = RSP
IsStore(m) == m.op = "store" /\ m.d = RSP /\ m.k >= 0
Access(m)  == IsLoad(m) \/ IsStore(m)

(* The image of a source instruction differs from it in the names of       *)
(* variables only.                                                         *)
Like(m, s) ==
    /\ m.op = s.op /\ m.k = s.k /\ m.lab = s.lab
    /\ \A f \in {"d", "u", "v"} : m[f] = s[f] \/ (m[f] \in Names /\ s[f] \in Names)

Fields(s) == {s[f] : f \in ReadFields(s)}

(* What location l has after the source ran s and the code m, its image,   *)
(* when the locations had F before.                                        *)
Carried(F, m, s, l) ==
    IF l \in Result(m)
    THEN IF s.op = "move" /\ m.u \in Homes THEN After(F[m.u], s) ELSE Result(s)
    ELSE IF l \in Kill(m) THEN {} ELSE After(F[l], s)

(* A location that s destroys without a new value has no value to keep.    *)
Lost(s) == Kill(s) \ Result(s)

(* In a witness w, w.org[i] is the source instruction that is due when the *)
(* code is at i; w.has[i][l] and w.slot[i][k] are the source locations     *)
(* whose value location l and slot k hold there.                           *)
WitnessType(S, c, n, w) ==
    /\ w.org \in [DOMAIN c -> 1 .. Len(S) + 1]
    /\ w.has \in [DOMAIN c -> [Homes -> SUBSET Locations]]
    /\ w.slot \in [DOMAIN c -> [0 .. n - 1 -> SUBSET Locations]]

AtEntry(n, w) ==
    /\ w.org[1] = 1
    /\ \A l \in Homes : w.has[1][l] \cap GPR \subseteq {l}
    /\ \A k \in 0 .. n - 1 : w.slot[1][k] \cap GPR = {}

LoadAt(c, n, w, i) ==
    /\ c[i].k \in 0 .. n - 1 /\ c[i].d \in Names
    /\ i + 1 \in DOMAIN c /\ w.org[i + 1] = w.org[i]
    /\ w.has[i + 1][c[i].d] \subseteq w.slot[i][c[i].k]
    /\ \A l \in Homes \ {c[i].d} : w.has[i + 1][l] \subseteq w.has[i][l]
    /\ \A k \in 0 .. n - 1 : w.slot[i + 1][k] \subseteq w.slot[i][k]

StoreAt(c, n, w, i) ==
    /\ c[i].k \in 0 .. n - 1 /\ c[i].u \in Names
    /\ i + 1 \in DOMAIN c /\ w.org[i + 1] = w.org[i]
    /\ w.slot[i + 1][c[i].k] \subseteq w.has[i][c[i].u]
    /\ \A l \in Homes : w.has[i + 1][l] \subseteq w.has[i][l]
    /\ \A k \in (0 .. n - 1) \ {c[i].k} : w.slot[i + 1][k] \subseteq w.slot[i][k]

(* The image of s reads what s reads.                                      *)
Reads(w, i, m, s) ==
    /\ \A f \in ReadFields(s) : s[f] \in Homes => s[f] \in w.has[i][m[f]]
    /\ \A r \in Gen(s) \ Fields(s) : r \in w.has[i][r]

(* Wherever both go from there, what the locations are said to hold they   *)
(* do hold.                                                                *)
Flows(S, c, n, w, i) ==
    LET s == S[w.org[i]]
    IN  \A taken \in BOOLEAN : \A j \in Branch(c, i, taken) :
            \A o \in Branch(S, w.org[i], taken) :
                /\ w.org[j] = o
                /\ \A l \in Homes :
                      w.has[j][l] \subseteq Carried(w.has[i], c[i], s, l) \cup Lost(s)
                /\ \A k \in 0 .. n - 1 :
                      w.slot[j][k] \subseteq After(w.slot[i][k], s) \cup Lost(s)

ImageAt(S, c, n, w, i) ==
    /\ Like(c[i], S[w.org[i]])
    /\ i = Len(c) => w.org[i] = Len(S)
    /\ Reads(w, i, c[i], S[w.org[i]])
    /\ Flows(S, c, n, w, i)

Certifies(S, c, n, w) ==
    /\ WitnessType(S, c, n, w)
    /\ AtEntry(n, w)
    /\ \A i \in DOMAIN c : w.org[i] \in DOMAIN S =>
          /\ IsLoad(c[i]) => LoadAt(c, n, w, i)
          /\ IsStore(c[i]) => StoreAt(c, n, w, i)
          /\ ~Access(c[i]) => ImageAt(S, c, n, w, i)

-----------------------------------------------------------------------------
(* A branch goes to one instruction, a successor.                          *)
LEMMA BranchIsOne ==
    ASSUME NEW c \in Seq(Instructions), NEW i \in DOMAIN c, NEW taken \in BOOLEAN,
           NEW j \in Branch(c, i, taken)
    PROVE  /\ j \in DOMAIN c /\ j \in Succ(c, i)
           /\ \A o \in Branch(c, i, taken) : o = j
           /\ c[i].op \notin {"return", "error"}
<1>1. DOMAIN c = 1 .. Len(c)
  OBVIOUS
<1>2. \A l : \A p, q \in Targets(c, l) : p = q
  <2>. SUFFICES ASSUME NEW l, NEW p \in Targets(c, l), NEW q \in Targets(c, l)
                PROVE  p = q
    OBVIOUS
  <2>1. p \in 1 .. Len(c) /\ q \in 1 .. Len(c) /\ p <= q /\ q <= p
    BY <1>1 DEF Targets, LabelIndices
  <2>. QED BY <2>1
<1>3. CASE c[i].op \in {"goto", "cjump"} /\ taken
  BY <1>2, <1>3 DEF Branch, Succ, Targets, LabelIndices
<1>4. CASE c[i].op \notin {"return", "error", "goto"} /\ ~taken
  BY <1>4 DEF Branch, Succ
<1>. QED BY <1>3, <1>4 DEF Branch

(* The source certifies itself: every location has its own value.          *)
LEMMA SourceCertified ==
    ASSUME NEW S \in Sources
    PROVE  \E w : Certifies(S, S, 0, w)
<1>. DEFINE org  == [i \in DOMAIN S |-> i]
            has  == [i \in DOMAIN S |-> [l \in Homes |-> {l}]]
            slot == [i \in DOMAIN S |-> [k \in 0 .. 0 - 1 |-> {}]]
            w == [org |-> org, has |-> has, slot |-> slot]
<1>0. /\ S \in Seq(Instructions) /\ DOMAIN S = 1 .. Len(S) /\ Len(S) \in Nat \ {0}
      /\ Homes \subseteq Locations /\ RSP \notin Homes /\ 0 .. 0 - 1 = {}
      /\ 1 \in DOMAIN S
  <2>1. S \in Seq(Instructions) /\ S # <<>>
    BY SourcesAssumption
  <2>2. DOMAIN S = 1 .. Len(S) /\ Len(S) \in Nat \ {0}
    BY <2>1, EmptySeq
  <2>. QED BY <2>1, <2>2, NamesAssumption, RegistersAssumption
           DEF Homes, Locations, Registers
<1>a. /\ org \in [DOMAIN S -> 1 .. Len(S) + 1] /\ \A i \in DOMAIN S : org[i] = i
      /\ has \in [DOMAIN S -> [Homes -> SUBSET Locations]]
      /\ \A i \in DOMAIN S : \A l \in Homes : has[i][l] = {l}
      /\ slot \in [DOMAIN S -> [0 .. 0 - 1 -> SUBSET Locations]]
  BY <1>0
<1>b. w.org = org /\ w.has = has /\ w.slot = slot
  OBVIOUS
<1>. HIDE DEF org, has, slot, w
<1>1. WitnessType(S, S, 0, w)
  BY <1>a, <1>b DEF WitnessType
<1>2. AtEntry(0, w)
  BY <1>0, <1>a, <1>b DEF AtEntry
<1>3. ASSUME NEW i \in DOMAIN S
      PROVE  ~Access(S[i]) /\ ImageAt(S, S, 0, w, i)
  <2>1. ~Access(S[i])
    <3>1. S[i].k \in Int
      BY <1>0 DEF Instructions
    <3>. QED BY <3>1, StackAssumption DEF Access, IsLoad, IsStore
  <2>2. Like(S[i], S[w.org[i]])
    BY <1>a, <1>b DEF Like
  <2>3. Gen(S[i]) \ Fields(S[i]) \subseteq Homes
    BY <1>0, RegistersAssumption
    DEF Gen, Fields, ReadFields, ArgumentRegisters, Homes, Instructions
  <2>4. Reads(w, i, S[i], S[w.org[i]])
    BY <1>a, <1>b, <2>3 DEF Reads
  <2>5. Flows(S, S, 0, w, i)
    <3>. SUFFICES ASSUME NEW taken \in BOOLEAN, NEW j \in Branch(S, i, taken),
                         NEW o \in Branch(S, i, taken)
                  PROVE  /\ w.org[j] = o
                         /\ \A l \in Homes :
                               w.has[j][l] \subseteq Carried(w.has[i], S[i], S[i], l)
                                                  \cup Lost(S[i])
      BY <1>0, <1>a, <1>b DEF Flows
    <3>1. j \in DOMAIN S /\ o = j
      BY <1>0, BranchIsOne
    <3>2. ASSUME NEW l \in Homes
          PROVE  l \in Carried(w.has[i], S[i], S[i], l) \cup Lost(S[i])
      <4>1. CASE l \in Result(S[i])
        BY <1>a, <1>b, <4>1 DEF Carried, Result, After, Kill
      <4>2. CASE l \notin Result(S[i])
        BY <1>a, <1>b, <4>2 DEF Carried, Lost, After
      <4>. QED BY <4>1, <4>2
    <3>. QED BY <1>a, <1>b, <3>1, <3>2
  <2>. QED BY <1>a, <1>b, <2>1, <2>2, <2>4, <2>5 DEF ImageAt
<1>. QED BY <1>1, <1>2, <1>3 DEF Certifies, Access

-----------------------------------------------------------------------------
(* The code that spills x into slot n, as spill leaves it after done       *)
(* instructions: instruction i has become those from st[i] to before       *)
(* st[i + 1], with the temporary tmp[i].                                   *)
Before(m, x) == IF x \in Gen(m) THEN 1 ELSE 0
Behind(m, x) == IF x \in Kill(m) THEN 1 ELSE 0

Img(c, x, st, i) == st[i] + Before(c[i], x)
End(c, x, st, i) == Img(c, x, st, i) + Behind(c[i], x)

PartsAt(c, x, new, st, i) ==
    LET p == Img(c, x, st, i)
        q == End(c, x, st, i)
    IN  /\ p \in DOMAIN new /\ st[i] \in DOMAIN new /\ q \in DOMAIN new
        /\ st[i] = (IF x \in Gen(c[i]) THEN p - 1 ELSE p)
        /\ q = (IF x \in Kill(c[i]) THEN p + 1 ELSE p)
        /\ i + 1 \in DOMAIN c => q + 1 = st[i + 1]
        /\ i + 1 \notin DOMAIN c => i = Len(c) /\ q = Len(new)

GroupAt(c, x, n, new, st, tmp, i) ==
    /\ tmp[i] \in Names
    /\ Touches(c[i], x) => tmp[i] \notin VarsOf(c)
    /\ st[i + 1] = Img(c, x, st, i) + 1 + Behind(c[i], x)
    /\ x \in Gen(c[i]) => new[st[i]] = Load(tmp[i], RSP, n)
    /\ new[Img(c, x, st, i)] = Replace(c[i], x, tmp[i])
    /\ x \in Kill(c[i]) => new[Img(c, x, st, i) + 1] = Store(RSP, n, tmp[i])

Expanded(c, x, n, done, new, st, tmp) ==
    /\ st \in [1 .. done + 1 -> Nat \ {0}] /\ st[1] = 1
    /\ \A i, j \in 1 .. done + 1 : i < j => st[i] < st[j]
    /\ new \in Seq(Instructions) /\ Len(new) = st[done + 1] - 1
    /\ \A i \in 1 .. done : GroupAt(c, x, n, new, st, tmp, i)
    /\ \A p \in 1 .. Len(new) : \E i \in 1 .. done : st[i] <= p /\ p < st[i + 1]

(* Where the parts of an instruction are, and that there is nothing else.  *)
LEMMA Layout ==
    ASSUME NEW c \in Seq(Instructions), NEW x, NEW n, NEW new, NEW st, NEW tmp,
           Expanded(c, x, n, Len(c), new, st, tmp)
    PROVE  /\ \A i \in DOMAIN c : PartsAt(c, x, new, st, i)
           /\ \A p \in DOMAIN new : \E i \in DOMAIN c :
                \/ x \in Gen(c[i]) /\ p = st[i]
                \/ p = Img(c, x, st, i)
                \/ x \in Kill(c[i]) /\ p = Img(c, x, st, i) + 1
<1>. USE DEF Before, Behind, Img
<1>1. /\ DOMAIN c = 1 .. Len(c) /\ Len(c) \in Nat
      /\ DOMAIN new = 1 .. Len(new) /\ Len(new) \in Nat
  BY DEF Expanded
<1>2. ASSUME NEW i \in DOMAIN c
      PROVE  /\ st[i] \in Nat \ {0} /\ st[i + 1] \in Nat \ {0} /\ st[Len(c) + 1] \in Nat
             /\ st[i + 1] = st[i] + Before(c[i], x) + 1 + Behind(c[i], x)
             /\ st[i + 1] <= st[Len(c) + 1]
             /\ i + 1 \notin DOMAIN c => i = Len(c)
  <2>1. i \in 1 .. Len(c) + 1 /\ i + 1 \in 1 .. Len(c) + 1 /\ Len(c) + 1 \in 1 .. Len(c) + 1
    BY <1>1
  <2>2. st[i] \in Nat \ {0} /\ st[i + 1] \in Nat \ {0} /\ st[Len(c) + 1] \in Nat
    BY <2>1 DEF Expanded
  <2>3. st[i + 1] = st[i] + Before(c[i], x) + 1 + Behind(c[i], x)
    BY <1>1 DEF Expanded, GroupAt
  <2>4. i + 1 < Len(c) + 1 => st[i + 1] < st[Len(c) + 1]
    BY <2>1 DEF Expanded
  <2>. QED BY <1>1, <2>2, <2>3, <2>4
<1>3. ASSUME NEW i \in DOMAIN c PROVE PartsAt(c, x, new, st, i)
  <2>1. Len(new) = st[Len(c) + 1] - 1
    BY DEF Expanded
  <2>2. /\ Before(c[i], x) \in {0, 1} /\ Behind(c[i], x) \in {0, 1}
        /\ Before(c[i], x) = (IF x \in Gen(c[i]) THEN 1 ELSE 0)
        /\ Behind(c[i], x) = (IF x \in Kill(c[i]) THEN 1 ELSE 0)
    OBVIOUS
  <2>3. /\ st[i] \in Nat \ {0} /\ st[i + 1] \in Nat /\ st[Len(c) + 1] \in Nat
        /\ st[i + 1] = st[i] + Before(c[i], x) + 1 + Behind(c[i], x)
        /\ st[i + 1] <= st[Len(c) + 1]
    BY <1>2
  <2>4. i + 1 \notin DOMAIN c => i = Len(c)
    BY <1>2
  <2>. HIDE DEF Before, Behind
  <2>5. /\ Img(c, x, st, i) \in 1 .. Len(new) /\ End(c, x, st, i) \in 1 .. Len(new)
        /\ st[i] \in 1 .. Len(new)
        /\ End(c, x, st, i) + 1 = st[i + 1]
    <3>1. \A a, b, e, z, m : /\ a \in Nat \ {0} /\ b \in {0, 1} /\ e \in {0, 1}
                           /\ z \in Nat /\ m \in Nat
                           /\ z = a + b + 1 + e /\ z <= m
                           => /\ a + b \in 1 .. m - 1 /\ a \in 1 .. m - 1
                              /\ (a + b) + e \in 1 .. m - 1
                              /\ ((a + b) + e) + 1 = z
      OBVIOUS
    <3>. DEFINE a == st[i]
                b == Before(c[i], x)
                e == Behind(c[i], x)
                z == st[i + 1]
                m == st[Len(c) + 1]
    <3>2. /\ a + b \in 1 .. m - 1 /\ a \in 1 .. m - 1
          /\ (a + b) + e \in 1 .. m - 1
          /\ ((a + b) + e) + 1 = z
      <4>. HIDE DEF a, b, e, z, m
      <4>. QED BY <2>2, <2>3, <3>1 DEF a, b, e, z, m
    <3>. QED BY <2>1, <3>2 DEF End
  <2>6. st[i] = IF x \in Gen(c[i]) THEN Img(c, x, st, i) - 1 ELSE Img(c, x, st, i)
    BY <2>2, <2>3
  <2>7. /\ Img(c, x, st, i) \in Int
        /\ End(c, x, st, i) = IF x \in Kill(c[i]) THEN Img(c, x, st, i) + 1
                              ELSE Img(c, x, st, i)
    BY <2>2, <2>3 DEF End
  <2>8. i + 1 \notin DOMAIN c => End(c, x, st, i) = Len(new)
    BY <2>1, <2>3, <2>4, <2>5, <2>7
  <2>. HIDE DEF Img
  <2>. QED BY <1>1, <2>4, <2>5, <2>6, <2>7, <2>8 DEF PartsAt
<1>4. ASSUME NEW p \in DOMAIN new
      PROVE  \E i \in DOMAIN c :
                \/ x \in Gen(c[i]) /\ p = st[i]
                \/ p = Img(c, x, st, i)
                \/ x \in Kill(c[i]) /\ p = Img(c, x, st, i) + 1
  <2>1. PICK i \in DOMAIN c : st[i] <= p /\ p < st[i + 1]
    BY <1>1 DEF Expanded
  <2>2. p \in Nat /\ st[i] \in Nat /\ st[i + 1] = st[i] + Before(c[i], x) + 1 + Behind(c[i], x)
    BY <1>1, <1>2
  <2>3. CASE x \in Gen(c[i])
    <3>1. CASE x \in Kill(c[i])
      <4>1. st[i + 1] = st[i] + 3
        BY <2>2, <2>3, <3>1
      <4>2. p = st[i] \/ p = st[i] + 1 \/ p = st[i] + 1 + 1
        BY <2>1, <2>2, <4>1
      <4>. QED BY <2>3, <3>1, <4>2
    <3>2. CASE x \notin Kill(c[i])
      <4>1. st[i + 1] = st[i] + 2
        BY <2>2, <2>3, <3>2
      <4>2. p = st[i] \/ p = st[i] + 1
        BY <2>1, <2>2, <4>1
      <4>. QED BY <2>3, <4>2
    <3>. QED BY <3>1, <3>2
  <2>4. CASE x \notin Gen(c[i])
    <3>1. p = st[i] + 0 \/ (x \in Kill(c[i]) /\ p = st[i] + 0 + 1)
      BY <2>1, <2>2, <2>4
    <3>. QED BY <2>4, <3>1
  <2>. QED BY <2>3, <2>4
<1>. QED BY <1>3, <1>4

(* A function on the new code may be given by its values on the three      *)
(* parts.                                                                  *)
HasParts(c, x, new, st, T, onLoad, onImage, onStore) ==
    \E f \in [DOMAIN new -> T] : \A i \in DOMAIN c :
        /\ x \in Gen(c[i]) => f[st[i]] = onLoad[i]
        /\ f[Img(c, x, st, i)] = onImage[i]
        /\ x \in Kill(c[i]) => f[Img(c, x, st, i) + 1] = onStore[i]

LEMMA Assemble ==
    ASSUME NEW c \in Seq(Instructions), NEW x, NEW n, NEW new, NEW st, NEW tmp,
           Expanded(c, x, n, Len(c), new, st, tmp),
           NEW T, NEW onLoad \in [DOMAIN c -> T], NEW onImage \in [DOMAIN c -> T],
           NEW onStore \in [DOMAIN c -> T]
    PROVE  HasParts(c, x, new, st, T, onLoad, onImage, onStore)
<1>. DEFINE in(p, i) == st[i] <= p /\ p < st[i + 1]
            grp(p) == CHOOSE i \in DOMAIN c : in(p, i)
            part(p, i) == IF p < Img(c, x, st, i) THEN onLoad[i]
                          ELSE IF p = Img(c, x, st, i) THEN onImage[i] ELSE onStore[i]
            f == [p \in DOMAIN new |-> part(p, grp(p))]
<1>1. /\ DOMAIN c = 1 .. Len(c) /\ Len(c) \in Nat
      /\ DOMAIN new = 1 .. Len(new) /\ Len(new) \in Nat
  BY DEF Expanded
<1>2. \A i \in DOMAIN c : /\ st[i] \in Nat /\ st[i + 1] \in Nat
                          /\ st[i + 1] = Img(c, x, st, i) + 1 + Behind(c[i], x)
  BY <1>1 DEF Expanded, GroupAt
<1>3. ASSUME NEW p \in DOMAIN new, NEW i \in DOMAIN c, in(p, i)
      PROVE  grp(p) = i
  <2>1. ASSUME NEW j \in DOMAIN c, in(p, j), j # i PROVE FALSE
    <3>1. CASE j < i
      <4>1. j + 1 = i \/ j + 1 < i
        BY <1>1, <3>1
      <4>2. st[j + 1] <= st[i]
        BY <1>1, <1>2, <4>1 DEF Expanded
      <4>. QED BY <1>1, <1>2, <1>3, <2>1, <4>2
    <3>2. CASE i < j
      <4>1. i + 1 = j \/ i + 1 < j
        BY <1>1, <3>2
      <4>2. st[i + 1] <= st[j]
        BY <1>1, <1>2, <4>1 DEF Expanded
      <4>. QED BY <1>1, <1>2, <1>3, <2>1, <4>2
    <3>. QED BY <1>1, <2>1, <3>1, <3>2
  <2>. QED BY <1>3, <2>1
<1>4. f \in [DOMAIN new -> T]
  <2>. SUFFICES ASSUME NEW p \in DOMAIN new PROVE part(p, grp(p)) \in T
    OBVIOUS
  <2>1. \E i \in DOMAIN c : in(p, i)
    BY <1>1 DEF Expanded
  <2>2. grp(p) \in DOMAIN c
    BY <2>1
  <2>. HIDE DEF grp
  <2>. QED BY <2>2
<1>5. ASSUME NEW i \in DOMAIN c
      PROVE  /\ x \in Gen(c[i]) => f[st[i]] = onLoad[i]
             /\ f[Img(c, x, st, i)] = onImage[i]
             /\ x \in Kill(c[i]) => f[Img(c, x, st, i) + 1] = onStore[i]
  <2>. HIDE DEF f, in, grp, part
  <2>1. /\ Img(c, x, st, i) \in DOMAIN new /\ st[i] \in DOMAIN new
        /\ x \in Gen(c[i]) => st[i] = Img(c, x, st, i) - 1
        /\ x \notin Gen(c[i]) => st[i] = Img(c, x, st, i)
        /\ x \in Kill(c[i]) => Img(c, x, st, i) + 1 \in DOMAIN new
    <3>1. PartsAt(c, x, new, st, i)
      BY Layout
    <3>. QED BY <3>1 DEF PartsAt
  <2>2. \A p \in DOMAIN new : in(p, i) => f[p] = part(p, i)
    BY <1>3 DEF f
  <2>3. /\ in(st[i], i) /\ in(Img(c, x, st, i), i)
        /\ x \in Kill(c[i]) => in(Img(c, x, st, i) + 1, i)
    BY <1>1, <1>2, <2>1 DEF Behind, in
  <2>4. x \in Gen(c[i]) => part(st[i], i) = onLoad[i]
    BY <1>1, <1>2, <2>1 DEF part
  <2>5. part(Img(c, x, st, i), i) = onImage[i]
    BY <1>1, <2>1 DEF part
  <2>6. x \in Kill(c[i]) => part(Img(c, x, st, i) + 1, i) = onStore[i]
    BY <1>1, <2>1 DEF part
  <2>. QED BY <2>1, <2>2, <2>3, <2>4, <2>5, <2>6
<1>. QED BY <1>4, <1>5 DEF HasParts

-----------------------------------------------------------------------------
(* What renaming does to the operands, to GEN and to KILL.                 *)
LEMMA Occurs ==
    ASSUME NEW m \in Instructions, NEW x \in Names
    PROVE  /\ Touches(m, x) <=> x \in {m.d, m.u, m.v}
           /\ \A f \in ReadFields(m) : m[f] = x => x \in Gen(m)
           /\ x \in Kill(m) => x = m.d /\ m.op \notin {"call", "error", "store", "label",
                                                       "goto", "cjump", "return"}
           /\ x \in Result(m) <=> x \in Kill(m)
<1>1. x \in Locations /\ x \notin GPR /\ x # Imm
  BY NamesAssumption DEF Locations
<1>2. x \notin CallerSaved \cup CalleeSaved \cup {RAX}
      /\ \A n : x \notin ArgumentRegisters(n)
  BY <1>1, RegistersAssumption DEF ArgumentRegisters
<1>3. m.op \in {"move", "load", "store", "stackarg", "update", "shift", "compute",
                "label", "goto", "cjump", "call", "error", "return"}
  BY DEF Instructions
<1>4. m.op \in {"label", "goto", "cjump", "call", "error", "return"} => m.d = Imm
  BY DEF Instructions
<1>5. x \in Kill(m) <=> /\ x = m.d
                        /\ m.op \notin {"call", "error", "store", "label",
                                        "goto", "cjump", "return"}
  BY <1>1, <1>2, <1>3 DEF Kill
<1>6. x \in Gen(m) <=> \/ x \in {m.u, m.v}
                       \/ x = m.d /\ m.op \in {"store", "update", "shift"}
  BY <1>1, <1>2, <1>3 DEF Gen
<1>7. x \in Result(m) <=> x \in Kill(m)
  BY <1>2, <1>5 DEF Result
<1>. QED BY <1>1, <1>3, <1>4, <1>5, <1>6, <1>7 DEF Touches, ReadFields

LEMMA Renamed ==
    ASSUME NEW m \in Instructions, NEW x \in Names, NEW t \in Names
    PROVE  LET r == Replace(m, x, t)
           IN  /\ r.op = m.op /\ r.k = m.k /\ r.lab = m.lab
               /\ \A f \in {"d", "u", "v"} : r[f] = IF m[f] = x THEN t ELSE m[f]
               /\ r \in Instructions
               /\ ~Touches(m, x) => r = m
<1>. DEFINE r == Replace(m, x, t)
<1>0. m \in [op : {"move", "load", "store", "stackarg", "update", "shift", "compute",
                   "label", "goto", "cjump", "call", "error", "return"},
             d : Operands, u : Operands, v : Operands, k : Int, lab : Labels]
  BY DEF Instructions
<1>1. /\ r.op = m.op /\ r.k = m.k /\ r.lab = m.lab
      /\ r.d = (IF m.d = x THEN t ELSE m.d)
      /\ r.u = (IF m.u = x THEN t ELSE m.u)
      /\ r.v = (IF m.v = x THEN t ELSE m.v)
  BY <1>0 DEF Replace
<1>2. x # Imm /\ x # RCX /\ t \in Operands
  BY NamesAssumption, RegistersAssumption DEF Operands, Locations
<1>3. r \in [op : {"move", "load", "store", "stackarg", "update", "shift", "compute",
                   "label", "goto", "cjump", "call", "error", "return"},
             d : Operands, u : Operands, v : Operands, k : Int, lab : Labels]
  BY <1>0, <1>2 DEF Replace
<1>4. r \in Instructions
  <2>. HIDE DEF r
  <2>. QED BY <1>1, <1>2, <1>3 DEF Instructions
<1>5. ~Touches(m, x) => r = m
  <2>. SUFFICES ASSUME ~Touches(m, x) PROVE r = m
    OBVIOUS
  <2>1. x \notin {m.d, m.u, m.v}
    BY Occurs
  <2>. QED BY <1>0, <2>1 DEF Replace
<1>. QED BY <1>1, <1>4, <1>5

(* Seen from another location, the renamed instruction is the same; the    *)
(* new name takes the place of the old one.                                *)
LEMMA RenamedEffect ==
    ASSUME NEW m \in Instructions, NEW x \in Names, NEW t \in Names,
           t \notin {m.d, m.u, m.v}, t # x
    PROVE  LET r == Replace(m, x, t)
           IN  /\ \A l \in Homes \ {x, t} : /\ l \in Kill(r) <=> l \in Kill(m)
                                            /\ l \in Result(r) <=> l \in Result(m)
               /\ t \in Result(r) <=> x \in Kill(m)
               /\ t \in Kill(r) <=> x \in Kill(m)
<1>. DEFINE r == Replace(m, x, t)
<1>1. r \in Instructions /\ r.op = m.op /\ r.d = IF m.d = x THEN t ELSE m.d
  BY Renamed
<1>2. m.op \in {"move", "load", "store", "stackarg", "update", "shift", "compute",
                "label", "goto", "cjump", "call", "error", "return"}
  BY DEF Instructions
<1>3. x \in Locations /\ t \in Locations
  BY DEF Locations
<1>. HIDE DEF r
<1>4. \A l \in Homes \ {x, t} : l \in Kill(r) <=> l \in Kill(m)
  BY <1>1, <1>2, <1>3 DEF Kill
<1>5. \A l \in Homes \ {x, t} : l \in Result(r) <=> l \in Result(m)
  BY <1>1, <1>4 DEF Result
<1>6. t \in Kill(r) <=> x \in Kill(m)
  BY <1>1, <1>2, <1>3, RegistersAssumption, NamesAssumption DEF Kill
<1>7. t \in Result(r) <=> t \in Kill(r)
  BY <1>1, Occurs
<1>. QED BY <1>4, <1>5, <1>6, <1>7 DEF r

(* Where the image goes: to the store behind it, or to the images of the   *)
(* instructions where the instruction goes.                                *)
LEMMA BranchOfImage ==
    ASSUME NEW c \in Seq(Instructions), NEW x \in Names, NEW n, NEW new, NEW st, NEW tmp,
           Expanded(c, x, n, Len(c), new, st, tmp),
           NEW i \in DOMAIN c, NEW taken \in BOOLEAN,
           NEW q \in Branch(new, Img(c, x, st, i), taken)
    PROVE  \/ /\ x \in Kill(c[i]) /\ ~taken /\ q = Img(c, x, st, i) + 1
              /\ c[i].op \notin {"return", "error", "goto"}
           \/ /\ x \notin Kill(c[i])
              /\ \E j \in Branch(c, i, taken) : q = st[j]
<1>. DEFINE p == Img(c, x, st, i)
<1>0. /\ DOMAIN c = 1 .. Len(c) /\ Len(c) \in Nat
      /\ \A j \in DOMAIN c : c[j] \in Instructions /\ PartsAt(c, x, new, st, j)
      /\ \A j \in DOMAIN c : tmp[j] \in Names
      /\ \A j \in DOMAIN c : new[Img(c, x, st, j)] = Replace(c[j], x, tmp[j])
  <2>1. DOMAIN c = 1 .. Len(c) /\ Len(c) \in Nat /\ \A j \in DOMAIN c : c[j] \in Instructions
    OBVIOUS
  <2>2. \A j \in DOMAIN c : PartsAt(c, x, new, st, j)
    BY Layout
  <2>3. \A j \in DOMAIN c : GroupAt(c, x, n, new, st, tmp, j)
    BY <2>1 DEF Expanded
  <2>. QED BY <2>1, <2>2, <2>3 DEF GroupAt
<1>1. new[p].op = c[i].op /\ new[p].lab = c[i].lab
  BY <1>0, Renamed
<1>2. CASE x \in Kill(c[i])
  <2>1. c[i].op \notin {"goto", "cjump", "return", "error"}
    BY <1>0, <1>2, Occurs
  <2>. QED BY <1>1, <1>2, <2>1 DEF Branch
<1>3. CASE x \notin Kill(c[i]) /\ ~taken
  <2>1. q = p + 1 /\ q \in DOMAIN new /\ c[i].op \notin {"goto", "return", "error"}
    BY <1>1, <1>3 DEF Branch
  <2>2. PartsAt(c, x, new, st, i)
    BY <1>0
  <2>3. DOMAIN new = 1 .. Len(new) /\ Len(new) \in Nat
    BY DEF Expanded
  <2>4. i + 1 \in DOMAIN c /\ q = st[i + 1]
    BY <1>3, <2>1, <2>2, <2>3 DEF PartsAt
  <2>. QED BY <1>3, <2>1, <2>4 DEF Branch
<1>4. CASE x \notin Kill(c[i]) /\ taken
  <2>1. q \in Targets(new, c[i].lab) /\ c[i].op \in {"goto", "cjump"}
    BY <1>1, <1>4 DEF Branch
  <2>2. ASSUME NEW j \in DOMAIN c, c[j].op = "label"
        PROVE  Img(c, x, st, j) = st[j] /\ new[st[j]] = c[j] /\ st[j] \in DOMAIN new
    <3>1. c[j] \in Instructions /\ PartsAt(c, x, new, st, j)
      BY <1>0
    <3>2. c[j].d = Imm /\ c[j].u = Imm /\ c[j].v = Imm /\ x # Imm
      BY <2>2, <3>1, NamesAssumption DEF Instructions
    <3>3. ~Touches(c[j], x)
      BY <3>1, <3>2, Occurs
    <3>4. new[Img(c, x, st, j)] = c[j]
      BY <1>0, <3>3, Renamed
    <3>. QED BY <3>1, <3>3, <3>4 DEF PartsAt, Touches
  <2>3. PICK j \in DOMAIN c : \/ x \in Gen(c[j]) /\ q = st[j]
                              \/ q = Img(c, x, st, j)
                              \/ x \in Kill(c[j]) /\ q = Img(c, x, st, j) + 1
    BY <2>1, Layout DEF Targets, LabelIndices
  <2>4. new[q].op = "label" /\ new[q].lab = c[i].lab
    BY <2>1 DEF Targets, LabelIndices
  <2>5. c[j].op = "label" /\ c[j].lab = c[i].lab /\ q = st[j]
    <3>1. x \in Gen(c[j]) => new[st[j]] = Load(tmp[j], RSP, n)
      BY <1>0 DEF Expanded, GroupAt
    <3>2. x \in Kill(c[j]) => new[Img(c, x, st, j) + 1] = Store(RSP, n, tmp[j])
      BY <1>0 DEF Expanded, GroupAt
    <3>3. q = Img(c, x, st, j)
      BY <2>3, <2>4, <3>1, <3>2 DEF Load, Store, Instr
    <3>4. new[q].op = c[j].op /\ new[q].lab = c[j].lab
      BY <1>0, <3>3, Renamed
    <3>. QED BY <2>2, <2>4, <3>3, <3>4
  <2>6. ASSUME NEW k \in LabelIndices(c, c[i].lab) PROVE j <= k
    <3>1. k \in DOMAIN c /\ c[k].op = "label" /\ c[k].lab = c[i].lab
      BY DEF LabelIndices
    <3>2. st[k] \in LabelIndices(new, c[i].lab)
      BY <2>2, <3>1 DEF LabelIndices
    <3>3. q <= st[k]
      BY <2>1, <3>2 DEF Targets
    <3>4. k < j => st[k] < st[j]
      BY <1>0, <3>1 DEF Expanded
    <3>5. st[k] \in Nat /\ st[j] \in Nat
      BY <1>0, <3>1 DEF Expanded
    <3>. QED BY <1>0, <2>5, <3>1, <3>3, <3>4, <3>5
  <2>7. j \in Targets(c, c[i].lab)
    BY <2>5, <2>6 DEF Targets, LabelIndices
  <2>. QED BY <1>4, <2>1, <2>5, <2>7 DEF Branch
<1>. QED BY <1>2, <1>3, <1>4

-----------------------------------------------------------------------------
(* The certificate of the spilled code.  The locations other than x keep   *)
(* what they held; what x held is in slot n, and in the temporary between  *)
(* the load and the store.                                                 *)
Keep(c, x) == (GPR \cup VarsOf(c)) \ {x}

Moved(c, x, F, T) ==
    [l \in Homes |-> IF l \in Keep(c, x) THEN F[l] ELSE IF l \in T THEN F[x] ELSE {}]

WithSlot(n, G, X) == [k \in 0 .. n |-> IF k = n THEN X ELSE G[k]]

(* At q of the new code the state is that of j in the old code, with what  *)
(* x held in the locations T, and with X in slot n.                        *)
Arrived(c, x, n, w, v, q, j, T, X) ==
    /\ v.org[q] = w.org[j]
    /\ v.has[q] = Moved(c, x, w.has[j], T)
    /\ v.slot[q] = WithSlot(n, w.slot[j], X)

Temporary(m, x, t) == IF x \in Gen(m) THEN {t} ELSE {}

SpilledWitness(S, c, x, n, st, tmp, w, v) ==
    \A i \in DOMAIN c :
        LET p == Img(c, x, st, i)
        IN  /\ x \in Gen(c[i]) => Arrived(c, x, n, w, v, st[i], i, {}, w.has[i][x])
            /\ Arrived(c, x, n, w, v, p, i, Temporary(c[i], x, tmp[i]), w.has[i][x])
            /\ x \in Kill(c[i]) =>
                  IF i + 1 \in DOMAIN c
                  THEN Arrived(c, x, n, w, v, p + 1, i + 1, {tmp[i]}, {})
                  ELSE v.org[p + 1] = Len(S) + 1

LEMMA SpilledWitnessExists ==
    ASSUME NEW S \in Seq(Instructions), NEW c \in Seq(Instructions), NEW x \in Names,
           NEW n \in Nat, NEW new, NEW st, NEW tmp, NEW w,
           WitnessType(S, c, n, w), Expanded(c, x, n, Len(c), new, st, tmp)
    PROVE  \E v : WitnessType(S, new, n + 1, v) /\ SpilledWitness(S, c, x, n, st, tmp, w, v)
<1>. DEFINE O == 1 .. Len(S) + 1
            H == [Homes -> SUBSET Locations]
            V == [0 .. n -> SUBSET Locations]
            orgL == [i \in DOMAIN c |-> w.org[i]]
            orgS == [i \in DOMAIN c |-> IF i + 1 \in DOMAIN c THEN w.org[i + 1] ELSE Len(S) + 1]
            hasL == [i \in DOMAIN c |-> Moved(c, x, w.has[i], {})]
            hasI == [i \in DOMAIN c |->
                        Moved(c, x, w.has[i], Temporary(c[i], x, tmp[i]))]
            hasS == [i \in DOMAIN c |->
                        IF i + 1 \in DOMAIN c THEN Moved(c, x, w.has[i + 1], {tmp[i]})
                        ELSE [l \in Homes |-> {}]]
            slotL == [i \in DOMAIN c |-> WithSlot(n, w.slot[i], w.has[i][x])]
            slotS == [i \in DOMAIN c |->
                        IF i + 1 \in DOMAIN c THEN WithSlot(n, w.slot[i + 1], {})
                        ELSE [k \in 0 .. n |-> {}]]
<1>0. /\ x \in Homes /\ Len(S) \in Nat /\ Len(S) + 1 \in O
      /\ (n + 1) - 1 = n /\ \A k \in 0 .. n : k = n \/ k \in 0 .. n - 1
  BY DEF Homes
<1>1. /\ w.org \in [DOMAIN c -> O] /\ w.has \in [DOMAIN c -> H]
      /\ w.slot \in [DOMAIN c -> [0 .. n - 1 -> SUBSET Locations]]
  BY DEF WitnessType
<1>2. \A i \in DOMAIN c : \A T : Moved(c, x, w.has[i], T) \in H
  BY <1>0, <1>1 DEF Moved
<1>3. \A i \in DOMAIN c : \A X \in SUBSET Locations : WithSlot(n, w.slot[i], X) \in V
  BY <1>0, <1>1 DEF WithSlot
<1>4. orgL \in [DOMAIN c -> O] /\ orgS \in [DOMAIN c -> O]
  BY <1>0, <1>1
<1>5. hasL \in [DOMAIN c -> H] /\ hasI \in [DOMAIN c -> H] /\ hasS \in [DOMAIN c -> H]
  <2>1. [l \in Homes |-> {}] \in H
    OBVIOUS
  <2>. HIDE DEF H
  <2>. QED BY <1>2, <2>1
<1>6. slotL \in [DOMAIN c -> V] /\ slotS \in [DOMAIN c -> V]
  <2>1. [k \in 0 .. n |-> {}] \in V /\ \A i \in DOMAIN c : w.has[i][x] \in SUBSET Locations
    BY <1>0, <1>1
  <2>. HIDE DEF V
  <2>. QED BY <1>3, <2>1
<1>. HIDE DEF O, H, V
<1>7. PICK org \in [DOMAIN new -> O] : \A i \in DOMAIN c :
              /\ x \in Gen(c[i]) => org[st[i]] = orgL[i]
              /\ org[Img(c, x, st, i)] = orgL[i]
              /\ x \in Kill(c[i]) => org[Img(c, x, st, i) + 1] = orgS[i]
  <2>. HIDE DEF orgL, orgS
  <2>1. HasParts(c, x, new, st, O, orgL, orgL, orgS)
    BY <1>4, Assemble
  <2>. QED BY <2>1 DEF HasParts
<1>8. PICK has \in [DOMAIN new -> H] : \A i \in DOMAIN c :
              /\ x \in Gen(c[i]) => has[st[i]] = hasL[i]
              /\ has[Img(c, x, st, i)] = hasI[i]
              /\ x \in Kill(c[i]) => has[Img(c, x, st, i) + 1] = hasS[i]
  <2>. HIDE DEF hasL, hasI, hasS
  <2>1. HasParts(c, x, new, st, H, hasL, hasI, hasS)
    BY <1>5, Assemble
  <2>. QED BY <2>1 DEF HasParts
<1>9. PICK slot \in [DOMAIN new -> V] : \A i \in DOMAIN c :
              /\ x \in Gen(c[i]) => slot[st[i]] = slotL[i]
              /\ slot[Img(c, x, st, i)] = slotL[i]
              /\ x \in Kill(c[i]) => slot[Img(c, x, st, i) + 1] = slotS[i]
  <2>. HIDE DEF slotL, slotS
  <2>1. HasParts(c, x, new, st, V, slotL, slotL, slotS)
    BY <1>6, Assemble
  <2>. QED BY <2>1 DEF HasParts
<1>. DEFINE v == [org |-> org, has |-> has, slot |-> slot]
<1>10. v.org = org /\ v.has = has /\ v.slot = slot
  OBVIOUS
<1>. HIDE DEF v
<1>11. WitnessType(S, new, n + 1, v)
  BY <1>0, <1>7, <1>8, <1>9, <1>10 DEF WitnessType, O, H, V
<1>12. SpilledWitness(S, c, x, n, st, tmp, w, v)
  BY <1>7, <1>8, <1>9, <1>10 DEF SpilledWitness, Arrived
<1>. QED BY <1>11, <1>12

SpillContext(S, c, x, n, new, st, tmp, w, v) ==
    /\ S \in Sources /\ c \in Seq(Instructions) /\ c # <<>>
    /\ x \in Names /\ n \in Nat
    /\ Expanded(c, x, n, Len(c), new, st, tmp)
    /\ Certifies(S, c, n, w)
    /\ WitnessType(S, new, n + 1, v)
    /\ SpilledWitness(S, c, x, n, st, tmp, w, v)

ImageFacts(c, x, new, st, tmp, w, v, i) ==
    LET m == c[i]
        t == tmp[i]
        p == Img(c, x, st, i)
        r == new[p]
    IN  /\ p \in DOMAIN new /\ m \in Instructions /\ r \in Instructions /\ t \in Names
        /\ r.op = m.op /\ r.k = m.k /\ r.lab = m.lab
        /\ \A f \in {"d", "u", "v"} :
              /\ r[f] = IF m[f] = x THEN t ELSE m[f]
              /\ m[f] \in Homes /\ m[f] # x => m[f] \in Keep(c, x)
        /\ \A l \in Keep(c, x) : /\ l \in Homes /\ l # x
                                 /\ l \in Kill(r) <=> l \in Kill(m)
                                 /\ l \in Result(r) <=> l \in Result(m)
                                 /\ v.has[p][l] = w.has[i][l]
        /\ Touches(m, x) => t \notin Keep(c, x)
        /\ x \in Kill(m) => t \in Result(r) /\ x \in Result(m)
        /\ x \notin Kill(m) => x \notin Result(m)
        /\ x \in Gen(m) => v.has[p][t] = w.has[i][x]

LEMMA ImageFactsHold ==
    ASSUME NEW S, NEW c, NEW x, NEW n, NEW new, NEW st, NEW tmp, NEW w, NEW v,
           SpillContext(S, c, x, n, new, st, tmp, w, v), NEW i \in DOMAIN c
    PROVE  ImageFacts(c, x, new, st, tmp, w, v, i)
<1>. DEFINE m == c[i]
            t == tmp[i]
            p == Img(c, x, st, i)
            r == new[p]
<1>0. /\ c \in Seq(Instructions) /\ x \in Names /\ n \in Nat
      /\ Expanded(c, x, n, Len(c), new, st, tmp)
      /\ DOMAIN c = 1 .. Len(c)
      /\ SpilledWitness(S, c, x, n, st, tmp, w, v)
  BY DEF SpillContext
<1>1. PartsAt(c, x, new, st, i)
  BY <1>0, Layout
<1>2. GroupAt(c, x, n, new, st, tmp, i)
  BY <1>0 DEF Expanded
<1>3. /\ m \in Instructions /\ t \in Names /\ p \in DOMAIN new /\ r = Replace(m, x, t)
      /\ Touches(m, x) => t \notin VarsOf(c)
  BY <1>0, <1>1, <1>2 DEF GroupAt, PartsAt
<1>4. /\ r.op = m.op /\ r.k = m.k /\ r.lab = m.lab /\ r \in Instructions
      /\ \A f \in {"d", "u", "v"} : r[f] = IF m[f] = x THEN t ELSE m[f]
      /\ ~Touches(m, x) => r = m
  BY <1>0, <1>3, Renamed
<1>5. \A f \in {"d", "u", "v"} : m[f] \in Names => m[f] \in VarsOf(c)
  BY DEF VarsOf
<1>6. \A f \in {"d", "u", "v"} : m[f] \in Homes /\ m[f] # x => m[f] \in Keep(c, x)
  BY <1>5 DEF Keep, Homes
<1>7. Touches(m, x) => /\ t \notin Keep(c, x) /\ t # x
                       /\ t \notin {m.d, m.u, m.v}
  <2>1. Touches(m, x) => x \in {m.d, m.u, m.v}
    BY <1>0, <1>3, Occurs
  <2>2. m["d"] = m.d /\ m["u"] = m.u /\ m["v"] = m.v
    OBVIOUS
  <2>. QED BY <1>0, <1>3, <1>5, <2>1, <2>2, NamesAssumption DEF Keep
<1>8. Keep(c, x) \subseteq Homes \ {x}
  BY <1>0 DEF Keep, Homes, VarsOf
<1>9. ASSUME NEW l \in Keep(c, x)
      PROVE  (l \in Kill(r) <=> l \in Kill(m)) /\ (l \in Result(r) <=> l \in Result(m))
  <2>1. CASE ~Touches(m, x)
    BY <1>4, <2>1
  <2>2. CASE Touches(m, x)
    <3>1. l \in Homes \ {x, t}
      BY <1>7, <1>8, <2>2
    <3>. QED BY <1>0, <1>3, <1>7, <2>2, <3>1, RenamedEffect
  <2>. QED BY <2>1, <2>2
<1>10. x \in Kill(m) => t \in Result(r) /\ x \in Result(m)
  <2>1. x \in Kill(m) => Touches(m, x)
    BY DEF Touches
  <2>. QED BY <1>0, <1>3, <1>7, <2>1, Occurs, RenamedEffect
<1>11. x \notin Kill(m) => x \notin Result(m)
  BY <1>0, <1>3, Occurs
<1>12. v.has[p] = Moved(c, x, w.has[i], Temporary(m, x, t))
  BY <1>0 DEF SpilledWitness, Arrived
<1>13. \A l \in Keep(c, x) : v.has[p][l] = w.has[i][l]
  BY <1>8, <1>12 DEF Moved
<1>14. x \in Gen(m) => v.has[p][t] = w.has[i][x]
  <2>1. x \in Gen(m) => t \notin Keep(c, x) /\ t \in Homes /\ t \in Temporary(m, x, t)
    BY <1>3, <1>7 DEF Touches, Homes, Temporary
  <2>. QED BY <1>12, <2>1 DEF Moved
<1>. QED BY <1>3, <1>4, <1>6, <1>7, <1>8, <1>9, <1>10, <1>11, <1>13, <1>14 DEF ImageFacts

(* What x held is in its slot when an instruction starts, and when it ends *)
(* in the slot or, if it has just been written, in the temporary.          *)
InTemporary(m, x, t) == IF x \in Kill(m) THEN {t} ELSE {}
InSlot(m, x, X) == IF x \in Kill(m) THEN {} ELSE X

LEMMA EntryState ==
    ASSUME NEW S, NEW c, NEW x, NEW n, NEW new, NEW st, NEW tmp, NEW w, NEW v,
           SpillContext(S, c, x, n, new, st, tmp, w, v), NEW i \in DOMAIN c
    PROVE  st[i] \in DOMAIN new /\ Arrived(c, x, n, w, v, st[i], i, {}, w.has[i][x])
<1>1. /\ c \in Seq(Instructions) /\ Expanded(c, x, n, Len(c), new, st, tmp)
      /\ SpilledWitness(S, c, x, n, st, tmp, w, v)
  BY DEF SpillContext
<1>2. PartsAt(c, x, new, st, i)
  BY <1>1, Layout
<1>. QED BY <1>1, <1>2 DEF PartsAt, SpilledWitness, Temporary

LEMMA NextState ==
    ASSUME NEW S, NEW c, NEW x, NEW n, NEW new, NEW st, NEW tmp, NEW w, NEW v,
           SpillContext(S, c, x, n, new, st, tmp, w, v), NEW i \in DOMAIN c
    PROVE  LET q == Img(c, x, st, i) + 1
           IN  /\ i + 1 \in DOMAIN c =>
                     /\ q \in DOMAIN new
                     /\ Arrived(c, x, n, w, v, q, i + 1, InTemporary(c[i], x, tmp[i]),
                                InSlot(c[i], x, w.has[i + 1][x]))
               /\ i + 1 \notin DOMAIN c => i = Len(c)
               /\ i + 1 \notin DOMAIN c /\ x \in Kill(c[i]) => v.org[q] = Len(S) + 1
<1>. DEFINE q == Img(c, x, st, i) + 1
<1>1. /\ c \in Seq(Instructions) /\ Expanded(c, x, n, Len(c), new, st, tmp)
      /\ SpilledWitness(S, c, x, n, st, tmp, w, v)
  BY DEF SpillContext
<1>2. PartsAt(c, x, new, st, i)
  BY <1>1, Layout
<1>3. CASE x \in Kill(c[i])
  BY <1>1, <1>2, <1>3 DEF PartsAt, SpilledWitness, InTemporary, InSlot
<1>4. CASE x \notin Kill(c[i])
  <2>1. i + 1 \in DOMAIN c => q = st[i + 1]
    BY <1>2, <1>4 DEF PartsAt
  <2>. QED BY <1>2, <1>4, <2>1, EntryState DEF PartsAt, InTemporary, InSlot
<1>. QED BY <1>3, <1>4

LEMMA BranchState ==
    ASSUME NEW S, NEW c, NEW x, NEW n, NEW new, NEW st, NEW tmp, NEW w, NEW v,
           SpillContext(S, c, x, n, new, st, tmp, w, v), NEW i \in DOMAIN c,
           NEW taken \in BOOLEAN, NEW q \in Branch(new, Img(c, x, st, i), taken)
    PROVE  \/ \E j \in Branch(c, i, taken) :
                 Arrived(c, x, n, w, v, q, j, InTemporary(c[i], x, tmp[i]),
                         InSlot(c[i], x, w.has[j][x]))
           \/ i = Len(c) /\ ~taken /\ c[i].op \notin {"return", "error", "goto"}
<1>1. /\ c \in Seq(Instructions) /\ Expanded(c, x, n, Len(c), new, st, tmp)
      /\ x \in Names
  BY DEF SpillContext
<1>2. CASE /\ x \in Kill(c[i]) /\ ~taken /\ q = Img(c, x, st, i) + 1
           /\ c[i].op \notin {"return", "error", "goto"}
  <2>1. i + 1 \in DOMAIN c => i + 1 \in Branch(c, i, taken)
    BY <1>2 DEF Branch
  <2>. QED BY <1>2, <2>1, NextState
<1>3. CASE x \notin Kill(c[i]) /\ \E j \in Branch(c, i, taken) : q = st[j]
  <2>1. PICK j \in Branch(c, i, taken) : q = st[j]
    BY <1>3
  <2>2. j \in DOMAIN c
    BY <1>1, BranchIsOne
  <2>. QED BY <1>3, <2>1, <2>2, EntryState DEF InTemporary, InSlot
<1>. QED BY <1>1, <1>2, <1>3, BranchOfImage

-----------------------------------------------------------------------------
(* The three kinds of instruction in the spilled code.                     *)
LEMMA SlotBound ==
    ASSUME NEW n \in Nat
    PROVE  /\ 0 .. (n + 1) - 1 = 0 .. n /\ n \in 0 .. n
           /\ \A k \in 0 .. n - 1 : k \in 0 .. n /\ k # n
           /\ \A k \in 0 .. n : k = n \/ k \in 0 .. n - 1
OBVIOUS

(* The load in front of an instruction that reads x.                       *)
LEMMA LoadBefore ==
    ASSUME NEW S, NEW c, NEW x, NEW n, NEW new, NEW st, NEW tmp, NEW w, NEW v,
           SpillContext(S, c, x, n, new, st, tmp, w, v), NEW i \in DOMAIN c,
           x \in Gen(c[i])
    PROVE  /\ new[st[i]] = Load(tmp[i], RSP, n)
           /\ LoadAt(new, n + 1, v, st[i])
<1>. DEFINE q == st[i]
            t == tmp[i]
<1>1. /\ c \in Seq(Instructions) /\ Expanded(c, x, n, Len(c), new, st, tmp)
      /\ n \in Nat /\ SpilledWitness(S, c, x, n, st, tmp, w, v)
      /\ DOMAIN c = 1 .. Len(c) /\ DOMAIN new = 1 .. Len(new)
  BY DEF SpillContext, Expanded
<1>2. PartsAt(c, x, new, st, i) /\ GroupAt(c, x, n, new, st, tmp, i)
  BY <1>1, Layout DEF Expanded
<1>3. ImageFacts(c, x, new, st, tmp, w, v, i)
  BY ImageFactsHold
<1>4. q + 1 = Img(c, x, st, i) /\ q \in DOMAIN new /\ q + 1 \in DOMAIN new
  BY <1>1, <1>2 DEF PartsAt
<1>5. new[q] = Load(t, RSP, n)
  BY <1>2 DEF GroupAt
<1>6. new[q].k = n /\ new[q].d = t
  BY <1>5 DEF Load, Instr
<1>7. /\ Arrived(c, x, n, w, v, q, i, {}, w.has[i][x])
      /\ Arrived(c, x, n, w, v, q + 1, i, {t}, w.has[i][x])
  BY <1>1, <1>4 DEF SpilledWitness, Temporary
<1>8. t \notin Keep(c, x) /\ t \in Names /\ t \in Homes
  BY <1>3 DEF ImageFacts, Touches, Homes
<1>9. /\ v.has[q + 1][t] = w.has[i][x] /\ v.slot[q][n] = w.has[i][x]
      /\ \A l \in Homes \ {t} : v.has[q + 1][l] = v.has[q][l]
      /\ v.slot[q + 1] = v.slot[q]
      /\ v.org[q + 1] = v.org[q]
  BY <1>1, <1>7, <1>8, SlotBound DEF Arrived, Moved, WithSlot
<1>. QED BY <1>1, <1>4, <1>5, <1>6, <1>8, <1>9, SlotBound DEF LoadAt

(* The store behind an instruction that writes x.                          *)
LEMMA StoreBehind ==
    ASSUME NEW S, NEW c, NEW x, NEW n, NEW new, NEW st, NEW tmp, NEW w, NEW v,
           SpillContext(S, c, x, n, new, st, tmp, w, v), NEW i \in DOMAIN c,
           x \in Kill(c[i])
    PROVE  LET q == Img(c, x, st, i) + 1
           IN  /\ new[q] = Store(RSP, n, tmp[i])
               /\ v.org[q] \in DOMAIN S => StoreAt(new, n + 1, v, q)
<1>. DEFINE q == Img(c, x, st, i) + 1
            t == tmp[i]
<1>1. /\ c \in Seq(Instructions) /\ Expanded(c, x, n, Len(c), new, st, tmp)
      /\ n \in Nat /\ SpilledWitness(S, c, x, n, st, tmp, w, v)
      /\ DOMAIN c = 1 .. Len(c) /\ DOMAIN new = 1 .. Len(new)
      /\ S \in Sources
  BY DEF SpillContext, Expanded
<1>2. PartsAt(c, x, new, st, i) /\ GroupAt(c, x, n, new, st, tmp, i)
  BY <1>1, Layout DEF Expanded
<1>3. ImageFacts(c, x, new, st, tmp, w, v, i)
  BY ImageFactsHold
<1>5. new[q] = Store(RSP, n, t)
  BY <1>2 DEF GroupAt
<1>6. new[q].k = n /\ new[q].u = t
  BY <1>5 DEF Store, Instr
<1>. SUFFICES ASSUME v.org[q] \in DOMAIN S PROVE StoreAt(new, n + 1, v, q)
  BY <1>5
<1>7. i + 1 \in DOMAIN c
  <2>1. S \in Seq(Instructions) /\ DOMAIN S = 1 .. Len(S) /\ Len(S) + 1 \notin DOMAIN S
    BY <1>1, SourcesAssumption
  <2>. QED BY <2>1, NextState
<1>8. q + 1 = st[i + 1] /\ q + 1 \in DOMAIN new
  BY <1>2, <1>7, EntryState DEF PartsAt
<1>9. /\ Arrived(c, x, n, w, v, q, i + 1, {t}, {})
      /\ Arrived(c, x, n, w, v, q + 1, i + 1, {}, w.has[i + 1][x])
  BY <1>1, <1>7, <1>8, EntryState DEF SpilledWitness
<1>10. t \notin Keep(c, x) /\ t \in Names /\ t \in Homes
  BY <1>3 DEF ImageFacts, Touches, Homes
<1>11. /\ v.has[q][t] = w.has[i + 1][x] /\ v.slot[q + 1][n] = w.has[i + 1][x]
       /\ \A l \in Homes : v.has[q + 1][l] \subseteq v.has[q][l]
       /\ \A k \in (0 .. n) \ {n} : v.slot[q + 1][k] = v.slot[q][k]
       /\ v.org[q + 1] = v.org[q]
  BY <1>1, <1>9, <1>10, SlotBound DEF Arrived, Moved, WithSlot
<1>. QED BY <1>1, <1>6, <1>8, <1>10, <1>11, SlotBound DEF StoreAt

(* The image is an access where the instruction is one.                    *)
LEMMA SameAccess ==
    ASSUME NEW S, NEW c, NEW x, NEW n, NEW new, NEW st, NEW tmp, NEW w, NEW v,
           SpillContext(S, c, x, n, new, st, tmp, w, v), NEW i \in DOMAIN c
    PROVE  LET p == Img(c, x, st, i)
           IN  /\ IsLoad(new[p]) <=> IsLoad(c[i])
               /\ IsStore(new[p]) <=> IsStore(c[i])
<1>. DEFINE p == Img(c, x, st, i)
            r == new[p]
            m == c[i]
<1>1. /\ r.op = m.op /\ r.k = m.k /\ tmp[i] \in Names
      /\ r["d"] = (IF m["d"] = x THEN tmp[i] ELSE m["d"])
      /\ r["u"] = (IF m["u"] = x THEN tmp[i] ELSE m["u"])
  BY ImageFactsHold DEF ImageFacts
<1>2. x # RSP /\ tmp[i] # RSP
  BY <1>1, NamesAssumption DEF SpillContext
<1>. HIDE DEF p, r, m
<1>3. r.u = RSP <=> m.u = RSP
  BY <1>1, <1>2
<1>4. r.d = RSP <=> m.d = RSP
  BY <1>1, <1>2
<1>. QED BY <1>1, <1>3, <1>4 DEF IsLoad, IsStore, p, r, m

(* An access of an earlier slot stays one.                                 *)
LEMMA LoadImage ==
    ASSUME NEW S, NEW c, NEW x, NEW n, NEW new, NEW st, NEW tmp, NEW w, NEW v,
           SpillContext(S, c, x, n, new, st, tmp, w, v), NEW i \in DOMAIN c,
           IsLoad(c[i]), LoadAt(c, n, w, i)
    PROVE  LoadAt(new, n + 1, v, Img(c, x, st, i))
<1>. DEFINE p == Img(c, x, st, i)
            r == new[p]
            m == c[i]
            t == tmp[i]
<1>1. ImageFacts(c, x, new, st, tmp, w, v, i)
  BY ImageFactsHold
<1>2. /\ n \in Nat /\ x \in Names /\ SpilledWitness(S, c, x, n, st, tmp, w, v)
      /\ c \in Seq(Instructions)
  BY DEF SpillContext
<1>3. /\ m.k \in 0 .. n - 1 /\ m.d \in Names /\ i + 1 \in DOMAIN c
      /\ w.org[i + 1] = w.org[i]
      /\ w.has[i + 1][m.d] \subseteq w.slot[i][m.k]
      /\ \A l \in Homes \ {m.d} : w.has[i + 1][l] \subseteq w.has[i][l]
      /\ \A k \in 0 .. n - 1 : w.slot[i + 1][k] \subseteq w.slot[i][k]
  BY DEF LoadAt
<1>4. /\ p + 1 \in DOMAIN new
      /\ Arrived(c, x, n, w, v, p + 1, i + 1, InTemporary(m, x, t),
                 InSlot(m, x, w.has[i + 1][x]))
  BY <1>3, NextState
<1>5. Arrived(c, x, n, w, v, p, i, Temporary(m, x, t), w.has[i][x])
  BY <1>2 DEF SpilledWitness
<1>6. /\ r.k = m.k /\ t \in Names
      /\ r.d = IF m.d = x THEN t ELSE m.d
  <2>1. r["d"] = (IF m["d"] = x THEN t ELSE m["d"]) /\ r.k = m.k /\ t \in Names
    BY <1>1 DEF ImageFacts
  <2>. QED BY <2>1
<1>7. m.d = x <=> x \in Kill(m)
  BY <1>2 DEF IsLoad, Kill, Locations
<1>8. Keep(c, x) \subseteq Homes /\ x \notin Keep(c, x) /\ x \in Homes
  BY <1>2 DEF Keep, Homes, VarsOf
<1>9. x \in Kill(m) => t \notin Keep(c, x) /\ t \in Homes
  BY <1>1 DEF ImageFacts, Touches, Homes
<1>. HIDE DEF p, r, m, t
<1>10. \A l \in Homes : v.has[p + 1][l] = IF l \in Keep(c, x) THEN w.has[i + 1][l]
                                         ELSE IF l \in InTemporary(m, x, t)
                                         THEN w.has[i + 1][x] ELSE {}
  BY <1>4 DEF Arrived, Moved
<1>11. \A l \in Keep(c, x) : v.has[p][l] = w.has[i][l]
  BY <1>5, <1>8 DEF Arrived, Moved
<1>12. /\ \A k \in 0 .. n - 1 : /\ v.slot[p][k] = w.slot[i][k]
                                /\ v.slot[p + 1][k] = w.slot[i + 1][k]
       /\ v.slot[p][n] = w.has[i][x]
       /\ v.slot[p + 1][n] = InSlot(m, x, w.has[i + 1][x])
       /\ v.org[p + 1] = w.org[i + 1] /\ v.org[p] = w.org[i]
  BY <1>2, <1>4, <1>5, SlotBound DEF Arrived, WithSlot
<1>13. v.has[p + 1][r.d] \subseteq v.slot[p][r.k]
  <2>1. CASE m.d = x
    BY <1>3, <1>6, <1>7, <1>9, <1>10, <1>12, <2>1 DEF InTemporary
  <2>2. CASE m.d # x
    BY <1>3, <1>6, <1>7, <1>8, <1>10, <1>12, <2>2 DEF InTemporary, Homes
  <2>. QED BY <2>1, <2>2
<1>14. ASSUME NEW l \in Homes \ {r.d} PROVE v.has[p + 1][l] \subseteq v.has[p][l]
  BY <1>3, <1>6, <1>7, <1>8, <1>9, <1>10, <1>11, <1>14 DEF InTemporary
<1>15. ASSUME NEW k \in 0 .. n PROVE v.slot[p + 1][k] \subseteq v.slot[p][k]
  <2>1. CASE k = n
    BY <1>3, <1>7, <1>8, <1>12, <2>1 DEF InSlot
  <2>2. CASE k # n
    BY <1>2, <1>3, <1>12, <2>2, SlotBound
  <2>. QED BY <2>1, <2>2
<1>. QED BY <1>2, <1>3, <1>4, <1>6, <1>12, <1>13, <1>14, <1>15, SlotBound
         DEF LoadAt, r, p

LEMMA StoreImage ==
    ASSUME NEW S, NEW c, NEW x, NEW n, NEW new, NEW st, NEW tmp, NEW w, NEW v,
           SpillContext(S, c, x, n, new, st, tmp, w, v), NEW i \in DOMAIN c,
           IsStore(c[i]), StoreAt(c, n, w, i)
    PROVE  StoreAt(new, n + 1, v, Img(c, x, st, i))
<1>. DEFINE p == Img(c, x, st, i)
            r == new[p]
            m == c[i]
            t == tmp[i]
<1>1. ImageFacts(c, x, new, st, tmp, w, v, i)
  BY ImageFactsHold
<1>2. /\ n \in Nat /\ x \in Names /\ SpilledWitness(S, c, x, n, st, tmp, w, v)
      /\ c \in Seq(Instructions)
  BY DEF SpillContext
<1>3. /\ m.k \in 0 .. n - 1 /\ m.u \in Names /\ i + 1 \in DOMAIN c
      /\ w.org[i + 1] = w.org[i]
      /\ w.slot[i + 1][m.k] \subseteq w.has[i][m.u]
      /\ \A l \in Homes : w.has[i + 1][l] \subseteq w.has[i][l]
      /\ \A k \in (0 .. n - 1) \ {m.k} : w.slot[i + 1][k] \subseteq w.slot[i][k]
  BY DEF StoreAt
<1>4. x \notin Kill(m)
  BY DEF IsStore, Kill
<1>5. /\ p + 1 \in DOMAIN new
      /\ Arrived(c, x, n, w, v, p + 1, i + 1, {}, w.has[i + 1][x])
  BY <1>3, <1>4, NextState DEF InTemporary, InSlot
<1>6. Arrived(c, x, n, w, v, p, i, Temporary(m, x, t), w.has[i][x])
  BY <1>2 DEF SpilledWitness
<1>7. /\ r.k = m.k /\ t \in Names
      /\ r.u = IF m.u = x THEN t ELSE m.u
      /\ m.u # x => m.u \in Keep(c, x)
  <2>1. /\ r["u"] = (IF m["u"] = x THEN t ELSE m["u"]) /\ r.k = m.k /\ t \in Names
        /\ m["u"] \in Homes /\ m["u"] # x => m["u"] \in Keep(c, x)
    BY <1>1 DEF ImageFacts
  <2>. QED BY <1>3, <2>1 DEF Homes
<1>8. /\ m.u = x => x \in Gen(m)
      /\ x \in Gen(m) => v.has[p][t] = w.has[i][x]
  <2>1. m.u = x => x \in Gen(m)
    BY <1>2 DEF Gen, Locations
  <2>. QED BY <1>1, <2>1 DEF ImageFacts
<1>9. Keep(c, x) \subseteq Homes /\ x \in Homes
  BY <1>2 DEF Keep, Homes, VarsOf
<1>. HIDE DEF p, r, m, t
<1>10. \A l \in Homes : v.has[p + 1][l] = IF l \in Keep(c, x) THEN w.has[i + 1][l] ELSE {}
  BY <1>5 DEF Arrived, Moved
<1>11. \A l \in Keep(c, x) : v.has[p][l] = w.has[i][l]
  BY <1>6, <1>9 DEF Arrived, Moved
<1>12. /\ \A k \in 0 .. n - 1 : /\ v.slot[p][k] = w.slot[i][k]
                                /\ v.slot[p + 1][k] = w.slot[i + 1][k]
       /\ v.slot[p][n] = w.has[i][x] /\ v.slot[p + 1][n] = w.has[i + 1][x]
       /\ v.org[p + 1] = w.org[i + 1] /\ v.org[p] = w.org[i]
  BY <1>2, <1>5, <1>6, SlotBound DEF Arrived, WithSlot
<1>13. v.slot[p + 1][r.k] \subseteq v.has[p][r.u]
  BY <1>3, <1>7, <1>8, <1>11, <1>12
<1>14. ASSUME NEW l \in Homes PROVE v.has[p + 1][l] \subseteq v.has[p][l]
  BY <1>3, <1>10, <1>11
<1>15. ASSUME NEW k \in (0 .. n) \ {r.k} PROVE v.slot[p + 1][k] \subseteq v.slot[p][k]
  BY <1>2, <1>3, <1>7, <1>9, <1>12, SlotBound
<1>. QED BY <1>2, <1>3, <1>5, <1>7, <1>12, <1>13, <1>14, <1>15, SlotBound
         DEF StoreAt, r, p

-----------------------------------------------------------------------------
(* The image of a source instruction stays one.                            *)
LEMMA ReadsImage ==
    ASSUME NEW S, NEW c, NEW x, NEW n, NEW new, NEW st, NEW tmp, NEW w, NEW v,
           SpillContext(S, c, x, n, new, st, tmp, w, v), NEW i \in DOMAIN c,
           NEW s \in Instructions, Like(c[i], s), Reads(w, i, c[i], s)
    PROVE  /\ Like(new[Img(c, x, st, i)], s)
           /\ Reads(v, Img(c, x, st, i), new[Img(c, x, st, i)], s)
<1>. DEFINE p == Img(c, x, st, i)
            r == new[p]
            m == c[i]
            t == tmp[i]
<1>1. /\ m \in Instructions /\ t \in Names
      /\ r.op = m.op /\ r.k = m.k /\ r.lab = m.lab
      /\ \A f \in {"d", "u", "v"} :
            /\ r[f] = IF m[f] = x THEN t ELSE m[f]
            /\ m[f] \in Homes /\ m[f] # x => m[f] \in Keep(c, x)
      /\ \A l \in Keep(c, x) : v.has[p][l] = w.has[i][l]
      /\ x \in Gen(m) => v.has[p][t] = w.has[i][x]
  BY ImageFactsHold DEF ImageFacts
<1>2. x \in Names
  BY DEF SpillContext
<1>. HIDE DEF p, r, m, t
<1>3. /\ m.op = s.op /\ m.k = s.k /\ m.lab = s.lab
      /\ \A f \in {"d", "u", "v"} : m[f] = s[f] \/ (m[f] \in Names /\ s[f] \in Names)
  BY DEF Like, m
<1>4. Like(r, s)
  BY <1>1, <1>2, <1>3 DEF Like
<1>5. ReadFields(s) = ReadFields(m) /\ ReadFields(s) \subseteq {"d", "u", "v"}
  BY <1>3 DEF ReadFields
<1>6. ASSUME NEW f \in ReadFields(s), s[f] \in Homes PROVE s[f] \in v.has[p][r[f]]
  <2>1. s[f] \in w.has[i][m[f]]
    BY <1>6 DEF Reads, m
  <2>2. CASE m[f] = x
    <3>1. x \in Gen(m)
      BY <1>1, <1>2, <1>5, <2>2, Occurs
    <3>. QED BY <1>1, <1>5, <2>1, <2>2, <3>1
  <2>3. CASE m[f] # x
    <3>1. m[f] \in Homes
      BY <1>3, <1>5, <1>6 DEF Homes
    <3>. QED BY <1>1, <1>5, <2>1, <2>3, <3>1
  <2>. QED BY <2>2, <2>3
<1>7. ASSUME NEW g \in Gen(s) \ Fields(s) PROVE g \in v.has[p][g]
  <2>1. g \in w.has[i][g]
    BY DEF Reads
  <2>2. g \in GPR
    BY RegistersAssumption DEF Gen, Fields, ReadFields, ArgumentRegisters
  <2>3. g \in Keep(c, x)
    BY <1>2, <2>2, NamesAssumption DEF Keep
  <2>. QED BY <1>1, <2>1, <2>3
<1>. QED BY <1>4, <1>6, <1>7 DEF Reads, p, r

LEMMA FlowsImage ==
    ASSUME NEW S, NEW c, NEW x, NEW n, NEW new, NEW st, NEW tmp, NEW w, NEW v,
           SpillContext(S, c, x, n, new, st, tmp, w, v), NEW i \in DOMAIN c,
           w.org[i] \in DOMAIN S, ImageAt(S, c, n, w, i)
    PROVE  Flows(S, new, n + 1, v, Img(c, x, st, i))
<1>. DEFINE p == Img(c, x, st, i)
            r == new[p]
            m == c[i]
            t == tmp[i]
            s == S[w.org[i]]
<1>1. ImageFacts(c, x, new, st, tmp, w, v, i)
  BY ImageFactsHold
<1>2. /\ n \in Nat /\ x \in Names /\ c \in Seq(Instructions) /\ S \in Sources
      /\ WitnessType(S, c, n, w)
      /\ Arrived(c, x, n, w, v, p, i, Temporary(m, x, t), w.has[i][x])
  BY DEF SpillContext, SpilledWitness, Certifies
<1>3. v.org[p] = w.org[i] /\ m.op = s.op
  BY <1>2 DEF Arrived, ImageAt, Like
<1>4. /\ m \in Instructions /\ t \in Names /\ r.op = m.op
      /\ r["u"] = (IF m["u"] = x THEN t ELSE m["u"])
      /\ m["u"] \in Homes /\ m["u"] # x => m["u"] \in Keep(c, x)
      /\ \A l \in Keep(c, x) : /\ l \in Homes /\ l # x
                               /\ l \in Kill(r) <=> l \in Kill(m)
                               /\ l \in Result(r) <=> l \in Result(m)
                               /\ v.has[p][l] = w.has[i][l]
      /\ Touches(m, x) => t \notin Keep(c, x)
      /\ x \in Kill(m) => t \in Result(r) /\ x \in Result(m)
      /\ x \notin Kill(m) => x \notin Result(m)
      /\ x \in Gen(m) => v.has[p][t] = w.has[i][x]
  BY <1>1 DEF ImageFacts
<1>5. x \in Homes /\ t \in Homes
  BY <1>2, <1>4 DEF Homes
<1>. HIDE DEF p, r, t
(* The operand u holds what it held before.                                *)
<1>6. /\ r.u \in Homes <=> m.u \in Homes
      /\ m.u \in Homes => v.has[p][r.u] = w.has[i][m.u]
  <2>1. m.u = x => x \in Gen(m)
    <3>1. m["u"] = m.u /\ "u" \in ReadFields(m)
      BY DEF ReadFields
    <3>. QED BY <1>2, <1>4, <3>1, Occurs
  <2>2. r.u = (IF m.u = x THEN t ELSE m.u) /\ (m.u \in Homes /\ m.u # x => m.u \in Keep(c, x))
    BY <1>4
  <2>. QED BY <1>4, <1>5, <2>1, <2>2
<1>7. \A l \in Keep(c, x) : Carried(v.has[p], r, s, l) = Carried(w.has[i], m, s, l)
  BY <1>4, <1>6 DEF Carried
<1>8. x \in Kill(m) => Carried(v.has[p], r, s, t) = Carried(w.has[i], m, s, x)
  BY <1>4, <1>6 DEF Carried
<1>9. x \notin Kill(m) => Carried(w.has[i], m, s, x) = After(w.has[i][x], s)
  BY <1>4 DEF Carried
<1>10. /\ \A k \in 0 .. n - 1 : v.slot[p][k] = w.slot[i][k]
       /\ v.slot[p][n] = w.has[i][x]
  BY <1>2, SlotBound DEF Arrived, WithSlot
<1>. SUFFICES ASSUME NEW taken \in BOOLEAN, NEW q \in Branch(new, p, taken),
                     NEW o \in Branch(S, w.org[i], taken)
              PROVE  /\ v.org[q] = o
                     /\ \A l \in Homes :
                           v.has[q][l] \subseteq Carried(v.has[p], r, s, l) \cup Lost(s)
                     /\ \A k \in 0 .. n :
                           v.slot[q][k] \subseteq After(v.slot[p][k], s) \cup Lost(s)
  BY <1>2, <1>3, SlotBound DEF Flows, p, r
<1>11. ~(i = Len(c) /\ ~taken /\ c[i].op \notin {"return", "error", "goto"})
  <2>. SUFFICES ASSUME i = Len(c), ~taken PROVE FALSE
    OBVIOUS
  <2>1. w.org[i] = Len(S) /\ S \in Seq(Instructions)
    BY <1>2, SourcesAssumption DEF ImageAt
  <2>2. Len(S) + 1 \notin DOMAIN S
    BY <2>1
  <2>. QED BY <2>1, <2>2 DEF Branch
<1>12. PICK j \in Branch(c, i, taken) :
          Arrived(c, x, n, w, v, q, j, InTemporary(m, x, t), InSlot(m, x, w.has[j][x]))
  BY <1>11, BranchState DEF p, t
<1>13. /\ w.org[j] = o
       /\ \A l \in Homes : w.has[j][l] \subseteq Carried(w.has[i], m, s, l) \cup Lost(s)
       /\ \A k \in 0 .. n - 1 : w.slot[j][k] \subseteq After(w.slot[i][k], s) \cup Lost(s)
  BY DEF ImageAt, Flows
<1>14. ASSUME NEW l \in Homes
       PROVE  v.has[q][l] \subseteq Carried(v.has[p], r, s, l) \cup Lost(s)
  <2>1. v.has[q][l] = IF l \in Keep(c, x) THEN w.has[j][l]
                      ELSE IF l \in InTemporary(m, x, t) THEN w.has[j][x] ELSE {}
    BY <1>12 DEF Arrived, Moved
  <2>2. CASE l \in Keep(c, x)
    BY <1>7, <1>13, <2>1, <2>2
  <2>3. CASE l \notin Keep(c, x) /\ x \in Kill(m) /\ l = t
    BY <1>5, <1>8, <1>13, <2>1, <2>3 DEF InTemporary
  <2>4. CASE l \notin Keep(c, x) /\ ~(x \in Kill(m) /\ l = t)
    BY <2>1, <2>4 DEF InTemporary
  <2>. QED BY <2>2, <2>3, <2>4
<1>15. ASSUME NEW k \in 0 .. n
       PROVE  v.slot[q][k] \subseteq After(v.slot[p][k], s) \cup Lost(s)
  <2>1. v.slot[q][k] = IF k = n THEN InSlot(m, x, w.has[j][x]) ELSE w.slot[j][k]
    BY <1>12 DEF Arrived, WithSlot
  <2>2. CASE k = n
    BY <1>5, <1>9, <1>10, <1>13, <2>1, <2>2 DEF InSlot
  <2>3. CASE k # n
    <3>1. k \in 0 .. n - 1
      BY <1>2, <2>3, SlotBound
    <3>. QED BY <1>10, <1>13, <2>1, <2>3, <3>1
  <2>. QED BY <2>2, <2>3
<1>. QED BY <1>12, <1>13, <1>14, <1>15 DEF Arrived

LEMMA ImageStays ==
    ASSUME NEW S, NEW c, NEW x, NEW n, NEW new, NEW st, NEW tmp, NEW w, NEW v,
           SpillContext(S, c, x, n, new, st, tmp, w, v), NEW i \in DOMAIN c,
           w.org[i] \in DOMAIN S, ImageAt(S, c, n, w, i)
    PROVE  ImageAt(S, new, n + 1, v, Img(c, x, st, i))
<1>. DEFINE p == Img(c, x, st, i)
<1>1. /\ S \in Seq(Instructions) /\ c \in Seq(Instructions)
      /\ Expanded(c, x, n, Len(c), new, st, tmp)
      /\ SpilledWitness(S, c, x, n, st, tmp, w, v)
  BY SourcesAssumption DEF SpillContext
<1>2. v.org[p] = w.org[i] /\ S[w.org[i]] \in Instructions
  <2>1. Arrived(c, x, n, w, v, p, i, Temporary(c[i], x, tmp[i]), w.has[i][x])
    BY <1>1 DEF SpilledWitness
  <2>. QED BY <1>1, <2>1 DEF Arrived
<1>3. Like(new[p], S[w.org[i]]) /\ Reads(v, p, new[p], S[w.org[i]])
  BY <1>2, ReadsImage DEF ImageAt
<1>4. p = Len(new) => w.org[i] = Len(S)
  <2>1. DOMAIN new = 1 .. Len(new) /\ Len(new) \in Nat
    BY <1>1 DEF Expanded
  <2>2. p = Len(new) => p + 1 \notin DOMAIN new
    BY <2>1
  <2>3. p = Len(new) => i + 1 \notin DOMAIN c
    BY <2>2, NextState
  <2>4. p = Len(new) => i = Len(c)
    BY <2>3, NextState
  <2>. QED BY <2>4 DEF ImageAt
<1>. QED BY <1>2, <1>3, <1>4, FlowsImage DEF ImageAt

(* Spilling a variable keeps the certificate.                              *)
LEMMA SpillCertified ==
    ASSUME NEW S \in Sources, NEW c \in Seq(Instructions), c # <<>>, NEW x \in Names,
           NEW n \in Nat, NEW new, NEW st, NEW tmp,
           Expanded(c, x, n, Len(c), new, st, tmp),
           NEW w, Certifies(S, c, n, w)
    PROVE  \E v : Certifies(S, new, n + 1, v)
<1>0. S \in Seq(Instructions) /\ WitnessType(S, c, n, w)
  BY SourcesAssumption DEF Certifies
<1>1. PICK v : WitnessType(S, new, n + 1, v) /\ SpilledWitness(S, c, x, n, st, tmp, w, v)
  BY <1>0, SpilledWitnessExists
<1>2. SpillContext(S, c, x, n, new, st, tmp, w, v)
  BY <1>1 DEF SpillContext
<1>3. 1 \in DOMAIN c /\ st[1] = 1
  <2>1. Len(c) \in Nat /\ Len(c) # 0
    BY EmptySeq
  <2>. QED BY <2>1 DEF Expanded
<1>4. AtEntry(n + 1, v)
  <2>1. Arrived(c, x, n, w, v, 1, 1, {}, w.has[1][x])
    BY <1>2, <1>3, EntryState
  <2>2. /\ w.org[1] = 1
        /\ \A l \in Homes : w.has[1][l] \cap GPR \subseteq {l}
        /\ \A k \in 0 .. n - 1 : w.slot[1][k] \cap GPR = {}
    BY DEF Certifies, AtEntry
  <2>3. w.has[1][x] \cap GPR = {}
    BY <2>2, NamesAssumption DEF Homes
  <2>4. /\ \A l \in Homes : v.has[1][l] = IF l \in Keep(c, x) THEN w.has[1][l] ELSE {}
        /\ \A k \in 0 .. n : v.slot[1][k] = IF k = n THEN w.has[1][x] ELSE w.slot[1][k]
        /\ v.org[1] = w.org[1]
    BY <2>1 DEF Arrived, Moved, WithSlot
  <2>. QED BY <2>2, <2>3, <2>4, SlotBound DEF AtEntry
<1>5. ASSUME NEW q \in DOMAIN new, v.org[q] \in DOMAIN S
      PROVE  /\ IsLoad(new[q]) => LoadAt(new, n + 1, v, q)
             /\ IsStore(new[q]) => StoreAt(new, n + 1, v, q)
             /\ ~Access(new[q]) => ImageAt(S, new, n + 1, v, q)
  <2>1. PICK i \in DOMAIN c : \/ x \in Gen(c[i]) /\ q = st[i]
                              \/ q = Img(c, x, st, i)
                              \/ x \in Kill(c[i]) /\ q = Img(c, x, st, i) + 1
    BY Layout
  <2>2. CASE x \in Gen(c[i]) /\ q = st[i]
    <3>1. new[q] = Load(tmp[i], RSP, n) /\ LoadAt(new, n + 1, v, q)
      BY <1>2, <2>2, LoadBefore
    <3>. QED BY <3>1 DEF Load, Instr, IsLoad, IsStore, Access
  <2>3. CASE x \in Kill(c[i]) /\ q = Img(c, x, st, i) + 1
    <3>1. new[q] = Store(RSP, n, tmp[i]) /\ StoreAt(new, n + 1, v, q)
      BY <1>2, <1>5, <2>3, StoreBehind
    <3>2. IsStore(new[q]) /\ ~IsLoad(new[q])
      BY <3>1 DEF Store, Instr, IsLoad, IsStore
    <3>. QED BY <3>1, <3>2 DEF Access
  <2>4. CASE q = Img(c, x, st, i)
    <3>1. Arrived(c, x, n, w, v, q, i, Temporary(c[i], x, tmp[i]), w.has[i][x])
      BY <1>1, <2>4 DEF SpilledWitness
    <3>2. w.org[i] \in DOMAIN S
      BY <1>5, <3>1 DEF Arrived
    <3>3. /\ IsLoad(c[i]) => LoadAt(c, n, w, i)
          /\ IsStore(c[i]) => StoreAt(c, n, w, i)
          /\ ~Access(c[i]) => ImageAt(S, c, n, w, i)
      BY <3>2 DEF Certifies
    <3>4. /\ IsLoad(new[q]) <=> IsLoad(c[i])
          /\ IsStore(new[q]) <=> IsStore(c[i])
      BY <1>2, <2>4, SameAccess
    <3>5. IsLoad(new[q]) => LoadAt(new, n + 1, v, q)
      BY <1>2, <2>4, <3>3, <3>4, LoadImage
    <3>6. IsStore(new[q]) => StoreAt(new, n + 1, v, q)
      BY <1>2, <2>4, <3>3, <3>4, StoreImage
    <3>7. ~Access(new[q]) => ImageAt(S, new, n + 1, v, q)
      BY <1>2, <2>4, <3>2, <3>3, <3>4, ImageStays DEF Access
    <3>. QED BY <3>5, <3>6, <3>7
  <2>. QED BY <2>1, <2>2, <2>3, <2>4
<1>. QED BY <1>1, <1>4, <1>5 DEF Certifies

-----------------------------------------------------------------------------
(* The loop of spill, one instruction at a time.                           *)
SpillGroup(m, x, n, t) ==
    (IF x \in Gen(m) THEN <<Load(t, RSP, n)>> ELSE <<>>)
    \o <<Replace(m, x, t)>>
    \o (IF x \in Kill(m) THEN <<Store(RSP, n, t)>> ELSE <<>>)

LEMMA NothingExpanded ==
    ASSUME NEW c, NEW x, NEW n
    PROVE  \E st, tmp : Expanded(c, x, n, 0, <<>>, st, tmp)
<1>. DEFINE st == [i \in 1 .. 0 + 1 |-> 1]
<1>1. 1 .. 0 + 1 = {1} /\ 1 .. 0 = {} /\ Len(<<>>) = 0 /\ <<>> \in Seq(Instructions)
  OBVIOUS
<1>2. st \in [1 .. 0 + 1 -> Nat \ {0}] /\ st[1] = 1 /\ st[0 + 1] = 1
  BY <1>1
<1>. HIDE DEF st
<1>3. Expanded(c, x, n, 0, <<>>, st, <<>>)
  BY <1>1, <1>2 DEF Expanded
<1>. QED BY <1>3

LEMMA Joined ==
    ASSUME NEW T, NEW q \in T, NEW r \in T, NEW s \in Seq(T),
           s = <<>> \/ \E p \in T : s = <<p>>
    PROVE  LET a == s \o <<q>>
           IN  /\ a \in Seq(T) /\ Len(a) = Len(s) + 1
               /\ Len(s) = 1 => a[1] = s[1]
               /\ a[Len(s) + 1] = q
               /\ a \o <<>> = a
               /\ a \o <<r>> \in Seq(T) /\ Len(a \o <<r>>) = Len(s) + 2
               /\ Len(s) = 1 => (a \o <<r>>)[1] = s[1]
               /\ (a \o <<r>>)[Len(s) + 1] = q
               /\ (a \o <<r>>)[Len(s) + 2] = r
<1>. DEFINE a == s \o <<q>>
<1>1. /\ Len(s) \in {0, 1} /\ a \in Seq(T) /\ Len(a) = Len(s) + 1
      /\ Len(s) = 1 => a[1] = s[1]
      /\ a[Len(s) + 1] = q
  OBVIOUS
<1>. HIDE DEF a
<1>2. /\ a \o <<>> = a
      /\ a \o <<r>> \in Seq(T) /\ Len(a \o <<r>>) = Len(s) + 2
      /\ \A i \in 1 .. Len(a) : (a \o <<r>>)[i] = a[i]
      /\ (a \o <<r>>)[Len(a) + 1] = r
  <2>1. /\ <<r>> \in Seq(T) /\ Len(<<r>>) = 1 /\ <<r>>[1] = r
    OBVIOUS
  <2>. HIDE DEF a
  <2>. QED BY <1>1, <2>1, ConcatEmptySeq, ConcatProperties
<1>. QED BY <1>1, <1>2 DEF a

LEMMA GroupLayout ==
    ASSUME NEW m \in Instructions, NEW x \in Names, NEW n \in Nat, NEW t,
           Touches(m, x) => t \in Names
    PROVE  LET g == SpillGroup(m, x, n, t)
               b == Before(m, x)
           IN  /\ g \in Seq(Instructions) /\ Len(g) = b + 1 + Behind(m, x)
               /\ x \in Gen(m) => g[1] = Load(t, RSP, n)
               /\ g[b + 1] = Replace(m, x, t)
               /\ x \in Kill(m) => g[b + 2] = Store(RSP, n, t)
<1>. DEFINE r == Replace(m, x, t)
            ld == Load(t, RSP, n)
            sto == Store(RSP, n, t)
<1>1. r \in Instructions
  <2>1. CASE Touches(m, x)
    BY <2>1, Renamed
  <2>2. CASE ~Touches(m, x)
    <3>1. x \notin {m.d, m.u, m.v}
      BY <2>2, Occurs
    <3>2. r = m
      BY <3>1 DEF Replace, Instructions
    <3>. QED BY <3>2
  <2>. QED BY <2>1, <2>2
<1>2. Touches(m, x) => ld \in Instructions /\ sto \in Instructions
  <2>. SUFFICES ASSUME t \in Names PROVE ld \in Instructions /\ sto \in Instructions
    OBVIOUS
  <2>1. t \in Operands /\ RSP \in Operands /\ Imm \in Operands /\ n \in Int
    BY DEF Operands, Locations, Registers
  <2>. QED BY <2>1, LabelsAssumption DEF Load, Store, Instr, Instructions
<1>. HIDE DEF r, ld, sto
<1>. DEFINE ls == IF x \in Gen(m) THEN <<ld>> ELSE <<>>
            b == Before(m, x)
<1>3. /\ ls \in Seq(Instructions) /\ Len(ls) = b /\ (ls = <<>> \/ \E p \in Instructions : ls = <<p>>)
      /\ x \in Gen(m) => Len(ls) = 1 /\ ls[1] = ld
  BY <1>2 DEF Touches, Before
<1>4. SpillGroup(m, x, n, t) = (ls \o <<r>>) \o (IF x \in Kill(m) THEN <<sto>> ELSE <<>>)
  BY DEF SpillGroup, ld, r, sto
<1>5. x \in Kill(m) => sto \in Instructions
  BY <1>2 DEF Touches
<1>6. Behind(m, x) = IF x \in Kill(m) THEN 1 ELSE 0
  BY DEF Behind
<1>. HIDE DEF ls, b
<1>7. b \in {0, 1} /\ (b + 1) + 0 = b + 1 /\ (b + 1) + 1 = b + 2
  BY DEF b, Before
<1>8. CASE x \in Kill(m)
  <2>1. SpillGroup(m, x, n, t) = (ls \o <<r>>) \o <<sto>>
    BY <1>4, <1>8
  <2>. DEFINE h == (ls \o <<r>>) \o <<sto>>
  <2>2. /\ h \in Seq(Instructions) /\ Len(h) = b + 2
        /\ Len(ls) = 1 => h[1] = ls[1]
        /\ h[b + 1] = r /\ h[b + 2] = sto
    BY <1>1, <1>3, <1>5, <1>8, Joined
  <2>. HIDE DEF h
  <2>3. SpillGroup(m, x, n, t) = h
    BY <2>1 DEF h
  <2>. QED BY <1>3, <1>6, <1>7, <1>8, <2>2, <2>3 DEF b, ld, r, sto
<1>9. CASE x \notin Kill(m)
  <2>1. SpillGroup(m, x, n, t) = ls \o <<r>>
    BY <1>1, <1>3, <1>4, <1>9, Joined
  <2>. QED BY <1>1, <1>3, <1>6, <1>7, <1>9, <2>1, Joined DEF b, ld, r
<1>. QED BY <1>8, <1>9

LEMMA ExpandOne ==
    ASSUME NEW c \in Seq(Instructions), NEW x \in Names, NEW n \in Nat,
           NEW i \in DOMAIN c, NEW new, NEW st, NEW tmp,
           Expanded(c, x, n, i - 1, new, st, tmp), NEW t,
           Touches(c[i], x) => t \in Names \ VarsOf(c)
    PROVE  \E st2, tmp2 : Expanded(c, x, n, i, new \o SpillGroup(c[i], x, n, t), st2, tmp2)
<1>. DEFINE g == SpillGroup(c[i], x, n, t)
            new2 == new \o g
            b == Before(c[i], x)
            e == Behind(c[i], x)
            a == Len(new) + 1
            t2 == IF Touches(c[i], x) THEN t ELSE x
            st2 == [j \in 1 .. i + 1 |-> IF j <= i THEN st[j] ELSE a + b + 1 + e]
            tmp2 == [j \in 1 .. i |-> IF j < i THEN tmp[j] ELSE t2]
<1>1. /\ i \in Nat \ {0} /\ (i - 1) + 1 = i /\ DOMAIN c = 1 .. Len(c)
      /\ c[i] \in Instructions
  OBVIOUS
<1>2. /\ st \in [1 .. i -> Nat \ {0}] /\ st[1] = 1 /\ st[i] = a
      /\ \A j, k \in 1 .. i : j < k => st[j] < st[k]
      /\ new \in Seq(Instructions) /\ Len(new) \in Nat /\ a \in Nat \ {0}
      /\ \A j \in 1 .. i - 1 : GroupAt(c, x, n, new, st, tmp, j)
      /\ \A p \in 1 .. Len(new) : \E j \in 1 .. i - 1 : st[j] <= p /\ p < st[j + 1]
  BY <1>1 DEF Expanded
<1>3. /\ b \in {0, 1} /\ e \in {0, 1}
      /\ x \in Kill(c[i]) => e = 1
      /\ x \in Gen(c[i]) => b = 1
  BY DEF Before, Behind
<1>4. /\ g \in Seq(Instructions) /\ Len(g) = b + 1 + e
      /\ x \in Gen(c[i]) => g[1] = Load(t, RSP, n)
      /\ g[b + 1] = Replace(c[i], x, t)
      /\ x \in Kill(c[i]) => g[b + 2] = Store(RSP, n, t)
  BY <1>1, GroupLayout
<1>5. Replace(c[i], x, t) = Replace(c[i], x, t2) /\ t2 \in Names
  <2>1. CASE Touches(c[i], x)
    BY <2>1
  <2>2. CASE ~Touches(c[i], x)
    <3>1. x \notin {c[i].d, c[i].u, c[i].v}
      BY <1>1, <2>2, Occurs
    <3>. QED BY <1>1, <2>2, <3>1 DEF Replace, Instructions
  <2>. QED BY <2>1, <2>2
<1>. HIDE DEF g, b, e
<1>6. /\ new2 \in Seq(Instructions) /\ Len(new2) = Len(new) + (b + 1 + e)
      /\ \A k \in 1 .. Len(new) : new2[k] = new[k]
      /\ \A k \in 1 .. b + 1 + e : new2[Len(new) + k] = g[k]
  BY <1>2, <1>3, <1>4
<1>7. /\ st2 \in [1 .. i + 1 -> Nat \ {0}] /\ st2[1] = 1
      /\ \A j \in 1 .. i : st2[j] = st[j]
      /\ st2[i + 1] = a + b + 1 + e
      /\ Len(new2) = st2[i + 1] - 1
  <2>1. a + b + 1 + e \in Nat \ {0} /\ i + 1 \in 1 .. i + 1 /\ ~(i + 1 <= i) /\ 1 \in 1 .. i
    BY <1>1, <1>2, <1>3
  <2>2. st2 \in [1 .. i + 1 -> Nat \ {0}]
    BY <1>1, <1>2, <2>1
  <2>3. \A j \in 1 .. i : st2[j] = st[j]
    BY <1>1
  <2>4. st2[i + 1] = a + b + 1 + e
    BY <2>1
  <2>5. Len(new2) = (a + b + 1 + e) - 1
    <3>. HIDE DEF new2
    <3>. QED BY <1>2, <1>3, <1>6
  <2>. QED BY <1>2, <2>1, <2>2, <2>3, <2>4, <2>5
<1>8. /\ \A j \in 1 .. i - 1 : tmp2[j] = tmp[j]
      /\ tmp2[i] = t2
  BY <1>1
<1>. HIDE DEF new2, st2, tmp2, t2
<1>9. \A j, k \in 1 .. i + 1 : j < k => st2[j] < st2[k]
  <2>. SUFFICES ASSUME NEW j \in 1 .. i + 1, NEW k \in 1 .. i + 1, j < k
                PROVE  st2[j] < st2[k]
    OBVIOUS
  <2>1. CASE k <= i
    <3>1. j \in 1 .. i /\ k \in 1 .. i
      BY <1>1, <2>1
    <3>. QED BY <1>2, <1>7, <3>1
  <2>2. CASE k = i + 1
    <3>1. j \in 1 .. i /\ i \in 1 .. i
      BY <1>1, <2>2
    <3>2. st[j] \in Nat /\ (j = i \/ st[j] < st[i])
      <4>1. j = i \/ j < i
        BY <1>1, <3>1
      <4>2. st[j] \in Nat
        BY <1>2, <3>1
      <4>3. j < i => st[j] < st[i]
        BY <1>2, <3>1
      <4>. QED BY <4>1, <4>2, <4>3
    <3>3. st2[j] <= a
      <4>. DEFINE y == st[j]
      <4>1. y \in Nat /\ (y = a \/ y < a) /\ st2[j] = y
        BY <1>2, <1>7, <3>1, <3>2
      <4>. HIDE DEF y, a
      <4>2. a \in Nat
        BY <1>2
      <4>. QED BY <4>1, <4>2
    <3>4. st2[k] = a + b + 1 + e /\ st2[j] \in Nat
      BY <1>7, <2>2, <3>1, <3>2
    <3>. HIDE DEF a
    <3>. QED BY <1>2, <1>3, <3>3, <3>4
  <2>. QED BY <1>1, <2>1, <2>2
<1>10. ASSUME NEW j \in 1 .. i PROVE GroupAt(c, x, n, new2, st2, tmp2, j)
  <2>1. CASE j \in 1 .. i - 1
    <3>1. GroupAt(c, x, n, new, st, tmp, j)
      BY <1>2, <2>1
    <3>2. /\ j \in 1 .. i /\ j + 1 \in 1 .. i
          /\ st2[j] = st[j] /\ st2[j + 1] = st[j + 1] /\ tmp2[j] = tmp[j]
      BY <1>1, <1>7, <1>8, <2>1
    <3>3. st[j] \in Nat \ {0} /\ st[j + 1] \in Nat /\ st[j + 1] <= a
      <4>1. j + 1 = i \/ j + 1 < i
        BY <1>1, <3>2
      <4>2. i \in 1 .. i
        BY <1>1
      <4>. HIDE DEF a
      <4>3. st[j] \in Nat \ {0} /\ st[j + 1] \in Nat \ {0} /\ st[i] = a /\ a \in Nat
        BY <1>2, <3>2
      <4>4. j + 1 < i => st[j + 1] < st[i]
        BY <1>2, <3>2, <4>2
      <4>5. st[j + 1] = a \/ st[j + 1] < a
        BY <4>1, <4>3, <4>4
      <4>. QED BY <4>3, <4>5
    <3>4. /\ Before(c[j], x) \in {0, 1} /\ Behind(c[j], x) \in {0, 1}
          /\ x \in Gen(c[j]) => Before(c[j], x) = 1
          /\ x \in Kill(c[j]) => Behind(c[j], x) = 1
      BY DEF Before, Behind
    <3>5. st[j + 1] = st[j] + Before(c[j], x) + 1 + Behind(c[j], x)
      BY <3>1 DEF GroupAt, Img
    <3>6. /\ st[j] \in 1 .. Len(new) /\ Img(c, x, st, j) \in 1 .. Len(new)
          /\ x \in Kill(c[j]) => Img(c, x, st, j) + 1 \in 1 .. Len(new)
      <4>. DEFINE f == st[j]
                  h == st[j + 1]
                  bj == Before(c[j], x)
                  ej == Behind(c[j], x)
                  l == Len(new)
      <4>1. /\ f \in Nat \ {0} /\ h \in Nat /\ h <= l + 1 /\ l \in Nat
            /\ bj \in {0, 1} /\ ej \in {0, 1} /\ h = f + bj + 1 + ej
            /\ x \in Kill(c[j]) => ej = 1
        BY <1>2, <3>3, <3>4, <3>5
      <4>. HIDE DEF f, h, bj, ej, l
      <4>2. /\ f \in 1 .. l /\ f + bj \in 1 .. l
            /\ x \in Kill(c[j]) => f + bj + 1 \in 1 .. l
        BY <4>1
      <4>. QED BY <4>2 DEF f, bj, l, Img
    <3>7. Img(c, x, st2, j) = Img(c, x, st, j)
      BY <3>2 DEF Img
    <3>. QED BY <1>6, <3>1, <3>2, <3>6, <3>7 DEF GroupAt
  <2>2. CASE j = i
    <3>1. /\ st2[i] = a /\ Img(c, x, st2, i) = a + b
          /\ st2[i + 1] = a + b + 1 + e
      BY <1>1, <1>2, <1>7 DEF Img, b
    <3>2. x \in Gen(c[i]) => new2[a] = g[1]
      BY <1>2, <1>3, <1>6
    <3>3. new2[a + b] = g[b + 1]
      <4>1. b + 1 \in 1 .. b + 1 + e /\ Len(new) + (b + 1) = a + b
        BY <1>2, <1>3
      <4>. QED BY <1>6, <4>1
    <3>4. x \in Kill(c[i]) => new2[(a + b) + 1] = g[b + 2]
      <4>1. x \in Kill(c[i]) => b + 2 \in 1 .. b + 1 + e
        BY <1>3
      <4>2. Len(new) + (b + 2) = (a + b) + 1
        BY <1>2, <1>3
      <4>. QED BY <1>6, <4>1, <4>2
    <3>5. /\ t2 \in Names /\ (Touches(c[i], x) => t2 = t /\ t2 \notin VarsOf(c))
          /\ x \in Gen(c[i]) => Touches(c[i], x)
          /\ x \in Kill(c[i]) => Touches(c[i], x)
      BY <1>5 DEF t2, Touches
    <3>6. Behind(c[i], x) = e
      BY DEF e
    <3>. QED BY <1>4, <1>5, <1>8, <2>2, <3>1, <3>2, <3>3, <3>4, <3>5, <3>6 DEF GroupAt
  <2>. QED BY <1>1, <2>1, <2>2
<1>11. ASSUME NEW p \in 1 .. Len(new2)
       PROVE  \E j \in 1 .. i : st2[j] <= p /\ p < st2[j + 1]
  <2>1. CASE p \in 1 .. Len(new)
    <3>1. PICK j \in 1 .. i - 1 : st[j] <= p /\ p < st[j + 1]
      BY <1>2, <2>1
    <3>2. j \in 1 .. i /\ j + 1 \in 1 .. i
      BY <1>1, <3>1
    <3>. QED BY <1>7, <3>1, <3>2
  <2>2. CASE p \notin 1 .. Len(new)
    <3>1. i \in 1 .. i /\ st2[i] = a /\ st2[i + 1] = Len(new2) + 1
      BY <1>1, <1>2, <1>3, <1>6, <1>7
    <3>2. a <= p /\ p < Len(new2) + 1
      BY <1>2, <1>3, <1>6, <2>2
    <3>. QED BY <3>1, <3>2
  <2>. QED BY <2>1, <2>2
<1>12. Expanded(c, x, n, i, new2, st2, tmp2)
  BY <1>6, <1>7, <1>9, <1>10, <1>11 DEF Expanded
<1>. QED BY <1>12 DEF new2, g
=============================================================================
