------------------------------ MODULE LBProofs ------------------------------
(***************************************************************************)
(* For every body that is well nested, has no undeclared name like a       *)
(* renaming, and labels of its own for each loop: scopes can be dropped    *)
(* after the renaming, and the lowered code follows the source.            *)
(***************************************************************************)
EXTENDS LBPasses, FiniteSetTheorems, SequenceTheorems, WellFoundedInduction, TLAPS

-----------------------------------------------------------------------------
(* Numbers.                                                                *)

(* Induction: a set of naturals has a least element.                       *)
LEMMA HasLeast ==
    ASSUME NEW T, T \subseteq Nat, T # {}
    PROVE  \E x \in T : \A y \in T : x <= y
<1>. DEFINE R == {p \in Nat \X Nat : p[1] < p[2]}
<1>1. IsWellFoundedOn(OpToRel(<, Nat), Nat)
  BY NatLessThanWellFounded
<1>2. OpToRel(<, Nat) = R
  BY DEF OpToRel
<1>3. \E x \in T : \A y \in T : <<y, x>> \notin R
  <2>1. IsWellFoundedOn(R, Nat)
    BY <1>1, <1>2
  <2>. HIDE DEF R
  <2>. QED BY <2>1, WFMin
<1>4. PICK x \in T : \A y \in T : <<y, x>> \notin R
  BY <1>3
<1>5. \A y \in T : x <= y
  <2>. SUFFICES ASSUME NEW y \in T, ~ (x <= y) PROVE FALSE
    OBVIOUS
  <2>1. x \in Nat /\ y \in Nat /\ y < x
    OBVIOUS
  <2>2. <<y, x>> \in R
    BY <2>1
  <2>. QED BY <2>2, <1>4
<1>. QED BY <1>5

LEMMA LatestIs ==
    ASSUME NEW n \in Nat, NEW S, S \subseteq 0 .. n, S # {}
    PROVE  Latest(S) \in S /\ \A j \in S : j <= Latest(S)
<1>. DEFINE T == {n - j : j \in S}
<1>1. T \subseteq Nat /\ T # {}
  OBVIOUS
<1>2. PICK t \in T : \A u \in T : t <= u
  <2>. HIDE DEF T
  <2>. QED BY <1>1, HasLeast
<1>3. PICK k \in S : t = n - k
  OBVIOUS
<1>4. \A j \in S : j <= k
  <2>. TAKE j \in S
  <2>1. n - j \in T
    OBVIOUS
  <2>2. j \in 0 .. n /\ k \in 0 .. n
    OBVIOUS
  <2>3. n - k <= n - j
    BY <2>1, <1>2, <1>3
  <2>. HIDE DEF T
  <2>. QED BY <2>2, <2>3
<1>5. \E m \in S : \A j \in S : j <= m
  BY <1>4
<1>. QED BY <1>5 DEF Latest

LEMMA LatestUnique ==
    ASSUME NEW n \in Nat, NEW S, S \subseteq 0 .. n, NEW k \in S, \A j \in S : j <= k
    PROVE  Latest(S) = k
<1>1. Latest(S) \in S /\ \A j \in S : j <= Latest(S)
  BY LatestIs
<1>2. Latest(S) \in 0 .. n /\ k \in 0 .. n
  BY <1>1
<1>3. k <= Latest(S) /\ Latest(S) <= k
  BY <1>1
<1>. QED BY <1>2, <1>3

(* The number of members of a set up to a bound.                           *)
UpTo(S, k) == Cardinality(S \cap 1 .. k)

LEMMA CountStep ==
    ASSUME NEW S, NEW k \in Nat \ {0}
    PROVE  /\ UpTo(S, k) \in Nat /\ UpTo(S, k - 1) \in Nat
           /\ UpTo(S, k) = UpTo(S, k - 1) + (IF k \in S THEN 1 ELSE 0)
<1>1. IsFiniteSet(S \cap 1 .. k) /\ IsFiniteSet(S \cap 1 .. k - 1)
  <2>1. IsFiniteSet(1 .. k) /\ IsFiniteSet(1 .. k - 1)
    BY FS_Interval
  <2>2. S \cap 1 .. k \subseteq 1 .. k /\ S \cap 1 .. k - 1 \subseteq 1 .. k - 1
    OBVIOUS
  <2>. QED BY <2>1, <2>2, FS_Subset
<1>2. CASE k \in S
  <2>1. S \cap 1 .. k = (S \cap 1 .. k - 1) \cup {k} /\ k \notin S \cap 1 .. k - 1
    BY <1>2
  <2>. QED BY <1>1, <1>2, <2>1, FS_AddElement, FS_CardinalityType DEF UpTo
<1>3. CASE k \notin S
  <2>1. S \cap 1 .. k = S \cap 1 .. k - 1
    BY <1>3
  <2>2. Cardinality(S \cap 1 .. k) \in Nat
    BY <1>1, FS_CardinalityType
  <2>3. UpTo(S, k) = UpTo(S, k - 1) /\ UpTo(S, k) \in Nat
    BY <2>1, <2>2 DEF UpTo
  <2>. QED BY <1>3, <2>3
<1>. QED BY <1>2, <1>3

LEMMA CountMonotone ==
    ASSUME NEW S, NEW j \in Nat, NEW k \in Nat, j <= k
    PROVE  /\ UpTo(S, j) \in Nat /\ UpTo(S, k) \in Nat /\ UpTo(S, j) <= UpTo(S, k)
           /\ (\E m \in S \cap Int : j < m /\ m <= k) => UpTo(S, j) < UpTo(S, k)
<1>1. IsFiniteSet(S \cap 1 .. k) /\ S \cap 1 .. j \subseteq S \cap 1 .. k
  <2>1. IsFiniteSet(1 .. k) /\ S \cap 1 .. k \subseteq 1 .. k
    BY FS_Interval
  <2>2. IsFiniteSet(S \cap 1 .. k)
    BY <2>1, FS_Subset
  <2>. QED BY <2>2
<1>2. UpTo(S, j) \in Nat /\ UpTo(S, k) \in Nat /\ UpTo(S, j) <= UpTo(S, k)
  BY <1>1, FS_Subset, FS_CardinalityType DEF UpTo
<1>3. ASSUME NEW m \in S \cap Int, j < m, m <= k
      PROVE  UpTo(S, j) < UpTo(S, k)
  <2>1. m \in S \cap 1 .. k /\ m \notin S \cap 1 .. j
    BY <1>3
  <2>. QED BY <1>1, <1>2, <2>1, FS_Subset DEF UpTo
<1>. QED BY <1>2, <1>3

-----------------------------------------------------------------------------
(* Bodies and their scopes.                                                *)

Numbered(b) == [k \in DOMAIN b |-> [b[k] EXCEPT !.of = k]]

Bodies == {Numbered(b) : b \in Sources}

(* The fields of an instruction of a source.                               *)
LEMMA ItemFields ==
    ASSUME NEW it \in Items
    PROVE  /\ it.names \in Seq(AllNames) /\ it.to \in Seq(AllNames) /\ it.of \in Nat
           /\ it.op = "declare" => Len(it.names) = 1 /\ it.names[1] \in AllNames
           /\ it.op \in {"open", "close"} => it.names = <<>>
           /\ it.op \notin {"compare", "cond"}
           /\ it = [op |-> it.op, names |-> it.names, to |-> it.to, of |-> it.of]
BY DEF Items

LEMMA LevelStep ==
    ASSUME NEW b, NEW k \in Nat \ {0}
    PROVE  /\ Level(b, k) \in Int /\ Level(b, k - 1) \in Int
           /\ b[k].op = "open" => Level(b, k) = Level(b, k - 1) + 1
           /\ b[k].op = "close" => Level(b, k) = Level(b, k - 1) - 1
           /\ ~IsMark(b[k]) => Level(b, k) = Level(b, k - 1)
<1>. DEFINE opens == {j \in Int : b[j].op = "open"}
            closes == {j \in Int : b[j].op = "close"}
<1>1. \A m \in Nat : {j \in 1 .. m : b[j].op = "open"} = opens \cap 1 .. m
  OBVIOUS
<1>2. \A m \in Nat : {j \in 1 .. m : b[j].op = "close"} = closes \cap 1 .. m
  OBVIOUS
<1>3. k - 1 \in Nat /\ k \in Nat
  OBVIOUS
<1>4. /\ Level(b, k) = UpTo(opens, k) - UpTo(closes, k)
      /\ Level(b, k - 1) = UpTo(opens, k - 1) - UpTo(closes, k - 1)
  BY <1>1, <1>2, <1>3 DEF Level, UpTo
<1>5. /\ k \in opens <=> b[k].op = "open"
      /\ k \in closes <=> b[k].op = "close"
  OBVIOUS
<1>. HIDE DEF opens, closes
<1>6. /\ UpTo(opens, k) \in Nat /\ UpTo(opens, k - 1) \in Nat
      /\ UpTo(opens, k) = UpTo(opens, k - 1) + (IF k \in opens THEN 1 ELSE 0)
  BY CountStep
<1>7. /\ UpTo(closes, k) \in Nat /\ UpTo(closes, k - 1) \in Nat
      /\ UpTo(closes, k) = UpTo(closes, k - 1) + (IF k \in closes THEN 1 ELSE 0)
  BY CountStep
<1>. QED BY <1>4, <1>5, <1>6, <1>7 DEF IsMark

LEMMA LevelZero == \A b : Level(b, 0) = 0
<1>1. \A b : {j \in 1 .. 0 : b[j].op = "open"} = {} /\ {j \in 1 .. 0 : b[j].op = "close"} = {}
  OBVIOUS
<1>. QED BY <1>1, FS_EmptySet DEF Level

(* Numbering the instructions changes nothing.                             *)
LEMMA NumberedIs ==
    ASSUME NEW b \in Sources
    PROVE  LET s == Numbered(b)
           IN  /\ s \in Seq(Items) /\ DOMAIN s = DOMAIN b /\ Len(s) = Len(b)
               /\ \A k \in DOMAIN s : /\ s[k].op = b[k].op /\ s[k].names = b[k].names
                                      /\ s[k].to = b[k].to /\ s[k].of = k
<1>. DEFINE s == Numbered(b)
<1>1. b \in Seq(Items) /\ DOMAIN b = 1 .. Len(b) /\ Len(b) \in Nat
  BY SourcesAssumption
<1>2. ASSUME NEW k \in DOMAIN b
      PROVE  /\ s[k] \in Items /\ s[k].op = b[k].op /\ s[k].names = b[k].names
             /\ s[k].to = b[k].to /\ s[k].of = k
  <2>1. b[k] \in Items /\ k \in Nat /\ s[k] = [b[k] EXCEPT !.of = k]
    BY <1>1 DEF Numbered
  <2>. QED BY <2>1 DEF Items
<1>3. DOMAIN s = 1 .. Len(b)
  BY <1>1 DEF Numbered
<1>4. s \in [1 .. Len(b) -> Items]
  BY <1>1, <1>2 DEF Numbered
<1>. QED BY <1>1, <1>2, <1>3, <1>4

LEMMA NumberedLevels ==
    ASSUME NEW b \in Sources, NEW k \in 0 .. Len(b)
    PROVE  /\ Level(Numbered(b), k) = Level(b, k)
           /\ \A x : Visible(Numbered(b), k, x) = Visible(b, k, x)
<1>0. DOMAIN b = 1 .. Len(b) /\ Len(b) \in Nat
  BY SourcesAssumption
<1>1. ASSUME NEW m \in 0 .. Len(b)
      PROVE  Level(Numbered(b), m) = Level(b, m)
  <2>1. \A j \in 1 .. m : Numbered(b)[j].op = b[j].op
    BY <1>0, NumberedIs
  <2>. QED BY <2>1 DEF Level
<1>2. \A x : Visible(Numbered(b), k, x) = Visible(b, k, x)
  <2>1. \A x : \A j \in 1 .. k : Declares(Numbered(b), j, x) <=> Declares(b, j, x)
    BY <1>0, NumberedIs DEF Declares
  <2>2. \A j \in 1 .. k : \A h \in j .. k :
           Level(Numbered(b), h) = Level(b, h) /\ Level(Numbered(b), j) = Level(b, j)
    BY <1>0, <1>1
  <2>. QED BY <2>1, <2>2 DEF Visible
<1>. QED BY <1>0, <1>1, <1>2

(* What the assumptions say of the numbered bodies.                        *)
BodyFacts(s) ==
    /\ s \in Seq(Items) /\ WellNested(s)
    /\ FreeNames(s) \cap Renamings(s) = {}
    /\ \A k \in DOMAIN s : s[k].of = k
    /\ \A j, k \in DOMAIN s :
          s[j].op = "label" /\ s[k].op = "label" /\ s[j].to = s[k].to => j = k
    /\ \A j, k \in DOMAIN s : \A m, n \in 1 .. 2 :
          s[j].op = "while" /\ s[k].op = "while" /\ s[j].to[m] = s[k].to[n] =>
              j = k /\ m = n

LEMMA BodiesAre == \A s \in Bodies : BodyFacts(s)
<1>. SUFFICES ASSUME NEW b \in Sources PROVE BodyFacts(Numbered(b))
  BY DEF Bodies
<1>. DEFINE s == Numbered(b)
<1>1. /\ s \in Seq(Items) /\ DOMAIN s = DOMAIN b /\ Len(s) = Len(b)
      /\ \A k \in DOMAIN s : /\ s[k].op = b[k].op /\ s[k].names = b[k].names
                             /\ s[k].to = b[k].to /\ s[k].of = k
  BY NumberedIs
<1>2. b \in Seq(Items) /\ WellNested(b) /\ DOMAIN b = 1 .. Len(b) /\ Len(b) \in Nat
  BY SourcesAssumption
<1>3. \A k \in DOMAIN b : /\ Level(s, k) = Level(b, k)
                          /\ \A x : Visible(s, k, x) = Visible(b, k, x)
  BY <1>2, NumberedLevels
<1>. HIDE DEF s
<1>4. WellNested(s)
  BY <1>1, <1>2, <1>3 DEF WellNested
<1>5. Occurrences(s) = Occurrences(b)
  BY <1>1 DEF Occurrences
<1>6. \A o \in Occurrences(b) : NameAt(s, o) = NameAt(b, o) /\ Means(s, o) = Means(b, o)
  <2>. SUFFICES ASSUME NEW k \in DOMAIN b, NEW j \in DOMAIN b[k].names
                PROVE  NameAt(s, <<k, j>>) = NameAt(b, <<k, j>>) /\ Means(s, <<k, j>>) = Means(b, <<k, j>>)
    BY DEF Occurrences
  <2>1. NameAt(s, <<k, j>>) = NameAt(b, <<k, j>>)
    BY <1>1 DEF NameAt
  <2>2. \A x : Binding(s, k, x) = Binding(b, k, x)
    BY <1>3 DEF Binding
  <2>. QED BY <2>1, <2>2 DEF Means
<1>7. FreeNames(s) = FreeNames(b)
  BY <1>5, <1>6 DEF FreeNames
<1>8. Renamings(s) = Renamings(b)
  BY <1>1 DEF Renamings
<1>. QED BY <1>1, <1>4, <1>7, <1>8, NamesAssumption, LabelsAssumption DEF BodyFacts, s

-----------------------------------------------------------------------------
(* What is visible, place by place.                                        *)

(* How many declarations of x there are up to place k.                     *)
Declared(b, k, x) == UpTo({j \in Int : Declares(b, j, x)}, k)

(* The name that a binding gets.                                           *)
NewName(b, d) ==
    IF d[1] = 0 THEN d[2] ELSE Suffixed(d[2], Declared(b, d[1] - 1, d[2]))

(* The visible declarations of one scope.                                  *)
OfScope(b, k, s, x) == {h \in Visible(b, k, x) : Level(b, h) = s}

LEMMA DeclaredStep ==
    ASSUME NEW b, NEW k \in Nat \ {0}, NEW x
    PROVE  /\ Declared(b, k, x) \in Nat /\ Declared(b, k - 1, x) \in Nat
           /\ Declared(b, k, x) =
                 Declared(b, k - 1, x) + (IF Declares(b, k, x) THEN 1 ELSE 0)
<1>. DEFINE S == {j \in Int : Declares(b, j, x)}
<1>1. k \in S <=> Declares(b, k, x)
  OBVIOUS
<1>. HIDE DEF S
<1>2. /\ UpTo(S, k) \in Nat /\ UpTo(S, k - 1) \in Nat
      /\ UpTo(S, k) = UpTo(S, k - 1) + (IF k \in S THEN 1 ELSE 0)
  BY CountStep
<1>3. Declared(b, k, x) = UpTo(S, k) /\ Declared(b, k - 1, x) = UpTo(S, k - 1)
  BY DEF Declared, S
<1>. QED BY <1>1, <1>2, <1>3

LEMMA VisibleStep ==
    ASSUME NEW b, NEW k \in Nat \ {0}, NEW x
    PROVE  /\ Visible(b, k, x) \subseteq 1 .. k
           /\ \A h \in Visible(b, k, x) : Level(b, h) <= Level(b, k)
           /\ Visible(b, k, x) =
                 {h \in Visible(b, k - 1, x) : Level(b, h) <= Level(b, k)}
                 \cup (IF Declares(b, k, x) THEN {k} ELSE {})
<1>1. \A h \in 1 .. k : Level(b, h) \in Int
  BY LevelStep
<1>2. 1 .. k = 1 .. k - 1 \cup {k} /\ k \notin 1 .. k - 1
  OBVIOUS
<1>3. \A j \in 1 .. k - 1 : j .. k = j .. k - 1 \cup {k}
  OBVIOUS
<1>4. k .. k = {k}
  OBVIOUS
<1>. QED BY <1>1, <1>2, <1>3, <1>4 DEF Visible

(* Scope by scope; a scope that opens has nothing visible yet.             *)
LEMMA OfScopeStep ==
    ASSUME NEW b, NEW k \in Nat \ {0}, NEW x, NEW s \in Int, s <= Level(b, k)
    PROVE  OfScope(b, k, s, x) =
             (IF s > Level(b, k - 1) THEN {} ELSE OfScope(b, k - 1, s, x))
             \cup (IF Declares(b, k, x) /\ Level(b, k) = s THEN {k} ELSE {})
<1>1. Visible(b, k, x) = {h \in Visible(b, k - 1, x) : Level(b, h) <= Level(b, k)}
                          \cup (IF Declares(b, k, x) THEN {k} ELSE {})
  BY VisibleStep
<1>2. \A h \in Visible(b, k - 1, x) : Level(b, h) <= Level(b, k - 1) /\ Level(b, h) \in Int
  <2>1. CASE k - 1 = 0
    <3>1. Visible(b, 0, x) = {}
      BY DEF Visible
    <3>. QED BY <2>1, <3>1
  <2>2. CASE k - 1 # 0
    <3>1. k - 1 \in Nat \ {0}
      BY <2>2
    <3>2. /\ Visible(b, k - 1, x) \subseteq 1 .. k - 1
          /\ \A h \in Visible(b, k - 1, x) : Level(b, h) <= Level(b, k - 1)
      BY <3>1, VisibleStep
    <3>3. \A h \in Nat \ {0} : Level(b, h) \in Int
      BY LevelStep
    <3>. QED BY <3>2, <3>3
  <2>. QED BY <2>1, <2>2
<1>3. Level(b, k) \in Int /\ Level(b, k - 1) \in Int
  BY LevelStep
<1>. QED BY <1>1, <1>2, <1>3 DEF OfScope

(* The innermost scope that declares x has the latest visible declaration. *)
LEMMA Innermost ==
    ASSUME NEW b, NEW k \in Nat, NEW x, NEW s \in Int,
           OfScope(b, k, s, x) # {}, \A r \in Int : r > s => OfScope(b, k, r, x) = {}
    PROVE  /\ Visible(b, k, x) # {}
           /\ Latest(Visible(b, k, x)) = Latest(OfScope(b, k, s, x))
<1>1. Visible(b, k, x) \subseteq 0 .. k /\ OfScope(b, k, s, x) \subseteq Visible(b, k, x)
  BY DEF Visible, OfScope
<1>2. DEFINE l == Latest(OfScope(b, k, s, x))
<1>3. l \in OfScope(b, k, s, x) /\ \A j \in OfScope(b, k, s, x) : j <= l
  BY <1>1, LatestIs
<1>4. l \in Visible(b, k, x) /\ Level(b, l) = s /\ l \in 1 .. k
  BY <1>3 DEF OfScope, Visible
<1>5. \A j \in 1 .. k : Level(b, j) \in Int
  BY LevelStep
<1>6. ASSUME NEW j \in Visible(b, k, x)
      PROVE  j <= l
  <2>. SUFFICES ASSUME ~(j <= l) PROVE FALSE
    OBVIOUS
  <2>1. j \in 1 .. k /\ j \in l .. k
    BY <1>4 DEF Visible
  <2>2. Level(b, j) >= s
    BY <1>4, <2>1 DEF Visible
  <2>3. Level(b, j) = s
    BY <1>5, <2>1, <2>2 DEF OfScope
  <2>4. j \in OfScope(b, k, s, x)
    BY <2>3 DEF OfScope
  <2>. QED BY <1>3, <2>4
<1>. QED BY <1>1, <1>4, <1>6, LatestUnique

LEMMA SuffixedIs ==
    ASSUME NEW x \in AllNames, NEW n \in Nat
    PROVE  /\ Suffixed(x, n) \in AllNames
           /\ \A y \in AllNames, m \in Nat : Suffixed(x, n) = Suffixed(y, m) => x = y /\ n = m
<1>1. \A y \in AllNames : y = <<y[1], y[2]>> /\ y[1] \in STRING /\ y[2] \in Seq(Nat)
  BY DEF AllNames
<1>2. \A y \in AllNames, m \in Nat : Append(y[2], m) \in Seq(Nat)
  BY <1>1
<1>3. Suffixed(x, n) \in AllNames
  BY <1>1, <1>2 DEF Suffixed, AllNames
<1>4. ASSUME NEW y \in AllNames, NEW m \in Nat, Suffixed(x, n) = Suffixed(y, m)
      PROVE  x = y /\ n = m
  <2>1. x[1] = y[1] /\ Append(x[2], n) = Append(y[2], m)
    BY <1>4 DEF Suffixed
  <2>2. x[2] \in Seq(Nat) /\ y[2] \in Seq(Nat)
    BY <1>1
  <2>3. x[2] = y[2] /\ n = m
    <3>. DEFINE s == x[2]
                t == y[2]
    <3>1. s \in Seq(Nat) /\ t \in Seq(Nat) /\ Append(s, n) = Append(t, m)
      BY <2>1, <2>2
    <3>. HIDE DEF s, t
    <3>2. s = t /\ n = m
      BY <3>1, AppendInjective
    <3>. QED BY <3>2 DEF s, t
  <2>. QED BY <1>1, <2>1, <2>3
<1>. QED BY <1>3, <1>4

LEMMA BindingTypes ==
    ASSUME NEW b, NEW k \in Nat, NEW x
    PROVE  /\ Binding(b, k, x)[1] \in 0 .. k /\ Binding(b, k, x)[2] = x
           /\ Binding(b, k, x)[1] = 0 => Binding(b, k, x) = <<0, x>> /\ Visible(b, k, x) = {}
           /\ Binding(b, k, x)[1] # 0 =>
                 /\ Binding(b, k, x)[1] \in Visible(b, k, x)
                 /\ Declares(b, Binding(b, k, x)[1], x)
           /\ x \in AllNames => NewName(b, Binding(b, k, x)) \in AllNames
<1>1. Visible(b, k, x) \subseteq 1 .. k
  BY DEF Visible
<1>2. Visible(b, k, x) # {} => Latest(Visible(b, k, x)) \in Visible(b, k, x)
  <2>1. Visible(b, k, x) \subseteq 0 .. k
    BY <1>1
  <2>. QED BY <2>1, LatestIs
<1>3. \A h \in Visible(b, k, x) : Declares(b, h, x)
  BY DEF Visible
<1>4. \A n \in Nat : x \in AllNames => Suffixed(x, n) \in AllNames
  BY SuffixedIs
<1>5. \A h \in 1 .. k : Declared(b, h - 1, x) \in Nat
  <2>1. \A h \in Nat \ {0} : Declared(b, h - 1, x) \in Nat
    BY DeclaredStep
  <2>. QED BY <2>1
<1>6. CASE Visible(b, k, x) = {}
  BY <1>6 DEF Binding, NewName
<1>7. CASE Visible(b, k, x) # {}
  <2>1. Binding(b, k, x) = <<Latest(Visible(b, k, x)), x>>
    BY <1>7 DEF Binding
  <2>2. Latest(Visible(b, k, x)) \in 1 .. k
    BY <1>1, <1>2, <1>7
  <2>. QED BY <1>2, <1>3, <1>4, <1>5, <1>7, <2>1, <2>2 DEF NewName
<1>. QED BY <1>6, <1>7

-----------------------------------------------------------------------------
(* The renaming.                                                           *)

Maps == UNION {[D -> AllNames] : D \in SUBSET AllNames}

(* Instruction k after the renaming.                                       *)
RenamedItem(b, k) ==
    [b[k] EXCEPT !.names =
        [j \in DOMAIN b[k].names |-> NewName(b, Means(b, <<k, j>>))]]

(* The map of scope s has what the scope declares and nothing else.        *)
MapIs(map, s) ==
    \A x \in AllNames :
        LET D == OfScope(source, i - 1, s, x)
        IN  /\ x \in DOMAIN map <=> D # {}
            /\ D # {} => map[x] = NewName(source, <<Latest(D), x>>)

ScopesInv ==
    /\ source \in Bodies
    /\ stage = "scopes" =>
         /\ code = source /\ i \in 1 .. Len(source) + 1
         /\ out \in Seq(Items) /\ Len(out) = i - 1
         /\ \A k \in 1 .. i - 1 : out[k] = RenamedItem(source, k)
         /\ \A x \in AllNames : Count(x) = Declared(source, i - 1, x)
         /\ scopeMaps \in Seq(Maps) /\ Len(scopeMaps) = Level(source, i - 1)
         /\ \A s \in DOMAIN scopeMaps : MapIs(scopeMaps[s], s)

(* lookup_renamed_name finds the declaration the name means.               *)
LEMMA RenamedIs ==
    ASSUME ScopesInv, stage = "scopes", NEW x \in AllNames
    PROVE  Renamed(x) = NewName(source, Binding(source, i - 1, x))
<1>. DEFINE found == {s \in DOMAIN scopeMaps : x \in DOMAIN scopeMaps[s]}
            inner == CHOOSE s \in found : \A r \in found : r <= s
            level == Len(scopeMaps)
<1>1. /\ i - 1 \in Nat /\ level \in Nat /\ DOMAIN scopeMaps = 1 .. level
      /\ level = Level(source, i - 1)
  BY DEF ScopesInv
<1>2. \A s \in Int : OfScope(source, i - 1, s, x) # {} => s <= level
  <2>. SUFFICES ASSUME NEW s \in Int, NEW h \in Visible(source, i - 1, x), Level(source, h) = s
                PROVE  s <= level
    BY DEF OfScope
  <2>1. h \in 1 .. i - 1
    BY DEF Visible
  <2>2. i - 1 \in Nat \ {0}
    BY <1>1, <2>1
  <2>3. Level(source, h) <= Level(source, i - 1)
    BY <2>2, VisibleStep
  <2>. QED BY <1>1, <2>3
<1>3. \A s \in 1 .. level : s \in found <=> OfScope(source, i - 1, s, x) # {}
  BY <1>1 DEF ScopesInv, MapIs
<1>4. \A h \in Visible(source, i - 1, x) : Level(source, h) \in 1 .. level
  <2>. TAKE h \in Visible(source, i - 1, x)
  <2>1. h \in 1 .. i - 1 /\ Declares(source, h, x) /\ h \in Nat \ {0}
    BY DEF Visible
  <2>2. source \in Seq(Items) /\ WellNested(source) /\ h \in DOMAIN source
    BY <2>1, BodiesAre DEF ScopesInv, BodyFacts
  <2>3. Level(source, h) >= 1
    BY <2>1, <2>2 DEF WellNested, Declares
  <2>4. Level(source, h) \in Int
    BY <2>1, LevelStep
  <2>5. h \in OfScope(source, i - 1, Level(source, h), x)
    BY DEF OfScope
  <2>. QED BY <1>1, <1>2, <2>3, <2>4, <2>5
<1>5. CASE found = {}
  <2>1. Visible(source, i - 1, x) = {}
    BY <1>3, <1>4, <1>5 DEF OfScope
  <2>. QED BY <1>5, <2>1 DEF Renamed, Binding, NewName
<1>6. CASE found # {}
  <2>1. found \subseteq 0 .. level
    BY <1>1
  <2>2. inner = Latest(found)
    BY DEF Latest
  <2>3. inner \in found /\ \A r \in found : r <= inner
    BY <1>1, <1>6, <2>1, <2>2, LatestIs
  <2>4. inner \in 1 .. level
    BY <1>1, <2>3
  <2>5. OfScope(source, i - 1, inner, x) # {}
    BY <1>3, <2>3, <2>4
  <2>6. \A r \in Int : r > inner => OfScope(source, i - 1, r, x) = {}
    <3>. SUFFICES ASSUME NEW r \in Int, r > inner, OfScope(source, i - 1, r, x) # {}
                  PROVE  FALSE
      OBVIOUS
    <3>1. r \in 1 .. level
      BY <1>2, <2>4, <1>1
    <3>2. r \in found
      BY <1>3, <3>1
    <3>. QED BY <2>3, <2>4, <3>1, <3>2
  <2>7. /\ Visible(source, i - 1, x) # {}
        /\ Latest(Visible(source, i - 1, x)) = Latest(OfScope(source, i - 1, inner, x))
    <3>1. inner \in Int /\ i - 1 \in Nat
      BY <1>1, <2>4
    <3>. HIDE DEF inner, found
    <3>. QED BY <2>5, <2>6, <3>1, Innermost
  <2>8. scopeMaps[inner][x] = NewName(source, <<Latest(OfScope(source, i - 1, inner, x)), x>>)
    BY <1>1, <2>4, <2>5 DEF ScopesInv, MapIs
  <2>9. Renamed(x) = scopeMaps[inner][x]
    BY <1>6 DEF Renamed
  <2>. QED BY <2>7, <2>8, <2>9 DEF Binding
<1>. QED BY <1>5, <1>6

LEMMA ScopesInit == Init => ScopesInv
<1>. SUFFICES ASSUME Init PROVE ScopesInv
  OBVIOUS
<1>1. source \in Bodies
  BY DEF Init, Bodies, Numbered
<1>2. source \in Seq(Items)
  BY <1>1, BodiesAre DEF BodyFacts
<1>3. code = source /\ i = 1 /\ out = <<>> /\ scopeMaps = <<>> /\ nameCounters = <<>>
  BY DEF Init
<1>4. \A x \in AllNames : Declared(source, 0, x) = 0 /\ Count(x) = 0
  <2>. TAKE x \in AllNames
  <2>1. {j \in Int : Declares(source, j, x)} \cap 1 .. 0 = {}
    OBVIOUS
  <2>. QED BY <1>3, <2>1, FS_EmptySet DEF Declared, UpTo, Count
<1>. QED BY <1>1, <1>2, <1>3, <1>4, LevelZero DEF ScopesInv

(* What the renaming holds at a place: what the steps begin with.          *)
LEMMA AtPlace ==
    ASSUME ScopesInv, stage = "scopes", i <= Len(code)
    PROVE  /\ source \in Seq(Items) /\ WellNested(source) /\ code = source
           /\ i \in DOMAIN source /\ i \in Nat \ {0} /\ i \in 1 .. Len(source)
           /\ item = source[i] /\ item \in Items
           /\ Level(source, i) \in Nat /\ Level(source, i - 1) \in Nat
           /\ DOMAIN scopeMaps = 1 .. Level(source, i - 1)
<1>1. BodyFacts(source) /\ code = source /\ i \in 1 .. Len(source)
  BY BodiesAre DEF ScopesInv, BodyFacts
<1>2. source \in Seq(Items) /\ WellNested(source) /\ DOMAIN source = 1 .. Len(source)
  BY <1>1 DEF BodyFacts
<1>3. Level(source, i) \in Nat
  <2>1. Level(source, i) >= IF source[i].op = "declare" THEN 1 ELSE 0
    BY <1>1, <1>2 DEF WellNested
  <2>2. Level(source, i) \in Int
    BY <1>1, LevelStep
  <2>. QED BY <2>1, <2>2
<1>4. scopeMaps \in Seq(Maps) /\ Len(scopeMaps) = Level(source, i - 1)
  BY DEF ScopesInv
<1>. QED BY <1>1, <1>2, <1>3, <1>4 DEF item

(* The rewritten part grows by the instruction as it has to be.            *)
LEMMA Rewritten ==
    ASSUME ScopesInv, stage = "scopes", i <= Len(code), NEW it \in Items,
           it = RenamedItem(source, i), Rewrite(it), source' = source
    PROVE  /\ code' = source' /\ i' \in 1 .. Len(source') + 1
           /\ out' \in Seq(Items) /\ Len(out') = i' - 1
           /\ \A k \in 1 .. i' - 1 : out'[k] = RenamedItem(source', k)
<1>1. /\ out \in Seq(Items) /\ Len(out) = i - 1 /\ i \in 1 .. Len(source) /\ code = source
      /\ \A k \in 1 .. i - 1 : out[k] = RenamedItem(source, k)
  BY AtPlace DEF ScopesInv
<1>2. out' = Append(out, it) /\ i' = i + 1 /\ code' = code
  BY DEF Rewrite
<1>3. Len(source) \in Nat
  BY AtPlace
<1>4. /\ out' \in Seq(Items) /\ Len(out') = i
      /\ \A k \in 1 .. i - 1 : out'[k] = out[k]
      /\ out'[i] = it
  BY <1>1, <1>2, AppendProperties
<1>5. ASSUME NEW k \in 1 .. i
      PROVE  out'[k] = RenamedItem(source, k)
  <2>1. CASE k = i
    BY <1>4, <2>1
  <2>2. CASE k # i
    <3>1. k \in 1 .. i - 1
      BY <2>2, <1>1
    <3>. QED BY <3>1, <1>1, <1>4
  <2>. QED BY <2>1, <2>2
<1>. QED BY <1>1, <1>2, <1>3, <1>4, <1>5

(* Where nothing is declared nothing changes but what is in sight.         *)
LEMMA Undeclared ==
    ASSUME NEW b, NEW k \in Nat \ {0}, b[k].op # "declare"
    PROVE  \A x : /\ Declared(b, k, x) = Declared(b, k - 1, x)
                  /\ \A s \in Int : s <= Level(b, k) =>
                        OfScope(b, k, s, x) =
                          IF s > Level(b, k - 1) THEN {} ELSE OfScope(b, k - 1, s, x)
                  /\ ~IsMark(b[k]) => Visible(b, k, x) = Visible(b, k - 1, x)
<1>. TAKE x
<1>1. ~Declares(b, k, x)
  BY DEF Declares
<1>2. Declared(b, k, x) = Declared(b, k - 1, x)
  BY <1>1, DeclaredStep
<1>3. ASSUME NEW s \in Int, s <= Level(b, k)
      PROVE  OfScope(b, k, s, x) = IF s > Level(b, k - 1) THEN {} ELSE OfScope(b, k - 1, s, x)
  <2>1. OfScope(b, k, s, x) =
          (IF s > Level(b, k - 1) THEN {} ELSE OfScope(b, k - 1, s, x))
          \cup (IF Declares(b, k, x) /\ Level(b, k) = s THEN {k} ELSE {})
    BY <1>3, OfScopeStep
  <2>. QED BY <1>1, <2>1
<1>4. ASSUME ~IsMark(b[k])
      PROVE  Visible(b, k, x) = Visible(b, k - 1, x)
  <2>1. Level(b, k) = Level(b, k - 1)
    BY <1>4, LevelStep
  <2>2. Visible(b, k, x) = {h \in Visible(b, k - 1, x) : Level(b, h) <= Level(b, k)}
    BY <1>1, VisibleStep
  <2>3. \A h \in Visible(b, k - 1, x) : Level(b, h) <= Level(b, k - 1)
    <3>1. CASE k = 1
      <4>1. Visible(b, k - 1, x) = {}
        BY <3>1 DEF Visible
      <4>. QED BY <4>1
    <3>2. CASE k # 1
      <4>1. k - 1 \in Nat \ {0}
        BY <3>2
      <4>. QED BY <4>1, VisibleStep
    <3>. QED BY <3>1, <3>2
  <2>. QED BY <2>1, <2>2, <2>3
<1>. QED BY <1>2, <1>3, <1>4

LEMMA EntersScope ==
    ASSUME ScopesInv, stage = "scopes", EnterScope, source' = source, stage' = stage
    PROVE  ScopesInv'
<1>1. /\ i <= Len(code) /\ item.op = "open" /\ Rewrite(item)
      /\ scopeMaps' = Append(scopeMaps, <<>>) /\ nameCounters' = nameCounters
  BY DEF EnterScope
<1>. DEFINE level == Level(source, i - 1)
<1>2. /\ i \in Nat \ {0} /\ i \in DOMAIN source /\ item = source[i] /\ item \in Items
      /\ level \in Nat /\ i' - 1 = i
  BY <1>1, AtPlace DEF Rewrite
<1>3. Level(source, i) = level + 1
  BY <1>1, <1>2, LevelStep
<1>4. item = RenamedItem(source, i)
  <2>1. item.names = <<>>
    BY <1>1, <1>2, ItemFields
  <2>2. [j \in DOMAIN source[i].names |-> NewName(source, Means(source, <<i, j>>))] = item.names
    BY <1>2, <2>1
  <2>. QED BY <1>2, <2>2, ItemFields DEF RenamedItem
<1>5. /\ code' = source' /\ i' \in 1 .. Len(source') + 1
      /\ out' \in Seq(Items) /\ Len(out') = i' - 1
      /\ \A k \in 1 .. i' - 1 : out'[k] = RenamedItem(source', k)
  BY <1>1, <1>2, <1>4, Rewritten
<1>6. \A x : Count(x)' = Count(x)
  BY <1>1 DEF Count
<1>7. \A x : /\ Declared(source, i, x) = Declared(source, i - 1, x)
             /\ \A s \in Int : s <= level + 1 =>
                   OfScope(source, i, s, x) =
                     IF s > level THEN {} ELSE OfScope(source, i - 1, s, x)
  BY <1>1, <1>2, <1>3, Undeclared
<1>8. <<>> \in Maps
  <2>1. <<>> \in [{} -> AllNames] /\ {} \in SUBSET AllNames
    OBVIOUS
  <2>. QED BY <2>1 DEF Maps
<1>9. /\ scopeMaps \in Seq(Maps) /\ Len(scopeMaps) = level
      /\ \A s \in 1 .. level : MapIs(scopeMaps[s], s)
  BY <1>2 DEF ScopesInv
<1>10. /\ scopeMaps' \in Seq(Maps) /\ Len(scopeMaps') = level + 1
       /\ \A s \in 1 .. level : scopeMaps'[s] = scopeMaps[s]
       /\ scopeMaps'[level + 1] = <<>>
  BY <1>1, <1>8, <1>9, AppendProperties
<1>11. ASSUME NEW s \in DOMAIN scopeMaps'
       PROVE  MapIs(scopeMaps[s], s)'
  <2>1. s \in 1 .. level + 1 /\ s \in Int /\ s <= level + 1
    BY <1>2, <1>10
  <2>2. CASE s = level + 1
    <3>1. \A x : OfScope(source, i, s, x) = {}
      BY <1>2, <1>7, <2>2
    <3>2. DOMAIN scopeMaps'[s] = {}
      BY <1>10, <2>2
    <3>. QED BY <1>2, <3>1, <3>2 DEF MapIs
  <2>3. CASE s # level + 1
    <3>1. s \in 1 .. level /\ ~(s > level)
      BY <1>2, <2>1, <2>3
    <3>2. \A x : OfScope(source, i, s, x) = OfScope(source, i - 1, s, x)
      BY <1>7, <2>1, <3>1
    <3>. QED BY <1>2, <1>9, <1>10, <3>1, <3>2 DEF MapIs
  <2>. QED BY <2>2, <2>3
<1>. QED BY <1>2, <1>3, <1>5, <1>6, <1>7, <1>10, <1>11 DEF ScopesInv

LEMMA LeavesScope ==
    ASSUME ScopesInv, stage = "scopes", LeaveScope, source' = source, stage' = stage
    PROVE  ScopesInv'
<1>1. /\ i <= Len(code) /\ item.op = "close" /\ Rewrite(item)
      /\ scopeMaps' = Front(scopeMaps) /\ nameCounters' = nameCounters
  BY DEF LeaveScope
<1>. DEFINE level == Level(source, i)
<1>2. /\ i \in Nat \ {0} /\ i \in DOMAIN source /\ item = source[i] /\ item \in Items
      /\ level \in Nat /\ i' - 1 = i
  BY <1>1, AtPlace DEF Rewrite
<1>3. Level(source, i - 1) = level + 1
  BY <1>1, <1>2, LevelStep
<1>4. item = RenamedItem(source, i)
  <2>1. item.names = <<>>
    BY <1>1, <1>2, ItemFields
  <2>2. [j \in DOMAIN source[i].names |-> NewName(source, Means(source, <<i, j>>))] = item.names
    BY <1>2, <2>1
  <2>. QED BY <1>2, <2>2, ItemFields DEF RenamedItem
<1>5. /\ code' = source' /\ i' \in 1 .. Len(source') + 1
      /\ out' \in Seq(Items) /\ Len(out') = i' - 1
      /\ \A k \in 1 .. i' - 1 : out'[k] = RenamedItem(source', k)
  BY <1>1, <1>2, <1>4, Rewritten
<1>6. \A x : Count(x)' = Count(x)
  BY <1>1 DEF Count
<1>7. \A x : /\ Declared(source, i, x) = Declared(source, i - 1, x)
             /\ \A s \in Int : s <= level =>
                   OfScope(source, i, s, x) =
                     IF s > level + 1 THEN {} ELSE OfScope(source, i - 1, s, x)
  BY <1>1, <1>2, <1>3, Undeclared
<1>9. /\ scopeMaps \in Seq(Maps) /\ Len(scopeMaps) = level + 1
      /\ \A s \in 1 .. level + 1 : MapIs(scopeMaps[s], s)
  BY <1>2, <1>3 DEF ScopesInv
<1>10. /\ scopeMaps' \in Seq(Maps) /\ Len(scopeMaps') = level
       /\ \A s \in 1 .. level : scopeMaps'[s] = scopeMaps[s]
  <2>1. Front(scopeMaps) = [s \in 1 .. level |-> scopeMaps[s]]
    BY <1>2, <1>9 DEF Front
  <2>2. \A s \in 1 .. level : scopeMaps[s] \in Maps
    BY <1>2, <1>9
  <2>. QED BY <1>1, <1>2, <2>1, <2>2
<1>11. ASSUME NEW s \in DOMAIN scopeMaps'
       PROVE  MapIs(scopeMaps[s], s)'
  <2>1. s \in 1 .. level /\ s \in Int /\ s <= level /\ ~(s > level + 1) /\ s \in 1 .. level + 1
    BY <1>2, <1>10
  <2>2. \A x : OfScope(source, i, s, x) = OfScope(source, i - 1, s, x)
    BY <1>7, <2>1
  <2>. QED BY <1>2, <1>9, <1>10, <2>1, <2>2 DEF MapIs
<1>. QED BY <1>2, <1>5, <1>6, <1>7, <1>10, <1>11 DEF ScopesInv

LEMMA RenamesDeclared ==
    ASSUME ScopesInv, stage = "scopes", RenameDeclared, source' = source, stage' = stage
    PROVE  ScopesInv'
<1>. DEFINE x     == item.names[1]
            new   == Suffixed(x, Count(x))
            level == Level(source, i - 1)
<1>1. /\ i <= Len(code) /\ item.op = "declare"
      /\ Rewrite([item EXCEPT !.names = <<new>>])
      /\ scopeMaps' = [scopeMaps EXCEPT ![Len(scopeMaps)] = Put(@, x, new)]
      /\ nameCounters' = Put(nameCounters, x, Count(x) + 1)
  BY DEF RenameDeclared, Suffix
<1>2. /\ i \in Nat \ {0} /\ i \in DOMAIN source /\ item = source[i] /\ item \in Items
      /\ level \in Nat /\ i' - 1 = i /\ WellNested(source)
  BY <1>1, AtPlace DEF Rewrite
<1>3. Level(source, i) = level /\ level >= 1
  <2>1. Level(source, i) = level
    BY <1>1, <1>2, LevelStep DEF IsMark
  <2>2. Level(source, i) >= IF source[i].op = "declare" THEN 1 ELSE 0
    BY <1>2 DEF WellNested
  <2>. QED BY <1>1, <1>2, <2>1, <2>2
<1>4. item.names \in Seq(AllNames) /\ Len(item.names) = 1 /\ x \in AllNames
  BY <1>1, <1>2, ItemFields
<1>5. /\ \A y : Declares(source, i, y) <=> y = x
      /\ Declared(source, i - 1, x) \in Nat
      /\ \A y : Declared(source, i, y) = Declared(source, i - 1, y) + IF y = x THEN 1 ELSE 0
  <2>1. \A y : Declares(source, i, y) <=> y = x
    BY <1>1, <1>2 DEF Declares
  <2>. HIDE DEF x
  <2>. QED BY <1>2, <2>1, DeclaredStep
<1>6. new = Suffixed(x, Declared(source, i - 1, x)) /\ new \in AllNames
      /\ Count(x) = Declared(source, i - 1, x)
  <2>1. Count(x) = Declared(source, i - 1, x)
    BY <1>4 DEF ScopesInv
  <2>. QED BY <1>4, <1>5, <2>1, SuffixedIs
<1>7. Binding(source, i, x) = <<i, x>>
  <2>1. /\ Visible(source, i, x) \subseteq 1 .. i
        /\ i \in Visible(source, i, x)
    <3>. HIDE DEF x
    <3>. QED BY <1>2, <1>5, VisibleStep
  <2>2. Latest(Visible(source, i, x)) = i
    <3>1. Visible(source, i, x) \subseteq 0 .. i /\ \A j \in Visible(source, i, x) : j <= i
      BY <1>2, <2>1
    <3>. HIDE DEF x
    <3>. QED BY <1>2, <2>1, <3>1, LatestUnique
  <2>. QED BY <2>1, <2>2 DEF Binding
<1>. DEFINE it == [item EXCEPT !.names = <<new>>]
<1>8. it = RenamedItem(source, i) /\ it \in Items
  <2>1. DOMAIN source[i].names = 1 .. 1
    BY <1>2, <1>4
  <2>2. NewName(source, Means(source, <<i, 1>>)) = new
    BY <1>2, <1>6, <1>7 DEF Means, NameAt, NewName
  <2>3. [j \in DOMAIN source[i].names |-> NewName(source, Means(source, <<i, j>>))] = <<new>>
    BY <2>1, <2>2
  <2>4. it = RenamedItem(source, i)
    BY <1>2, <2>3 DEF RenamedItem
  <2>5. <<new>> \in Seq(AllNames) /\ Len(<<new>>) = 1
    BY <1>6
  <2>6. it \in Items
    <3>. HIDE DEF new
    <3>. QED BY <1>1, <1>2, <2>5 DEF Items
  <2>. QED BY <2>4, <2>6
<1>9. /\ code' = source' /\ i' \in 1 .. Len(source') + 1
      /\ out' \in Seq(Items) /\ Len(out') = i' - 1
      /\ \A k \in 1 .. i' - 1 : out'[k] = RenamedItem(source', k)
  <2>1. Rewrite(it)
    BY <1>1
  <2>. HIDE DEF it
  <2>. QED BY <1>1, <1>8, <2>1, Rewritten
<1>10. \A y \in AllNames : Count(y)' = Declared(source', i' - 1, y)
  <2>. TAKE y \in AllNames
  <2>1. Count(y) = Declared(source, i - 1, y)
    BY DEF ScopesInv
  <2>2. DOMAIN nameCounters' = {x} \cup DOMAIN nameCounters
    BY <1>1 DEF Put
  <2>3. CASE y = x
    <3>1. nameCounters'[x] = Count(x) + 1
      BY <1>1, <2>2 DEF Put
    <3>2. Count(y)' = Count(x) + 1
      BY <2>2, <2>3, <3>1 DEF Count
    <3>. QED BY <1>2, <1>5, <1>6, <2>3, <3>2
  <2>4. CASE y # x
    <3>1. y \in DOMAIN nameCounters => nameCounters'[y] = nameCounters[y]
      BY <1>1, <2>2, <2>4 DEF Put
    <3>2. Count(y)' = Count(y)
      BY <2>2, <2>4, <3>1 DEF Count
    <3>3. Declared(source, i - 1, y) \in Nat
      BY <1>2, DeclaredStep
    <3>. QED BY <1>2, <1>5, <2>1, <2>4, <3>2, <3>3
  <2>. QED BY <2>3, <2>4
<1>11. /\ scopeMaps \in Seq(Maps) /\ Len(scopeMaps) = level
       /\ \A s \in 1 .. level : MapIs(scopeMaps[s], s)
  BY <1>2 DEF ScopesInv
<1>. DEFINE old == scopeMaps[level]
            map == Put(old, x, new)
<1>12. /\ map \in Maps /\ DOMAIN map = {x} \cup DOMAIN old /\ map[x] = new
       /\ \A y \in DOMAIN old : y # x => map[y] = old[y]
  <2>1. old \in Maps
    BY <1>2, <1>3, <1>11
  <2>2. PICK D \in SUBSET AllNames : old \in [D -> AllNames]
    BY <2>1 DEF Maps
  <2>3. map = [y \in {x} \cup D |-> IF y = x THEN new ELSE old[y]]
    BY <2>2 DEF Put
  <2>4. {x} \cup D \in SUBSET AllNames
    BY <1>4
  <2>. HIDE DEF map, old, new, x
  <2>5. map \in [{x} \cup D -> AllNames]
    BY <1>6, <2>2, <2>3
  <2>6. map \in Maps
    BY <2>4, <2>5 DEF Maps
  <2>. QED BY <2>2, <2>3, <2>6
<1>13. /\ scopeMaps' \in Seq(Maps) /\ Len(scopeMaps') = level
       /\ scopeMaps'[level] = map
       /\ \A s \in 1 .. level : s # level => scopeMaps'[s] = scopeMaps[s]
  <2>1. scopeMaps' = [scopeMaps EXCEPT ![level] = map]
    BY <1>1, <1>11
  <2>. HIDE DEF map
  <2>. QED BY <1>2, <1>3, <1>11, <1>12, <2>1
<1>14. ASSUME NEW y, NEW s \in 1 .. level
       PROVE  OfScope(source, i, s, y) =
                OfScope(source, i - 1, s, y) \cup IF y = x /\ s = level THEN {i} ELSE {}
  <2>1. OfScope(source, i, s, y) =
           (IF s > Level(source, i - 1) THEN {} ELSE OfScope(source, i - 1, s, y))
           \cup (IF Declares(source, i, y) /\ Level(source, i) = s THEN {i} ELSE {})
    BY <1>2, <1>3, OfScopeStep
  <2>2. ~(s > level)
    BY <1>2
  <2>. QED BY <1>3, <1>5, <2>1, <2>2
<1>15. ASSUME NEW s \in DOMAIN scopeMaps'
       PROVE  MapIs(scopeMaps[s], s)'
  <2>1. s \in 1 .. level
    BY <1>2, <1>13
  <2>2. CASE s # level
    <3>1. \A y : OfScope(source, i, s, y) = OfScope(source, i - 1, s, y)
      BY <1>14, <2>1, <2>2
    <3>. QED BY <1>2, <1>11, <1>13, <2>1, <2>2, <3>1 DEF MapIs
  <2>3. CASE s = level
    <3>. SUFFICES ASSUME NEW y \in AllNames
                  PROVE  LET D == OfScope(source, i, s, y)
                         IN  /\ y \in DOMAIN map <=> D # {}
                             /\ D # {} => map[y] = NewName(source, <<Latest(D), y>>)
      BY <1>2, <1>13, <2>3 DEF MapIs
    <3>1. LET D == OfScope(source, i - 1, s, y)
          IN  /\ y \in DOMAIN old <=> D # {}
              /\ D # {} => old[y] = NewName(source, <<Latest(D), y>>)
      BY <1>11, <2>1, <2>3 DEF MapIs
    <3>. DEFINE D == OfScope(source, i, s, y)
    <3>2. CASE y # x
      <4>1. D = OfScope(source, i - 1, s, y)
        BY <1>14, <2>1, <3>2
      <4>. HIDE DEF map, old, x
      <4>. QED BY <1>12, <3>1, <3>2, <4>1
    <3>3. CASE y = x
      <4>1. D = OfScope(source, i - 1, s, x) \cup {i}
        BY <1>14, <2>1, <2>3, <3>3
      <4>2. D \subseteq 0 .. i /\ i \in D /\ \A j \in D : j <= i
        BY <1>2, <4>1 DEF OfScope, Visible
      <4>3. Latest(D) = i
        <5>. HIDE DEF D
        <5>. QED BY <1>2, <4>2, LatestUnique
      <4>4. NewName(source, <<i, x>>) = new
        BY <1>2, <1>6 DEF NewName
      <4>. HIDE DEF map, old, x, new
      <4>. QED BY <1>12, <3>3, <4>2, <4>3, <4>4
    <3>. QED BY <3>2, <3>3
  <2>. QED BY <2>2, <2>3
<1>. QED BY <1>2, <1>3, <1>9, <1>10, <1>13, <1>15 DEF ScopesInv

LEMMA RewritesRefs ==
    ASSUME ScopesInv, stage = "scopes", RewriteRefs, source' = source, stage' = stage
    PROVE  ScopesInv'
<1>. DEFINE it == [item EXCEPT !.names = [j \in DOMAIN @ |-> Renamed(@[j])]]
<1>1. /\ i <= Len(code) /\ item.op \notin {"open", "close", "declare"}
      /\ Rewrite(it) /\ scopeMaps' = scopeMaps /\ nameCounters' = nameCounters
  BY DEF RewriteRefs
<1>2. /\ i \in Nat \ {0} /\ i \in DOMAIN source /\ item = source[i] /\ item \in Items
      /\ Level(source, i - 1) \in Nat /\ i' - 1 = i
      /\ DOMAIN scopeMaps = 1 .. Level(source, i - 1)
  BY <1>1, AtPlace DEF Rewrite
<1>3. Level(source, i) = Level(source, i - 1)
  BY <1>1, <1>2, LevelStep DEF IsMark
<1>4. \A x : /\ Declared(source, i, x) = Declared(source, i - 1, x)
             /\ Visible(source, i, x) = Visible(source, i - 1, x)
  BY <1>1, <1>2, Undeclared DEF IsMark
<1>5. \A x : Binding(source, i, x) = Binding(source, i - 1, x)
  BY <1>4 DEF Binding
<1>6. item.names \in Seq(AllNames)
  BY <1>2, ItemFields
<1>7. \A j \in DOMAIN item.names :
          /\ Renamed(item.names[j]) = NewName(source, Means(source, <<i, j>>))
          /\ Renamed(item.names[j]) \in AllNames
  <2>. TAKE j \in DOMAIN item.names
  <2>. DEFINE x == item.names[j]
  <2>1. x \in AllNames
    BY <1>6
  <2>2. Means(source, <<i, j>>) = Binding(source, i, x)
    BY <1>2 DEF Means, NameAt
  <2>. HIDE DEF x
  <2>3. Renamed(x) = NewName(source, Binding(source, i - 1, x))
    BY <2>1, RenamedIs
  <2>4. NewName(source, Binding(source, i, x)) \in AllNames
    BY <1>2, <2>1, BindingTypes
  <2>5. Renamed(x) = NewName(source, Means(source, <<i, j>>)) /\ Renamed(x) \in AllNames
    BY <1>5, <2>2, <2>3, <2>4
  <2>. QED BY <2>5 DEF x
<1>8. it = RenamedItem(source, i) /\ it \in Items
  <2>. DEFINE names == [j \in DOMAIN item.names |-> Renamed(item.names[j])]
  <2>1. it = [item EXCEPT !.names = names]
    OBVIOUS
  <2>2. names = [j \in DOMAIN source[i].names |-> NewName(source, Means(source, <<i, j>>))]
    BY <1>2, <1>7
  <2>3. names \in Seq(AllNames) /\ Len(names) = Len(item.names)
    <3>1. DOMAIN item.names = 1 .. Len(item.names) /\ Len(item.names) \in Nat
      BY <1>6
    <3>2. names \in [1 .. Len(item.names) -> AllNames]
      BY <1>7, <3>1
    <3>. HIDE DEF names
    <3>. QED BY <3>1, <3>2
  <2>. HIDE DEF names, it
  <2>4. it \in Items
    BY <1>1, <1>2, <2>1, <2>3 DEF Items
  <2>. QED BY <1>2, <2>1, <2>2, <2>4 DEF RenamedItem
<1>9. /\ code' = source' /\ i' \in 1 .. Len(source') + 1
      /\ out' \in Seq(Items) /\ Len(out') = i' - 1
      /\ \A k \in 1 .. i' - 1 : out'[k] = RenamedItem(source', k)
  <2>. HIDE DEF it
  <2>. QED BY <1>1, <1>8, Rewritten
<1>10. \A x : Count(x)' = Count(x)
  BY <1>1 DEF Count
<1>11. ASSUME NEW s \in DOMAIN scopeMaps'
       PROVE  MapIs(scopeMaps[s], s)'
  <2>1. s \in 1 .. Level(source, i - 1) /\ MapIs(scopeMaps[s], s)
    BY <1>1, <1>2 DEF ScopesInv
  <2>2. \A x : OfScope(source, i, s, x) = OfScope(source, i - 1, s, x)
    BY <1>4 DEF OfScope
  <2>. QED BY <1>1, <1>2, <2>1, <2>2 DEF MapIs
<1>12. scopeMaps' \in Seq(Maps) /\ Len(scopeMaps') = Level(source, i)
  BY <1>1, <1>3 DEF ScopesInv
<1>. QED BY <1>1, <1>2, <1>4, <1>9, <1>10, <1>11, <1>12 DEF ScopesInv

LEMMA ScopesKept == ScopesInv /\ [Next]_vars => ScopesInv'
<1>. SUFFICES ASSUME ScopesInv, [Next]_vars PROVE ScopesInv'
  OBVIOUS
<1>1. CASE TranslateDecls
  <2>1. stage = "scopes" /\ ScopesNext /\ source' = source /\ stage' = stage
    BY <1>1 DEF TranslateDecls
  <2>. QED BY <2>1, EntersScope, LeavesScope, RenamesDeclared, RewritesRefs DEF ScopesNext
<1>2. CASE FlattenScopes
  BY <1>2 DEF FlattenScopes, ScopesInv
<1>3. CASE FindLoops
  BY <1>3 DEF FindLoops, ScopesInv
<1>4. CASE StartLowering
  BY <1>4 DEF StartLowering, ScopesInv
<1>5. CASE Lower
  BY <1>5 DEF Lower, ScopesInv
<1>6. CASE StartRun
  BY <1>6 DEF StartRun, ScopesInv
<1>7. CASE Run
  <2>1. stage' # "scopes" /\ source' = source
    BY <1>7 DEF Run, RunBranch, RunJump, RunOther, RunCompare, RunStop, CanRun
  <2>. QED BY <2>1 DEF ScopesInv
<1>8. CASE UNCHANGED vars
  BY <1>8 DEF vars, scopeState, ScopesInv, MapIs, Count
<1>. QED BY <1>1, <1>2, <1>3, <1>4, <1>5, <1>6, <1>7, <1>8 DEF Next

(* The names that bindings get are all different.                          *)
LEMMA DeclaredBounds ==
    ASSUME NEW b, NEW k \in Nat, NEW x
    PROVE  Declared(b, k, x) \in 0 .. k
<1>. DEFINE S == {j \in Int : Declares(b, j, x)}
<1>1. IsFiniteSet(1 .. k) /\ Cardinality(1 .. k) = k /\ S \cap 1 .. k \subseteq 1 .. k
  BY FS_Interval
<1>2. IsFiniteSet(S \cap 1 .. k) /\ Cardinality(S \cap 1 .. k) <= k
  <2>. HIDE DEF S
  <2>. QED BY <1>1, FS_Subset
<1>3. Cardinality(S \cap 1 .. k) \in Nat
  BY <1>2, FS_CardinalityType
<1>. QED BY <1>2, <1>3 DEF Declared, UpTo

LEMMA OccurrenceIs ==
    ASSUME NEW s \in Bodies, NEW o \in Occurrences(s)
    PROVE  LET x == NameAt(s, o)
               d == Means(s, o)
           IN  /\ x \in AllNames /\ d[2] = x
               /\ d[1] = 0 => d = <<0, x>> /\ x \in FreeNames(s)
               /\ d[1] # 0 => /\ d = <<d[1], x>> /\ d[1] \in 1 .. Len(s)
                              /\ Declares(s, d[1], x)
<1>1. s \in Seq(Items) /\ DOMAIN s = 1 .. Len(s) /\ Len(s) \in Nat
  BY BodiesAre DEF BodyFacts
<1>2. PICK k \in DOMAIN s : \E j \in DOMAIN s[k].names : o = <<k, j>>
  BY DEF Occurrences
<1>3. PICK j \in DOMAIN s[k].names : o = <<k, j>>
  BY <1>2
<1>. DEFINE x == NameAt(s, o)
            d == Means(s, o)
<1>4. x \in AllNames
  <2>1. s[k].names \in Seq(AllNames)
    BY <1>1, ItemFields
  <2>. QED BY <1>3, <2>1 DEF NameAt
<1>5. d = Binding(s, k, x) /\ k \in Nat /\ k <= Len(s)
  BY <1>1, <1>3 DEF Means
<1>6. /\ d[1] \in 0 .. k /\ d[2] = x
      /\ d[1] = 0 => d = <<0, x>>
      /\ d[1] # 0 => Declares(s, d[1], x)
  <2>. DEFINE c == Binding(s, k, x)
  <2>1. /\ c[1] \in 0 .. k /\ c[2] = x
        /\ c[1] = 0 => c = <<0, x>>
        /\ c[1] # 0 => Declares(s, c[1], x)
    <3>1. k \in Nat
      BY <1>5
    <3>. HIDE DEF x, d
    <3>2. c[1] \in 0 .. k
      BY <3>1, BindingTypes
    <3>3. c[2] = x
      BY <3>1, BindingTypes
    <3>4. c[1] = 0 => c = <<0, x>>
      BY <3>1, BindingTypes
    <3>5. c[1] # 0 => Declares(s, c[1], x)
      <4>1. c[1] # 0 => c[1] \in Visible(s, k, x)
        BY <3>1, BindingTypes
      <4>. QED BY <4>1 DEF Visible
    <3>. QED BY <3>2, <3>3, <3>4, <3>5
  <2>. HIDE DEF x, d, c
  <2>2. d = c
    BY <1>5 DEF c
  <2>. QED BY <2>1, <2>2
<1>7. d = <<d[1], x>>
  <2>. HIDE DEF x, d
  <2>1. \E h : Binding(s, k, x) = <<h, x>>
    BY DEF Binding
  <2>. QED BY <1>5, <2>1
<1>8. d[1] = 0 => x \in FreeNames(s)
  BY DEF FreeNames
<1>. QED BY <1>1, <1>4, <1>5, <1>6, <1>7, <1>8

LEMMA NewNamesDiffer ==
    ASSUME NEW s \in Bodies, NEW o \in Occurrences(s), NEW q \in Occurrences(s),
           NewName(s, Means(s, o)) = NewName(s, Means(s, q))
    PROVE  Means(s, o) = Means(s, q)
<1>. DEFINE d == Means(s, o)
            e == Means(s, q)
<1>1. /\ d[2] \in AllNames
      /\ d[1] = 0 => d = <<0, d[2]>> /\ d[2] \in FreeNames(s)
      /\ d[1] # 0 => d = <<d[1], d[2]>> /\ d[1] \in 1 .. Len(s) /\ Declares(s, d[1], d[2])
  BY OccurrenceIs
<1>2. /\ e[2] \in AllNames
      /\ e[1] = 0 => e = <<0, e[2]>> /\ e[2] \in FreeNames(s)
      /\ e[1] # 0 => e = <<e[1], e[2]>> /\ e[1] \in 1 .. Len(s) /\ Declares(s, e[1], e[2])
  BY OccurrenceIs
<1>3. NewName(s, d) = NewName(s, e)
  OBVIOUS
<1>4. FreeNames(s) \cap Renamings(s) = {} /\ Len(s) \in Nat /\ DOMAIN s = 1 .. Len(s)
  BY BodiesAre DEF BodyFacts
<1>5. ASSUME NEW k \in 1 .. Len(s), NEW x, Declares(s, k, x)
      PROVE  Declared(s, k - 1, x) \in Nat /\ Suffixed(x, Declared(s, k - 1, x)) \in Renamings(s)
  <2>1. k - 1 \in Nat
    BY <1>4
  <2>2. Declared(s, k - 1, x) \in 0 .. k - 1
    BY <2>1, DeclaredBounds
  <2>3. Declared(s, k - 1, x) \in 0 .. Len(s)
    BY <1>4, <2>2
  <2>4. k \in {h \in DOMAIN s : s[h].op = "declare"} /\ x = s[k].names[1]
    BY <1>4, <1>5 DEF Declares
  <2>. QED BY <2>3, <2>4 DEF Renamings
<1>6. ASSUME NEW k \in 1 .. Len(s), NEW h \in 1 .. Len(s), NEW x, h < k, Declares(s, h, x)
      PROVE  Declared(s, h - 1, x) # Declared(s, k - 1, x)
  <2>. DEFINE S == {j \in Int : Declares(s, j, x)}
  <2>1. h \in S \cap Int /\ h - 1 \in Nat /\ k - 1 \in Nat /\ h - 1 < h /\ h <= k - 1
    BY <1>4, <1>6
  <2>. HIDE DEF S
  <2>2. UpTo(S, h - 1) < UpTo(S, k - 1) /\ UpTo(S, h - 1) \in Nat /\ UpTo(S, k - 1) \in Nat
    BY <2>1, CountMonotone
  <2>. QED BY <2>2 DEF Declared, S
<1>. HIDE DEF d, e
<1>. SUFFICES d = e
  BY DEF d, e
<1>7. CASE d[1] = 0 /\ e[1] = 0
  BY <1>1, <1>2, <1>3, <1>7 DEF NewName
<1>8. CASE d[1] = 0 /\ e[1] # 0
  BY <1>1, <1>2, <1>3, <1>4, <1>5, <1>8 DEF NewName
<1>9. CASE d[1] # 0 /\ e[1] = 0
  BY <1>1, <1>2, <1>3, <1>4, <1>5, <1>9 DEF NewName
<1>10. CASE d[1] # 0 /\ e[1] # 0
  <2>1. /\ d[1] \in 1 .. Len(s) /\ e[1] \in 1 .. Len(s)
        /\ Declares(s, d[1], d[2]) /\ Declares(s, e[1], e[2])
    BY <1>1, <1>2, <1>10
  <2>2. Declared(s, d[1] - 1, d[2]) \in Nat /\ Declared(s, e[1] - 1, e[2]) \in Nat
    BY <1>5, <2>1
  <2>3. Suffixed(d[2], Declared(s, d[1] - 1, d[2])) = Suffixed(e[2], Declared(s, e[1] - 1, e[2]))
    BY <1>3, <1>10 DEF NewName
  <2>4. d[2] = e[2] /\ Declared(s, d[1] - 1, d[2]) = Declared(s, e[1] - 1, e[2])
    BY <1>1, <1>2, <2>2, <2>3, SuffixedIs
  <2>5. d[1] = e[1]
    <3>1. ~(d[1] < e[1]) /\ ~(e[1] < d[1])
      BY <1>6, <2>1, <2>4
    <3>. QED BY <1>4, <2>1, <3>1
  <2>. QED BY <1>1, <1>2, <1>10, <2>4, <2>5
<1>. QED BY <1>7, <1>8, <1>9, <1>10

LEMMA ScopesInvSuffices == ScopesInv => ScopesAreRespected
<1>. SUFFICES ASSUME ScopesInv, stage = "scopes", i > Len(code),
                     NEW o \in Occurrences(source), NEW q \in Occurrences(source)
              PROVE  NameAt(out, o) = NameAt(out, q) <=> Means(source, o) = Means(source, q)
  BY DEF ScopesAreRespected
<1>1. /\ source \in Bodies /\ source \in Seq(Items) /\ Len(source) \in Nat
      /\ DOMAIN source = 1 .. Len(source)
  BY BodiesAre DEF ScopesInv, BodyFacts
<1>2. i - 1 = Len(source)
  BY <1>1 DEF ScopesInv
<1>3. \A p \in Occurrences(source) : NameAt(out, p) = NewName(source, Means(source, p))
  <2>. SUFFICES ASSUME NEW k \in DOMAIN source, NEW j \in DOMAIN source[k].names
                PROVE  NameAt(out, <<k, j>>) = NewName(source, Means(source, <<k, j>>))
    BY DEF Occurrences
  <2>1. out[k] = RenamedItem(source, k)
    BY <1>1, <1>2 DEF ScopesInv
  <2>2. out[k].names[j] = NewName(source, Means(source, <<k, j>>))
    <3>1. source[k] \in Items
      BY <1>1
    <3>2. out[k].names = [h \in DOMAIN source[k].names |-> NewName(source, Means(source, <<k, h>>))]
      BY <2>1, <3>1, ItemFields DEF RenamedItem
    <3>. QED BY <3>2
  <2>. QED BY <2>2 DEF NameAt
<1>. QED BY <1>1, <1>3, NewNamesDiffer

(* However the scopes of a body shadow each other, two names of the result *)
(* of translate_variable_decl are the same exactly if they mean the same   *)
(* declaration, parameter or function.                                     *)
THEOREM NamesKeepTheirMeaning == Spec => []ScopesAreRespected
BY ScopesInit, ScopesKept, ScopesInvSuffices, PTL DEF Spec

-----------------------------------------------------------------------------
(* flatten_nested_scopes.                                                  *)

(* f is the instructions of c up to place k, in their order.               *)
IsFlat(f, c, k) ==
    /\ f \in Seq(Items)
    /\ \A n \in DOMAIN f : f[n].of \in 1 .. k /\ f[n] = c[f[n].of] /\ ~IsMark(f[n])
    /\ \A m, n \in DOMAIN f : m < n => f[m].of < f[n].of
    /\ \A h \in 1 .. k : ~IsMark(c[h]) => \E n \in DOMAIN f : f[n].of = h

LEMMA FlatGrows ==
    ASSUME NEW c \in Seq(Items), \A h \in DOMAIN c : c[h].of = h,
           NEW k \in 1 .. Len(c), NEW f, IsFlat(f, c, k - 1)
    PROVE  IsFlat(IF IsMark(c[k]) THEN f ELSE Append(f, c[k]), c, k)
<1>1. k \in DOMAIN c /\ k \in Nat \ {0} /\ c[k] \in Items /\ c[k].of = k
  OBVIOUS
<1>2. 1 .. k = 1 .. k - 1 \cup {k}
  BY <1>1
<1>3. CASE IsMark(c[k])
  BY <1>2, <1>3 DEF IsFlat
<1>4. CASE ~IsMark(c[k])
  <2>. DEFINE g == Append(f, c[k])
  <2>1. f \in Seq(Items) /\ DOMAIN f = 1 .. Len(f) /\ Len(f) \in Nat
    BY DEF IsFlat
  <2>2. /\ g \in Seq(Items) /\ DOMAIN g = 1 .. Len(f) + 1 /\ g[Len(f) + 1] = c[k]
        /\ \A n \in DOMAIN f : g[n] = f[n]
    BY <1>1, <2>1, AppendProperties
  <2>. HIDE DEF g
  <2>3. \A n \in DOMAIN g : n = Len(f) + 1 \/ n \in DOMAIN f
    BY <2>1, <2>2
  <2>4. ASSUME NEW n \in DOMAIN g
        PROVE  g[n].of \in 1 .. k /\ g[n] = c[g[n].of] /\ ~IsMark(g[n])
    BY <1>1, <1>2, <1>4, <2>2, <2>3 DEF IsFlat
  <2>5. ASSUME NEW m \in DOMAIN g, NEW n \in DOMAIN g, m < n
        PROVE  g[m].of < g[n].of
    <3>1. m \in DOMAIN f
      BY <2>1, <2>2, <2>5
    <3>2. CASE n \in DOMAIN f
      BY <2>2, <2>5, <3>1, <3>2 DEF IsFlat
    <3>3. CASE n = Len(f) + 1
      <4>1. f[m].of \in 1 .. k - 1
        BY <3>1 DEF IsFlat
      <4>. QED BY <1>1, <2>2, <3>1, <3>3, <4>1
    <3>. QED BY <2>3, <3>2, <3>3
  <2>6. ASSUME NEW h \in 1 .. k, ~IsMark(c[h])
        PROVE  \E n \in DOMAIN g : g[n].of = h
    <3>1. CASE h = k
      <4>1. Len(f) + 1 \in DOMAIN g /\ g[Len(f) + 1].of = h
        BY <1>1, <2>1, <2>2, <3>1
      <4>. QED BY <4>1
    <3>2. CASE h # k
      <4>1. PICK n \in DOMAIN f : f[n].of = h
        BY <1>2, <2>6, <3>2 DEF IsFlat
      <4>2. n \in DOMAIN g /\ g[n].of = h
        BY <2>1, <2>2, <4>1
      <4>. QED BY <4>2
    <3>. QED BY <3>1, <3>2
  <2>7. IsFlat(g, c, k)
    BY <2>2, <2>4, <2>5, <2>6 DEF IsFlat
  <2>. QED BY <1>4, <2>7 DEF g
<1>. QED BY <1>3, <1>4

LEMMA FlatIs ==
    ASSUME NEW c \in Seq(Items), \A h \in DOMAIN c : c[h].of = h
    PROVE  IsFlat(Flat(c), c, Len(c))
<1>. DEFINE N == Len(c)
            step(g, k) == IF k = 0 THEN <<>>
                          ELSE IF IsMark(c[k]) THEN g[k - 1]
                          ELSE Append(g[k - 1], c[k])
            upTo(g, n) == /\ g = [k \in 0 .. n |-> g[k]]
                          /\ \A k \in 0 .. n : g[k] = step(g, k)
            bad == {n \in 0 .. N : ~\E g : upTo(g, n)}
<1>0. N \in Nat
  OBVIOUS
(* There is a function as the definition says.                             *)
<1>1. bad = {}
  <2>. SUFFICES ASSUME bad # {} PROVE FALSE
    OBVIOUS
  <2>1. bad \subseteq Nat
    BY <1>0
  <2>2. PICK n \in bad : \A m \in bad : n <= m
    <3>. HIDE DEF bad
    <3>. QED BY <2>1, HasLeast
  <2>3. n \in 0 .. N /\ n \in Nat
    BY <1>0
  <2>4. CASE n = 0
    <3>. DEFINE g == [k \in 0 .. 0 |-> <<>>]
    <3>1. upTo(g, 0)
      OBVIOUS
    <3>. QED BY <2>4, <3>1
  <2>5. CASE n # 0
    <3>1. n - 1 \in 0 .. N /\ n - 1 \notin bad
      BY <2>1, <2>2, <2>3, <2>5
    <3>2. PICK f : upTo(f, n - 1)
      BY <3>1
    <3>. DEFINE g == [k \in 0 .. n |-> IF k = n THEN step(f, n) ELSE f[k]]
    <3>3. \A k \in 0 .. n - 1 : g[k] = f[k] /\ k \in 0 .. n
      BY <2>3
    <3>4. ASSUME NEW k \in 0 .. n
          PROVE  g[k] = step(g, k)
      <4>1. CASE k = n
        BY <2>3, <2>5, <3>3, <4>1
      <4>2. CASE k # n
        <5>1. k \in 0 .. n - 1 /\ (k # 0 => k - 1 \in 0 .. n - 1)
          BY <2>3, <4>2
        <5>. QED BY <3>2, <3>3, <5>1
      <4>. QED BY <4>1, <4>2
    <3>5. upTo(g, n)
      BY <3>4
    <3>6. \E h : upTo(h, n)
      <4>. HIDE DEF upTo, g
      <4>. QED BY <3>5
    <3>. QED BY <3>6
  <2>. QED BY <2>4, <2>5
<1>2. \E f : f = [k \in 0 .. N |-> step(f, k)]
  <2>1. PICK g : upTo(g, N)
    BY <1>0, <1>1
  <2>2. g = [k \in 0 .. N |-> step(g, k)]
    BY <2>1
  <2>. QED BY <2>2
<1>. DEFINE flattened == CHOOSE f : f = [k \in 0 .. N |-> step(f, k)]
<1>3. flattened = [k \in 0 .. N |-> step(flattened, k)]
  BY <1>2
<1>4. Flat(c) = flattened[N]
  BY DEF Flat
<1>. HIDE DEF flattened
<1>5. \A n \in 0 .. N : IsFlat(flattened[n], c, n)
  <2>. DEFINE wrong == {n \in 0 .. N : ~IsFlat(flattened[n], c, n)}
  <2>. SUFFICES ASSUME wrong # {} PROVE FALSE
    OBVIOUS
  <2>1. wrong \subseteq Nat
    BY <1>0
  <2>2. PICK n \in wrong : \A m \in wrong : n <= m
    <3>. HIDE DEF wrong
    <3>. QED BY <2>1, HasLeast
  <2>3. n \in 0 .. N /\ n \in Nat
    BY <1>0
  <2>4. CASE n = 0
    <3>1. flattened[n] = <<>>
      BY <1>0, <1>3, <2>3, <2>4
    <3>2. IsFlat(<<>>, c, 0)
      BY DEF IsFlat
    <3>. QED BY <2>4, <3>1, <3>2
  <2>5. CASE n # 0
    <3>1. n - 1 \in 0 .. N /\ n - 1 \notin wrong /\ n \in 1 .. Len(c)
      BY <2>1, <2>2, <2>3, <2>5
    <3>2. IsFlat(flattened[n - 1], c, n - 1)
      BY <3>1
    <3>3. flattened[n] =
            IF IsMark(c[n]) THEN flattened[n - 1] ELSE Append(flattened[n - 1], c[n])
      BY <1>3, <2>3, <2>5
    <3>4. IsFlat(IF IsMark(c[n]) THEN flattened[n - 1] ELSE Append(flattened[n - 1], c[n]), c, n)
      BY <3>1, <3>2, FlatGrows
    <3>. QED BY <3>3, <3>4
  <2>. QED BY <2>4, <2>5
<1>. QED BY <1>0, <1>4, <1>5

-----------------------------------------------------------------------------
(* The body without its scopes.                                            *)

(* f is the instructions of the source, up to their names.                 *)
Flattened(f) ==
    /\ source \in Bodies /\ f \in Seq(Items)
    /\ \A n \in DOMAIN f : /\ f[n].of \in DOMAIN source /\ ~IsMark(source[f[n].of])
                           /\ f[n].op = source[f[n].of].op /\ f[n].to = source[f[n].of].to
    /\ \A m, n \in DOMAIN f : m < n => f[m].of < f[n].of
    /\ \A h \in DOMAIN source : ~IsMark(source[h]) => \E n \in DOMAIN f : f[n].of = h

(* The place in the source of instruction n, or its end.                   *)
PlaceOf(f, n) == IF n \in DOMAIN f THEN f[n].of ELSE Len(source) + 1

LEMMA SourceIs ==
    ASSUME source \in Bodies
    PROVE  /\ source \in Seq(Items) /\ Len(source) \in Nat /\ DOMAIN source = 1 .. Len(source)
           /\ \A k \in DOMAIN source : source[k] \in Items /\ source[k].of = k
BY BodiesAre DEF BodyFacts

LEMMA FlattenedIs ==
    ASSUME ScopesInv, stage = "scopes", i > Len(code)
    PROVE  Flattened(Flat(out))
<1>1. /\ source \in Bodies /\ source \in Seq(Items) /\ Len(source) \in Nat
      /\ DOMAIN source = 1 .. Len(source)
      /\ \A k \in DOMAIN source : source[k] \in Items /\ source[k].of = k
  BY SourceIs DEF ScopesInv
<1>2. i - 1 = Len(source)
  BY <1>1 DEF ScopesInv
<1>3. /\ out \in Seq(Items) /\ Len(out) = Len(source) /\ DOMAIN out = DOMAIN source
      /\ \A k \in DOMAIN source : out[k] = RenamedItem(source, k)
  BY <1>1, <1>2 DEF ScopesInv
<1>4. \A k \in DOMAIN source : /\ out[k].of = k /\ out[k].op = source[k].op
                               /\ out[k].to = source[k].to
  <2>. TAKE k \in DOMAIN source
  <2>1. source[k] \in Items /\ source[k].of = k /\ out[k] = RenamedItem(source, k)
    BY <1>1, <1>3
  <2>. QED BY <2>1, ItemFields DEF RenamedItem
<1>5. IsFlat(Flat(out), out, Len(source))
  BY <1>3, <1>4, FlatIs
<1>. DEFINE f == Flat(out)
<1>. HIDE DEF f
<1>6. /\ f \in Seq(Items)
      /\ \A n \in DOMAIN f : f[n].of \in 1 .. Len(source) /\ f[n] = out[f[n].of] /\ ~IsMark(f[n])
      /\ \A m, n \in DOMAIN f : m < n => f[m].of < f[n].of
      /\ \A h \in 1 .. Len(source) : ~IsMark(out[h]) => \E n \in DOMAIN f : f[n].of = h
  BY <1>5 DEF IsFlat, f
<1>7. \A h \in DOMAIN source : IsMark(out[h]) <=> IsMark(source[h])
  BY <1>4 DEF IsMark
<1>8. ASSUME NEW n \in DOMAIN f
      PROVE  /\ f[n].of \in DOMAIN source /\ ~IsMark(source[f[n].of])
             /\ f[n].op = source[f[n].of].op /\ f[n].to = source[f[n].of].to
  BY <1>1, <1>4, <1>6, <1>7
<1>9. Flattened(f)
  BY <1>1, <1>6, <1>7, <1>8 DEF Flattened
<1>. QED BY <1>9 DEF f

(* The order of the instructions is the one of their places.               *)
LEMMA PlacesOrdered ==
    ASSUME NEW f, Flattened(f), NEW n \in DOMAIN f
    PROVE  /\ DOMAIN f = 1 .. Len(f) /\ Len(f) \in Nat /\ n \in Nat \ {0}
           /\ f[n] \in Items
           /\ f[n].of \in 1 .. Len(source) /\ PlaceOf(f, n) = f[n].of
           /\ PlaceOf(f, n + 1) \in f[n].of + 1 .. Len(source) + 1
           /\ \A h \in f[n].of + 1 .. PlaceOf(f, n + 1) - 1 : IsMark(source[h])
           /\ PlaceOf(f, n + 1) \in DOMAIN source => ~IsMark(source[PlaceOf(f, n + 1)])
           /\ \A m \in DOMAIN f : f[m].of = f[n].of => m = n
<1>1. /\ source \in Seq(Items) /\ Len(source) \in Nat /\ DOMAIN source = 1 .. Len(source)
  BY SourceIs DEF Flattened
<1>2. f \in Seq(Items) /\ DOMAIN f = 1 .. Len(f) /\ Len(f) \in Nat /\ n \in Nat \ {0}
      /\ f[n] \in Items
  BY DEF Flattened
<1>3. f[n].of \in 1 .. Len(source) /\ PlaceOf(f, n) = f[n].of
  BY <1>1 DEF Flattened, PlaceOf
<1>. DEFINE next == PlaceOf(f, n + 1)
<1>4. \A m \in DOMAIN f : f[m].of \in 1 .. Len(source) /\ m \in Nat
  BY <1>1, <1>2 DEF Flattened
<1>5. /\ next \in f[n].of + 1 .. Len(source) + 1
      /\ next \in DOMAIN source => ~IsMark(source[next])
  <2>1. CASE n + 1 \in DOMAIN f
    <3>1. f[n].of < f[n + 1].of
      BY <1>2, <2>1 DEF Flattened
    <3>2. f[n + 1].of \in 1 .. Len(source) /\ ~IsMark(source[f[n + 1].of])
      BY <1>4, <2>1 DEF Flattened
    <3>. QED BY <1>1, <1>3, <2>1, <3>1, <3>2 DEF PlaceOf
  <2>2. CASE n + 1 \notin DOMAIN f
    BY <1>1, <1>3, <2>2 DEF PlaceOf
  <2>. QED BY <2>1, <2>2
<1>6. ASSUME NEW h \in f[n].of + 1 .. next - 1
      PROVE  IsMark(source[h])
  <2>. SUFFICES ASSUME ~IsMark(source[h]) PROVE FALSE
    OBVIOUS
  <2>1. h \in DOMAIN source /\ h \in Int /\ f[n].of < h /\ h < next
    BY <1>1, <1>3, <1>5
  <2>2. PICK m \in DOMAIN f : f[m].of = h
    BY <2>1 DEF Flattened
  <2>3. n < m
    <3>1. ~(m < n) /\ m # n
      <4>1. m < n => f[m].of < f[n].of
        BY DEF Flattened
      <4>. QED BY <1>3, <2>1, <2>2, <4>1
    <3>. QED BY <1>2, <1>4, <3>1
  <2>4. n + 1 \in DOMAIN f /\ m \in Nat
    BY <1>2, <1>4, <2>3
  <2>5. m = n + 1 \/ f[n + 1].of < f[m].of
    <3>1. m = n + 1 \/ n + 1 < m
      BY <1>2, <2>3, <2>4
    <3>. QED BY <2>4, <3>1 DEF Flattened
  <2>6. next = f[n + 1].of
    BY <2>4 DEF PlaceOf
  <2>. QED BY <1>4, <2>1, <2>2, <2>4, <2>5, <2>6
<1>7. ASSUME NEW m \in DOMAIN f, f[m].of = f[n].of
      PROVE  m = n
  <2>1. ~(m < n) /\ ~(n < m)
    BY <1>3, <1>7 DEF Flattened
  <2>. QED BY <1>2, <1>4, <2>1
<1>. QED BY <1>2, <1>3, <1>5, <1>6, <1>7

LEMMA FirstPlace ==
    ASSUME NEW f, Flattened(f)
    PROVE  /\ PlaceOf(f, 1) \in 1 .. Len(source) + 1
           /\ \A h \in 1 .. PlaceOf(f, 1) - 1 : IsMark(source[h])
           /\ PlaceOf(f, 1) \in DOMAIN source => ~IsMark(source[PlaceOf(f, 1)])
<1>1. /\ source \in Seq(Items) /\ Len(source) \in Nat /\ DOMAIN source = 1 .. Len(source)
  BY SourceIs DEF Flattened
<1>2. f \in Seq(Items) /\ DOMAIN f = 1 .. Len(f) /\ Len(f) \in Nat
  BY DEF Flattened
<1>3. /\ PlaceOf(f, 1) \in 1 .. Len(source) + 1
      /\ PlaceOf(f, 1) \in DOMAIN source => ~IsMark(source[PlaceOf(f, 1)])
  BY <1>1 DEF Flattened, PlaceOf
<1>4. ASSUME NEW h \in 1 .. PlaceOf(f, 1) - 1
      PROVE  IsMark(source[h])
  <2>. SUFFICES ASSUME ~IsMark(source[h]) PROVE FALSE
    OBVIOUS
  <2>1. h \in DOMAIN source /\ h \in Int /\ h < PlaceOf(f, 1)
    BY <1>1, <1>3
  <2>2. PICK m \in DOMAIN f : f[m].of = h
    BY <2>1 DEF Flattened
  <2>3. m = 1 \/ (1 \in DOMAIN f /\ f[1].of < f[m].of)
    <3>1. 1 \in DOMAIN f /\ (m = 1 \/ 1 < m)
      BY <1>2
    <3>. QED BY <3>1 DEF Flattened
  <2>4. f[1].of = PlaceOf(f, 1) /\ f[1].of \in 1 .. Len(source)
    BY <1>1, <1>2, <2>3 DEF PlaceOf, Flattened
  <2>. QED BY <2>1, <2>2, <2>3, <2>4
<1>. QED BY <1>3, <1>4

(* Where the run of the source goes on.                                    *)
LEMMA InstructionIs ==
    ASSUME source \in Bodies, NEW k \in 1 .. Len(source) + 1, NEW j \in k .. Len(source) + 1,
           j \in DOMAIN source => ~IsMark(source[j]),
           \A h \in k .. j - 1 : IsMark(source[h])
    PROVE  Instruction(k) = j
<1>1. Len(source) \in Nat /\ DOMAIN source = 1 .. Len(source)
  BY SourceIs
<1>. DEFINE good(m) == /\ m \in DOMAIN source => ~IsMark(source[m])
                       /\ \A h \in k .. m - 1 : IsMark(source[h])
<1>2. ASSUME NEW m \in k .. Len(source) + 1, good(m)
      PROVE  m = j
  <2>1. CASE m < j
    <3>1. m \in k .. j - 1 /\ m \in DOMAIN source
      BY <1>1, <2>1
    <3>. QED BY <1>2, <3>1
  <2>2. CASE j < m
    <3>1. j \in k .. m - 1 /\ j \in DOMAIN source
      BY <1>1, <2>2
    <3>. QED BY <1>2, <3>1
  <2>. QED BY <1>1, <2>1, <2>2
<1>3. Instruction(k) = CHOOSE m \in k .. Len(source) + 1 : good(m)
  BY DEF Instruction
<1>4. good(j)
  OBVIOUS
<1>. HIDE DEF good
<1>. QED BY <1>2, <1>3, <1>4

LEMMA InstructionNext ==
    ASSUME NEW f, Flattened(f), NEW n \in DOMAIN f
    PROVE  /\ Instruction(f[n].of) = f[n].of
           /\ Instruction(f[n].of + 1) = PlaceOf(f, n + 1)
<1>1. Len(source) \in Nat /\ DOMAIN source = 1 .. Len(source) /\ source \in Bodies
  BY SourceIs DEF Flattened
<1>2. /\ f[n].of \in 1 .. Len(source)
      /\ PlaceOf(f, n + 1) \in f[n].of + 1 .. Len(source) + 1
      /\ \A h \in f[n].of + 1 .. PlaceOf(f, n + 1) - 1 : IsMark(source[h])
      /\ PlaceOf(f, n + 1) \in DOMAIN source => ~IsMark(source[PlaceOf(f, n + 1)])
  BY PlacesOrdered
<1>3. ~IsMark(source[f[n].of])
  BY DEF Flattened
<1>4. Instruction(f[n].of) = f[n].of
  <2>1. f[n].of \in f[n].of .. Len(source) + 1 /\ f[n].of \in 1 .. Len(source) + 1
    BY <1>1, <1>2
  <2>2. \A h \in f[n].of .. f[n].of - 1 : FALSE
    BY <1>2
  <2>. QED BY <1>1, <1>3, <2>1, <2>2, InstructionIs
<1>5. f[n].of + 1 \in 1 .. Len(source) + 1
  BY <1>1, <1>2
<1>6. Instruction(f[n].of + 1) = PlaceOf(f, n + 1)
  BY <1>1, <1>2, <1>5, InstructionIs
<1>. QED BY <1>4, <1>6

-----------------------------------------------------------------------------
(* The loops around a place.                                               *)

LEMMA LabelsUnique ==
    ASSUME source \in Bodies, NEW l, NEW j \in Places(source, l), NEW k \in Places(source, l)
    PROVE  j = k
<1>1. /\ j \in DOMAIN source /\ k \in DOMAIN source
      /\ source[j].op = "label" /\ source[j].to[1] = l
      /\ source[k].op = "label" /\ source[k].to[1] = l
  BY DEF Places
<1>2. source[j] \in Items /\ source[k] \in Items
  BY <1>1, SourceIs
<1>3. /\ source[j].to \in Seq(AllNames) /\ Len(source[j].to) = 1
      /\ source[k].to \in Seq(AllNames) /\ Len(source[k].to) = 1
  BY <1>1, <1>2 DEF Items
<1>4. source[j].to = source[k].to
  BY <1>1, <1>3
<1>. QED BY <1>1, <1>4, BodiesAre DEF BodyFacts

LEMMA WhilesUnique ==
    ASSUME source \in Bodies, NEW j \in DOMAIN source, NEW k \in DOMAIN source,
           source[j].op = "while", source[k].op = "while",
           NEW m \in 1 .. 2, NEW n \in 1 .. 2, source[j].to[m] = source[k].to[n]
    PROVE  j = k /\ m = n
BY BodiesAre DEF BodyFacts

IsWhile(w) == w \in DOMAIN source /\ source[w].op = "while"
Begins(w) == Places(source, source[w].to[1])
Ends(w)   == Places(source, source[w].to[2])

Earlier(w, v) == \A b \in Begins(w), c \in Begins(v) : b < c

LEMMA AroundIs ==
    ASSUME NEW k, NEW w
    PROVE  w \in LoopsAround(k) <=>
             /\ IsWhile(w)
             /\ \E b \in Begins(w) : b < k /\ \A e \in Ends(w) : ~(b < e /\ e < k)
BY DEF LoopsAround, IsWhile, Begins, Ends

(* A label opens the loop it begins and closes the loop it ends.           *)
LEMMA AroundNext ==
    ASSUME NEW f, Flattened(f), NEW n \in DOMAIN f, NEW w
    PROVE  w \in LoopsAround(PlaceOf(f, n + 1)) <=>
             /\ IsWhile(w)
             /\ \/ w \in LoopsAround(f[n].of) /\ f[n].of \notin Ends(w)
                \/ f[n].of \in Begins(w)
<1>. DEFINE k    == f[n].of
            next == PlaceOf(f, n + 1)
<1>1. /\ source \in Bodies /\ Len(source) \in Nat /\ DOMAIN source = 1 .. Len(source)
  BY SourceIs DEF Flattened
<1>2. /\ k \in 1 .. Len(source) /\ next \in k + 1 .. Len(source) + 1
      /\ \A h \in k + 1 .. next - 1 : IsMark(source[h])
  BY PlacesOrdered
<1>. HIDE DEF k, next
<1>3. \A l : \A p \in Places(source, l) : p \in Int /\ (p < next <=> p < k \/ p = k)
  <2>. SUFFICES ASSUME NEW l, NEW p \in Places(source, l)
                PROVE  p \in Int /\ (p < next <=> p < k \/ p = k)
    OBVIOUS
  <2>1. p \in 1 .. Len(source) /\ ~IsMark(source[p])
    BY <1>1 DEF Places, IsMark
  <2>2. p \notin k + 1 .. next - 1
    BY <1>2, <2>1
  <2>. QED BY <1>1, <1>2, <2>1, <2>2
<1>4. /\ \A b \in Begins(w) : b \in Int /\ (b < next <=> b < k \/ b = k)
      /\ \A e \in Ends(w) : e \in Int /\ (e < next <=> e < k \/ e = k)
      /\ k \in Int /\ next \in Int
  BY <1>1, <1>2, <1>3 DEF Begins, Ends
<1>5. /\ \A b, c \in Begins(w) : b = c
      /\ \A b, c \in Ends(w) : b = c
  BY <1>1, LabelsUnique DEF Begins, Ends
<1>6. w \in LoopsAround(next) <=>
        /\ IsWhile(w)
        /\ \E b \in Begins(w) : b < next /\ \A e \in Ends(w) : ~(b < e /\ e < next)
  BY AroundIs
<1>7. w \in LoopsAround(k) <=>
        /\ IsWhile(w)
        /\ \E b \in Begins(w) : b < k /\ \A e \in Ends(w) : ~(b < e /\ e < k)
  BY AroundIs
<1>8. IsWhile(w) => ~(k \in Begins(w) /\ k \in Ends(w))
  <2>. SUFFICES ASSUME IsWhile(w), k \in Begins(w), k \in Ends(w) PROVE FALSE
    OBVIOUS
  <2>1. source[w].to[1] = source[w].to[2] /\ w \in DOMAIN source /\ source[w].op = "while"
    BY DEF Begins, Ends, Places, IsWhile
  <2>2. 1 \in 1 .. 2 /\ 2 \in 1 .. 2 /\ 1 # 2
    OBVIOUS
  <2>. QED BY <1>1, <2>1, <2>2, WhilesUnique
<1>9. ASSUME w \in LoopsAround(next)
      PROVE  IsWhile(w) /\ ((w \in LoopsAround(k) /\ k \notin Ends(w)) \/ k \in Begins(w))
  <2>1. PICK b \in Begins(w) : b < next /\ \A e \in Ends(w) : ~(b < e /\ e < next)
    BY <1>6, <1>9
  <2>2. CASE b = k
    BY <1>6, <1>9, <2>2
  <2>3. CASE b # k
    <3>1. b < k
      BY <1>4, <2>1, <2>3
    <3>2. \A e \in Ends(w) : ~(b < e /\ e < k) /\ e # k
      BY <1>4, <2>1, <3>1
    <3>. QED BY <1>6, <1>7, <1>9, <3>1, <3>2
  <2>. QED BY <2>2, <2>3
<1>10. ASSUME w \in LoopsAround(k), k \notin Ends(w)
       PROVE  w \in LoopsAround(next)
  <2>1. PICK b \in Begins(w) : b < k /\ \A e \in Ends(w) : ~(b < e /\ e < k)
    BY <1>7, <1>10
  <2>2. b < next /\ \A e \in Ends(w) : ~(b < e /\ e < next)
    BY <1>4, <1>10, <2>1
  <2>. QED BY <1>6, <1>7, <1>10, <2>2
<1>11. ASSUME IsWhile(w), k \in Begins(w)
       PROVE  w \in LoopsAround(next)
  <2>1. k < next /\ \A e \in Ends(w) : ~(k < e /\ e < next)
    BY <1>2, <1>4, <1>11
  <2>. QED BY <1>6, <1>11, <2>1
<1>12. w \in LoopsAround(next) <=>
         IsWhile(w) /\ ((w \in LoopsAround(k) /\ k \notin Ends(w)) \/ k \in Begins(w))
  BY <1>9, <1>10, <1>11
<1>. QED BY <1>12 DEF k, next

(* The loop that began last is the innermost one.                          *)
LEMMA LoopAroundIs ==
    ASSUME source \in Bodies, NEW k \in Int, NEW w \in LoopsAround(k),
           \A v \in LoopsAround(k) : v = w \/ Earlier(v, w)
    PROVE  LoopAround(k) = w
<1>. DEFINE inner(u) == \A v \in LoopsAround(k) :
                           \E b \in Begins(u) : \A c \in Begins(v) : c <= b \/ c > k
<1>0. DOMAIN source = 1 .. Len(source) /\ Len(source) \in Nat
  BY SourceIs
<1>1. \A u : \A b, c \in Begins(u) : b = c /\ b \in Int
  BY <1>0, LabelsUnique DEF Begins, Places
<1>2. \A u \in LoopsAround(k) : IsWhile(u) /\ \E b \in Begins(u) : b < k
  BY AroundIs
<1>3. inner(w)
  <2>. TAKE v \in LoopsAround(k)
  <2>1. PICK b \in Begins(w) : b < k
    BY <1>2
  <2>2. \A c \in Begins(v) : c <= b
    BY <1>1 DEF Earlier
  <2>. QED BY <2>2
<1>4. ASSUME NEW u \in LoopsAround(k), inner(u)
      PROVE  u = w
  <2>1. PICK b \in Begins(u) : \A c \in Begins(w) : c <= b \/ c > k
    BY <1>4
  <2>2. PICK c \in Begins(w) : c < k
    BY <1>2
  <2>3. c <= b /\ b \in Int /\ c \in Int
    BY <1>1, <2>1, <2>2
  <2>4. ~Earlier(u, w)
    BY <2>3 DEF Earlier
  <2>. QED BY <2>4
<1>5. LoopAround(k) = CHOOSE u \in LoopsAround(k) : inner(u)
  BY DEF LoopAround, Begins
<1>. HIDE DEF inner
<1>. QED BY <1>3, <1>4, <1>5

(* The first loop of translate_if_while: the stack holds the loops around  *)
(* the next place, in the order they began.                                *)
StackIs(f, stack, k) ==
    /\ stack \in Seq(DOMAIN f)
    /\ \A s \in DOMAIN stack : f[stack[s]].op = "while" /\ f[stack[s]].of \in LoopsAround(k)
    /\ \A w \in LoopsAround(k) : \E s \in DOMAIN stack : f[stack[s]].of = w
    /\ \A r, s \in DOMAIN stack : r < s => Earlier(f[stack[r]].of, f[stack[s]].of)

(* What it has found for the first n instructions.                         *)
LoopsFound(f, loops, n) ==
    /\ DOMAIN loops \subseteq 1 .. n
    /\ \A p \in 1 .. n :
          /\ p \in DOMAIN loops <=> LoopsAround(f[p].of) # {}
          /\ p \in DOMAIN loops =>
                /\ loops[p] \in DOMAIN f /\ f[loops[p]].op = "while"
                /\ f[loops[p]].of = LoopAround(f[p].of)

LoopsInv ==
    stage = "loops" =>
        /\ Flattened(code) /\ i \in 1 .. Len(code) + 1 /\ out = <<>>
        /\ StackIs(code, loopStack, PlaceOf(code, i))
        /\ LoopsFound(code, loopOf, i - 1)

(* A while of the source is one of the code, and only one.                 *)
LEMMA WhileIn ==
    ASSUME NEW f, Flattened(f)
    PROVE  /\ \A n \in DOMAIN f : f[n].op = "while" =>
                 /\ IsWhile(f[n].of) /\ source[f[n].of].to = f[n].to
           /\ \A w : IsWhile(w) => \E n \in DOMAIN f : f[n].of = w /\ f[n].op = "while"
<1>1. \A n \in DOMAIN f : f[n].op = "while" => IsWhile(f[n].of) /\ source[f[n].of].to = f[n].to
  BY DEF Flattened, IsWhile
<1>2. ASSUME NEW w, IsWhile(w)
      PROVE  \E n \in DOMAIN f : f[n].of = w /\ f[n].op = "while"
  <2>1. PICK n \in DOMAIN f : f[n].of = w
    BY <1>2 DEF Flattened, IsWhile, IsMark
  <2>2. f[n].op = "while"
    BY <1>2, <2>1 DEF Flattened, IsWhile
  <2>. QED BY <2>1, <2>2
<1>. QED BY <1>1, <1>2

(* A label in the code is one of the source.                               *)
LEMMA LabelAt ==
    ASSUME NEW f, Flattened(f), NEW n \in DOMAIN f, NEW l
    PROVE  f[n].of \in Places(source, l) <=> f[n].op = "label" /\ f[n].to[1] = l
BY DEF Flattened, Places

LEMMA NothingAround ==
    ASSUME NEW f, Flattened(f)
    PROVE  LoopsAround(PlaceOf(f, 1)) = {}
<1>. SUFFICES ASSUME NEW w \in LoopsAround(PlaceOf(f, 1)) PROVE FALSE
  OBVIOUS
<1>1. PICK b \in Begins(w) : b < PlaceOf(f, 1)
  BY AroundIs
<1>2. Len(source) \in Nat /\ DOMAIN source = 1 .. Len(source)
  BY SourceIs DEF Flattened
<1>3. b \in 1 .. Len(source) /\ ~IsMark(source[b])
  BY <1>2 DEF Begins, Places, IsMark
<1>4. PlaceOf(f, 1) \in 1 .. Len(source) + 1 /\ \A h \in 1 .. PlaceOf(f, 1) - 1 : IsMark(source[h])
  BY FirstPlace
<1>5. b \in 1 .. PlaceOf(f, 1) - 1
  BY <1>1, <1>2, <1>3, <1>4
<1>. QED BY <1>3, <1>4, <1>5

LEMMA RemoveAtIs ==
    ASSUME NEW S, NEW s \in Seq(S), NEW m \in DOMAIN s
    PROVE  /\ RemoveAt(s, m) \in Seq(S) /\ Len(RemoveAt(s, m)) = Len(s) - 1
           /\ \A k \in 1 .. Len(s) - 1 :
                 RemoveAt(s, m)[k] = s[IF k < m THEN k ELSE k + 1]
<1>1. Len(s) \in Nat /\ m \in 1 .. Len(s) /\ \A k \in 1 .. Len(s) : s[k] \in S
  OBVIOUS
<1>. DEFINE a == SubSeq(s, 1, m - 1)
            b == SubSeq(s, m + 1, Len(s))
<1>2. a \in Seq(S) /\ Len(a) = m - 1 /\ \A k \in 1 .. m - 1 : a[k] = s[k]
  BY <1>1
<1>3. b \in Seq(S) /\ Len(b) = Len(s) - m /\ \A k \in 1 .. Len(s) - m : b[k] = s[m + k]
  BY <1>1
<1>4. RemoveAt(s, m) = a \o b
  BY DEF RemoveAt
<1>. HIDE DEF a, b
<1>5. a \o b \in Seq(S) /\ Len(a \o b) = Len(s) - 1
  BY <1>1, <1>2, <1>3
<1>6. ASSUME NEW k \in 1 .. Len(s) - 1
      PROVE  (a \o b)[k] = s[IF k < m THEN k ELSE k + 1]
  <2>1. CASE k < m
    BY <1>1, <1>2, <1>3, <2>1
  <2>2. CASE ~(k < m)
    <3>1. k - (m - 1) \in 1 .. Len(s) - m /\ (a \o b)[k] = b[k - (m - 1)]
      <4>1. k - (m - 1) \in 1 .. Len(s) - m
        BY <1>1, <2>2
      <4>2. (a \o b)[k] = IF k <= Len(a) THEN a[k] ELSE b[k - Len(a)]
        <5>1. k \in 1 .. Len(a) + Len(b)
          BY <1>1, <1>2, <1>3
        <5>. QED BY <1>2, <1>3, <5>1, ConcatProperties
      <4>. QED BY <1>1, <1>2, <2>2, <4>1, <4>2
    <3>2. b[k - (m - 1)] = s[m + (k - (m - 1))] /\ m + (k - (m - 1)) = k + 1
      BY <1>1, <1>3, <3>1
    <3>. QED BY <1>1, <2>2, <3>1, <3>2
  <2>. QED BY <2>1, <2>2
<1>. QED BY <1>4, <1>5, <1>6

LEMMA StackNext ==
    ASSUME Flattened(code), NEW stack, i \in DOMAIN code, StackIs(code, stack, code[i].of)
    PROVE  StackIs(code,
                   IF item.op # "label" THEN stack
                   ELSE LET l      == item.to[1]
                            opened == IF BeginsAt(l) = {} THEN stack
                                      ELSE Append(stack, Latest(BeginsAt(l)))
                        IN  IF EndsAt(l) = {} THEN opened
                            ELSE WithoutLoop(opened, Latest(EndsAt(l))),
                   PlaceOf(code, i + 1))
<1>. DEFINE k    == code[i].of
            next == PlaceOf(code, i + 1)
            l    == item.to[1]
            S    == DOMAIN code
<1>1. /\ source \in Bodies /\ code \in Seq(Items) /\ S = 1 .. Len(code) /\ Len(code) \in Nat
      /\ item = code[i]
  BY DEF Flattened, item
<1>2. \A w : w \in LoopsAround(next) <=>
               /\ IsWhile(w)
               /\ \/ w \in LoopsAround(k) /\ k \notin Ends(w)
                  \/ k \in Begins(w)
  BY AroundNext
<1>3. /\ stack \in Seq(S)
      /\ \A s \in DOMAIN stack : code[stack[s]].op = "while" /\ code[stack[s]].of \in LoopsAround(k)
      /\ \A w \in LoopsAround(k) : \E s \in DOMAIN stack : code[stack[s]].of = w
      /\ \A r, s \in DOMAIN stack : r < s => Earlier(code[stack[r]].of, code[stack[s]].of)
      /\ DOMAIN stack = 1 .. Len(stack) /\ Len(stack) \in Nat
  BY DEF StackIs
<1>4. /\ \A n \in S : code[n].op = "while" => IsWhile(code[n].of) /\ source[code[n].of].to = code[n].to
      /\ \A w : IsWhile(w) => \E n \in S : code[n].of = w /\ code[n].op = "while"
  BY WhileIn
<1>5. \A w : w \in LoopsAround(k) => IsWhile(w)
  BY AroundIs
<1>6. \A w : /\ k \in Begins(w) <=> item.op = "label" /\ l = source[w].to[1]
             /\ k \in Ends(w) <=> item.op = "label" /\ l = source[w].to[2]
  BY <1>1, LabelAt DEF Begins, Ends
<1>7. /\ BeginsAt(l) = {n \in S : code[n].op = "while" /\ code[n].to[1] = l}
      /\ EndsAt(l) = {n \in S : code[n].op = "while" /\ code[n].to[2] = l}
  BY DEF BeginsAt, EndsAt, Whiles
<1>8. /\ BeginsAt(l) # {} => Latest(BeginsAt(l)) \in BeginsAt(l)
      /\ EndsAt(l) # {} => Latest(EndsAt(l)) \in EndsAt(l)
  <2>1. BeginsAt(l) \subseteq 0 .. Len(code) /\ EndsAt(l) \subseteq 0 .. Len(code)
    BY <1>1, <1>7
  <2>. QED BY <1>1, <2>1, LatestIs
<1>9. \A u, w : IsWhile(u) /\ IsWhile(w) =>
          \A m, n \in 1 .. 2 : source[u].to[m] = source[w].to[n] => u = w /\ m = n
  BY <1>1, WhilesUnique DEF IsWhile
<1>10. 1 \in 1 .. 2 /\ 2 \in 1 .. 2 /\ 1 # 2
  OBVIOUS
<1>. HIDE DEF k, next, l, S
<1>11. CASE item.op # "label"
  <2>1. \A w : w \in LoopsAround(next) <=> w \in LoopsAround(k)
    BY <1>2, <1>5, <1>6, <1>11
  <2>2. StackIs(code, stack, next)
    BY <1>3, <2>1 DEF StackIs, S
  <2>. QED BY <1>11, <2>2 DEF next
<1>12. CASE item.op = "label" /\ BeginsAt(l) # {}
  <2>. DEFINE w == Latest(BeginsAt(l))
              v == code[w].of
  <2>1. /\ w \in S /\ code[w].op = "while" /\ code[w].to[1] = l
        /\ IsWhile(v) /\ source[v].to[1] = l
    BY <1>4, <1>7, <1>8, <1>12
  <2>2. EndsAt(l) = {}
    <3>. SUFFICES ASSUME NEW n \in EndsAt(l) PROVE FALSE
      OBVIOUS
    <3>1. n \in S /\ code[n].op = "while" /\ code[n].to[2] = l
      BY <1>7
    <3>2. IsWhile(code[n].of) /\ source[code[n].of].to[2] = l
      BY <1>4, <3>1
    <3>. HIDE DEF v
    <3>. QED BY <1>9, <1>10, <2>1, <3>2
  <2>. HIDE DEF w, v
  <2>3. \A u : IsWhile(u) => (k \in Begins(u) <=> u = v) /\ k \notin Ends(u)
    BY <1>6, <1>9, <1>10, <1>12, <2>1
  <2>4. \A u : u \in LoopsAround(next) <=> u \in LoopsAround(k) \/ u = v
    BY <1>2, <1>5, <2>1, <2>3
  <2>. DEFINE new == Append(stack, w)
  <2>5. /\ new \in Seq(S) /\ DOMAIN new = 1 .. Len(stack) + 1 /\ new[Len(stack) + 1] = w
        /\ \A s \in DOMAIN stack : new[s] = stack[s]
    BY <1>3, <2>1, AppendProperties
  <2>. HIDE DEF new
  <2>6. \A s \in DOMAIN new : s \in DOMAIN stack \/ s = Len(stack) + 1
    BY <1>3, <2>5
  <2>7. \A s \in DOMAIN new : code[new[s]].op = "while" /\ code[new[s]].of \in LoopsAround(next)
    BY <1>3, <2>1, <2>4, <2>5, <2>6 DEF v
  <2>8. ASSUME NEW u \in LoopsAround(next)
        PROVE  \E s \in DOMAIN new : code[new[s]].of = u
    <3>1. CASE u = v
      <4>1. Len(stack) + 1 \in DOMAIN new /\ code[new[Len(stack) + 1]].of = u
        BY <1>3, <2>5, <3>1 DEF v
      <4>. QED BY <4>1
    <3>2. CASE u # v
      <4>1. PICK s \in DOMAIN stack : code[stack[s]].of = u
        BY <1>3, <2>4, <3>2
      <4>2. s \in DOMAIN new /\ code[new[s]].of = u
        BY <1>3, <2>5, <4>1
      <4>. QED BY <4>2
    <3>. QED BY <3>1, <3>2
  <2>9. ASSUME NEW r \in DOMAIN new, NEW s \in DOMAIN new, r < s
        PROVE  Earlier(code[new[r]].of, code[new[s]].of)
    <3>1. r \in DOMAIN stack
      BY <1>3, <2>5, <2>9
    <3>2. CASE s \in DOMAIN stack
      BY <1>3, <2>5, <2>9, <3>1, <3>2
    <3>3. CASE s = Len(stack) + 1
      <4>1. code[new[s]].of = v /\ new[r] = stack[r] /\ code[stack[r]].of \in LoopsAround(k)
        BY <1>3, <2>5, <3>1, <3>3 DEF v
      <4>2. PICK b \in Begins(code[stack[r]].of) : b < k
        BY <4>1, AroundIs
      <4>3. \A c \in Begins(code[stack[r]].of) : c = b
        BY <1>1, LabelsUnique DEF Begins
      <4>4. \A c \in Begins(v) : c = k
        BY <1>1, <2>1, <2>3, LabelsUnique DEF Begins
      <4>. QED BY <4>1, <4>2, <4>3, <4>4 DEF Earlier
    <3>. QED BY <2>6, <3>2, <3>3
  <2>10. StackIs(code, new, next)
    BY <2>5, <2>7, <2>8, <2>9 DEF StackIs, S
  <2>. QED BY <1>12, <2>2, <2>10 DEF next, new, w, l
<1>13. CASE item.op = "label" /\ BeginsAt(l) = {}
  <2>1. \A u : IsWhile(u) => k \notin Begins(u)
    <3>. SUFFICES ASSUME NEW u, IsWhile(u), k \in Begins(u) PROVE FALSE
      OBVIOUS
    <3>1. PICK n \in S : code[n].of = u /\ code[n].op = "while"
      BY <1>4
    <3>2. code[n].to[1] = l
      BY <1>4, <1>6, <3>1
    <3>. QED BY <1>7, <1>13, <3>1, <3>2
  <2>2. CASE EndsAt(l) = {}
    <3>1. \A u : IsWhile(u) => k \notin Ends(u)
      <4>. SUFFICES ASSUME NEW u, IsWhile(u), k \in Ends(u) PROVE FALSE
        OBVIOUS
      <4>1. PICK n \in S : code[n].of = u /\ code[n].op = "while"
        BY <1>4
      <4>2. code[n].to[2] = l
        BY <1>4, <1>6, <4>1
      <4>. QED BY <1>7, <2>2, <4>1, <4>2
    <3>2. \A w : w \in LoopsAround(next) <=> w \in LoopsAround(k)
      BY <1>2, <1>5, <2>1, <3>1
    <3>3. StackIs(code, stack, next)
      BY <1>3, <3>2 DEF StackIs, S
    <3>. QED BY <1>13, <2>2, <3>3 DEF next, l
  <2>3. CASE EndsAt(l) # {}
    <3>. DEFINE w == Latest(EndsAt(l))
                v == code[w].of
    <3>1. /\ w \in S /\ code[w].op = "while" /\ code[w].to[2] = l
          /\ IsWhile(v) /\ source[v].to[2] = l
      BY <1>4, <1>7, <1>8, <2>3
    <3>. HIDE DEF w, v
    <3>2. \A u : IsWhile(u) => (k \in Ends(u) <=> u = v)
      BY <1>6, <1>9, <1>10, <1>13, <3>1
    <3>3. \A u : u \in LoopsAround(next) <=> u \in LoopsAround(k) /\ u # v
      BY <1>2, <1>5, <2>1, <3>2
    <3>4. \A n \in S : code[n].of = v => n = w
      BY <3>1, PlacesOrdered DEF S, v
    <3>5. CASE w \notin Range(stack)
      <4>1. \A s \in DOMAIN stack : code[stack[s]].of # v
        BY <1>3, <3>4, <3>5 DEF Range
      <4>2. \A s \in DOMAIN stack : code[stack[s]].of \in LoopsAround(next)
        BY <1>3, <3>3, <4>1
      <4>3. StackIs(code, stack, next)
        BY <1>3, <3>3, <4>2 DEF StackIs, S
      <4>4. WithoutLoop(stack, w) = stack
        BY <3>5 DEF WithoutLoop
      <4>. QED BY <1>13, <2>3, <4>3, <4>4 DEF next, l, w
    <3>6. CASE w \in Range(stack)
      <4>. DEFINE at_w == {s \in DOMAIN stack : stack[s] = w}
                  m    == Latest(at_w)
                  new  == RemoveAt(stack, m)
      <4>1. m \in DOMAIN stack /\ stack[m] = w
        <5>1. at_w \subseteq 0 .. Len(stack) /\ at_w # {}
          BY <1>3, <3>6 DEF Range
        <5>2. m \in at_w
          <6>. HIDE DEF at_w
          <6>. QED BY <1>3, <5>1, LatestIs
        <5>. QED BY <5>2
      <4>2. WithoutLoop(stack, w) = new
        BY <3>6 DEF WithoutLoop
      <4>. HIDE DEF at_w, m, new
      <4>3. /\ new \in Seq(S) /\ DOMAIN new = 1 .. Len(stack) - 1
            /\ \A s \in DOMAIN new : new[s] = stack[IF s < m THEN s ELSE s + 1]
        <5>1. /\ new \in Seq(S) /\ Len(new) = Len(stack) - 1
              /\ \A s \in 1 .. Len(stack) - 1 : new[s] = stack[IF s < m THEN s ELSE s + 1]
          BY <1>3, <4>1, RemoveAtIs DEF new
        <5>2. DOMAIN new = 1 .. Len(new)
          BY <5>1
        <5>. QED BY <5>1, <5>2
      <4>. DEFINE old(s) == IF s < m THEN s ELSE s + 1
      <4>4. \A s \in DOMAIN new : old(s) \in DOMAIN stack /\ old(s) # m /\ new[s] = stack[old(s)]
        BY <1>3, <4>1, <4>3
      <4>5. \A r, s \in DOMAIN new : r < s => old(r) < old(s)
        BY <1>3, <4>1, <4>3
      <4>6. \A s \in DOMAIN stack : s # m => \E r \in DOMAIN new : old(r) = s
        <5>. SUFFICES ASSUME NEW s \in DOMAIN stack, s # m
                      PROVE  \E r \in DOMAIN new : old(r) = s
          OBVIOUS
        <5>1. CASE s < m
          <6>1. s \in DOMAIN new /\ old(s) = s
            BY <1>3, <4>1, <4>3, <5>1
          <6>. QED BY <6>1
        <5>2. CASE s > m
          <6>1. s - 1 \in DOMAIN new /\ old(s - 1) = s
            BY <1>3, <4>1, <4>3, <5>2
          <6>. QED BY <6>1
        <5>. QED BY <1>3, <4>1, <5>1, <5>2
      <4>. HIDE DEF old
      <4>7. \A s \in DOMAIN stack : s # m => code[stack[s]].of # v
        <5>. SUFFICES ASSUME NEW s \in DOMAIN stack, s # m, code[stack[s]].of = v
                      PROVE  FALSE
          OBVIOUS
        <5>1. code[stack[m]].of = v /\ v \in LoopsAround(k)
          BY <1>3, <4>1 DEF v
        <5>2. Earlier(v, v)
          <6>1. s < m \/ m < s
            BY <1>3, <4>1
          <6>. QED BY <1>3, <4>1, <5>1, <6>1
        <5>3. PICK b \in Begins(v) : b < k
          BY <5>1, AroundIs
        <5>4. b < b /\ b \in Int
          BY <1>1, <5>2, <5>3, SourceIs DEF Earlier, Begins, Places
        <5>. QED BY <5>4
      <4>8. \A s \in DOMAIN new : code[new[s]].op = "while" /\ code[new[s]].of \in LoopsAround(next)
        BY <1>3, <3>3, <4>4, <4>7
      <4>9. ASSUME NEW u \in LoopsAround(next)
            PROVE  \E s \in DOMAIN new : code[new[s]].of = u
        <5>1. PICK s \in DOMAIN stack : code[stack[s]].of = u
          BY <1>3, <3>3
        <5>2. s # m
          BY <3>3, <4>1, <5>1 DEF v
        <5>3. PICK r \in DOMAIN new : old(r) = s
          BY <4>6, <5>2
        <5>. QED BY <4>4, <5>1, <5>3
      <4>10. \A r, s \in DOMAIN new : r < s => Earlier(code[new[r]].of, code[new[s]].of)
        BY <1>3, <4>4, <4>5
      <4>11. StackIs(code, new, next)
        BY <4>3, <4>8, <4>9, <4>10 DEF StackIs, S
      <4>. QED BY <1>13, <2>3, <4>2, <4>11 DEF next, l, w
    <3>. QED BY <3>5, <3>6
  <2>. QED BY <2>2, <2>3
<1>. QED BY <1>11, <1>12, <1>13

(* All of this is about the source, which never changes.                   *)
LEMMA SameSource ==
    ASSUME source' = source
    PROVE  /\ \A f : Flattened(f)' <=> Flattened(f)
           /\ \A f, n : PlaceOf(f, n)' = PlaceOf(f, n)
           /\ \A k : LoopsAround(k)' = LoopsAround(k) /\ LoopAround(k)' = LoopAround(k)
           /\ \A f, s, k : StackIs(f, s, k)' <=> StackIs(f, s, k)
           /\ \A f, loops, n : LoopsFound(f, loops, n)' <=> LoopsFound(f, loops, n)
<1>1. /\ \A f : Flattened(f)' <=> Flattened(f)
      /\ \A f, n : PlaceOf(f, n)' = PlaceOf(f, n)
  BY DEF Flattened, PlaceOf
<1>2. \A k : LoopsAround(k)' = LoopsAround(k)
  BY DEF LoopsAround
<1>3. \A k : LoopAround(k)' = LoopAround(k)
  BY <1>2 DEF LoopAround
<1>4. \A v, w : Earlier(v, w)' <=> Earlier(v, w)
  BY DEF Earlier, Begins
<1>5. \A f, s, k : StackIs(f, s, k)' <=> StackIs(f, s, k)
  BY <1>2, <1>4 DEF StackIs
<1>6. \A f, loops, n : LoopsFound(f, loops, n)' <=> LoopsFound(f, loops, n)
  <2>. TAKE f, loops, n
  <2>. QED BY <1>2, <1>3, Zenon DEF LoopsFound
<1>. QED BY <1>1, <1>2, <1>3, <1>5, <1>6

LEMMA LoopsStarted ==
    ASSUME ScopesInv, FlattenScopes
    PROVE  LoopsInv'
<1>1. /\ stage = "scopes" /\ i > Len(code) /\ source' = source
      /\ code' = Flat(out) /\ i' = 1 /\ out' = <<>> /\ loopStack' = <<>> /\ loopOf' = <<>>
  BY DEF FlattenScopes, LoopsStart
<1>2. Flattened(code')
  BY <1>1, FlattenedIs
<1>3. Len(code') \in Nat
  BY <1>2 DEF Flattened
<1>4. LoopsAround(PlaceOf(code', 1)) = {}
  <2>1. \A f : Flattened(f) => LoopsAround(PlaceOf(f, 1)) = {}
    BY NothingAround
  <2>. QED BY <1>2, <2>1
<1>5. StackIs(code', <<>>, PlaceOf(code', 1)) /\ LoopsFound(code', <<>>, 0)
  BY <1>4 DEF StackIs, LoopsFound
<1>6. Flattened(code)' /\ StackIs(code, loopStack, PlaceOf(code, i))' /\ LoopsFound(code, loopOf, i - 1)'
  BY <1>1, <1>2, <1>5, SameSource
<1>. QED BY <1>1, <1>3, <1>6 DEF LoopsInv

LEMMA LoopAssigned ==
    ASSUME LoopsInv, FindLoops
    PROVE  LoopsInv'
<1>. DEFINE k    == code[i].of
            next == PlaceOf(code, i + 1)
<1>1. /\ stage = "loops" /\ stage' = stage /\ source' = source /\ i <= Len(code)
      /\ i' = i + 1 /\ code' = code /\ out' = out
      /\ loopOf' = IF loopStack = <<>> THEN loopOf ELSE Put(loopOf, i, Last(loopStack))
  BY DEF FindLoops, AssignLoop
<1>2. /\ Flattened(code) /\ i \in 1 .. Len(code) + 1 /\ out = <<>>
      /\ StackIs(code, loopStack, PlaceOf(code, i)) /\ LoopsFound(code, loopOf, i - 1)
  BY <1>1 DEF LoopsInv
<1>3. /\ code \in Seq(Items) /\ DOMAIN code = 1 .. Len(code) /\ Len(code) \in Nat
      /\ i \in DOMAIN code /\ source \in Bodies
  BY <1>1, <1>2 DEF Flattened
<1>4. StackIs(code, loopStack, k) /\ k \in Int
  <2>1. PlaceOf(code, i) = k /\ k \in 1 .. Len(source)
    BY <1>2, <1>3, PlacesOrdered
  <2>. QED BY <1>2, <2>1, <1>3, SourceIs
<1>. DEFINE stack == IF item.op # "label" THEN loopStack
                     ELSE LET l      == item.to[1]
                              opened == IF BeginsAt(l) = {} THEN loopStack
                                        ELSE Append(loopStack, Latest(BeginsAt(l)))
                          IN  IF EndsAt(l) = {} THEN opened
                              ELSE WithoutLoop(opened, Latest(EndsAt(l)))
<1>5. loopStack' = stack
  BY DEF FindLoops, AssignLoop
<1>6. StackIs(code, stack, next)
  <2>. HIDE DEF next
  <2>. QED BY <1>2, <1>3, <1>4, StackNext DEF next
<1>. HIDE DEF stack
<1>7. LoopsFound(code, loopOf', i)
  <2>1. CASE loopStack = <<>>
    <3>1. LoopsAround(k) = {} /\ loopOf' = loopOf
      BY <1>1, <1>4, <2>1 DEF StackIs
    <3>2. /\ DOMAIN loopOf \subseteq 1 .. i - 1
          /\ \A p \in 1 .. i - 1 :
                /\ p \in DOMAIN loopOf <=> LoopsAround(code[p].of) # {}
                /\ p \in DOMAIN loopOf =>
                      /\ loopOf[p] \in DOMAIN code /\ code[loopOf[p]].op = "while"
                      /\ code[loopOf[p]].of = LoopAround(code[p].of)
      BY <1>2 DEF LoopsFound
    <3>3. \A p \in 1 .. i : p = i \/ p \in 1 .. i - 1
      BY <1>3
    <3>4. i \notin DOMAIN loopOf /\ DOMAIN loopOf \subseteq 1 .. i
      BY <1>3, <3>2
    <3>. QED BY <3>1, <3>2, <3>3, <3>4 DEF LoopsFound
  <2>2. CASE loopStack # <<>>
    <3>. DEFINE last == Last(loopStack)
                w    == code[last].of
    <3>1. /\ loopStack \in Seq(DOMAIN code) /\ Len(loopStack) \in DOMAIN loopStack
          /\ DOMAIN loopStack = 1 .. Len(loopStack) /\ Len(loopStack) \in Nat
          /\ last = loopStack[Len(loopStack)]
      BY <1>4, <2>2 DEF StackIs, Last
    <3>2. /\ last \in DOMAIN code /\ code[last].op = "while" /\ w \in LoopsAround(k)
      BY <1>4, <3>1 DEF StackIs
    <3>3. ASSUME NEW v \in LoopsAround(k)
          PROVE  v = w \/ Earlier(v, w)
      <4>1. PICK s \in DOMAIN loopStack : code[loopStack[s]].of = v
        BY <1>4 DEF StackIs
      <4>2. CASE s = Len(loopStack)
        BY <3>1, <4>1, <4>2
      <4>3. CASE s # Len(loopStack)
        <5>1. s < Len(loopStack)
          BY <3>1, <4>3
        <5>. QED BY <1>4, <3>1, <4>1, <5>1 DEF StackIs
      <4>. QED BY <4>2, <4>3
    <3>. HIDE DEF w, k
    <3>4. LoopAround(k) = w
      BY <1>3, <1>4, <3>2, <3>3, LoopAroundIs
    <3>. HIDE DEF last
    <3>5. /\ DOMAIN loopOf' = DOMAIN loopOf \cup {i} /\ loopOf'[i] = last
          /\ \A p \in DOMAIN loopOf : p # i => loopOf'[p] = loopOf[p]
      BY <1>1, <2>2 DEF Put, last
    <3>6. /\ DOMAIN loopOf \subseteq 1 .. i - 1
          /\ \A p \in 1 .. i - 1 :
                /\ p \in DOMAIN loopOf <=> LoopsAround(code[p].of) # {}
                /\ p \in DOMAIN loopOf =>
                      /\ loopOf[p] \in DOMAIN code /\ code[loopOf[p]].op = "while"
                      /\ code[loopOf[p]].of = LoopAround(code[p].of)
      BY <1>2 DEF LoopsFound
    <3>7. DOMAIN loopOf' \subseteq 1 .. i
      BY <1>3, <3>5, <3>6
    <3>8. ASSUME NEW p \in 1 .. i
          PROVE  /\ p \in DOMAIN loopOf' <=> LoopsAround(code[p].of) # {}
                 /\ p \in DOMAIN loopOf' =>
                       /\ loopOf'[p] \in DOMAIN code /\ code[loopOf'[p]].op = "while"
                       /\ code[loopOf'[p]].of = LoopAround(code[p].of)
      <4>1. CASE p = i
        BY <3>2, <3>4, <3>5, <4>1 DEF w, k
      <4>2. CASE p # i
        <5>1. p \in 1 .. i - 1
          BY <1>3, <4>2
        <5>2. p \in DOMAIN loopOf' <=> p \in DOMAIN loopOf
          BY <3>5, <4>2
        <5>3. p \in DOMAIN loopOf => loopOf'[p] = loopOf[p]
          BY <3>5, <4>2
        <5>. QED BY <3>6, <5>1, <5>2, <5>3
      <4>. QED BY <4>1, <4>2
    <3>. QED BY <3>7, <3>8 DEF LoopsFound
  <2>. QED BY <2>1, <2>2
<1>8. /\ Flattened(code)' /\ StackIs(code, loopStack, PlaceOf(code, i))'
      /\ LoopsFound(code, loopOf, i - 1)'
  <2>1. i' - 1 = i
    BY <1>1, <1>3
  <2>. QED BY <1>1, <1>2, <1>5, <1>6, <1>7, <2>1, SameSource
<1>. QED BY <1>1, <1>2, <1>3, <1>8 DEF LoopsInv

-----------------------------------------------------------------------------
(* Fresh names.                                                            *)

(* A finite set has as many images at most.                                *)
LEMMA ImageFinite ==
    ASSUME NEW D, IsFiniteSet(D), NEW f, NEW R, R = {f[x] : x \in D}
    PROVE  IsFiniteSet(R) /\ Cardinality(R) \in Nat /\ Cardinality(R) <= Cardinality(D)
<1>. DEFINE g == [x \in D |-> f[x]]
<1>1. g \in Surjection(D, R)
  BY DEF Surjection
<1>. HIDE DEF g
<1>. QED BY <1>1, FS_Surjection, FS_CardinalityType

Below(S, n) == Cardinality({m \in S : m < n})

LEMMA BelowStep ==
    ASSUME NEW S, S \subseteq Nat, NEW n \in Nat
    PROVE  /\ Below(S, n) \in Nat /\ Below(S, n + 1) \in Nat
           /\ Below(S, n + 1) = Below(S, n) + (IF n \in S THEN 1 ELSE 0)
<1>. DEFINE A == {m \in S : m < n}
            B == {m \in S : m < n + 1}
<1>0. \A m \in S : m \in Nat
  OBVIOUS
<1>1. IsFiniteSet(A) /\ IsFiniteSet(B)
  <2>1. A \subseteq 0 .. n /\ B \subseteq 0 .. n
    <3>1. \A m \in S : (m < n \/ m < n + 1) => m \in 0 .. n
      BY <1>0
    <3>2. \A m \in S : m < n => m < n + 1
      BY <1>0
    <3>. QED BY <3>1, <3>2
  <2>2. IsFiniteSet(0 .. n)
    BY FS_Interval
  <2>. HIDE DEF A, B
  <2>. QED BY <2>1, <2>2, FS_Subset
<1>2. n \notin A /\ B = (IF n \in S THEN A \cup {n} ELSE A)
  <2>1. n \notin A
    OBVIOUS
  <2>2. \A m \in S : m < n + 1 <=> m < n \/ m = n
    BY <1>0
  <2>. QED BY <2>1, <2>2
<1>. HIDE DEF A, B
<1>3. Cardinality(A) \in Nat /\ Cardinality(B) \in Nat
  BY <1>1, FS_CardinalityType
<1>4. Cardinality(A \cup {n}) = Cardinality(A) + 1
  BY <1>1, <1>2, FS_AddElement
<1>. QED BY <1>2, <1>3, <1>4 DEF Below, A, B

LEMMA RankIs ==
    ASSUME NEW N \in Nat, NEW S, S \subseteq 0 .. N, NEW r \in Nat, r < Cardinality(S)
    PROVE  \E n \in S : Below(S, n) = r
<1>. DEFINE T == {n \in Nat : Below(S, n) > r}
<1>1. S \subseteq Nat
  OBVIOUS
<1>2. N + 1 \in T
  <2>1. \A m \in S : m < N + 1
    OBVIOUS
  <2>2. {m \in S : m < N + 1} = S
    BY <2>1
  <2>. QED BY <2>2 DEF Below
<1>3. PICK t \in T : \A u \in T : t <= u
  <2>. HIDE DEF T
  <2>1. T \subseteq Nat
    BY DEF T
  <2>. QED BY <1>2, <2>1, HasLeast
<1>4. t # 0
  <2>0. \A m \in S : ~(m < 0)
    OBVIOUS
  <2>1. {m \in S : m < 0} = {}
    BY <2>0
  <2>2. Below(S, 0) = 0
    BY <2>1, FS_EmptySet DEF Below
  <2>. QED BY <2>2
<1>5. t - 1 \in Nat /\ t - 1 \notin T
  BY <1>3, <1>4
<1>. DEFINE n == t - 1
<1>. HIDE DEF n
<1>6. n \in Nat /\ t = n + 1
  BY <1>5 DEF n
<1>7. /\ Below(S, n) \in Nat /\ Below(S, t) \in Nat
      /\ Below(S, t) = Below(S, n) + (IF n \in S THEN 1 ELSE 0)
  BY <1>1, <1>6, BelowStep
<1>8. Below(S, t) > r /\ ~(Below(S, n) > r)
  BY <1>3, <1>5, <1>6
<1>9. n \in S /\ Below(S, n) = r
  BY <1>7, <1>8
<1>. QED BY <1>9

CondName(n) == <<"__lb_while_cond", <<n>>>>

SourceLabels == {code[j].to[1] : j \in {h \in DOMAIN code : code[h].op = "label"}}

(* Every while gets a label of its own, and none the source has.           *)
LEMMA CondLabelFresh ==
    ASSUME code \in Seq(Items), NEW k \in Whiles
    PROVE  /\ CondLabel(k) \notin SourceLabels
           /\ \A j \in Whiles : CondLabel(j) = CondLabel(k) => j = k
<1>. DEFINE L       == Len(code)
            labels  == {h \in DOMAIN code : code[h].op = "label"}
            free    == {n \in 0 .. 2 * L : CondName(n) \notin SourceLabels}
            taken   == (0 .. 2 * L) \ free
            rank(w) == Cardinality({v \in Whiles : v < w})
            number(w) == CHOOSE n \in free : Below(free, n) = rank(w)
<1>1. L \in Nat /\ DOMAIN code = 1 .. L /\ Whiles \subseteq 1 .. L
  BY DEF Whiles
<1>12. IsFiniteSet(1 .. L) /\ Cardinality(1 .. L) = L
  <2>. HIDE DEF L
  <2>. QED BY <1>1, FS_Interval
<1>2. IsFiniteSet(SourceLabels) /\ Cardinality(SourceLabels) \in Nat /\ Cardinality(SourceLabels) <= L
  <2>1. IsFiniteSet(1 .. L) /\ Cardinality(1 .. L) = L /\ labels \subseteq 1 .. L
    BY <1>1, <1>12
  <2>. DEFINE f == [j \in labels |-> code[j].to[1]]
  <2>2. SourceLabels = {f[j] : j \in labels}
    BY DEF SourceLabels
  <2>. HIDE DEF f, labels, L
  <2>3. IsFiniteSet(labels) /\ Cardinality(labels) <= L /\ Cardinality(labels) \in Nat
    BY <2>1, FS_Subset, FS_CardinalityType
  <2>4. /\ IsFiniteSet(SourceLabels) /\ Cardinality(SourceLabels) \in Nat
        /\ Cardinality(SourceLabels) <= Cardinality(labels)
    BY <2>2, <2>3, ImageFinite
  <2>. QED BY <1>1, <2>3, <2>4
<1>3. \A m, n : CondName(m) = CondName(n) => m = n
  BY DEF CondName
<1>4. IsFiniteSet(0 .. 2 * L) /\ Cardinality(0 .. 2 * L) = 2 * L + 1
  <2>. DEFINE M == 2 * L
  <2>1. M \in Nat
    BY <1>1
  <2>. HIDE DEF M
  <2>2. IsFiniteSet(0 .. M) /\ Cardinality(0 .. M) = M + 1
    BY <2>1, FS_Interval
  <2>. QED BY <2>2 DEF M
<1>5. IsFiniteSet(taken) /\ Cardinality(taken) \in Nat /\ Cardinality(taken) <= L
  <2>1. taken \subseteq 0 .. 2 * L
    OBVIOUS
  <2>2. IsFiniteSet(taken)
    <3>. HIDE DEF taken
    <3>. QED BY <1>4, <2>1, FS_Subset
  <2>. DEFINE f == [n \in taken |-> CondName(n)]
  <2>3. f \in Injection(taken, SourceLabels)
    BY <1>3 DEF Injection, IsInjective
  <2>. HIDE DEF f, taken
  <2>4. Cardinality(taken) <= Cardinality(SourceLabels) /\ Cardinality(taken) \in Nat
    BY <1>2, <2>2, <2>3, FS_Injection, FS_CardinalityType
  <2>. QED BY <1>1, <1>2, <2>2, <2>4
<1>6. Cardinality(free) >= L + 1 /\ Cardinality(free) \in Nat
  <2>1. (0 .. 2 * L) \ taken = free /\ (0 .. 2 * L) \cap taken = taken
    OBVIOUS
  <2>. HIDE DEF free, taken
  <2>2. /\ IsFiniteSet((0 .. 2 * L) \ taken)
        /\ Cardinality((0 .. 2 * L) \ taken) =
              Cardinality(0 .. 2 * L) - Cardinality((0 .. 2 * L) \cap taken)
    BY <1>4, FS_Difference
  <2>3. Cardinality(free) = 2 * L + 1 - Cardinality(taken)
    <3>. DEFINE X == 0 .. 2 * L
                Y == X \ taken
                Z == X \cap taken
    <3>1. Cardinality(X) = 2 * L + 1 /\ Cardinality(Y) = Cardinality(X) - Cardinality(Z)
      BY <1>4, <2>2
    <3>2. Y = free /\ Z = taken
      BY <2>1
    <3>3. L \in Nat /\ Cardinality(taken) \in Nat
      BY <1>1, <1>5
    <3>. HIDE DEF L, X, Y, Z
    <3>. QED BY <3>1, <3>2, <3>3
  <2>. QED BY <1>1, <1>5, <2>3
<1>7. ASSUME NEW w \in Whiles
      PROVE  rank(w) \in 0 .. L
  <2>. DEFINE A == {v \in Whiles : v < w}
  <2>1. A \subseteq 1 .. L /\ IsFiniteSet(1 .. L) /\ Cardinality(1 .. L) = L
    BY <1>1, <1>12
  <2>. HIDE DEF A
  <2>2. Cardinality(A) \in Nat /\ Cardinality(A) <= L
    BY <2>1, FS_Subset, FS_CardinalityType
  <2>. QED BY <1>1, <2>2 DEF A
<1>8. ASSUME NEW v \in Whiles, NEW w \in Whiles, v < w
      PROVE  rank(v) # rank(w)
  <2>. DEFINE A == {u \in Whiles : u < v}
              B == {u \in Whiles : u < w}
  <2>0. \A u \in Whiles : u \in Int
    BY <1>1
  <2>1. A \subseteq B /\ v \in B /\ v \notin A /\ B \subseteq 1 .. L /\ IsFiniteSet(1 .. L)
    <3>1. \A u \in Whiles : u < v => u < w
      BY <1>8, <2>0
    <3>2. ~(v < v)
      BY <2>0
    <3>3. B \subseteq Whiles
      OBVIOUS
    <3>4. B \subseteq 1 .. L
      BY <1>1, <3>3
    <3>. HIDE DEF L
    <3>. QED BY <1>8, <1>12, <3>1, <3>2, <3>4
  <2>. HIDE DEF A, B
  <2>2. Cardinality(A) < Cardinality(B) /\ Cardinality(A) \in Nat /\ Cardinality(B) \in Nat
    <3>1. IsFiniteSet(B)
      BY <2>1, FS_Subset
    <3>2. IsFiniteSet(A) /\ A # B
      BY <2>1, <3>1, FS_Subset
    <3>3. Cardinality(A) \in Nat /\ Cardinality(B) \in Nat
      BY <3>1, <3>2, FS_CardinalityType
    <3>4. Cardinality(A) <= Cardinality(B) /\ Cardinality(A) # Cardinality(B)
      BY <2>1, <3>1, <3>2, FS_Subset
    <3>. QED BY <3>3, <3>4
  <2>. QED BY <2>2 DEF A, B
<1>9. ASSUME NEW w \in Whiles
      PROVE  /\ number(w) \in free /\ Below(free, number(w)) = rank(w)
             /\ CondLabel(w) = CondName(number(w))
  <2>1. free \subseteq 0 .. 2 * L /\ 2 * L \in Nat
    BY <1>1
  <2>2. \E n \in free : Below(free, n) = rank(w)
    <3>1. rank(w) \in Nat /\ rank(w) < Cardinality(free)
      BY <1>1, <1>6, <1>7, <1>9
    <3>. HIDE DEF free, rank
    <3>. QED BY <2>1, <3>1, RankIs
  <2>3. CondLabel(w) = CondName(number(w))
    BY DEF CondLabel, CondName, SourceLabels, Below
  <2>. HIDE DEF free, rank
  <2>. QED BY <2>2, <2>3
<1>10. CondLabel(k) \notin SourceLabels
  BY <1>9
<1>. HIDE DEF free, rank, number
<1>11. ASSUME NEW j \in Whiles, CondLabel(j) = CondLabel(k)
       PROVE  j = k
  <2>1. number(j) = number(k)
    BY <1>3, <1>9, <1>11
  <2>2. rank(j) = rank(k)
    BY <1>9, <2>1
  <2>3. ~(j < k) /\ ~(k < j)
    BY <1>8, <2>2
  <2>4. j \in 1 .. L /\ k \in 1 .. L
    BY <1>1
  <2>. QED BY <1>1, <2>3, <2>4
<1>. QED BY <1>10, <1>11

(* The shared variable has a name nobody else has.                         *)
LEMMA CondTmpFresh ==
    ASSUME code \in Seq(Items), IsFiniteSet(params)
    PROVE  CondTmp \notin NamesIn(code) \cup params
<1>. DEFINE used == NamesIn(code) \cup params
            name(n) == <<"__lb_cond_tmp", <<n>>>>
            N == Cardinality(used)
<1>1. IsFiniteSet(used)
  <2>1. \A k \in DOMAIN code : IsFiniteSet(Range(code[k].names))
    <3>. TAKE k \in DOMAIN code
    <3>. DEFINE s == code[k].names
    <3>1. s \in Seq(AllNames)
      BY ItemFields
    <3>2. IsFiniteSet(DOMAIN s)
      <4>1. DOMAIN s = 1 .. Len(s) /\ Len(s) \in Nat
        BY <3>1
      <4>. HIDE DEF s
      <4>. QED BY <4>1, FS_Interval
    <3>. HIDE DEF s
    <3>3. Range(s) = {s[x] : x \in DOMAIN s}
      BY DEF Range
    <3>4. IsFiniteSet(Range(s))
      BY <3>2, <3>3, ImageFinite
    <3>. QED BY <3>4 DEF s
  <2>. DEFINE f == [k \in DOMAIN code |-> Range(code[k].names)]
              R == {f[k] : k \in DOMAIN code}
  <2>2. IsFiniteSet(DOMAIN code)
    BY FS_Interval
  <2>3. IsFiniteSet(R)
    <3>. HIDE DEF f
    <3>. QED BY <2>2, ImageFinite
  <2>4. \A T \in R : IsFiniteSet(T)
    BY <2>1
  <2>5. NamesIn(code) = UNION R
    BY DEF NamesIn
  <2>. HIDE DEF R
  <2>. QED BY <2>3, <2>4, <2>5, FS_UNION, FS_Union
<1>2. N \in Nat
  BY <1>1, FS_CardinalityType
<1>3. \A m, n : name(m) = name(n) => m = n
  OBVIOUS
<1>. HIDE DEF used, name
<1>4. \E n \in 0 .. N : name(n) \notin used
  <2>. SUFFICES ASSUME \A n \in 0 .. N : name(n) \in used PROVE FALSE
    OBVIOUS
  <2>. DEFINE f == [n \in 0 .. N |-> name(n)]
  <2>1. f \in [0 .. N -> used]
    OBVIOUS
  <2>2. IsFiniteSet(0 .. N) /\ Cardinality(used) < Cardinality(0 .. N)
    BY <1>2, FS_Interval
  <2>. HIDE DEF f
  <2>3. \E x, y \in 0 .. N : x # y /\ f[x] = f[y]
    BY <1>1, <2>1, <2>2, FS_PigeonHole
  <2>. QED BY <1>3, <2>3 DEF f
<1>. DEFINE T == {n \in 0 .. N : name(n) \notin used}
<1>5. PICK n \in T : \A m \in T : n <= m
  <2>1. T \subseteq Nat /\ T # {}
    BY <1>2, <1>4
  <2>. HIDE DEF T
  <2>. QED BY <2>1, HasLeast
<1>6. n \in 0 .. N /\ name(n) \notin used /\ \A m \in 0 .. n - 1 : name(m) \in used
  <2>1. \A m \in 0 .. n - 1 : m \in 0 .. N /\ ~(n <= m)
    BY <1>2, <1>5
  <2>. QED BY <1>5, <2>1
<1>. DEFINE good(h) == name(h) \notin used /\ \A m \in 0 .. h - 1 : name(m) \in used
<1>7. CondTmp = name(CHOOSE h \in 0 .. N : good(h))
  BY DEF CondTmp, name, used
<1>8. good(CHOOSE h \in 0 .. N : good(h))
  <2>1. good(n)
    BY <1>6
  <2>. HIDE DEF good
  <2>. QED BY <1>6, <2>1
<1>. QED BY <1>7, <1>8 DEF used

-----------------------------------------------------------------------------
(* The lowered code.                                                       *)

IsSeq(r) == r \in Seq(Range(r))

LEMMA SeqIsSeq ==
    ASSUME NEW A, NEW r \in Seq(A)
    PROVE  IsSeq(r)
<1>1. Len(r) \in Nat /\ r = [k \in 1 .. Len(r) |-> r[k]]
  OBVIOUS
<1>2. \A k \in 1 .. Len(r) : r[k] \in Range(r)
  BY <1>1 DEF Range
<1>3. r \in [1 .. Len(r) -> Range(r)]
  BY <1>1, <1>2
<1>. QED BY <1>1, <1>3 DEF IsSeq

LEMMA Joined ==
    ASSUME NEW r, IsSeq(r), NEW s, IsSeq(s)
    PROVE  /\ IsSeq(r \o s) /\ Len(r) \in Nat /\ Len(s) \in Nat
           /\ Len(r \o s) = Len(r) + Len(s)
           /\ \A k \in 1 .. Len(r) + Len(s) :
                 (r \o s)[k] = IF k <= Len(r) THEN r[k] ELSE s[k - Len(r)]
<1>. DEFINE A == Range(r) \cup Range(s)
<1>1. r \in Seq(Range(r)) /\ s \in Seq(Range(s)) /\ Range(r) \subseteq A /\ Range(s) \subseteq A
  BY DEF IsSeq
<1>. HIDE DEF A
<1>2. r \in Seq(A) /\ s \in Seq(A)
  BY <1>1
<1>3. r \o s \in Seq(A)
  BY <1>2
<1>4. IsSeq(r \o s)
  BY <1>3, SeqIsSeq
<1>5. Len(r) \in Nat /\ Len(s) \in Nat
  BY <1>2
<1>6. /\ Len(r \o s) = Len(r) + Len(s)
      /\ \A k \in 1 .. Len(r) + Len(s) :
            (r \o s)[k] = IF k <= Len(r) THEN r[k] ELSE s[k - Len(r)]
  BY <1>2, ConcatProperties
<1>. QED BY <1>4, <1>5, <1>6

(* How much stands for an instruction, and from where on.                  *)
Width(f, p) == IF f[p].op = "while" THEN 4 ELSE IF f[p].op = "if" THEN 3 ELSE 1

Start(f, p) ==
    p + 3 * UpTo({n \in Int : f[n].op = "while"}, p - 1)
      + 2 * UpTo({n \in Int : f[n].op = "if"}, p - 1)

(* Part j of what stands for instruction p.  z is what the lowering works  *)
(* with: the code, the loops found, the shared variable, the labels.       *)
Part(z, p, j) ==
    LET it   == z.code[p]
        test == IF it.op = "while" THEN j - 1 ELSE j
    IN  IF it.op \in {"while", "if"}
        THEN IF test < 0 THEN Label(z.label[p])
             ELSE IF test = 0 THEN Declare(z.tmp)
             ELSE IF test = 1 THEN [Compare(z.tmp, it.names) EXCEPT !.of = it.of]
             ELSE [Cond(z.tmp, it.to[1], it.to[2]) EXCEPT !.of = it.of]
        ELSE IF it.op = "continue" /\ p \in DOMAIN z.loops
        THEN [Branch(z.label[z.loops[p]]) EXCEPT !.of = it.of]
        ELSE IF it.op = "break" /\ p \in DOMAIN z.loops
        THEN [Branch(z.code[z.loops[p]].to[2]) EXCEPT !.of = it.of]
        ELSE it

(* r stands for the first n instructions.                                  *)
Lowered(r, z, n) ==
    /\ IsSeq(r) /\ Len(r) = Start(z.code, n + 1) - 1
    /\ \A p \in 1 .. n : \A j \in 0 .. Width(z.code, p) - 1 :
          Start(z.code, p) + j \in DOMAIN r /\ r[Start(z.code, p) + j] = Part(z, p, j)
    /\ \A q \in DOMAIN r : \E p \in 1 .. n : \E j \in 0 .. Width(z.code, p) - 1 :
          q = Start(z.code, p) + j

LEMMA StartIs ==
    ASSUME NEW f, NEW p \in Nat \ {0}
    PROVE  /\ Start(f, p) \in Nat \ {0} /\ Width(f, p) \in {1, 3, 4}
           /\ Start(f, 1) = 1
           /\ Start(f, p + 1) = Start(f, p) + Width(f, p)
<1>. DEFINE W == {n \in Int : f[n].op = "while"}
            I == {n \in Int : f[n].op = "if"}
<1>1. (p \in W <=> f[p].op = "while") /\ (p \in I <=> f[p].op = "if") /\ ~(p \in W /\ p \in I)
  OBVIOUS
<1>. HIDE DEF W, I
<1>2. /\ UpTo(W, p) \in Nat /\ UpTo(W, p - 1) \in Nat
      /\ UpTo(W, p) = UpTo(W, p - 1) + (IF p \in W THEN 1 ELSE 0)
  BY CountStep
<1>3. /\ UpTo(I, p) \in Nat /\ UpTo(I, p - 1) \in Nat
      /\ UpTo(I, p) = UpTo(I, p - 1) + (IF p \in I THEN 1 ELSE 0)
  BY CountStep
<1>4. UpTo(W, 0) = 0 /\ UpTo(I, 0) = 0
  <2>1. W \cap 1 .. 0 = {} /\ I \cap 1 .. 0 = {}
    OBVIOUS
  <2>. QED BY <2>1, FS_EmptySet DEF UpTo
<1>5. \A m \in Nat \ {0} : Start(f, m) = m + 3 * UpTo(W, m - 1) + 2 * UpTo(I, m - 1)
  BY DEF Start, W, I
<1>6. /\ Start(f, p) = p + 3 * UpTo(W, p - 1) + 2 * UpTo(I, p - 1)
      /\ Start(f, 1) = 1 + 3 * UpTo(W, 0) + 2 * UpTo(I, 0)
      /\ Start(f, p + 1) = p + 1 + 3 * UpTo(W, p) + 2 * UpTo(I, p)
  <2>1. p + 1 \in Nat \ {0} /\ (p + 1) - 1 = p /\ 1 \in Nat \ {0} /\ 1 - 1 = 0
    OBVIOUS
  <2>. QED BY <1>5, <2>1
<1>7. Start(f, p) \in Nat \ {0} /\ Start(f, 1) = 1
  BY <1>2, <1>3, <1>4, <1>6
<1>8. Width(f, p) = 1 + 3 * (IF p \in W THEN 1 ELSE 0) + 2 * (IF p \in I THEN 1 ELSE 0)
  BY <1>1 DEF Width
<1>9. Start(f, p + 1) = Start(f, p) + Width(f, p)
  BY <1>2, <1>3, <1>6, <1>8
<1>10. Width(f, p) \in {1, 3, 4}
  BY DEF Width
<1>. QED BY <1>7, <1>9, <1>10

LEMMA LoweredGrows ==
    ASSUME NEW z, NEW n \in Nat \ {0}, NEW r, Lowered(r, z, n - 1),
           NEW seq, IsSeq(seq), Len(seq) = Width(z.code, n),
           \A j \in 0 .. Width(z.code, n) - 1 : seq[j + 1] = Part(z, n, j)
    PROVE  Lowered(r \o seq, z, n)
<1>. DEFINE S(p) == Start(z.code, p)
            W(p) == Width(z.code, p)
            new  == r \o seq
<1>1. /\ IsSeq(r) /\ Len(r) = S(n) - 1 /\ Len(r) \in Nat
      /\ DOMAIN r = 1 .. Len(r) /\ S(n) \in Nat \ {0} /\ W(n) \in {1, 3, 4}
      /\ S(n + 1) = S(n) + W(n)
  <2>1. n - 1 + 1 = n
    OBVIOUS
  <2>2. IsSeq(r) /\ DOMAIN r = 1 .. Len(r) /\ Len(r) = S(n) - 1
    BY <2>1 DEF Lowered, IsSeq
  <2>3. S(n) \in Nat \ {0} /\ W(n) \in {1, 3, 4} /\ S(n + 1) = S(n) + W(n)
    BY StartIs
  <2>. HIDE DEF S, W
  <2>. QED BY <2>2, <2>3
<1>2. /\ \A p \in 1 .. n - 1 : \A j \in 0 .. W(p) - 1 :
            S(p) + j \in DOMAIN r /\ r[S(p) + j] = Part(z, p, j)
      /\ \A q \in DOMAIN r : \E p \in 1 .. n - 1 : \E j \in 0 .. W(p) - 1 : q = S(p) + j
  BY DEF Lowered
<1>3. /\ IsSeq(new) /\ Len(new) = Len(r) + Len(seq) /\ DOMAIN new = 1 .. Len(new)
      /\ \A q \in 1 .. Len(r) + Len(seq) : new[q] = IF q <= Len(r) THEN r[q] ELSE seq[q - Len(r)]
  <2>1. /\ IsSeq(new) /\ Len(new) = Len(r) + Len(seq)
        /\ \A q \in 1 .. Len(r) + Len(seq) : new[q] = IF q <= Len(r) THEN r[q] ELSE seq[q - Len(r)]
    BY <1>1, Joined
  <2>. HIDE DEF new
  <2>. QED BY <2>1 DEF IsSeq
<1>4. \A p \in 1 .. n - 1 : S(p) \in Nat \ {0} /\ W(p) \in {1, 3, 4} /\ S(p + 1) = S(p) + W(p)
  <2>1. \A p \in Nat \ {0} : S(p) \in Nat \ {0} /\ W(p) \in {1, 3, 4} /\ S(p + 1) = S(p) + W(p)
    BY StartIs
  <2>. TAKE p \in 1 .. n - 1
  <2>2. p \in Nat \ {0}
    OBVIOUS
  <2>. HIDE DEF S, W
  <2>. QED BY <2>1, <2>2
<1>. HIDE DEF S, W, new
<1>5. Len(new) = S(n + 1) - 1
  BY <1>1, <1>3 DEF W
(* What stands for an earlier instruction ends before the new one.         *)
<1>6. \A p \in 1 .. n - 1 : S(p) + W(p) <= S(n)
  <2>. DEFINE T == {d \in Nat : d \in 1 .. n - 1 /\ ~(S(n - d) + W(n - d) <= S(n))}
  <2>. SUFFICES ASSUME T # {} PROVE FALSE
    <3>. SUFFICES ASSUME NEW p \in 1 .. n - 1, ~(S(p) + W(p) <= S(n)) PROVE T # {}
      OBVIOUS
    <3>1. n - p \in 1 .. n - 1 /\ n - (n - p) = p /\ n - p \in Nat
      OBVIOUS
    <3>2. n - p \in T
      BY <3>1
    <3>. QED BY <3>2
  <2>1. PICK d \in T : \A e \in T : d <= e
    <3>1. T \subseteq Nat
      OBVIOUS
    <3>. HIDE DEF T
    <3>. QED BY <3>1, HasLeast
  <2>2. d \in 1 .. n - 1 /\ ~(S(n - d) + W(n - d) <= S(n)) /\ n - d \in 1 .. n - 1
    OBVIOUS
  <2>3. S((n - d) + 1) = S(n - d) + W(n - d)
    BY <1>4, <2>2
  <2>4. CASE d = 1
    <3>1. (n - d) + 1 = n
      BY <2>4
    <3>. QED BY <1>1, <2>2, <2>3, <3>1
  <2>5. CASE d # 1
    <3>1. d - 1 \in 1 .. n - 1 /\ d - 1 \in Nat /\ ~(d <= d - 1) /\ (n - d) + 1 = n - (d - 1)
      BY <2>2, <2>5
    <3>2. S(n - (d - 1)) + W(n - (d - 1)) <= S(n)
      BY <2>1, <3>1
    <3>3. n - (d - 1) \in 1 .. n - 1
      BY <2>2, <2>5
    <3>4. /\ S(n - (d - 1)) \in Nat /\ W(n - (d - 1)) \in {1, 3, 4}
          /\ S(n - d) \in Nat /\ W(n - d) \in {1, 3, 4} /\ S(n) \in Nat
      BY <1>1, <1>4, <2>2, <3>3
    <3>5. S(n - (d - 1)) = S(n - d) + W(n - d)
      BY <2>3, <3>1
    <3>. QED BY <2>2, <3>2, <3>4, <3>5
  <2>. QED BY <2>4, <2>5
<1>7. ASSUME NEW p \in 1 .. n, NEW j \in 0 .. W(p) - 1
      PROVE  S(p) + j \in DOMAIN new /\ new[S(p) + j] = Part(z, p, j)
  <2>1. CASE p = n
    <3>. DEFINE q == S(n) + j
    <3>1. q \in 1 .. Len(r) + Len(seq) /\ ~(q <= Len(r)) /\ q - Len(r) = j + 1
      BY <1>1, <2>1 DEF W
    <3>2. S(p) + j = q /\ seq[j + 1] = Part(z, n, j)
      BY <2>1 DEF W
    <3>. HIDE DEF q
    <3>3. new[q] = seq[j + 1]
      BY <1>3, <3>1
    <3>. QED BY <1>3, <2>1, <3>1, <3>2, <3>3
  <2>2. CASE p # n
    <3>1. p \in 1 .. n - 1
      BY <2>2
    <3>5. S(p) \in Nat \ {0} /\ W(p) \in {1, 3, 4} /\ S(p) + W(p) <= S(n)
      BY <1>4, <1>6, <3>1
    <3>2. S(p) + j \in 1 .. Len(r)
      BY <1>1, <3>5
    <3>3. S(p) + j \in 1 .. Len(r) + Len(seq) /\ S(p) + j <= Len(r)
      BY <1>1, <3>2
    <3>4. new[S(p) + j] = r[S(p) + j]
      BY <1>3, <3>3
    <3>. QED BY <1>2, <1>3, <3>1, <3>3, <3>4
  <2>. QED BY <2>1, <2>2
<1>8. ASSUME NEW q \in DOMAIN new
      PROVE  \E p \in 1 .. n : \E j \in 0 .. W(p) - 1 : q = S(p) + j
  <2>1. q \in 1 .. Len(r) + Len(seq)
    BY <1>3
  <2>2. CASE q <= Len(r)
    <3>1. PICK p \in 1 .. n - 1 : \E j \in 0 .. W(p) - 1 : q = S(p) + j
      BY <1>1, <1>2, <2>1, <2>2
    <3>2. p \in 1 .. n
      OBVIOUS
    <3>. QED BY <3>1, <3>2
  <2>3. CASE ~(q <= Len(r))
    <3>1. q - S(n) \in 0 .. W(n) - 1 /\ q = S(n) + (q - S(n)) /\ n \in 1 .. n
      BY <1>1, <2>1, <2>3 DEF W
    <3>. QED BY <3>1
  <2>. QED BY <2>2, <2>3
<1>. QED BY <1>3, <1>5, <1>7, <1>8 DEF Lowered, S, W, new

(* What the lowering works with.                                           *)
Working == [code  |-> code, loops |-> loopOf, tmp |-> CondTmp,
            label |-> [k \in Whiles |-> CondLabel(k)]]

LowerInv ==
    stage = "lower" =>
        /\ Flattened(code) /\ i \in 1 .. Len(code) + 1
        /\ LoopsFound(code, loopOf, Len(code))
        /\ Lowered(out, Working, i - 1)

LEMMA LoweringStarted ==
    ASSUME LoopsInv, StartLowering
    PROVE  LowerInv'
<1>1. /\ stage = "loops" /\ i > Len(code) /\ source' = source
      /\ i' = 1 /\ code' = code /\ out' = out /\ loopOf' = loopOf
  BY DEF StartLowering, LowerStart
<1>2. Flattened(code) /\ i = Len(code) + 1 /\ out = <<>> /\ LoopsFound(code, loopOf, i - 1)
      /\ Len(code) \in Nat
  BY <1>1 DEF LoopsInv, Flattened
<1>3. i - 1 = Len(code)
  BY <1>2
<1>4. \A z : Lowered(<<>>, z, 0)
  <2>. TAKE z
  <2>1. Start(z.code, 1) = 1
    BY StartIs
  <2>2. IsSeq(<<>>) /\ Len(<<>>) = 0
    BY DEF IsSeq
  <2>. QED BY <2>1, <2>2 DEF Lowered
<1>5. Flattened(code)' /\ LoopsFound(code, loopOf, Len(code))' /\ Lowered(out, Working, i - 1)'
  BY <1>1, <1>2, <1>3, <1>4, SameSource
<1>. QED BY <1>1, <1>2, <1>5 DEF LowerInv

LEMMA Prepended == \A a, b, c, d : <<a>> \o <<b, c, d>> = <<a, b, c, d>>
<1>. TAKE a, b, c, d
<1>. DEFINE A == {a, b, c, d}
            x == <<a>>
            y == <<b, c, d>>
            s == x \o y
            t == <<a, b, c, d>>
<1>1. x \in Seq(A) /\ y \in Seq(A) /\ t \in Seq(A) /\ Len(x) = 1 /\ Len(y) = 3 /\ Len(t) = 4
  OBVIOUS
<1>. HIDE DEF x, y, A
<1>2. /\ s \in Seq(A) /\ Len(s) = 4
      /\ \A k \in 1 .. 4 : s[k] = IF k <= 1 THEN x[k] ELSE y[k - 1]
  <2>1. /\ s \in Seq(A) /\ Len(s) = Len(x) + Len(y)
        /\ \A k \in 1 .. Len(x) + Len(y) : s[k] = IF k <= Len(x) THEN x[k] ELSE y[k - Len(x)]
    BY <1>1, ConcatProperties
  <2>. HIDE DEF s
  <2>. QED BY <1>1, <2>1
<1>. HIDE DEF s, t
<1>3. \A k \in 1 .. 4 : k = 1 \/ k = 2 \/ k = 3 \/ k = 4
  OBVIOUS
<1>4. /\ x[1] = a /\ y[1] = b /\ y[2] = c /\ y[3] = d
      /\ t[1] = a /\ t[2] = b /\ t[3] = c /\ t[4] = d
  BY DEF x, y, t
<1>5. /\ s[1] = x[1] /\ s[2] = y[1] /\ s[3] = y[2] /\ s[4] = y[3]
  BY <1>2
<1>6. \A k \in 1 .. 4 : s[k] = t[k]
  BY <1>3, <1>4, <1>5
<1>7. s = [k \in 1 .. 4 |-> s[k]] /\ t = [k \in 1 .. 4 |-> t[k]]
  BY <1>1, <1>2
<1>8. s = t
  BY <1>6, <1>7
<1>. QED BY <1>8 DEF s, t, x, y

LEMMA Lowers ==
    ASSUME LowerInv, Lower
    PROVE  LowerInv'
<1>1. /\ stage = "lower" /\ stage' = stage /\ source' = source /\ LowerNext
  BY DEF Lower
<1>2. /\ Flattened(code) /\ i \in 1 .. Len(code) + 1 /\ LoopsFound(code, loopOf, Len(code))
      /\ Lowered(out, Working, i - 1)
  BY <1>1 DEF LowerInv
<1>3. /\ code \in Seq(Items) /\ DOMAIN code = 1 .. Len(code) /\ Len(code) \in Nat
      /\ item = code[i]
  BY <1>2 DEF Flattened, item
<1>. DEFINE z == Working
<1>4. /\ z.code = code /\ z.loops = loopOf /\ z.tmp = CondTmp
      /\ \A k \in Whiles : z.label[k] = CondLabel(k)
  BY DEF Working
<1>5. \A p \in DOMAIN loopOf : loopOf[p] \in Whiles
  BY <1>2, <1>3 DEF LoopsFound, Whiles
<1>. HIDE DEF z
<1>6. ASSUME NEW seq, Emit(seq), IsSeq(seq), i <= Len(code), Len(seq) = Width(code, i),
             \A j \in 0 .. Width(code, i) - 1 : seq[j + 1] = Part(z, i, j)
      PROVE  LowerInv'
  <2>1. /\ i' = i + 1 /\ out' = out \o seq /\ UNCHANGED <<params, code, loopOf>>
    BY <1>6 DEF Emit
  <2>2. i \in Nat \ {0} /\ i' \in 1 .. Len(code) + 1 /\ i' - 1 = i
    BY <1>2, <1>3, <1>6, <2>1
  <2>3. Lowered(out \o seq, z, i)
    BY <1>2, <1>4, <1>6, <2>2, LoweredGrows DEF z
  <2>4. Working' = z
    <3>1. CondTmp' = CondTmp /\ Whiles' = Whiles
      BY <2>1 DEF CondTmp, Whiles
    <3>2. \A k : CondLabel(k)' = CondLabel(k)
      BY <2>1, <3>1 DEF CondLabel
    <3>. QED BY <2>1, <3>1, <3>2 DEF Working, z
  <2>5. Lowered(out, Working, i - 1)'
    BY <2>1, <2>2, <2>3, <2>4
  <2>6. Flattened(code)' /\ LoopsFound(code, loopOf, Len(code))'
    BY <1>1, <1>2, <2>1, SameSource
  <2>. QED BY <2>1, <2>2, <2>5, <2>6 DEF LowerInv
<1>. DEFINE test == <<[Compare(CondTmp, item.names) EXCEPT !.of = item.of],
                      [Cond(CondTmp, item.to[1], item.to[2]) EXCEPT !.of = item.of]>>
<1>7. CASE LowerWhile
  <2>1. i <= Len(code) /\ item.op = "while" /\ Emit(<<Label(CondLabel(i))>> \o Tested)
    BY <1>7 DEF LowerWhile
  <2>. DEFINE seq == <<Label(CondLabel(i)), Declare(CondTmp), test[1], test[2]>>
  <2>. DEFINE emitted == <<Label(CondLabel(i))>> \o Tested
  <2>2. emitted = seq
    <3>1. \A a, b, c, d : <<a>> \o <<b, c, d>> = <<a, b, c, d>>
      BY Prepended
    <3>2. Tested = <<Declare(CondTmp), test[1], test[2]>>
      BY DEF Tested
    <3>3. emitted = <<Label(CondLabel(i))>> \o <<Declare(CondTmp), test[1], test[2]>>
      BY <3>2
    <3>. HIDE DEF test
    <3>. QED BY <3>1, <3>3
  <2>3. i \in Whiles /\ Width(code, i) = 4
    BY <1>2, <1>3, <2>1 DEF Whiles, Width
  <2>4. IsSeq(seq) /\ Len(seq) = 4
    BY DEF IsSeq, Range
  <2>5. \A j \in 0 .. 3 : seq[j + 1] = Part(z, i, j)
    <3>1. \A j \in 0 .. 3 : j = 0 \/ j = 1 \/ j = 2 \/ j = 3
      OBVIOUS
    <3>2. Part(z, i, 0) = Label(CondLabel(i))
      BY <1>3, <1>4, <2>1, <2>3 DEF Part
    <3>3. Part(z, i, 1) = Declare(CondTmp)
      BY <1>3, <1>4, <2>1 DEF Part
    <3>4. Part(z, i, 2) = test[1]
      BY <1>3, <1>4, <2>1 DEF Part
    <3>5. Part(z, i, 3) = test[2]
      BY <1>3, <1>4, <2>1 DEF Part
    <3>. HIDE DEF test
    <3>. QED BY <3>1, <3>2, <3>3, <3>4, <3>5
  <2>6. Emit(emitted)
    BY <2>1
  <2>. HIDE DEF seq, emitted
  <2>7. Emit(seq)
    BY <2>2, <2>6
  <2>. QED BY <1>6, <2>1, <2>3, <2>4, <2>5, <2>7
<1>8. CASE LowerIf
  <2>1. i <= Len(code) /\ item.op = "if" /\ Emit(Tested)
    BY <1>8 DEF LowerIf
  <2>. DEFINE seq == <<Declare(CondTmp), test[1], test[2]>>
  <2>2. Tested = seq
    BY DEF Tested
  <2>3. Width(code, i) = 3
    BY <1>3, <2>1 DEF Width
  <2>4. IsSeq(seq) /\ Len(seq) = 3
    BY DEF IsSeq, Range
  <2>5. \A j \in 0 .. 2 : seq[j + 1] = Part(z, i, j)
    <3>1. \A j \in 0 .. 2 : j = 0 \/ j = 1 \/ j = 2
      OBVIOUS
    <3>2. Part(z, i, 0) = Declare(CondTmp)
      BY <1>3, <1>4, <2>1 DEF Part
    <3>3. Part(z, i, 1) = test[1]
      BY <1>3, <1>4, <2>1 DEF Part
    <3>4. Part(z, i, 2) = test[2]
      BY <1>3, <1>4, <2>1 DEF Part
    <3>. HIDE DEF test
    <3>. QED BY <3>1, <3>2, <3>3, <3>4
  <2>. HIDE DEF seq
  <2>. QED BY <1>6, <2>1, <2>2, <2>3, <2>4, <2>5
<1>9. ASSUME NEW it, Emit(<<it>>), i <= Len(code), item.op \notin {"while", "if"},
             it = Part(z, i, 0)
      PROVE  LowerInv'
  <2>1. Width(code, i) = 1 /\ IsSeq(<<it>>) /\ Len(<<it>>) = 1
    BY <1>3, <1>9 DEF Width, IsSeq, Range
  <2>2. \A j \in 0 .. 0 : <<it>>[j + 1] = Part(z, i, j)
    BY <1>9
  <2>. QED BY <1>6, <1>9, <2>1, <2>2
<1>10. CASE LowerContinue
  <2>. DEFINE it == IF i \in DOMAIN loopOf
                    THEN [Branch(CondLabel(loopOf[i])) EXCEPT !.of = item.of] ELSE item
  <2>1. i <= Len(code) /\ item.op = "continue" /\ Emit(<<it>>)
    BY <1>10 DEF LowerContinue
  <2>2. it = Part(z, i, 0)
    BY <1>3, <1>4, <1>5, <2>1 DEF Part
  <2>. HIDE DEF it
  <2>. QED BY <1>9, <2>1, <2>2
<1>11. CASE LowerBreak
  <2>. DEFINE it == IF i \in DOMAIN loopOf
                    THEN [Branch(code[loopOf[i]].to[2]) EXCEPT !.of = item.of] ELSE item
  <2>1. i <= Len(code) /\ item.op = "break" /\ Emit(<<it>>)
    BY <1>11 DEF LowerBreak
  <2>2. it = Part(z, i, 0)
    BY <1>3, <1>4, <2>1 DEF Part
  <2>. HIDE DEF it
  <2>. QED BY <1>9, <2>1, <2>2
<1>12. CASE LowerOther
  <2>1. i <= Len(code) /\ item.op \notin {"while", "if", "continue", "break"} /\ Emit(<<item>>)
    BY <1>12 DEF LowerOther
  <2>2. item = Part(z, i, 0)
    BY <1>3, <1>4, <2>1 DEF Part
  <2>. QED BY <1>9, <2>1, <2>2
<1>. QED BY <1>1, <1>7, <1>8, <1>10, <1>11, <1>12 DEF LowerNext

(* What an instruction c of the result stands for.                         *)
IsPart(c, z, p, j) ==
    LET it == z.code[p]
        W  == Width(z.code, p)
        d  == Part(z, p, j - 1)
    IN  /\ c.of = 0 => j + 1 \in 0 .. W - 1 /\ c.op \in {"label", "declare"}
        /\ c.of # 0 => c.of = it.of
        /\ c.op = "label" => j = 0 /\ (c = it \/ (it.op = "while" /\ c.to = <<z.label[p]>>))
        /\ c.op \in {"declare", "use", "label"} /\ c.of # 0 => W = 1 /\ j = 0 /\ c = it
        /\ c.op = "compare" => j + 1 \in 0 .. W - 1
        /\ c.op = "cond" =>
              /\ it.op \in {"while", "if"} /\ c.of = it.of /\ c.names = <<z.tmp>>
              /\ c.to = <<it.to[1], it.to[2]>>
              /\ j - 1 \in 0 .. W - 1
              /\ d.op = "compare" /\ d.of = it.of /\ d.names = <<z.tmp>> \o it.names
        /\ c.op = "branch" =>
              /\ c.of = it.of
              /\ \/ it.op = "branch" /\ c = it
                 \/ /\ it.op = "continue" /\ p \in DOMAIN z.loops
                    /\ c.to = <<z.label[z.loops[p]]>>
                 \/ /\ it.op = "break" /\ p \in DOMAIN z.loops
                    /\ c.to = <<z.code[z.loops[p]].to[2]>>
        /\ c.op \in {"break", "continue"} => p \notin DOMAIN z.loops /\ c.of = it.of
        /\ c.op \notin {"cond", "compare"} /\ c.of # 0 => c.names = <<>> \/ c.names = it.names

LEMMA PartIs ==
    ASSUME NEW z, Flattened(z.code), NEW p \in DOMAIN z.code,
           NEW j \in 0 .. Width(z.code, p) - 1
    PROVE  IsPart(Part(z, p, j), z, p, j)
<1>. DEFINE it == z.code[p]
            W  == Width(z.code, p)
            c  == Part(z, p, j)
<1>1. it \in Items /\ it.of \in Nat \ {0} /\ it.op \notin {"compare", "cond"}
  <2>1. it \in Items /\ it.of \in 1 .. Len(source)
    BY PlacesOrdered
  <2>. QED BY <2>1, ItemFields
<1>. DEFINE t == IF it.op = "while" THEN 1 ELSE 0
            cmp == [Compare(z.tmp, it.names) EXCEPT !.of = it.of]
            cnd == [Cond(z.tmp, it.to[1], it.to[2]) EXCEPT !.of = it.of]
<1>2. CASE it.op \in {"while", "if"}
  <2>1. W = t + 3 /\ t \in {0, 1} /\ j \in 0 .. t + 2
    BY <1>2 DEF Width
  <2>2. /\ j < t => c = Label(z.label[p])
        /\ j = t => c = Declare(z.tmp)
        /\ j = t + 1 => c = cmp
        /\ j = t + 2 => c = cnd /\ Part(z, p, j - 1) = cmp
    BY <1>2, <2>1 DEF Part
  <2>3. CASE j < t
    <3>1. c.op = "label" /\ c.of = 0 /\ c.to = <<z.label[p]>>
      BY <2>2, <2>3 DEF Label, Item
    <3>2. j = 0 /\ it.op = "while" /\ j + 1 \in 0 .. W - 1
      BY <2>1, <2>3
    <3>. HIDE DEF c, W, it
    <3>. QED BY <3>1, <3>2 DEF IsPart, c, W, it
  <2>4. CASE j = t
    <3>1. c.op = "declare" /\ c.of = 0 /\ j + 1 \in 0 .. W - 1
      BY <2>1, <2>2, <2>4 DEF Declare, Item
    <3>. HIDE DEF c, W, it
    <3>. QED BY <3>1 DEF IsPart, c, W, it
  <2>5. CASE j = t + 1
    <3>1. c.op = "compare" /\ c.of = it.of /\ j + 1 \in 0 .. W - 1
      BY <2>1, <2>2, <2>5 DEF Compare, Item
    <3>. HIDE DEF c, W, it
    <3>. QED BY <1>1, <3>1 DEF IsPart, c, W, it
  <2>6. CASE j = t + 2
    <3>1. /\ c.op = "cond" /\ c.of = it.of /\ c.names = <<z.tmp>>
          /\ c.to = <<it.to[1], it.to[2]>>
      BY <2>2, <2>6 DEF Cond, Item
    <3>2. j - 1 \in 0 .. W - 1 /\ Part(z, p, j - 1) = cmp
      BY <2>1, <2>2, <2>6
    <3>3. cmp.op = "compare" /\ cmp.of = it.of /\ cmp.names = <<z.tmp>> \o it.names
      BY DEF Compare, Item
    <3>. HIDE DEF c, W, it, cmp
    <3>. QED BY <1>1, <1>2, <3>1, <3>2, <3>3 DEF IsPart, c, W, it
  <2>. QED BY <2>1, <2>3, <2>4, <2>5, <2>6
<1>3. CASE it.op \notin {"while", "if"}
  <2>1. W = 1 /\ j = 0
    BY <1>3 DEF Width
  <2>2. CASE it.op = "continue" /\ p \in DOMAIN z.loops
    <3>1. /\ c.op = "branch" /\ c.of = it.of /\ c.names = <<>>
          /\ c.to = <<z.label[z.loops[p]]>>
      BY <2>2 DEF Part, Branch, Item
    <3>. HIDE DEF c, W, it
    <3>. QED BY <1>1, <2>1, <2>2, <3>1 DEF IsPart, c, W, it
  <2>3. CASE it.op = "break" /\ p \in DOMAIN z.loops
    <3>1. /\ c.op = "branch" /\ c.of = it.of /\ c.names = <<>>
          /\ c.to = <<z.code[z.loops[p]].to[2]>>
      BY <2>3 DEF Part, Branch, Item
    <3>. HIDE DEF c, W, it
    <3>. QED BY <1>1, <2>1, <2>3, <3>1 DEF IsPart, c, W, it
  <2>4. CASE ~(it.op \in {"continue", "break"} /\ p \in DOMAIN z.loops)
    <3>1. c = it
      BY <1>3, <2>4 DEF Part
    <3>2. /\ it.of # 0 /\ it.op \notin {"while", "if", "compare", "cond"}
          /\ it.op \in {"break", "continue"} => p \notin DOMAIN z.loops
      BY <1>1, <1>3, <2>4
    <3>. DEFINE d == Part(z, p, j - 1)
    <3>3. /\ ~(c.of = 0) /\ c.of = it.of /\ c.op \notin {"compare", "cond"} /\ c.names = it.names
          /\ c.op = "branch" => it.op = "branch" /\ c = it
          /\ c.op \in {"break", "continue"} => p \notin DOMAIN z.loops
      <4>. HIDE DEF c, it
      <4>. QED BY <3>1, <3>2
    <3>4. IsPart(c, z, p, j)
      <4>. HIDE DEF c, d
      <4>. QED BY <2>1, <3>1, <3>3 DEF IsPart
    <3>. QED BY <3>4
  <2>. QED BY <2>2, <2>3, <2>4
<1>. QED BY <1>2, <1>3

-----------------------------------------------------------------------------
(* The run.                                                                *)

CodeLabels(f) == {f[j].to[1] : j \in {h \in DOMAIN f : f[h].op = "label"}}

FreshIn(z) ==
    /\ z.tmp \notin NamesIn(z.code) \cup params
    /\ \A w \in DOMAIN z.code : z.code[w].op = "while" =>
          /\ z.label[w] \notin CodeLabels(z.code)
          /\ \A v \in DOMAIN z.code :
                z.code[v].op = "while" /\ z.label[v] = z.label[w] => v = w

(* The code that runs is what stands for the source.                       *)
Compiled(z) ==
    /\ Flattened(z.code) /\ LoopsFound(z.code, z.loops, Len(z.code))
    /\ Lowered(code, z, Len(z.code)) /\ FreshIn(z)

(* The source is at instruction p, the result at a part of it.             *)
At(z, p) ==
    /\ p \in 1 .. Len(z.code) + 1
    /\ at = PlaceOf(z.code, p)
    /\ IF p \in DOMAIN z.code
       THEN \E j \in 0 .. Width(z.code, p) - 1 : pc = Start(z.code, p) + j
       ELSE pc = Start(z.code, p)

RunInv == stage = "run" => \E z : Compiled(z) /\ \E p : At(z, p)

FlowInv ==
    /\ source \in Bodies /\ params = Params
    /\ stage \in {"scopes", "loops", "lower"} => pc = 1
    /\ ScopesInv /\ LoopsInv /\ LowerInv /\ RunInv

(* The instruction at pc is the part that At says.                         *)
LEMMA NowIs ==
    ASSUME NEW z, Compiled(z), NEW p, At(z, p), pc \in DOMAIN code
    PROVE  /\ p \in DOMAIN z.code /\ at = z.code[p].of
           /\ \E j \in 0 .. Width(z.code, p) - 1 :
                 pc = Start(z.code, p) + j /\ now = Part(z, p, j)
<1>. DEFINE f == z.code
<1>1. f \in Seq(Items) /\ DOMAIN f = 1 .. Len(f) /\ Len(f) \in Nat
  BY DEF Compiled, Flattened
<1>2. p \in DOMAIN f
  <2>. SUFFICES ASSUME p \notin DOMAIN f PROVE FALSE
    OBVIOUS
  <2>1. p = Len(f) + 1 /\ pc = Start(f, Len(f) + 1)
    BY <1>1 DEF At
  <2>2. Len(code) = Start(f, Len(f) + 1) - 1 /\ DOMAIN code = 1 .. Len(code)
    BY DEF Compiled, Lowered, IsSeq
  <2>3. Start(f, Len(f) + 1) \in Nat
    <3>1. Len(f) + 1 \in Nat \ {0}
      BY <1>1
    <3>. HIDE DEF f
    <3>. QED BY <3>1, StartIs
  <2>. QED BY <2>1, <2>2, <2>3
<1>3. PICK j \in 0 .. Width(f, p) - 1 : pc = Start(f, p) + j
  BY <1>2 DEF At
<1>4. now = Part(z, p, j)
  <2>1. p \in 1 .. Len(f)
    BY <1>1, <1>2
  <2>. QED BY <1>3, <2>1 DEF Compiled, Lowered, now
<1>. QED BY <1>2, <1>3, <1>4 DEF At, PlaceOf

(* A label of the source is at one place of the result.                    *)
LEMMA LabelStands ==
    ASSUME NEW z, Compiled(z), NEW l, NEW s \in Places(source, l), NEW k \in Places(code, l)
    PROVE  \E p \in DOMAIN z.code : z.code[p].of = s /\ k = Start(z.code, p) + 0
<1>. DEFINE f == z.code
<1>1. /\ Flattened(f) /\ f \in Seq(Items) /\ DOMAIN f = 1 .. Len(f) /\ Len(f) \in Nat
      /\ source \in Bodies
  BY DEF Compiled, Flattened
<1>2. k \in DOMAIN code /\ code[k].op = "label" /\ code[k].to[1] = l
  BY DEF Places
<1>3. PICK p \in DOMAIN f : \E j \in 0 .. Width(f, p) - 1 : k = Start(f, p) + j
  BY <1>1, <1>2 DEF Compiled, Lowered
<1>4. PICK j \in 0 .. Width(f, p) - 1 : k = Start(f, p) + j
  BY <1>3
<1>5. code[k] = Part(z, p, j)
  BY <1>1, <1>4 DEF Compiled, Lowered
<1>6. \/ j = 0 /\ f[p].op = "while" /\ code[k].to = <<z.label[p]>>
      \/ j = 0 /\ code[k] = f[p]
  <2>1. IsPart(code[k], z, p, j)
    BY <1>1, <1>5, PartIs
  <2>. QED BY <1>2, <2>1 DEF IsPart
<1>7. l \in CodeLabels(f)
  <2>1. s \in DOMAIN source /\ source[s].op = "label" /\ source[s].to[1] = l
    BY DEF Places
  <2>2. PICK n \in DOMAIN f : f[n].of = s
    BY <1>1, <2>1 DEF Flattened, IsMark
  <2>3. f[n].op = "label" /\ f[n].to[1] = l
    BY <1>1, <2>1, <2>2 DEF Flattened
  <2>. QED BY <2>3 DEF CodeLabels
<1>8. ~(f[p].op = "while" /\ code[k].to = <<z.label[p]>>)
  BY <1>2, <1>7 DEF Compiled, FreshIn
<1>9. j = 0 /\ f[p].op = "label" /\ f[p].to[1] = l
  BY <1>2, <1>6, <1>8
<1>10. f[p].of \in Places(source, l)
  BY <1>1, <1>9, LabelAt
<1>11. f[p].of = s
  BY <1>1, <1>10, LabelsUnique
<1>. QED BY <1>4, <1>9, <1>11

(* The label before a comparison is at the start of its loop.              *)
LEMMA CondStands ==
    ASSUME NEW z, Compiled(z), NEW w \in DOMAIN z.code, z.code[w].op = "while",
           NEW k \in Places(code, z.label[w])
    PROVE  k = Start(z.code, w) + 0
<1>. DEFINE f == z.code
<1>1. /\ Flattened(f) /\ f \in Seq(Items) /\ DOMAIN f = 1 .. Len(f) /\ Len(f) \in Nat
  BY DEF Compiled, Flattened
<1>2. k \in DOMAIN code /\ code[k].op = "label" /\ code[k].to[1] = z.label[w]
  BY DEF Places
<1>3. PICK p \in DOMAIN f : \E j \in 0 .. Width(f, p) - 1 : k = Start(f, p) + j
  BY <1>1, <1>2 DEF Compiled, Lowered
<1>4. PICK j \in 0 .. Width(f, p) - 1 : k = Start(f, p) + j
  BY <1>3
<1>5. code[k] = Part(z, p, j)
  BY <1>1, <1>4 DEF Compiled, Lowered
<1>6. \/ j = 0 /\ f[p].op = "while" /\ code[k].to = <<z.label[p]>>
      \/ j = 0 /\ code[k] = f[p]
  <2>1. IsPart(code[k], z, p, j)
    BY <1>1, <1>5, PartIs
  <2>. QED BY <1>2, <2>1 DEF IsPart
<1>7. code[k] # f[p]
  <2>. SUFFICES ASSUME code[k] = f[p] PROVE FALSE
    OBVIOUS
  <2>1. z.label[w] \in CodeLabels(f)
    BY <1>2 DEF CodeLabels
  <2>. QED BY <2>1 DEF Compiled, FreshIn
<1>8. z.label[p] = z.label[w] /\ f[p].op = "while" /\ j = 0
  BY <1>2, <1>6, <1>7
<1>9. p = w
  BY <1>8 DEF Compiled, FreshIn
<1>. QED BY <1>4, <1>8, <1>9

LEMMA RunInvSuffices == FlowInv => InStep
<1>. SUFFICES ASSUME FlowInv, stage = "run"
              PROVE  InStep
  BY DEF InStep
<1>1. PICK z : Compiled(z) /\ \E p : At(z, p)
  BY DEF FlowInv, RunInv
<1>2. PICK p : At(z, p)
  BY <1>1
<1>. DEFINE f == z.code
<1>3. /\ Flattened(f) /\ f \in Seq(Items) /\ DOMAIN f = 1 .. Len(f) /\ Len(f) \in Nat
      /\ source \in Bodies /\ LoopsFound(f, z.loops, Len(f)) /\ Lowered(code, z, Len(f))
  BY <1>1 DEF Compiled, Flattened
<1>4. CASE pc \notin DOMAIN code
  <2>1. p \notin DOMAIN f
    <3>. SUFFICES ASSUME p \in DOMAIN f PROVE FALSE
      OBVIOUS
    <3>1. p \in 1 .. Len(f) /\ \E j \in 0 .. Width(f, p) - 1 : pc = Start(f, p) + j
      BY <1>2, <1>3 DEF At
    <3>. QED BY <1>3, <1>4, <3>1 DEF Lowered
  <2>2. at = Len(source) + 1
    BY <1>2, <2>1 DEF At, PlaceOf
  <2>. QED BY <1>4, <2>2 DEF InStep
<1>5. CASE pc \in DOMAIN code
  <2>1. /\ p \in DOMAIN f /\ at = f[p].of
        /\ \E j \in 0 .. Width(f, p) - 1 : pc = Start(f, p) + j /\ now = Part(z, p, j)
    BY <1>1, <1>2, <1>5, NowIs
  <2>2. PICK j \in 0 .. Width(f, p) - 1 : pc = Start(f, p) + j /\ now = Part(z, p, j)
    BY <2>1
  <2>3. p \in 1 .. Len(f) /\ at \in DOMAIN source /\ source[at].op = f[p].op
    BY <1>3, <2>1 DEF Flattened
  <2>4. p \in DOMAIN z.loops <=> LoopsAround(at) # {}
    BY <1>3, <2>1, <2>3 DEF LoopsFound
  <2>9. IsPart(now, z, p, j)
    BY <1>3, <2>1, <2>2, PartIs
  <2>5. now.of # 0 => at = now.of
    BY <2>1, <2>9 DEF IsPart
  <2>6. now.op = "branch" => source[at].op = "branch" \/ LoopsAround(at) # {}
    BY <2>1, <2>3, <2>4, <2>9 DEF IsPart
  <2>7. now.op \in {"break", "continue"} => LoopsAround(at) = {}
    BY <2>1, <2>4, <2>9 DEF IsPart
  <2>8. ASSUME now.op = "cond"
        PROVE  /\ code[pc - 1].op = "compare" /\ code[pc - 1].of = now.of
               /\ code[pc - 1].names[1] = now.names[1]
               /\ \A k \in DOMAIN code :
                    now.names[1] \in Range(code[k].names) =>
                        code[k].op \in {"cond", "compare"} \/ code[k].of = 0
               /\ now.names[1] \notin Range(Tail(code[pc - 1].names)) \cup params
    <3>. DEFINE d == Part(z, p, j - 1)
    <3>1. /\ now.of = f[p].of /\ now.names = <<z.tmp>> /\ j - 1 \in 0 .. Width(f, p) - 1
          /\ d.op = "compare" /\ d.of = f[p].of /\ d.names = <<z.tmp>> \o f[p].names
      BY <2>8, <2>9 DEF IsPart
    <3>2. code[pc - 1] = d
      <4>1. Start(f, p) + (j - 1) \in DOMAIN code /\ code[Start(f, p) + (j - 1)] = d
        BY <1>3, <2>3, <3>1 DEF Lowered
      <4>2. Start(f, p) \in Nat
        <5>1. p \in Nat \ {0}
          BY <1>3, <2>3
        <5>. HIDE DEF f
        <5>. QED BY <5>1, StartIs
      <4>3. pc - 1 = Start(f, p) + (j - 1)
        BY <2>2, <4>2
      <4>. QED BY <4>1, <4>3
    <3>3. z.tmp \notin NamesIn(f) \cup params
      BY <1>1 DEF Compiled, FreshIn
    <3>4. /\ d.names[1] = z.tmp /\ \A x \in Range(Tail(d.names)) : x \in Range(f[p].names)
      <4>. DEFINE s == f[p].names
                  A == AllNames \cup {z.tmp}
                  h == <<z.tmp>>
                  q == h \o s
      <4>1. s \in Seq(AllNames)
        <5>1. f[p] \in Items
          BY <1>3, <2>1
        <5>. QED BY <5>1, ItemFields
      <4>. HIDE DEF s
      <4>2. s \in Seq(A) /\ h \in Seq(A) /\ Len(h) = 1 /\ h[1] = z.tmp /\ Len(s) \in Nat
        BY <4>1
      <4>. HIDE DEF A, h
      <4>3. /\ q \in Seq(A) /\ Len(q) = 1 + Len(s)
            /\ \A k \in 1 .. 1 + Len(s) : q[k] = IF k <= 1 THEN h[k] ELSE s[k - 1]
        <5>1. /\ q \in Seq(A) /\ Len(q) = Len(h) + Len(s)
              /\ \A k \in 1 .. Len(h) + Len(s) : q[k] = IF k <= Len(h) THEN h[k] ELSE s[k - Len(h)]
          BY <4>2, ConcatProperties
        <5>. HIDE DEF q
        <5>. QED BY <4>2, <5>1
      <4>. HIDE DEF q
      <4>4. q[1] = z.tmp
        BY <4>2, <4>3
      <4>5. Tail(q) \in Seq(A) /\ Len(Tail(q)) = Len(s) /\ \A k \in 1 .. Len(s) : Tail(q)[k] = q[k + 1]
        BY <4>2, <4>3
      <4>6. \A k \in 1 .. Len(s) : Tail(q)[k] = s[k] /\ k \in DOMAIN s
        BY <4>1, <4>2, <4>3, <4>5
      <4>7. \A x \in Range(Tail(q)) : x \in Range(s)
        BY <4>5, <4>6 DEF Range
      <4>. QED BY <3>1, <4>4, <4>7 DEF q, h, s
    <3>5. \A n \in DOMAIN f : \A x \in Range(f[n].names) : x \in NamesIn(f)
      BY DEF NamesIn
    <3>6. ASSUME NEW k \in DOMAIN code, z.tmp \in Range(code[k].names)
          PROVE  code[k].op \in {"cond", "compare"} \/ code[k].of = 0
      <4>. SUFFICES ASSUME code[k].op \notin {"cond", "compare"}, code[k].of # 0
                    PROVE  FALSE
        OBVIOUS
      <4>1. PICK n \in 1 .. Len(f) : \E m \in 0 .. Width(f, n) - 1 : k = Start(f, n) + m
        BY <1>3 DEF Lowered
      <4>2. PICK m \in 0 .. Width(f, n) - 1 : k = Start(f, n) + m
        BY <4>1
      <4>3. code[k] = Part(z, n, m)
        BY <1>3, <4>2 DEF Lowered
      <4>7. n \in DOMAIN f /\ IsPart(Part(z, n, m), z, n, m)
        BY <1>3, PartIs
      <4>4. code[k].names = <<>> \/ code[k].names = f[n].names
        BY <4>3, <4>7 DEF IsPart
      <4>5. Range(<<>>) = {}
        BY DEF Range
      <4>6. z.tmp \in Range(f[n].names)
        BY <3>6, <4>4, <4>5
      <4>. QED BY <1>3, <3>3, <3>5, <4>6
    <3>. HIDE DEF d
    <3>7. now.names[1] = z.tmp
      BY <3>1
    <3>. QED BY <2>1, <3>1, <3>2, <3>3, <3>4, <3>5, <3>6, <3>7
  <2>. QED BY <1>5, <2>5, <2>6, <2>7, <2>8 DEF InStep
<1>. QED BY <1>4, <1>5

LEMMA SameResult ==
    ASSUME source' = source, params' = params, code' = code
    PROVE  \A z : Compiled(z)' <=> Compiled(z)
<1>. TAKE z
<1>1. FreshIn(z)' <=> FreshIn(z)
  BY DEF FreshIn
<1>2. /\ Flattened(z.code)' <=> Flattened(z.code)
      /\ LoopsFound(z.code, z.loops, Len(z.code))' <=> LoopsFound(z.code, z.loops, Len(z.code))
  BY SameSource
<1>3. Lowered(code, z, Len(z.code))' <=> Lowered(code, z, Len(z.code))
  OBVIOUS
<1>. QED BY <1>1, <1>2, <1>3 DEF Compiled

LEMMA Reaches ==
    ASSUME NEW z, Flattened(z.code), source' = source,
           NEW p \in 1 .. Len(z.code) + 1, at' = PlaceOf(z.code, p),
           NEW j \in Nat, j = 0 \/ (p \in DOMAIN z.code /\ j \in 0 .. Width(z.code, p) - 1),
           pc' = Start(z.code, p) + j
    PROVE  At(z, p)'
<1>. DEFINE f == z.code
<1>1. DOMAIN f = 1 .. Len(f) /\ Len(f) \in Nat
  BY DEF Flattened
<1>2. p \in Nat \ {0}
  BY <1>1
<1>3. Start(f, p) \in Nat \ {0} /\ Width(f, p) \in {1, 3, 4}
  BY <1>2, StartIs
<1>4. at' = PlaceOf(f, p)'
  BY SameSource
<1>5. CASE p \in DOMAIN f
  <2>1. j \in 0 .. Width(f, p) - 1
    BY <1>3
  <2>. QED BY <1>4, <1>5, <2>1 DEF At
<1>6. CASE p \notin DOMAIN f
  <2>1. j = 0 /\ pc' = Start(f, p)
    BY <1>3, <1>6
  <2>. QED BY <1>4, <1>6, <2>1 DEF At
<1>. QED BY <1>5, <1>6

LEMMA RunStarted ==
    ASSUME FlowInv, StartRun
    PROVE  RunInv'
<1>1. /\ stage = "lower" /\ i > Len(code) /\ source' = source /\ params' = params
      /\ code' = out /\ at' = Instruction(1) /\ pc' = pc
  BY DEF StartRun
<1>2. /\ Flattened(code) /\ i \in 1 .. Len(code) + 1 /\ LoopsFound(code, loopOf, Len(code))
      /\ Lowered(out, Working, i - 1) /\ pc = 1 /\ params = Params /\ source \in Bodies
  BY <1>1 DEF FlowInv, LowerInv
<1>3. code \in Seq(Items) /\ DOMAIN code = 1 .. Len(code) /\ Len(code) \in Nat
  BY <1>2 DEF Flattened
<1>4. Lowered(out, Working, Len(code))
  <2>1. i - 1 = Len(code)
    BY <1>1, <1>2, <1>3
  <2>. QED BY <1>2, <2>1
<1>5. PICK z : z = Working
  OBVIOUS
<1>6. /\ z.code = code /\ z.loops = loopOf /\ z.tmp = CondTmp
      /\ \A w \in Whiles : z.label[w] = CondLabel(w)
  BY <1>5 DEF Working
<1>7. FreshIn(z)
  <2>1. z.tmp \notin NamesIn(z.code) \cup params
    BY <1>2, <1>3, <1>6, CondTmpFresh, ParamsAssumption
  <2>2. ASSUME NEW w \in DOMAIN code, code[w].op = "while"
        PROVE  /\ z.label[w] \notin CodeLabels(code)
               /\ \A v \in DOMAIN code : code[v].op = "while" /\ z.label[v] = z.label[w] => v = w
    <3>1. w \in Whiles /\ \A v \in DOMAIN code : code[v].op = "while" => v \in Whiles
      BY <2>2 DEF Whiles
    <3>2. /\ CondLabel(w) \notin SourceLabels
          /\ \A v \in Whiles : CondLabel(v) = CondLabel(w) => v = w
      BY <1>3, <3>1, CondLabelFresh
    <3>3. CodeLabels(code) = SourceLabels
      BY DEF CodeLabels, SourceLabels
    <3>. QED BY <1>6, <3>1, <3>2, <3>3
  <2>. QED BY <1>6, <2>1, <2>2 DEF FreshIn
<1>8. Compiled(z)'
  <2>1. FreshIn(z)'
    BY <1>1, <1>7 DEF FreshIn
  <2>2. Flattened(z.code)' /\ LoopsFound(z.code, z.loops, Len(z.code))'
    BY <1>1, <1>2, <1>6, SameSource
  <2>3. Lowered(code, z, Len(z.code))'
    BY <1>1, <1>4, <1>5, <1>6
  <2>. QED BY <2>1, <2>2, <2>3 DEF Compiled
<1>9. At(z, 1)'
  <2>1. /\ PlaceOf(code, 1) \in 1 .. Len(source) + 1
        /\ \A h \in 1 .. PlaceOf(code, 1) - 1 : IsMark(source[h])
        /\ PlaceOf(code, 1) \in DOMAIN source => ~IsMark(source[PlaceOf(code, 1)])
    BY <1>2, FirstPlace
  <2>2. Instruction(1) = PlaceOf(code, 1)
    <3>1. Len(source) \in Nat
      BY <1>2, SourceIs
    <3>2. 1 \in 1 .. Len(source) + 1
      BY <3>1
    <3>. DEFINE j == PlaceOf(code, 1)
    <3>. HIDE DEF j
    <3>3. Instruction(1) = j
      BY <1>2, <2>1, <3>2, InstructionIs DEF j
    <3>. QED BY <3>3 DEF j
  <2>3. Start(code, 1) = 1
    <3>1. 1 \in Nat \ {0}
      OBVIOUS
    <3>. QED BY <3>1, StartIs
  <2>4. 1 \in 1 .. Len(z.code) + 1 /\ pc' = Start(z.code, 1) + 0 /\ at' = PlaceOf(z.code, 1)
    BY <1>1, <1>2, <1>3, <1>6, <2>2, <2>3
  <2>5. Flattened(z.code) /\ 0 \in Nat
    BY <1>2, <1>6
  <2>. QED BY <1>1, <2>4, <2>5, Reaches
<1>. QED BY <1>8, <1>9 DEF RunInv

(* A step of both leads from an instruction to what stands for it.         *)
LEMMA RunKept ==
    ASSUME FlowInv, Run
    PROVE  RunInv'
<1>1. source' = source /\ params' = params /\ code' = code
  BY DEF Run
<1>2. CASE RunStop
  BY <1>2 DEF RunStop, RunInv
<1>3. CASE ~RunStop
  <2>1. /\ RunBranch \/ RunJump \/ RunOther \/ RunCompare
        /\ stage = "run" /\ pc \in DOMAIN code /\ stage' = stage
    BY <1>3 DEF Run, RunBranch, RunJump, RunOther, RunCompare, CanRun
  <2>2. PICK z : Compiled(z) /\ \E p : At(z, p)
    BY <2>1 DEF FlowInv, RunInv
  <2>3. PICK p : At(z, p)
    BY <2>2
  <2>. DEFINE f == z.code
  <2>4. /\ Flattened(f) /\ f \in Seq(Items) /\ DOMAIN f = 1 .. Len(f) /\ Len(f) \in Nat
        /\ source \in Bodies /\ LoopsFound(f, z.loops, Len(f))
    BY <2>2 DEF Compiled, Flattened
  <2>5. p \in DOMAIN f /\ at = f[p].of
    BY <2>1, <2>2, <2>3, NowIs
  <2>6. PICK j \in 0 .. Width(f, p) - 1 : pc = Start(f, p) + j /\ now = Part(z, p, j)
    BY <2>1, <2>2, <2>3, NowIs
  <2>7. IsPart(now, z, p, j)
    BY <2>4, <2>5, <2>6, PartIs
  <2>8. /\ p \in Nat \ {0} /\ at = PlaceOf(f, p) /\ at \in DOMAIN source
        /\ f[p].op = source[at].op /\ f[p].to = source[at].to
    BY <2>4, <2>5 DEF Flattened, PlaceOf
  <2>9. /\ Start(f, p) \in Nat /\ Width(f, p) \in {1, 3, 4}
        /\ Start(f, p + 1) = Start(f, p) + Width(f, p)
    BY <2>8, StartIs
  <2>10. ASSUME NEW q \in 1 .. Len(f) + 1, at' = PlaceOf(f, q), NEW h \in Nat,
                h = 0 \/ (q \in DOMAIN f /\ h \in 0 .. Width(f, q) - 1),
                pc' = Start(f, q) + h
         PROVE  RunInv'
    <3>1. Compiled(z)'
      BY <1>1, <2>2, SameResult
    <3>2. At(z, q)'
      BY <1>1, <2>4, <2>10, Reaches
    <3>. QED BY <3>1, <3>2 DEF RunInv
  <2>11. ASSUME j + 1 \in 0 .. Width(f, p) - 1, at' = at, pc' = pc + 1
         PROVE  RunInv'
    <3>1. p \in 1 .. Len(f) + 1 /\ j + 1 \in Nat /\ pc' = Start(f, p) + (j + 1)
      BY <2>4, <2>5, <2>6, <2>9, <2>11
    <3>. QED BY <2>5, <2>8, <2>10, <2>11, <3>1
  (* To a label of the source.                                             *)
  <2>12. ASSUME NEW l, NEW s \in Places(source, l), at' = Instruction(s), pc' \in Places(code, l)
         PROVE  RunInv'
    <3>1. PICK q \in DOMAIN f : f[q].of = s /\ pc' = Start(f, q) + 0
      BY <2>2, <2>12, LabelStands
    <3>2. at' = PlaceOf(f, q) /\ q \in 1 .. Len(f) + 1 /\ 0 \in Nat
      BY <2>4, <2>12, <3>1, InstructionNext DEF PlaceOf
    <3>. QED BY <2>10, <3>1, <3>2
  <2>13. CASE RunOther
    <3>1. /\ now.op \in {"declare", "use", "label"} /\ pc' = pc + 1
          /\ at' = IF now.of = 0 THEN at ELSE Instruction(at + 1)
      BY <2>13 DEF RunOther
    <3>2. CASE now.of = 0
      <4>1. j + 1 \in 0 .. Width(f, p) - 1
        BY <2>7, <3>2 DEF IsPart
      <4>. QED BY <2>11, <3>1, <3>2, <4>1
    <3>3. CASE now.of # 0
      <4>1. Width(f, p) = 1 /\ j = 0
        BY <2>7, <3>1, <3>3 DEF IsPart
      <4>2. p + 1 \in 1 .. Len(f) + 1 /\ pc' = Start(f, p + 1) + 0 /\ 0 \in Nat
        BY <2>4, <2>5, <2>6, <2>9, <3>1, <4>1
      <4>3. at' = PlaceOf(f, p + 1)
        BY <2>4, <2>5, <3>1, <3>3, InstructionNext
      <4>. QED BY <2>10, <4>2, <4>3
    <3>. QED BY <3>2, <3>3
  <2>14. CASE RunCompare
    <3>1. now.op = "compare" /\ pc' = pc + 1 /\ at' = at
      BY <2>14 DEF RunCompare
    <3>2. j + 1 \in 0 .. Width(f, p) - 1
      BY <2>7, <3>1 DEF IsPart
    <3>. QED BY <2>11, <3>1, <3>2
  <2>15. CASE RunBranch
    <3>1. now.op = "cond"
      BY <2>15 DEF RunBranch
    <3>2. PICK k \in DOMAIN source[at].to :
             /\ at' \in {Instruction(s) : s \in Places(source, source[at].to[k])}
             /\ pc' \in Places(code, now.to[k])
      BY <2>15 DEF RunBranch
    <3>3. f[p].op \in {"while", "if"} /\ now.to = <<f[p].to[1], f[p].to[2]>>
      BY <2>7, <3>1 DEF IsPart
    <3>4. source[at].to \in Seq(AllNames) /\ Len(source[at].to) = 2
      <4>1. source[at] \in Items
        BY <2>4, <2>8, SourceIs
      <4>. QED BY <2>8, <3>3, <4>1 DEF Items
    <3>5. k \in {1, 2} /\ now.to[k] = source[at].to[k]
      <4>. DEFINE t == source[at].to
      <4>1. DOMAIN t = 1 .. 2 /\ now.to = <<t[1], t[2]>> /\ k \in DOMAIN t
        BY <2>8, <3>3, <3>4
      <4>. HIDE DEF t
      <4>2. k = 1 \/ k = 2
        BY <4>1
      <4>3. now.to[1] = t[1] /\ now.to[2] = t[2]
        BY <4>1
      <4>. QED BY <4>2, <4>3 DEF t
    <3>. DEFINE l == source[at].to[k]
    <3>6. PICK s \in Places(source, l) : at' = Instruction(s)
      BY <3>2
    <3>7. pc' \in Places(code, l)
      BY <3>2, <3>5
    <3>. QED BY <2>12, <3>6, <3>7
  <2>16. CASE RunJump
    <3>1. /\ now.op = "branch" /\ at' \in {Instruction(s) : s \in Target(at)}
          /\ pc' \in Places(code, now.to[1])
      BY <2>16 DEF RunJump
    <3>2. PICK s \in Target(at) : at' = Instruction(s)
      BY <3>1
    <3>3. \/ f[p].op = "branch" /\ now = f[p]
          \/ /\ f[p].op = "continue" /\ p \in DOMAIN z.loops
             /\ now.to = <<z.label[z.loops[p]]>>
          \/ /\ f[p].op = "break" /\ p \in DOMAIN z.loops
             /\ now.to = <<f[z.loops[p]].to[2]>>
      BY <2>7, <3>1 DEF IsPart
    <3>. DEFINE w == z.loops[p]
    <3>4. p \in DOMAIN z.loops =>
             w \in DOMAIN f /\ f[w].op = "while" /\ f[w].of = LoopAround(at)
      BY <2>4, <2>5 DEF LoopsFound
    <3>5. CASE f[p].op = "branch" /\ now = f[p]
      <4>. DEFINE l == source[at].to[1]
      <4>1. s \in Places(source, l) /\ pc' \in Places(code, l)
        BY <2>8, <3>1, <3>2, <3>5 DEF Target
      <4>. HIDE DEF l
      <4>. QED BY <2>12, <3>2, <4>1
    <3>6. CASE f[p].op = "continue" /\ p \in DOMAIN z.loops /\ now.to = <<z.label[w]>>
      <4>1. s = f[w].of
        BY <2>8, <3>2, <3>4, <3>6 DEF Target
      <4>2. pc' \in Places(code, z.label[w])
        BY <3>1, <3>6
      <4>3. pc' = Start(f, w) + 0
        BY <2>2, <3>4, <3>6, <4>2, CondStands
      <4>4. at' = PlaceOf(f, w) /\ w \in 1 .. Len(f) + 1 /\ 0 \in Nat
        BY <2>4, <3>2, <3>4, <3>6, <4>1, InstructionNext DEF PlaceOf
      <4>. QED BY <2>10, <4>3, <4>4
    <3>7. CASE f[p].op = "break" /\ p \in DOMAIN z.loops /\ now.to = <<f[w].to[2]>>
      <4>. DEFINE l == f[w].to[2]
      <4>1. source[LoopAround(at)].to = f[w].to
        BY <2>4, <3>4, <3>7 DEF Flattened
      <4>2. s \in Places(source, l) /\ pc' \in Places(code, l)
        BY <2>8, <3>1, <3>2, <3>7, <4>1 DEF Target
      <4>. HIDE DEF l
      <4>. QED BY <2>12, <3>2, <4>2
    <3>. QED BY <3>3, <3>5, <3>6, <3>7
  <2>. QED BY <2>1, <2>13, <2>14, <2>15, <2>16
<1>. QED BY <1>2, <1>3

LEMMA FlowInit == Init => FlowInv
<1>. SUFFICES ASSUME Init PROVE FlowInv
  OBVIOUS
<1>1. ScopesInv
  BY ScopesInit
<1>2. stage = "scopes" /\ pc = 1 /\ params = Params
  BY DEF Init
<1>. QED BY <1>1, <1>2 DEF FlowInv, ScopesInv, LoopsInv, LowerInv, RunInv

LEMMA FlowKept == FlowInv /\ [Next]_vars => FlowInv'
<1>. SUFFICES ASSUME FlowInv, [Next]_vars PROVE FlowInv'
  OBVIOUS
<1>1. ScopesInv /\ LoopsInv /\ LowerInv /\ RunInv
  BY DEF FlowInv
<1>2. ScopesInv'
  BY <1>1, ScopesKept
<1>3. source' = source /\ params' = params
  BY DEF Next, vars, TranslateDecls, FlattenScopes, FindLoops, AssignLoop, StartLowering,
         LowerStart, Lower, LowerNext, LowerWhile, LowerIf, LowerContinue, LowerBreak,
         LowerOther, Emit, StartRun, Run
<1>4. ASSUME stage' \in {"scopes", "loops", "lower"}, pc' = pc, stage \in {"scopes", "loops", "lower"},
             LoopsInv', LowerInv'
      PROVE  FlowInv'
  BY <1>2, <1>3, <1>4 DEF FlowInv, ScopesInv, RunInv
<1>5. CASE TranslateDecls
  BY <1>4, <1>5 DEF TranslateDecls, LoopsInv, LowerInv
<1>6. CASE FlattenScopes
  BY <1>1, <1>4, <1>6, LoopsStarted DEF FlattenScopes, LowerInv
<1>7. CASE FindLoops
  BY <1>1, <1>4, <1>7, LoopAssigned DEF FindLoops, LowerInv
<1>8. CASE StartLowering
  BY <1>1, <1>4, <1>8, LoweringStarted DEF StartLowering, LoopsInv
<1>9. CASE Lower
  BY <1>1, <1>4, <1>9, Lowers DEF Lower, LoopsInv
<1>10. CASE StartRun
  <2>1. stage' = "run" /\ RunInv'
    BY <1>10, RunStarted DEF StartRun
  <2>. QED BY <1>2, <1>3, <2>1 DEF FlowInv, ScopesInv, LoopsInv, LowerInv
<1>11. CASE Run
  <2>1. stage' \in {"run", "stopped"} /\ RunInv'
    BY <1>11, RunKept DEF Run, RunBranch, RunJump, RunOther, RunCompare, RunStop, CanRun
  <2>. QED BY <1>2, <1>3, <2>1 DEF FlowInv, ScopesInv, LoopsInv, LowerInv
<1>12. CASE UNCHANGED vars
  <2>1. UNCHANGED <<source, params, code, i, out, loopStack, loopOf, stage, at, pc>>
    BY <1>12 DEF vars, loopState
  <2>2. LoopsInv'
    BY <1>1, <2>1, SameSource DEF LoopsInv
  <2>3. LowerInv'
    <3>1. Working' = Working
      BY <2>1 DEF Working, Whiles, CondTmp, CondLabel
    <3>. QED BY <1>1, <2>1, <3>1, SameSource DEF LowerInv
  <2>4. RunInv'
    <3>1. \A z : Compiled(z)' <=> Compiled(z)
      BY <2>1, SameResult
    <3>2. \A z, p : At(z, p)' <=> At(z, p)
      BY <2>1, SameSource DEF At
    <3>. QED BY <1>1, <2>1, <3>1, <3>2 DEF RunInv
  <2>. QED BY <1>2, <1>3, <2>1, <2>2, <2>3, <2>4 DEF FlowInv, ScopesInv
<1>. QED BY <1>5, <1>6, <1>7, <1>8, <1>9, <1>10, <1>11, <1>12 DEF Next

(* Whatever the scopes, labels, loops, breaks and continues of a body: the *)
(* result of translate_if_while follows its source on every path.          *)
THEOREM ResultFollowsSource == Spec => []InStep
BY FlowInit, FlowKept, RunInvSuffices, PTL DEF Spec
=============================================================================
