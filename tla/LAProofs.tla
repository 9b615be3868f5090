------------------------------ MODULE LAProofs ------------------------------
(***************************************************************************)
(* The passes of LA for functions of every length: the result consists of  *)
(* basic blocks, every label it uses is there, and every access is checked *)
(* on every path.                                                          *)
(***************************************************************************)
EXTENDS LAPasses, FiniteSetTheorems, SequenceTheorems, WellFoundedInduction, TLAPS

(* Induction: a set of naturals has a least element.                       *)
LEMMA HasLeast ==
    ASSUME NEW T, T \subseteq Nat, T # {}
    PROVE  \E x \in T : \A y \in T : x <= y
<1>. DEFINE R == {p \in Nat \X Nat : p[1] < p[2]}
<1>1. IsWellFoundedOn(OpToRel(<, Nat), Nat)
  BY NatLessThanWellFounded
<1>2. OpToRel(<, Nat) = R
  BY DEF OpToRel
<1>3. \E x \in T : \A y \in T : <<y, x>> \notin R
  <2>1. IsWellFoundedOn(R, Nat)
    BY <1>1, <1>2
  <2>. HIDE DEF R
  <2>. QED BY <2>1, WFMin
<1>4. PICK x \in T : \A y \in T : <<y, x>> \notin R
  BY <1>3
<1>5. \A y \in T : x <= y
  <2>. SUFFICES ASSUME NEW y \in T, ~ (x <= y) PROVE FALSE
    OBVIOUS
  <2>1. x \in Nat /\ y \in Nat /\ y < x
    OBVIOUS
  <2>2. <<y, x>> \in R
    BY <2>1
  <2>. QED BY <2>2, <1>4
<1>. QED BY <1>5

-----------------------------------------------------------------------------
(* The modules of the passes say the same of instructions.                 *)
LEMMA SameE ==
    /\ \A t : E!IsNum(t) = IsNum(t)
    /\ \A x, type : E!Def(x, type) = Def(x, type)
    /\ \A x, t : E!Assign(x, t) = Assign(x, t)
    /\ \A x, l, o, r : E!Op(x, l, o, r) = Op(x, l, o, r)
BY DEF IsNum, E!IsNum, E!Def, Def, E!Assign, Assign, E!Op, Op, Instr, E!Instr,
       NoName, E!NoName, Name, E!Name

LEMMA SameC ==
    /\ \A ins : C!IsTerminator(ins) = IsTerminator(ins)
    /\ \A x, type : C!Def(x, type) = Def(x, type)
    /\ \A x, t : C!Assign(x, t) = Assign(x, t)
    /\ \A x, l, o, r : C!Op(x, l, o, r) = Op(x, l, o, r)
    /\ \A t, l, m : C!Cond(t, l, m) = Cond(t, l, m)
    /\ \A l : C!Label(l) = Label(l)
    /\ \A l : C!Branch(l) = Branch(l)
    /\ \A x, a, ts : C!Length(x, a, ts) = Length(x, a, ts)
    /\ \A x, f, ts : C!Call(x, f, ts) = Call(x, f, ts)
    /\ \A ts : C!Return(ts) = Return(ts)
BY DEF C!IsTerminator, IsTerminator, C!Def, Def, C!Assign, Assign, C!Op, Op, C!Cond, Cond,
       C!Label, Label, C!Branch, Branch, C!Length, Length, C!Call, Call, C!Return, Return,
       Instr, C!Instr, NoName, C!NoName, Name, C!Name

-----------------------------------------------------------------------------
(* Sequences, whatever they hold, and code.                                *)
IsSeq(r) == r \in Seq(Range(r))

(* A sequence is one over its own elements.                                *)
LEMMA SeqIsSeq ==
    ASSUME NEW A, NEW r \in Seq(A)
    PROVE  IsSeq(r)
<1>1. Len(r) \in Nat /\ r = [k \in 1 .. Len(r) |-> r[k]]
  OBVIOUS
<1>2. \A k \in 1 .. Len(r) : r[k] \in Range(r)
  BY <1>1 DEF Range
<1>3. r \in [1 .. Len(r) -> Range(r)]
  BY <1>1, <1>2
<1>. QED BY <1>1, <1>3 DEF IsSeq

(* Its length and its domain.                                              *)
LEMMA IsSeqIs ==
    ASSUME NEW r, IsSeq(r)
    PROVE  Len(r) \in Nat /\ DOMAIN r = 1 .. Len(r)
BY DEF IsSeq

(* A function on 1 .. n is one.                                            *)
LEMMA FunctionIsSeq ==
    ASSUME NEW n \in Nat, NEW r, DOMAIN r = 1 .. n, r = [k \in 1 .. n |-> r[k]]
    PROVE  IsSeq(r) /\ Len(r) = n
<1>1. r \in [1 .. n -> Range(r)]
  BY DEF Range
<1>2. r \in Seq(Range(r))
  BY <1>1
<1>. QED BY <1>2 DEF IsSeq

(* Two sequences, one after the other.                                     *)
LEMMA Joined ==
    ASSUME NEW r, IsSeq(r), NEW s, IsSeq(s)
    PROVE  /\ IsSeq(r \o s) /\ Len(r) \in Nat /\ Len(s) \in Nat
           /\ Len(r \o s) = Len(r) + Len(s)
           /\ \A k \in 1 .. Len(r) + Len(s) :
                 (r \o s)[k] = IF k <= Len(r) THEN r[k] ELSE s[k - Len(r)]
<1>. DEFINE A == Range(r) \cup Range(s)
<1>1. r \in Seq(Range(r)) /\ s \in Seq(Range(s)) /\ Range(r) \subseteq A /\ Range(s) \subseteq A
  BY DEF IsSeq
<1>. HIDE DEF A
<1>2. r \in Seq(A) /\ s \in Seq(A)
  BY <1>1
<1>3. r \o s \in Seq(A)
  BY <1>2
<1>4. IsSeq(r \o s)
  BY <1>3, SeqIsSeq
<1>5. Len(r) \in Nat /\ Len(s) \in Nat
  BY <1>2
<1>6. /\ Len(r \o s) = Len(r) + Len(s)
      /\ \A k \in 1 .. Len(r) + Len(s) :
            (r \o s)[k] = IF k <= Len(r) THEN r[k] ELSE s[k - Len(r)]
  BY <1>2, ConcatProperties
<1>. QED BY <1>4, <1>5, <1>6

(* One more element.                                                       *)
LEMMA Appended ==
    ASSUME NEW r, IsSeq(r), NEW x
    PROVE  Append(r, x) = r \o <<x>> /\ IsSeq(<<x>>)
<1>. DEFINE A == Range(r) \cup {x}
<1>1. r \in Seq(A) /\ x \in A
  BY DEF IsSeq
<1>2. <<x>> \in Seq({x})
  OBVIOUS
<1>. QED BY <1>1, <1>2, AppendIsConcat, SeqIsSeq

Fields == {"op", "kind", "dst", "base", "args", "to", "of"}

IsCode(c) ==
    IsSeq(c) /\ \A k \in DOMAIN c : DOMAIN c[k] = Fields /\ IsSeq(c[k].args)

LabelsOf(c)  == {c[k].to[1] : k \in {n \in DOMAIN c : c[n].op = "label"}}
TargetsOf(c) == UNION {Range(c[k].to) : k \in {n \in DOMAIN c : IsTerminator(c[n])}}

IsQuiet(c) == IsCode(c) /\ \A k \in DOMAIN c : c[k].op # "label" /\ ~IsTerminator(c[k])

(* Such code uses no labels.                                               *)
LEMMA QuietIs ==
    ASSUME NEW c, IsQuiet(c)
    PROVE  IsCode(c) /\ LabelsOf(c) = {} /\ TargetsOf(c) = {}
BY DEF IsQuiet, LabelsOf, TargetsOf

(* The labels and the jumps of two pieces of code are those of the pieces. *)
LEMMA CodeJoined ==
    ASSUME NEW r, IsCode(r), NEW s, IsCode(s)
    PROVE  /\ IsCode(r \o s)
           /\ LabelsOf(r \o s) = LabelsOf(r) \cup LabelsOf(s)
           /\ TargetsOf(r \o s) = TargetsOf(r) \cup TargetsOf(s)
           /\ IsQuiet(r) /\ IsQuiet(s) => IsQuiet(r \o s)
<1>. DEFINE t == r \o s
<1>1. /\ IsSeq(t) /\ Len(t) = Len(r) + Len(s) /\ Len(r) \in Nat /\ Len(s) \in Nat
      /\ \A k \in 1 .. Len(r) + Len(s) : t[k] = IF k <= Len(r) THEN r[k] ELSE s[k - Len(r)]
  BY Joined DEF IsCode
<1>. HIDE DEF t
<1>2. DOMAIN r = 1 .. Len(r) /\ DOMAIN s = 1 .. Len(s) /\ DOMAIN t = 1 .. Len(r) + Len(s)
  BY <1>1, IsSeqIs DEF IsCode
<1>3. \A k \in DOMAIN t :
        \/ k \in DOMAIN r /\ t[k] = r[k]
        \/ \E m \in DOMAIN s : t[k] = s[m]
  <2>. TAKE k \in DOMAIN t
  <2>1. CASE k <= Len(r)
    BY <1>1, <1>2, <2>1
  <2>2. CASE ~(k <= Len(r))
    <3>1. k - Len(r) \in DOMAIN s /\ t[k] = s[k - Len(r)]
      BY <1>1, <1>2, <2>2
    <3>. QED BY <3>1
  <2>. QED BY <2>1, <2>2
<1>4. \A k \in DOMAIN r : k \in DOMAIN t /\ t[k] = r[k]
  BY <1>1, <1>2
<1>5. \A m \in DOMAIN s : \E k \in DOMAIN t : t[k] = s[m]
  <2>. TAKE m \in DOMAIN s
  <2>1. m + Len(r) \in DOMAIN t /\ t[m + Len(r)] = s[m]
    BY <1>1, <1>2
  <2>. QED BY <2>1
<1>6. IsCode(t)
  BY <1>1, <1>3 DEF IsCode
<1>7. LabelsOf(t) = LabelsOf(r) \cup LabelsOf(s)
  BY <1>3, <1>4, <1>5 DEF LabelsOf
<1>8. TargetsOf(t) = TargetsOf(r) \cup TargetsOf(s)
  <2>1. TargetsOf(t) \subseteq TargetsOf(r) \cup TargetsOf(s)
    BY <1>3 DEF TargetsOf
  <2>2. TargetsOf(r) \cup TargetsOf(s) \subseteq TargetsOf(t)
    BY <1>4, <1>5 DEF TargetsOf
  <2>. QED BY <2>1, <2>2
<1>9. IsQuiet(r) /\ IsQuiet(s) => IsQuiet(t)
  BY <1>3, <1>6 DEF IsQuiet
<1>. QED BY <1>6, <1>7, <1>8, <1>9 DEF t

(* One instruction.                                                        *)
IsInstr(ins) == DOMAIN ins = Fields /\ IsSeq(ins.args)

(* As code, it has its own label and its own jumps.                        *)
LEMMA OneIs ==
    ASSUME NEW ins, IsInstr(ins)
    PROVE  /\ IsCode(<<ins>>)
           /\ LabelsOf(<<ins>>) = IF ins.op = "label" THEN {ins.to[1]} ELSE {}
           /\ TargetsOf(<<ins>>) = IF IsTerminator(ins) THEN Range(ins.to) ELSE {}
           /\ ins.op # "label" /\ ~IsTerminator(ins) => IsQuiet(<<ins>>)
<1>1. <<ins>> \in Seq({ins}) /\ DOMAIN <<ins>> = {1} /\ <<ins>>[1] = ins
  OBVIOUS
<1>2. IsCode(<<ins>>)
  BY <1>1, SeqIsSeq DEF IsCode, IsInstr
<1>. QED BY <1>1, <1>2 DEF LabelsOf, TargetsOf, IsQuiet

(* Sequences written out.                                                  *)
LEMMA TuplesAre ==
    /\ IsSeq(<<>>)
    /\ \A t : IsSeq(<<t>>)
    /\ \A t, u : IsSeq(<<t, u>>)
    /\ \A t, u, v : IsSeq(<<t, u, v>>)
    /\ \A t, u, v, w : IsSeq(<<t, u, v, w>>)
<1>1. IsSeq(<<>>)
  BY DEF IsSeq
<1>2. ASSUME NEW t PROVE IsSeq(<<t>>)
  <2>1. <<t>> \in Seq({t})
    OBVIOUS
  <2>. QED BY <2>1, SeqIsSeq
<1>3. ASSUME NEW t, NEW u PROVE IsSeq(<<t, u>>)
  <2>1. <<t, u>> \in Seq({t, u})
    OBVIOUS
  <2>. QED BY <2>1, SeqIsSeq
<1>4. ASSUME NEW t, NEW u, NEW v PROVE IsSeq(<<t, u, v>>)
  <2>1. <<t, u, v>> \in Seq({t, u, v})
    OBVIOUS
  <2>. QED BY <2>1, SeqIsSeq
<1>5. ASSUME NEW t, NEW u, NEW v, NEW w PROVE IsSeq(<<t, u, v, w>>)
  <2>1. <<t, u, v, w>> \in Seq({t, u, v, w})
    OBVIOUS
  <2>. QED BY <2>1, SeqIsSeq
<1>. QED BY <1>1, <1>2, <1>3, <1>4, <1>5

(* An instruction as the passes make it.                                   *)
LEMMA InstrIs ==
    \A op, kind, dst, base, args, to :
        IsSeq(args) =>
            /\ IsInstr(Instr(op, kind, dst, base, args, to))
            /\ Instr(op, kind, dst, base, args, to).op = op
            /\ Instr(op, kind, dst, base, args, to).to = to
BY DEF Instr, IsInstr, Fields

Plain(ins) == IsInstr(ins) /\ ins.op # "label" /\ ~IsTerminator(ins)

(* The plain instructions the passes insert.                               *)
LEMMA PlainIs ==
    /\ \A x, type : Plain(Def(x, type))
    /\ \A x, t : Plain(Assign(x, t))
    /\ \A x, l, o, r : Plain(Op(x, l, o, r))
    /\ \A x, a, ts : IsSeq(ts) => Plain(Length(x, a, ts))
    /\ \A x, f, ts : IsSeq(ts) => Plain(Call(x, f, ts))
<1>1. ASSUME NEW x, NEW type PROVE Plain(Def(x, type))
  <2>1. IsInstr(Def(x, type))
    BY TuplesAre, InstrIs DEF Def
  <2>2. Def(x, type).op = "def"
    BY DEF Def, Instr
  <2>. QED BY <2>1, <2>2 DEF Plain, IsTerminator
<1>2. ASSUME NEW x, NEW t PROVE Plain(Assign(x, t))
  <2>1. IsInstr(Assign(x, t))
    BY TuplesAre, InstrIs DEF Assign
  <2>2. Assign(x, t).op = "assign"
    BY DEF Assign, Instr
  <2>. QED BY <2>1, <2>2 DEF Plain, IsTerminator
<1>3. ASSUME NEW x, NEW l, NEW o, NEW r PROVE Plain(Op(x, l, o, r))
  <2>1. IsInstr(Op(x, l, o, r))
    BY TuplesAre, InstrIs DEF Op
  <2>2. Op(x, l, o, r).op = "op"
    BY DEF Op, Instr
  <2>. QED BY <2>1, <2>2 DEF Plain, IsTerminator
<1>4. ASSUME NEW x, NEW a, NEW ts, IsSeq(ts) PROVE Plain(Length(x, a, ts))
  <2>1. IsInstr(Length(x, a, ts))
    BY <1>4, InstrIs DEF Length
  <2>2. Length(x, a, ts).op = "length"
    BY DEF Length, Instr
  <2>. QED BY <2>1, <2>2 DEF Plain, IsTerminator
<1>5. ASSUME NEW x, NEW f, NEW ts, IsSeq(ts) PROVE Plain(Call(x, f, ts))
  <2>1. IsInstr(Call(x, f, ts))
    BY <1>5, InstrIs DEF Call
  <2>2. Call(x, f, ts).op = "call"
    BY DEF Call, Instr
  <2>. QED BY <2>1, <2>2 DEF Plain, IsTerminator
<1>. QED BY <1>1, <1>2, <1>3, <1>4, <1>5

(* A jump to the labels S, and the place of the label l.                   *)
IsJump(ins, S) == IsInstr(ins) /\ ins.op # "label" /\ IsTerminator(ins) /\ Range(ins.to) = S

IsMark(ins, l) ==
    IsInstr(ins) /\ ins.op = "label" /\ ~IsTerminator(ins) /\ ins.to[1] = l

(* The labels and jumps the passes insert.                                 *)
LEMMA ControlIs ==
    /\ \A l : IsMark(Label(l), l)
    /\ \A l : IsJump(Branch(l), {l})
    /\ \A t, l, m : IsJump(Cond(t, l, m), {l, m})
    /\ \A ts : IsSeq(ts) => IsJump(Return(ts), {})
<1>1. \A l : Range(<<l>>) = {l} /\ <<l>>[1] = l
  BY DEF Range
<1>2. \A l, m : Range(<<l, m>>) = {l, m}
  BY DEF Range
<1>3. Range(<<>>) = {}
  BY DEF Range
<1>4. ASSUME NEW l PROVE IsMark(Label(l), l)
  <2>1. IsInstr(Label(l))
    BY TuplesAre, InstrIs DEF Label
  <2>2. Label(l).op = "label" /\ Label(l).to = <<l>>
    BY DEF Label, Instr
  <2>. QED BY <1>1, <2>1, <2>2 DEF IsTerminator, IsMark
<1>5. ASSUME NEW l PROVE IsJump(Branch(l), {l})
  <2>1. IsInstr(Branch(l))
    BY TuplesAre, InstrIs DEF Branch
  <2>2. Branch(l).op = "branch" /\ Branch(l).to = <<l>>
    BY DEF Branch, Instr
  <2>. QED BY <1>1, <2>1, <2>2 DEF IsTerminator, IsJump
<1>6. ASSUME NEW t, NEW l, NEW m PROVE IsJump(Cond(t, l, m), {l, m})
  <2>1. IsInstr(Cond(t, l, m))
    BY TuplesAre, InstrIs DEF Cond
  <2>2. Cond(t, l, m).op = "cond" /\ Cond(t, l, m).to = <<l, m>>
    BY DEF Cond, Instr
  <2>. QED BY <1>2, <2>1, <2>2 DEF IsTerminator, IsJump
<1>7. ASSUME NEW ts, IsSeq(ts) PROVE IsJump(Return(ts), {})
  <2>1. IsInstr(Return(ts))
    BY <1>7, InstrIs DEF Return
  <2>2. Return(ts).op = "return" /\ Return(ts).to = <<>>
    BY DEF Return, Instr
  <2>. QED BY <1>3, <2>1, <2>2 DEF IsTerminator, IsJump
<1>. QED BY <1>4, <1>5, <1>6, <1>7

(* Code without labels and jumps.                                          *)
LEMMA QuietTuples ==
    /\ IsQuiet(<<>>)
    /\ \A x : Plain(x) => IsQuiet(<<x>>)
    /\ \A x, y : Plain(x) /\ Plain(y) => IsQuiet(<<x, y>>)
    /\ \A x, y, z : Plain(x) /\ Plain(y) /\ Plain(z) => IsQuiet(<<x, y, z>>)
    /\ \A x, y, z, w : Plain(x) /\ Plain(y) /\ Plain(z) /\ Plain(w) => IsQuiet(<<x, y, z, w>>)
BY TuplesAre DEF Plain, IsQuiet, IsCode, IsInstr

(* What all passes have in common.  The first j - 1 instructions of c have *)
(* been passed, o has been written; the labels P are yet to come.          *)
Passed(c, o, j, P) ==
    /\ IsCode(c) /\ IsCode(o) /\ j \in Nat \ {0}
    /\ TargetsOf(c) \subseteq LabelsOf(c)
    /\ \A k \in DOMAIN c : k < j /\ c[k].op = "label" => c[k].to[1] \in LabelsOf(o)
    /\ TargetsOf(o) \subseteq TargetsOf(c) \cup LabelsOf(o) \cup P

(* One iteration writes s for the next instruction.                        *)
LEMMA PassStep ==
    ASSUME NEW c, NEW o, NEW j, NEW P, Passed(c, o, j, P), j <= Len(c),
           NEW s, IsCode(s), NEW Q, P \subseteq Q,
           c[j].op = "label" => c[j].to[1] \in LabelsOf(s),
           TargetsOf(s) \subseteq TargetsOf(c) \cup LabelsOf(s) \cup Q
    PROVE  Passed(c, o \o s, j + 1, Q)
<1>1. /\ IsCode(o \o s)
      /\ LabelsOf(o \o s) = LabelsOf(o) \cup LabelsOf(s)
      /\ TargetsOf(o \o s) = TargetsOf(o) \cup TargetsOf(s)
  BY CodeJoined DEF Passed
<1>2. \A k \in DOMAIN c : k < j + 1 => k < j \/ k = j
  <2>1. DOMAIN c = 1 .. Len(c) /\ j \in Nat
    BY IsSeqIs DEF Passed, IsCode
  <2>. QED BY <2>1
<1>3. ASSUME NEW k \in DOMAIN c, k < j + 1, c[k].op = "label"
      PROVE  c[k].to[1] \in LabelsOf(o \o s)
  BY <1>1, <1>2, <1>3 DEF Passed
<1>. QED BY <1>1, <1>3 DEF Passed

(* An instruction that is passed on with other arguments.                  *)
LEMMA PassedOn ==
    ASSUME NEW c, NEW o, NEW j, NEW P, Passed(c, o, j, P), j <= Len(c),
           NEW x, IsInstr(x), x.op = c[j].op, x.to = c[j].to,
           NEW s, IsCode(s), NEW Q, P \subseteq Q, TargetsOf(s) \subseteq LabelsOf(s) \cup Q
    PROVE  Passed(c, o \o (s \o <<x>>), j + 1, Q)
<1>1. /\ IsCode(<<x>>)
      /\ LabelsOf(<<x>>) = IF x.op = "label" THEN {x.to[1]} ELSE {}
      /\ TargetsOf(<<x>>) = IF IsTerminator(x) THEN Range(x.to) ELSE {}
  BY OneIs
<1>2. j \in DOMAIN c
  BY IsSeqIs DEF Passed, IsCode
<1>3. IsTerminator(x) => Range(x.to) \subseteq TargetsOf(c)
  BY <1>2 DEF TargetsOf, IsTerminator
<1>4. /\ IsCode(s \o <<x>>)
      /\ LabelsOf(s \o <<x>>) = LabelsOf(s) \cup LabelsOf(<<x>>)
      /\ TargetsOf(s \o <<x>>) = TargetsOf(s) \cup TargetsOf(<<x>>)
  BY <1>1, CodeJoined
<1>. QED BY <1>1, <1>3, <1>4, PassStep

-----------------------------------------------------------------------------
(* What encode_decode_values inserts decodes, and does nothing else.       *)
IsDecoding(acc) ==
    /\ DOMAIN acc = {"new", "terms", "cache", "counter"}
    /\ IsQuiet(acc.new) /\ IsSeq(acc.terms)

(* It stays so with one term more,                                         *)
LEMMA DecodeTermIs ==
    ASSUME NEW acc, IsDecoding(acc), NEW t
    PROVE  IsDecoding(E!DecodeTerm(acc, t))
<1>. DEFINE n == E!Fresh(E!names, acc.counter, 1)[1]
            two == <<E!Def(E!NewVar(n), "int64"), E!Op(E!NewVar(n), t, ">>", E!Num(1))>>
            r == E!DecodeTerm(acc, t)
<1>0. IsSeq(acc.terms) /\ IsQuiet(acc.new) /\ DOMAIN acc = {"new", "terms", "cache", "counter"}
  BY DEF IsDecoding
<1>1. \A x : IsSeq(Append(acc.terms, x))
  <2>. DEFINE q == acc.terms
  <2>1. IsSeq(q)
    BY <1>0
  <2>. HIDE DEF q
  <2>2. ASSUME NEW x PROVE IsSeq(Append(q, x))
    <3>1. Append(q, x) = q \o <<x>> /\ IsSeq(<<x>>)
      BY <2>1, Appended
    <3>2. IsSeq(q \o <<x>>)
      BY <2>1, <3>1, Joined
    <3>. QED BY <3>1, <3>2
  <2>. QED BY <2>2 DEF q
<1>2. ASSUME NEW x, r = [acc EXCEPT !.terms = Append(acc.terms, x)]
      PROVE  IsDecoding(r)
  <2>. DEFINE q == Append(acc.terms, x)
  <2>1. IsSeq(q) /\ r = [acc EXCEPT !.terms = q]
    BY <1>1, <1>2
  <2>. HIDE DEF r, q
  <2>2. DOMAIN r = DOMAIN acc /\ r.new = acc.new /\ r.terms = q
    BY <1>0, <2>1
  <2>. QED BY <1>0, <2>1, <2>2 DEF IsDecoding
<1>3. CASE E!IsNum(t) \/ ~E!IsInt(t.name)
  <2>1. r = [acc EXCEPT !.terms = Append(acc.terms, t)]
    BY <1>3 DEF E!DecodeTerm
  <2>. HIDE DEF r
  <2>2. IsDecoding(r)
    BY <1>2, <2>1
  <2>. QED BY <2>2 DEF r
<1>4. CASE ~E!IsNum(t) /\ E!IsInt(t.name) /\ t.name \in DOMAIN acc.cache
  <2>1. r = [acc EXCEPT !.terms = Append(acc.terms, E!Var(acc.cache[t.name]))]
    BY <1>4 DEF E!DecodeTerm
  <2>. HIDE DEF r
  <2>2. IsDecoding(r)
    BY <1>2, <2>1
  <2>. QED BY <2>2 DEF r
<1>5. CASE ~E!IsNum(t) /\ E!IsInt(t.name) /\ t.name \notin DOMAIN acc.cache
  <2>1. /\ DOMAIN r = {"new", "terms", "cache", "counter"}
        /\ r.new = acc.new \o two /\ r.terms = Append(acc.terms, E!Var(E!NewVar(n)))
    BY <1>5 DEF E!DecodeTerm
  <2>2. IsQuiet(two)
    BY SameE, PlainIs, QuietTuples
  <2>. HIDE DEF r, two
  <2>3. IsQuiet(acc.new \o two)
    BY <1>0, <2>2, CodeJoined DEF IsQuiet
  <2>4. IsDecoding(r)
    BY <1>1, <2>1, <2>3 DEF IsDecoding
  <2>. QED BY <2>4 DEF r
<1>. QED BY <1>3, <1>4, <1>5

(* The decoding of all terms, one after the other.                         *)
LEMMA DecodeAre ==
    ASSUME NEW terms, IsSeq(terms)
    PROVE  \E after :
              /\ after[0] = [new |-> <<>>, terms |-> <<>>, cache |-> cache, counter |-> counter]
              /\ \A k \in 1 .. Len(terms) : after[k] = E!DecodeTerm(after[k - 1], terms[k])
              /\ E!Decode(terms) = after[Len(terms)]
<1>. DEFINE N == Len(terms)
            start == [new |-> <<>>, terms |-> <<>>, cache |-> cache, counter |-> counter]
            step(g, k) == IF k = 0 THEN start ELSE E!DecodeTerm(g[k - 1], terms[k])
            upTo(g, n) == g = [k \in 0 .. n |-> step(g, k)]
            bad == {n \in 0 .. N : ~\E g : upTo(g, n)}
<1>0. N \in Nat
  BY IsSeqIs
<1>. HIDE DEF N, start
<1>1. bad = {}
  <2>. SUFFICES ASSUME bad # {} PROVE FALSE
    OBVIOUS
  <2>1. bad \subseteq Nat
    BY <1>0
  <2>2. PICK n \in bad : \A m \in bad : n <= m
    <3>. HIDE DEF bad
    <3>. QED BY <2>1, HasLeast
  <2>3. n \in 0 .. N /\ n \in Nat
    BY <1>0
  <2>4. CASE n = 0
    <3>. DEFINE g == [k \in 0 .. 0 |-> start]
    <3>1. upTo(g, 0)
      OBVIOUS
    <3>. QED BY <2>4, <3>1
  <2>5. CASE n # 0
    <3>1. n - 1 \in 0 .. N /\ n - 1 \notin bad
      <4>1. n - 1 \in 0 .. N /\ n \in 1 .. N /\ ~(n <= n - 1)
        BY <1>0, <2>3, <2>5
      <4>. HIDE DEF bad
      <4>. QED BY <2>2, <4>1
    <3>2. PICK f : upTo(f, n - 1)
      BY <3>1
    <3>. DEFINE g == [k \in 0 .. n |-> IF k = n THEN step(f, n) ELSE f[k]]
    <3>3. \A k \in 0 .. n - 1 : g[k] = f[k] /\ k \in 0 .. n
      BY <2>3
    <3>4. ASSUME NEW k \in 0 .. n
          PROVE  g[k] = step(g, k)
      <4>1. CASE k = n
        <5>1. n - 1 \in 0 .. n - 1
          BY <2>3, <2>5
        <5>2. g[n - 1] = f[n - 1]
          BY <3>3, <5>1
        <5>3. g[k] = E!DecodeTerm(f[n - 1], terms[n])
          BY <2>3, <2>5, <4>1
        <5>. HIDE DEF g, upTo
        <5>. QED BY <2>5, <4>1, <5>2, <5>3
      <4>2. CASE k # n
        <5>1. k \in 0 .. n - 1 /\ (k # 0 => k - 1 \in 0 .. n - 1)
          BY <2>3, <4>2
        <5>2. g[k] = f[k] /\ (k # 0 => g[k - 1] = f[k - 1])
          BY <3>3, <5>1
        <5>3. f[k] = step(f, k)
          BY <3>2, <5>1
        <5>. HIDE DEF g, upTo
        <5>. QED BY <5>2, <5>3
      <4>. QED BY <4>1, <4>2
    <3>5. upTo(g, n)
      BY <3>4
    <3>6. \E h : upTo(h, n)
      <4>. HIDE DEF upTo, g
      <4>. QED BY <3>5
    <3>. QED BY <2>2, <3>6
  <2>. QED BY <2>4, <2>5
<1>2. \E h : upTo(h, N)
  <2>1. N \in 0 .. N
    BY <1>0
  <2>. HIDE DEF upTo
  <2>. QED BY <1>1, <2>1
<1>. DEFINE after == CHOOSE g : g = [k \in 0 .. N |-> step(g, k)]
<1>3. after = [k \in 0 .. N |-> step(after, k)]
  BY <1>2
<1>4. E!Decode(terms) = after[N]
  BY DEF E!Decode, N, start
<1>. HIDE DEF after
<1>5. after[0] = start /\ \A k \in 1 .. N : after[k] = E!DecodeTerm(after[k - 1], terms[k])
  <2>1. after[0] = start
    BY <1>0, <1>3
  <2>2. ASSUME NEW k \in 1 .. N
        PROVE  after[k] = E!DecodeTerm(after[k - 1], terms[k])
    <3>1. k \in 0 .. N /\ k # 0
      BY <1>0
    <3>. QED BY <1>3, <3>1
  <2>. QED BY <2>1, <2>2
<1>. QED BY <1>4, <1>5 DEF N, start

(* and so for any number of terms, by induction.                           *)
LEMMA DecodeIs ==
    ASSUME NEW terms, IsSeq(terms)
    PROVE  IsDecoding(E!Decode(terms))
<1>. DEFINE N == Len(terms)
            start == [new |-> <<>>, terms |-> <<>>, cache |-> cache, counter |-> counter]
<1>0. N \in Nat
  BY IsSeqIs
<1>1. IsDecoding(start)
  BY QuietTuples, TuplesAre DEF IsDecoding
<1>2. PICK after : /\ after[0] = start
                   /\ \A k \in 1 .. N : after[k] = E!DecodeTerm(after[k - 1], terms[k])
                   /\ E!Decode(terms) = after[N]
  BY DecodeAre
<1>. HIDE DEF N, start
<1>3. \A k \in 0 .. N : IsDecoding(after[k])
  <2>. DEFINE wrong == {k \in 0 .. N : ~IsDecoding(after[k])}
  <2>. SUFFICES ASSUME wrong # {} PROVE FALSE
    OBVIOUS
  <2>1. wrong \subseteq Nat
    BY <1>0
  <2>2. PICK k \in wrong : \A m \in wrong : k <= m
    <3>. HIDE DEF wrong
    <3>. QED BY <2>1, HasLeast
  <2>3. k \in 0 .. N /\ k \in Nat /\ ~IsDecoding(after[k])
    BY <1>0
  <2>4. k # 0
    BY <1>1, <1>2, <2>3
  <2>5. k - 1 \in 0 .. N /\ k \in 1 .. N /\ ~(k <= k - 1)
    BY <1>0, <2>3, <2>4
  <2>6. IsDecoding(after[k - 1])
    <3>1. k - 1 \notin wrong
      <4>. HIDE DEF wrong
      <4>. QED BY <2>2, <2>5
    <3>. QED BY <2>5, <3>1
  <2>. QED BY <1>2, <2>3, <2>5, <2>6, DecodeTermIs
<1>. QED BY <1>0, <1>2, <1>3

-----------------------------------------------------------------------------
(* What check_allocation_access inserts.                                   *)
LabelsIn(S)  == {x.to[1] : x \in {y \in S : y.op = "label"}}
TargetsIn(S) == UNION {Range(x.to) : x \in {y \in S : IsTerminator(y)}}

(* The labels and the jumps of code are those of its instructions.         *)
LEMMA ListIs ==
    ASSUME NEW S, NEW c \in Seq(S), \A x \in S : IsInstr(x),
           \A x \in S : \E k \in DOMAIN c : c[k] = x
    PROVE  IsCode(c) /\ LabelsOf(c) = LabelsIn(S) /\ TargetsOf(c) = TargetsIn(S)
<1>1. \A k \in DOMAIN c : c[k] \in S
  OBVIOUS
<1>2. IsSeq(c)
  BY SeqIsSeq
<1>3. IsCode(c)
  BY <1>1, <1>2 DEF IsCode, IsInstr
<1>4. LabelsOf(c) = LabelsIn(S)
  BY <1>1 DEF LabelsOf, LabelsIn
<1>5. \A l : l \in TargetsOf(c) => l \in TargetsIn(S)
  BY <1>1 DEF TargetsOf, TargetsIn
<1>6. \A l : l \in TargetsIn(S) => l \in TargetsOf(c)
  BY DEF TargetsOf, TargetsIn
<1>. QED BY <1>3, <1>4, <1>5, <1>6

(* The same for code written out.                                          *)
LEMMA ListsAre ==
    /\ \A a, b, c, d, e :
         (\A x \in {a, b, c, d, e} : IsInstr(x)) =>
            /\ IsCode(<<a, b, c, d, e>>)
            /\ LabelsOf(<<a, b, c, d, e>>) = LabelsIn({a, b, c, d, e})
            /\ TargetsOf(<<a, b, c, d, e>>) = TargetsIn({a, b, c, d, e})
    /\ \A a, b, c :
         (\A x \in {a, b, c} : IsInstr(x)) =>
            /\ IsCode(<<a, b, c>>)
            /\ LabelsOf(<<a, b, c>>) = LabelsIn({a, b, c})
            /\ TargetsOf(<<a, b, c>>) = TargetsIn({a, b, c})
<1>1. ASSUME NEW a, NEW b, NEW c, NEW d, NEW e, \A x \in {a, b, c, d, e} : IsInstr(x)
      PROVE  /\ IsCode(<<a, b, c, d, e>>)
             /\ LabelsOf(<<a, b, c, d, e>>) = LabelsIn({a, b, c, d, e})
             /\ TargetsOf(<<a, b, c, d, e>>) = TargetsIn({a, b, c, d, e})
  <2>. DEFINE s == <<a, b, c, d, e>>
              S == {a, b, c, d, e}
  <2>1. s \in Seq(S)
    OBVIOUS
  <2>2. DOMAIN s = 1 .. 5 /\ s[1] = a /\ s[2] = b /\ s[3] = c /\ s[4] = d /\ s[5] = e
    OBVIOUS
  <2>3. \A x \in S : \E k \in DOMAIN s : s[k] = x
    <3>. HIDE DEF s
    <3>1. \A k \in {1, 2, 3, 4, 5} : k \in DOMAIN s
      BY <2>2
    <3>. QED BY <2>2, <3>1
  <2>. HIDE DEF s
  <2>4. \A x \in S : IsInstr(x)
    BY <1>1
  <2>. HIDE DEF S
  <2>5. IsCode(s) /\ LabelsOf(s) = LabelsIn(S) /\ TargetsOf(s) = TargetsIn(S)
    BY <2>1, <2>3, <2>4, ListIs
  <2>. QED BY <2>5 DEF s, S
<1>2. ASSUME NEW a, NEW b, NEW c, \A x \in {a, b, c} : IsInstr(x)
      PROVE  /\ IsCode(<<a, b, c>>)
             /\ LabelsOf(<<a, b, c>>) = LabelsIn({a, b, c})
             /\ TargetsOf(<<a, b, c>>) = TargetsIn({a, b, c})
  <2>. DEFINE s == <<a, b, c>>
              S == {a, b, c}
  <2>1. s \in Seq(S)
    OBVIOUS
  <2>2. DOMAIN s = 1 .. 3 /\ s[1] = a /\ s[2] = b /\ s[3] = c
    OBVIOUS
  <2>3. \A x \in S : \E k \in DOMAIN s : s[k] = x
    <3>. HIDE DEF s
    <3>1. \A k \in {1, 2, 3} : k \in DOMAIN s
      BY <2>2
    <3>. QED BY <2>2, <3>1
  <2>. HIDE DEF s
  <2>4. \A x \in S : IsInstr(x)
    BY <1>2
  <2>. HIDE DEF S
  <2>5. IsCode(s) /\ LabelsOf(s) = LabelsIn(S) /\ TargetsOf(s) = TargetsIn(S)
    BY <2>1, <2>3, <2>4, ListIs
  <2>. QED BY <2>5 DEF s, S
<1>. QED BY <1>1, <1>2

(* The twelve instructions a check of an index begins with.                *)
LEMMA TwelveAre ==
    ASSUME NEW e1, NEW e2, NEW e3, NEW e4, NEW e5, NEW e6, NEW e7, NEW e8, NEW e9, NEW e10,
           NEW e11, NEW e12, NEW S, NEW c,
           S = {e1, e2, e3, e4, e5, e6, e7, e8, e9, e10, e11, e12},
           c = <<e1, e2, e3, e4, e5, e6, e7, e8, e9, e10, e11, e12>>,
           \A x \in S : IsInstr(x)
    PROVE  IsCode(c) /\ LabelsOf(c) = LabelsIn(S) /\ TargetsOf(c) = TargetsIn(S)
<1>1. c \in Seq(S)
  OBVIOUS
<1>2. /\ DOMAIN c = 1 .. 12 /\ c[1] = e1 /\ c[2] = e2 /\ c[3] = e3 /\ c[4] = e4 /\ c[5] = e5
      /\ c[6] = e6 /\ c[7] = e7 /\ c[8] = e8 /\ c[9] = e9 /\ c[10] = e10 /\ c[11] = e11
      /\ c[12] = e12
  OBVIOUS
<1>3. \A k \in {1, 2, 3, 4, 5, 6, 7, 8, 9, 10, 11, 12} : k \in DOMAIN c
  BY <1>2
<1>4. \A x \in S : \E k \in DOMAIN c : c[k] = x
  BY <1>2, <1>3
<1>. QED BY <1>1, <1>4, ListIs

(* The check for null jumps to its own label or to the error block.        *)
LEMMA NullCheckIs ==
    ASSUME NEW a, NEW k
    PROVE  /\ IsCode(C!NullCheck(a, k))
           /\ TargetsOf(C!NullCheck(a, k)) \subseteq LabelsOf(C!NullCheck(a, k)) \cup {C!errLabel}
<1>. DEFINE n    == C!Fresh(C!names, k, 2)
            cond == C!NewVar(n[1])
            ok   == C!NewVar(n[2])
            e1 == C!Def(cond, "int64")
            e2 == C!Assign(C!errLine, C!Number(C!line))
            e3 == C!Op(cond, C!Var(a), "=", C!Num(0))
            e4 == C!Cond(C!Var(cond), C!errLabel, ok)
            e5 == C!Label(ok)
<1>1. C!NullCheck(a, k) = <<e1, e2, e3, e4, e5>>
  BY DEF C!NullCheck
<1>2. Plain(e1) /\ Plain(e2) /\ Plain(e3)
  BY SameC, PlainIs
<1>3. IsJump(e4, {C!errLabel, ok}) /\ IsMark(e5, ok)
  BY SameC, ControlIs
<1>. HIDE DEF e1, e2, e3, e4, e5
<1>5. /\ IsCode(<<e1, e2, e3, e4, e5>>)
      /\ LabelsOf(<<e1, e2, e3, e4, e5>>) = LabelsIn({e1, e2, e3, e4, e5})
      /\ TargetsOf(<<e1, e2, e3, e4, e5>>) = TargetsIn({e1, e2, e3, e4, e5})
  BY <1>2, <1>3, ListsAre DEF Plain, IsJump, IsMark
<1>6. ok \in LabelsIn({e1, e2, e3, e4, e5})
  BY <1>3 DEF LabelsIn, IsMark
<1>7. TargetsIn({e1, e2, e3, e4, e5}) \subseteq {C!errLabel, ok}
  BY <1>2, <1>3 DEF TargetsIn, Plain, IsJump, IsMark
<1>. QED BY <1>1, <1>5, <1>6, <1>7

(* The check of one index jumps to its own labels only.                    *)
LEMMA BoundsCheckIs ==
    ASSUME NEW a, NEW d, NEW t, NEW lineVar, NEW k
    PROVE  LET new == C!BoundsCheck(a, d, t, lineVar, k).new
           IN  IsCode(new) /\ TargetsOf(new) \subseteq LabelsOf(new)
<1>. DEFINE n      == C!Fresh(C!names, k, IF C!IsNum(t) THEN 7 ELSE 8)
            lenEnc == C!NewVar(n[1])
            lenDec == C!NewVar(n[2])
            nonNeg == C!NewVar(n[3])
            lessThan == C!NewVar(n[4])
            below  == C!NewVar(n[5])
            err    == C!NewVar(n[6])
            ok     == C!NewVar(n[7])
            encode == IF C!IsNum(t) THEN <<>>
                      ELSE <<C!Def(C!NewVar(n[8]), "int64"),
                             C!Op(C!NewVar(n[8]), t, "<<", C!Num(1)),
                             C!Op(C!NewVar(n[8]), C!Var(C!NewVar(n[8])), "+", C!Num(1))>>
            index  == IF C!IsNum(t) THEN C!Number(t.num) ELSE C!Var(C!NewVar(n[8]))
            tuple  == C!TypeOf(a) = "tuple"
            report == CASE tuple -> C!Call(C!NoName, C!Name("tuple-error"),
                                           <<C!Var(lineVar), C!Var(lenEnc), index>>)
                        [] C!Rank(C!TypeOf(a)) = 1 ->
                             C!Call(C!NoName, C!Name("tensor-error"),
                                    <<C!Var(lineVar), C!Var(lenEnc), index>>)
                        [] OTHER ->
                             C!Call(C!NoName, C!Name("tensor-error"),
                                    <<C!Var(lineVar), C!Number(d - 1), C!Var(lenEnc), index>>)
            e1 == C!Def(lenEnc, "int64")
            e2 == C!Def(lenDec, "int64")
            e3 == C!Def(nonNeg, "int64")
            e4 == C!Def(lessThan, "int64")
            e5 == C!Length(lenEnc, a, IF tuple THEN <<>> ELSE <<C!Num(d - 1)>>)
            e6 == C!Op(lenDec, C!Var(lenEnc), ">>", C!Num(1))
            e7 == C!Op(nonNeg, t, ">=", C!Num(0))
            e8 == C!Cond(C!Var(nonNeg), below, err)
            e9 == C!Label(below)
            e10 == C!Op(lessThan, t, "<", C!Var(lenDec))
            e11 == C!Cond(C!Var(lessThan), ok, err)
            e12 == C!Label(err)
            last == C!Label(ok)
            first == <<e1, e2, e3, e4, e5, e6, e7, e8, e9, e10, e11, e12>>
            S == {e1, e2, e3, e4, e5, e6, e7, e8, e9, e10, e11, e12}
            new == C!BoundsCheck(a, d, t, lineVar, k).new
<1>1. new = (first \o encode) \o <<report, last>>
  BY DEF C!BoundsCheck
<1>2. Plain(e1) /\ Plain(e2) /\ Plain(e3) /\ Plain(e4) /\ Plain(e5) /\ Plain(e6) /\ Plain(e7)
      /\ Plain(e10)
  <2>1. IsSeq(IF tuple THEN <<>> ELSE <<C!Num(d - 1)>>)
    BY TuplesAre
  <2>. QED BY <2>1, SameC, PlainIs
<1>3. IsJump(e8, {below, err}) /\ IsJump(e11, {ok, err})
  BY SameC, ControlIs
<1>4. IsMark(e9, below) /\ IsMark(e12, err) /\ IsMark(last, ok)
  BY SameC, ControlIs
<1>5. IsQuiet(encode)
  <2>1. CASE C!IsNum(t)
    BY <2>1, QuietTuples
  <2>2. CASE ~C!IsNum(t)
    <3>. DEFINE q1 == C!Def(C!NewVar(n[8]), "int64")
                q2 == C!Op(C!NewVar(n[8]), t, "<<", C!Num(1))
                q3 == C!Op(C!NewVar(n[8]), C!Var(C!NewVar(n[8])), "+", C!Num(1))
    <3>1. encode = <<q1, q2, q3>>
      BY <2>2
    <3>2. Plain(q1) /\ Plain(q2) /\ Plain(q3)
      BY SameC, PlainIs
    <3>. HIDE DEF q1, q2, q3
    <3>3. IsQuiet(<<q1, q2, q3>>)
      BY <3>2, QuietTuples
    <3>. QED BY <3>1, <3>3
  <2>. QED BY <2>1, <2>2
<1>6. Plain(report)
  <2>1. /\ IsSeq(<<C!Var(lineVar), C!Var(lenEnc), index>>)
        /\ IsSeq(<<C!Var(lineVar), C!Number(d - 1), C!Var(lenEnc), index>>)
    BY TuplesAre
  <2>2. \/ report = C!Call(C!NoName, C!Name("tuple-error"),
                           <<C!Var(lineVar), C!Var(lenEnc), index>>)
        \/ report = C!Call(C!NoName, C!Name("tensor-error"),
                           <<C!Var(lineVar), C!Var(lenEnc), index>>)
        \/ report = C!Call(C!NoName, C!Name("tensor-error"),
                           <<C!Var(lineVar), C!Number(d - 1), C!Var(lenEnc), index>>)
    OBVIOUS
  <2>. HIDE DEF report
  <2>. QED BY <2>1, <2>2, SameC, PlainIs
<1>. HIDE DEF e1, e2, e3, e4, e5, e6, e7, e8, e9, e10, e11, e12, last, report, encode, new,
              below, err, ok
<1>7. \A x \in S : IsInstr(x)
  BY <1>2, <1>3, <1>4 DEF Plain, IsJump, IsMark
<1>8. IsCode(first) /\ LabelsOf(first) = LabelsIn(S) /\ TargetsOf(first) = TargetsIn(S)
  <2>1. S = S /\ first = first
    OBVIOUS
  <2>. QED BY <1>7, TwelveAre
<1>9. below \in LabelsIn(S) /\ err \in LabelsIn(S)
  BY <1>4 DEF LabelsIn, IsMark
<1>10. TargetsIn(S) \subseteq {below, err, ok}
  BY <1>2, <1>3, <1>4 DEF TargetsIn, Plain, IsJump, IsMark
<1>11. /\ IsCode(<<report, last>>) /\ ok \in LabelsOf(<<report, last>>)
       /\ TargetsOf(<<report, last>>) = {}
  <2>1. <<report, last>> = <<report>> \o <<last>>
    OBVIOUS
  <2>2. IsQuiet(<<report>>)
    BY <1>6, QuietTuples
  <2>3. IsCode(<<last>>) /\ LabelsOf(<<last>>) = {ok} /\ TargetsOf(<<last>>) = {}
    BY <1>4, OneIs DEF IsMark
  <2>. DEFINE q == <<report>>
              r == <<last>>
  <2>4. IsCode(q) /\ LabelsOf(q) = {} /\ TargetsOf(q) = {}
    BY <2>2, QuietIs
  <2>5. IsCode(r) /\ LabelsOf(r) = {ok} /\ TargetsOf(r) = {}
    BY <2>3
  <2>. HIDE DEF q, r
  <2>6. /\ IsCode(q \o r) /\ LabelsOf(q \o r) = {} \cup {ok}
        /\ TargetsOf(q \o r) = {} \cup {}
    BY <2>4, <2>5, CodeJoined
  <2>7. IsCode(q \o r) /\ ok \in LabelsOf(q \o r) /\ TargetsOf(q \o r) = {}
    BY <2>6
  <2>. QED BY <2>1, <2>7 DEF q, r
<1>. DEFINE tail == <<report, last>>
<1>. HIDE DEF first, S, tail
<1>12. /\ IsCode(first \o encode)
       /\ LabelsOf(first \o encode) = LabelsIn(S) \cup {}
       /\ TargetsOf(first \o encode) = TargetsIn(S) \cup {}
  <2>1. IsCode(encode) /\ LabelsOf(encode) = {} /\ TargetsOf(encode) = {}
    BY <1>5, QuietIs
  <2>2. IsCode(first)
    BY <1>8
  <2>3. /\ IsCode(first \o encode)
        /\ LabelsOf(first \o encode) = LabelsOf(first) \cup LabelsOf(encode)
        /\ TargetsOf(first \o encode) = TargetsOf(first) \cup TargetsOf(encode)
    BY <2>1, <2>2, CodeJoined
  <2>. QED BY <1>8, <2>1, <2>3
<1>13. /\ IsCode(new) /\ LabelsOf(new) = LabelsIn(S) \cup LabelsOf(tail)
       /\ TargetsOf(new) = TargetsIn(S)
  <2>. DEFINE head == first \o encode
  <2>1. new = head \o tail
    BY <1>1 DEF tail
  <2>2. IsCode(head) /\ LabelsOf(head) = LabelsIn(S) /\ TargetsOf(head) = TargetsIn(S)
    BY <1>12
  <2>3. IsCode(tail) /\ TargetsOf(tail) = {}
    BY <1>11 DEF tail
  <2>. HIDE DEF head
  <2>4. /\ IsCode(new) /\ LabelsOf(new) = LabelsOf(head) \cup LabelsOf(tail)
        /\ TargetsOf(new) = TargetsOf(head) \cup TargetsOf(tail)
    BY <2>1, <2>2, <2>3, CodeJoined
  <2>. QED BY <2>2, <2>3, <2>4
<1>14. TargetsOf(new) \subseteq LabelsOf(new)
  BY <1>9, <1>10, <1>11, <1>13 DEF tail
<1>. QED BY <1>13, <1>14 DEF new

(* The checks of all indices jump to labels of their own.                  *)
IsChecking(acc) ==
    /\ DOMAIN acc = {"new", "counter"}
    /\ IsCode(acc.new) /\ TargetsOf(acc.new) \subseteq LabelsOf(acc.new)

(* It stays so with one index more,                                        *)
LEMMA CheckingStep ==
    ASSUME NEW acc, IsChecking(acc), NEW a, NEW d, NEW t, NEW lineVar
    PROVE  IsChecking([new |-> acc.new \o C!BoundsCheck(a, d, t, lineVar, acc.counter).new,
                       counter |-> C!BoundsCheck(a, d, t, lineVar, acc.counter).counter])
<1>. DEFINE o == acc.new
            s == C!BoundsCheck(a, d, t, lineVar, acc.counter).new
            q == C!BoundsCheck(a, d, t, lineVar, acc.counter).counter
            r == [new |-> o \o s, counter |-> q]
<1>1. IsCode(s) /\ TargetsOf(s) \subseteq LabelsOf(s)
  BY BoundsCheckIs
<1>2. IsCode(o) /\ TargetsOf(o) \subseteq LabelsOf(o)
  BY DEF IsChecking
<1>. HIDE DEF o, s, q
<1>3. /\ IsCode(o \o s) /\ LabelsOf(o \o s) = LabelsOf(o) \cup LabelsOf(s)
      /\ TargetsOf(o \o s) = TargetsOf(o) \cup TargetsOf(s)
  BY <1>1, <1>2, CodeJoined
<1>4. DOMAIN r = {"new", "counter"} /\ r.new = o \o s
  OBVIOUS
<1>. HIDE DEF r
<1>5. IsChecking(r)
  BY <1>1, <1>2, <1>3, <1>4 DEF IsChecking
<1>. QED BY <1>5 DEF r, o, s, q

(* The check of all indices, one after the other.                          *)
OneByOne(a, terms, k0, after) ==
    LET lineNo == C!Fresh(C!names, k0, 1)[1]
    IN  /\ after[0] = [new |-> <<C!Def(C!NewVar(lineNo), "int64"),
                                 C!Assign(C!NewVar(lineNo), C!Number(C!line))>>,
                       counter |-> lineNo + 1]
        /\ \A k \in 1 .. Len(terms) : after[k] =
             [new |-> after[k - 1].new \o
                         C!BoundsCheck(a, k, terms[k], C!NewVar(lineNo),
                                       after[k - 1].counter).new,
              counter |-> C!BoundsCheck(a, k, terms[k], C!NewVar(lineNo),
                                        after[k - 1].counter).counter]

LEMMA BoundsChecksAre ==
    ASSUME NEW a, NEW terms, IsSeq(terms), NEW k0
    PROVE  \E after : /\ OneByOne(a, terms, k0, after)
                      /\ C!BoundsChecks(a, terms, k0) = after[Len(terms)]
<1>. DEFINE N == Len(terms)
            lineNo == C!Fresh(C!names, k0, 1)[1]
            start == [new |-> <<C!Def(C!NewVar(lineNo), "int64"),
                                C!Assign(C!NewVar(lineNo), C!Number(C!line))>>,
                      counter |-> lineNo + 1]
            nextOf(p, k) ==
                [new |-> p.new \o
                            C!BoundsCheck(a, k, terms[k], C!NewVar(lineNo), p.counter).new,
                 counter |-> C!BoundsCheck(a, k, terms[k], C!NewVar(lineNo), p.counter).counter]
            step(g, k) == IF k = 0 THEN start ELSE nextOf(g[k - 1], k)
            upTo(g, n) == g = [k \in 0 .. n |-> step(g, k)]
            bad == {n \in 0 .. N : ~\E g : upTo(g, n)}
<1>0. N \in Nat
  BY IsSeqIs
<1>. HIDE DEF N, start, nextOf
<1>1. bad = {}
  <2>. SUFFICES ASSUME bad # {} PROVE FALSE
    OBVIOUS
  <2>1. bad \subseteq Nat
    BY <1>0
  <2>2. PICK n \in bad : \A m \in bad : n <= m
    <3>. HIDE DEF bad
    <3>. QED BY <2>1, HasLeast
  <2>3. n \in 0 .. N /\ n \in Nat
    BY <1>0
  <2>4. CASE n = 0
    <3>. DEFINE g == [k \in 0 .. 0 |-> start]
    <3>1. upTo(g, 0)
      OBVIOUS
    <3>. QED BY <2>4, <3>1
  <2>5. CASE n # 0
    <3>1. n - 1 \in 0 .. N /\ n - 1 \notin bad
      <4>1. n - 1 \in 0 .. N /\ n \in 1 .. N /\ ~(n <= n - 1)
        BY <1>0, <2>3, <2>5
      <4>. HIDE DEF bad
      <4>. QED BY <2>2, <4>1
    <3>2. PICK f : upTo(f, n - 1)
      BY <3>1
    <3>. DEFINE g == [k \in 0 .. n |-> IF k = n THEN step(f, n) ELSE f[k]]
    <3>3. \A k \in 0 .. n - 1 : g[k] = f[k] /\ k \in 0 .. n
      BY <2>3
    <3>4. ASSUME NEW k \in 0 .. n
          PROVE  g[k] = step(g, k)
      <4>1. CASE k = n
        <5>1. n - 1 \in 0 .. n - 1
          BY <2>3, <2>5
        <5>2. g[n - 1] = f[n - 1]
          BY <3>3, <5>1
        <5>3. g[k] = nextOf(f[n - 1], n)
          BY <2>3, <2>5, <4>1
        <5>. HIDE DEF g, upTo
        <5>. QED BY <2>5, <4>1, <5>2, <5>3
      <4>2. CASE k # n
        <5>1. k \in 0 .. n - 1 /\ (k # 0 => k - 1 \in 0 .. n - 1)
          BY <2>3, <4>2
        <5>2. g[k] = f[k] /\ (k # 0 => g[k - 1] = f[k - 1])
          BY <3>3, <5>1
        <5>3. f[k] = step(f, k)
          BY <3>2, <5>1
        <5>. HIDE DEF g, upTo
        <5>. QED BY <5>2, <5>3
      <4>. QED BY <4>1, <4>2
    <3>5. upTo(g, n)
      BY <3>4
    <3>6. \E h : upTo(h, n)
      <4>. HIDE DEF upTo, g
      <4>. QED BY <3>5
    <3>. QED BY <2>2, <3>6
  <2>. QED BY <2>4, <2>5
<1>2. \E h : upTo(h, N)
  <2>1. N \in 0 .. N
    BY <1>0
  <2>. HIDE DEF upTo
  <2>. QED BY <1>1, <2>1
<1>. DEFINE after == CHOOSE h : h = [k \in 0 .. N |-> step(h, k)]
<1>3. after = [k \in 0 .. N |-> step(after, k)]
  BY <1>2
<1>4. C!BoundsChecks(a, terms, k0) = after[N]
  BY DEF C!BoundsChecks, N, start, nextOf
<1>. HIDE DEF after
<1>5. after[0] = start /\ \A k \in 1 .. N : after[k] = nextOf(after[k - 1], k)
  <2>1. after[0] = start
    BY <1>0, <1>3
  <2>2. ASSUME NEW k \in 1 .. N
        PROVE  after[k] = nextOf(after[k - 1], k)
    <3>1. k \in 0 .. N /\ k # 0
      BY <1>0
    <3>. QED BY <1>3, <3>1
  <2>. QED BY <2>1, <2>2
<1>6. OneByOne(a, terms, k0, after)
  BY <1>5 DEF OneByOne, N, start, nextOf
<1>. QED BY <1>4, <1>6 DEF N

(* and so for any number of indices, by induction.                         *)
LEMMA BoundsChecksIs ==
    ASSUME NEW a, NEW terms, IsSeq(terms), NEW k0
    PROVE  IsChecking(C!BoundsChecks(a, terms, k0))
<1>. DEFINE N == Len(terms)
            lineNo == C!Fresh(C!names, k0, 1)[1]
            start == [new |-> <<C!Def(C!NewVar(lineNo), "int64"),
                                C!Assign(C!NewVar(lineNo), C!Number(C!line))>>,
                      counter |-> lineNo + 1]
            nextOf(p, k) ==
                [new |-> p.new \o
                            C!BoundsCheck(a, k, terms[k], C!NewVar(lineNo), p.counter).new,
                 counter |-> C!BoundsCheck(a, k, terms[k], C!NewVar(lineNo), p.counter).counter]
<1>0. N \in Nat
  BY IsSeqIs
<1>1. IsChecking(start)
  <2>. DEFINE two == <<C!Def(C!NewVar(lineNo), "int64"),
                       C!Assign(C!NewVar(lineNo), C!Number(C!line))>>
              r == start
  <2>1. IsQuiet(two)
    BY SameC, PlainIs, QuietTuples
  <2>2. DOMAIN r = {"new", "counter"} /\ r.new = two
    OBVIOUS
  <2>. HIDE DEF two, r
  <2>3. IsChecking(r)
    BY <2>1, <2>2, QuietIs DEF IsChecking
  <2>. QED BY <2>3 DEF r
<1>2. \A p, k : IsChecking(p) => IsChecking(nextOf(p, k))
  BY CheckingStep
<1>3. PICK after : /\ OneByOne(a, terms, k0, after)
                   /\ C!BoundsChecks(a, terms, k0) = after[N]
  BY BoundsChecksAre
<1>4. after[0] = start /\ \A k \in 1 .. N : after[k] = nextOf(after[k - 1], k)
  BY <1>3 DEF OneByOne
<1>. HIDE DEF N, start, nextOf
<1>5. \A k \in 0 .. N : IsChecking(after[k])
  <2>. DEFINE wrong == {k \in 0 .. N : ~IsChecking(after[k])}
  <2>. SUFFICES ASSUME wrong # {} PROVE FALSE
    OBVIOUS
  <2>1. wrong \subseteq Nat
    BY <1>0
  <2>2. PICK k \in wrong : \A m \in wrong : k <= m
    <3>. HIDE DEF wrong
    <3>. QED BY <2>1, HasLeast
  <2>3. k \in 0 .. N /\ k \in Nat /\ ~IsChecking(after[k])
    BY <1>0
  <2>4. k # 0
    BY <1>1, <1>4, <2>3
  <2>5. k - 1 \in 0 .. N /\ k \in 1 .. N /\ ~(k <= k - 1)
    BY <1>0, <2>3, <2>4
  <2>6. IsChecking(after[k - 1])
    <3>1. k - 1 \notin wrong
      <4>. HIDE DEF wrong
      <4>. QED BY <2>2, <2>5
    <3>. QED BY <2>5, <3>1
  <2>. QED BY <1>2, <1>4, <2>3, <2>5, <2>6
<1>. QED BY <1>0, <1>3, <1>5
-----------------------------------------------------------------------------
(* encode_decode_values.                                                   *)

(* An instruction with other terms keeps its operation and labels.         *)
LEMMA ArgsChanged ==
    ASSUME NEW c, IsCode(c), NEW j \in DOMAIN c, NEW q, IsSeq(q)
    PROVE  /\ IsInstr([c[j] EXCEPT !.args = q])
           /\ [c[j] EXCEPT !.args = q].op = c[j].op
           /\ [c[j] EXCEPT !.args = q].to = c[j].to
BY DEF IsCode, IsInstr, Fields

(* An instruction with other terms, after code that only computes.         *)
LEMMA Rewritten ==
    ASSUME NEW c, NEW o, NEW j, Passed(c, o, j, {}), j <= Len(c),
           NEW s, IsQuiet(s), NEW q, IsSeq(q)
    PROVE  /\ Passed(c, o \o Append(s, [c[j] EXCEPT !.args = q]), j + 1, {})
           /\ Passed(c, o \o <<[c[j] EXCEPT !.args = q]>>, j + 1, {})
<1>. DEFINE x == [c[j] EXCEPT !.args = q]
<1>1. j \in DOMAIN c /\ IsCode(c)
  BY IsSeqIs DEF Passed, IsCode
<1>2. IsInstr(x) /\ x.op = c[j].op /\ x.to = c[j].to
  BY <1>1, ArgsChanged
<1>. HIDE DEF x
<1>3. /\ IsCode(s) /\ TargetsOf(s) = {} /\ Append(s, x) = s \o <<x>>
      /\ IsCode(<<>>) /\ TargetsOf(<<>>) = {} /\ <<>> \o <<x>> = <<x>>
  <2>1. Append(s, x) = s \o <<x>>
    BY Appended DEF IsQuiet, IsCode
  <2>2. IsQuiet(<<>>)
    BY QuietTuples
  <2>. QED BY <2>1, <2>2, QuietIs
<1>4. Passed(c, o \o (s \o <<x>>), j + 1, {})
  BY <1>2, <1>3, PassedOn
<1>5. Passed(c, o \o (<<>> \o <<x>>), j + 1, {})
  BY <1>2, <1>3, PassedOn
<1>6. /\ Passed(c, o \o Append(s, x), j + 1, {})
      /\ Passed(c, o \o <<x>>, j + 1, {})
  BY <1>3, <1>4, <1>5
<1>. QED BY <1>6 DEF x

(* Encoding terms makes a sequence of a sequence.                          *)
LEMMA TermsAre ==
    /\ \A terms : IsSeq(terms) => IsSeq(E!EncodedAll(terms))
    /\ \A f, terms : IsSeq(terms) => IsSeq(E!EncodedArgs(f, terms))
    /\ \A terms : IsSeq(terms) => IsSeq(E!Front(terms))
<1>1. ASSUME NEW terms, IsSeq(terms) PROVE IsSeq(E!EncodedAll(terms))
  <2>1. Len(terms) \in Nat /\ DOMAIN terms = 1 .. Len(terms)
    BY <1>1, IsSeqIs
  <2>. DEFINE r == E!EncodedAll(terms)
  <2>2. DOMAIN r = 1 .. Len(terms) /\ r = [k \in 1 .. Len(terms) |-> r[k]]
    BY <2>1 DEF E!EncodedAll
  <2>. HIDE DEF r
  <2>3. IsSeq(r)
    BY <2>1, <2>2, FunctionIsSeq
  <2>. QED BY <2>3 DEF r
<1>2. ASSUME NEW f, NEW terms, IsSeq(terms) PROVE IsSeq(E!EncodedArgs(f, terms))
  <2>1. Len(terms) \in Nat /\ DOMAIN terms = 1 .. Len(terms)
    BY <1>2, IsSeqIs
  <2>. DEFINE r == E!EncodedArgs(f, terms)
  <2>2. DOMAIN r = 1 .. Len(terms) /\ r = [k \in 1 .. Len(terms) |-> r[k]]
    BY <2>1 DEF E!EncodedArgs
  <2>. HIDE DEF r
  <2>3. IsSeq(r)
    BY <2>1, <2>2, FunctionIsSeq
  <2>. QED BY <2>3 DEF r
<1>3. ASSUME NEW terms, IsSeq(terms) PROVE IsSeq(E!Front(terms))
  <2>. DEFINE r == SubSeq(terms, 1, Len(terms) - 1)
              A == Range(terms)
  <2>1. terms \in Seq(A) /\ Len(terms) \in Nat
    BY <1>3, IsSeqIs DEF IsSeq
  <2>. HIDE DEF A
  <2>2. r \in Seq(A)
    BY <2>1
  <2>3. IsSeq(r)
    BY <2>2, SeqIsSeq
  <2>. QED BY <2>3 DEF E!Front
<1>. QED BY <1>1, <1>2, <1>3

(* The instructions of an action that inserts more than it decodes.        *)
LEMMA Replaced ==
    ASSUME NEW c, NEW o, NEW j, Passed(c, o, j, {}), j <= Len(c), c[j].op # "label",
           NEW s, IsQuiet(s)
    PROVE  Passed(c, o \o s, j + 1, {})
BY QuietIs, PassStep

(* Every action of the pass passes one instruction.                        *)
LEMMA EncodeStep ==
    ASSUME Passed(code, out, i, {}), E!EncodeNext
    PROVE  code' = code /\ fun' = fun /\ Passed(code, out', i', {})
<1>. DEFINE x == code[i]
<1>0. IsCode(code) /\ (i <= Len(code) => i \in DOMAIN code)
  BY IsSeqIs DEF Passed, IsCode
<1>1. i <= Len(code) => DOMAIN x = Fields /\ IsSeq(x.args)
  BY <1>0 DEF IsCode
<1>2. \A op, k : E!At(op) => i <= Len(code) /\ x.op = op
  BY DEF E!At, E!ins
<1>3. \A seq, c, k : E!Emit(seq, c, k) =>
        i' = i + 1 /\ out' = out \o seq /\ code' = code /\ fun' = fun
  BY DEF E!Emit
<1>4. E!ins = x
  BY DEF E!ins
<1>5. \A q : IsSeq(q) /\ i <= Len(code)
                => Passed(code, out \o <<[x EXCEPT !.args = q]>>, i + 1, {})
  BY Rewritten, QuietTuples
<1>6. \A s, q : IsQuiet(s) /\ IsSeq(q) /\ i <= Len(code)
                  => Passed(code, out \o Append(s, [x EXCEPT !.args = q]), i + 1, {})
  BY Rewritten
<1>7. \A s : IsQuiet(s) /\ x.op # "label" /\ i <= Len(code)
                => Passed(code, out \o s, i + 1, {})
  BY Replaced
<1>8. \A terms : IsSeq(terms) => IsQuiet(E!Decode(terms).new) /\ IsSeq(E!Decode(terms).terms)
  BY DecodeIs DEF IsDecoding
<1>. HIDE DEF x
<1>10. CASE E!EncodeDef
  <2>. DEFINE u == [x EXCEPT !.of = 0]
              w == E!Assign(x.dst, E!Num(IF x.kind = "int64" THEN 1 ELSE 0))
              v == [w EXCEPT !.of = x.of]
  <2>1. i <= Len(code) /\ x.op = "def"
    BY <1>2, <1>10 DEF E!EncodeDef
  <2>2. i' = i + 1 /\ out' = out \o <<u, v>> /\ code' = code /\ fun' = fun
    <3>1. E!Emit(<<u, v>>, E!Without(cache, x.dst), counter)
      BY <1>4, <1>10 DEF E!EncodeDef
    <3>. HIDE DEF u, v
    <3>. QED BY <3>1 DEF E!Emit
  <2>3. Plain(u)
    <3>1. DOMAIN u = DOMAIN x /\ u.op = x.op /\ u.args = x.args
      BY <1>1, <2>1 DEF Fields
    <3>. HIDE DEF u
    <3>. QED BY <1>1, <2>1, <3>1 DEF Plain, IsInstr, IsTerminator
  <2>4. Plain(w)
    BY SameE, PlainIs
  <2>5. Plain(v)
    <3>. HIDE DEF w
    <3>1. DOMAIN v = DOMAIN w /\ v.op = w.op /\ v.args = w.args
      BY <2>4 DEF Plain, IsInstr, Fields
    <3>. HIDE DEF v
    <3>. QED BY <2>4, <3>1 DEF Plain, IsInstr, IsTerminator
  <2>. HIDE DEF u, v
  <2>6. IsQuiet(<<u, v>>)
    BY <2>3, <2>5, QuietTuples
  <2>. QED BY <1>7, <2>1, <2>2, <2>6
<1>11. CASE E!EncodeAssign
  <2>1. i <= Len(code)
    BY <1>2, <1>11 DEF E!EncodeAssign
  <2>. DEFINE q == <<IF E!IsInt(x.dst) THEN E!Encoded(x.args[1]) ELSE x.args[1]>>
  <2>2. i' = i + 1 /\ out' = out \o <<[x EXCEPT !.args = q]>> /\ code' = code /\ fun' = fun
    <3>1. \E c : E!Emit(<<[x EXCEPT !.args = q]>>, c, counter)
      BY <1>4, <1>11 DEF E!EncodeAssign
    <3>. HIDE DEF q
    <3>. QED BY <3>1 DEF E!Emit
  <2>3. IsSeq(q)
    BY TuplesAre
  <2>. HIDE DEF q
  <2>. QED BY <1>5, <2>1, <2>2, <2>3
<1>12. CASE E!EncodeOp
  <2>. DEFINE d == E!Decode(x.args)
              n == E!Fresh(E!names, d.counter, 1)[1]
              tmp == E!NewVar(n)
              q1 == E!Def(tmp, "int64")
              q2 == [x EXCEPT !.dst = tmp, !.args = d.terms]
              q3 == E!Op(x.dst, E!Var(tmp), "<<", E!Num(1))
              q4 == E!Op(x.dst, E!Var(x.dst), "+", E!Num(1))
  <2>1. i <= Len(code) /\ x.op = "op"
    BY <1>2, <1>12 DEF E!EncodeOp
  <2>2. IsQuiet(d.new) /\ IsSeq(d.terms)
    BY <1>1, <1>8, <2>1
  <2>3. CASE E!IsInt(x.dst)
    <3>1. i' = i + 1 /\ out' = out \o (d.new \o <<q1, q2, q3, q4>>) /\ code' = code /\ fun' = fun
      BY <1>3, <1>4, <1>12, <2>3 DEF E!EncodeOp
    <3>2. Plain(q1) /\ Plain(q3) /\ Plain(q4)
      BY SameE, PlainIs
    <3>. HIDE DEF d, tmp
    <3>3. Plain(q2)
      <4>1. DOMAIN q2 = DOMAIN x /\ q2.op = x.op /\ q2.args = d.terms
        BY <1>1, <2>1 DEF Fields
      <4>. HIDE DEF q2
      <4>. QED BY <1>1, <2>1, <2>2, <4>1 DEF Plain, IsInstr, IsTerminator
    <3>. DEFINE p == d.new
                r == <<q1, q2, q3, q4>>
    <3>4. IsQuiet(r)
      <4>. HIDE DEF q1, q2, q3, q4
      <4>. QED BY <3>2, <3>3, QuietTuples
    <3>5. IsQuiet(p)
      BY <2>2
    <3>. HIDE DEF p, r
    <3>6. IsQuiet(p \o r)
      BY <3>4, <3>5, CodeJoined DEF IsQuiet
    <3>7. Passed(code, out \o (p \o r), i + 1, {})
      BY <1>7, <2>1, <3>6
    <3>. QED BY <3>1, <3>7 DEF p, r
  <2>4. CASE ~E!IsInt(x.dst)
    <3>1. /\ i' = i + 1 /\ code' = code /\ fun' = fun
          /\ out' = out \o Append(d.new, [x EXCEPT !.args = d.terms])
      BY <1>3, <1>4, <1>12, <2>4 DEF E!EncodeOp
    <3>. HIDE DEF d
    <3>. QED BY <1>6, <2>1, <2>2, <3>1
  <2>. QED BY <2>3, <2>4
<1>13. CASE E!EncodeCond \/ E!EncodeLoad \/ E!EncodeLength
  <2>. DEFINE d == E!Decode(x.args)
  <2>1. i <= Len(code)
    BY <1>2, <1>13 DEF E!EncodeCond, E!EncodeLoad, E!EncodeLength
  <2>2. /\ i' = i + 1 /\ code' = code /\ fun' = fun
        /\ out' = out \o Append(d.new, [x EXCEPT !.args = d.terms])
    BY <1>3, <1>4, <1>13 DEF E!EncodeCond, E!EncodeLoad, E!EncodeLength
  <2>3. IsQuiet(d.new) /\ IsSeq(d.terms)
    BY <1>1, <1>8, <2>1
  <2>. HIDE DEF d
  <2>. QED BY <1>6, <2>1, <2>2, <2>3
<1>14. CASE E!EncodeStore
  <2>. DEFINE d == E!Decode(E!Front(x.args))
              q == Append(d.terms, E!Encoded(E!Last(x.args)))
  <2>1. i <= Len(code)
    BY <1>2, <1>14 DEF E!EncodeStore
  <2>2. /\ i' = i + 1 /\ code' = code /\ fun' = fun
        /\ out' = out \o Append(d.new, [x EXCEPT !.args = q])
    BY <1>3, <1>4, <1>14 DEF E!EncodeStore
  <2>3. IsQuiet(d.new) /\ IsSeq(d.terms)
    BY <1>1, <1>8, <2>1, TermsAre
  <2>. HIDE DEF d
  <2>4. IsSeq(q)
    <3>. DEFINE u == d.terms
                e == E!Encoded(E!Last(x.args))
    <3>1. IsSeq(u)
      BY <2>3
    <3>. HIDE DEF u, e
    <3>2. Append(u, e) = u \o <<e>> /\ IsSeq(<<e>>)
      BY <3>1, Appended
    <3>3. IsSeq(u \o <<e>>)
      BY <3>1, <3>2, Joined
    <3>4. IsSeq(Append(u, e))
      BY <3>2, <3>3
    <3>. QED BY <3>4 DEF u, e
  <2>. HIDE DEF q
  <2>. QED BY <1>6, <2>1, <2>2, <2>3, <2>4
<1>15. CASE E!EncodeReturn
  <2>. DEFINE q == IF fun.returns = "int64" THEN E!EncodedAll(x.args) ELSE x.args
  <2>1. i <= Len(code)
    BY <1>2, <1>15 DEF E!EncodeReturn
  <2>2. i' = i + 1 /\ out' = out \o <<[x EXCEPT !.args = q]>> /\ code' = code /\ fun' = fun
    <3>1. E!Emit(<<[x EXCEPT !.args = q]>>, <<>>, counter)
      BY <1>4, <1>15 DEF E!EncodeReturn
    <3>. HIDE DEF q
    <3>. QED BY <3>1 DEF E!Emit
  <2>3. IsSeq(q)
    BY <1>1, <2>1, TermsAre
  <2>. HIDE DEF q
  <2>. QED BY <1>5, <2>1, <2>2, <2>3
<1>16. CASE E!EncodeCall
  <2>. DEFINE q == E!EncodedArgs(x.base, x.args)
  <2>1. i <= Len(code)
    BY <1>2, <1>16 DEF E!EncodeCall
  <2>2. i' = i + 1 /\ out' = out \o <<[x EXCEPT !.args = q]>> /\ code' = code /\ fun' = fun
    <3>1. E!Emit(<<[x EXCEPT !.args = q]>>, <<>>, counter)
      BY <1>4, <1>16 DEF E!EncodeCall
    <3>. HIDE DEF q
    <3>. QED BY <3>1 DEF E!Emit
  <2>3. IsSeq(q)
    BY <1>1, <2>1, TermsAre
  <2>. HIDE DEF q
  <2>. QED BY <1>5, <2>1, <2>2, <2>3
<1>17. CASE E!EncodeAlloc
  <2>. DEFINE q == E!EncodedAll(x.args)
  <2>1. i <= Len(code)
    BY <1>2, <1>17 DEF E!EncodeAlloc
  <2>2. i' = i + 1 /\ out' = out \o <<[x EXCEPT !.args = q]>> /\ code' = code /\ fun' = fun
    BY <1>3, <1>4, <1>17 DEF E!EncodeAlloc
  <2>3. IsSeq(q)
    BY <1>1, <2>1, TermsAre
  <2>. HIDE DEF q
  <2>. QED BY <1>5, <2>1, <2>2, <2>3
<1>18. CASE E!EncodeLabel \/ E!EncodeBranch
  <2>1. i <= Len(code)
    BY <1>2, <1>18 DEF E!EncodeLabel, E!EncodeBranch
  <2>2. i' = i + 1 /\ out' = out \o <<x>> /\ code' = code /\ fun' = fun
    BY <1>3, <1>4, <1>18 DEF E!EncodeLabel, E!EncodeBranch
  <2>3. IsInstr(x)
    BY <1>1, <2>1 DEF IsInstr
  <2>4. IsCode(<<>>) /\ TargetsOf(<<>>) = {} /\ <<>> \o <<x>> = <<x>>
    BY QuietTuples, QuietIs
  <2>5. Passed(code, out \o (<<>> \o <<x>>), i + 1, {})
    BY <2>1, <2>3, <2>4, PassedOn DEF x
  <2>. QED BY <2>2, <2>4, <2>5
<1>. QED BY <1>10, <1>11, <1>12, <1>13, <1>14, <1>15, <1>16, <1>17, <1>18 DEF E!EncodeNext
-----------------------------------------------------------------------------
(* check_allocation_access.                                                *)

(* The error label is used as soon as there is a check for null; its block *)
(* is appended at the end.                                                 *)
Pending == IF useError THEN {C!errLabel} ELSE {}

(* The indices that are checked are a sequence.                            *)
LEMMA IndicesAre ==
    ASSUME IsSeq(C!ins.args)
    PROVE  IsSeq(C!IndicesToCheck)
<1>1. \A terms : IsSeq(terms) => /\ IsSeq(SubSeq(terms, 1, Len(terms) - 1))
                                /\ IsSeq(SubSeq(terms, 1, 1))
  <2>. SUFFICES ASSUME NEW terms, IsSeq(terms)
                PROVE  IsSeq(SubSeq(terms, 1, Len(terms) - 1)) /\ IsSeq(SubSeq(terms, 1, 1))
    OBVIOUS
  <2>. DEFINE r == SubSeq(terms, 1, Len(terms) - 1)
              A == Range(terms)
  <2>1. terms \in Seq(A) /\ Len(terms) \in Nat
    BY IsSeqIs DEF IsSeq
  <2>. HIDE DEF A
  <2>2. r \in Seq(A)
    BY <2>1
  <2>3. IsSeq(r)
    BY <2>2, SeqIsSeq
  <2>4. IsSeq(SubSeq(terms, 1, 1))
    <3>. DEFINE q == SubSeq(terms, 1, 1)
    <3>1. CASE Len(terms) = 0
      <4>1. DOMAIN q = 1 .. 1 /\ q = [k \in 1 .. 1 |-> q[k]]
        BY <2>1, <3>1
      <4>. HIDE DEF q
      <4>2. IsSeq(q)
        BY <4>1, FunctionIsSeq
      <4>. QED BY <4>2 DEF q
    <3>2. CASE Len(terms) # 0
      <4>1. q \in Seq(A)
        BY <2>1, <3>2
      <4>2. IsSeq(q)
        BY <4>1, SeqIsSeq
      <4>. QED BY <4>2
    <3>. QED BY <3>1, <3>2
  <2>. QED BY <2>3, <2>4
<1>2. IsSeq(C!Indices(C!ins))
  BY <1>1 DEF C!Indices, C!Front
<1>3. IsSeq(<<>>)
  BY TuplesAre
<1>. QED BY <1>1, <1>2, <1>3 DEF C!IndicesToCheck

(* Every action of the pass passes one instruction; no label but that of   *)
(* the error block stays open.                                             *)
LEMMA CheckStep ==
    ASSUME Passed(code, out, i, Pending), C!CheckNext
    PROVE  code' = code /\ fun' = fun /\ Passed(code, out', i', Pending')
<1>. DEFINE x == code[i]
<1>0. IsCode(code) /\ (i <= Len(code) => i \in DOMAIN code)
  BY IsSeqIs DEF Passed, IsCode
<1>1. /\ i <= Len(code) /\ C!ins = x
      /\ DOMAIN x = Fields /\ IsSeq(x.args)
  <2>1. i <= Len(code) /\ C!ins = x
    BY DEF C!CheckNext, C!CheckAccess, C!PassBoundary, C!PassOther, C!At, C!ins
  <2>. QED BY <1>0, <2>1 DEF IsCode
<1>2. \A s, Q : IsCode(s) /\ TargetsOf(s) \subseteq LabelsOf(s) \cup Q /\ Pending \subseteq Q
                   => Passed(code, out \o Append(s, x), i + 1, Q)
  <2>. SUFFICES ASSUME NEW s, NEW Q, IsCode(s), TargetsOf(s) \subseteq LabelsOf(s) \cup Q,
                       Pending \subseteq Q
                PROVE  Passed(code, out \o Append(s, x), i + 1, Q)
    OBVIOUS
  <2>1. IsInstr(x)
    BY <1>1 DEF IsInstr
  <2>2. Append(s, x) = s \o <<x>>
    BY Appended DEF IsCode
  <2>3. Passed(code, out \o (s \o <<x>>), i + 1, Q)
    BY <1>1, <2>1, PassedOn
  <2>. QED BY <2>2, <2>3
<1>. HIDE DEF x
<1>3. code' = code /\ fun' = fun
  BY DEF C!CheckNext, C!CheckAccess, C!PassBoundary, C!PassOther, C!Emit
<1>4. C!errLabel' = C!errLabel
  BY <1>3 DEF C!errLabel, C!Shared
<1>5. CASE C!CheckAccess
  <2>. DEFINE a         == C!ins.base
              key       == <<a, C!IndicesToCheck>>
              allocated == IF a \in nonNull THEN <<>> ELSE C!NullCheck(a, counter)
              k         == IF a \in nonNull THEN counter
                           ELSE C!Fresh(C!names, counter, 2)[2] + 1
              bounds    == IF key[2] = <<>> \/ key \in checked
                           THEN [new |-> <<>>, counter |-> k]
                           ELSE C!BoundsChecks(a, key[2], k)
              u == allocated
              v == bounds.new
  <2>1. /\ C!Emit(allocated \o bounds.new, bounds.counter)
        /\ useError' = (useError \/ a \notin nonNull)
    BY <1>5 DEF C!CheckAccess
  <2>2. i' = i + 1 /\ out' = out \o Append(u \o v, x)
    BY <1>1, <2>1 DEF C!Emit
  <2>3. IsChecking(bounds)
    <3>1. CASE key[2] = <<>> \/ key \in checked
      <4>. DEFINE r == [new |-> <<>>, counter |-> k]
      <4>1. DOMAIN r = {"new", "counter"} /\ r.new = <<>>
        OBVIOUS
      <4>. HIDE DEF r
      <4>2. IsChecking(r)
        BY <4>1, QuietTuples, QuietIs DEF IsChecking
      <4>. QED BY <3>1, <4>2 DEF r
    <3>2. CASE ~(key[2] = <<>> \/ key \in checked)
      <4>1. IsSeq(C!IndicesToCheck)
        BY <1>1, IndicesAre
      <4>2. bounds = C!BoundsChecks(a, C!IndicesToCheck, k)
        BY <3>2
      <4>. HIDE DEF bounds
      <4>. QED BY <4>1, <4>2, BoundsChecksIs
    <3>. QED BY <3>1, <3>2
  <2>4. IsCode(v) /\ TargetsOf(v) \subseteq LabelsOf(v)
    <3>. HIDE DEF bounds
    <3>. QED BY <2>3 DEF IsChecking
  <2>5. IsCode(u) /\ TargetsOf(u) \subseteq LabelsOf(u) \cup Pending'
    <3>1. CASE a \in nonNull
      <4>1. u = <<>>
        BY <3>1
      <4>. QED BY <4>1, QuietTuples, QuietIs
    <3>2. CASE a \notin nonNull
      <4>1. u = C!NullCheck(a, counter)
        BY <3>2
      <4>2. Pending' = {C!errLabel}
        BY <1>4, <2>1, <3>2 DEF Pending
      <4>. HIDE DEF u
      <4>. QED BY <4>1, <4>2, NullCheckIs
    <3>. QED BY <3>1, <3>2
  <2>6. Pending \subseteq Pending'
    BY <1>4, <2>1 DEF Pending
  <2>. HIDE DEF u, v
  <2>7. IsCode(u \o v) /\ TargetsOf(u \o v) \subseteq LabelsOf(u \o v) \cup Pending'
    <3>1. /\ IsCode(u \o v)
          /\ LabelsOf(u \o v) = LabelsOf(u) \cup LabelsOf(v)
          /\ TargetsOf(u \o v) = TargetsOf(u) \cup TargetsOf(v)
      BY <2>4, <2>5, CodeJoined
    <3>. QED BY <2>4, <2>5, <3>1
  <2>. QED BY <1>2, <1>3, <2>2, <2>6, <2>7
<1>6. CASE C!PassBoundary \/ C!PassOther
  <2>1. i' = i + 1 /\ out' = out \o Append(<<>>, x) /\ useError' = useError
    BY <1>1, <1>6 DEF C!PassBoundary, C!PassOther, C!Emit
  <2>2. Pending' = Pending
    BY <1>4, <2>1 DEF Pending
  <2>3. IsCode(<<>>) /\ TargetsOf(<<>>) = {}
    BY QuietTuples, QuietIs
  <2>. QED BY <1>2, <1>3, <2>1, <2>2, <2>3
<1>. QED BY <1>5, <1>6 DEF C!CheckNext

(* Once a pass is through, the labels are all there.                       *)
LEMMA PassedAll ==
    ASSUME NEW c, NEW o, NEW j, NEW P, Passed(c, o, j, P), j > Len(c)
    PROVE  IsCode(o) /\ TargetsOf(o) \subseteq LabelsOf(o) \cup P
<1>1. \A k \in DOMAIN c : k < j
  <2>1. DOMAIN c = 1 .. Len(c) /\ Len(c) \in Nat /\ j \in Nat
    BY IsSeqIs DEF Passed, IsCode
  <2>. QED BY <2>1
<1>2. LabelsOf(c) \subseteq LabelsOf(o)
  <2>1. \A k \in DOMAIN c : c[k].op = "label" => c[k].to[1] \in LabelsOf(o)
    BY <1>1 DEF Passed
  <2>. DEFINE S == LabelsOf(o)
  <2>2. \A k \in DOMAIN c : c[k].op = "label" => c[k].to[1] \in S
    BY <2>1
  <2>. HIDE DEF S
  <2>3. LabelsOf(c) \subseteq S
    BY <2>2 DEF LabelsOf
  <2>. QED BY <2>3 DEF S
<1>. QED BY <1>2 DEF Passed

(* Before the first instruction.                                           *)
LEMMA StartOfPass ==
    ASSUME NEW c, IsCode(c), TargetsOf(c) \subseteq LabelsOf(c), NEW P
    PROVE  Passed(c, <<>>, 1, P)
<1>1. IsCode(<<>>) /\ TargetsOf(<<>>) = {}
  BY QuietTuples, QuietIs
<1>2. \A k \in DOMAIN c : ~(k < 1)
  BY IsSeqIs DEF IsCode
<1>. QED BY <1>1, <1>2 DEF Passed

(* With the error block, no label is open.                                 *)
LEMMA CheckResultIs ==
    ASSUME Passed(code, out, i, Pending), i > Len(code)
    PROVE  IsCode(C!CheckResult) /\ TargetsOf(C!CheckResult) \subseteq LabelsOf(C!CheckResult)
<1>. DEFINE e == C!errLabel
            d1 == C!Def(C!errLine, "int64")
            t1 == C!Label(e)
            t2 == C!Call(C!NoName, C!Name("tensor-error"), <<C!Var(C!errLine)>>)
            t3 == C!Branch(e)
            head == <<d1>>
            tail == <<t1, t2, t3>>
            r == C!CheckResult
<1>1. IsCode(out) /\ TargetsOf(out) \subseteq LabelsOf(out) \cup Pending
  BY PassedAll
<1>2. CASE ~useError
  BY <1>1, <1>2 DEF Pending, C!CheckResult
<1>3. CASE useError
  <2>1. r = (head \o out) \o tail
    BY <1>3 DEF C!CheckResult
  <2>2. Plain(d1) /\ Plain(t2) /\ IsMark(t1, e) /\ IsJump(t3, {e})
    BY SameC, PlainIs, ControlIs, TuplesAre
  <2>3. Pending = {e}
    BY <1>3 DEF Pending
  <2>. HIDE DEF e, d1, t1, t2, t3
  <2>4. IsCode(head) /\ LabelsOf(head) = {} /\ TargetsOf(head) = {}
    BY <2>2, QuietTuples, QuietIs
  <2>5. IsCode(tail) /\ e \in LabelsOf(tail) /\ TargetsOf(tail) \subseteq {e}
    <3>1. \A ins \in {t1, t2, t3} : IsInstr(ins)
      BY <2>2 DEF Plain, IsMark, IsJump
    <3>2. /\ IsCode(tail) /\ LabelsOf(tail) = LabelsIn({t1, t2, t3})
          /\ TargetsOf(tail) = TargetsIn({t1, t2, t3})
      BY <3>1, ListsAre
    <3>. HIDE DEF tail
    <3>3. e \in LabelsIn({t1, t2, t3})
      BY <2>2 DEF LabelsIn, IsMark
    <3>4. TargetsIn({t1, t2, t3}) \subseteq {e}
      BY <2>2 DEF TargetsIn, Plain, IsMark, IsJump
    <3>. QED BY <3>2, <3>3, <3>4
  <2>. HIDE DEF r, head, tail
  <2>6. /\ IsCode(head \o out) /\ LabelsOf(head \o out) = LabelsOf(head) \cup LabelsOf(out)
        /\ TargetsOf(head \o out) = TargetsOf(head) \cup TargetsOf(out)
    BY <1>1, <2>4, CodeJoined
  <2>. DEFINE h == head \o out
  <2>7. IsCode(h) /\ LabelsOf(h) = LabelsOf(out) /\ TargetsOf(h) \subseteq LabelsOf(out) \cup {e}
    BY <1>1, <2>3, <2>4, <2>6
  <2>8. r = h \o tail
    BY <2>1
  <2>. HIDE DEF h
  <2>9. /\ IsCode(r) /\ LabelsOf(r) = LabelsOf(h) \cup LabelsOf(tail)
        /\ TargetsOf(r) = TargetsOf(h) \cup TargetsOf(tail)
    BY <2>5, <2>7, <2>8, CodeJoined
  <2>10. IsCode(r) /\ TargetsOf(r) \subseteq LabelsOf(r)
    BY <2>5, <2>7, <2>9
  <2>. QED BY <2>10 DEF r
<1>. QED BY <1>2, <1>3
-----------------------------------------------------------------------------
(* generate_basic_blocks.  The blocks so far, of which the last one is     *)
(* closed or not.                                                          *)
InBlocks(o, closed) ==
    /\ Len(o) \in Nat \ {0} /\ o[1].op = "label"
    /\ closed = IsTerminator(o[Len(o)])
    /\ \A k \in 2 .. Len(o) : IsTerminator(o[k - 1]) <=> o[k].op = "label"

(* An instruction goes on in an open block, or a label opens the next one. *)
LEMMA BlocksGrow ==
    ASSUME NEW o, IsSeq(o), NEW closed, InBlocks(o, closed), NEW x, closed <=> x.op = "label"
    PROVE  InBlocks(o \o <<x>>, IsTerminator(x)) /\ IsSeq(o \o <<x>>)
<1>. DEFINE s == <<x>>
            p == o \o s
            n == Len(o)
<1>1. IsSeq(s) /\ Len(s) = 1 /\ s[1] = x
  BY TuplesAre
<1>. HIDE DEF s
<1>2. /\ IsSeq(p) /\ n \in Nat \ {0} /\ Len(p) = n + 1
      /\ \A k \in 1 .. n + 1 : p[k] = IF k <= n THEN o[k] ELSE s[k - n]
  BY <1>1, Joined DEF InBlocks
<1>. HIDE DEF p
<1>3. p[n + 1] = x /\ \A k \in 1 .. n : p[k] = o[k]
  <2>1. n + 1 \in 1 .. n + 1 /\ ~(n + 1 <= n) /\ n + 1 - n = 1
    BY <1>2
  <2>2. p[n + 1] = x
    BY <1>1, <1>2, <2>1
  <2>3. \A k \in 1 .. n : k \in 1 .. n + 1 /\ k <= n
    BY <1>2
  <2>. QED BY <1>2, <2>2, <2>3
<1>4. p[1].op = "label"
  BY <1>2, <1>3 DEF InBlocks
<1>5. ASSUME NEW k \in 2 .. n + 1 PROVE IsTerminator(p[k - 1]) <=> p[k].op = "label"
  <2>1. CASE k = n + 1
    <3>1. p[k] = x /\ p[k - 1] = o[n]
      BY <1>2, <1>3, <2>1
    <3>. QED BY <3>1 DEF InBlocks
  <2>2. CASE k # n + 1
    <3>1. k \in 2 .. n /\ k - 1 \in 1 .. n /\ k \in 1 .. n
      BY <1>2, <2>2
    <3>. QED BY <1>3, <3>1 DEF InBlocks
  <2>. QED BY <2>1, <2>2
<1>6. InBlocks(p, IsTerminator(x))
  BY <1>2, <1>3, <1>4, <1>5 DEF InBlocks
<1>. QED BY <1>2, <1>6 DEF p, s

(* A label alone.                                                          *)
LEMMA FirstBlock ==
    ASSUME NEW x, x.op = "label"
    PROVE  InBlocks(<<x>>, FALSE)
<1>1. Len(<<x>>) = 1 /\ <<x>>[1] = x /\ ~IsTerminator(x)
  BY DEF IsTerminator
<1>. QED BY <1>1 DEF InBlocks

(* Two instructions written out.                                           *)
LEMMA PairIs ==
    ASSUME NEW y, NEW x
    PROVE  Append(<<y>>, x) = <<y, x>> /\ <<y, x>> = <<y>> \o <<x>>
<1>2. <<y, x>> = <<y>> \o <<x>>
  <2>. DEFINE A == {x, y}
              t == <<y, x>>
              c == <<y>> \o <<x>>
  <2>1. <<y>> \in Seq(A) /\ <<x>> \in Seq(A) /\ t \in Seq(A)
    OBVIOUS
  <2>2. c \in Seq(A) /\ Len(c) = 2 /\ c[1] = y /\ c[2] = x
    <3>1. Len(<<y>>) = 1 /\ Len(<<x>>) = 1 /\ <<y>>[1] = y /\ <<x>>[1] = x
      OBVIOUS
    <3>. HIDE DEF A
    <3>. QED BY <2>1, <3>1, ConcatProperties
  <2>3. Len(t) = 2 /\ t[1] = y /\ t[2] = x
    OBVIOUS
  <2>. HIDE DEF A, t, c
  <2>4. \A k \in 1 .. 2 : t[k] = c[k]
    <3>1. \A k \in 1 .. 2 : k = 1 \/ k = 2
      OBVIOUS
    <3>. QED BY <2>2, <2>3, <3>1
  <2>5. t = c
    BY <2>1, <2>2, <2>3, <2>4, SeqEqual
  <2>. QED BY <2>5 DEF t, c
<1>3. IsSeq(<<y>>)
  BY TuplesAre
<1>. QED BY <1>2, <1>3, Appended

(* Two instructions for one: the second is that of the source.             *)
LEMMA BlocksGrowByTwo ==
    ASSUME NEW o, IsSeq(o), NEW closed, InBlocks(o, closed), NEW y, NEW x,
           closed <=> y.op = "label", IsTerminator(y) <=> x.op = "label"
    PROVE  InBlocks(o \o <<y, x>>, IsTerminator(x))
<1>. DEFINE p == o \o <<y>>
<1>1. InBlocks(p, IsTerminator(y)) /\ IsSeq(p)
  BY BlocksGrow
<1>2. o \o <<y, x>> = p \o <<x>>
  <2>. DEFINE A == Range(o) \cup {x, y}
  <2>1. o \in Seq(A) /\ x \in A /\ y \in A
    BY DEF IsSeq
  <2>. HIDE DEF A
  <2>2. <<y>> \in Seq(A) /\ <<x>> \in Seq(A)
    BY <2>1
  <2>. DEFINE u == <<y>>
              v == <<x>>
  <2>3. u \in Seq(A) /\ v \in Seq(A) /\ <<y, x>> = u \o v
    BY <2>2, PairIs
  <2>. HIDE DEF u, v
  <2>4. (o \o u) \o v = o \o (u \o v)
    BY <2>1, <2>3, ConcatAssociative
  <2>. QED BY <2>3, <2>4 DEF u, v
<1>. HIDE DEF p
<1>3. IsTerminator(y) \in BOOLEAN
  BY DEF IsTerminator
<1>4. InBlocks(p \o <<x>>, IsTerminator(x))
  <2>. DEFINE cl == IsTerminator(y)
  <2>1. InBlocks(p, cl) /\ (cl <=> x.op = "label")
    BY <1>1
  <2>. HIDE DEF cl
  <2>. QED BY <1>1, <2>1, BlocksGrow
<1>. QED BY <1>2, <1>4

(* Every action of the pass passes one instruction and keeps the blocks in *)
(* form, the last one open or closed as afterTerminator says.              *)
LEMMA BlockStep ==
    ASSUME Passed(code, out, i, {}), InBlocks(out, afterTerminator), C!BlockNext
    PROVE  /\ code' = code /\ fun' = fun
           /\ Passed(code, out', i', {}) /\ InBlocks(out', afterTerminator')
<1>. DEFINE x == code[i]
<1>0. IsCode(code) /\ IsCode(out) /\ (i <= Len(code) => i \in DOMAIN code)
  BY IsSeqIs DEF Passed, IsCode
<1>1. i <= Len(code) /\ C!ins = x
  BY DEF C!BlockNext, C!EnterBlock, C!StayInBlock, C!OpenBlock, C!At, C!ins
<1>2. i \in DOMAIN code /\ IsInstr(x)
  BY <1>0, <1>1 DEF IsCode, IsInstr
<1>3. IsTerminator(x) => Range(x.to) \subseteq TargetsOf(code)
  BY <1>2 DEF TargetsOf
<1>4. code' = code /\ fun' = fun
  BY DEF C!BlockNext, C!EnterBlock, C!StayInBlock, C!OpenBlock, C!EmitBlock
<1>5. IsSeq(out) /\ afterTerminator \in BOOLEAN
  BY <1>0 DEF IsCode, InBlocks, IsTerminator
<1>6. /\ IsCode(<<x>>)
      /\ LabelsOf(<<x>>) = IF x.op = "label" THEN {x.to[1]} ELSE {}
      /\ TargetsOf(<<x>>) = IF IsTerminator(x) THEN Range(x.to) ELSE {}
  BY <1>2, OneIs
<1>7. Passed(code, out \o <<x>>, i + 1, {})
  BY <1>1, <1>3, <1>6, PassStep DEF x
<1>8. IsTerminator(x) = C!IsTerminator(x)
  BY SameC
<1>9. \A y : y = <<>> => Append(y, x) = <<x>>
  OBVIOUS
<1>10. \A y : Append(<<y>>, x) = <<y, x>> /\ <<y, x>> = <<y>> \o <<x>>
  BY PairIs
<1>. HIDE DEF x
<1>11. CASE C!StayInBlock \/ (C!EnterBlock /\ afterTerminator)
  <2>1. /\ i' = i + 1 /\ out' = out \o <<x>> /\ afterTerminator' = IsTerminator(x)
        /\ afterTerminator <=> x.op = "label"
    BY <1>1, <1>8, <1>9, <1>11 DEF C!StayInBlock, C!EnterBlock, C!EmitBlock
  <2>2. InBlocks(out \o <<x>>, IsTerminator(x))
    BY <1>5, <2>1, BlocksGrow
  <2>. QED BY <1>4, <1>7, <2>1, <2>2
<1>12. CASE C!EnterBlock /\ ~afterTerminator
  <2>. DEFINE y == C!Branch(x.to[1])
  <2>1. /\ i' = i + 1 /\ out' = out \o <<y, x>> /\ afterTerminator' = IsTerminator(x)
        /\ x.op = "label"
    BY <1>1, <1>8, <1>10, <1>12 DEF C!EnterBlock, C!EmitBlock
  <2>2. IsJump(y, {x.to[1]})
    BY SameC, ControlIs
  <2>. HIDE DEF y
  <2>3. InBlocks(out \o <<y, x>>, IsTerminator(x))
    <3>1. (afterTerminator <=> y.op = "label") /\ (IsTerminator(y) <=> x.op = "label")
      BY <1>12, <2>1, <2>2 DEF IsJump
    <3>. QED BY <1>5, <3>1, BlocksGrowByTwo
  <2>4. IsCode(<<y>>) /\ LabelsOf(<<y>>) = {} /\ TargetsOf(<<y>>) = {x.to[1]}
    BY <2>2, OneIs DEF IsJump
  <2>. DEFINE u == <<y>>
              v == <<x>>
  <2>5. IsCode(u) /\ LabelsOf(u) = {} /\ TargetsOf(u) = {x.to[1]} /\ IsCode(v)
        /\ LabelsOf(v) = {x.to[1]} /\ TargetsOf(v) = {}
    BY <1>6, <2>1, <2>4 DEF IsTerminator
  <2>. HIDE DEF u, v
  <2>6. /\ IsCode(u \o v) /\ LabelsOf(u \o v) = {} \cup {x.to[1]}
        /\ TargetsOf(u \o v) = {x.to[1]} \cup {}
    BY <2>5, CodeJoined
  <2>7. Passed(code, out \o (u \o v), i + 1, {})
    <3>1. code[i].op = "label" => code[i].to[1] \in LabelsOf(u \o v)
      BY <2>6 DEF x
    <3>2. TargetsOf(u \o v) \subseteq TargetsOf(code) \cup LabelsOf(u \o v) \cup {}
      BY <2>6
    <3>. QED BY <1>1, <2>6, <3>1, <3>2, PassStep
  <2>8. u \o v = <<y, x>>
    BY <1>10 DEF u, v
  <2>. QED BY <1>4, <2>1, <2>3, <2>7, <2>8
<1>13. CASE C!OpenBlock
  <2>. DEFINE l == C!NewVar(C!Fresh(C!Reserved(fun.params, code), counter, 1)[1])
              y == C!Label(l)
  <2>1. /\ i' = i + 1 /\ out' = out \o <<y, x>> /\ afterTerminator' = IsTerminator(x)
        /\ x.op # "label" /\ afterTerminator
    BY <1>1, <1>8, <1>10, <1>13 DEF C!OpenBlock, C!EmitBlock
  <2>2. IsMark(y, l)
    BY SameC, ControlIs
  <2>. HIDE DEF y, l
  <2>3. InBlocks(out \o <<y, x>>, IsTerminator(x))
    <3>1. (afterTerminator <=> y.op = "label") /\ (IsTerminator(y) <=> x.op = "label")
      BY <2>1, <2>2 DEF IsMark
    <3>. QED BY <1>5, <3>1, BlocksGrowByTwo
  <2>4. IsCode(<<y>>) /\ TargetsOf(<<y>>) = {}
    BY <2>2, OneIs DEF IsMark
  <2>. DEFINE u == <<y>>
              v == <<x>>
  <2>5. IsCode(u) /\ TargetsOf(u) = {} /\ IsCode(v) /\ TargetsOf(v) \subseteq TargetsOf(code)
    BY <1>3, <1>6, <2>4
  <2>. HIDE DEF u, v
  <2>6. IsCode(u \o v) /\ TargetsOf(u \o v) = {} \cup TargetsOf(v)
    BY <2>5, CodeJoined
  <2>7. Passed(code, out \o (u \o v), i + 1, {})
    <3>1. TargetsOf(u \o v) \subseteq TargetsOf(code) \cup LabelsOf(u \o v) \cup {}
      BY <2>5, <2>6
    <3>2. code[i].op # "label"
      BY <2>1 DEF x
    <3>. QED BY <1>1, <2>6, <3>1, <3>2, PassStep
  <2>8. u \o v = <<y, x>>
    BY <1>10 DEF u, v
  <2>. QED BY <1>4, <2>1, <2>3, <2>7, <2>8
<1>14. afterTerminator \/ ~afterTerminator
  OBVIOUS
<1>. QED BY <1>11, <1>12, <1>13, <1>14 DEF C!BlockNext

(* It starts with an open block,                                           *)
LEMMA BlockStartIs ==
    ASSUME NEW c, IsCode(c), TargetsOf(c) \subseteq LabelsOf(c), afterTerminator = FALSE,
           C!BlockStart(c)
    PROVE  /\ code' = c /\ Passed(c, out', i', {}) /\ InBlocks(out', afterTerminator')
<1>1. code' = c /\ afterTerminator' = FALSE
  BY DEF C!BlockStart
<1>2. CASE c # <<>> /\ c[1].op = "label" /\ c[1].to = <<C!beginning>>
  <2>. DEFINE x == c[1]
              o == <<x>>
  <2>1. i' = 2 /\ out' = o /\ x.op = "label"
    BY <1>2 DEF C!BlockStart
  <2>2. 1 \in DOMAIN c
    <3>1. Len(c) \in Nat /\ DOMAIN c = 1 .. Len(c) /\ c \in Seq(Range(c))
      BY IsSeqIs DEF IsCode, IsSeq
    <3>2. Len(c) # 0
      BY <1>2, <3>1
    <3>. QED BY <3>1, <3>2
  <2>3. IsInstr(x)
    BY <2>2 DEF IsCode, IsInstr
  <2>4. \A k \in DOMAIN c : k < 2 => k = 1
    BY IsSeqIs DEF IsCode
  <2>. HIDE DEF x
  <2>5. IsCode(o) /\ LabelsOf(o) = {x.to[1]} /\ TargetsOf(o) = {} /\ InBlocks(o, FALSE)
    BY <2>1, <2>3, OneIs, FirstBlock DEF IsTerminator
  <2>. HIDE DEF o
  <2>6. Passed(c, o, 2, {})
    BY <2>4, <2>5 DEF Passed, x
  <2>. QED BY <1>1, <2>1, <2>5, <2>6
<1>3. CASE ~(c # <<>> /\ c[1].op = "label" /\ c[1].to = <<C!beginning>>)
  <2>. DEFINE x == C!Label(C!beginning)
              o == <<x>>
  <2>1. i' = 1 /\ out' = o
    BY <1>3 DEF C!BlockStart
  <2>2. IsMark(x, C!beginning)
    BY SameC, ControlIs
  <2>. HIDE DEF x
  <2>3. IsCode(o) /\ TargetsOf(o) = {} /\ InBlocks(o, FALSE)
    BY <2>2, OneIs, FirstBlock DEF IsMark
  <2>. HIDE DEF o
  <2>4. \A k \in DOMAIN c : ~(k < 1)
    BY IsSeqIs DEF IsCode
  <2>5. Passed(c, o, 1, {})
    BY <2>3, <2>4 DEF Passed
  <2>. QED BY <1>1, <2>1, <2>3, <2>5
<1>. QED BY <1>2, <1>3

(* and at the end closes the last one.                                     *)
LEMMA BlockResultIs ==
    ASSUME Passed(code, out, i, {}), i > Len(code), InBlocks(out, afterTerminator)
    PROVE  /\ IsCode(C!BlockResult) /\ InBlocks(C!BlockResult, TRUE)
           /\ TargetsOf(C!BlockResult) \subseteq LabelsOf(C!BlockResult)
<1>1. IsCode(out) /\ TargetsOf(out) \subseteq LabelsOf(out)
  BY PassedAll
<1>2. CASE afterTerminator
  <2>1. C!BlockResult = out /\ afterTerminator = TRUE
    BY <1>2 DEF C!BlockResult, InBlocks, IsTerminator
  <2>. QED BY <1>1, <2>1
<1>3. CASE ~afterTerminator
  <2>. DEFINE ts == IF fun.returns = "void" THEN <<>> ELSE <<C!Num(0)>>
              x == C!Return(ts)
              u == <<x>>
  <2>1. IsSeq(ts)
    BY TuplesAre
  <2>2. IsJump(x, {})
    BY <2>1, SameC, ControlIs
  <2>3. C!BlockResult = out \o u
    <3>1. C!BlockResult = Append(out, x)
      BY <1>3 DEF C!BlockResult
    <3>. HIDE DEF x
    <3>. QED BY <1>1, <3>1, Appended DEF IsCode
  <2>. HIDE DEF x
  <2>4. IsCode(u) /\ TargetsOf(u) = {}
    BY <2>2, OneIs DEF IsJump
  <2>5. InBlocks(out \o <<x>>, IsTerminator(x))
    <3>1. IsSeq(out) /\ (afterTerminator <=> x.op = "label")
      BY <1>1, <1>3, <2>2 DEF IsCode, IsJump
    <3>. QED BY <3>1, BlocksGrow
  <2>6. IsTerminator(x) = TRUE
    BY <2>2 DEF IsJump, IsTerminator
  <2>7. InBlocks(out \o u, TRUE)
    BY <2>5, <2>6
  <2>. HIDE DEF u
  <2>8. /\ IsCode(out \o u) /\ LabelsOf(out \o u) = LabelsOf(out) \cup LabelsOf(u)
        /\ TargetsOf(out \o u) = TargetsOf(out) \cup TargetsOf(u)
    BY <1>1, <2>4, CodeJoined
  <2>. QED BY <1>1, <2>3, <2>4, <2>7, <2>8
<1>. QED BY <1>2, <1>3

-----------------------------------------------------------------------------
(* The invariant: the pass at work has passed the instructions before the  *)
(* next one, and the jumps of what it has written lead to labels that are  *)
(* written or still to come.                                               *)
LaInv ==
    /\ stage = "encode" => afterTerminator = FALSE /\ Passed(code, out, i, {})
    /\ stage = "check"  => afterTerminator = FALSE /\ Passed(code, out, i, Pending)
    /\ stage = "blocks" => Passed(code, out, i, {}) /\ InBlocks(out, afterTerminator)
    /\ BlocksAreFormed

(* The source is code that uses only labels it has.                        *)
LEMMA SourceIs ==
    ASSUME Init
    PROVE  Passed(code, out, i, {})
<1>1. PICK f \in Sources : fun = [f EXCEPT !.body = [k \in DOMAIN f.body |->
                                                       [f.body[k] EXCEPT !.of = k]]]
  BY DEF Init
<1>. DEFINE b == f.body
<1>2. DOMAIN f = {"params", "returns", "body"} /\ b \in Seq(Instructions)
      /\ \A k \in DOMAIN b : IsTerminator(b[k]) =>
             \A l \in Range(b[k].to) : Places(b, l) # {}
  BY SourcesAssumption
<1>3. code = [k \in DOMAIN b |-> [b[k] EXCEPT !.of = k]]
  <2>1. code = fun.body
    BY DEF Init
  <2>. HIDE DEF b
  <2>. QED BY <1>1, <1>2, <2>1 DEF b
<1>. HIDE DEF b
<1>4. DOMAIN b = 1 .. Len(b) /\ Len(b) \in Nat /\ \A k \in DOMAIN b : b[k] \in Instructions
  BY <1>2
<1>5. \A k \in DOMAIN b : /\ DOMAIN b[k] = Fields /\ IsSeq(b[k].args)
  <2>. TAKE k \in DOMAIN b
  <2>1. DOMAIN b[k] = Fields /\ b[k].args \in Seq(Terms)
    BY <1>4 DEF Instructions, Fields
  <2>. QED BY <2>1, SeqIsSeq
<1>6. \A k \in DOMAIN b : /\ code[k].op = b[k].op /\ code[k].to = b[k].to
                          /\ code[k].args = b[k].args /\ DOMAIN code[k] = Fields
  BY <1>3, <1>5 DEF Fields
<1>7. DOMAIN code = DOMAIN b /\ code = [k \in 1 .. Len(b) |-> code[k]]
  BY <1>3, <1>4
<1>8. IsCode(code)
  <2>1. IsSeq(code)
    BY <1>4, <1>7, FunctionIsSeq
  <2>. QED BY <1>5, <1>6, <1>7, <2>1 DEF IsCode
<1>9. TargetsOf(code) \subseteq LabelsOf(code)
  <2>1. ASSUME NEW k \in DOMAIN code, IsTerminator(code[k]), NEW l \in Range(code[k].to)
        PROVE  l \in LabelsOf(code)
    <3>1. k \in DOMAIN b /\ IsTerminator(b[k]) /\ l \in Range(b[k].to)
      BY <1>6, <1>7, <2>1 DEF IsTerminator
    <3>2. PICK p \in DOMAIN b : b[p].op = "label" /\ b[p].to[1] = l
      BY <1>2, <3>1 DEF Places
    <3>. QED BY <1>6, <1>7, <3>2 DEF LabelsOf
  <2>. QED BY <2>1 DEF TargetsOf
<1>10. out = <<>> /\ i = 1
  BY DEF Init, E!EncodeInit
<1>. QED BY <1>8, <1>9, <1>10, StartOfPass

(* It holds at first.                                                      *)
LEMMA LaInvStarts ==
    Init => LaInv
<1>. SUFFICES ASSUME Init PROVE LaInv
  OBVIOUS
<1>1. stage = "encode" /\ afterTerminator = FALSE
  BY DEF Init
<1>2. Passed(code, out, i, {})
  BY SourceIs
<1>. QED BY <1>1, <1>2 DEF LaInv, BlocksAreFormed

(* Every step keeps it.                                                    *)
LEMMA LaInvKept ==
    LaInv /\ [Next]_vars => LaInv'
<1>. SUFFICES ASSUME LaInv, [Next]_vars PROVE LaInv'
  OBVIOUS
<1>1. CASE EncodeValues
  <2>1. stage = "encode" /\ stage' = "encode" /\ afterTerminator' = afterTerminator
        /\ E!EncodeNext
    BY <1>1 DEF EncodeValues
  <2>2. Passed(code, out, i, {}) /\ afterTerminator = FALSE
    BY <2>1 DEF LaInv
  <2>3. code' = code /\ Passed(code, out', i', {})
    BY <2>1, <2>2, EncodeStep
  <2>4. Passed(code', out', i', {})
    BY <2>3
  <2>. QED BY <2>1, <2>2, <2>4 DEF LaInv, BlocksAreFormed
<1>2. CASE StartChecks
  <2>1. /\ stage = "encode" /\ stage' = "check" /\ i > Len(code)
        /\ code' = out /\ i' = 1 /\ out' = <<>> /\ afterTerminator' = afterTerminator
    BY <1>2 DEF StartChecks, C!CheckStart
  <2>2. Passed(code, out, i, {}) /\ afterTerminator = FALSE
    BY <2>1 DEF LaInv
  <2>3. IsCode(out) /\ TargetsOf(out) \subseteq LabelsOf(out)
    BY <2>1, <2>2, PassedAll
  <2>4. Passed(out, <<>>, 1, Pending')
    BY <2>3, StartOfPass
  <2>5. Passed(code', out', i', Pending')
    BY <2>1, <2>4
  <2>. QED BY <2>1, <2>2, <2>5 DEF LaInv, BlocksAreFormed
<1>3. CASE CheckAccesses
  <2>1. stage = "check" /\ stage' = "check" /\ afterTerminator' = afterTerminator
        /\ C!CheckNext
    BY <1>3 DEF CheckAccesses
  <2>2. Passed(code, out, i, Pending) /\ afterTerminator = FALSE
    BY <2>1 DEF LaInv
  <2>3. code' = code /\ Passed(code, out', i', Pending')
    BY <2>1, <2>2, CheckStep
  <2>4. Passed(code', out', i', Pending')
    BY <2>3
  <2>. QED BY <2>1, <2>2, <2>4 DEF LaInv, BlocksAreFormed
<1>4. CASE StartBlocks
  <2>. DEFINE c == C!CheckResult
  <2>1. stage = "check" /\ stage' = "blocks" /\ i > Len(code) /\ C!BlockStart(c)
    BY <1>4 DEF StartBlocks
  <2>2. Passed(code, out, i, Pending) /\ afterTerminator = FALSE
    BY <2>1 DEF LaInv
  <2>3. IsCode(c) /\ TargetsOf(c) \subseteq LabelsOf(c)
    BY <2>1, <2>2, CheckResultIs
  <2>. HIDE DEF c
  <2>4. code' = c /\ Passed(c, out', i', {}) /\ InBlocks(out', afterTerminator')
    BY <2>1, <2>2, <2>3, BlockStartIs
  <2>5. Passed(code', out', i', {})
    BY <2>4
  <2>. QED BY <2>1, <2>4, <2>5 DEF LaInv, BlocksAreFormed
<1>5. CASE FormBlocks
  <2>1. stage = "blocks" /\ stage' = "blocks" /\ C!BlockNext
    BY <1>5 DEF FormBlocks
  <2>2. Passed(code, out, i, {}) /\ InBlocks(out, afterTerminator)
    BY <2>1 DEF LaInv
  <2>3. code' = code /\ Passed(code, out', i', {}) /\ InBlocks(out', afterTerminator')
    BY <2>1, <2>2, BlockStep
  <2>4. Passed(code', out', i', {})
    BY <2>3
  <2>. QED BY <2>1, <2>3, <2>4 DEF LaInv, BlocksAreFormed
<1>6. CASE StartRun
  <2>. DEFINE c == C!BlockResult
  <2>1. stage = "blocks" /\ stage' = "run" /\ i > Len(code) /\ code' = c
    BY <1>6 DEF StartRun
  <2>2. Passed(code, out, i, {}) /\ InBlocks(out, afterTerminator)
    BY <2>1 DEF LaInv
  <2>3. IsCode(c) /\ InBlocks(c, TRUE) /\ TargetsOf(c) \subseteq LabelsOf(c)
    BY <2>1, <2>2, BlockResultIs
  <2>. HIDE DEF c
  <2>4. c[1].op = "label" /\ IsTerminator(c[Len(c)])
        /\ \A k \in 2 .. Len(c) : IsTerminator(c[k - 1]) <=> c[k].op = "label"
    BY <2>3 DEF InBlocks
  <2>5. ASSUME NEW k \in DOMAIN c, IsTerminator(c[k]), NEW l \in Range(c[k].to)
        PROVE  Places(c, l) # {}
    <3>1. l \in LabelsOf(c)
      BY <2>3, <2>5 DEF TargetsOf
    <3>2. PICK p \in DOMAIN c : c[p].op = "label" /\ c[p].to[1] = l
      BY <3>1 DEF LabelsOf
    <3>. QED BY <3>2 DEF Places
  <2>6. BlocksAreFormed'
    BY <2>1, <2>4, <2>5 DEF BlocksAreFormed, Last
  <2>. QED BY <2>1, <2>6 DEF LaInv
<1>7. CASE Run
  <2>1. code' = code /\ stage = "run" /\ stage' \in {"run", "stopped"}
    BY <1>7 DEF Run, Instruction, RunReturn, RunError, RunsWith, Inserted, CanRun, RunCopy,
         RunWrite, RunCall, RunStore, RunJump, RunInsertedMark, RunInsertedAssign,
         RunInsertedLength, RunInsertedOp, RunInsertedCond, RunInsertedBranch
  <2>2. BlocksAreFormed'
    BY <2>1 DEF LaInv, BlocksAreFormed
  <2>. QED BY <2>1, <2>2 DEF LaInv
<1>8. CASE UNCHANGED vars
  <2>1. UNCHANGED <<code, out, i, stage, afterTerminator, useError, fun>>
    BY <1>8 DEF vars, checkState
  <2>2. Pending' = Pending
    BY <2>1 DEF Pending, C!errLabel, C!Shared
  <2>3. BlocksAreFormed'
    BY <2>1 DEF LaInv, BlocksAreFormed
  <2>. QED BY <2>1, <2>2, <2>3 DEF LaInv
<1>. QED BY <1>1, <1>2, <1>3, <1>4, <1>5, <1>6, <1>7, <1>8 DEF Next

(* A function is compiled to blocks the IR compiler takes: each begins     *)
(* with a label and ends with the one terminator it has, and every label   *)
(* that is used is there, whatever was inserted.                           *)
THEOREM BlocksAreAlwaysFormed == Spec => []BlocksAreFormed
<1>1. LaInv => BlocksAreFormed
  BY DEF LaInv
<1>. QED BY <1>1, LaInvStarts, LaInvKept, PTL DEF Spec

-----------------------------------------------------------------------------
(* The names that are made up.                                             *)

(* There is a free number from k on, as the reserved names are finite.     *)
LEMMA NextFreeIs ==
    ASSUME NEW reserved, IsFiniteSet(reserved), NEW k \in Nat
    PROVE  /\ NextFree(reserved, k) \in Nat /\ NextFree(reserved, k) >= k
           /\ NewVar(NextFree(reserved, k)) \notin reserved
<1>. DEFINE N == Cardinality(reserved)
            name(j) == NewVar(j)
<1>1. N \in Nat
  BY FS_CardinalityType
<1>2. \A m, n : name(m) = name(n) => m = n
  BY DEF NewVar
<1>. HIDE DEF name, N
<1>3. \E j \in k .. k + N : name(j) \notin reserved
  <2>. SUFFICES ASSUME \A j \in k .. k + N : name(j) \in reserved PROVE FALSE
    OBVIOUS
  <2>. DEFINE f == [j \in k .. k + N |-> name(j)]
  <2>1. f \in [k .. k + N -> reserved]
    OBVIOUS
  <2>2. IsFiniteSet(k .. k + N) /\ Cardinality(reserved) < Cardinality(k .. k + N)
    <3>. DEFINE b == k + N
    <3>1. k \in Int /\ b \in Int /\ ~(k > b) /\ b - k + 1 = N + 1
      BY <1>1
    <3>. HIDE DEF b
    <3>2. IsFiniteSet(k .. b) /\ Cardinality(k .. b) = N + 1
      BY <3>1, FS_Interval
    <3>. USE DEF b
    <3>. QED BY <1>1, <3>1, <3>2 DEF N
  <2>. HIDE DEF f
  <2>3. \E x, y \in k .. k + N : x # y /\ f[x] = f[y]
    BY <2>1, <2>2, FS_PigeonHole
  <2>. QED BY <1>2, <2>3 DEF f
<1>. DEFINE T == {j \in k .. k + N : name(j) \notin reserved}
<1>5. PICK n \in T : \A m \in T : n <= m
  <2>1. T \subseteq Nat /\ T # {}
    BY <1>1, <1>3
  <2>. HIDE DEF T
  <2>. QED BY <2>1, HasLeast
<1>. DEFINE good(j) == name(j) \notin reserved /\ \A q \in k .. j - 1 : name(q) \in reserved
<1>6. n \in k .. k + N /\ good(n)
  <2>1. \A m \in k .. n - 1 : m \in k .. k + N /\ ~(n <= m)
    BY <1>1, <1>5
  <2>. QED BY <1>5, <2>1
<1>7. NextFree(reserved, k) = CHOOSE j \in k .. k + N : good(j)
  BY DEF NextFree, name, N
<1>. DEFINE r == CHOOSE j \in k .. k + N : good(j)
<1>8. r \in k .. k + N /\ good(r)
  <2>. HIDE DEF good
  <2>. QED BY <1>6
<1>. HIDE DEF r
<1>9. r \in Nat /\ r >= k
  BY <1>1, <1>8
<1>. QED BY <1>7, <1>8, <1>9 DEF r, name

(* Every call takes a higher one.                                          *)
LEMMA FreshIs ==
    ASSUME NEW reserved, IsFiniteSet(reserved), NEW k \in Nat, NEW n \in Nat
    PROVE  /\ \A c \in 1 .. n :
                 LET taken == Fresh(reserved, k, n)
                 IN  taken[c] \in Nat /\ taken[c] >= k /\ NewVar(taken[c]) \notin reserved
           /\ \A c \in 1 .. n : c > 1 =>
                 Fresh(reserved, k, n)[c - 1] < Fresh(reserved, k, n)[c]
           /\ Len(Fresh(reserved, k, n)) = n
<1>. DEFINE nf(j) == NextFree(reserved, j)
            step(g, c) == nf(IF c = 1 THEN k ELSE g[c - 1] + 1)
            ok(j) == j \in Nat /\ j >= k /\ NewVar(j) \notin reserved
            upTo(g, m) == /\ g = [c \in 1 .. m |-> g[c]]
                          /\ \A c \in 1 .. m : g[c] = step(g, c) /\ ok(g[c])
            bad == {m \in 0 .. n : ~\E g : upTo(g, m)}
<1>1. \A j \in Nat : j >= k => ok(nf(j)) /\ nf(j) >= j
  BY NextFreeIs
<1>. HIDE DEF nf
<1>2. bad = {}
  <2>. SUFFICES ASSUME bad # {} PROVE FALSE
    OBVIOUS
  <2>1. bad \subseteq Nat
    OBVIOUS
  <2>2. PICK m \in bad : \A p \in bad : m <= p
    <3>. HIDE DEF bad
    <3>. QED BY <2>1, HasLeast
  <2>3. m \in 0 .. n /\ m \in Nat
    OBVIOUS
  <2>4. CASE m = 0
    <3>. DEFINE g == [c \in 1 .. 0 |-> k]
    <3>1. upTo(g, 0)
      OBVIOUS
    <3>2. \E h : upTo(h, m)
      <4>. HIDE DEF upTo, g
      <4>. QED BY <2>4, <3>1
    <3>. QED BY <3>2
  <2>5. CASE m # 0
    <3>1. m - 1 \in 0 .. n /\ m - 1 \notin bad
      <4>1. m - 1 \in 0 .. n /\ ~(m <= m - 1)
        BY <2>3, <2>5
      <4>. HIDE DEF bad
      <4>. QED BY <2>2, <4>1
    <3>2. PICK f : upTo(f, m - 1)
      BY <3>1
    <3>. DEFINE g == [c \in 1 .. m |-> IF c = m THEN step(f, m) ELSE f[c]]
    <3>3. \A c \in 1 .. m - 1 : g[c] = f[c] /\ c \in 1 .. m
      BY <2>3
    <3>4. ASSUME NEW c \in 1 .. m
          PROVE  g[c] = step(g, c) /\ ok(g[c])
      <4>1. CASE c = m
        <5>1. c # 1 => c - 1 \in 1 .. m - 1
          BY <2>3, <4>1
        <5>2. g[c] = step(f, c)
          BY <4>1
        <5>3. step(f, c) = step(g, c)
          BY <3>3, <5>1
        <5>4. ok(step(f, c))
          <6>1. CASE c = 1
            BY <1>1, <6>1
          <6>2. CASE c # 1
            <7>1. ok(f[c - 1])
              BY <3>2, <5>1, <6>2
            <7>2. f[c - 1] + 1 \in Nat /\ f[c - 1] + 1 >= k
              BY <7>1
            <7>. QED BY <1>1, <6>2, <7>2
          <6>. QED BY <6>1, <6>2
        <5>. HIDE DEF g, step, ok
        <5>. QED BY <5>2, <5>3, <5>4
      <4>2. CASE c # m
        <5>1. c \in 1 .. m - 1 /\ (c # 1 => c - 1 \in 1 .. m - 1)
          BY <2>3, <4>2
        <5>2. g[c] = f[c] /\ (c # 1 => g[c - 1] = f[c - 1])
          BY <3>3, <5>1
        <5>3. f[c] = step(f, c) /\ ok(f[c])
          BY <3>2, <5>1
        <5>. HIDE DEF g, upTo, ok
        <5>. QED BY <5>2, <5>3
      <4>. QED BY <4>1, <4>2
    <3>5. upTo(g, m)
      BY <3>4
    <3>6. \E h : upTo(h, m)
      <4>. HIDE DEF upTo, g
      <4>. QED BY <3>5
    <3>. QED BY <2>2, <3>6
  <2>. QED BY <2>4, <2>5
<1>4. PICK g : upTo(g, n)
  <2>1. n \in 0 .. n
    OBVIOUS
  <2>. HIDE DEF upTo
  <2>. QED BY <1>2, <2>1
<1>5. \E h : h = [c \in 1 .. n |-> step(h, c)]
  <2>1. g = [c \in 1 .. n |-> step(g, c)]
    BY <1>4
  <2>. QED BY <2>1
<1>. DEFINE taken == CHOOSE h : h = [c \in 1 .. n |-> step(h, c)]
<1>6. taken = [c \in 1 .. n |-> step(taken, c)]
  BY <1>5
<1>7. Fresh(reserved, k, n) = taken
  BY DEF Fresh, nf
<1>. HIDE DEF taken
<1>8. \A c \in 1 .. n : taken[c] = step(taken, c)
  BY <1>6
<1>11. Len(taken) = n
  <2>1. DOMAIN taken = 1 .. n /\ taken = [c \in 1 .. n |-> taken[c]]
    <3>. HIDE DEF step
    <3>. QED BY <1>6
  <2>. QED BY <2>1, FunctionIsSeq
<1>9. \A c \in 1 .. n : ok(taken[c])
  <2>. DEFINE wrong == {c \in 1 .. n : ~ok(taken[c])}
  <2>. SUFFICES ASSUME wrong # {} PROVE FALSE
    OBVIOUS
  <2>1. wrong \subseteq Nat
    OBVIOUS
  <2>2. PICK c \in wrong : \A p \in wrong : c <= p
    <3>. HIDE DEF wrong
    <3>. QED BY <2>1, HasLeast
  <2>3. c \in 1 .. n /\ ~ok(taken[c])
    OBVIOUS
  <2>4. CASE c = 1
    <3>1. taken[c] = nf(k)
      BY <1>8, <2>3, <2>4
    <3>. QED BY <1>1, <2>3, <3>1
  <2>5. CASE c # 1
    <3>1. c - 1 \in 1 .. n /\ ~(c <= c - 1)
      BY <2>3, <2>5
    <3>2. ok(taken[c - 1])
      <4>1. c - 1 \notin wrong
        <5>. HIDE DEF wrong
        <5>. QED BY <2>2, <3>1
      <4>. QED BY <3>1, <4>1
    <3>3. taken[c] = nf(taken[c - 1] + 1)
      BY <1>8, <2>3, <2>5
    <3>4. taken[c - 1] + 1 \in Nat /\ taken[c - 1] + 1 >= k
      BY <3>2
    <3>. QED BY <1>1, <2>3, <3>3, <3>4
  <2>. QED BY <2>4, <2>5
<1>10. ASSUME NEW c \in 1 .. n, c > 1
       PROVE  taken[c - 1] < taken[c]
  <2>1. c - 1 \in 1 .. n /\ c # 1
    BY <1>10
  <2>2. ok(taken[c - 1]) /\ taken[c] = nf(taken[c - 1] + 1)
    BY <1>8, <1>9, <2>1
  <2>3. taken[c - 1] + 1 \in Nat /\ taken[c - 1] + 1 >= k
    BY <2>2
  <2>4. nf(taken[c - 1] + 1) \in Nat /\ nf(taken[c - 1] + 1) >= taken[c - 1] + 1
    BY <1>1, <2>3
  <2>. QED BY <2>2, <2>4
<1>. QED BY <1>7, <1>9, <1>10, <1>11

-----------------------------------------------------------------------------
(* What is known on the way: a claim is a pair of a name and what a        *)
(* variable of that name holds, or of NoName and a check that has          *)
(* succeeded.  Never is there where nothing comes.                         *)
Fact(v) == <<NoName, v>>
Never   == Fact(Finding("never", NoName, Num(0), 0))

(* What is known at a label the passes make up; L has it for the numbers   *)
(* in use.  Nothing is known at a label of the source.                     *)
Owed(L, l) == IF l[1] = "new_var" THEN L[l[2]] \ {Never} ELSE {}

Extends(M, L) == DOMAIN L \subseteq DOMAIN M /\ \A n \in DOMAIN L : M[n] = L[n]

(* What is still known after x is written, and what an inserted            *)
(* instruction finds out.                                                  *)
Keep(A, x) == {c \in A \ {Never} : (c[1] = NoName \/ c[1] # x) /\ ~Mentions(c[2], x)}

Learns(A, x, c) ==
    /\ x.of = 0 /\ c[1] = x.dst /\ c[1] # NoName
    /\ \/ x.op = "length" /\ c[2] = Finding("length", x.base, Num(0),
                                            IF x.args = <<>> THEN 0 ELSE x.args[1].num)
       \/ x.op = "op" /\ x.kind = "=" /\ c[2] = Finding("null", x.args[1].name, Num(0), 0)
       \/ x.op = "op" /\ x.kind = ">=" /\ c[2] = Finding(">=", NoName, x.args[1], 0)
       \/ /\ x.op = "op" /\ x.kind = ">>" /\ x.args[1].name # NoName
          /\ \E v : /\ <<x.args[1].name, v>> \in A /\ v.form = "length"
                    /\ c[2] = Finding("length>>1", v.base, v.arg, v.dim)
       \/ /\ x.op = "op" /\ x.kind = "<" /\ x.args[2].name # NoName
          /\ \E v : /\ <<x.args[2].name, v>> \in A /\ v.form = "length>>1"
                    /\ c[2] = Finding("<", v.base, x.args[1], v.dim)

(* The checks an access needs.                                             *)
Needed(x) ==
    {Fact(Finding("null", x.base, Num(0), 0))} \cup
    (IF x.op = "length" THEN {} ELSE
     UNION {{Fact(Finding(">=", NoName, Indices(x)[d], 0)),
             Fact(Finding("<", x.base, Indices(x)[d], d - 1))} : d \in DOMAIN Indices(x)})

(* A jump owes what is known where it goes.                                *)
Pays(L, A, x) ==
    IF x.op = "cond" /\ x.of = 0
    THEN /\ DOMAIN x.to = {1, 2} /\ x.args[1].name # NoName
         /\ \E v : LET good == IF v.form = "null" THEN 2 ELSE 1
                   IN  /\ <<x.args[1].name, v>> \in A
                       /\ Owed(L, x.to[good]) \subseteq A \cup {Fact(v)}
                       /\ Owed(L, x.to[3 - good]) \subseteq A
    ELSE /\ x.op = "branch" /\ x.of = 0 => 1 \in DOMAIN x.to
         /\ \A l \in Range(x.to) : Owed(L, l) \subseteq A

(* The instruction x is run where A is known, and then B is.               *)
Flows(L, A, x, B) ==
    /\ \A l \in Range(x.to) : l[1] = "new_var" => l[2] \in DOMAIN L
    /\ x.of # 0 /\ x.op \in Accesses => Needed(x) \subseteq A
    /\ x.op = "label" => /\ 1 \in DOMAIN x.to
                         /\ A = {Never} \/ Owed(L, x.to[1]) \subseteq A
                         /\ B \subseteq Owed(L, x.to[1])
    /\ IsTerminator(x) => B = {Never} /\ Pays(L, A, x)
    /\ x.op = "call" => Never \notin B /\ (x.of # 0 => B = {})
    /\ x.op = "store" => B \subseteq A \ {Never}
    /\ x.op \notin {"label", "call", "store"} /\ ~IsTerminator(x) =>
         \A c \in B : c \in Keep(A, x.dst) \/ Learns(A, x, c)

(* The same for code, with what is known before each of its instructions.  *)
Leads(L, c, A, B) ==
    \E K : /\ K[1] = A /\ K[Len(c) + 1] = B
           /\ \A k \in DOMAIN c : Flows(L, K[k], c[k], K[k + 1])

(* No code leads nowhere else.                                             *)
LEMMA LeadsNowhere ==
    ASSUME NEW L, NEW A
    PROVE  Leads(L, <<>>, A, A)
<1>. DEFINE K == <<A>>
<1>1. K[1] = A /\ K[Len(<<>>) + 1] = A /\ DOMAIN <<>> = {}
  OBVIOUS
<1>. HIDE DEF K
<1>. QED BY <1>1 DEF Leads

(* One instruction leads where it flows,                                   *)
LEMMA LeadsOne ==
    ASSUME NEW L, NEW A, NEW B, NEW x, Flows(L, A, x, B)
    PROVE  Leads(L, <<x>>, A, B)
<1>. DEFINE K == <<A, B>>
            c == <<x>>
<1>1. K[1] = A /\ K[2] = B /\ Len(c) = 1 /\ DOMAIN c = {1} /\ c[1] = x
  OBVIOUS
<1>. HIDE DEF K, c
<1>2. Leads(L, c, A, B)
  BY <1>1 DEF Leads
<1>. QED BY <1>2 DEF c

(* and code goes on where other code leads.                                *)
LEMMA LeadsOn ==
    ASSUME NEW L, NEW A, NEW B, NEW D, NEW c, NEW d, IsSeq(c), IsSeq(d),
           Leads(L, c, A, B), Leads(L, d, B, D)
    PROVE  Leads(L, c \o d, A, D)
<1>1. PICK J : /\ J[1] = A /\ J[Len(c) + 1] = B
               /\ \A k \in DOMAIN c : Flows(L, J[k], c[k], J[k + 1])
  BY DEF Leads
<1>2. PICK K : /\ K[1] = B /\ K[Len(d) + 1] = D
               /\ \A k \in DOMAIN d : Flows(L, K[k], d[k], K[k + 1])
  BY DEF Leads
<1>. DEFINE n == Len(c)
            m == Len(d)
            e == c \o d
            M == [k \in 1 .. n + m + 1 |-> IF k <= n THEN J[k] ELSE K[k - n]]
<1>3. /\ n \in Nat /\ m \in Nat /\ DOMAIN c = 1 .. n /\ DOMAIN d = 1 .. m
      /\ Len(e) = n + m /\ DOMAIN e = 1 .. n + m
      /\ \A k \in 1 .. n + m : e[k] = IF k <= n THEN c[k] ELSE d[k - n]
  BY Joined, IsSeqIs
<1>. HIDE DEF n, m, e
<1>4. /\ \A k \in 1 .. n : M[k] = J[k]
      /\ \A k \in 1 .. m + 1 : M[n + k] = K[k]
      /\ M[n + 1] = J[n + 1]
  <2>1. \A k \in 1 .. n : M[k] = J[k]
    BY <1>3
  <2>2. ASSUME NEW k \in 1 .. m + 1 PROVE M[n + k] = K[k]
    <3>. DEFINE p == n + k
    <3>1. p \in 1 .. n + m + 1 /\ ~(p <= n) /\ p - n = k
      BY <1>3
    <3>. HIDE DEF p
    <3>2. M[p] = K[k]
      BY <3>1
    <3>. QED BY <3>2 DEF p
  <2>3. M[n + 1] = K[1]
    <3>1. 1 \in 1 .. m + 1
      BY <1>3
    <3>. HIDE DEF M
    <3>. QED BY <2>2, <3>1
  <2>. HIDE DEF M
  <2>. QED BY <1>1, <1>2, <2>1, <2>2, <2>3 DEF n
<1>5. M[1] = A
  <2>1. CASE n = 0
    <3>1. 1 \in 1 .. m + 1 /\ M[1] = M[n + 1] /\ J[1] = J[n + 1]
      BY <1>3, <2>1
    <3>. HIDE DEF M
    <3>. QED BY <1>1, <1>4, <3>1
  <2>2. CASE n # 0
    <3>1. 1 \in 1 .. n
      BY <1>3, <2>2
    <3>. HIDE DEF M
    <3>. QED BY <1>1, <1>4, <3>1
  <2>. QED BY <2>1, <2>2
<1>6. M[n + m + 1] = D
  <2>1. m + 1 \in 1 .. m + 1 /\ n + (m + 1) = n + m + 1
    BY <1>3
  <2>2. M[n + (m + 1)] = K[m + 1]
    <3>. HIDE DEF M
    <3>. QED BY <1>4, <2>1
  <2>3. M[n + m + 1] = M[n + (m + 1)]
    BY <1>3
  <2>. HIDE DEF M
  <2>. QED BY <1>2, <2>2, <2>3 DEF m
<1>. HIDE DEF M
<1>7. ASSUME NEW k \in 1 .. n + m
      PROVE  Flows(L, M[k], e[k], M[k + 1])
  <2>1. CASE k <= n
    <3>1. k \in 1 .. n /\ e[k] = c[k]
      BY <1>3, <2>1
    <3>2. M[k + 1] = J[k + 1]
      <4>1. CASE k = n
        BY <1>4, <4>1
      <4>2. CASE k # n
        <5>1. k + 1 \in 1 .. n
          BY <1>3, <3>1, <4>2
        <5>. QED BY <1>4, <5>1
      <4>. QED BY <4>1, <4>2
    <3>. QED BY <1>1, <1>3, <1>4, <3>1, <3>2
  <2>2. CASE ~(k <= n)
    <3>. DEFINE p == k - n
    <3>1. /\ p \in 1 .. m /\ p + 1 \in 1 .. m + 1 /\ p \in 1 .. m + 1
          /\ k = n + p /\ k + 1 = n + (p + 1) /\ e[k] = d[p]
      BY <1>3, <2>2
    <3>. HIDE DEF p
    <3>2. M[k] = K[p] /\ M[k + 1] = K[p + 1]
      BY <1>4, <3>1
    <3>. QED BY <1>2, <1>3, <3>1, <3>2
  <2>. QED BY <2>1, <2>2
<1>8. Leads(L, e, A, D)
  <2>1. Len(e) + 1 = n + m + 1
    BY <1>3
  <2>. QED BY <1>3, <1>5, <1>6, <1>7, <2>1 DEF Leads
<1>. QED BY <1>8 DEF e

(* More labels do not matter.                                              *)
LEMMA FlowsStill ==
    ASSUME NEW L, NEW M, Extends(M, L), NEW A, NEW B, NEW x, Flows(L, A, x, B)
    PROVE  Flows(M, A, x, B)
<1>1. \A l \in Range(x.to) : Owed(M, l) = Owed(L, l)
  BY DEF Flows, Extends, Owed
<1>2. \A l \in Range(x.to) : l[1] = "new_var" => l[2] \in DOMAIN M
  BY DEF Flows, Extends
<1>3. x.op = "label" => Owed(M, x.to[1]) = Owed(L, x.to[1])
  BY <1>1 DEF Flows, Range
<1>4. Pays(L, A, x) => Pays(M, A, x)
  <2>1. CASE x.op = "cond" /\ x.of = 0
    <3>1. SUFFICES ASSUME Pays(L, A, x) PROVE Pays(M, A, x)
      OBVIOUS
    <3>2. DOMAIN x.to = {1, 2} /\ x.to[1] \in Range(x.to) /\ x.to[2] \in Range(x.to)
      BY <2>1, <3>1 DEF Pays, Range
    <3>3. \A g \in {1, 2} : Owed(M, x.to[g]) = Owed(L, x.to[g]) /\ 3 - g \in {1, 2}
      BY <1>1, <3>2
    <3>4. PICK v : LET good == IF v.form = "null" THEN 2 ELSE 1
                   IN  /\ <<x.args[1].name, v>> \in A
                       /\ Owed(L, x.to[good]) \subseteq A \cup {Fact(v)}
                       /\ Owed(L, x.to[3 - good]) \subseteq A
      BY <2>1, <3>1 DEF Pays
    <3>. DEFINE good == IF v.form = "null" THEN 2 ELSE 1
    <3>5. good \in {1, 2}
      OBVIOUS
    <3>6. /\ Owed(M, x.to[good]) \subseteq A \cup {Fact(v)}
          /\ Owed(M, x.to[3 - good]) \subseteq A
      <4>1. /\ Owed(L, x.to[good]) \subseteq A \cup {Fact(v)}
            /\ Owed(L, x.to[3 - good]) \subseteq A
        BY <3>4
      <4>. HIDE DEF good
      <4>. QED BY <3>3, <3>5, <4>1
    <3>7. \E w : LET g == IF w.form = "null" THEN 2 ELSE 1
                 IN  /\ <<x.args[1].name, w>> \in A
                     /\ Owed(M, x.to[g]) \subseteq A \cup {Fact(w)}
                     /\ Owed(M, x.to[3 - g]) \subseteq A
      <4>1. <<x.args[1].name, v>> \in A
        BY <3>4
      <4>. QED BY <3>6, <4>1
    <3>8. DOMAIN x.to = {1, 2} /\ x.args[1].name # NoName
      BY <2>1, <3>1 DEF Pays
    <3>. QED BY <2>1, <3>7, <3>8 DEF Pays
  <2>2. CASE ~(x.op = "cond" /\ x.of = 0)
    BY <1>1, <2>2 DEF Pays
  <2>. QED BY <2>1, <2>2
<1>. QED BY <1>2, <1>3, <1>4 DEF Flows

(* The same for code.                                                      *)
LEMMA LeadsStill ==
    ASSUME NEW L, NEW M, Extends(M, L), NEW A, NEW B, NEW c, Leads(L, c, A, B)
    PROVE  Leads(M, c, A, B)
BY FlowsStill DEF Leads

-----------------------------------------------------------------------------
(* The run.  The claims A hold of the values h and the checks f.           *)
MetIn(A, h, f) ==
    /\ Never \notin A
    /\ \A c \in A : /\ c[2] = Finding(c[2].form, c[2].base, c[2].arg, c[2].dim)
                    /\ IF c[1] = NoName THEN c[2] \in f
                       ELSE c[1] \in DOMAIN h /\ h[c[1]] = c[2]

(* An instruction of the result and the one of the source it stands for.   *)
Linked(x) ==
    x.of # 0 =>
        /\ x.of \in DOMAIN fun.body
        /\ IsTerminator(x) => x.to = fun.body[x.of].to
        /\ x.op = IF fun.body[x.of].op = "def" THEN "assign" ELSE fun.body[x.of].op

(* What is known where the run is.                                         *)
Here(L, K) == IF now.op = "label" THEN Owed(L, now.to[1]) ELSE K[pc]

Certified(L, K) ==
    \A k \in DOMAIN code : Flows(L, K[k], code[k], K[k + 1]) /\ Linked(code[k])

RunOk ==
    stage = "run" =>
        /\ IsSeq(code) /\ pc \in DOMAIN code
        /\ \E L, K : Certified(L, K) /\ MetIn(Here(L, K), holds, facts)

(* What is met is met in part.                                             *)
LEMMA FewerMet ==
    ASSUME NEW A, NEW B, NEW h, NEW f, MetIn(A, h, f), B \subseteq A
    PROVE  MetIn(B, h, f)
BY DEF MetIn

(* Writing x leaves what Keep says,                                        *)
LEMMA WriteKeeps ==
    ASSUME NEW A, NEW h, NEW f, MetIn(A, h, f), NEW x, NEW v
    PROVE  MetIn(Keep(A, x), SetTo(h, x, v), {g \in f : ~Mentions(g, x)})
<1>1. ASSUME NEW c \in Keep(A, x), c[1] # NoName
      PROVE  c[1] \in DOMAIN SetTo(h, x, v) /\ SetTo(h, x, v)[c[1]] = c[2]
  <2>1. c \in A /\ c[1] # x /\ ~Mentions(c[2], x) /\ c[1] \in DOMAIN h /\ h[c[1]] = c[2]
    BY <1>1 DEF Keep, MetIn
  <2>. QED BY <2>1 DEF SetTo
<1>. QED BY <1>1 DEF Keep, MetIn

(* whatever is known of variables of the source.                           *)
LEMMA SourceWriteKeeps ==
    ASSUME NEW A, MetIn(A, holds, facts), NEW x, NEW y
    PROVE  MetIn(A, NewValue(x), facts) /\ MetIn(A, CopiedValue(x, y), facts)
<1>1. \A v : v = Finding(v.form, v.base, v.arg, v.dim) =>
        /\ [v EXCEPT !.of = @ \ {x}] = v
        /\ [v EXCEPT !.of = IF y \in @ THEN @ \cup {x} ELSE @ \ {x}] = v
  BY DEF Finding
<1>2. ASSUME NEW c \in A, c[1] # NoName
      PROVE  /\ c[1] \in DOMAIN NewValue(x) /\ NewValue(x)[c[1]] = c[2]
             /\ c[1] \in DOMAIN CopiedValue(x, y) /\ CopiedValue(x, y)[c[1]] = c[2]
  <2>1. c[1] \in DOMAIN holds /\ holds[c[1]] = c[2]
        /\ c[2] = Finding(c[2].form, c[2].base, c[2].arg, c[2].dim)
    BY <1>2 DEF MetIn
  <2>. QED BY <1>1, <2>1 DEF NewValue, CopiedValue
<1>. QED BY <1>2 DEF MetIn

(* The run is at the next instruction, or at a label.                      *)
LEMMA GoesOn ==
    ASSUME BlocksAreFormed, stage = "run", pc \in DOMAIN code, IsSeq(code), ~IsTerminator(now)
    PROVE  pc + 1 \in DOMAIN code /\ code[pc + 1].op # "label"
<1>1. DOMAIN code = 1 .. Len(code) /\ Len(code) \in Nat
  BY IsSeqIs
<1>2. pc # Len(code)
  BY DEF BlocksAreFormed, Last, now
<1>. DEFINE k == pc + 1
<1>3. k \in 2 .. Len(code) /\ k - 1 = pc
  BY <1>1, <1>2
<1>. HIDE DEF k
<1>4. IsTerminator(code[k - 1]) <=> code[k].op = "label"
  BY <1>3 DEF BlocksAreFormed
<1>5. ~IsTerminator(code[k - 1])
  BY <1>3 DEF now
<1>6. k \in DOMAIN code /\ code[k].op # "label"
  BY <1>1, <1>3, <1>4, <1>5
<1>. QED BY <1>6 DEF k

(* and what x itself tells is known then.                                  *)
LEMMA WriteLearns ==
    ASSUME NEW A, NEW h, NEW f, MetIn(A, h, f), NEW x, NEW v,
           v = Finding(v.form, v.base, v.arg, v.dim),
           NEW B, \A c \in B : c \in Keep(A, x) \/ (c[1] = x /\ c[1] # NoName /\ c[2] = v)
    PROVE  MetIn(B, SetTo(h, x, v), {g \in f : ~Mentions(g, x)})
<1>1. MetIn(Keep(A, x), SetTo(h, x, v), {g \in f : ~Mentions(g, x)})
  BY WriteKeeps
<1>2. x \in DOMAIN SetTo(h, x, v) /\ SetTo(h, x, v)[x] = v
  BY DEF SetTo
<1>3. Never[1] = NoName
  BY DEF Never, Fact
<1>. QED BY <1>1, <1>2, <1>3 DEF MetIn

(* A term that is known to hold v has that value.                          *)
LEMMA ValueIs ==
    ASSUME NEW A, MetIn(A, holds, facts), NEW t, t.name # NoName, NEW v, <<t.name, v>> \in A
    PROVE  Value(t) = v /\ v = Finding(v.form, v.base, v.arg, v.dim)
<1>. DEFINE c == <<t.name, v>>
<1>1. c[1] = t.name /\ c[2] = v /\ c \in A
  OBVIOUS
<1>. HIDE DEF c
<1>2. t.name \in DOMAIN holds /\ holds[t.name] = v /\ v = Finding(v.form, v.base, v.arg, v.dim)
  BY <1>1 DEF MetIn
<1>. QED BY <1>2 DEF Value, IsNum

(* What an inserted operation is known to compute.                         *)
LEMMA ComputedIs ==
    ASSUME NEW A, MetIn(A, holds, facts), now.op = "op", NEW c, Learns(A, now, c)
    PROVE  c[1] = now.dst /\ c[1] # NoName /\ c[2] = Computed
           /\ Computed = Finding(Computed.form, Computed.base, Computed.arg, Computed.dim)
<1>1. c[1] = now.dst /\ c[1] # NoName
  BY DEF Learns
<1>. DEFINE l == now.args[1]
            r == now.args[2]
<1>2. CASE now.kind = "=" /\ c[2] = Finding("null", l.name, Num(0), 0)
  <2>1. Computed = Finding("null", l.name, Num(0), 0)
    BY <1>2 DEF Computed
  <2>. QED BY <1>1, <1>2, <2>1 DEF Finding
<1>3. CASE now.kind = ">=" /\ c[2] = Finding(">=", NoName, l, 0)
  <2>1. Computed = Finding(">=", NoName, l, 0)
    BY <1>3 DEF Computed
  <2>. QED BY <1>1, <1>3, <2>1 DEF Finding
<1>4. CASE /\ now.kind = ">>" /\ l.name # NoName
           /\ \E v : /\ <<l.name, v>> \in A /\ v.form = "length"
                     /\ c[2] = Finding("length>>1", v.base, v.arg, v.dim)
  <2>1. PICK v : /\ <<l.name, v>> \in A /\ v.form = "length"
                 /\ c[2] = Finding("length>>1", v.base, v.arg, v.dim)
    BY <1>4
  <2>2. Value(l) = v /\ v = Finding(v.form, v.base, v.arg, v.dim)
    BY <1>4, <2>1, ValueIs
  <2>3. Computed = [v EXCEPT !.form = "length>>1"]
    BY <1>4, <2>1, <2>2 DEF Computed
  <2>4. [v EXCEPT !.form = "length>>1"] = Finding("length>>1", v.base, v.arg, v.dim)
    BY <2>2 DEF Finding
  <2>. QED BY <1>1, <2>1, <2>3, <2>4 DEF Finding
<1>5. CASE /\ now.kind = "<" /\ r.name # NoName
           /\ \E v : /\ <<r.name, v>> \in A /\ v.form = "length>>1"
                     /\ c[2] = Finding("<", v.base, l, v.dim)
  <2>1. PICK v : /\ <<r.name, v>> \in A /\ v.form = "length>>1"
                 /\ c[2] = Finding("<", v.base, l, v.dim)
    BY <1>5
  <2>2. Value(r) = v
    BY <1>5, <2>1, ValueIs
  <2>3. Computed = Finding("<", v.base, l, v.dim)
    BY <1>5, <2>1, <2>2 DEF Computed
  <2>. QED BY <1>1, <2>1, <2>3 DEF Finding
<1>. QED BY <1>2, <1>3, <1>4, <1>5 DEF Learns

(* Every step of the run arrives with what is known there.                 *)
LEMMA RunStep ==
    ASSUME RunOk, BlocksAreFormed, stage = "run", Instruction,
           UNCHANGED <<fun, code, stage>>
    PROVE  RunOk'
<1>1. IsSeq(code) /\ pc \in DOMAIN code
  BY DEF RunOk
<1>2. PICK L, K : Certified(L, K) /\ MetIn(Here(L, K), holds, facts)
  BY DEF RunOk
<1>3. Flows(L, K[pc], now, K[pc + 1]) /\ Linked(now)
  BY <1>1, <1>2 DEF Certified, now
<1>4. Certified(L, K)' /\ IsSeq(code')
  BY <1>1, <1>2 DEF Certified, Linked
<1>5. ASSUME pc' = pc + 1, ~IsTerminator(now), MetIn(K[pc + 1], holds', facts')
      PROVE  RunOk'
  <2>1. pc + 1 \in DOMAIN code /\ code[pc + 1].op # "label"
    BY <1>1, <1>5, GoesOn
  <2>2. Here(L, K)' = K[pc + 1] /\ pc' \in DOMAIN code'
    BY <1>5, <2>1 DEF Here, now
  <2>3. MetIn(Here(L, K)', holds', facts')
    BY <1>5, <2>2
  <2>. QED BY <1>4, <2>2, <2>3 DEF RunOk
<1>6. ASSUME NEW l, pc' \in Places(code, l), MetIn(Owed(L, l), holds', facts')
      PROVE  RunOk'
  <2>1. pc' \in DOMAIN code' /\ Here(L, K)' = Owed(L, l)
    BY <1>6 DEF Places, Here, now
  <2>2. MetIn(Here(L, K)', holds', facts')
    BY <1>6, <2>1
  <2>. QED BY <1>4, <2>1, <2>2 DEF RunOk
<1>7. now.op # "label" => MetIn(K[pc], holds, facts)
  BY <1>2 DEF Here
<1>8. now.op = "label" => MetIn(K[pc + 1], holds, facts)
  <2>1. now.op = "label" => K[pc + 1] \subseteq Here(L, K)
    BY <1>3 DEF Flows, Here
  <2>. QED BY <1>2, <2>1, FewerMet
<1>9. now.op \notin {"label", "call", "store"} /\ ~IsTerminator(now) =>
        \A c \in K[pc + 1] : c \in Keep(K[pc], now.dst) \/ Learns(K[pc], now, c)
  BY <1>3 DEF Flows
<1>10. \A op : RunsWith({op}) => now.of # 0 /\ fun.body[now.of].op = op
  BY DEF RunsWith, IsImage, source
<1>11. now.of # 0 \/ now.op \notin {"length", "op"} => \A c : ~Learns(K[pc], now, c)
  BY DEF Learns
<1>12. ASSUME NEW h, NEW v, MetIn(K[pc], h, facts), pc' = pc + 1,
              now.op \notin {"label", "call", "store"}, ~IsTerminator(now),
              now.of # 0 \/ now.op \notin {"length", "op"},
              holds' = SetTo(h, now.dst, v), facts' = {f \in facts : ~Mentions(f, now.dst)}
       PROVE  RunOk'
  <2>1. K[pc + 1] \subseteq Keep(K[pc], now.dst)
    BY <1>9, <1>11, <1>12
  <2>2. MetIn(Keep(K[pc], now.dst), holds', facts')
    BY <1>12, WriteKeeps
  <2>. QED BY <1>5, <1>12, <2>1, <2>2, FewerMet
<1>21. CASE RunCopy
  <2>1. now.op = "assign" /\ now.of # 0 /\ pc' = pc + 1
    BY <1>3, <1>10, <1>21 DEF RunCopy, Linked, Step
  <2>. DEFINE h == CopiedValue(source.dst, source.args[1].name)
              y == now.args[1].name
              v == IF y \in DOMAIN h THEN h[y] ELSE Unknown
  <2>2. holds' = SetTo(h, now.dst, v) /\ facts' = {f \in facts : ~Mentions(f, now.dst)}
    BY <1>21 DEF RunCopy, Forget
  <2>3. MetIn(K[pc], h, facts)
    BY <1>7, <2>1, SourceWriteKeeps
  <2>. HIDE DEF h, v
  <2>. QED BY <1>12, <2>1, <2>2, <2>3 DEF IsTerminator
<1>22. CASE RunWrite
  <2>1. now.op \in {"assign", "op", "load", "length"} /\ now.of # 0 /\ pc' = pc + 1
    BY <1>3, <1>22 DEF RunWrite, Linked, Step, RunsWith, IsImage, source
  <2>. DEFINE h == NewValue(source.dst)
              v == Holding(IF source.op = "op" /\ IsIntVar(source.dst)
                           THEN "decoded" ELSE "encoded", {source.dst})
  <2>2. holds' = SetTo(h, now.dst, v) /\ facts' = {f \in facts : ~Mentions(f, now.dst)}
    BY <1>22 DEF RunWrite, Forget
  <2>3. MetIn(K[pc], h, facts)
    BY <1>7, <2>1, SourceWriteKeeps
  <2>. HIDE DEF h, v
  <2>. QED BY <1>12, <2>1, <2>2, <2>3 DEF IsTerminator
<1>23. CASE RunCall
  <2>1. now.op \in {"call", "alloc"} /\ now.of # 0 /\ pc' = pc + 1 /\ ~IsTerminator(now)
    BY <1>3, <1>23 DEF RunCall, Linked, Step, RunsWith, IsImage, source, IsTerminator
  <2>2. CASE now.op = "call"
    <3>1. K[pc + 1] = {}
      BY <1>3, <2>1, <2>2 DEF Flows
    <3>2. MetIn(K[pc + 1], holds', facts')
      BY <3>1 DEF MetIn
    <3>. QED BY <1>5, <2>1, <3>2
  <2>3. CASE now.op = "alloc" /\ source.dst = NoName
    <3>1. UNCHANGED <<holds, facts>>
      BY <1>23, <2>3 DEF RunCall
    <3>2. K[pc + 1] \subseteq K[pc]
      BY <1>9, <1>11, <2>1, <2>3 DEF Keep
    <3>3. MetIn(K[pc + 1], holds', facts')
      BY <1>7, <2>3, <3>1, <3>2, FewerMet
    <3>. QED BY <1>5, <2>1, <3>3
  <2>4. CASE now.op = "alloc" /\ source.dst # NoName
    <3>. DEFINE h == NewValue(source.dst)
                v == Holding("encoded", {source.dst})
    <3>1. holds' = SetTo(h, now.dst, v) /\ facts' = {f \in facts : ~Mentions(f, now.dst)}
      BY <1>23, <2>4 DEF RunCall
    <3>2. MetIn(K[pc], h, facts)
      BY <1>7, <2>4, SourceWriteKeeps
    <3>. HIDE DEF h, v
    <3>. QED BY <1>12, <2>1, <2>4, <3>1, <3>2
  <2>. QED BY <2>1, <2>2, <2>3, <2>4
<1>24. CASE RunStore
  <2>1. now.op \in {"store", "label"} /\ pc' = pc + 1 /\ UNCHANGED <<holds, facts>>
    BY <1>3, <1>24 DEF RunStore, Linked, Step, RunsWith, IsImage, source
  <2>2. now.op = "store" => K[pc + 1] \subseteq K[pc]
    BY <1>3 DEF Flows
  <2>3. MetIn(K[pc + 1], holds', facts')
    BY <1>7, <1>8, <2>1, <2>2, FewerMet
  <2>. QED BY <1>5, <2>1, <2>3 DEF IsTerminator
<1>25. CASE RunJump
  <2>1. now.op \in {"branch", "cond"} /\ now.of # 0 /\ now.to = source.to
        /\ UNCHANGED <<holds, facts>>
    BY <1>3, <1>25 DEF RunJump, Linked, RunsWith, IsImage, source, IsTerminator
  <2>2. PICK k \in DOMAIN source.to : pc' \in Places(code, now.to[k])
    BY <1>25 DEF RunJump
  <2>3. Owed(L, now.to[k]) \subseteq K[pc]
    <3>1. Pays(L, K[pc], now)
      BY <1>3, <2>1 DEF Flows, IsTerminator
    <3>2. now.to[k] \in Range(now.to)
      BY <2>1 DEF Range
    <3>. QED BY <2>1, <3>1, <3>2 DEF Pays
  <2>4. MetIn(Owed(L, now.to[k]), holds', facts')
    BY <1>7, <2>1, <2>3, FewerMet
  <2>. QED BY <1>6, <2>2, <2>4
<1>26. CASE RunInsertedMark
  <2>1. now.op \in {"def", "label"} /\ pc' = pc + 1 /\ UNCHANGED <<holds, facts>>
    BY <1>26 DEF RunInsertedMark, Inserted, Step
  <2>2. now.op = "def" => K[pc + 1] \subseteq K[pc]
    BY <1>9, <1>11 DEF Keep, IsTerminator
  <2>3. MetIn(K[pc + 1], holds', facts')
    BY <1>7, <1>8, <2>1, <2>2, FewerMet
  <2>. QED BY <1>5, <2>1, <2>3 DEF IsTerminator
<1>27. CASE RunInsertedAssign
  <2>1. now.op = "assign" /\ pc' = pc + 1
    BY <1>27 DEF RunInsertedAssign, Inserted, Step
  <2>. DEFINE v == Value(now.args[1])
  <2>2. holds' = SetTo(holds, now.dst, v) /\ facts' = {f \in facts : ~Mentions(f, now.dst)}
    BY <1>27 DEF RunInsertedAssign, Forget
  <2>. HIDE DEF v
  <2>. QED BY <1>7, <1>12, <2>1, <2>2 DEF IsTerminator
<1>28. CASE RunInsertedLength
  <2>1. now.op = "length" /\ pc' = pc + 1
    BY <1>28 DEF RunInsertedLength, Inserted, Step
  <2>. DEFINE v == Finding("length", now.base, Num(0),
                           IF now.args = <<>> THEN 0 ELSE now.args[1].num)
  <2>2. holds' = SetTo(holds, now.dst, v) /\ facts' = {f \in facts : ~Mentions(f, now.dst)}
    BY <1>28 DEF RunInsertedLength, Forget
  <2>3. v = Finding(v.form, v.base, v.arg, v.dim)
    BY DEF Finding
  <2>4. \A c \in K[pc + 1] :
          c \in Keep(K[pc], now.dst) \/ (c[1] = now.dst /\ c[1] # NoName /\ c[2] = v)
    BY <1>9, <2>1 DEF Learns, IsTerminator
  <2>. HIDE DEF v
  <2>5. MetIn(K[pc + 1], holds', facts')
    BY <1>7, <2>1, <2>2, <2>3, <2>4, WriteLearns
  <2>. QED BY <1>5, <2>1, <2>5 DEF IsTerminator
<1>29. CASE RunInsertedOp
  <2>1. now.op = "op" /\ pc' = pc + 1
    BY <1>29 DEF RunInsertedOp, Inserted, Step
  <2>2. holds' = SetTo(holds, now.dst, Computed)
        /\ facts' = {f \in facts : ~Mentions(f, now.dst)}
    BY <1>29 DEF RunInsertedOp, Forget
  <2>3. MetIn(K[pc], holds, facts)
    BY <1>7, <2>1
  <2>4. \A c \in K[pc + 1] : c \in Keep(K[pc], now.dst) \/ Learns(K[pc], now, c)
    BY <1>9, <2>1 DEF IsTerminator
  <2>5. MetIn(K[pc + 1], holds', facts')
    <3>1. CASE \E c : Learns(K[pc], now, c)
      <4>1. Computed = Finding(Computed.form, Computed.base, Computed.arg, Computed.dim)
        BY <2>1, <2>3, <3>1, ComputedIs
      <4>2. \A c \in K[pc + 1] : c \in Keep(K[pc], now.dst)
                                 \/ (c[1] = now.dst /\ c[1] # NoName /\ c[2] = Computed)
        BY <2>1, <2>3, <2>4, ComputedIs
      <4>. QED BY <2>2, <2>3, <4>1, <4>2, WriteLearns
    <3>2. CASE ~\E c : Learns(K[pc], now, c)
      <4>1. K[pc + 1] \subseteq Keep(K[pc], now.dst)
        BY <2>4, <3>2
      <4>. QED BY <2>2, <2>3, <4>1, WriteKeeps, FewerMet
    <3>. QED BY <3>1, <3>2
  <2>. QED BY <1>5, <2>1, <2>5 DEF IsTerminator
<1>30. CASE RunInsertedCond
  <2>. DEFINE test == Value(now.args[1])
              good == IF test.form = "null" THEN 2 ELSE 1
  <2>1. now.op = "cond" /\ now.of = 0 /\ UNCHANGED holds
        /\ \/ pc' \in Places(code, now.to[good]) /\ facts' = facts \cup {test}
           \/ pc' \in Places(code, now.to[3 - good]) /\ UNCHANGED facts
    BY <1>30 DEF RunInsertedCond, Inserted, IsImage
  <2>2. MetIn(K[pc], holds, facts)
    BY <1>7, <2>1
  <2>3. Pays(L, K[pc], now)
    BY <1>3, <2>1 DEF Flows, IsTerminator
  <2>4. PICK v : LET g == IF v.form = "null" THEN 2 ELSE 1
                 IN  /\ <<now.args[1].name, v>> \in K[pc]
                     /\ Owed(L, now.to[g]) \subseteq K[pc] \cup {Fact(v)}
                     /\ Owed(L, now.to[3 - g]) \subseteq K[pc]
    BY <2>1, <2>3 DEF Pays
  <2>5. now.args[1].name # NoName
    BY <2>1, <2>3 DEF Pays
  <2>6. test = v /\ v = Finding(v.form, v.base, v.arg, v.dim)
    BY <2>2, <2>4, <2>5, ValueIs
  <2>7. /\ Owed(L, now.to[good]) \subseteq K[pc] \cup {Fact(test)}
        /\ Owed(L, now.to[3 - good]) \subseteq K[pc]
    BY <2>4, <2>6
  <2>. HIDE DEF test, good
  <2>8. CASE pc' \in Places(code, now.to[good]) /\ facts' = facts \cup {test}
    <3>1. MetIn(K[pc] \cup {Fact(test)}, holds', facts') \/ Fact(test) = Never
      <4>1. Fact(test)[1] = NoName /\ Fact(test)[2] = test
        BY DEF Fact
      <4>. QED BY <2>1, <2>2, <2>6, <2>8, <4>1 DEF MetIn
    <3>2. Never \notin Owed(L, now.to[good])
      BY DEF Owed
    <3>3. MetIn(Owed(L, now.to[good]), holds', facts')
      <4>1. CASE Fact(test) = Never
        <5>1. Owed(L, now.to[good]) \subseteq K[pc]
          BY <2>7, <3>2, <4>1
        <5>2. MetIn(K[pc], holds', facts')
          BY <2>1, <2>2, <2>8 DEF MetIn
        <5>. QED BY <5>1, <5>2, FewerMet
      <4>2. CASE Fact(test) # Never
        BY <2>7, <3>1, <4>2, FewerMet
      <4>. QED BY <4>1, <4>2
    <3>. QED BY <1>6, <2>8, <3>3
  <2>9. CASE pc' \in Places(code, now.to[3 - good]) /\ UNCHANGED facts
    <3>1. MetIn(Owed(L, now.to[3 - good]), holds', facts')
      BY <2>1, <2>2, <2>7, <2>9, FewerMet
    <3>. QED BY <1>6, <2>9, <3>1
  <2>. QED BY <2>1, <2>8, <2>9
<1>31. CASE RunInsertedBranch
  <2>1. now.op = "branch" /\ now.of = 0 /\ UNCHANGED <<holds, facts>>
        /\ pc' \in Places(code, now.to[1])
    BY <1>31 DEF RunInsertedBranch, Inserted, IsImage
  <2>2. 1 \in DOMAIN now.to
    BY <1>3, <2>1 DEF Flows, IsTerminator, Pays
  <2>3. Owed(L, now.to[1]) \subseteq K[pc]
    BY <1>3, <2>1, <2>2 DEF Flows, IsTerminator, Pays, Range
  <2>4. MetIn(Owed(L, now.to[1]), holds', facts')
    BY <1>7, <2>1, <2>3, FewerMet
  <2>. QED BY <1>6, <2>1, <2>4
<1>. QED BY <1>21, <1>22, <1>23, <1>24, <1>25, <1>26, <1>27, <1>28, <1>29, <1>30, <1>31
        DEF Instruction

(* The run checks what it accesses.                                        *)
LEMMA RunChecks ==
    ASSUME RunOk
    PROVE  AccessIsChecked
<1>. SUFFICES ASSUME stage = "run", IsImage, source.op \in Accesses
              PROVE  /\ Finding("null", now.base, Num(0), 0) \in facts
                     /\ source.op # "length" =>
                          \A d \in DOMAIN Indices(now) :
                             LET t == Indices(now)[d]
                             IN  /\ Finding(">=", NoName, t, 0) \in facts
                                 /\ Finding("<", now.base, t, d - 1) \in facts
  BY DEF AccessIsChecked
<1>1. PICK L, K : Certified(L, K) /\ MetIn(Here(L, K), holds, facts)
  BY DEF RunOk
<1>2. Flows(L, K[pc], now, K[pc + 1]) /\ Linked(now)
  BY <1>1 DEF Certified, now, RunOk
<1>3. now.of # 0 /\ now.op = source.op
  BY <1>2 DEF IsImage, Linked, source, Accesses
<1>4. Needed(now) \subseteq K[pc] /\ MetIn(K[pc], holds, facts)
  BY <1>1, <1>2, <1>3 DEF Flows, Here, Accesses
<1>5. \A v : Fact(v) \in Needed(now) => v \in facts
  <2>1. \A v : Fact(v)[1] = NoName /\ Fact(v)[2] = v
    BY DEF Fact
  <2>. QED BY <1>4, <2>1 DEF MetIn
<1>6. Fact(Finding("null", now.base, Num(0), 0)) \in Needed(now)
  BY DEF Needed
<1>7. ASSUME source.op # "length", NEW d \in DOMAIN Indices(now)
      PROVE  /\ Fact(Finding(">=", NoName, Indices(now)[d], 0)) \in Needed(now)
             /\ Fact(Finding("<", now.base, Indices(now)[d], d - 1)) \in Needed(now)
  <2>. DEFINE T(e) == {Fact(Finding(">=", NoName, Indices(now)[e], 0)),
                       Fact(Finding("<", now.base, Indices(now)[e], e - 1))}
  <2>1. UNION {T(e) : e \in DOMAIN Indices(now)} \subseteq Needed(now)
    BY <1>3, <1>7 DEF Needed
  <2>2. T(d) \subseteq UNION {T(e) : e \in DOMAIN Indices(now)}
    <3>. HIDE DEF T
    <3>. QED OBVIOUS
  <2>3. T(d) \subseteq Needed(now)
    <3>. HIDE DEF T
    <3>. QED BY <2>1, <2>2
  <2>. QED BY <2>3
<1>. QED BY <1>5, <1>6, <1>7

(* More that is known does no harm.                                        *)
LEMMA FlowsMore ==
    ASSUME NEW L, NEW A, NEW M, NEW B, NEW x, Flows(L, A, x, B), A \subseteq M, Never \notin A
    PROVE  Flows(L, M, x, B)
<1>1. x.op = "label" => Owed(L, x.to[1]) \subseteq M
  BY DEF Flows
<1>2. Pays(L, A, x) => Pays(L, M, x)
  <2>1. CASE x.op = "cond" /\ x.of = 0
    <3>1. SUFFICES ASSUME Pays(L, A, x) PROVE Pays(L, M, x)
      OBVIOUS
    <3>2. PICK v : LET good == IF v.form = "null" THEN 2 ELSE 1
                   IN  /\ <<x.args[1].name, v>> \in A
                       /\ Owed(L, x.to[good]) \subseteq A \cup {Fact(v)}
                       /\ Owed(L, x.to[3 - good]) \subseteq A
      BY <2>1, <3>1 DEF Pays
    <3>3. LET good == IF v.form = "null" THEN 2 ELSE 1
          IN  /\ <<x.args[1].name, v>> \in M
              /\ Owed(L, x.to[good]) \subseteq M \cup {Fact(v)}
              /\ Owed(L, x.to[3 - good]) \subseteq M
      BY <3>2
    <3>. QED BY <2>1, <3>1, <3>3 DEF Pays
  <2>2. CASE ~(x.op = "cond" /\ x.of = 0)
    BY <2>2 DEF Pays
  <2>. QED BY <2>1, <2>2
<1>3. Keep(A, x.dst) \subseteq Keep(M, x.dst)
  BY DEF Keep
<1>4. \A c : Learns(A, x, c) => Learns(M, x, c)
  BY DEF Learns
<1>5. B \subseteq A \ {Never} => B \subseteq M \ {Never}
  OBVIOUS
<1>. QED BY <1>1, <1>2, <1>3, <1>4, <1>5 DEF Flows

(* Code may begin where more is known,                                     *)
LEMMA LeadsMore ==
    ASSUME NEW L, NEW A, NEW M, NEW B, NEW c, IsSeq(c), c # <<>>,
           Leads(L, c, A, B), A \subseteq M, Never \notin A
    PROVE  Leads(L, c, M, B)
<1>1. PICK K : /\ K[1] = A /\ K[Len(c) + 1] = B
               /\ \A k \in DOMAIN c : Flows(L, K[k], c[k], K[k + 1])
  BY DEF Leads
<1>2. Len(c) \in Nat /\ Len(c) # 0 /\ DOMAIN c = 1 .. Len(c)
  BY DEF IsSeq
<1>. DEFINE n == Len(c)
            J == [k \in 1 .. n + 1 |-> IF k = 1 THEN M ELSE K[k]]
<1>. HIDE DEF n
<1>3. n \in Nat /\ n # 0 /\ DOMAIN c = 1 .. n /\ K[n + 1] = B
  BY <1>1, <1>2 DEF n
<1>4. J[1] = M /\ J[n + 1] = K[n + 1] /\ \A k \in 1 .. n : J[k + 1] = K[k + 1]
  BY <1>3
<1>5. \A k \in 1 .. n : k # 1 => J[k] = K[k]
  BY <1>3
<1>. HIDE DEF J
<1>6. ASSUME NEW k \in DOMAIN c PROVE Flows(L, J[k], c[k], J[k + 1])
  <2>1. k \in 1 .. n /\ Flows(L, K[k], c[k], K[k + 1]) /\ J[k + 1] = K[k + 1]
    BY <1>1, <1>3, <1>4, <1>6
  <2>2. CASE k = 1
    <3>1. Flows(L, A, c[k], J[k + 1])
      BY <1>1, <2>1, <2>2
    <3>2. Flows(L, M, c[k], J[k + 1])
      BY <3>1, FlowsMore
    <3>. QED BY <1>4, <2>2, <3>2
  <2>3. CASE k # 1
    BY <1>5, <2>1, <2>3
  <2>. QED BY <2>2, <2>3
<1>. QED BY <1>3, <1>4, <1>6 DEF Leads, n

(* and an instruction that is never reached may be reached.                *)
LEMMA FlowsNever ==
    ASSUME NEW L, NEW B, NEW x, Flows(L, {Never}, x, B), x.op # "label"
    PROVE  Flows(L, {}, x, B)
<1>0. Never[1] = NoName /\ Never[2].form = "never" /\ \A v : Fact(v) = Never => v.form = "never"
  <2>1. \A v : Fact(v)[2] = v
    BY DEF Fact
  <2>2. Never[2].form = "never"
    BY DEF Never, Fact, Finding
  <2>3. Never[1] = NoName
    BY DEF Never, Fact
  <2>. QED BY <2>1, <2>2, <2>3
<1>1. Keep({Never}, x.dst) \subseteq Keep({}, x.dst)
  BY DEF Keep
<1>2. \A n, v : n # NoName => <<n, v>> \notin {Never}
  <2>1. \A n, v : <<n, v>>[1] = n
    OBVIOUS
  <2>. QED BY <1>0, <2>1
<1>3. \A c : Learns({Never}, x, c) => Learns({}, x, c)
  BY <1>2 DEF Learns
<1>4. Pays(L, {Never}, x) => Pays(L, {}, x)
  <2>1. CASE x.op = "cond" /\ x.of = 0
    BY <1>2, <2>1 DEF Pays
  <2>2. CASE ~(x.op = "cond" /\ x.of = 0)
    <3>1. \A l : Owed(L, l) \subseteq {Never} => Owed(L, l) \subseteq {}
      BY DEF Owed
    <3>. QED BY <2>2, <3>1 DEF Pays
  <2>. QED BY <2>1, <2>2
<1>5. ~(Needed(x) \subseteq {Never})
  <2>1. Fact(Finding("null", x.base, Num(0), 0)) \in Needed(x)
    BY DEF Needed
  <2>2. Finding("null", x.base, Num(0), 0).form = "null"
    BY DEF Finding
  <2>. QED BY <1>0, <2>1, <2>2
<1>. QED BY <1>1, <1>3, <1>4, <1>5 DEF Flows

(* What is reached goes on to what is reached, unless it jumps.            *)
LEMMA FlowsAlive ==
    ASSUME NEW L, NEW A, NEW B, NEW x, Flows(L, A, x, B)
    PROVE  IF IsTerminator(x) THEN B = {Never} ELSE Never \notin B
<1>1. Never[1] = NoName
  BY DEF Never, Fact
<1>2. Never \notin Keep(A, x.dst) /\ ~Learns(A, x, Never)
  BY <1>1 DEF Keep, Learns
<1>. QED BY <1>2 DEF Flows, Owed

-----------------------------------------------------------------------------
(* The instructions that are inserted.                                     *)

(* What is owed at the label l is defined.                                 *)
Placed(L, l) == l[1] = "new_var" => l[2] \in DOMAIN L

(* A label, a branch and a return.                                         *)
LEMMA ControlFlows ==
    ASSUME NEW L, NEW A, NEW l, Placed(L, l)
    PROVE  /\ \A B : /\ A = {Never} \/ Owed(L, l) \subseteq A
                     /\ B \subseteq Owed(L, l)
                     => Flows(L, A, Label(l), B)
           /\ Owed(L, l) \subseteq A => Flows(L, A, Branch(l), {Never})
           /\ \A ts : Flows(L, A, Return(ts), {Never})
<1>1. Range(<<l>>) = {l} /\ 1 \in DOMAIN <<l>> /\ <<l>>[1] = l /\ Range(<<>>) = {}
  BY DEF Range
<1>2. Label(l).op = "label" /\ Label(l).to = <<l>> /\ Label(l).of = 0
  BY DEF Label, Instr
<1>3. Branch(l).op = "branch" /\ Branch(l).to = <<l>> /\ Branch(l).of = 0
  BY DEF Branch, Instr
<1>4. \A ts : Return(ts).op = "return" /\ Return(ts).to = <<>> /\ Return(ts).of = 0
  BY DEF Return, Instr
<1>5. ASSUME NEW B, A = {Never} \/ Owed(L, l) \subseteq A, B \subseteq Owed(L, l)
      PROVE  Flows(L, A, Label(l), B)
  <2>. DEFINE x == Label(l)
  <2>. HIDE DEF x
  <2>1. x.op = "label" /\ Range(x.to) = {l} /\ 1 \in DOMAIN x.to /\ x.to[1] = l /\ x.of = 0
    BY <1>1, <1>2 DEF x
  <2>2. Flows(L, A, x, B)
    BY <1>5, <2>1 DEF Flows, IsTerminator, Placed
  <2>. QED BY <2>2 DEF x
<1>6. Owed(L, l) \subseteq A => Flows(L, A, Branch(l), {Never})
  <2>. DEFINE x == Branch(l)
  <2>. HIDE DEF x
  <2>1. x.op = "branch" /\ Range(x.to) = {l} /\ 1 \in DOMAIN x.to /\ x.of = 0
    BY <1>1, <1>3 DEF x
  <2>2. Owed(L, l) \subseteq A => Flows(L, A, x, {Never})
    BY <2>1 DEF Flows, IsTerminator, Placed, Pays
  <2>. QED BY <2>2 DEF x
<1>7. ASSUME NEW ts PROVE Flows(L, A, Return(ts), {Never})
  <2>. DEFINE x == Return(ts)
  <2>. HIDE DEF x
  <2>1. x.op = "return" /\ Range(x.to) = {} /\ x.of = 0
    BY <1>1, <1>4 DEF x
  <2>2. Flows(L, A, x, {Never})
    BY <2>1 DEF Flows, IsTerminator, Pays
  <2>. QED BY <2>2 DEF x
<1>. QED BY <1>5, <1>6, <1>7

(* More of the names and instructions of the passes.                       *)
LEMMA MoreSameC ==
    /\ \A n : C!NewVar(n) = NewVar(n)
    /\ \A n : C!Num(n) = Num(n)
    /\ \A x : C!Var(x) = Var(x)
    /\ \A t : C!IsNum(t) = IsNum(t)
    /\ C!NoName = NoName
    /\ \A s : C!Name(s) = Name(s)
    /\ \A terms : C!NamesOf(terms) = NamesOf(terms)
    /\ \A ins : C!Indices(ins) = Indices(ins)
    /\ \A ins : C!Written(ins) = Written(ins)
    /\ C!Accesses = Accesses
BY DEF C!NewVar, NewVar, C!Num, Num, C!Var, Var, C!IsNum, IsNum, C!NoName, NoName, C!Name, Name,
       C!NamesOf, NamesOf, C!Indices, Indices, C!Front, Front, C!Written, Written,
       C!Accesses, Accesses

(* The modules of the passes reserve the same names,                       *)
LEMMA SameReserved ==
    \A p, c : C!Reserved(p, c) = Reserved(p, c) /\ E!Reserved(p, c) = Reserved(p, c)
BY DEF C!Reserved, Reserved, E!Reserved, C!Reads, Reads, E!Reads, C!NamesOf, NamesOf, E!NamesOf,
       C!NoName, NoName, E!NoName, C!Name, Name, E!Name, C!Written, Written, E!Written

(* and take the same numbers.                                              *)
LEMMA SameFresh ==
    \A r, k, n : C!Fresh(r, k, n) = Fresh(r, k, n) /\ E!Fresh(r, k, n) = Fresh(r, k, n)
<1>1. ASSUME NEW r, NEW k
      PROVE  C!NextFree(r, k) = NextFree(r, k) /\ E!NextFree(r, k) = NextFree(r, k)
  BY DEF C!NextFree, NextFree, E!NextFree, C!NewVar, NewVar, E!NewVar,
       C!Cardinality, Cardinality, E!Cardinality
<1>2. ASSUME NEW r, NEW k, NEW n
      PROVE  C!Fresh(r, k, n) = Fresh(r, k, n) /\ E!Fresh(r, k, n) = Fresh(r, k, n)
  BY <1>1 DEF C!Fresh, Fresh, E!Fresh
<1>. QED BY <1>2

-----------------------------------------------------------------------------
(* generate_basic_blocks keeps what is known.                              *)
Links(c) == \A k \in DOMAIN c : Linked(c[k])

(* Two pieces of code, one after the other.                                *)
LEMMA LinksJoined ==
    ASSUME NEW r, IsSeq(r), NEW s, IsSeq(s), Links(r), Links(s)
    PROVE  Links(r \o s)
<1>. DEFINE t == r \o s
<1>1. /\ IsSeq(t) /\ Len(t) = Len(r) + Len(s) /\ Len(r) \in Nat /\ Len(s) \in Nat
      /\ \A k \in 1 .. Len(r) + Len(s) : t[k] = IF k <= Len(r) THEN r[k] ELSE s[k - Len(r)]
  BY Joined
<1>. HIDE DEF t
<1>2. DOMAIN r = 1 .. Len(r) /\ DOMAIN s = 1 .. Len(s) /\ DOMAIN t = 1 .. Len(r) + Len(s)
  BY <1>1, IsSeqIs
<1>3. ASSUME NEW k \in DOMAIN t PROVE Linked(t[k])
  <2>1. CASE k <= Len(r)
    <3>1. k \in DOMAIN r /\ t[k] = r[k]
      BY <1>1, <1>2, <2>1
    <3>. QED BY <3>1 DEF Links
  <2>2. CASE ~(k <= Len(r))
    <3>1. k - Len(r) \in DOMAIN s /\ t[k] = s[k - Len(r)]
      BY <1>1, <1>2, <2>2
    <3>. QED BY <3>1 DEF Links
  <2>. QED BY <2>1, <2>2
<1>. QED BY <1>3 DEF Links, t

(* What has been written leads to what is known before the next one.       *)
BlocksOk ==
    stage = "blocks" =>
        /\ i = 1 => ~afterTerminator
        /\ i # 1 => afterTerminator = IsTerminator(code[i - 1])
        /\ Links(out)
        /\ \E L, K : K[1] = {} /\ Certified(L, K) /\ Leads(L, out, {}, K[i])

(* One instruction is written, with or without one in front of it.         *)
LEMMA OneMore ==
    ASSUME NEW L, NEW A, NEW B, NEW D, NEW o, IsSeq(o), Leads(L, o, A, B),
           NEW x, Flows(L, B, x, D), Links(o), Linked(x)
    PROVE  Leads(L, o \o <<x>>, A, D) /\ Links(o \o <<x>>) /\ IsSeq(o \o <<x>>)
<1>. DEFINE s == <<x>>
<1>1. Leads(L, s, B, D) /\ IsSeq(s)
  BY LeadsOne, TuplesAre
<1>2. DOMAIN s = {1} /\ s[1] = x
  OBVIOUS
<1>. HIDE DEF s
<1>3. Links(s)
  BY <1>2 DEF Links
<1>4. Leads(L, o \o s, A, D) /\ Links(o \o s) /\ IsSeq(o \o s)
  BY <1>1, <1>3, LeadsOn, LinksJoined, Joined
<1>. QED BY <1>4 DEF s

(* The same for two instructions.                                          *)
LEMMA TwoMore ==
    ASSUME NEW L, NEW A, NEW B, NEW C0, NEW D, NEW o, IsSeq(o), Leads(L, o, A, B),
           NEW y, NEW x, Flows(L, B, y, C0), Flows(L, C0, x, D), Links(o), Linked(y), Linked(x)
    PROVE  Leads(L, o \o <<y, x>>, A, D) /\ Links(o \o <<y, x>>)
<1>. DEFINE s == <<y, x>>
            u == <<y>>
            v == <<x>>
<1>1. s = u \o v
  BY PairIs
<1>2. Leads(L, u, B, C0) /\ IsSeq(u) /\ Leads(L, v, C0, D) /\ IsSeq(v)
  BY LeadsOne, TuplesAre
<1>3. DOMAIN u = {1} /\ u[1] = y /\ DOMAIN v = {1} /\ v[1] = x
  OBVIOUS
<1>. HIDE DEF s, u, v
<1>4. Links(u) /\ Links(v)
  BY <1>3 DEF Links
<1>5. Leads(L, s, B, D) /\ IsSeq(s) /\ Links(s)
  BY <1>1, <1>2, <1>4, LeadsOn, Joined, LinksJoined
<1>6. Leads(L, o \o s, A, D) /\ Links(o \o s)
  BY <1>5, LeadsOn, LinksJoined
<1>. QED BY <1>6 DEF s

(* A label that is new, or may have the number of one that is there.       *)
LEMMA LabelAdded ==
    ASSUME NEW L, NEW n
    PROVE  \E M : Extends(M, L) /\ n \in DOMAIN M
<1>1. CASE n \in DOMAIN L
  BY <1>1 DEF Extends
<1>2. CASE n \notin DOMAIN L
  <2>. DEFINE M == [m \in DOMAIN L \cup {n} |-> IF m = n THEN {} ELSE L[m]]
  <2>1. Extends(M, L) /\ n \in DOMAIN M
    BY <1>2 DEF Extends
  <2>. QED BY <2>1
<1>. QED BY <1>1, <1>2

(* Every action of the pass keeps what is known.                           *)
LEMMA BlocksOkStep ==
    ASSUME BlocksOk, stage = "blocks", Passed(code, out, i, {}), C!BlockNext
    PROVE  BlocksOk'
<1>. DEFINE x == code[i]
<1>0. IsCode(code) /\ IsCode(out) /\ i \in Nat \ {0} /\ (i <= Len(code) => i \in DOMAIN code)
  BY IsSeqIs DEF Passed, IsCode
<1>1. i \in DOMAIN code /\ C!ins = x /\ IsSeq(out)
  BY <1>0 DEF C!BlockNext, C!EnterBlock, C!StayInBlock, C!OpenBlock, C!At, C!ins, IsCode
<1>2. /\ i' = i + 1 /\ code' = code /\ fun' = fun /\ afterTerminator' = IsTerminator(x)
  BY <1>1, SameC DEF C!BlockNext, C!EnterBlock, C!StayInBlock, C!OpenBlock, C!EmitBlock
<1>3. PICK L, K : K[1] = {} /\ Certified(L, K) /\ Leads(L, out, {}, K[i])
  BY DEF BlocksOk
<1>4. Flows(L, K[i], x, K[i + 1]) /\ Linked(x)
  BY <1>1, <1>3 DEF Certified
<1>5. IF afterTerminator THEN K[i] = {Never} ELSE Never \notin K[i]
  <2>1. CASE i = 1
    BY <1>3, <2>1 DEF BlocksOk
  <2>2. CASE i # 1
    <3>. DEFINE j == i - 1
    <3>1. j \in DOMAIN code /\ j + 1 = i
      <4>1. DOMAIN code = 1 .. Len(code) /\ Len(code) \in Nat
        BY <1>0, IsSeqIs DEF IsCode
      <4>. QED BY <1>1, <2>2, <4>1
    <3>2. afterTerminator = IsTerminator(code[j])
      BY <2>2 DEF BlocksOk
    <3>. HIDE DEF j
    <3>3. Flows(L, K[j], code[j], K[i])
      BY <1>3, <3>1 DEF Certified
    <3>. QED BY <3>2, <3>3, FlowsAlive
  <2>. QED BY <2>1, <2>2
<1>6. ASSUME NEW M, Certified(M, K), Leads(M, out', {}, K[i + 1]), Links(out')
      PROVE  BlocksOk'
  <2>1. i' # 1 /\ code'[i' - 1] = x
    BY <1>0, <1>2
  <2>2. Certified(M, K)' /\ K[1] = {} /\ Leads(M, out', {}, K[i'])
    BY <1>2, <1>3, <1>6 DEF Certified, Linked
  <2>3. Links(out)'
    BY <1>2, <1>6 DEF Linked, Links
  <2>. QED BY <1>2, <2>1, <2>2, <2>3 DEF BlocksOk
<1>7. Links(out)
  BY DEF BlocksOk
<1>8. \A y : y = <<>> => Append(y, x) = <<x>>
  OBVIOUS
<1>9. \A y : Append(<<y>>, x) = <<y, x>>
  BY PairIs
<1>. HIDE DEF x
<1>11. CASE C!StayInBlock \/ (C!EnterBlock /\ afterTerminator)
  <2>1. out' = out \o <<x>>
    BY <1>1, <1>8, <1>11 DEF C!StayInBlock, C!EnterBlock, C!EmitBlock
  <2>2. Leads(L, out', {}, K[i + 1]) /\ Links(out')
    BY <1>1, <1>3, <1>4, <1>7, <2>1, OneMore
  <2>. QED BY <1>3, <1>6, <2>2
<1>12. CASE C!EnterBlock /\ ~afterTerminator
  <2>. DEFINE l == x.to[1]
              y == C!Branch(l)
  <2>1. out' = out \o <<y, x>> /\ x.op = "label"
    BY <1>1, <1>9, <1>12 DEF C!EnterBlock, C!EmitBlock
  <2>2. l \in Range(x.to) /\ Placed(L, l) /\ (K[i] = {Never} \/ Owed(L, l) \subseteq K[i])
    BY <1>4, <2>1 DEF Flows, Range, Placed
  <2>3. Owed(L, l) \subseteq K[i]
    <3>1. K[i] # {Never}
      BY <1>5, <1>12
    <3>. QED BY <2>2, <3>1
  <2>4. Flows(L, K[i], y, {Never})
    BY <2>2, <2>3, ControlFlows, SameC
  <2>5. Flows(L, {Never}, x, K[i + 1])
    BY <1>4, <2>1 DEF Flows, IsTerminator, Accesses
  <2>6. Linked(y)
    BY SameC DEF Linked, Branch, Instr
  <2>. HIDE DEF y
  <2>7. Leads(L, out', {}, K[i + 1]) /\ Links(out')
    BY <1>1, <1>3, <1>4, <1>7, <2>1, <2>4, <2>5, <2>6, TwoMore
  <2>. QED BY <1>3, <1>6, <2>7
<1>13. CASE C!OpenBlock
  <2>. DEFINE n == C!Fresh(C!Reserved(fun.params, code), counter, 1)[1]
              l == NewVar(n)
              y == Label(l)
  <2>1. out' = out \o <<y, x>> /\ x.op # "label" /\ afterTerminator
    <3>1. C!Label(C!NewVar(n)) = y
      BY SameC, MoreSameC
    <3>. HIDE DEF y
    <3>. QED BY <1>1, <1>9, <1>13, <3>1 DEF C!OpenBlock, C!EmitBlock
  <2>. HIDE DEF n
  <2>2. PICK M : Extends(M, L) /\ n \in DOMAIN M
    BY LabelAdded
  <2>3. Certified(M, K)
    BY <1>3, <2>2, FlowsStill DEF Certified
  <2>4. Leads(M, out, {}, K[i]) /\ Flows(M, K[i], x, K[i + 1])
    BY <1>3, <1>4, <2>2, LeadsStill, FlowsStill
  <2>5. Placed(M, l)
    BY <2>2 DEF Placed, NewVar
  <2>6. K[i] = {Never}
    BY <1>5, <2>1
  <2>7. Flows(M, K[i], y, {})
    BY <2>5, <2>6, ControlFlows
  <2>8. Flows(M, {}, x, K[i + 1])
    BY <2>1, <2>4, <2>6, FlowsNever
  <2>9. Linked(y)
    BY DEF Linked, Label, Instr
  <2>. HIDE DEF y
  <2>10. Leads(M, out', {}, K[i + 1]) /\ Links(out')
    BY <1>1, <1>4, <1>7, <2>1, <2>4, <2>7, <2>8, <2>9, TwoMore
  <2>. QED BY <1>6, <2>3, <2>10
<1>14. afterTerminator \/ ~afterTerminator
  OBVIOUS
<1>. QED BY <1>11, <1>12, <1>13, <1>14 DEF C!BlockNext

(* It starts on code that leads on from where nothing is known.            *)
LEMMA BlocksOkStart ==
    ASSUME NEW c, IsCode(c), Links(c), NEW L, NEW B, Leads(L, c, {}, B),
           afterTerminator = FALSE, C!BlockStart(c)
    PROVE  BlocksOk'
<1>1. code' = c /\ fun' = fun /\ afterTerminator' = FALSE
  BY DEF C!BlockStart
<1>2. PICK K : K[1] = {} /\ \A k \in DOMAIN c : Flows(L, K[k], c[k], K[k + 1])
  BY DEF Leads
<1>3. Certified(L, K)'
  BY <1>1, <1>2 DEF Certified, Links, Linked
<1>4. CASE c # <<>> /\ c[1].op = "label" /\ c[1].to = <<C!beginning>>
  <2>. DEFINE x == c[1]
              o == <<x>>
  <2>1. i' = 2 /\ out' = o /\ x.op = "label"
    BY <1>4 DEF C!BlockStart
  <2>2. 1 \in DOMAIN c
    <3>1. Len(c) \in Nat /\ DOMAIN c = 1 .. Len(c) /\ c \in Seq(Range(c))
      BY IsSeqIs DEF IsCode, IsSeq
    <3>2. Len(c) # 0
      BY <1>4, <3>1
    <3>. QED BY <3>1, <3>2
  <2>3. Flows(L, {}, x, K[2]) /\ Linked(x)
    <3>1. Flows(L, K[1], c[1], K[1 + 1])
      BY <1>2, <2>2
    <3>. QED BY <1>2, <2>2, <3>1 DEF Links
  <2>4. Leads(L, o, {}, K[2]) /\ DOMAIN o = {1} /\ o[1] = x
    BY <2>3, LeadsOne
  <2>5. IsTerminator(code'[1]) = FALSE
    BY <1>1, <2>1 DEF IsTerminator
  <2>. HIDE DEF x, o
  <2>6. (i # 1 => afterTerminator = IsTerminator(code[i - 1]))'
    <3>1. i' - 1 = 1
      BY <2>1
    <3>2. IsTerminator(code'[i' - 1]) = FALSE
      BY <2>5, <3>1
    <3>. QED BY <1>1, <3>2
  <2>7. Links(out)'
    BY <1>1, <2>1, <2>3, <2>4 DEF Links, Linked
  <2>8. Leads(L, out', {}, K[i'])
    BY <2>1, <2>4
  <2>. QED BY <1>1, <1>2, <1>3, <2>6, <2>7, <2>8 DEF BlocksOk
<1>5. CASE ~(c # <<>> /\ c[1].op = "label" /\ c[1].to = <<C!beginning>>)
  <2>. DEFINE l == C!beginning
              x == Label(l)
              o == <<x>>
  <2>1. i' = 1 /\ out' = o
    BY <1>5, SameC DEF C!BlockStart
  <2>2. l[1] # "new_var"
    BY DEF C!beginning, C!Name
  <2>3. Flows(L, {}, x, {})
    BY <2>2, ControlFlows DEF Placed, Owed
  <2>4. Linked(x)
    BY DEF Linked, Label, Instr
  <2>5. Leads(L, o, {}, {}) /\ DOMAIN o = {1} /\ o[1] = x
    BY <2>3, LeadsOne
  <2>. HIDE DEF x, o
  <2>6. Links(out)'
    BY <1>1, <2>1, <2>4, <2>5 DEF Links, Linked
  <2>7. Leads(L, out', {}, K[i'])
    BY <1>2, <2>1, <2>5
  <2>. QED BY <1>1, <1>2, <1>3, <2>1, <2>6, <2>7 DEF BlocksOk
<1>. QED BY <1>4, <1>5

(* The run begins where nothing is known.                                  *)
LEMMA RunOkStart ==
    ASSUME BlocksOk, stage = "blocks", IsCode(out), InBlocks(out, afterTerminator),
           code' = C!BlockResult, pc' = 1, fun' = fun
    PROVE  RunOk'
<1>. DEFINE c == C!BlockResult
<1>1. PICK L, K : K[1] = {} /\ Certified(L, K) /\ Leads(L, out, {}, K[i])
  BY DEF BlocksOk
<1>2. IsSeq(out) /\ Links(out)
  BY DEF BlocksOk, IsCode
<1>3. IsSeq(c) /\ Links(c) /\ \E B : Leads(L, c, {}, B)
  <2>1. CASE afterTerminator
    <3>1. c = out
      BY <2>1 DEF C!BlockResult
    <3>. QED BY <1>1, <1>2, <3>1
  <2>2. CASE ~afterTerminator
    <3>. DEFINE x == Return(IF fun.returns = "void" THEN <<>> ELSE <<C!Num(0)>>)
    <3>1. c = out \o <<x>>
      <4>1. c = Append(out, x)
        BY <2>2, SameC DEF C!BlockResult
      <4>. HIDE DEF c, x
      <4>. QED BY <1>2, <4>1, Appended
    <3>2. Flows(L, K[i], x, {Never})
      <4>. DEFINE l == <<"", 0>>
      <4>1. Placed(L, l)
        BY DEF Placed
      <4>. HIDE DEF l
      <4>. QED BY <4>1, ControlFlows
    <3>3. Linked(x)
      BY DEF Linked, Return, Instr
    <3>. HIDE DEF x, c
    <3>4. Leads(L, c, {}, {Never}) /\ Links(c) /\ IsSeq(c)
      BY <1>1, <1>2, <3>1, <3>2, <3>3, OneMore
    <3>. QED BY <3>4
  <2>. HIDE DEF c
  <2>. QED BY <2>1, <2>2
<1>. HIDE DEF c
<1>4. PICK J : J[1] = {} /\ \A k \in DOMAIN c : Flows(L, J[k], c[k], J[k + 1])
  BY <1>3 DEF Leads
<1>5. 1 \in DOMAIN c /\ c[1].op = "label"
  <2>1. Len(out) \in Nat \ {0} /\ out[1].op = "label"
    BY DEF InBlocks
  <2>2. CASE afterTerminator
    <3>1. c = out
      BY <2>2 DEF C!BlockResult, c
    <3>. QED BY <1>2, <2>1, <3>1, IsSeqIs
  <2>3. CASE ~afterTerminator
    <3>. DEFINE x == C!Return(IF fun.returns = "void" THEN <<>> ELSE <<C!Num(0)>>)
                s == <<x>>
    <3>1. c = out \o s
      <4>1. c = Append(out, x)
        BY <2>3 DEF C!BlockResult, c
      <4>. HIDE DEF x
      <4>. QED BY <1>2, <4>1, Appended
    <3>2. IsSeq(s) /\ Len(s) = 1
      BY TuplesAre
    <3>. HIDE DEF s
    <3>3. Len(c) = Len(out) + 1 /\ \A k \in 1 .. Len(out) + 1 :
             c[k] = IF k <= Len(out) THEN out[k] ELSE s[k - Len(out)]
      BY <1>2, <3>1, <3>2, Joined
    <3>4. 1 \in 1 .. Len(out) + 1 /\ 1 <= Len(out)
      BY <2>1
    <3>5. DOMAIN c = 1 .. Len(out) + 1
      BY <1>3, <3>3, IsSeqIs
    <3>. QED BY <2>1, <3>3, <3>4, <3>5
  <2>. QED BY <2>2, <2>3
<1>6. Owed(L, c[1].to[1]) = {}
  <2>1. Flows(L, {}, c[1], J[1 + 1])
    BY <1>4, <1>5
  <2>2. {} # {Never}
    OBVIOUS
  <2>. QED BY <1>5, <2>1, <2>2 DEF Flows
<1>7. code' = c
  BY DEF c
<1>8. Certified(L, J)'
  BY <1>3, <1>4, <1>7 DEF Certified, Links, Linked
<1>9. Here(L, J)' = {}
  BY <1>5, <1>6, <1>7 DEF Here, now
<1>10. MetIn({}, holds', facts')
  BY DEF MetIn
<1>11. IsSeq(code') /\ pc' \in DOMAIN code'
  BY <1>3, <1>5, <1>7
<1>. QED BY <1>8, <1>9, <1>10, <1>11 DEF RunOk

-----------------------------------------------------------------------------
(* Inserted code.                                                          *)
LEMMA PlainFlows ==
    ASSUME NEW L, NEW A, NEW B, NEW x, x.of = 0, x.to = <<>>,
           x.op \in {"def", "assign", "op", "length"},
           \A c \in B : c \in Keep(A, x.dst) \/ Learns(A, x, c)
    PROVE  Flows(L, A, x, B)
<1>1. Range(x.to) = {}
  BY DEF Range
<1>. QED BY <1>1 DEF Flows, IsTerminator

(* A call that was inserted.                                               *)
LEMMA CallFlows ==
    ASSUME NEW L, NEW A, NEW B, Never \notin B, NEW f, NEW ts
    PROVE  Flows(L, A, Call(NoName, f, ts), B)
<1>. DEFINE x == Call(NoName, f, ts)
<1>1. x.op = "call" /\ x.to = <<>> /\ x.of = 0
  BY DEF Call, Instr
<1>. HIDE DEF x
<1>2. Range(x.to) = {}
  BY <1>1 DEF Range
<1>3. Flows(L, A, x, B)
  BY <1>1, <1>2 DEF Flows, IsTerminator
<1>. QED BY <1>3 DEF x

(* A condition on a finding pays what its labels are owed.                 *)
LEMMA CondFlows ==
    ASSUME NEW L, NEW A, NEW x, x # NoName, NEW v, <<x, v>> \in A,
           NEW l, NEW m, Placed(L, l), Placed(L, m),
           Owed(L, IF v.form = "null" THEN m ELSE l) \subseteq A \cup {Fact(v)},
           Owed(L, IF v.form = "null" THEN l ELSE m) \subseteq A
    PROVE  Flows(L, A, Cond(Var(x), l, m), {Never})
<1>. DEFINE y == Cond(Var(x), l, m)
            to == <<l, m>>
            args == <<Var(x)>>
<1>1. y.op = "cond" /\ y.to = to /\ y.of = 0 /\ y.args = args
  BY DEF Cond, Instr
<1>2. DOMAIN to = {1, 2} /\ to[1] = l /\ to[2] = m /\ Range(to) = {l, m} /\ args[1].name = x
  <2>1. DOMAIN to = {1, 2} /\ to[1] = l /\ to[2] = m
    OBVIOUS
  <2>2. args[1].name = x
    BY DEF Var
  <2>. HIDE DEF to
  <2>3. Range(to) = {l, m}
    BY <2>1 DEF Range
  <2>. QED BY <2>1, <2>2, <2>3
<1>. HIDE DEF y, to, args
<1>3. LET good == IF v.form = "null" THEN 2 ELSE 1
      IN  /\ <<y.args[1].name, v>> \in A
          /\ Owed(L, y.to[good]) \subseteq A \cup {Fact(v)}
          /\ Owed(L, y.to[3 - good]) \subseteq A
  <2>1. CASE v.form = "null"
    <3>1. Owed(L, y.to[2]) \subseteq A \cup {Fact(v)} /\ Owed(L, y.to[1]) \subseteq A
      BY <1>1, <1>2, <2>1
    <3>. QED BY <1>1, <1>2, <2>1, <3>1
  <2>2. CASE v.form # "null"
    <3>1. Owed(L, y.to[1]) \subseteq A \cup {Fact(v)} /\ Owed(L, y.to[2]) \subseteq A
      BY <1>1, <1>2, <2>2
    <3>. QED BY <1>1, <1>2, <2>2, <3>1
  <2>. QED BY <2>1, <2>2
<1>4. Pays(L, A, y)
  BY <1>1, <1>2, <1>3 DEF Pays
<1>5. Flows(L, A, y, {Never})
  BY <1>1, <1>2, <1>4 DEF Flows, IsTerminator, Placed, Accesses
<1>. QED BY <1>5 DEF y

(* Code written out.                                                       *)
LEMMA LeadsFive ==
    ASSUME NEW L, NEW x1, NEW x2, NEW x3, NEW x4, NEW x5,
           NEW A1, NEW A2, NEW A3, NEW A4, NEW A5, NEW A6,
           Flows(L, A1, x1, A2), Flows(L, A2, x2, A3), Flows(L, A3, x3, A4),
           Flows(L, A4, x4, A5), Flows(L, A5, x5, A6)
    PROVE  Leads(L, <<x1, x2, x3, x4, x5>>, A1, A6)
<1>. DEFINE K == <<A1, A2, A3, A4, A5, A6>>
            c == <<x1, x2, x3, x4, x5>>
<1>1. K[1] = A1 /\ K[2] = A2 /\ K[3] = A3 /\ K[4] = A4 /\ K[5] = A5 /\ K[6] = A6
  OBVIOUS
<1>2. /\ Len(c) = 5 /\ DOMAIN c = 1 .. 5
      /\ c[1] = x1 /\ c[2] = x2 /\ c[3] = x3 /\ c[4] = x4 /\ c[5] = x5
  OBVIOUS
<1>. HIDE DEF K, c
<1>3. ASSUME NEW k \in DOMAIN c PROVE Flows(L, K[k], c[k], K[k + 1])
  <2>1. k = 1 \/ k = 2 \/ k = 3 \/ k = 4 \/ k = 5
    BY <1>2
  <2>2. CASE k = 1
    BY <1>1, <1>2, <2>2
  <2>3. CASE k = 2
    BY <1>1, <1>2, <2>3
  <2>4. CASE k = 3
    BY <1>1, <1>2, <2>4
  <2>5. CASE k = 4
    BY <1>1, <1>2, <2>5
  <2>6. CASE k = 5
    BY <1>1, <1>2, <2>6
  <2>. QED BY <2>1, <2>2, <2>3, <2>4, <2>5, <2>6
<1>4. Leads(L, c, A1, A6)
  BY <1>1, <1>2, <1>3 DEF Leads
<1>. QED BY <1>4 DEF c

(* The same for twelve instructions.                                       *)
LEMMA LeadsTwelve ==
    ASSUME NEW L, NEW x1, NEW x2, NEW x3, NEW x4, NEW x5, NEW x6, NEW x7, NEW x8, NEW x9,
           NEW x10, NEW x11, NEW x12, NEW A1, NEW A2, NEW A3, NEW A4, NEW A5, NEW A6, NEW A7,
           NEW A8, NEW A9, NEW A10, NEW A11, NEW A12, NEW A13,
           Flows(L, A1, x1, A2), Flows(L, A2, x2, A3), Flows(L, A3, x3, A4),
           Flows(L, A4, x4, A5), Flows(L, A5, x5, A6), Flows(L, A6, x6, A7),
           Flows(L, A7, x7, A8), Flows(L, A8, x8, A9), Flows(L, A9, x9, A10),
           Flows(L, A10, x10, A11), Flows(L, A11, x11, A12), Flows(L, A12, x12, A13)
    PROVE  Leads(L, <<x1, x2, x3, x4, x5, x6, x7, x8, x9, x10, x11, x12>>, A1, A13)
<1>. DEFINE K == <<A1, A2, A3, A4, A5, A6, A7, A8, A9, A10, A11, A12, A13>>
            c == <<x1, x2, x3, x4, x5, x6, x7, x8, x9, x10, x11, x12>>
<1>1. K[1] = A1 /\ K[2] = A2 /\ K[3] = A3 /\ K[4] = A4 /\ K[5] = A5 /\ K[6] = A6 /\ K[7] = A7
      /\ K[8] = A8 /\ K[9] = A9 /\ K[10] = A10 /\ K[11] = A11 /\ K[12] = A12 /\ K[13] = A13
  OBVIOUS
<1>2. /\ Len(c) = 12 /\ DOMAIN c = 1 .. 12
      /\ c[1] = x1 /\ c[2] = x2 /\ c[3] = x3 /\ c[4] = x4 /\ c[5] = x5 /\ c[6] = x6
      /\ c[7] = x7 /\ c[8] = x8 /\ c[9] = x9 /\ c[10] = x10 /\ c[11] = x11 /\ c[12] = x12
  OBVIOUS
<1>. HIDE DEF K, c
<1>3. ASSUME NEW k \in DOMAIN c PROVE Flows(L, K[k], c[k], K[k + 1])
  <2>1. k = 1 \/ k = 2 \/ k = 3 \/ k = 4 \/ k = 5 \/ k = 6 \/ k = 7 \/ k = 8 \/ k = 9
        \/ k = 10 \/ k = 11 \/ k = 12
    BY <1>2
  <2>2. CASE k = 1 \/ k = 2 \/ k = 3 \/ k = 4
    BY <1>1, <1>2, <2>2
  <2>3. CASE k = 5 \/ k = 6 \/ k = 7 \/ k = 8
    BY <1>1, <1>2, <2>3
  <2>4. CASE k = 9 \/ k = 10 \/ k = 11 \/ k = 12
    BY <1>1, <1>2, <2>4
  <2>. QED BY <2>1, <2>2, <2>3, <2>4
<1>4. Leads(L, c, A1, A13)
  BY <1>1, <1>2, <1>3 DEF Leads
<1>. QED BY <1>4 DEF c

(* What is known of names in R only.                                       *)
Steady(R, A) ==
    \A c \in A : \E v : /\ c = Fact(v) /\ v.form # "never"
                        /\ v = Finding(v.form, v.base, v.arg, v.dim)
                        /\ v.base \in R \cup {NoName} /\ v.arg.name \in R \cup {NoName}

(* It stays known when another name is written.                            *)
LEMMA SteadyKept ==
    ASSUME NEW R, NEW A, Steady(R, A), NEW x, x \notin R, x # NoName
    PROVE  Never \notin A /\ \A M : A \subseteq M => A \subseteq Keep(M, x)
<1>1. \A v : Fact(v)[1] = NoName /\ Fact(v)[2] = v
  BY DEF Fact
<1>2. Never[2].form = "never"
  BY DEF Never, Fact, Finding
<1>3. Never \notin A
  <2>1. SUFFICES ASSUME Never \in A PROVE FALSE
    OBVIOUS
  <2>2. PICK v : Never = Fact(v) /\ v.form # "never"
    BY <2>1 DEF Steady
  <2>. QED BY <1>1, <1>2, <2>2
<1>4. ASSUME NEW c \in A PROVE c[1] = NoName /\ ~Mentions(c[2], x)
  <2>1. PICK v : /\ c = Fact(v) /\ v.base \in R \cup {NoName} /\ v.arg.name \in R \cup {NoName}
    BY DEF Steady
  <2>. QED BY <1>1, <2>1 DEF Mentions
<1>. QED BY <1>3, <1>4 DEF Keep

(* The checks.                                                             *)
NullOf(a)       == Fact(Finding("null", a, Num(0), 0))
LowOf(t)        == Fact(Finding(">=", NoName, t, 0))
HighOf(a, t, d) == Fact(Finding("<", a, t, d - 1))

(* The numbers of the labels so far are below k, and a label owes nothing. *)
Below(L, k)   == \A n \in DOMAIN L : n \in Nat /\ n < k
OwesNothing(L, l) == Placed(L, l) /\ Owed(L, l) = {}

With(L, n, S) == [m \in DOMAIN L \cup {n} |-> IF m = n THEN S ELSE L[m]]

(* M has a label more than L, of the number n, that owes S.                *)
Adds(M, L, n, S) ==
    /\ Extends(M, L) /\ DOMAIN M = DOMAIN L \cup {n}
    /\ Placed(M, NewVar(n)) /\ Owed(M, NewVar(n)) = S

(* A label may be added that owes anything that can be known.              *)
LEMMA WithIs ==
    ASSUME NEW L, NEW n, n \notin DOMAIN L, NEW S, Never \notin S
    PROVE  Adds(With(L, n, S), L, n, S)
<1>1. NewVar(n)[1] = "new_var" /\ NewVar(n)[2] = n
  BY DEF NewVar
<1>. QED BY <1>1 DEF With, Extends, Placed, Owed, Adds

(* With more labels, the old ones owe what they did,                       *)
LEMMA OwedStill ==
    ASSUME NEW L, NEW M, Extends(M, L), NEW l, Placed(L, l)
    PROVE  Placed(M, l) /\ Owed(M, l) = Owed(L, l)
BY DEF Extends, Placed, Owed

(* or nothing, as before.                                                  *)
LEMMA OwesStill ==
    ASSUME NEW L, NEW M, Extends(M, L), NEW l, OwesNothing(L, l)
    PROVE  OwesNothing(M, l)
BY DEF Extends, Placed, Owed, OwesNothing

(* Labels may be added one after the other.                                *)
LEMMA ExtendsOn ==
    ASSUME NEW L, NEW M, NEW N, Extends(M, L), Extends(N, M)
    PROVE  Extends(N, L)
BY DEF Extends

(* Names that are made up are told apart by their numbers.                 *)
LEMMA NamesDiffer ==
    /\ \A n : NewVar(n) # NoName
    /\ \A m, n : NewVar(m) = NewVar(n) => m = n
BY DEF NewVar, NoName, Name

(* The inserted instructions, one by one.                                  *)
LEMMA InsertedFlows ==
    ASSUME NEW L, NEW A, NEW B
    PROVE  /\ \A x, type : B \subseteq Keep(A, x) => Flows(L, A, Def(x, type), B)
           /\ \A x, t : B \subseteq Keep(A, x) => Flows(L, A, Assign(x, t), B)
           /\ \A x, l, o, r :
                (\A c \in B : c \in Keep(A, x) \/ Learns(A, Op(x, l, o, r), c))
                    => Flows(L, A, Op(x, l, o, r), B)
           /\ \A x, a, ts :
                (\A c \in B : c \in Keep(A, x) \/ Learns(A, Length(x, a, ts), c))
                    => Flows(L, A, Length(x, a, ts), B)
<1>1. ASSUME NEW x, NEW type, B \subseteq Keep(A, x) PROVE Flows(L, A, Def(x, type), B)
  <2>. DEFINE y == Def(x, type)
  <2>1. y.op = "def" /\ y.of = 0 /\ y.to = <<>> /\ y.dst = x
    BY DEF Def, Instr
  <2>. HIDE DEF y
  <2>2. Flows(L, A, y, B)
    BY <1>1, <2>1, PlainFlows
  <2>. QED BY <2>2 DEF y
<1>2. ASSUME NEW x, NEW t, B \subseteq Keep(A, x) PROVE Flows(L, A, Assign(x, t), B)
  <2>. DEFINE y == Assign(x, t)
  <2>1. y.op = "assign" /\ y.of = 0 /\ y.to = <<>> /\ y.dst = x
    BY DEF Assign, Instr
  <2>. HIDE DEF y
  <2>2. Flows(L, A, y, B)
    BY <1>2, <2>1, PlainFlows
  <2>. QED BY <2>2 DEF y
<1>3. ASSUME NEW x, NEW l, NEW o, NEW r,
             \A c \in B : c \in Keep(A, x) \/ Learns(A, Op(x, l, o, r), c)
      PROVE  Flows(L, A, Op(x, l, o, r), B)
  <2>. DEFINE y == Op(x, l, o, r)
  <2>1. y.op = "op" /\ y.of = 0 /\ y.to = <<>> /\ y.dst = x
    BY DEF Op, Instr
  <2>2. \A c \in B : c \in Keep(A, x) \/ Learns(A, y, c)
    BY <1>3
  <2>. HIDE DEF y
  <2>3. Flows(L, A, y, B)
    BY <2>1, <2>2, PlainFlows
  <2>. QED BY <2>3 DEF y
<1>4. ASSUME NEW x, NEW a, NEW ts,
             \A c \in B : c \in Keep(A, x) \/ Learns(A, Length(x, a, ts), c)
      PROVE  Flows(L, A, Length(x, a, ts), B)
  <2>. DEFINE y == Length(x, a, ts)
  <2>1. y.op = "length" /\ y.of = 0 /\ y.to = <<>> /\ y.dst = x
    BY DEF Length, Instr
  <2>2. \A c \in B : c \in Keep(A, x) \/ Learns(A, y, c)
    BY <1>4
  <2>. HIDE DEF y
  <2>3. Flows(L, A, y, B)
    BY <2>1, <2>2, PlainFlows
  <2>. QED BY <2>3 DEF y
<1>. QED BY <1>1, <1>2, <1>3, <1>4

(* What the inserted operations find out.                                  *)
LEMMA InsertedLearns ==
    ASSUME NEW A, NEW x, x # NoName
    PROVE  /\ \A a : Learns(A, Op(x, Var(a), "=", Num(0)),
                            <<x, Finding("null", a, Num(0), 0)>>)
           /\ \A t : Learns(A, Op(x, t, ">=", Num(0)), <<x, Finding(">=", NoName, t, 0)>>)
           /\ \A a, ts : Learns(A, Length(x, a, ts),
                                <<x, Finding("length", a, Num(0),
                                             IF ts = <<>> THEN 0 ELSE ts[1].num)>>)
           /\ \A y, a, d : y # NoName /\ <<y, Finding("length", a, Num(0), d)>> \in A
                => Learns(A, Op(x, Var(y), ">>", Num(1)),
                          <<x, Finding("length>>1", a, Num(0), d)>>)
           /\ \A y, t, a, d : y # NoName /\ <<y, Finding("length>>1", a, Num(0), d)>> \in A
                => Learns(A, Op(x, t, "<", Var(y)), <<x, Finding("<", a, t, d)>>)
<1>0. \A l, o, r : /\ Op(x, l, o, r).op = "op" /\ Op(x, l, o, r).kind = o
                   /\ Op(x, l, o, r).of = 0 /\ Op(x, l, o, r).dst = x
                   /\ Op(x, l, o, r).args[1] = l /\ Op(x, l, o, r).args[2] = r
  BY DEF Op, Instr
<1>1. \A y : Var(y).name = y
  BY DEF Var
<1>2. \A f, b, t, d : LET v == Finding(f, b, t, d)
                      IN  v.form = f /\ v.base = b /\ v.arg = t /\ v.dim = d
  BY DEF Finding
<1>3. ASSUME NEW a PROVE Learns(A, Op(x, Var(a), "=", Num(0)),
                                <<x, Finding("null", a, Num(0), 0)>>)
  BY <1>0, <1>1 DEF Learns
<1>4. ASSUME NEW t PROVE Learns(A, Op(x, t, ">=", Num(0)), <<x, Finding(">=", NoName, t, 0)>>)
  BY <1>0 DEF Learns
<1>5. ASSUME NEW a, NEW ts
      PROVE  Learns(A, Length(x, a, ts), <<x, Finding("length", a, Num(0),
                                                      IF ts = <<>> THEN 0 ELSE ts[1].num)>>)
  <2>1. /\ Length(x, a, ts).op = "length" /\ Length(x, a, ts).of = 0
        /\ Length(x, a, ts).dst = x /\ Length(x, a, ts).base = a /\ Length(x, a, ts).args = ts
    BY DEF Length, Instr
  <2>. QED BY <2>1 DEF Learns
<1>6. ASSUME NEW y, NEW a, NEW d, y # NoName, <<y, Finding("length", a, Num(0), d)>> \in A
      PROVE  Learns(A, Op(x, Var(y), ">>", Num(1)), <<x, Finding("length>>1", a, Num(0), d)>>)
  <2>. DEFINE v == Finding("length", a, Num(0), d)
              w == Finding("length>>1", a, Num(0), d)
              ins == Op(x, Var(y), ">>", Num(1))
  <2>1. v.form = "length" /\ w = Finding("length>>1", v.base, v.arg, v.dim)
    BY DEF Finding
  <2>2. <<y, v>> \in A
    BY <1>6
  <2>3. ins.op = "op" /\ ins.kind = ">>" /\ ins.of = 0 /\ ins.dst = x /\ ins.args[1].name = y
    BY <1>0, <1>1
  <2>. HIDE DEF v, w, ins
  <2>4. Learns(A, ins, <<x, w>>)
    BY <1>6, <2>1, <2>2, <2>3 DEF Learns
  <2>. QED BY <2>4 DEF w, ins
<1>7. ASSUME NEW y, NEW t, NEW a, NEW d, y # NoName,
             <<y, Finding("length>>1", a, Num(0), d)>> \in A
      PROVE  Learns(A, Op(x, t, "<", Var(y)), <<x, Finding("<", a, t, d)>>)
  <2>. DEFINE v == Finding("length>>1", a, Num(0), d)
              w == Finding("<", a, t, d)
              ins == Op(x, t, "<", Var(y))
  <2>1. v.form = "length>>1" /\ w = Finding("<", v.base, t, v.dim)
    BY DEF Finding
  <2>2. <<y, v>> \in A
    BY <1>7
  <2>3. /\ ins.op = "op" /\ ins.kind = "<" /\ ins.of = 0 /\ ins.dst = x
        /\ ins.args[2].name = y /\ ins.args[1] = t
    BY <1>0, <1>1
  <2>. HIDE DEF v, w, ins
  <2>4. Learns(A, ins, <<x, w>>)
    BY <1>7, <2>1, <2>2, <2>3 DEF Learns
  <2>. QED BY <2>4 DEF w, ins
<1>. QED BY <1>3, <1>4, <1>5, <1>6, <1>7

(* What is inserted stands for nothing.                                    *)
LEMMA InsertedLinks ==
    ASSUME NEW S, NEW c \in Seq(S), \A x \in S : x.of = 0
    PROVE  Links(c)
BY DEF Links, Linked

(* The instructions that are inserted have no place in the source.         *)
LEMMA InsertedAre ==
    /\ \A x, type : Def(x, type).of = 0
    /\ \A x, t : Assign(x, t).of = 0
    /\ \A x, l, o, r : Op(x, l, o, r).of = 0
    /\ \A l : Label(l).of = 0
    /\ \A t, l, m : Cond(t, l, m).of = 0
    /\ \A l : Branch(l).of = 0
    /\ \A x, a, ts : Length(x, a, ts).of = 0
    /\ \A x, f, ts : Call(x, f, ts).of = 0
BY DEF Def, Assign, Op, Label, Cond, Branch, Length, Call, Instr

(* After the check for null, the array is known not to be null.            *)
LEMMA NullCheckLeads ==
    ASSUME IsFiniteSet(C!names), NEW k \in Nat, NEW a, a \in C!names,
           NEW L, Below(L, k), NEW A, Steady(C!names, A),
           C!errLine \notin C!names, C!errLine # NoName, OwesNothing(L, C!errLabel)
    PROVE  LET s == C!NullCheck(a, k)
               q == C!Fresh(C!names, k, 2)[2] + 1
           IN  /\ q \in Nat /\ q >= k /\ IsSeq(s) /\ Links(s)
               /\ \E M : Extends(M, L) /\ Below(M, q) /\ Leads(M, s, A, A \cup {NullOf(a)})
<1>. DEFINE n    == C!Fresh(C!names, k, 2)
            n1   == n[1]
            n2   == n[2]
            cond == NewVar(n1)
            ok   == NewVar(n2)
            e1 == Def(cond, "int64")
            e2 == Assign(C!errLine, C!Number(C!line))
            e3 == Op(cond, Var(a), "=", Num(0))
            e4 == Cond(Var(cond), C!errLabel, ok)
            e5 == Label(ok)
            v  == Finding("null", a, Num(0), 0)
            A2 == A \cup {<<cond, v>>}
            B  == A \cup {Fact(v)}
            M  == With(L, n2, B)
<1>1. C!NullCheck(a, k) = <<e1, e2, e3, e4, e5>>
  BY SameC, MoreSameC DEF C!NullCheck
<1>2. /\ n1 \in Nat /\ n1 >= k /\ NewVar(n1) \notin C!names
      /\ n2 \in Nat /\ n2 >= k /\ NewVar(n2) \notin C!names /\ n1 < n2
  <2>. DEFINE r == C!names
              f == Fresh(r, k, 2)
  <2>1. n = f
    BY SameFresh
  <2>. HIDE DEF r
  <2>2. /\ \A c \in 1 .. 2 : f[c] \in Nat /\ f[c] >= k /\ NewVar(f[c]) \notin r
        /\ \A c \in 1 .. 2 : c > 1 => f[c - 1] < f[c]
    <3>1. IsFiniteSet(r) /\ 2 \in Nat
      BY DEF r
    <3>. QED BY <3>1, FreshIs
  <2>3. 1 \in 1 .. 2 /\ 2 \in 1 .. 2 /\ 2 > 1 /\ 2 - 1 = 1
    OBVIOUS
  <2>. HIDE DEF f
  <2>4. f[1] < f[2]
    BY <2>2, <2>3
  <2>. QED BY <2>1, <2>2, <2>3, <2>4 DEF r
<1>3. cond # NoName /\ cond \notin C!names
  BY <1>2, NamesDiffer
<1>. HIDE DEF n, n1, n2
<1>4. n2 \notin DOMAIN L
  BY <1>2 DEF Below
<1>5. Never \notin A /\ \A J : A \subseteq J => A \subseteq Keep(J, cond)
  BY <1>3, SteadyKept
<1>6. \A J : A \subseteq J => A \subseteq Keep(J, C!errLine)
  BY SteadyKept
<1>7. v.form = "null" /\ Fact(v) # Never /\ NullOf(a) = Fact(v)
  BY DEF Finding, Never, Fact, NullOf
<1>8. Never \notin B
  BY <1>5, <1>7
<1>. HIDE DEF v
<1>9. /\ Extends(M, L) /\ DOMAIN M = DOMAIN L \cup {n2} /\ Placed(M, ok) /\ Owed(M, ok) = B
      /\ Placed(M, C!errLabel) /\ Owed(M, C!errLabel) = {}
  <2>. HIDE DEF B
  <2>1. Adds(M, L, n2, B)
    BY <1>4, <1>8, WithIs
  <2>. HIDE DEF M
  <2>2. OwesNothing(M, C!errLabel)
    BY <2>1, OwesStill DEF Adds
  <2>. QED BY <2>1, <2>2 DEF Adds, OwesNothing
<1>. HIDE DEF M
<1>11. Flows(M, A, e1, A)
  BY <1>5, InsertedFlows
<1>12. Flows(M, A, e2, A)
  BY <1>6, InsertedFlows
<1>13. Flows(M, A, e3, A2)
  <2>1. Learns(A, e3, <<cond, v>>)
    BY <1>3, InsertedLearns DEF v
  <2>2. \A c \in A2 : c \in Keep(A, cond) \/ Learns(A, e3, c)
    BY <1>5, <2>1
  <2>. HIDE DEF A2
  <2>. QED BY <2>2, InsertedFlows
<1>14. Flows(M, A2, e4, {Never})
  <2>1. <<cond, v>> \in A2 /\ Owed(M, ok) \subseteq A2 \cup {Fact(v)}
        /\ Owed(M, C!errLabel) \subseteq A2
    BY <1>9
  <2>. HIDE DEF A2, ok, cond
  <2>. QED BY <1>3, <1>7, <1>9, <2>1, CondFlows
<1>15. Flows(M, {Never}, e5, B)
  BY <1>9, ControlFlows
<1>16. Leads(M, <<e1, e2, e3, e4, e5>>, A, B)
  <2>. HIDE DEF e1, e2, e3, e4, e5, B, A2
  <2>. QED BY <1>11, <1>12, <1>13, <1>14, <1>15, LeadsFive
<1>17. n2 + 1 \in Nat /\ n2 + 1 >= k /\ Below(M, n2 + 1)
  <2>1. \A m \in DOMAIN M : m \in Nat /\ m < n2 + 1
    BY <1>2, <1>9 DEF Below
  <2>. QED BY <1>2, <2>1 DEF Below
<1>18. IsSeq(<<e1, e2, e3, e4, e5>>) /\ Links(<<e1, e2, e3, e4, e5>>)
  <2>. DEFINE S == {e1, e2, e3, e4, e5}
              s == <<e1, e2, e3, e4, e5>>
  <2>1. s \in Seq(S)
    OBVIOUS
  <2>2. \A x \in S : x.of = 0
    BY InsertedAre
  <2>. HIDE DEF S, s
  <2>3. IsSeq(s) /\ Links(s)
    BY <2>1, <2>2, SeqIsSeq, InsertedLinks
  <2>. QED BY <2>3 DEF s
<1>19. B = A \cup {NullOf(a)}
  BY <1>7
<1>. HIDE DEF e1, e2, e3, e4, e5, B
<1>. QED BY <1>1, <1>9, <1>16, <1>17, <1>18, <1>19 DEF n2, n

(* Where nothing is known, the plain instructions find nothing out.        *)
LEMMA QuietLeads ==
    ASSUME NEW S, NEW c \in Seq(S), NEW L,
           \A x \in S : /\ x.of = 0 /\ x.to = <<>>
                        /\ x.op \in {"def", "assign", "op", "length"}
    PROVE  Leads(L, c, {}, {}) /\ IsSeq(c) /\ Links(c)
<1>. DEFINE K == [k \in 1 .. Len(c) + 1 |-> {}]
<1>1. Len(c) \in Nat /\ DOMAIN c = 1 .. Len(c) /\ \A k \in DOMAIN c : c[k] \in S
  OBVIOUS
<1>2. \A k \in 1 .. Len(c) + 1 : K[k] = {}
  OBVIOUS
<1>3. 1 \in 1 .. Len(c) + 1 /\ Len(c) + 1 \in 1 .. Len(c) + 1
      /\ \A k \in DOMAIN c : k \in 1 .. Len(c) + 1 /\ k + 1 \in 1 .. Len(c) + 1
  BY <1>1
<1>. HIDE DEF K
<1>4. ASSUME NEW k \in DOMAIN c PROVE Flows(L, K[k], c[k], K[k + 1])
  <2>1. Flows(L, {}, c[k], {})
    BY <1>1, PlainFlows
  <2>2. K[k] = {} /\ K[k + 1] = {}
    BY <1>2, <1>3
  <2>. QED BY <2>1, <2>2
<1>5. Leads(L, c, {}, {})
  BY <1>2, <1>3, <1>4 DEF Leads
<1>. QED BY <1>5, SeqIsSeq, InsertedLinks

(* The numbers of eight or seven names.                                    *)
LEMMA NumbersAre ==
    ASSUME NEW r, IsFiniteSet(r), NEW k \in Nat, NEW N \in {7, 8},
           NEW n, n = Fresh(r, k, N)
    PROVE  /\ \A c \in 1 .. N : n[c] \in Nat /\ n[c] >= k /\ NewVar(n[c]) \notin r
           /\ n[1] < n[2] /\ n[2] < n[3] /\ n[3] < n[4] /\ n[4] < n[5] /\ n[5] < n[6]
           /\ n[6] < n[7] /\ n[7] <= n[N] /\ Len(n) = N
<1>. DEFINE f == Fresh(r, k, N)
<1>0. N \in Nat
  OBVIOUS
<1>1. /\ \A c \in 1 .. N : f[c] \in Nat /\ f[c] >= k /\ NewVar(f[c]) \notin r
      /\ \A c \in 1 .. N : c > 1 => f[c - 1] < f[c]
      /\ Len(f) = N
  BY <1>0, FreshIs
<1>. HIDE DEF f
<1>5. n = f
  BY DEF f
<1>2. \A c \in {2, 3, 4, 5, 6, 7} : f[c - 1] < f[c]
  <2>1. \A c \in {2, 3, 4, 5, 6, 7} : c \in 1 .. N /\ c > 1
    OBVIOUS
  <2>. QED BY <1>1, <2>1
<1>3. f[1] < f[2] /\ f[2] < f[3] /\ f[3] < f[4] /\ f[4] < f[5] /\ f[5] < f[6] /\ f[6] < f[7]
  <2>1. 2 - 1 = 1 /\ 3 - 1 = 2 /\ 4 - 1 = 3 /\ 5 - 1 = 4 /\ 6 - 1 = 5 /\ 7 - 1 = 6
    OBVIOUS
  <2>. QED BY <1>2, <2>1
<1>4. f[7] <= f[N]
  <2>1. CASE N = 7
    <3>1. 7 \in 1 .. N
      BY <2>1
    <3>. QED BY <1>1, <2>1, <3>1
  <2>2. CASE N = 8
    <3>1. 8 \in 1 .. N /\ 7 \in 1 .. N /\ 8 > 1 /\ 8 - 1 = 7
      BY <2>2
    <3>2. f[7] < f[8]
      BY <1>1, <3>1
    <3>. QED BY <1>1, <2>2, <3>1, <3>2
  <2>. QED BY <2>1, <2>2
<1>. QED BY <1>1, <1>3, <1>4, <1>5

(* One more finding about the names in R.                                  *)
LEMMA SteadyMore ==
    ASSUME NEW R, NEW A, Steady(R, A), NEW f, NEW b, NEW t, NEW d, f # "never",
           b \in R \cup {NoName}, t.name \in R \cup {NoName}
    PROVE  Steady(R, A \cup {Fact(Finding(f, b, t, d))})
<1>. DEFINE v == Finding(f, b, t, d)
<1>1. v.form = f /\ v.base = b /\ v.arg = t /\ v.dim = d
  BY DEF Finding
<1>2. v = Finding(v.form, v.base, v.arg, v.dim)
  BY <1>1
<1>. HIDE DEF v
<1>3. Steady(R, A \cup {Fact(v)})
  BY <1>1, <1>2 DEF Steady
<1>. QED BY <1>3 DEF v

(* The comparisons of one index, given where they jump to.                 *)
LEMMA ComparisonsLead ==
    ASSUME NEW R, NEW a \in R, NEW t, t.name \in R \cup {NoName}, NEW d, NEW ts,
           (IF ts = <<>> THEN 0 ELSE ts[1].num) = d - 1,
           NEW A, Steady(R, A),
           NEW lenEnc, NEW lenDec, NEW nonNeg, NEW lessThan,
           lenEnc \notin R, lenDec \notin R, nonNeg \notin R, lessThan \notin R,
           lenEnc # NoName, lenDec # NoName, nonNeg # NoName, lessThan # NoName,
           lenDec # nonNeg, lenDec # lessThan,
           NEW M, NEW below, NEW err, NEW ok, Placed(M, below), Placed(M, err), Placed(M, ok),
           NEW s, s = A \cup {<<lenDec, Finding("length>>1", a, Num(0), d - 1)>>, LowOf(t)},
           NEW s2, s2 = A \cup {LowOf(t), HighOf(a, t, d)},
           Owed(M, below) = s, Owed(M, err) = {}, Owed(M, ok) = s2
    PROVE  Leads(M, <<Def(lenEnc, "int64"), Def(lenDec, "int64"),
                      Def(nonNeg, "int64"), Def(lessThan, "int64"),
                      Length(lenEnc, a, ts),
                      Op(lenDec, Var(lenEnc), ">>", Num(1)),
                      Op(nonNeg, t, ">=", Num(0)),
                      Cond(Var(nonNeg), below, err),
                      Label(below),
                      Op(lessThan, t, "<", Var(lenDec)),
                      Cond(Var(lessThan), ok, err),
                      Label(err)>>, A, {})
<1>. DEFINE e1 == Def(lenEnc, "int64")
            e2 == Def(lenDec, "int64")
            e3 == Def(nonNeg, "int64")
            e4 == Def(lessThan, "int64")
            e5 == Length(lenEnc, a, ts)
            e6 == Op(lenDec, Var(lenEnc), ">>", Num(1))
            e7 == Op(nonNeg, t, ">=", Num(0))
            e8 == Cond(Var(nonNeg), below, err)
            e9 == Label(below)
            e10 == Op(lessThan, t, "<", Var(lenDec))
            e11 == Cond(Var(lessThan), ok, err)
            e12 == Label(err)
            v  == Finding("length", a, Num(0), d - 1)
            w  == Finding("length>>1", a, Num(0), d - 1)
            lo == Finding(">=", NoName, t, 0)
            hi == Finding("<", a, t, d - 1)
            AL == A \cup {Fact(lo)}
            A6 == A \cup {<<lenEnc, v>>}
            A7 == A \cup {<<lenDec, w>>}
            A8 == A \cup {<<lenDec, w>>, <<nonNeg, lo>>}
            S5 == A \cup {<<lenDec, w>>, Fact(lo)}
            S6 == A \cup {<<lenDec, w>>, Fact(lo), <<lessThan, hi>>}
            S7 == A \cup {Fact(lo), Fact(hi)}
<1>1. /\ lenEnc # NoName /\ lenDec # NoName /\ nonNeg # NoName /\ lessThan # NoName
      /\ lenEnc \notin R /\ lenDec \notin R /\ nonNeg \notin R /\ lessThan \notin R
  OBVIOUS
<1>2. Owed(M, below) = S5 /\ Owed(M, ok) = S7
  BY DEF LowOf, HighOf
<1>3. \A J : A \subseteq J => /\ A \subseteq Keep(J, lenEnc) /\ A \subseteq Keep(J, lenDec)
                              /\ A \subseteq Keep(J, nonNeg) /\ A \subseteq Keep(J, lessThan)
  BY <1>1, SteadyKept
<1>4. AL \subseteq Keep(S5, lessThan)
  <2>1. Steady(R, AL)
    BY SteadyMore
  <2>2. AL \subseteq S5
    OBVIOUS
  <2>. HIDE DEF AL, S5
  <2>. QED BY <1>1, <2>1, <2>2, SteadyKept
<1>5. \A x, J : x \in {nonNeg, lessThan} /\ <<lenDec, w>> \in J => <<lenDec, w>> \in Keep(J, x)
  <2>1. w.base = a /\ w.arg.name = NoName
    BY DEF Finding, Num
  <2>2. Never[1] = NoName
    BY DEF Never, Fact
  <2>. HIDE DEF w
  <2>3. ASSUME NEW x \in {nonNeg, lessThan}, NEW J, <<lenDec, w>> \in J
        PROVE  <<lenDec, w>> \in Keep(J, x)
    <3>. DEFINE c == <<lenDec, w>>
    <3>1. c[1] = lenDec /\ c[2] = w /\ c \in J
      BY <2>3
    <3>. HIDE DEF c
    <3>2. c # Never /\ ~Mentions(w, x) /\ c[1] # x
      BY <1>1, <2>1, <2>2, <3>1 DEF Mentions
    <3>3. c \in Keep(J, x)
      BY <3>1, <3>2 DEF Keep
    <3>. QED BY <3>3 DEF c
  <2>. QED BY <2>3
<1>6. /\ v = Finding("length", a, Num(0), IF ts = <<>> THEN 0 ELSE ts[1].num)
      /\ lo.form = ">=" /\ hi.form = "<"
  BY DEF Finding
<1>. HIDE DEF v, w, lo, hi
<1>11. Flows(M, A, e1, A) /\ Flows(M, A, e2, A) /\ Flows(M, A, e3, A) /\ Flows(M, A, e4, A)
  BY <1>3, InsertedFlows
<1>12. Flows(M, A, e5, A6)
  <2>1. Learns(A, e5, <<lenEnc, v>>)
    BY <1>1, <1>6, InsertedLearns
  <2>2. \A c \in A6 : c \in Keep(A, lenEnc) \/ Learns(A, e5, c)
    BY <1>3, <2>1
  <2>. HIDE DEF A6
  <2>. QED BY <2>2, InsertedFlows
<1>13. Flows(M, A6, e6, A7)
  <2>0. <<lenEnc, Finding("length", a, Num(0), d - 1)>> \in A6
    BY DEF v
  <2>. HIDE DEF A6
  <2>1. Learns(A6, e6, <<lenDec, w>>)
    BY <1>1, <2>0, InsertedLearns DEF w
  <2>. USE DEF A6
  <2>2. \A c \in A7 : c \in Keep(A6, lenDec) \/ Learns(A6, e6, c)
    BY <1>3, <2>1
  <2>. HIDE DEF A6, A7
  <2>. QED BY <2>2, InsertedFlows
<1>14. Flows(M, A7, e7, A8)
  <2>1. Learns(A7, e7, <<nonNeg, lo>>)
    <3>. HIDE DEF A7
    <3>. QED BY <1>1, InsertedLearns DEF lo
  <2>2. <<lenDec, w>> \in Keep(A7, nonNeg)
    BY <1>5
  <2>3. \A c \in A8 : c \in Keep(A7, nonNeg) \/ Learns(A7, e7, c)
    BY <1>3, <2>1, <2>2
  <2>. HIDE DEF A8, A7
  <2>. QED BY <2>3, InsertedFlows
<1>15. Flows(M, A8, e8, {Never})
  <2>1. <<nonNeg, lo>> \in A8 /\ Owed(M, below) \subseteq A8 \cup {Fact(lo)}
        /\ Owed(M, err) \subseteq A8
    BY <1>2
  <2>. HIDE DEF A8
  <2>. QED BY <1>1, <1>6, <2>1, CondFlows
<1>16. Flows(M, {Never}, e9, S5)
  BY <1>2, ControlFlows
<1>17. Flows(M, S5, e10, S6)
  <2>0. <<lenDec, Finding("length>>1", a, Num(0), d - 1)>> \in S5
    BY DEF w
  <2>1. Learns(S5, e10, <<lessThan, hi>>)
    <3>. HIDE DEF S5
    <3>. QED BY <1>1, <2>0, InsertedLearns DEF hi
  <2>2. <<lenDec, w>> \in Keep(S5, lessThan)
    BY <1>5
  <2>3. \A c \in S6 : c \in Keep(S5, lessThan) \/ Learns(S5, e10, c)
    BY <1>4, <2>1, <2>2
  <2>. HIDE DEF S5, S6
  <2>. QED BY <2>3, InsertedFlows
<1>18. Flows(M, S6, e11, {Never})
  <2>1. <<lessThan, hi>> \in S6 /\ Owed(M, ok) \subseteq S6 \cup {Fact(hi)}
        /\ Owed(M, err) \subseteq S6
    BY <1>2
  <2>. HIDE DEF S6
  <2>. QED BY <1>1, <1>6, <2>1, CondFlows
<1>19. Flows(M, {Never}, e12, {})
  BY ControlFlows
<1>20. Leads(M, <<e1, e2, e3, e4, e5, e6, e7, e8, e9, e10, e11, e12>>, A, {})
  <2>. HIDE DEF e1, e2, e3, e4, e5, e6, e7, e8, e9, e10, e11, e12, A6, A7, A8, S5, S6
  <2>. QED BY <1>11, <1>12, <1>13, <1>14, <1>15, <1>16, <1>17, <1>18, <1>19, LeadsTwelve
<1>. QED BY <1>20

(* Once an index has been checked, it is known to be within the bounds.    *)
LEMMA BoundsCheckLeads ==
    ASSUME IsFiniteSet(C!names), NEW k \in Nat, NEW a, a \in C!names, NEW t,
           t.name \in C!names \cup {NoName}, NEW d, d \in Nat, C!TypeOf(a) = "tuple" => d = 1,
           NEW lineVar, NEW L, Below(L, k), NEW A, Steady(C!names, A)
    PROVE  LET c == C!BoundsCheck(a, d, t, lineVar, k)
           IN  /\ c.counter \in Nat /\ c.counter >= k /\ IsSeq(c.new) /\ Links(c.new)
               /\ \E M : /\ Extends(M, L) /\ Below(M, c.counter)
                         /\ Leads(M, c.new, A, A \cup {LowOf(t), HighOf(a, t, d)})
<1>. DEFINE N      == IF IsNum(t) THEN 7 ELSE 8
            n      == C!Fresh(C!names, k, N)
            lenEnc == NewVar(n[1])
            lenDec == NewVar(n[2])
            nonNeg == NewVar(n[3])
            lessThan == NewVar(n[4])
            below  == NewVar(n[5])
            err    == NewVar(n[6])
            ok     == NewVar(n[7])
            tuple  == C!TypeOf(a) = "tuple"
            ts     == IF tuple THEN <<>> ELSE <<Num(d - 1)>>
            index  == IF IsNum(t) THEN C!Number(t.num) ELSE Var(NewVar(n[8]))
            head   == <<Def(lenEnc, "int64"), Def(lenDec, "int64"),
                      Def(nonNeg, "int64"), Def(lessThan, "int64"),
                      Length(lenEnc, a, ts),
                      Op(lenDec, Var(lenEnc), ">>", Num(1)),
                      Op(nonNeg, t, ">=", Num(0)),
                      Cond(Var(nonNeg), below, err),
                      Label(below),
                      Op(lessThan, t, "<", Var(lenDec)),
                      Cond(Var(lessThan), ok, err),
                      Label(err)>>
            encode == IF IsNum(t) THEN <<>>
                      ELSE <<Def(NewVar(n[8]), "int64"),
                             Op(NewVar(n[8]), t, "<<", Num(1)),
                             Op(NewVar(n[8]), Var(NewVar(n[8])), "+", Num(1))>>
            report == CASE tuple -> Call(NoName, Name("tuple-error"),
                                         <<Var(lineVar), Var(lenEnc), index>>)
                        [] C!Rank(C!TypeOf(a)) = 1 -> Call(NoName, Name("tensor-error"),
                                         <<Var(lineVar), Var(lenEnc), index>>)
                        [] OTHER -> Call(NoName, Name("tensor-error"),
                                     <<Var(lineVar), C!Number(d - 1), Var(lenEnc), index>>)
            tail   == <<report, Label(ok)>>
            c      == C!BoundsCheck(a, d, t, lineVar, k)
            chead  == <<C!Def(lenEnc, "int64"), C!Def(lenDec, "int64"),
                      C!Def(nonNeg, "int64"), C!Def(lessThan, "int64"),
                      C!Length(lenEnc, a, IF tuple THEN <<>> ELSE <<C!Num(d - 1)>>),
                      C!Op(lenDec, C!Var(lenEnc), ">>", C!Num(1)),
                      C!Op(nonNeg, t, ">=", C!Num(0)),
                      C!Cond(C!Var(nonNeg), below, err),
                      C!Label(below),
                      C!Op(lessThan, t, "<", C!Var(lenDec)),
                      C!Cond(C!Var(lessThan), ok, err),
                      C!Label(err)>>
            cencode == IF IsNum(t) THEN <<>>
                       ELSE <<C!Def(NewVar(n[8]), "int64"),
                              C!Op(NewVar(n[8]), t, "<<", C!Num(1)),
                              C!Op(NewVar(n[8]), C!Var(NewVar(n[8])), "+", C!Num(1))>>
            creport == CASE tuple -> C!Call(C!NoName, C!Name("tuple-error"),
                                            <<C!Var(lineVar), C!Var(lenEnc), index>>)
                        [] C!Rank(C!TypeOf(a)) = 1 -> C!Call(C!NoName, C!Name("tensor-error"),
                                            <<C!Var(lineVar), C!Var(lenEnc), index>>)
                        [] OTHER -> C!Call(C!NoName, C!Name("tensor-error"),
                                    <<C!Var(lineVar), C!Number(d - 1), C!Var(lenEnc), index>>)
            ctail  == <<creport, C!Label(ok)>>
<1>1. c.new = chead \o cencode \o ctail /\ c.counter = n[Len(n)] + 1
  BY DEF C!BoundsCheck, C!Last, C!NewVar, NewVar, C!IsNum, IsNum, C!NoName, NoName, C!Name,
         Name, C!Var, Var
<1>2. chead = head
  BY SameC, MoreSameC
<1>3. cencode = encode
  BY SameC, MoreSameC
<1>4. ctail = tail
  BY SameC, MoreSameC
<1>. DEFINE n1 == n[1]
            n2 == n[2]
            n3 == n[3]
            n4 == n[4]
            n5 == n[5]
            n6 == n[6]
            n7 == n[7]
            last == n[Len(n)]
            w  == Finding("length>>1", a, Num(0), d - 1)
            S5 == A \cup {<<lenDec, w>>, LowOf(t)}
            S7 == A \cup {LowOf(t), HighOf(a, t, d)}
            R  == C!names
<1>5. /\ n1 \in Nat /\ n1 >= k /\ NewVar(n1) \notin R /\ n2 \in Nat /\ NewVar(n2) \notin R
      /\ n3 \in Nat /\ NewVar(n3) \notin R /\ n4 \in Nat /\ NewVar(n4) \notin R
      /\ n5 \in Nat /\ n6 \in Nat /\ n7 \in Nat /\ last \in Nat
      /\ n1 < n2 /\ n2 < n3 /\ n3 < n4 /\ n4 < n5 /\ n5 < n6 /\ n6 < n7 /\ n7 <= last
  <2>1. N \in {7, 8} /\ IsFiniteSet(R)
    OBVIOUS
  <2>2. n = Fresh(R, k, N)
    BY SameFresh
  <2>. HIDE DEF N, n, R
  <2>3. /\ \A q \in 1 .. N : n[q] \in Nat /\ n[q] >= k /\ NewVar(n[q]) \notin R
        /\ n[1] < n[2] /\ n[2] < n[3] /\ n[3] < n[4] /\ n[4] < n[5] /\ n[5] < n[6]
        /\ n[6] < n[7] /\ n[7] <= n[N] /\ Len(n) = N
    BY <2>1, <2>2, NumbersAre
  <2>4. /\ 1 \in 1 .. N /\ 2 \in 1 .. N /\ 3 \in 1 .. N /\ 4 \in 1 .. N /\ 5 \in 1 .. N
        /\ 6 \in 1 .. N /\ 7 \in 1 .. N /\ N \in 1 .. N
    BY <2>1
  <2>. QED BY <2>3, <2>4
<1>. HIDE DEF n1, n2, n3, n4, n5, n6, n7, last
<1>6. /\ lenEnc \notin R /\ lenDec \notin R /\ nonNeg \notin R /\ lessThan \notin R
      /\ lenEnc # NoName /\ lenDec # NoName /\ nonNeg # NoName /\ lessThan # NoName
      /\ lenDec # nonNeg /\ lenDec # lessThan
      /\ lenEnc = NewVar(n1) /\ below = NewVar(n5) /\ err = NewVar(n6) /\ ok = NewVar(n7)
  <2>1. /\ lenEnc = NewVar(n1) /\ lenDec = NewVar(n2) /\ nonNeg = NewVar(n3)
        /\ lessThan = NewVar(n4)
        /\ below = NewVar(n5) /\ err = NewVar(n6) /\ ok = NewVar(n7)
    BY DEF n1, n2, n3, n4, n5, n6, n7
  <2>2. n2 # n3 /\ n2 # n4
    BY <1>5
  <2>. HIDE DEF lenEnc, lenDec, nonNeg, lessThan, R
  <2>. QED BY <1>5, <2>1, <2>2, NamesDiffer
<1>7. Never \notin S5 /\ Never \notin S7
  <2>1. Never \notin A
    BY <1>6, SteadyKept
  <2>2. Never[1] = NoName /\ Never[2].form = "never"
    BY DEF Never, Fact, Finding
  <2>3. LowOf(t)[2].form = ">=" /\ HighOf(a, t, d)[2].form = "<"
    BY DEF LowOf, HighOf, Fact, Finding
  <2>4. lenDec # NoName
    BY <1>6
  <2>. HIDE DEF lenDec, w
  <2>5. <<lenDec, w>>[1] = lenDec
    OBVIOUS
  <2>. QED BY <2>1, <2>2, <2>3, <2>4, <2>5
<1>. HIDE DEF S5, S7
<1>. DEFINE M5 == With(L, n5, S5)
            M6 == With(M5, n6, {})
            M  == With(M6, n7, S7)
<1>8. Adds(M5, L, n5, S5) /\ Adds(M6, M5, n6, {}) /\ Adds(M, M6, n7, S7)
  <2>1. n5 \notin DOMAIN L /\ n6 \notin DOMAIN L /\ n7 \notin DOMAIN L
        /\ n5 # n6 /\ n5 # n7 /\ n6 # n7
    BY <1>5 DEF Below
  <2>2. Adds(M5, L, n5, S5)
    BY <1>7, <2>1, WithIs
  <2>. HIDE DEF M5
  <2>3. n6 \notin DOMAIN M5
    BY <2>1, <2>2 DEF Adds
  <2>4. Adds(M6, M5, n6, {})
    BY <2>3, WithIs
  <2>. HIDE DEF M6
  <2>5. n7 \notin DOMAIN M6
    BY <2>1, <2>2, <2>4 DEF Adds
  <2>6. Adds(M, M6, n7, S7)
    BY <1>7, <2>5, WithIs
  <2>. QED BY <2>2, <2>4, <2>6
<1>. HIDE DEF M5, M6, M
<1>9. /\ Extends(M, L) /\ Below(M, last + 1)
      /\ Placed(M, below) /\ Owed(M, below) = S5 /\ Placed(M, err) /\ Owed(M, err) = {}
      /\ Placed(M, ok) /\ Owed(M, ok) = S7
  <2>1. DOMAIN M = DOMAIN L \cup {n5, n6, n7}
    BY <1>8 DEF Adds
  <2>2. Below(M, last + 1)
    <3>1. ASSUME NEW m \in DOMAIN M PROVE m \in Nat /\ m < last + 1
      BY <1>5, <2>1 DEF Below
    <3>. QED BY <3>1 DEF Below
  <2>3. Extends(M5, L) /\ Extends(M6, M5) /\ Extends(M, M6)
    BY <1>8 DEF Adds
  <2>4. Extends(M6, L) /\ Extends(M, M5) /\ Extends(M, L)
    BY <2>3, ExtendsOn
  <2>5. /\ Placed(M5, NewVar(n5)) /\ Owed(M5, NewVar(n5)) = S5
        /\ Placed(M6, NewVar(n6)) /\ Owed(M6, NewVar(n6)) = {}
        /\ Placed(M, NewVar(n7)) /\ Owed(M, NewVar(n7)) = S7
    BY <1>8 DEF Adds
  <2>6. Placed(M, NewVar(n5)) /\ Owed(M, NewVar(n5)) = S5
    BY <2>4, <2>5, OwedStill
  <2>7. Placed(M, NewVar(n6)) /\ Owed(M, NewVar(n6)) = {}
    BY <2>3, <2>5, OwedStill
  <2>. QED BY <1>6, <2>2, <2>4, <2>5, <2>6, <2>7
<1>10. Leads(M, head, A, {})
  <2>1. (IF ts = <<>> THEN 0 ELSE ts[1].num) = d - 1
    <3>1. CASE tuple
      BY <3>1
    <3>2. CASE ~tuple
      BY <3>2 DEF Num
    <3>. QED BY <3>1, <3>2
  <2>2. /\ a \in R /\ t.name \in R \cup {NoName} /\ Steady(R, A)
    BY DEF R
  <2>3. S5 = A \cup {<<lenDec, w>>, LowOf(t)} /\ S7 = A \cup {LowOf(t), HighOf(a, t, d)}
    BY DEF S5, S7
  <2>. HIDE DEF R, ts, lenEnc, lenDec, nonNeg, lessThan, below, err, ok
  <2>. QED BY <1>6, <1>9, <2>1, <2>2, <2>3, ComparisonsLead, ZenonT(60)
<1>11. IsSeq(head) /\ Links(head)
  <2>. DEFINE e1 == Def(lenEnc, "int64")
              e2 == Def(lenDec, "int64")
              e3 == Def(nonNeg, "int64")
              e4 == Def(lessThan, "int64")
              e5 == Length(lenEnc, a, ts)
              e6 == Op(lenDec, Var(lenEnc), ">>", Num(1))
              e7 == Op(nonNeg, t, ">=", Num(0))
              e8 == Cond(Var(nonNeg), below, err)
              e9 == Label(below)
              e10 == Op(lessThan, t, "<", Var(lenDec))
              e11 == Cond(Var(lessThan), ok, err)
              e12 == Label(err)
              S == {e1, e2, e3, e4, e5, e6, e7, e8, e9, e10, e11, e12}
              s == <<e1, e2, e3, e4, e5, e6, e7, e8, e9, e10, e11, e12>>
  <2>1. s = head
    OBVIOUS
  <2>2. \A x \in S : x.of = 0
    BY InsertedAre
  <2>. HIDE DEF head, e1, e2, e3, e4, e5, e6, e7, e8, e9, e10, e11, e12
  <2>3. s \in Seq(S)
    OBVIOUS
  <2>. HIDE DEF S, s
  <2>4. IsSeq(s) /\ Links(s)
    BY <2>2, <2>3, SeqIsSeq, InsertedLinks
  <2>. QED BY <2>1, <2>4
<1>12. Leads(M, encode, {}, {}) /\ IsSeq(encode) /\ Links(encode)
  <2>. DEFINE q1 == Def(NewVar(n[8]), "int64")
              q2 == Op(NewVar(n[8]), t, "<<", Num(1))
              q3 == Op(NewVar(n[8]), Var(NewVar(n[8])), "+", Num(1))
              S == {q1, q2, q3}
  <2>1. \A x \in S : x.of = 0 /\ x.to = <<>> /\ x.op \in {"def", "assign", "op", "length"}
    BY DEF Def, Op, Instr
  <2>2. encode \in Seq(S)
    <3>1. encode = <<>> \/ encode = <<q1, q2, q3>>
      OBVIOUS
    <3>. HIDE DEF encode, q1, q2, q3
    <3>2. <<>> \in Seq(S) /\ <<q1, q2, q3>> \in Seq(S)
      OBVIOUS
    <3>. HIDE DEF S
    <3>. QED BY <3>1, <3>2
  <2>. HIDE DEF S, encode
  <2>. QED BY <2>1, <2>2, QuietLeads
<1>13. Leads(M, tail, {}, S7) /\ IsSeq(tail) /\ Links(tail)
  <2>1. \E f, args : report = Call(NoName, f, args)
    <3>1. \/ report = Call(NoName, Name("tuple-error"),
                           <<Var(lineVar), Var(lenEnc), index>>)
          \/ report = Call(NoName, Name("tensor-error"),
                           <<Var(lineVar), Var(lenEnc), index>>)
          \/ report = Call(NoName, Name("tensor-error"),
                           <<Var(lineVar), C!Number(d - 1), Var(lenEnc), index>>)
      OBVIOUS
    <3>. HIDE DEF report
    <3>. QED BY <3>1
  <2>. HIDE DEF report
  <2>. DEFINE y == Label(ok)
              q == <<>>
  <2>2. Flows(M, {}, report, S7) /\ Linked(report)
    <3>1. Never \notin S7
      BY <1>7
    <3>2. PICK f, args : report = Call(NoName, f, args)
      BY <2>1
    <3>. QED BY <3>1, <3>2, CallFlows, InsertedAre DEF Linked
  <2>3. Flows(M, S7, y, S7) /\ Linked(y)
    <3>1. y.of = 0
      BY InsertedAre
    <3>. HIDE DEF y, ok
    <3>. QED BY <1>9, <3>1, ControlFlows DEF y, Linked
  <2>. HIDE DEF y
  <2>4. Leads(M, q, {}, {}) /\ IsSeq(q) /\ Links(q)
    BY LeadsNowhere, TuplesAre DEF Links
  <2>5. q \o <<report, y>> = <<report, y>> /\ IsSeq(<<report, y>>)
    BY TuplesAre
  <2>. HIDE DEF q
  <2>6. Leads(M, q \o <<report, y>>, {}, S7) /\ Links(q \o <<report, y>>)
    BY <2>2, <2>3, <2>4, TwoMore
  <2>. QED BY <2>5, <2>6 DEF y
<1>. HIDE DEF head, encode, tail
<1>14. Leads(M, head \o encode, A, {}) /\ IsSeq(head \o encode) /\ Links(head \o encode)
  BY <1>10, <1>11, <1>12, LeadsOn, Joined, LinksJoined
<1>. DEFINE h == head \o encode
<1>15. Leads(M, h \o tail, A, S7) /\ IsSeq(h \o tail) /\ Links(h \o tail)
  <2>1. Leads(M, h, A, {}) /\ IsSeq(h) /\ Links(h)
    BY <1>14
  <2>. HIDE DEF h
  <2>. QED BY <1>13, <2>1, LeadsOn, Joined, LinksJoined
<1>16. c.new = h \o tail /\ c.counter = last + 1
  <2>. HIDE DEF c, chead, cencode, ctail
  <2>. QED BY <1>1, <1>2, <1>3, <1>4 DEF last
<1>17. last + 1 \in Nat /\ last + 1 >= k
  BY <1>5
<1>. HIDE DEF c, h
<1>18. Leads(M, c.new, A, A \cup {LowOf(t), HighOf(a, t, d)})
  BY <1>15, <1>16 DEF S7
<1>19. c.counter \in Nat /\ c.counter >= k /\ IsSeq(c.new) /\ Links(c.new)
       /\ Below(M, c.counter)
  BY <1>9, <1>15, <1>16, <1>17
<1>. QED BY <1>9, <1>18, <1>19 DEF c

(* The code c.new, with numbers up to c.counter, leads from A to B.        *)
Proves(c, k, L, A, B) ==
    /\ c.counter \in Nat /\ c.counter >= k /\ IsSeq(c.new) /\ Links(c.new)
    /\ \E M : Extends(M, L) /\ Below(M, c.counter) /\ Leads(M, c.new, A, B)

(* Code that proves goes on with code that proves more.                    *)
LEMMA ProvesOn ==
    ASSUME NEW k \in Nat, NEW L, NEW A, NEW B, NEW D, NEW p, Proves(p, k, L, A, B), NEW q,
           \A M : Below(M, p.counter) => Proves(q, p.counter, M, B, D)
    PROVE  Proves([new |-> p.new \o q.new, counter |-> q.counter], k, L, A, D)
<1>. DEFINE c == p.new
            d == q.new
            m == q.counter
            r == [new |-> c \o d, counter |-> m]
<1>1. PICK M : Extends(M, L) /\ Below(M, p.counter) /\ Leads(M, c, A, B)
  BY DEF Proves
<1>2. Proves(q, p.counter, M, B, D)
  BY <1>1
<1>3. PICK N : Extends(N, M) /\ Below(N, m) /\ Leads(N, d, B, D)
  BY <1>2 DEF Proves
<1>4. IsSeq(c) /\ IsSeq(d) /\ Links(c) /\ Links(d) /\ m \in Nat /\ m >= k
  BY <1>2 DEF Proves
<1>5. r.new = c \o d /\ r.counter = m
  OBVIOUS
<1>. HIDE DEF c, d, m, r
<1>6. Leads(N, c, A, B) /\ Extends(N, L)
  BY <1>1, <1>3, LeadsStill, ExtendsOn
<1>7. Leads(N, c \o d, A, D) /\ IsSeq(c \o d) /\ Links(c \o d)
  BY <1>3, <1>4, <1>6, LeadsOn, Joined, LinksJoined
<1>8. Proves(r, k, L, A, D)
  BY <1>3, <1>4, <1>5, <1>6, <1>7 DEF Proves
<1>. QED BY <1>8 DEF r, c, d, m

(* The first n terms are within the bounds of a.                           *)
Compared(a, terms, n) == UNION {{LowOf(terms[d]), HighOf(a, terms[d], d)} : d \in 1 .. n}

(* With one more term, two comparisons more are known.                     *)
LEMMA ComparedIs ==
    ASSUME NEW a, NEW terms, NEW n \in Nat
    PROVE  /\ Compared(a, terms, 0) = {}
           /\ n > 0 => Compared(a, terms, n) =
                Compared(a, terms, n - 1) \cup {LowOf(terms[n]), HighOf(a, terms[n], n)}
<1>1. Compared(a, terms, 0) = {}
  BY DEF Compared
<1>2. n > 0 => 1 .. n = (1 .. n - 1) \cup {n}
  OBVIOUS
<1>. QED BY <1>1, <1>2 DEF Compared

(* Comparisons of names in R are about names in R.                         *)
LEMMA ComparedSteady ==
    ASSUME NEW R, NEW A, Steady(R, A), NEW a \in R, NEW terms, NEW n \in Nat,
           \A d \in 1 .. n : terms[d].name \in R \cup {NoName}
    PROVE  Steady(R, A \cup Compared(a, terms, n))
<1>1. ASSUME NEW d \in 1 .. n
      PROVE  \A c \in {LowOf(terms[d]), HighOf(a, terms[d], d)} :
               \E v : /\ c = Fact(v) /\ v.form # "never"
                      /\ v = Finding(v.form, v.base, v.arg, v.dim)
                      /\ v.base \in R \cup {NoName} /\ v.arg.name \in R \cup {NoName}
  <2>. DEFINE lo == Finding(">=", NoName, terms[d], 0)
              hi == Finding("<", a, terms[d], d - 1)
  <2>1. lo.form = ">=" /\ lo.base = NoName /\ lo.arg = terms[d] /\ lo.dim = 0
    BY DEF Finding
  <2>2. hi.form = "<" /\ hi.base = a /\ hi.arg = terms[d] /\ hi.dim = d - 1
    BY DEF Finding
  <2>3. lo = Finding(lo.form, lo.base, lo.arg, lo.dim)
        /\ hi = Finding(hi.form, hi.base, hi.arg, hi.dim)
    BY <2>1, <2>2
  <2>. HIDE DEF lo, hi
  <2>4. LowOf(terms[d]) = Fact(lo) /\ HighOf(a, terms[d], d) = Fact(hi)
    BY DEF LowOf, HighOf, lo, hi
  <2>. QED BY <2>1, <2>2, <2>3, <2>4
<1>. QED BY <1>1 DEF Steady, Compared

(* All indices have been compared once they have been checked.             *)
LEMMA BoundsChecksLead ==
    ASSUME IsFiniteSet(C!names), NEW k \in Nat, NEW a, a \in C!names, NEW terms, IsSeq(terms),
           \A d \in DOMAIN terms : terms[d].name \in C!names \cup {NoName},
           C!TypeOf(a) = "tuple" => Len(terms) <= 1,
           NEW L, Below(L, k), NEW A, Steady(C!names, A)
    PROVE  Proves(C!BoundsChecks(a, terms, k), k, L, A, A \cup Compared(a, terms, Len(terms)))
<1>. DEFINE N == Len(terms)
            R == C!names
            F == C!Fresh(R, k, 1)
            lineNo == F[1]
            x == NewVar(lineNo)
            e1 == C!Def(C!NewVar(lineNo), "int64")
            e2 == C!Assign(C!NewVar(lineNo), C!Number(C!line))
            two == <<e1, e2>>
            start == [new |-> two, counter |-> lineNo + 1]
            check(p, d) == C!BoundsCheck(a, d, terms[d], C!NewVar(lineNo), p.counter)
            nextOf(p, d) == [new |-> p.new \o check(p, d).new, counter |-> check(p, d).counter]
            B(d) == A \cup Compared(a, terms, d)
<1>0. N \in Nat /\ DOMAIN terms = 1 .. N
  BY IsSeqIs
<1>1. lineNo \in Nat /\ lineNo >= k /\ x \notin R
  <2>. DEFINE f == Fresh(R, k, 1)
  <2>1. IsFiniteSet(R) /\ 1 \in Nat /\ 1 \in 1 .. 1
    OBVIOUS
  <2>2. F = f
    BY SameFresh
  <2>. HIDE DEF R
  <2>3. \A c \in 1 .. 1 : f[c] \in Nat /\ f[c] >= k /\ NewVar(f[c]) \notin R
    BY <2>1, FreshIs
  <2>. HIDE DEF f, F
  <2>. QED BY <2>1, <2>2, <2>3
<1>. HIDE DEF F
<1>2. Proves(start, k, L, A, B(0))
  <2>1. x # NoName /\ B(0) = A
    BY <1>0, NamesDiffer, ComparedIs
  <2>2. \A J : A \subseteq J => A \subseteq Keep(J, x)
    BY <1>1, <2>1, SteadyKept
  <2>3. e1 = Def(x, "int64") /\ e2 = Assign(x, C!Number(C!line))
    BY SameC, MoreSameC
  <2>4. Flows(L, A, e1, A) /\ Flows(L, A, e2, A) /\ Linked(e1) /\ Linked(e2)
    BY <2>2, <2>3, InsertedFlows, InsertedAre DEF Linked
  <2>5. start.new = two /\ start.counter = lineNo + 1
    OBVIOUS
  <2>. DEFINE q == <<>>
  <2>. HIDE DEF e1, e2, start
  <2>6. Leads(L, q, A, A) /\ IsSeq(q) /\ Links(q) /\ q \o two = two
    BY LeadsNowhere, TuplesAre DEF Links
  <2>7. IsSeq(two)
    BY TuplesAre
  <2>. HIDE DEF q
  <2>8. Leads(L, q \o two, A, A) /\ Links(q \o two)
    BY <2>4, <2>6, TwoMore
  <2>. HIDE DEF two
  <2>9. Extends(L, L) /\ Below(L, lineNo + 1) /\ lineNo + 1 \in Nat /\ lineNo + 1 >= k
    <3>1. \A m \in Nat : m < k => m < lineNo + 1
      BY <1>1
    <3>. QED BY <1>1, <3>1 DEF Extends, Below
  <2>10. Leads(L, two, A, B(0)) /\ Links(two) /\ IsSeq(two)
    BY <2>1, <2>6, <2>7, <2>8
  <2>. HIDE DEF B
  <2>. QED BY <2>5, <2>9, <2>10 DEF Proves
<1>3. ASSUME NEW d \in 1 .. N, NEW p, Proves(p, k, L, A, B(d - 1))
      PROVE  Proves(nextOf(p, d), k, L, A, B(d))
  <2>. DEFINE t == terms[d]
              m == p.counter
  <2>1. d \in Nat /\ d - 1 \in Nat /\ \A e \in 1 .. d - 1 : e \in DOMAIN terms
    BY <1>0
  <2>2. Steady(R, B(d - 1))
    <3>. DEFINE q == d - 1
    <3>1. \A e \in 1 .. q : terms[e].name \in R \cup {NoName}
      BY <2>1
    <3>2. q \in Nat
      BY <2>1
    <3>. HIDE DEF q, R
    <3>3. Steady(R, A \cup Compared(a, terms, q))
      BY <3>1, <3>2, ComparedSteady DEF R
    <3>. QED BY <3>3 DEF q
  <2>3. m \in Nat
    BY <1>3 DEF Proves
  <2>4. t.name \in R \cup {NoName} /\ (C!TypeOf(a) = "tuple" => d = 1)
    BY <1>0
  <2>5. B(d) = B(d - 1) \cup {LowOf(t), HighOf(a, t, d)}
    <3>1. d > 0
      OBVIOUS
    <3>2. Compared(a, terms, d) = Compared(a, terms, d - 1) \cup {LowOf(t), HighOf(a, t, d)}
      BY <2>1, <3>1, ComparedIs
    <3>. QED BY <3>2
  <2>6. ASSUME NEW M, Below(M, m) PROVE Proves(check(p, d), m, M, B(d - 1), B(d))
    <3>. DEFINE lv == C!NewVar(lineNo)
                A0 == B(d - 1)
                c0 == C!BoundsCheck(a, d, t, lv, m)
    <3>1. Steady(C!names, A0)
      BY <2>2
    <3>. HIDE DEF A0, m, t, lv
    <3>2. LET c == C!BoundsCheck(a, d, t, lv, m)
          IN  /\ c.counter \in Nat /\ c.counter >= m /\ IsSeq(c.new) /\ Links(c.new)
              /\ \E J : /\ Extends(J, M) /\ Below(J, c.counter)
                        /\ Leads(J, c.new, A0, A0 \cup {LowOf(t), HighOf(a, t, d)})
      BY <2>1, <2>3, <2>4, <2>6, <3>1, BoundsCheckLeads
    <3>. HIDE DEF c0
    <3>3. /\ c0.counter \in Nat /\ c0.counter >= m /\ IsSeq(c0.new) /\ Links(c0.new)
          /\ \E J : /\ Extends(J, M) /\ Below(J, c0.counter)
                    /\ Leads(J, c0.new, A0, A0 \cup {LowOf(t), HighOf(a, t, d)})
      BY <3>2 DEF c0
    <3>4. B(d) = A0 \cup {LowOf(t), HighOf(a, t, d)}
      BY <2>5 DEF A0
    <3>. HIDE DEF B
    <3>5. Proves(c0, m, M, A0, B(d))
      BY <3>3, <3>4 DEF Proves
    <3>. QED BY <3>5 DEF c0, A0, m, t, lv
  <2>. DEFINE q == check(p, d)
  <2>. HIDE DEF B, check, t
  <2>. QED BY <1>3, <2>6, ProvesOn
<1>4. PICK after : /\ OneByOne(a, terms, k, after)
                   /\ C!BoundsChecks(a, terms, k) = after[N]
  BY BoundsChecksAre
<1>5. after[0] = start /\ \A d \in 1 .. N : after[d] = nextOf(after[d - 1], d)
  BY <1>4 DEF OneByOne, F
<1>. HIDE DEF N, start, nextOf, B
<1>6. \A d \in 0 .. N : Proves(after[d], k, L, A, B(d))
  <2>. DEFINE wrong == {d \in 0 .. N : ~Proves(after[d], k, L, A, B(d))}
  <2>. SUFFICES ASSUME wrong # {} PROVE FALSE
    OBVIOUS
  <2>1. wrong \subseteq Nat
    BY <1>0
  <2>2. PICK d \in wrong : \A m \in wrong : d <= m
    <3>. HIDE DEF wrong
    <3>. QED BY <2>1, HasLeast
  <2>3. d \in 0 .. N /\ d \in Nat /\ ~Proves(after[d], k, L, A, B(d))
    BY <1>0
  <2>4. d # 0
    BY <1>2, <1>5, <2>3
  <2>5. d - 1 \in 0 .. N /\ d \in 1 .. N /\ ~(d <= d - 1)
    BY <1>0, <2>3, <2>4
  <2>6. Proves(after[d - 1], k, L, A, B(d - 1))
    <3>1. d - 1 \notin wrong
      <4>. HIDE DEF wrong
      <4>. QED BY <2>2, <2>5
    <3>. QED BY <2>5, <3>1
  <2>7. Proves(nextOf(after[d - 1], d), k, L, A, B(d))
    BY <1>3, <2>5, <2>6
  <2>. QED BY <1>5, <2>3, <2>5, <2>7
<1>7. Proves(C!BoundsChecks(a, terms, k), k, L, A, B(N))
  BY <1>0, <1>4, <1>6
<1>. QED BY <1>7 DEF B, N

-----------------------------------------------------------------------------
(* The source, and the code encode_decode_values makes of it.              *)
Writers == {"def", "assign", "op", "load", "length", "alloc"}

SourceOk ==
    /\ IsSeq(fun.params) /\ IsCode(fun.body)
    /\ \A k \in DOMAIN fun.body :
         LET s == fun.body[k]
         IN  /\ s.of = k
             /\ s.op \in Writers => s.dst # NoName
             /\ s.op \in Accesses => s.base # NoName
             /\ s.op \in {"load", "store"} =>
                  /\ TypesOf(fun, s.base) # {}
                  /\ \/ TypesOf(fun, s.base) \subseteq {"int64[]", "int64[][]"}
                     \/ TypesOf(fun, s.base) = {"tuple"} /\ Len(Indices(s)) = 1
             /\ \A l \in Range(s.to) : l[1] # "new_var"
             /\ s.op = "label" => 1 \in DOMAIN s.to

(* The functions compiled are like this.                                   *)
LEMMA SourceOkStart ==
    ASSUME Init
    PROVE  SourceOk
<1>1. PICK f \in Sources : fun = [f EXCEPT !.body = [k \in DOMAIN f.body |->
                                                       [f.body[k] EXCEPT !.of = k]]]
  BY DEF Init
<1>. DEFINE b == f.body
            g == fun.body
<1>2. /\ DOMAIN f = {"params", "returns", "body"} /\ b \in Seq(Instructions)
      /\ f.params \in Seq([name : Names, type : STRING])
  BY SourcesAssumption
<1>3. g = [k \in DOMAIN b |-> [b[k] EXCEPT !.of = k]] /\ fun.params = f.params
  <2>. HIDE DEF b
  <2>. QED BY <1>1, <1>2 DEF b
<1>4. IsCode(g)
  <2>1. Passed(code, out, i, {}) /\ code = g
    BY SourceIs DEF Init
  <2>. QED BY <2>1 DEF Passed
<1>5. IsSeq(fun.params)
  BY <1>2, <1>3, SeqIsSeq
<1>6. \A k \in DOMAIN b : LET s == b[k]
        IN  /\ s.op \in Writers => s.dst # NoName
            /\ s.op \in Accesses => s.base # NoName
            /\ s.op \in {"load", "store"} =>
                 /\ TypesOf(f, s.base) # {}
                 /\ \/ TypesOf(f, s.base) \subseteq {"int64[]", "int64[][]"}
                    \/ TypesOf(f, s.base) = {"tuple"} /\ Len(Indices(s)) = 1
            /\ \A l \in Range(s.to) : l[1] # "new_var"
            /\ s.op = "label" => s.to # <<>>
  BY AccessesAssumption DEF Writers
<1>. HIDE DEF b, g
<1>7. DOMAIN g = DOMAIN b /\ \A k \in DOMAIN b : b[k] \in Instructions
  BY <1>2, <1>3
<1>8. \A k \in DOMAIN b :
        /\ g[k].op = b[k].op /\ g[k].kind = b[k].kind /\ g[k].dst = b[k].dst
        /\ g[k].base = b[k].base /\ g[k].args = b[k].args /\ g[k].to = b[k].to
        /\ g[k].of = k /\ b[k].to \in Seq(Names)
  <2>. TAKE k \in DOMAIN b
  <2>1. DOMAIN b[k] = Fields /\ b[k].to \in Seq(Names)
    BY <1>7 DEF Instructions, Fields
  <2>2. g[k] = [b[k] EXCEPT !.of = k]
    BY <1>3
  <2>. QED BY <2>1, <2>2 DEF Fields
<1>9. \A x : TypesOf(fun, x) = TypesOf(f, x)
  <2>. TAKE x
  <2>1. fun.body = g /\ f.body = b
    BY DEF g, b
  <2>2. {k \in DOMAIN g : g[k].op = "def" /\ g[k].dst = x}
          = {k \in DOMAIN b : b[k].op = "def" /\ b[k].dst = x}
    BY <1>7, <1>8
  <2>3. {g[k].kind : k \in {m \in DOMAIN g : g[m].op = "def" /\ g[m].dst = x}}
          = {b[k].kind : k \in {m \in DOMAIN b : b[m].op = "def" /\ b[m].dst = x}}
    BY <1>8, <2>2
  <2>. QED BY <1>3, <2>1, <2>3 DEF TypesOf
<1>10. \A k \in DOMAIN b : Indices(g[k]) = Indices(b[k])
  BY <1>8 DEF Indices
<1>11. \A k \in DOMAIN b : b[k].to # <<>> => 1 \in DOMAIN b[k].to
  BY <1>8
<1>12. \A k \in DOMAIN g :
         LET s == g[k]
         IN  /\ s.of = k
             /\ s.op \in Writers => s.dst # NoName
             /\ s.op \in Accesses => s.base # NoName
             /\ s.op \in {"load", "store"} =>
                  /\ TypesOf(fun, s.base) # {}
                  /\ \/ TypesOf(fun, s.base) \subseteq {"int64[]", "int64[][]"}
                     \/ TypesOf(fun, s.base) = {"tuple"} /\ Len(Indices(s)) = 1
             /\ \A l \in Range(s.to) : l[1] # "new_var"
             /\ s.op = "label" => 1 \in DOMAIN s.to
  <2>. SUFFICES ASSUME NEW k \in DOMAIN b
                PROVE  LET s == g[k]
                       IN  /\ s.of = k
                           /\ s.op \in Writers => s.dst # NoName
                           /\ s.op \in Accesses => s.base # NoName
                           /\ s.op \in {"load", "store"} =>
                                /\ TypesOf(fun, s.base) # {}
                                /\ \/ TypesOf(fun, s.base) \subseteq {"int64[]", "int64[][]"}
                                   \/ TypesOf(fun, s.base) = {"tuple"} /\ Len(Indices(s)) = 1
                           /\ \A l \in Range(s.to) : l[1] # "new_var"
                           /\ s.op = "label" => 1 \in DOMAIN s.to
    BY <1>7
  <2>. DEFINE u == b[k]
              w == g[k]
  <2>1. /\ u.op \in Writers => u.dst # NoName
        /\ u.op \in Accesses => u.base # NoName
        /\ u.op \in {"load", "store"} =>
             /\ TypesOf(f, u.base) # {}
             /\ \/ TypesOf(f, u.base) \subseteq {"int64[]", "int64[][]"}
                \/ TypesOf(f, u.base) = {"tuple"} /\ Len(Indices(u)) = 1
        /\ \A l \in Range(u.to) : l[1] # "new_var"
        /\ u.op = "label" => u.to # <<>>
    BY <1>6
  <2>2. /\ w.op = u.op /\ w.dst = u.dst /\ w.base = u.base /\ w.to = u.to /\ w.of = k
        /\ Indices(w) = Indices(u) /\ (u.to # <<>> => 1 \in DOMAIN u.to)
        /\ TypesOf(fun, u.base) = TypesOf(f, u.base)
    BY <1>8, <1>9, <1>10, <1>11
  <2>. HIDE DEF u, w
  <2>3. /\ w.of = k
        /\ w.op \in Writers => w.dst # NoName
        /\ w.op \in Accesses => w.base # NoName
        /\ w.op \in {"load", "store"} =>
             /\ TypesOf(fun, w.base) # {}
             /\ \/ TypesOf(fun, w.base) \subseteq {"int64[]", "int64[][]"}
                \/ TypesOf(fun, w.base) = {"tuple"} /\ Len(Indices(w)) = 1
        /\ \A l \in Range(w.to) : l[1] # "new_var"
        /\ w.op = "label" => 1 \in DOMAIN w.to
    BY <2>1, <2>2
  <2>. QED BY <2>3 DEF w
<1>. QED BY <1>4, <1>5, <1>12 DEF SourceOk, g

(* The elements of two sequences, one after the other.                     *)
LEMMA RangesAre ==
    /\ \A r, s : IsSeq(r) /\ IsSeq(s) => Range(r \o s) = Range(r) \cup Range(s)
    /\ Range(<<>>) = {}
    /\ \A a : Range(<<a>>) = {a}
    /\ \A a, b : Range(<<a, b>>) = {a, b}
    /\ \A a, b, c, d : Range(<<a, b, c, d>>) = {a, b, c, d}
<1>1. ASSUME NEW r, NEW s, IsSeq(r), IsSeq(s)
      PROVE  Range(r \o s) = Range(r) \cup Range(s)
  <2>. DEFINE t == r \o s
  <2>1. /\ IsSeq(t) /\ Len(t) = Len(r) + Len(s) /\ Len(r) \in Nat /\ Len(s) \in Nat
        /\ \A k \in 1 .. Len(r) + Len(s) : t[k] = IF k <= Len(r) THEN r[k] ELSE s[k - Len(r)]
    BY <1>1, Joined
  <2>. HIDE DEF t
  <2>2. DOMAIN r = 1 .. Len(r) /\ DOMAIN s = 1 .. Len(s) /\ DOMAIN t = 1 .. Len(r) + Len(s)
    BY <1>1, <2>1, IsSeqIs
  <2>3. \A k \in DOMAIN t : t[k] \in Range(r) \cup Range(s)
    <3>1. ASSUME NEW k \in DOMAIN t PROVE t[k] \in Range(r) \cup Range(s)
      <4>1. CASE k <= Len(r)
        <5>1. k \in DOMAIN r /\ t[k] = r[k]
          BY <2>1, <2>2, <4>1
        <5>. QED BY <5>1 DEF Range
      <4>2. CASE ~(k <= Len(r))
        <5>1. k - Len(r) \in DOMAIN s /\ t[k] = s[k - Len(r)]
          BY <2>1, <2>2, <4>2
        <5>. QED BY <5>1 DEF Range
      <4>. QED BY <4>1, <4>2
    <3>. QED BY <3>1
  <2>4. \A k \in DOMAIN r : r[k] \in Range(t)
    <3>1. ASSUME NEW k \in DOMAIN r PROVE r[k] \in Range(t)
      <4>1. k \in DOMAIN t /\ t[k] = r[k]
        BY <2>1, <2>2
      <4>. QED BY <4>1 DEF Range
    <3>. QED BY <3>1
  <2>5. \A k \in DOMAIN s : s[k] \in Range(t)
    <3>1. ASSUME NEW k \in DOMAIN s PROVE s[k] \in Range(t)
      <4>. DEFINE q == Len(r) + k
      <4>1. q \in DOMAIN t /\ q \in 1 .. Len(r) + Len(s) /\ ~(q <= Len(r)) /\ q - Len(r) = k
        BY <2>1, <2>2
      <4>. HIDE DEF q
      <4>2. t[q] = s[k]
        BY <2>1, <4>1
      <4>. QED BY <4>1, <4>2 DEF Range
    <3>. QED BY <3>1
  <2>6. Range(t) \subseteq Range(r) \cup Range(s)
    <3>. DEFINE U == Range(r) \cup Range(s)
    <3>. HIDE DEF U
    <3>. QED BY <2>3 DEF Range, U
  <2>7. Range(r) \subseteq Range(t) /\ Range(s) \subseteq Range(t)
    <3>. DEFINE U == Range(t)
    <3>1. (\A k \in DOMAIN r : r[k] \in U) /\ (\A k \in DOMAIN s : s[k] \in U)
      BY <2>4, <2>5
    <3>. HIDE DEF U
    <3>2. Range(r) \subseteq U /\ Range(s) \subseteq U
      BY <3>1 DEF Range
    <3>. QED BY <3>2 DEF U
  <2>8. Range(t) = Range(r) \cup Range(s)
    BY <2>6, <2>7
  <2>. QED BY <2>8 DEF t
<1>2. Range(<<>>) = {}
  BY DEF Range
<1>3. ASSUME NEW a PROVE Range(<<a>>) = {a}
  <2>. DEFINE t == <<a>>
  <2>1. DOMAIN t = {1} /\ t[1] = a
    OBVIOUS
  <2>. HIDE DEF t
  <2>2. Range(t) = {a}
    BY <2>1 DEF Range
  <2>. QED BY <2>2 DEF t
<1>4. ASSUME NEW a, NEW b PROVE Range(<<a, b>>) = {a, b}
  <2>. DEFINE t == <<a, b>>
  <2>1. DOMAIN t = {1, 2} /\ t[1] = a /\ t[2] = b
    OBVIOUS
  <2>. HIDE DEF t
  <2>2. Range(t) = {a, b}
    BY <2>1 DEF Range
  <2>. QED BY <2>2 DEF t
<1>5. ASSUME NEW a, NEW b, NEW c, NEW d PROVE Range(<<a, b, c, d>>) = {a, b, c, d}
  <2>. DEFINE t == <<a, b, c, d>>
  <2>1. DOMAIN t = {1, 2, 3, 4} /\ t[1] = a /\ t[2] = b /\ t[3] = c /\ t[4] = d
    OBVIOUS
  <2>. HIDE DEF t
  <2>2. Range(t) = {a, b, c, d}
    BY <2>1 DEF Range
  <2>. QED BY <2>2 DEF t
<1>. QED BY <1>1, <1>2, <1>3, <1>4, <1>5

(* The reserved names are finitely many.                                   *)
LEMMA RangeFinite ==
    ASSUME NEW S, IsFiniteSet(S), NEW f, DOMAIN f = S
    PROVE  IsFiniteSet({f[x] : x \in S})
<1>. DEFINE T == {f[x] : x \in S}
            g == [x \in S |-> f[x]]
<1>1. g \in [S -> T] /\ \A t \in T : \E x \in S : g[x] = t
  OBVIOUS
<1>. HIDE DEF T, g
<1>2. g \in Surjection(S, T)
  BY <1>1 DEF Surjection
<1>3. IsFiniteSet(T)
  BY <1>2, FS_Surjection
<1>. QED BY <1>3 DEF T

(* A sequence has finitely many places.                                    *)
LEMMA SeqFinite ==
    ASSUME NEW s, IsSeq(s)
    PROVE  IsFiniteSet(DOMAIN s)
<1>. DEFINE n == Len(s)
<1>1. n \in Nat /\ DOMAIN s = 1 .. n
  BY IsSeqIs
<1>. HIDE DEF n
<1>2. 1 \in Int /\ n \in Int
  BY <1>1
<1>3. IsFiniteSet(1 .. n)
  BY <1>2, FS_Interval
<1>. QED BY <1>1, <1>3

(* Code has finitely many names.                                           *)
LEMMA ReservedFinite ==
    ASSUME NEW p, IsSeq(p), NEW c, IsCode(c)
    PROVE  IsFiniteSet(Reserved(p, c))
<1>1. ASSUME NEW t, IsSeq(t) PROVE IsFiniteSet({t[j].name : j \in DOMAIN t})
  <2>. DEFINE S == DOMAIN t
              f == [j \in S |-> t[j].name]
  <2>1. IsFiniteSet(S) /\ DOMAIN f = S
    BY <1>1, SeqFinite
  <2>2. {f[j] : j \in S} = {t[j].name : j \in DOMAIN t}
    OBVIOUS
  <2>. HIDE DEF S, f
  <2>3. IsFiniteSet({f[j] : j \in S})
    BY <2>1, RangeFinite
  <2>. QED BY <2>2, <2>3
<1>2. \A S, T : IsFiniteSet(S) => IsFiniteSet(S \ T)
  BY FS_Subset
<1>. DEFINE D == DOMAIN c
            u(j) == Reads(c[j]) \cup ({Written(c[j])} \ {NoName})
            U == {u(j) : j \in D}
<1>3. \A j \in D : IsFiniteSet(u(j))
  <2>. TAKE j \in D
  <2>. DEFINE A == {c[j].args[k].name : k \in DOMAIN c[j].args}
              B == {c[j].base}
              W == {Written(c[j])}
  <2>1. IsSeq(c[j].args)
    BY DEF IsCode
  <2>2. IsFiniteSet(A)
    BY <1>1, <2>1
  <2>3. IsFiniteSet(B) /\ IsFiniteSet(W)
    BY FS_Singleton
  <2>4. u(j) = ((A \ {NoName}) \cup (B \ {NoName})) \cup (W \ {NoName})
    BY DEF Reads, NamesOf
  <2>. HIDE DEF A, B, W, u
  <2>5. IsFiniteSet(A \ {NoName}) /\ IsFiniteSet(B \ {NoName}) /\ IsFiniteSet(W \ {NoName})
    BY <1>2, <2>2, <2>3
  <2>6. IsFiniteSet((A \ {NoName}) \cup (B \ {NoName}))
    BY <2>5, FS_Union
  <2>7. IsFiniteSet(((A \ {NoName}) \cup (B \ {NoName})) \cup (W \ {NoName}))
    BY <2>5, <2>6, FS_Union
  <2>. QED BY <2>4, <2>7
<1>4. IsFiniteSet(U)
  <2>. DEFINE f == [j \in D |-> u(j)]
  <2>1. IsFiniteSet(D) /\ DOMAIN f = D
    BY SeqFinite DEF IsCode
  <2>2. {f[j] : j \in D} = U
    BY Zenon
  <2>. HIDE DEF D, f, U
  <2>3. IsFiniteSet({f[j] : j \in D})
    BY <2>1, RangeFinite
  <2>. QED BY <2>2, <2>3
<1>5. \A T \in U : IsFiniteSet(T)
  BY <1>3
<1>6. IsFiniteSet(UNION U)
  <2>. HIDE DEF U
  <2>. QED BY <1>4, <1>5, FS_UNION
<1>7. IsFiniteSet({p[j].name : j \in DOMAIN p})
  BY <1>1
<1>8. Reserved(p, c) = {p[j].name : j \in DOMAIN p} \cup UNION U
  BY DEF Reserved
<1>. HIDE DEF U
<1>. QED BY <1>6, <1>7, <1>8, FS_Union

(* What encode_decode_values makes of the source: an instruction stands    *)
(* for one of the source, or declares or computes; what it declares is of  *)
(* the type the source says, if it is a name of the source.                *)
IsEncoding(x) ==
    /\ Linked(x)
    /\ \A l \in Range(x.to) : l[1] # "new_var"
    /\ x.op = "label" => 1 \in DOMAIN x.to
    /\ x.op \in Writers => x.dst # NoName
    /\ x.of = 0 => x.op \in {"def", "op"}
    /\ x.op \in Accesses => /\ x.base = fun.body[x.of].base
                            /\ Len(Indices(x)) = Len(Indices(fun.body[x.of]))
    /\ x.op = "def" => \/ x.dst \notin Reserved(fun.params, fun.body)
                       \/ x.kind \in TypesOf(fun, x.dst)

(* The declarations before the n-th instruction are still there.           *)
Declared(c, n) ==
    \A k \in DOMAIN fun.body : k < n /\ fun.body[k].op = "def" =>
        \E x \in Range(c) : x.op = "def" /\ x.dst = fun.body[k].dst

EncodingOk ==
    stage = "encode" =>
        /\ code = fun.body /\ counter \in Nat
        /\ \A x \in Range(out) : IsEncoding(x)
        /\ Declared(out, i)

(* One instruction of the source is passed.                                *)
LEMMA EncodingGrows ==
    ASSUME EncodingOk, stage = "encode", stage' = stage, code' = code, fun' = fun,
           i \in Nat, i' = i + 1, counter' \in Nat, IsSeq(out), NEW s, IsSeq(s), out' = out \o s,
           IsSeq(code),
           \A x \in Range(s) : IsEncoding(x),
           code[i].op = "def" => \E x \in Range(s) : x.op = "def" /\ x.dst = code[i].dst
    PROVE  EncodingOk'
<1>1. Range(out') = Range(out) \cup Range(s)
  BY RangesAre
<1>2. \A x : IsEncoding(x)' <=> IsEncoding(x)
  BY DEF IsEncoding, Linked
<1>3. \A x \in Range(out') : IsEncoding(x)'
  BY <1>1, <1>2 DEF EncodingOk
<1>4. ASSUME NEW k \in DOMAIN fun.body, k < i + 1, fun.body[k].op = "def"
      PROVE  \E x \in Range(out') : x.op = "def" /\ x.dst = fun.body[k].dst
  <2>1. CASE k = i
    BY <1>1, <1>4, <2>1 DEF EncodingOk
  <2>2. CASE k # i
    <3>1. k < i
      <4>1. k \in Int
        BY <1>4, IsSeqIs DEF EncodingOk
      <4>. QED BY <1>4, <2>2, <4>1
    <3>. QED BY <1>1, <1>4, <3>1 DEF EncodingOk, Declared
  <2>. QED BY <2>1, <2>2
<1>5. Declared(out, i)'
  BY <1>4 DEF Declared
<1>. QED BY <1>3, <1>5 DEF EncodingOk

(* What the pass makes up is an encoding.                                  *)
LEMMA MadeIs ==
    /\ \A x, type : x # NoName /\ x \notin Reserved(fun.params, fun.body)
                      => IsEncoding(Def(x, type))
    /\ \A x, l, o, r : x # NoName => IsEncoding(Op(x, l, o, r))
<1>1. Range(<<>>) = {}
  BY RangesAre
<1>2. ASSUME NEW y, y.of = 0, y.to = <<>>, y.op \in {"def", "op"}, y.dst # NoName,
             y.op = "def" => y.dst \notin Reserved(fun.params, fun.body)
      PROVE  IsEncoding(y)
  BY <1>1, <1>2 DEF IsEncoding, Linked, Accesses
<1>3. ASSUME NEW x, NEW type, x # NoName, x \notin Reserved(fun.params, fun.body)
      PROVE  IsEncoding(Def(x, type))
  <2>. DEFINE y == Def(x, type)
  <2>1. y.of = 0 /\ y.to = <<>> /\ y.op = "def" /\ y.dst = x
    BY DEF Def, Instr
  <2>. HIDE DEF y
  <2>2. IsEncoding(y)
    BY <1>2, <1>3, <2>1
  <2>. QED BY <2>2 DEF y
<1>4. ASSUME NEW x, NEW l, NEW o, NEW r, x # NoName PROVE IsEncoding(Op(x, l, o, r))
  <2>. DEFINE y == Op(x, l, o, r)
  <2>1. y.of = 0 /\ y.to = <<>> /\ y.op = "op" /\ y.dst = x
    BY DEF Op, Instr
  <2>. HIDE DEF y
  <2>2. IsEncoding(y)
    BY <1>2, <1>4, <2>1
  <2>. QED BY <2>2 DEF y
<1>. QED BY <1>3, <1>4

(* A number it takes names no variable of the source.                      *)
LEMMA EncodeFresh ==
    ASSUME IsSeq(fun.params), IsCode(fun.body), code = fun.body, NEW k \in Nat,
           NEW n, n = E!Fresh(E!names, k, 1)[1]
    PROVE  n \in Nat /\ NewVar(n) \notin Reserved(fun.params, fun.body) /\ NewVar(n) # NoName
           /\ E!NewVar(n) = NewVar(n)
<1>. DEFINE R == Reserved(fun.params, fun.body)
<1>1. E!names = R /\ IsFiniteSet(R)
  BY SameReserved, ReservedFinite DEF E!names
<1>. HIDE DEF R
<1>2. n = Fresh(R, k, 1)[1]
  BY <1>1, SameFresh
<1>3. n \in Nat /\ NewVar(n) \notin R
  BY <1>1, <1>2, FreshIs
<1>. QED BY <1>3, NamesDiffer DEF R, E!NewVar, NewVar

(* Decoding terms keeps their number.                                      *)
DecodesWell(acc, n) ==
    /\ IsDecoding(acc) /\ acc.counter \in Nat /\ Len(acc.terms) = n
    /\ \A x \in Range(acc.new) : IsEncoding(x)

(* It stays so with one term more,                                         *)
LEMMA DecodeTermEncodes ==
    ASSUME IsSeq(fun.params), IsCode(fun.body), code = fun.body,
           NEW acc, NEW m \in Nat, DecodesWell(acc, m), NEW t
    PROVE  DecodesWell(E!DecodeTerm(acc, t), m + 1)
<1>. DEFINE n == E!Fresh(E!names, acc.counter, 1)[1]
            q1 == Def(NewVar(n), "int64")
            q2 == Op(NewVar(n), t, ">>", Num(1))
            r == E!DecodeTerm(acc, t)
<1>0. /\ IsSeq(acc.terms) /\ Len(acc.terms) = m /\ acc.counter \in Nat
      /\ DOMAIN acc = {"new", "terms", "cache", "counter"}
      /\ IsSeq(acc.new) /\ IsDecoding(acc)
      /\ \A x \in Range(acc.new) : IsEncoding(x)
  BY DEF DecodesWell, IsDecoding, IsQuiet, IsCode
<1>1. \A x : Len(Append(acc.terms, x)) = m + 1
  <2>. DEFINE q == acc.terms
  <2>. TAKE x
  <2>1. IsSeq(q) /\ Len(q) = m
    BY <1>0
  <2>. HIDE DEF q
  <2>2. Append(q, x) = q \o <<x>> /\ IsSeq(<<x>>) /\ Len(<<x>>) = 1
    BY <2>1, Appended
  <2>3. Len(q \o <<x>>) = m + 1
    BY <2>1, <2>2, Joined
  <2>. QED BY <2>2, <2>3 DEF q
<1>2. IsDecoding(r)
  BY <1>0, DecodeTermIs
<1>3. ASSUME NEW x, r = [acc EXCEPT !.terms = Append(acc.terms, x)]
      PROVE  DecodesWell(r, m + 1)
  <2>. DEFINE q == Append(acc.terms, x)
  <2>1. Len(q) = m + 1 /\ r = [acc EXCEPT !.terms = q]
    BY <1>1, <1>3
  <2>. HIDE DEF r, q
  <2>2. r.new = acc.new /\ r.terms = q /\ r.counter = acc.counter
    BY <1>0, <2>1
  <2>. QED BY <1>0, <1>2, <2>1, <2>2 DEF DecodesWell
<1>4. CASE E!IsNum(t) \/ ~E!IsInt(t.name)
  <2>1. r = [acc EXCEPT !.terms = Append(acc.terms, t)]
    BY <1>4 DEF E!DecodeTerm
  <2>. HIDE DEF r
  <2>2. DecodesWell(r, m + 1)
    BY <1>3, <2>1
  <2>. QED BY <2>2 DEF r
<1>5. CASE ~E!IsNum(t) /\ E!IsInt(t.name) /\ t.name \in DOMAIN acc.cache
  <2>1. r = [acc EXCEPT !.terms = Append(acc.terms, E!Var(acc.cache[t.name]))]
    BY <1>5 DEF E!DecodeTerm
  <2>. HIDE DEF r
  <2>2. DecodesWell(r, m + 1)
    BY <1>3, <2>1
  <2>. QED BY <2>2 DEF r
<1>6. CASE ~E!IsNum(t) /\ E!IsInt(t.name) /\ t.name \notin DOMAIN acc.cache
  <2>0. /\ r.new = acc.new \o <<E!Def(E!NewVar(n), "int64"), E!Op(E!NewVar(n), t, ">>", E!Num(1))>>
        /\ r.terms = Append(acc.terms, E!Var(E!NewVar(n))) /\ r.counter = n + 1
    BY <1>6 DEF E!DecodeTerm
  <2>1. /\ n \in Nat /\ NewVar(n) \notin Reserved(fun.params, fun.body)
        /\ NewVar(n) # NoName /\ E!NewVar(n) = NewVar(n)
    <3>. DEFINE z == n
    <3>1. z = E!Fresh(E!names, acc.counter, 1)[1]
      OBVIOUS
    <3>. HIDE DEF z
    <3>2. /\ z \in Nat /\ NewVar(z) \notin Reserved(fun.params, fun.body)
          /\ NewVar(z) # NoName /\ E!NewVar(z) = NewVar(z)
      BY <1>0, <3>1, EncodeFresh
    <3>. QED BY <3>2 DEF z
  <2>. HIDE DEF n, r
  <2>2. E!Num(1) = Num(1)
    BY DEF E!Num, Num, E!NoName, NoName, E!Name, Name
  <2>3. r.new = acc.new \o <<q1, q2>>
    BY <2>0, <2>1, <2>2, SameE
  <2>4. IsEncoding(q1) /\ IsEncoding(q2)
    BY <2>1, MadeIs
  <2>. HIDE DEF q1, q2
  <2>5. IsSeq(<<q1, q2>>) /\ Range(<<q1, q2>>) = {q1, q2}
    BY TuplesAre, RangesAre
  <2>6. Range(r.new) = Range(acc.new) \cup {q1, q2}
    BY <1>0, <2>3, <2>5, RangesAre
  <2>7. \A x \in Range(r.new) : IsEncoding(x)
    BY <1>0, <2>4, <2>6
  <2>8. Len(r.terms) = m + 1 /\ r.counter \in Nat
    BY <1>1, <2>0, <2>1
  <2>9. IsDecoding(r)
    BY <1>2 DEF r
  <2>10. DecodesWell(r, m + 1)
    BY <2>7, <2>8, <2>9 DEF DecodesWell
  <2>. QED BY <2>10 DEF r
<1>. QED BY <1>4, <1>5, <1>6

(* and so for any number of terms, by induction.                           *)
LEMMA DecodeEncodes ==
    ASSUME IsSeq(fun.params), IsCode(fun.body), code = fun.body, counter \in Nat,
           NEW terms, IsSeq(terms)
    PROVE  DecodesWell(E!Decode(terms), Len(terms))
<1>. DEFINE N == Len(terms)
            start == [new |-> <<>>, terms |-> <<>>, cache |-> cache, counter |-> counter]
<1>0. N \in Nat
  BY IsSeqIs
<1>1. DecodesWell(start, 0)
  <2>1. IsDecoding(start)
    BY QuietTuples, TuplesAre DEF IsDecoding
  <2>2. start.counter \in Nat /\ start.terms = <<>> /\ start.new = <<>> /\ Len(<<>>) = 0
    OBVIOUS
  <2>. HIDE DEF start
  <2>. QED BY <2>1, <2>2, RangesAre DEF DecodesWell
<1>2. PICK after : /\ after[0] = start
                   /\ \A k \in 1 .. N : after[k] = E!DecodeTerm(after[k - 1], terms[k])
                   /\ E!Decode(terms) = after[N]
  BY DecodeAre
<1>. HIDE DEF N, start
<1>3. \A k \in 0 .. N : DecodesWell(after[k], k)
  <2>. DEFINE wrong == {k \in 0 .. N : ~DecodesWell(after[k], k)}
  <2>. SUFFICES ASSUME wrong # {} PROVE FALSE
    OBVIOUS
  <2>1. wrong \subseteq Nat
    BY <1>0
  <2>2. PICK k \in wrong : \A m \in wrong : k <= m
    <3>. HIDE DEF wrong
    <3>. QED BY <2>1, HasLeast
  <2>3. k \in 0 .. N /\ k \in Nat /\ ~DecodesWell(after[k], k)
    BY <1>0
  <2>4. k # 0
    BY <1>1, <1>2, <2>3
  <2>5. k - 1 \in 0 .. N /\ k \in 1 .. N /\ ~(k <= k - 1) /\ k - 1 \in Nat /\ k - 1 + 1 = k
    BY <1>0, <2>3, <2>4
  <2>6. DecodesWell(after[k - 1], k - 1)
    <3>1. k - 1 \notin wrong
      <4>. HIDE DEF wrong
      <4>. QED BY <2>2, <2>5
    <3>. QED BY <2>5, <3>1
  <2>7. after[k] = E!DecodeTerm(after[k - 1], terms[k])
    BY <1>2, <2>5
  <2>8. DecodesWell(after[k], k - 1 + 1)
    BY <2>5, <2>6, <2>7, DecodeTermEncodes
  <2>. QED BY <2>3, <2>5, <2>8
<1>. QED BY <1>0, <1>2, <1>3 DEF N

(* An instruction of the source with other terms is an encoding of it.     *)
LEMMA ImageIs ==
    ASSUME SourceOk, NEW k \in DOMAIN fun.body, NEW s, s = fun.body[k], s.op # "def",
           NEW q, NEW x, x = [s EXCEPT !.args = q],
           s.op \in Accesses => Len(Indices(x)) = Len(Indices(s))
    PROVE  IsEncoding(x)
<1>1. DOMAIN s = Fields /\ k \in Nat /\ k # 0 /\ s.of = k
  BY IsSeqIs DEF SourceOk, IsCode
<1>2. /\ x.op = s.op /\ x.of = s.of /\ x.to = s.to /\ x.dst = s.dst /\ x.base = s.base
  BY <1>1 DEF Fields
<1>3. Linked(x)
  BY <1>1, <1>2 DEF Linked
<1>4. /\ \A l \in Range(s.to) : l[1] # "new_var"
      /\ s.op = "label" => 1 \in DOMAIN s.to
      /\ s.op \in Writers => s.dst # NoName
  BY DEF SourceOk
<1>. QED BY <1>1, <1>2, <1>3, <1>4 DEF IsEncoding

(* The terms between the brackets are as many as before.                   *)
LEMMA FrontIs ==
    ASSUME NEW u, IsSeq(u), NEW e
    PROVE  Len(Front(Append(u, e))) = Len(u)
<1>. DEFINE A == Range(u) \cup {e}
            q == Append(u, e)
<1>1. u \in Seq(A) /\ Len(u) \in Nat
  <2>1. u \in Seq(Range(u))
    BY DEF IsSeq
  <2>2. DOMAIN u = 1 .. Len(u) /\ Len(u) \in Nat
    BY IsSeqIs
  <2>3. \A j \in 1 .. Len(u) : u[j] \in A
    BY <2>2 DEF Range
  <2>. HIDE DEF A
  <2>. QED BY <2>1, <2>2, <2>3
<1>. HIDE DEF A
<1>2. e \in A
  BY DEF A
<1>3. q \in Seq(A) /\ Len(q) = Len(u) + 1
  BY <1>1, <1>2
<1>. HIDE DEF q
<1>4. Len(q) - 1 = Len(u)
  BY <1>1, <1>3
<1>5. Len(SubSeq(q, 1, Len(u))) = Len(u)
  BY <1>1, <1>3
<1>. QED BY <1>4, <1>5 DEF Front, q

(* Every action of the pass keeps it so.                                   *)
LEMMA EncodingStep ==
    ASSUME SourceOk, EncodingOk, stage = "encode", stage' = stage,
           Passed(code, out, i, {}), E!EncodeNext
    PROVE  EncodingOk'
<1>. DEFINE x == code[i]
<1>0. /\ IsSeq(fun.params) /\ IsCode(fun.body) /\ code = fun.body /\ counter \in Nat
      /\ IsSeq(out) /\ i \in Nat /\ IsSeq(code)
      /\ i <= Len(code) => i \in DOMAIN fun.body
  BY IsSeqIs DEF Passed, IsCode, SourceOk, EncodingOk
<1>1. i <= Len(code) => DOMAIN x = Fields /\ IsSeq(x.args)
  BY <1>0 DEF IsCode
<1>2. \A op : E!At(op) => i <= Len(code) /\ x.op = op
  BY DEF E!At, E!ins
<1>3. E!ins = x
  BY DEF E!ins
<1>4. ASSUME NEW s, IsSeq(s), NEW c, NEW k \in Nat, E!Emit(s, c, k),
             \A y \in Range(s) : IsEncoding(y),
             x.op = "def" => \E y \in Range(s) : y.op = "def" /\ y.dst = x.dst
      PROVE  EncodingOk'
  <2>1. /\ i' = i + 1 /\ counter' \in Nat /\ out' = out \o s
        /\ code' = code /\ fun' = fun
    BY <1>4 DEF E!Emit
  <2>. QED BY <1>0, <1>4, <2>1, EncodingGrows
<1>5. ASSUME NEW q, i <= Len(code), x.op # "def",
             x.op \in Accesses => Len(Indices([x EXCEPT !.args = q])) = Len(Indices(x))
      PROVE  IsEncoding([x EXCEPT !.args = q])
  BY <1>0, <1>5, ImageIs
<1>6. \A terms : IsSeq(terms) => DecodesWell(E!Decode(terms), Len(terms))
  BY <1>0, DecodeEncodes
<1>. HIDE DEF x
<1>7. ASSUME NEW y, NEW c, E!Emit(<<y>>, c, counter), IsEncoding(y), x.op # "def"
      PROVE  EncodingOk'
  <2>1. IsSeq(<<y>>) /\ Range(<<y>>) = {y}
    BY TuplesAre, RangesAre
  <2>. QED BY <1>0, <1>4, <1>7, <2>1
<1>8. ASSUME NEW d, NEW n, DecodesWell(d, n), NEW y, NEW c, E!Emit(Append(d.new, y), c, d.counter),
             IsEncoding(y), x.op # "def"
      PROVE  EncodingOk'
  <2>. DEFINE r == d.new
  <2>1. IsSeq(r) /\ d.counter \in Nat /\ \A z \in Range(r) : IsEncoding(z)
    BY <1>8 DEF DecodesWell, IsDecoding, IsQuiet, IsCode
  <2>2. E!Emit(Append(r, y), c, d.counter)
    BY <1>8
  <2>. HIDE DEF r
  <2>3. Append(r, y) = r \o <<y>> /\ IsSeq(<<y>>) /\ Range(<<y>>) = {y}
    BY <2>1, Appended, RangesAre
  <2>4. IsSeq(r \o <<y>>) /\ Range(r \o <<y>>) = Range(r) \cup {y}
    <3>. DEFINE t == <<y>>
    <3>1. IsSeq(t) /\ Range(t) = {y}
      BY <2>3
    <3>. HIDE DEF t
    <3>2. IsSeq(r \o t) /\ Range(r \o t) = Range(r) \cup Range(t)
      BY <2>1, <3>1, Joined, RangesAre
    <3>. QED BY <3>1, <3>2 DEF t
  <2>5. \A z \in Range(r \o <<y>>) : IsEncoding(z)
    BY <1>8, <2>1, <2>4
  <2>. QED BY <1>4, <1>8, <2>1, <2>2, <2>3, <2>4, <2>5
<1>10. CASE E!EncodeDef
  <2>. DEFINE u == [x EXCEPT !.of = 0]
              w == Assign(x.dst, E!Num(IF x.kind = "int64" THEN 1 ELSE 0))
              v == [w EXCEPT !.of = x.of]
  <2>1. i <= Len(code) /\ x.op = "def"
    BY <1>2, <1>10 DEF E!EncodeDef
  <2>2. E!Emit(<<u, v>>, E!Without(cache, x.dst), counter)
    <3>1. E!Emit(<<u, [E!Assign(x.dst, E!Num(IF x.kind = "int64" THEN 1 ELSE 0))
                         EXCEPT !.of = x.of]>>, E!Without(cache, x.dst), counter)
      BY <1>3, <1>10 DEF E!EncodeDef
    <3>. QED BY <3>1, SameE
  <2>3. /\ \A l \in Range(x.to) : l[1] # "new_var"
        /\ x.dst # NoName /\ x.of = i /\ i # 0
    BY <1>0, <2>1, IsSeqIs DEF SourceOk, Writers, x
  <2>4. IsEncoding(u)
    <3>1. u.of = 0 /\ u.op = "def" /\ u.to = x.to /\ u.dst = x.dst /\ u.kind = x.kind
      BY <1>1, <2>1 DEF Fields
    <3>. HIDE DEF u
    <3>2. u.kind \in TypesOf(fun, u.dst)
      BY <1>0, <2>1, <3>1 DEF TypesOf, x
    <3>. QED BY <2>3, <3>1, <3>2 DEF IsEncoding, Linked, Accesses
  <2>5. IsEncoding(v)
    <3>1. v.of = i /\ v.op = "assign" /\ v.to = <<>> /\ v.dst = x.dst
      BY <2>3 DEF Assign, Instr
    <3>. HIDE DEF v
    <3>2. Linked(v)
      BY <1>0, <2>1, <3>1 DEF Linked, IsTerminator, x
    <3>. QED BY <2>3, <3>1, <3>2, RangesAre DEF IsEncoding, Accesses
  <2>6. u.op = "def" /\ u.dst = x.dst
    BY <1>1, <2>1 DEF Fields
  <2>. HIDE DEF u, v
  <2>7. IsSeq(<<u, v>>) /\ Range(<<u, v>>) = {u, v}
    BY TuplesAre, RangesAre
  <2>8. \A y \in Range(<<u, v>>) : IsEncoding(y)
    BY <2>4, <2>5, <2>7
  <2>9. \E y \in Range(<<u, v>>) : y.op = "def" /\ y.dst = x.dst
    BY <2>6, <2>7
  <2>. QED BY <1>0, <1>4, <2>2, <2>7, <2>8, <2>9
<1>11. CASE E!EncodeAssign
  <2>. DEFINE y == [x EXCEPT !.args =
                        <<IF E!IsInt(x.dst) THEN E!Encoded(x.args[1]) ELSE x.args[1]>>]
  <2>1. i <= Len(code) /\ x.op = "assign"
    BY <1>2, <1>11 DEF E!EncodeAssign
  <2>2. \E c : E!Emit(<<y>>, c, counter)
    BY <1>3, <1>11 DEF E!EncodeAssign
  <2>3. IsEncoding(y)
    BY <1>5, <2>1 DEF Accesses
  <2>. HIDE DEF y
  <2>. QED BY <1>7, <2>1, <2>2, <2>3
<1>12. CASE E!EncodeOp
  <2>. DEFINE d == E!Decode(x.args)
              n == E!Fresh(E!names, d.counter, 1)[1]
              tmp == E!NewVar(n)
              q1 == Def(tmp, "int64")
              q2 == [x EXCEPT !.dst = tmp, !.args = d.terms]
              q3 == Op(x.dst, E!Var(tmp), "<<", E!Num(1))
              q4 == Op(x.dst, E!Var(x.dst), "+", E!Num(1))
  <2>1. i <= Len(code) /\ x.op = "op"
    BY <1>2, <1>12 DEF E!EncodeOp
  <2>2. DecodesWell(d, Len(x.args))
    BY <1>1, <1>6, <2>1
  <2>3. CASE E!IsInt(x.dst)
    <3>1. \E c : E!Emit(d.new \o <<q1, q2, q3, q4>>, c, n + 1)
      <4>1. \E c : E!Emit(d.new \o <<E!Def(tmp, "int64"), q2,
                                     E!Op(x.dst, E!Var(tmp), "<<", E!Num(1)),
                                     E!Op(x.dst, E!Var(x.dst), "+", E!Num(1))>>, c, n + 1)
        BY <1>3, <1>12, <2>3 DEF E!EncodeOp
      <4>. QED BY <4>1, SameE
    <3>. DEFINE r == d.new
    <3>2. IsSeq(r) /\ d.counter \in Nat /\ \A z \in Range(r) : IsEncoding(z)
      BY <2>2 DEF DecodesWell, IsDecoding, IsQuiet, IsCode
    <3>3. /\ n \in Nat /\ tmp = NewVar(n) /\ NewVar(n) # NoName
          /\ NewVar(n) \notin Reserved(fun.params, fun.body)
      <4>. DEFINE z == n
      <4>1. z = E!Fresh(E!names, d.counter, 1)[1]
        OBVIOUS
      <4>. HIDE DEF z
      <4>2. /\ z \in Nat /\ E!NewVar(z) = NewVar(z) /\ NewVar(z) # NoName
            /\ NewVar(z) \notin Reserved(fun.params, fun.body)
        BY <1>0, <3>2, <4>1, EncodeFresh
      <4>. QED BY <4>2 DEF z
    <3>. HIDE DEF n, d
    <3>4. /\ \A l \in Range(x.to) : l[1] # "new_var"
          /\ x.dst # NoName /\ x.of = i /\ i # 0
      BY <1>0, <2>1, IsSeqIs DEF SourceOk, Writers, x
    <3>5. IsEncoding(q1) /\ IsEncoding(q3) /\ IsEncoding(q4)
      BY <3>3, <3>4, MadeIs
    <3>6. IsEncoding(q2)
      <4>1. q2.of = i /\ q2.op = "op" /\ q2.to = x.to /\ q2.dst = tmp
        BY <1>1, <2>1, <3>4 DEF Fields
      <4>. HIDE DEF q2
      <4>2. Linked(q2)
        BY <1>0, <2>1, <4>1 DEF Linked, IsTerminator, x
      <4>. QED BY <3>3, <3>4, <4>1, <4>2 DEF IsEncoding, Accesses
    <3>. HIDE DEF q1, q2, q3, q4
    <3>. DEFINE p == <<q1, q2, q3, q4>>
    <3>7. IsSeq(p) /\ Range(p) = {q1, q2, q3, q4}
      BY TuplesAre, RangesAre
    <3>8. \E c : E!Emit(r \o p, c, n + 1)
      BY <3>1
    <3>. HIDE DEF r, p
    <3>9. IsSeq(r \o p) /\ Range(r \o p) = Range(r) \cup {q1, q2, q3, q4}
      <4>1. IsSeq(r \o p) /\ Range(r \o p) = Range(r) \cup Range(p)
        BY <3>2, <3>7, Joined, RangesAre
      <4>. QED BY <3>7, <4>1
    <3>10. \A z \in Range(r \o p) : IsEncoding(z)
      BY <3>2, <3>5, <3>6, <3>9
    <3>11. n + 1 \in Nat /\ x.op # "def"
      BY <2>1, <3>3
    <3>. QED BY <1>4, <3>8, <3>9, <3>10, <3>11
  <2>4. CASE ~E!IsInt(x.dst)
    <3>. DEFINE y == [x EXCEPT !.args = d.terms]
    <3>1. \E c : E!Emit(Append(d.new, y), c, d.counter)
      BY <1>3, <1>12, <2>4 DEF E!EncodeOp
    <3>2. IsEncoding(y)
      <4>. DEFINE q == d.terms
      <4>. HIDE DEF q
      <4>1. IsEncoding([x EXCEPT !.args = q])
        BY <1>5, <2>1 DEF Accesses
      <4>. QED BY <4>1 DEF q
    <3>3. x.op # "def"
      BY <2>1
    <3>. HIDE DEF d, y
    <3>. QED BY <1>8, <2>2, <3>1, <3>2, <3>3
  <2>. QED BY <2>3, <2>4
<1>13. CASE E!EncodeCond \/ E!EncodeLoad \/ E!EncodeLength
  <2>. DEFINE d == E!Decode(x.args)
              y == [x EXCEPT !.args = d.terms]
  <2>1. i <= Len(code) /\ x.op \in {"cond", "load", "length"}
    BY <1>2, <1>13 DEF E!EncodeCond, E!EncodeLoad, E!EncodeLength
  <2>2. \E c : E!Emit(Append(d.new, y), c, d.counter)
    BY <1>3, <1>13 DEF E!EncodeCond, E!EncodeLoad, E!EncodeLength
  <2>3. DecodesWell(d, Len(x.args))
    BY <1>1, <1>6, <2>1
  <2>. HIDE DEF d
  <2>4. Len(Indices(y)) = Len(Indices(x))
    <3>1. y.op = x.op /\ y.args = d.terms
      BY <1>1, <2>1 DEF Fields
    <3>. HIDE DEF y
    <3>. QED BY <2>1, <2>3, <3>1 DEF Indices, DecodesWell
  <2>5. IsEncoding(y) /\ x.op # "def"
    <3>. DEFINE q == d.terms
    <3>1. Len(Indices([x EXCEPT !.args = q])) = Len(Indices(x))
      BY <2>4
    <3>. HIDE DEF q
    <3>2. IsEncoding([x EXCEPT !.args = q])
      BY <1>5, <2>1, <3>1
    <3>. QED BY <2>1, <3>2 DEF q
  <2>. HIDE DEF y
  <2>. QED BY <1>8, <2>2, <2>3, <2>5
<1>14. CASE E!EncodeStore
  <2>. DEFINE f == E!Front(x.args)
              d == E!Decode(f)
              e == E!Encoded(E!Last(x.args))
              q == Append(d.terms, e)
              y == [x EXCEPT !.args = q]
  <2>1. i <= Len(code) /\ x.op = "store"
    BY <1>2, <1>14 DEF E!EncodeStore
  <2>2. E!Emit(Append(d.new, y), d.cache, d.counter)
    BY <1>3, <1>14 DEF E!EncodeStore
  <2>3. IsSeq(f) /\ f = Front(x.args)
    BY <1>1, <2>1, TermsAre DEF E!Front, Front
  <2>. HIDE DEF f
  <2>4. DecodesWell(d, Len(f))
    BY <1>6, <2>3
  <2>. HIDE DEF d, e
  <2>5. Len(Front(q)) = Len(f)
    <3>. DEFINE u == d.terms
    <3>1. IsSeq(u) /\ Len(u) = Len(f)
      BY <2>4 DEF DecodesWell, IsDecoding
    <3>. HIDE DEF u
    <3>2. Len(Front(Append(u, e))) = Len(f)
      BY <3>1, FrontIs
    <3>. QED BY <3>2 DEF u
  <2>. HIDE DEF q
  <2>6. Len(Indices(y)) = Len(Indices(x))
    <3>1. y.op = x.op /\ y.args = q
      BY <1>1, <2>1 DEF Fields
    <3>. HIDE DEF y
    <3>. QED BY <2>1, <2>3, <2>5, <3>1 DEF Indices
  <2>7. IsEncoding(y) /\ x.op # "def"
    BY <1>5, <2>1, <2>6
  <2>. HIDE DEF y
  <2>. QED BY <1>8, <2>2, <2>4, <2>7
<1>15. CASE E!EncodeReturn
  <2>. DEFINE y == [x EXCEPT !.args =
                      IF fun.returns = "int64" THEN E!EncodedAll(x.args) ELSE x.args]
  <2>1. i <= Len(code) /\ x.op = "return"
    BY <1>2, <1>15 DEF E!EncodeReturn
  <2>2. E!Emit(<<y>>, <<>>, counter)
    BY <1>3, <1>15 DEF E!EncodeReturn
  <2>3. IsEncoding(y) /\ x.op # "def"
    BY <1>5, <2>1 DEF Accesses
  <2>. HIDE DEF y
  <2>. QED BY <1>7, <2>2, <2>3
<1>16. CASE E!EncodeCall
  <2>. DEFINE y == [x EXCEPT !.args = E!EncodedArgs(x.base, x.args)]
  <2>1. i <= Len(code) /\ x.op = "call"
    BY <1>2, <1>16 DEF E!EncodeCall
  <2>2. E!Emit(<<y>>, <<>>, counter)
    BY <1>3, <1>16 DEF E!EncodeCall
  <2>3. IsEncoding(y) /\ x.op # "def"
    BY <1>5, <2>1 DEF Accesses
  <2>. HIDE DEF y
  <2>. QED BY <1>7, <2>2, <2>3
<1>17. CASE E!EncodeAlloc
  <2>. DEFINE y == [x EXCEPT !.args = E!EncodedAll(x.args)]
  <2>1. i <= Len(code) /\ x.op = "alloc"
    BY <1>2, <1>17 DEF E!EncodeAlloc
  <2>2. \E c : E!Emit(<<y>>, c, counter)
    BY <1>3, <1>17 DEF E!EncodeAlloc
  <2>3. IsEncoding(y) /\ x.op # "def"
    BY <1>5, <2>1 DEF Accesses
  <2>. HIDE DEF y
  <2>. QED BY <1>7, <2>2, <2>3
<1>18. CASE E!EncodeLabel \/ E!EncodeBranch
  <2>1. i <= Len(code) /\ x.op \in {"label", "branch"}
    BY <1>2, <1>18 DEF E!EncodeLabel, E!EncodeBranch
  <2>2. E!Emit(<<x>>, <<>>, counter)
    BY <1>3, <1>18 DEF E!EncodeLabel, E!EncodeBranch
  <2>3. IsEncoding(x)
    <3>1. /\ \A l \in Range(x.to) : l[1] # "new_var"
          /\ x.of = i /\ x.op = "label" => 1 \in DOMAIN x.to
      BY <1>0, <2>1 DEF SourceOk, x
    <3>2. Linked(x)
      BY <1>0, <2>1, <3>1 DEF Linked, SourceOk, x
    <3>. QED BY <1>0, <2>1, <3>1, <3>2, IsSeqIs DEF IsEncoding, Accesses, Writers, SourceOk, x
  <2>. QED BY <1>7, <2>1, <2>2, <2>3
<1>. QED BY <1>10, <1>11, <1>12, <1>13, <1>14, <1>15, <1>16, <1>17, <1>18 DEF E!EncodeNext

(* The pass starts with nothing written, *)
LEMMA EncodingOkStart ==
    ASSUME Init
    PROVE  EncodingOk
<1>1. code = fun.body /\ i = 1 /\ out = <<>> /\ counter = 0
  BY DEF Init, E!EncodeInit
<1>2. IsCode(fun.body)
  BY SourceOkStart DEF SourceOk
<1>3. \A k \in DOMAIN fun.body : ~(k < 1)
  BY <1>2, IsSeqIs DEF IsCode
<1>. QED BY <1>1, <1>3, RangesAre DEF EncodingOk, Declared

-----------------------------------------------------------------------------
(* check_allocation_access reads what encode_decode_values has written.    *)
CodeOk ==
    stage = "check" =>
        /\ \A x \in Range(code) : IsEncoding(x)
        /\ Declared(code, Len(fun.body) + 1)

(* So it is when the pass before is through.                               *)
LEMMA CodeOkStart ==
    ASSUME SourceOk, EncodingOk, stage = "encode", i \in Nat, i > Len(code),
           code' = out, fun' = fun
    PROVE  CodeOk'
<1>1. \A x : IsEncoding(x)' <=> IsEncoding(x)
  BY DEF IsEncoding, Linked
<1>2. DOMAIN fun.body = 1 .. Len(fun.body) /\ Len(fun.body) \in Nat /\ i > Len(fun.body)
  BY IsSeqIs DEF SourceOk, IsCode, EncodingOk
<1>3. \A x \in Range(code') : IsEncoding(x)'
  BY <1>1 DEF EncodingOk
<1>4. Declared(out, Len(fun.body) + 1)
  BY <1>2 DEF Declared, EncodingOk
<1>5. Declared(code, Len(fun.body) + 1)'
  BY <1>4 DEF Declared
<1>. QED BY <1>3, <1>5 DEF CodeOk

(* A finite set of numbers has a greatest element.                         *)
LEMMA HasGreatest ==
    ASSUME NEW n \in Nat, NEW T, T \subseteq 1 .. n, T # {}
    PROVE  \E x \in T : \A y \in T : y <= x
<1>. DEFINE U == {n - y : y \in T}
<1>1. U \subseteq Nat /\ U # {}
  <2>1. \A y \in T : n - y \in Nat
    OBVIOUS
  <2>2. \E y \in T : n - y \in U
    OBVIOUS
  <2>3. U # {}
    <3>. HIDE DEF U
    <3>. QED BY <2>2
  <2>. QED BY <2>1, <2>3
<1>2. PICK u \in U : \A v \in U : u <= v
  <2>. HIDE DEF U
  <2>. QED BY <1>1, HasLeast
<1>3. PICK x \in T : u = n - x
  OBVIOUS
<1>4. \A y \in T : n - x <= n - y
  BY <1>2, <1>3
<1>. QED BY <1>4

(* A variable of the source has one of the types the source gives it.      *)
LEMMA TypeIs ==
    ASSUME SourceOk, CodeOk, stage = "check", IsSeq(code),
           NEW a \in Reserved(fun.params, fun.body), TypesOf(fun, a) # {}
    PROVE  C!TypeOf(a) \in TypesOf(fun, a)
<1>. DEFINE defs == {j \in DOMAIN code : code[j].op = "def" /\ code[j].dst = a}
            pars == {j \in DOMAIN fun.params : fun.params[j].name = a}
<1>1. DOMAIN code = 1 .. Len(code) /\ Len(code) \in Nat
  BY IsSeqIs
<1>2. DOMAIN fun.params = 1 .. Len(fun.params) /\ Len(fun.params) \in Nat
  BY IsSeqIs DEF SourceOk
<1>3. CASE defs # {}
  <2>. DEFINE g == CHOOSE j \in defs : \A k \in defs : k <= j
  <2>1. C!TypeOf(a) = code[g].kind
    BY <1>3, Zenon DEF C!TypeOf
  <2>2. defs \subseteq 1 .. Len(code)
    BY <1>1
  <2>3. g \in defs
    <3>. HIDE DEF defs
    <3>. QED BY <1>1, <1>3, <2>2, HasGreatest
  <2>. HIDE DEF g
  <2>4. code[g].op = "def" /\ code[g].dst = a /\ code[g] \in Range(code)
    BY <2>3 DEF Range
  <2>5. IsEncoding(code[g])
    BY <2>4 DEF CodeOk
  <2>. QED BY <2>1, <2>4, <2>5 DEF IsEncoding
<1>4. CASE defs = {} /\ pars # {}
  <2>. DEFINE g == CHOOSE j \in pars : \A k \in pars : k <= j
  <2>1. C!TypeOf(a) = fun.params[g].type
    BY <1>4 DEF C!TypeOf
  <2>2. pars \subseteq 1 .. Len(fun.params)
    BY <1>2
  <2>3. g \in pars
    <3>. HIDE DEF pars
    <3>. QED BY <1>2, <1>4, <2>2, HasGreatest
  <2>. HIDE DEF g
  <2>. QED BY <2>1, <2>3 DEF TypesOf
<1>5. CASE defs = {} /\ pars = {}
  <2>1. \E k \in DOMAIN fun.body : fun.body[k].op = "def" /\ fun.body[k].dst = a
    BY <1>5 DEF TypesOf
  <2>2. PICK k \in DOMAIN fun.body : fun.body[k].op = "def" /\ fun.body[k].dst = a
    BY <2>1
  <2>3. k < Len(fun.body) + 1
    BY IsSeqIs DEF SourceOk, IsCode
  <2>4. \E x \in Range(code) : x.op = "def" /\ x.dst = a
    BY <2>2, <2>3 DEF CodeOk, Declared
  <2>. QED BY <1>5, <2>4 DEF Range
<1>. QED BY <1>3, <1>4, <1>5

(* All indices of an access are checked; those of a tuple are one.         *)
LEMMA IndicesChecked ==
    ASSUME SourceOk, CodeOk, stage = "check", IsCode(code), i \in DOMAIN code,
           NEW x, x = code[i], x.op \in Accesses
    PROVE  /\ x.base \in C!names /\ x.base # NoName
           /\ x.op = "length" => C!IndicesToCheck = <<>>
           /\ x.op # "length" => /\ C!IndicesToCheck = Indices(x)
                                 /\ C!TypeOf(x.base) = "tuple" => Len(Indices(x)) = 1
<1>1. C!ins = x
  BY DEF C!ins
<1>2. x \in Range(code) /\ IsEncoding(x) /\ IsSeq(x.args)
  BY DEF Range, CodeOk, IsCode
<1>. DEFINE s == fun.body[x.of]
<1>3. /\ x.of # 0 /\ x.of \in DOMAIN fun.body /\ x.op = s.op /\ x.base = s.base
      /\ Len(Indices(x)) = Len(Indices(s))
  BY <1>2 DEF IsEncoding, Linked, Accesses
<1>4. x.base # NoName
  BY <1>3 DEF SourceOk
<1>5. x.base \in C!names
  BY <1>4, SameReserved DEF C!names, Reserved, Reads
<1>6. x.base \in Reserved(fun.params, fun.body)
  BY <1>3, <1>4 DEF Reserved, Reads
<1>7. x.op = "length" => C!IndicesToCheck = <<>>
  BY <1>1 DEF C!IndicesToCheck
<1>8. ASSUME x.op # "length"
      PROVE  /\ C!IndicesToCheck = Indices(x)
             /\ C!TypeOf(x.base) = "tuple" => Len(Indices(x)) = 1
  <2>1. x.op \in {"load", "store"}
    BY <1>8 DEF Accesses
  <2>2. /\ TypesOf(fun, x.base) # {}
        /\ \/ TypesOf(fun, x.base) \subseteq {"int64[]", "int64[][]"}
           \/ TypesOf(fun, x.base) = {"tuple"} /\ Len(Indices(x)) = 1
    BY <1>3, <2>1 DEF SourceOk
  <2>3. C!TypeOf(x.base) \in TypesOf(fun, x.base)
    BY <1>2, <1>6, <2>2, TypeIs DEF IsCode
  <2>4. C!Indices(x) = Indices(x)
    BY MoreSameC
  <2>5. CASE C!TypeOf(x.base) \in {"int64[]", "int64[][]"}
    <3>1. C!Rank(C!TypeOf(x.base)) > 0 /\ C!TypeOf(x.base) # "tuple"
      BY <2>5 DEF C!Rank
    <3>2. C!IndicesToCheck = C!Indices(x)
      BY <1>1, <1>8, <3>1 DEF C!IndicesToCheck
    <3>. QED BY <2>4, <3>1, <3>2
  <2>6. CASE C!TypeOf(x.base) = "tuple"
    <3>1. Len(Indices(x)) = 1
      BY <2>2, <2>3, <2>6
    <3>2. C!IndicesToCheck = SubSeq(Indices(x), 1, 1)
      <4>0. C!Rank(C!TypeOf(x.base)) = 0 /\ ~(C!Rank(C!TypeOf(x.base)) > 0)
        BY <2>6 DEF C!Rank
      <4>1. C!IndicesToCheck = SubSeq(C!Indices(x), 1, 1)
        BY <1>1, <1>8, <2>6, <4>0, Zenon DEF C!IndicesToCheck
      <4>. QED BY <2>4, <4>1
    <3>3. IsSeq(Indices(x))
      <4>1. IsSeq(Front(x.args))
        BY <1>2, TermsAre DEF E!Front, Front
      <4>. QED BY <1>2, <4>1 DEF Indices
    <3>. DEFINE t == Indices(x)
    <3>4. IsSeq(t) /\ Len(t) = 1 /\ C!IndicesToCheck = SubSeq(t, 1, 1)
      BY <3>1, <3>2, <3>3
    <3>. HIDE DEF t
    <3>5. SubSeq(t, 1, 1) = t
      BY <3>4 DEF IsSeq
    <3>. QED BY <3>1, <3>4, <3>5 DEF t
  <2>. QED BY <2>2, <2>3, <2>5, <2>6
<1>. QED BY <1>4, <1>5, <1>7, <1>8

(* What the pass has found out: the arrays S are not null, the checks T    *)
(* have been made.                                                         *)
KnownOf(S, T) == {NullOf(a) : a \in S} \cup UNION {Compared(c[1], c[2], Len(c[2])) : c \in T}
Known == KnownOf(nonNull, checked)

IsCheck(R, c) ==
    c[1] \in R /\ IsSeq(c[2]) /\ \A d \in DOMAIN c[2] : c[2][d].name \in R \cup {NoName}

(* It is about variables of the code.                                      *)
LEMMA FormsDiffer ==
    ASSUME NEW R, NEW v, v = Finding(v.form, v.base, v.arg, v.dim), v.form # "never",
           v.base \in R \cup {NoName}, v.arg.name \in R \cup {NoName}
    PROVE  Steady(R, {Fact(v)})
BY DEF Steady

(* The findings of the checks are about names of the code,                 *)
LEMMA ChecksSteady ==
    ASSUME NEW R
    PROVE  /\ \A a \in R : Steady(R, {NullOf(a)})
           /\ \A t : t.name \in R \cup {NoName} => Steady(R, {LowOf(t)})
           /\ \A a \in R : \A t, d : t.name \in R \cup {NoName} => Steady(R, {HighOf(a, t, d)})
<1>1. ASSUME NEW f, f # "never", NEW b \in R \cup {NoName}, NEW t,
             t.name \in R \cup {NoName}, NEW d
      PROVE  Steady(R, {Fact(Finding(f, b, t, d))})
  <2>. DEFINE v == Finding(f, b, t, d)
  <2>1. v = Finding(v.form, v.base, v.arg, v.dim) /\ v.form = f /\ v.base = b /\ v.arg = t
    BY DEF Finding
  <2>. HIDE DEF v
  <2>2. Steady(R, {Fact(v)})
    BY <1>1, <2>1, FormsDiffer
  <2>. QED BY <2>2 DEF v
<1>2. Num(0).name = NoName
  BY DEF Num
<1>3. \A a \in R : Steady(R, {NullOf(a)})
  BY <1>1, <1>2 DEF NullOf
<1>4. \A t : t.name \in R \cup {NoName} => Steady(R, {LowOf(t)})
  BY <1>1 DEF LowOf
<1>5. \A a \in R : \A t, d : t.name \in R \cup {NoName} => Steady(R, {HighOf(a, t, d)})
  BY <1>1 DEF HighOf
<1>. QED BY <1>3, <1>4, <1>5

(* one by one and together.                                                *)
LEMMA SteadyAll ==
    ASSUME NEW R, NEW A, \A c \in A : Steady(R, {c})
    PROVE  Steady(R, A)
BY DEF Steady

(* So is all the pass has found out.                                       *)
LEMMA KnownSteady ==
    ASSUME NEW R, NEW S, S \subseteq R, NEW T, \A c \in T : IsCheck(R, c)
    PROVE  Steady(R, KnownOf(S, T))
<1>1. ASSUME NEW a \in S PROVE Steady(R, {NullOf(a)})
  BY ChecksSteady
<1>2. ASSUME NEW c \in T, NEW f \in Compared(c[1], c[2], Len(c[2]))
      PROVE  Steady(R, {f})
  <2>1. PICK d \in 1 .. Len(c[2]) : f \in {LowOf(c[2][d]), HighOf(c[1], c[2][d], d)}
    BY <1>2 DEF Compared
  <2>2. c[1] \in R /\ c[2][d].name \in R \cup {NoName}
    BY IsSeqIs DEF IsCheck
  <2>3. Steady(R, {LowOf(c[2][d])}) /\ Steady(R, {HighOf(c[1], c[2][d], d)})
    BY <2>2, ChecksSteady
  <2>. QED BY <2>1, <2>3
<1>3. \A f \in KnownOf(S, T) : Steady(R, {f})
  <2>. TAKE f \in KnownOf(S, T)
  <2>1. (\E a \in S : f = NullOf(a)) \/ (\E c \in T : f \in Compared(c[1], c[2], Len(c[2])))
    BY Zenon DEF KnownOf
  <2>. QED BY <1>1, <1>2, <2>1
<1>. QED BY <1>3, SteadyAll

(* What is not about x is still known after x is written.                  *)
LEMMA KnownKept ==
    ASSUME NEW R, NEW S, S \subseteq R, NEW T, \A c \in T : IsCheck(R, c),
           NEW x, NEW S1, S1 = S \ {x}, NEW T1, T1 = C!Without(T, x)
    PROVE  /\ KnownOf(S1, T1) \subseteq KnownOf(S, T) /\ Never \notin KnownOf(S, T)
           /\ x # NoName => KnownOf(S1, T1) \subseteq Keep(KnownOf(S, T), x)
<1>1. T1 \subseteq T /\ S1 \subseteq S
  BY DEF C!Without
<1>2. KnownOf(S1, T1) \subseteq KnownOf(S, T)
  BY <1>1 DEF KnownOf
<1>3. Never \notin KnownOf(S, T)
  <2>1. Steady(R, KnownOf(S, T))
    BY KnownSteady
  <2>. QED BY <2>1 DEF Steady, Never, Fact, Finding
<1>4. ASSUME x # NoName, NEW f \in KnownOf(S1, T1)
      PROVE  f[1] = NoName /\ ~Mentions(f[2], x)
  <2>1. ASSUME NEW a \in S1, f = NullOf(a)
        PROVE  f[1] = NoName /\ ~Mentions(f[2], x)
    BY <1>4, <2>1 DEF NullOf, Fact, Finding, Mentions, Num
  <2>2. ASSUME NEW c \in T1, f \in Compared(c[1], c[2], Len(c[2]))
        PROVE  f[1] = NoName /\ ~Mentions(f[2], x)
    <3>1. PICK d \in 1 .. Len(c[2]) : f \in {LowOf(c[2][d]), HighOf(c[1], c[2][d], d)}
      BY <2>2 DEF Compared
    <3>2. c[1] # x /\ d \in DOMAIN c[2] /\ x \notin NamesOf(c[2])
      BY <1>1, IsSeqIs, MoreSameC DEF C!Without, IsCheck
    <3>3. c[2][d].name # x
      BY <1>4, <3>2 DEF NamesOf
    <3>4. f = LowOf(c[2][d]) \/ f = HighOf(c[1], c[2][d], d)
      BY <3>1
    <3>. QED BY <1>4, <3>2, <3>3, <3>4 DEF LowOf, HighOf, Fact, Finding, Mentions
  <2>. QED BY <2>1, <2>2 DEF KnownOf
<1>. QED BY <1>1, <1>2, <1>3, <1>4 DEF Keep

(* What has been written leads to what the pass has found out, or nothing  *)
(* comes there.                                                            *)
Reached(A) == IF i > 1 /\ IsTerminator(code[i - 1]) THEN {Never} ELSE A

CheckOk ==
    stage = "check" =>
        /\ counter \in Nat
        /\ nonNull \subseteq C!names /\ \A c \in checked : IsCheck(C!names, c)
        /\ i > 1 /\ IsTerminator(code[i - 1]) => nonNull = {} /\ checked = {}
        /\ Links(out)
        /\ \E L : /\ Below(L, counter) /\ OwesNothing(L, C!errLabel)
                  /\ Leads(L, out, {}, Reached(Known))

(* Where nothing is found out, nothing is known.                           *)
LEMMA NothingKnown ==
    KnownOf({}, {}) = {}
BY DEF KnownOf

(* One instruction is passed.                                              *)
LEMMA CheckGrows ==
    ASSUME CheckOk, stage = "check", stage' = stage, code' = code, fun' = fun,
           i \in Nat \ {0}, i' = i + 1, IsSeq(out), NEW s, IsSeq(s), s # <<>>, Links(s),
           out' = out \o s, counter' \in Nat,
           nonNull' \subseteq C!names, \A c \in checked' : IsCheck(C!names, c),
           IsTerminator(code[i]) => nonNull' = {} /\ checked' = {},
           \A L : Below(L, counter) /\ OwesNothing(L, C!errLabel) =>
              \E M : /\ Extends(M, L) /\ Below(M, counter')
                     /\ Leads(M, s, Known, IF IsTerminator(code[i]) THEN {Never} ELSE Known')
    PROVE  CheckOk'
<1>0. i' > 1 /\ i' - 1 = i
  OBVIOUS
<1>1. PICK L : /\ Below(L, counter) /\ OwesNothing(L, C!errLabel)
               /\ Leads(L, out, {}, Reached(Known))
  BY DEF CheckOk
<1>. DEFINE B == IF IsTerminator(code[i]) THEN {Never} ELSE Known'
<1>2. PICK M : Extends(M, L) /\ Below(M, counter') /\ Leads(M, s, Known, B)
  BY <1>1
<1>3. B = Reached(Known)'
  BY <1>0 DEF Reached
<1>. HIDE DEF B
<1>4. Leads(M, s, Reached(Known), B)
  <2>1. CASE i > 1 /\ IsTerminator(code[i - 1])
    <3>1. Known = {} /\ Reached(Known) = {Never}
      BY <2>1, NothingKnown DEF CheckOk, Known, Reached
    <3>. QED BY <1>2, <3>1, LeadsMore
  <2>2. CASE ~(i > 1 /\ IsTerminator(code[i - 1]))
    BY <1>2, <2>2 DEF Reached
  <2>. QED BY <2>1, <2>2
<1>5. Leads(M, out, {}, Reached(Known))
  BY <1>1, <1>2, LeadsStill
<1>6. Leads(M, out \o s, {}, B)
  BY <1>4, <1>5, LeadsOn
<1>7. Links(out \o s)
  BY LinksJoined DEF CheckOk
<1>8. OwesNothing(M, C!errLabel)
  BY <1>1, <1>2, OwesStill
<1>9. C!names' = C!names /\ C!errLabel' = C!errLabel
  BY DEF C!names, C!errLabel, C!Shared
<1>10. Links(out)' <=> Links(out')
  BY DEF Links, Linked
<1>11. \E N : /\ Below(N, counter') /\ OwesNothing(N, C!errLabel')
              /\ Leads(N, out', {}, Reached(Known)')
  BY <1>2, <1>3, <1>6, <1>8, <1>9
<1>. QED BY <1>0, <1>7, <1>9, <1>10, <1>11 DEF CheckOk

(* An instruction that has nothing inserted in front of it.                *)
LEMMA CheckPasses ==
    ASSUME CheckOk, stage = "check", stage' = stage, code' = code, fun' = fun,
           i \in Nat \ {0}, i' = i + 1, IsSeq(out), NEW x, x = code[i],
           Linked(x), out' = out \o <<x>>, counter' = counter,
           nonNull' \subseteq C!names, \A c \in checked' : IsCheck(C!names, c),
           IsTerminator(x) => nonNull' = {} /\ checked' = {},
           \A L : Flows(L, Known, x, IF IsTerminator(x) THEN {Never} ELSE Known')
    PROVE  CheckOk'
<1>. DEFINE s == <<x>>
            B == IF IsTerminator(x) THEN {Never} ELSE Known'
<1>1. IsSeq(s) /\ s # <<>> /\ Links(s)
  BY TuplesAre DEF Links
<1>2. counter \in Nat
  BY DEF CheckOk
<1>. HIDE DEF B
<1>3. \A L : Flows(L, Known, x, B)
  BY DEF B
<1>4. \A L : Leads(L, s, Known, B)
  BY <1>3, LeadsOne
<1>5. \A L : Extends(L, L)
  BY DEF Extends
<1>6. \A L : Below(L, counter) /\ OwesNothing(L, C!errLabel) =>
              \E M : /\ Extends(M, L) /\ Below(M, counter')
                     /\ Leads(M, s, Known, IF IsTerminator(code[i]) THEN {Never} ELSE Known')
  BY <1>4, <1>5 DEF B
<1>. HIDE DEF s
<1>7. out' = out \o s
  BY DEF s
<1>. QED BY <1>1, <1>2, <1>6, <1>7, CheckGrows

(* The passing on of an instruction, as the pass does it.                  *)
LEMMA CheckEmits ==
    ASSUME NEW s, IsSeq(s), NEW k, C!Emit(s, k)
    PROVE  /\ i' = i + 1 /\ out' = out \o (s \o <<code[i]>>) /\ counter' = k
           /\ code' = code /\ fun' = fun
<1>. DEFINE x == code[i]
<1>1. Append(s, x) = s \o <<x>>
  BY Appended
<1>. QED BY <1>1 DEF C!Emit, C!ins

(* Nothing in front of one instruction.                                    *)
LEMMA NothingInFront ==
    \A x : IsSeq(<<>>) /\ <<>> \o <<x>> = <<x>>
BY TuplesAre

(* Control comes from elsewhere or goes elsewhere.                         *)
LEMMA BoundaryStep ==
    ASSUME CheckOk, CodeOk, stage = "check", stage' = stage, IsCode(code), IsSeq(out),
           i \in Nat \ {0}, C!PassBoundary
    PROVE  CheckOk'
<1>. DEFINE x == code[i]
<1>1. C!Emit(<<>>, counter) /\ nonNull' = {} /\ checked' = {}
  BY DEF C!PassBoundary
<1>2. i \in DOMAIN code
  BY IsSeqIs DEF C!PassBoundary, C!At, IsCode
<1>3. IsTerminator(x) \/ x.op \in {"label", "call"}
  BY SameC DEF C!PassBoundary, C!ins
<1>4. /\ i' = i + 1 /\ out' = out \o <<x>> /\ counter' = counter
      /\ code' = code /\ fun' = fun
  BY <1>1, CheckEmits, NothingInFront
<1>5. IsEncoding(x)
  BY <1>2 DEF CodeOk, Range
<1>6. Known' = {}
  BY <1>1, NothingKnown DEF Known
<1>. HIDE DEF x
<1>7. \A l \in Range(x.to) : l[1] # "new_var"
  BY <1>5 DEF IsEncoding
<1>8. \A L, l : l \in Range(x.to) => Owed(L, l) = {}
  BY <1>7 DEF Owed
<1>9. ASSUME NEW L PROVE Flows(L, Known, x, IF IsTerminator(x) THEN {Never} ELSE Known')
  <2>1. CASE IsTerminator(x)
    <3>1. x.of # 0 /\ x.op \notin {"label", "call", "store"} /\ x.op \notin Accesses
      BY <1>5, <2>1 DEF IsEncoding, IsTerminator, Accesses
    <3>2. Pays(L, Known, x)
      BY <1>8, <3>1 DEF Pays
    <3>. QED BY <1>7, <2>1, <3>1, <3>2 DEF Flows
  <2>2. CASE x.op = "label"
    <3>1. 1 \in DOMAIN x.to /\ x.to[1] \in Range(x.to)
      BY <1>5, <2>2 DEF IsEncoding, Range
    <3>2. Owed(L, x.to[1]) = {}
      BY <1>8, <3>1
    <3>3. ~IsTerminator(x)
      BY <2>2 DEF IsTerminator
    <3>. QED BY <1>6, <1>7, <2>2, <3>1, <3>2, <3>3 DEF Flows, Accesses
  <2>3. CASE x.op = "call"
    <3>1. ~IsTerminator(x)
      BY <2>3 DEF IsTerminator
    <3>. QED BY <1>6, <1>7, <2>3, <3>1 DEF Flows, Accesses
  <2>. QED BY <1>3, <2>1, <2>2, <2>3
<1>10. nonNull' \subseteq C!names /\ \A c \in checked' : IsCheck(C!names, c)
  BY <1>1
<1>11. Linked(x)
  BY <1>5 DEF IsEncoding
<1>12. x = code[i]
  BY DEF x
<1>13. IsTerminator(x) => nonNull' = {} /\ checked' = {}
  BY <1>1
<1>. QED BY <1>4, <1>9, <1>10, <1>11, <1>12, <1>13, CheckPasses

(* An instruction that only writes.                                        *)
LEMMA OtherStep ==
    ASSUME CheckOk, CodeOk, stage = "check", stage' = stage, IsCode(code), IsSeq(out),
           i \in Nat \ {0}, C!PassOther
    PROVE  CheckOk'
<1>. DEFINE x == code[i]
<1>1. /\ C!Emit(<<>>, counter) /\ nonNull' = nonNull \ {x.dst}
      /\ checked' = C!Without(checked, x.dst)
  BY MoreSameC DEF C!PassOther, C!ins, Written
<1>2. i \in DOMAIN code
  BY IsSeqIs DEF C!PassOther, C!At, IsCode
<1>3. x.op \in {"def", "assign", "op", "alloc"}
  BY DEF C!PassOther, C!ins
<1>4. /\ i' = i + 1 /\ out' = out \o <<x>> /\ counter' = counter
      /\ code' = code /\ fun' = fun
  BY <1>1, CheckEmits, NothingInFront
<1>5. IsEncoding(x)
  BY <1>2 DEF CodeOk, Range
<1>12. x = code[i]
  BY DEF x
<1>. HIDE DEF x
<1>6. x.dst # NoName /\ Linked(x) /\ \A l \in Range(x.to) : l[1] # "new_var"
  BY <1>3, <1>5 DEF IsEncoding, Writers
<1>7. ~IsTerminator(x) /\ x.op \notin {"label", "call", "store"} /\ x.op \notin Accesses
  BY <1>3 DEF IsTerminator, Accesses
<1>. DEFINE S1 == nonNull \ {x.dst}
            T1 == C!Without(checked, x.dst)
<1>8. nonNull \subseteq C!names /\ \A c \in checked : IsCheck(C!names, c)
  BY DEF CheckOk
<1>15. S1 = nonNull \ {x.dst} /\ T1 = C!Without(checked, x.dst)
  OBVIOUS
<1>16. nonNull' = S1 /\ checked' = T1
  BY <1>1
<1>. HIDE DEF S1, T1
<1>9. /\ KnownOf(S1, T1) \subseteq Keep(KnownOf(nonNull, checked), x.dst)
      /\ S1 \subseteq C!names /\ \A c \in T1 : IsCheck(C!names, c)
  <2>. DEFINE y == x.dst
              R == C!names
  <2>1. /\ nonNull \subseteq R /\ \A c \in checked : IsCheck(R, c)
        /\ S1 = nonNull \ {y} /\ T1 = C!Without(checked, y) /\ y # NoName
    BY <1>6, <1>8, <1>15
  <2>. HIDE DEF y, R
  <2>2. KnownOf(S1, T1) \subseteq Keep(KnownOf(nonNull, checked), y)
    BY <2>1, KnownKept
  <2>3. S1 \subseteq R /\ \A c \in T1 : IsCheck(R, c)
    BY <2>1 DEF C!Without
  <2>. QED BY <2>2, <2>3 DEF y, R
<1>10. Known' \subseteq Keep(Known, x.dst)
  BY <1>9, <1>16 DEF Known
<1>11. \A L : Flows(L, Known, x, IF IsTerminator(x) THEN {Never} ELSE Known')
  BY <1>6, <1>7, <1>10 DEF Flows
<1>13. IsTerminator(x) => nonNull' = {} /\ checked' = {}
  BY <1>7
<1>14. nonNull' \subseteq C!names /\ \A c \in checked' : IsCheck(C!names, c)
  BY <1>9, <1>16
<1>. QED BY <1>4, <1>6, <1>11, <1>12, <1>13, <1>14, CheckPasses

(* The names of the error block are no names of the code.                  *)
LEMMA ErrorNames ==
    ASSUME IsSeq(fun.params), IsCode(code)
    PROVE  /\ IsFiniteSet(C!names)
           /\ C!errLine \notin C!names /\ C!errLine # NoName
           /\ C!Shared(code)[2] \in Nat
           /\ C!errLabel = NewVar(C!Shared(code)[2])
<1>. DEFINE R == Reserved(fun.params, code)
            n == Fresh(R, 0, 2)
<1>1. C!names = R /\ IsFiniteSet(R)
  BY SameReserved, ReservedFinite DEF C!names
<1>2. C!Shared(code) = n
  BY SameReserved, SameFresh DEF C!Shared
<1>. HIDE DEF R
<1>3. n[1] \in Nat /\ n[2] \in Nat /\ NewVar(n[1]) \notin R
  BY <1>1, FreshIs
<1>. HIDE DEF n
<1>4. C!errLine = NewVar(n[1]) /\ C!errLabel = NewVar(n[2])
  BY <1>2, MoreSameC DEF C!errLine, C!errLabel
<1>. QED BY <1>1, <1>2, <1>3, <1>4, NamesDiffer

(* The indices are variables of the code, or numbers.                      *)
LEMMA IndexNames ==
    ASSUME IsCode(code), i \in DOMAIN code, NEW x, x = code[i]
    PROVE  /\ IsSeq(Indices(x))
           /\ \A d \in DOMAIN Indices(x) : Indices(x)[d].name \in C!names \cup {NoName}
<1>. DEFINE t == x.args
<1>1. IsSeq(t)
  BY DEF IsCode
<1>2. \A d \in DOMAIN t : t[d].name \in C!names \cup {NoName}
  <2>1. NamesOf(t) \subseteq C!names
    BY SameReserved DEF C!names, Reserved, Reads
  <2>. QED BY <2>1 DEF NamesOf
<1>3. IsSeq(Front(t))
  BY <1>1, TermsAre DEF E!Front, Front
<1>. HIDE DEF t
<1>4. \A d \in DOMAIN Front(t) : d \in DOMAIN t /\ Front(t)[d] = t[d]
  <2>1. t \in Seq(Range(t)) /\ Len(t) \in Nat /\ DOMAIN t = 1 .. Len(t)
    BY <1>1, IsSeqIs DEF IsSeq
  <2>2. CASE Len(t) = 0
    <3>1. DOMAIN Front(t) = {}
      BY <2>1, <2>2 DEF Front
    <3>. QED BY <3>1
  <2>3. CASE Len(t) > 0
    <3>. DEFINE n == Len(t) - 1
    <3>1. n \in Nat /\ n <= Len(t)
      BY <2>1, <2>3
    <3>2. SubSeq(t, 1, n) = [d \in 1 .. n |-> t[d]]
      BY <2>1, <3>1
    <3>. QED BY <2>1, <3>1, <3>2 DEF Front
  <2>. QED BY <2>1, <2>2, <2>3
<1>5. Indices(x) = t \/ Indices(x) = Front(t)
  BY DEF Indices, t
<1>. QED BY <1>1, <1>2, <1>3, <1>4, <1>5

(* The array is known not to be null, or is compared with null.            *)
LEMMA NullPart ==
    ASSUME CheckOk, stage = "check", IsSeq(fun.params), IsCode(code), NEW a \in C!names,
           NEW L, Below(L, counter), OwesNothing(L, C!errLabel),
           NEW p, p = [new     |-> IF a \in nonNull THEN <<>> ELSE C!NullCheck(a, counter),
                       counter |-> IF a \in nonNull THEN counter
                                   ELSE C!Fresh(C!names, counter, 2)[2] + 1]
    PROVE  Proves(p, counter, L, Known, KnownOf(nonNull \cup {a}, checked))
<1>1. /\ counter \in Nat /\ nonNull \subseteq C!names
      /\ \A c \in checked : IsCheck(C!names, c)
  BY DEF CheckOk
<1>2. Steady(C!names, Known)
  BY <1>1, KnownSteady DEF Known
<1>3. KnownOf(nonNull \cup {a}, checked) = Known \cup {NullOf(a)}
  BY DEF KnownOf, Known
<1>4. CASE a \in nonNull
  <2>1. nonNull \cup {a} = nonNull
    BY <1>4
  <2>2. Extends(L, L) /\ Leads(L, <<>>, Known, Known)
    BY LeadsNowhere DEF Extends
  <2>3. p.new = <<>> /\ p.counter = counter
    BY <1>4
  <2>4. IsSeq(<<>>) /\ Links(<<>>)
    BY TuplesAre DEF Links
  <2>5. KnownOf(nonNull \cup {a}, checked) = Known
    BY <2>1 DEF Known
  <2>6. counter >= counter
    BY <1>1
  <2>. QED BY <1>1, <2>2, <2>3, <2>4, <2>5, <2>6 DEF Proves
<1>5. CASE a \notin nonNull
  <2>. DEFINE s == C!NullCheck(a, counter)
              q == C!Fresh(C!names, counter, 2)[2] + 1
              B == Known \cup {NullOf(a)}
  <2>1. p.new = s /\ p.counter = q
    BY <1>5
  <2>2. /\ IsFiniteSet(C!names) /\ C!errLine \notin C!names /\ C!errLine # NoName
    BY ErrorNames
  <2>3. /\ q \in Nat /\ q >= counter /\ IsSeq(s) /\ Links(s)
        /\ \E M : Extends(M, L) /\ Below(M, q) /\ Leads(M, s, Known, B)
    BY <1>1, <1>2, <2>2, NullCheckLeads
  <2>. HIDE DEF s, q
  <2>. QED BY <1>3, <2>1, <2>3 DEF Proves
<1>. QED BY <1>4, <1>5

(* The indices have been checked, or are.                                  *)
LEMMA BoundsPart ==
    ASSUME IsFiniteSet(C!names), NEW a \in C!names, NEW S, S \subseteq C!names,
           NEW T, \A c \in T : IsCheck(C!names, c), NEW terms, IsSeq(terms),
           \A d \in DOMAIN terms : terms[d].name \in C!names \cup {NoName},
           C!TypeOf(a) = "tuple" => Len(terms) <= 1,
           NEW k \in Nat, NEW L, Below(L, k),
           NEW q, q = IF terms = <<>> \/ <<a, terms>> \in T THEN [new |-> <<>>, counter |-> k]
                      ELSE C!BoundsChecks(a, terms, k),
           NEW T1, T1 = T \cup (IF terms = <<>> THEN {} ELSE {<<a, terms>>})
    PROVE  Proves(q, k, L, KnownOf(S, T), KnownOf(S, T1)) /\ \A c \in T1 : IsCheck(C!names, c)
<1>1. CASE terms = <<>> \/ <<a, terms>> \in T
  <2>1. T1 = T
    BY <1>1
  <2>2. q.new = <<>> /\ q.counter = k
    BY <1>1
  <2>3. Extends(L, L) /\ Leads(L, <<>>, KnownOf(S, T), KnownOf(S, T))
    BY LeadsNowhere DEF Extends
  <2>4. IsSeq(<<>>) /\ Links(<<>>)
    BY TuplesAre DEF Links
  <2>5. k >= k
    OBVIOUS
  <2>. QED BY <2>1, <2>2, <2>3, <2>4, <2>5 DEF Proves
<1>2. CASE terms # <<>> /\ <<a, terms>> \notin T
  <2>1. T1 = T \cup {<<a, terms>>} /\ q = C!BoundsChecks(a, terms, k)
    BY <1>2
  <2>2. Steady(C!names, KnownOf(S, T))
    BY KnownSteady
  <2>. DEFINE A == KnownOf(S, T)
              C0 == Compared(a, terms, Len(terms))
  <2>3. Proves(q, k, L, A, A \cup C0)
    BY <2>1, <2>2, BoundsChecksLead
  <2>4. KnownOf(S, T1) = A \cup C0
    <3>1. <<a, terms>>[1] = a /\ <<a, terms>>[2] = terms
      OBVIOUS
    <3>. DEFINE c0 == <<a, terms>>
    <3>2. C0 = Compared(c0[1], c0[2], Len(c0[2]))
      BY <3>1
    <3>. HIDE DEF c0, C0
    <3>3. T1 = T \cup {c0}
      BY <2>1 DEF c0
    <3>. QED BY <3>2, <3>3 DEF KnownOf
  <2>5. IsCheck(C!names, <<a, terms>>)
    BY DEF IsCheck
  <2>. QED BY <2>1, <2>3, <2>4, <2>5
<1>. QED BY <1>1, <1>2

(* What an access needs is known once its indices have been checked.       *)
LEMMA NeededKnown ==
    ASSUME NEW x, IsSeq(Indices(x)), NEW S, x.base \in S, NEW T,
           x.op # "length" => \/ Indices(x) = <<>>
                              \/ <<x.base, Indices(x)>> \in T
    PROVE  Needed(x) \subseteq KnownOf(S, T)
<1>. DEFINE t == Indices(x)
            a == x.base
<1>1. DOMAIN t = 1 .. Len(t) /\ Len(t) \in Nat
  BY IsSeqIs
<1>2. NullOf(a) \in KnownOf(S, T)
  BY DEF KnownOf
<1>3. ASSUME x.op # "length", NEW d \in DOMAIN t
      PROVE  LowOf(t[d]) \in KnownOf(S, T) /\ HighOf(a, t[d], d) \in KnownOf(S, T)
  <2>1. t # <<>>
    BY <1>1, <1>3
  <2>2. <<a, t>> \in T
    BY <1>3, <2>1
  <2>. DEFINE c == <<a, t>>
  <2>3. c[1] = a /\ c[2] = t /\ c \in T
    BY <2>2
  <2>. HIDE DEF c, t, a
  <2>4. LowOf(t[d]) \in Compared(a, t, Len(t)) /\ HighOf(a, t[d], d) \in Compared(a, t, Len(t))
    BY <1>1, <1>3 DEF Compared
  <2>5. Compared(a, t, Len(t)) \subseteq KnownOf(S, T)
    BY <2>3 DEF KnownOf
  <2>. QED BY <2>4, <2>5
<1>4. ASSUME NEW f \in Needed(x)
      PROVE  \/ f = NullOf(a)
             \/ x.op # "length" /\ \E d \in DOMAIN t : f = LowOf(t[d]) \/ f = HighOf(a, t[d], d)
  BY <1>4 DEF Needed, NullOf, LowOf, HighOf
<1>. HIDE DEF t, a
<1>. QED BY <1>2, <1>3, <1>4

(* Before an access, what it needs is found out.                           *)
LEMMA AccessStep ==
    ASSUME SourceOk, CheckOk, CodeOk, stage = "check", stage' = stage, IsCode(code), IsSeq(out),
           i \in Nat \ {0}, C!CheckAccess
    PROVE  CheckOk'
<1>. DEFINE x == code[i]
            a == x.base
            terms == C!IndicesToCheck
            p == [new     |-> IF a \in nonNull THEN <<>> ELSE C!NullCheck(a, counter),
                  counter |-> IF a \in nonNull THEN counter
                              ELSE C!Fresh(C!names, counter, 2)[2] + 1]
            q == IF terms = <<>> \/ <<a, terms>> \in checked
                 THEN [new |-> <<>>, counter |-> p.counter]
                 ELSE C!BoundsChecks(a, terms, p.counter)
            r == [new |-> p.new \o q.new, counter |-> q.counter]
            S1 == nonNull \cup {a}
            T1 == checked \cup (IF terms = <<>> THEN {} ELSE {<<a, terms>>})
            S2 == S1 \ {x.dst}
            T2 == C!Without(T1, x.dst)
<1>1. i \in DOMAIN code /\ C!ins = x /\ x.op \in Accesses
  BY IsSeqIs, MoreSameC DEF C!CheckAccess, C!At, C!ins, IsCode
<1>2. C!Emit(p.new \o q.new, q.counter) /\ nonNull' = S2 /\ checked' = T2
  <2>1. C!Written(C!ins) = x.dst
    BY <1>1, MoreSameC DEF Written
  <2>. HIDE DEF x
  <2>. QED BY <1>1, <2>1 DEF C!CheckAccess
<1>3. IsEncoding(x)
  BY <1>1 DEF CodeOk, Range
<1>4. /\ a \in C!names
      /\ x.op = "length" => terms = <<>>
      /\ x.op # "length" => /\ terms = Indices(x)
                            /\ C!TypeOf(a) = "tuple" => Len(Indices(x)) = 1
  BY <1>1, IndicesChecked
<1>5. /\ IsSeq(Indices(x))
      /\ \A d \in DOMAIN Indices(x) : Indices(x)[d].name \in C!names \cup {NoName}
  BY <1>1, IndexNames
<1>6. /\ counter \in Nat /\ nonNull \subseteq C!names
      /\ \A c \in checked : IsCheck(C!names, c)
  BY DEF CheckOk
<1>7. IsSeq(fun.params) /\ IsFiniteSet(C!names)
  BY ErrorNames DEF SourceOk
<1>8. /\ IsSeq(terms)
      /\ \A d \in DOMAIN terms : terms[d].name \in C!names \cup {NoName}
      /\ C!TypeOf(a) = "tuple" => Len(terms) <= 1
  <2>. HIDE DEF terms, a, x
  <2>1. CASE x.op = "length"
    <3>1. terms = <<>>
      BY <1>4, <2>1
    <3>2. DOMAIN <<>> = {} /\ Len(<<>>) <= 1 /\ IsSeq(<<>>)
      BY TuplesAre
    <3>. QED BY <3>1, <3>2
  <2>2. CASE x.op # "length"
    BY <1>4, <1>5, <2>2
  <2>. QED BY <2>1, <2>2
<1>9. x = code[i]
  OBVIOUS
<1>10. a = x.base
  OBVIOUS
<1>11. p = [new     |-> IF a \in nonNull THEN <<>> ELSE C!NullCheck(a, counter),
            counter |-> IF a \in nonNull THEN counter
                        ELSE C!Fresh(C!names, counter, 2)[2] + 1]
  OBVIOUS
<1>12. q = IF terms = <<>> \/ <<a, terms>> \in checked
           THEN [new |-> <<>>, counter |-> p.counter]
           ELSE C!BoundsChecks(a, terms, p.counter)
  OBVIOUS
<1>13. r = [new |-> p.new \o q.new, counter |-> q.counter]
  OBVIOUS
<1>14. /\ S1 = nonNull \cup {a} /\ S2 = S1 \ {x.dst}
       /\ T1 = checked \cup (IF terms = <<>> THEN {} ELSE {<<a, terms>>})
       /\ T2 = C!Without(T1, x.dst)
  OBVIOUS
<1>. HIDE DEF x, a, terms, p, q, r, S1, T1, S2, T2
<1>15. \A L : Below(L, counter) /\ OwesNothing(L, C!errLabel)
                => Proves(p, counter, L, Known, KnownOf(S1, checked))
  BY <1>4, <1>7, <1>11, <1>14, NullPart
<1>16. PICK L0 : Below(L0, counter) /\ OwesNothing(L0, C!errLabel)
  BY DEF CheckOk
<1>17. p.counter \in Nat /\ p.counter >= counter /\ S1 \subseteq C!names
  BY <1>4, <1>6, <1>14, <1>15, <1>16 DEF Proves
<1>18. ASSUME NEW M, Below(M, p.counter)
       PROVE  /\ Proves(q, p.counter, M, KnownOf(S1, checked), KnownOf(S1, T1))
              /\ \A c \in T1 : IsCheck(C!names, c)
  BY <1>4, <1>6, <1>7, <1>8, <1>12, <1>14, <1>17, <1>18, BoundsPart
<1>19. \A L : Below(L, counter) /\ OwesNothing(L, C!errLabel)
                => Proves(r, counter, L, Known, KnownOf(S1, T1))
  <2>. TAKE L
  <2>. HAVE Below(L, counter) /\ OwesNothing(L, C!errLabel)
  <2>1. Proves(p, counter, L, Known, KnownOf(S1, checked))
    BY <1>15
  <2>. QED BY <1>6, <1>13, <1>18, <2>1, ProvesOn
<1>20. \A c \in T1 : IsCheck(C!names, c)
  <2>1. PICK M : Below(M, p.counter)
    BY <1>15, <1>16 DEF Proves
  <2>. QED BY <1>18, <2>1
<1>21. /\ KnownOf(S2, T2) \subseteq KnownOf(S1, T1) \ {Never}
       /\ x.dst # NoName => KnownOf(S2, T2) \subseteq Keep(KnownOf(S1, T1), x.dst)
  <2>. DEFINE y == x.dst
              R == C!names
  <2>1. /\ S1 \subseteq R /\ \A c \in T1 : IsCheck(R, c)
        /\ S2 = S1 \ {y} /\ T2 = C!Without(T1, y)
    BY <1>14, <1>17, <1>20
  <2>. HIDE DEF y, R
  <2>2. KnownOf(S2, T2) \subseteq KnownOf(S1, T1) /\ Never \notin KnownOf(S1, T1)
    BY <2>1, KnownKept
  <2>3. y # NoName => KnownOf(S2, T2) \subseteq Keep(KnownOf(S1, T1), y)
    BY <2>1, KnownKept
  <2>. QED BY <2>2, <2>3 DEF y
<1>22. S2 \subseteq C!names /\ \A c \in T2 : IsCheck(C!names, c)
  BY <1>14, <1>17, <1>20 DEF C!Without
<1>23. Needed(x) \subseteq KnownOf(S1, T1)
  <2>1. x.op # "length" => Indices(x) = <<>> \/ <<x.base, Indices(x)>> \in T1
    BY <1>4, <1>10, <1>14
  <2>2. x.base \in S1
    BY <1>10, <1>14
  <2>. QED BY <1>5, <2>1, <2>2, NeededKnown
<1>24. ~IsTerminator(x) /\ x.op \notin {"label", "call"}
  BY <1>1 DEF IsTerminator, Accesses
<1>25. Known' = KnownOf(S2, T2)
  BY <1>2 DEF Known
<1>26. ASSUME NEW M PROVE Flows(M, KnownOf(S1, T1), x, KnownOf(S2, T2))
  <2>. DEFINE A == KnownOf(S1, T1)
              B == KnownOf(S2, T2)
  <2>1. /\ B \subseteq A \ {Never} /\ Needed(x) \subseteq A
        /\ x.dst # NoName => B \subseteq Keep(A, x.dst)
    BY <1>21, <1>23
  <2>2. \A l \in Range(x.to) : l[1] # "new_var"
    BY <1>3 DEF IsEncoding
  <2>3. x.op # "store" => x.dst # NoName
    BY <1>1, <1>3 DEF IsEncoding, Writers, Accesses
  <2>. HIDE DEF A, B
  <2>4. Flows(M, A, x, B)
    BY <1>24, <2>1, <2>2, <2>3 DEF Flows
  <2>. QED BY <2>4 DEF A, B
<1>27. Linked(x)
  BY <1>3 DEF IsEncoding
<1>. DEFINE u == r.new
            s == u \o <<x>>
<1>28. IsSeq(u) /\ Links(u) /\ q.counter \in Nat /\ r.counter = q.counter
  BY <1>13, <1>16, <1>19 DEF Proves
<1>29. /\ i' = i + 1 /\ out' = out \o s /\ counter' = q.counter
       /\ code' = code /\ fun' = fun
  <2>1. C!Emit(u, q.counter)
    BY <1>2, <1>13
  <2>. HIDE DEF u
  <2>. QED BY <1>9, <1>28, <2>1, CheckEmits
<1>. HIDE DEF u
<1>30. \A L : Below(L, counter) /\ OwesNothing(L, C!errLabel) =>
         \E M : Extends(M, L) /\ Below(M, counter') /\ Leads(M, s, Known, Known')
  <2>. TAKE L
  <2>. HAVE Below(L, counter) /\ OwesNothing(L, C!errLabel)
  <2>1. PICK M : /\ Extends(M, L) /\ Below(M, q.counter)
                 /\ Leads(M, u, Known, KnownOf(S1, T1))
    BY <1>19, <1>28 DEF Proves, u
  <2>2. Leads(M, s, Known, KnownOf(S2, T2))
    BY <1>26, <1>27, <1>28, <2>1, OneMore
  <2>. QED BY <1>25, <1>29, <2>1, <2>2
<1>31. IsSeq(s) /\ s # <<>> /\ Links(s)
  <2>1. IsSeq(<<x>>) /\ Len(<<x>>) = 1 /\ Links(<<x>>)
    BY <1>27, TuplesAre DEF Links
  <2>. DEFINE w == <<x>>
  <2>2. IsSeq(w) /\ Len(w) = 1 /\ Links(w)
    BY <2>1
  <2>. HIDE DEF w
  <2>3. IsSeq(u \o w) /\ Len(u \o w) = Len(u) + 1 /\ Len(u) \in Nat /\ Links(u \o w)
    BY <1>28, <2>2, Joined, LinksJoined
  <2>4. u \o w # <<>>
    BY <2>3
  <2>. QED BY <2>3, <2>4 DEF w
<1>. HIDE DEF s
<1>32. counter' \in Nat
  BY <1>28, <1>29
<1>33. nonNull' \subseteq C!names /\ \A c \in checked' : IsCheck(C!names, c)
  BY <1>2, <1>22
<1>34. ~IsTerminator(code[i])
  BY <1>9, <1>24
<1>. QED BY <1>29, <1>30, <1>31, <1>32, <1>33, <1>34, CheckGrows

(* The pass starts with nothing found out; the error label owes nothing.   *)
LEMMA CheckOkStart ==
    ASSUME SourceOk, IsCode(out), nonNull = {}, checked = {}, nonNull' = {}, checked' = {},
           C!CheckStart(out)
    PROVE  CheckOk'
<1>. DEFINE n == C!Shared(out)[2]
            L == [m \in {n} |-> {}]
<1>1. /\ code' = out /\ i' = 1 /\ out' = <<>> /\ counter' = n + 1 /\ fun' = fun
  BY DEF C!CheckStart
<1>2. n \in Nat
  <2>. DEFINE R == Reserved(fun.params, out)
  <2>1. IsFiniteSet(R)
    BY ReservedFinite DEF SourceOk
  <2>2. C!Shared(out) = Fresh(R, 0, 2)
    BY SameReserved, SameFresh DEF C!Shared
  <2>. HIDE DEF R
  <2>3. Fresh(R, 0, 2)[2] \in Nat
    BY <2>1, FreshIs
  <2>. QED BY <2>2, <2>3
<1>3. C!errLabel' = NewVar(n)
  <2>1. C!Shared(code)' = C!Shared(out)
    BY <1>1 DEF C!Shared
  <2>. QED BY <2>1, MoreSameC DEF C!errLabel
<1>. HIDE DEF n
<1>4. OwesNothing(L, NewVar(n)) /\ Below(L, n + 1)
  BY <1>2 DEF OwesNothing, Placed, Owed, NewVar, Below
<1>5. Known' = {}
  BY NothingKnown DEF Known
<1>6. Reached(Known)' = {}
  BY <1>1, <1>5 DEF Reached
<1>7. Leads(L, <<>>, {}, {})
  BY LeadsNowhere
<1>. HIDE DEF L
<1>8. \E M : /\ Below(M, counter') /\ OwesNothing(M, C!errLabel')
             /\ Leads(M, out', {}, Reached(Known)')
  BY <1>1, <1>3, <1>4, <1>6, <1>7
<1>9. Links(out)'
  BY <1>1 DEF Links
<1>10. counter' \in Nat /\ ~(i' > 1)
  BY <1>1, <1>2
<1>. QED BY <1>8, <1>9, <1>10 DEF CheckOk

(* Its result, with the error block, starts where nothing is known.        *)
LEMMA CheckOkEnd ==
    ASSUME CheckOk, stage = "check", IsSeq(out)
    PROVE  Links(C!CheckResult) /\ \E L, B : Leads(L, C!CheckResult, {}, B)
<1>1. PICK L : /\ Below(L, counter) /\ OwesNothing(L, C!errLabel)
               /\ Leads(L, out, {}, Reached(Known))
  BY DEF CheckOk
<1>2. Links(out)
  BY DEF CheckOk
<1>3. CASE ~useError
  BY <1>1, <1>2, <1>3 DEF C!CheckResult
<1>4. CASE useError
  <2>. DEFINE D == Reached(Known)
              e1 == Def(C!errLine, "int64")
              e2 == Label(C!errLabel)
              e3 == Call(NoName, C!Name("tensor-error"), <<C!Var(C!errLine)>>)
              e4 == Branch(C!errLabel)
              f == <<e1>>
              t == <<e2, e3, e4>>
  <2>1. C!CheckResult = f \o out \o t
    BY <1>4, SameC, MoreSameC DEF C!CheckResult
  <2>2. Linked(e1) /\ Linked(e2) /\ Linked(e3) /\ Linked(e4)
    BY InsertedAre DEF Linked
  <2>3. Flows(L, {}, e1, {})
    BY InsertedFlows
  <2>4. Placed(L, C!errLabel) /\ Owed(L, C!errLabel) = {}
    BY <1>1 DEF OwesNothing
  <2>5. Flows(L, D, e2, {}) /\ Flows(L, {}, e4, {Never})
    BY <2>4, ControlFlows
  <2>6. Flows(L, {}, e3, {})
    BY CallFlows
  <2>. HIDE DEF e1, e2, e3, e4, D
  <2>7. Leads(L, f, {}, {}) /\ IsSeq(f) /\ Links(f)
    BY <2>2, <2>3, LeadsOne, TuplesAre DEF Links
  <2>8. Leads(L, t, D, {Never}) /\ IsSeq(t) /\ Links(t)
    <3>. DEFINE t0 == <<e2>>
                t1 == <<e3, e4>>
    <3>1. Leads(L, t0, D, {}) /\ IsSeq(t0) /\ Links(t0)
      BY <2>2, <2>5, LeadsOne, TuplesAre DEF Links
    <3>2. t = t0 \o t1
      OBVIOUS
    <3>. HIDE DEF t0
    <3>3. Leads(L, t0 \o t1, D, {Never}) /\ Links(t0 \o t1)
      BY <2>2, <2>5, <2>6, <3>1, TwoMore
    <3>4. IsSeq(t)
      BY TuplesAre
    <3>. QED BY <3>2, <3>3, <3>4
  <2>. HIDE DEF f, t
  <2>9. Leads(L, f \o out, {}, D) /\ IsSeq(f \o out) /\ Links(f \o out)
    BY <1>1, <1>2, <2>7, LeadsOn, Joined, LinksJoined DEF D
  <2>. DEFINE g == f \o out
  <2>10. Leads(L, g, {}, D) /\ IsSeq(g) /\ Links(g)
    BY <2>9
  <2>. HIDE DEF g
  <2>11. Leads(L, g \o t, {}, {Never}) /\ Links(g \o t)
    BY <2>8, <2>10, LeadsOn, LinksJoined
  <2>. QED BY <2>1, <2>11 DEF g
<1>. QED BY <1>3, <1>4

-----------------------------------------------------------------------------
(* The invariant: every pass knows what will be known when the code it has *)
(* written is run, and the run knows it when it is there.                  *)
AccessInv ==
    /\ LaInv /\ SourceOk
    /\ stage = "encode" => nonNull = {} /\ checked = {}
    /\ stage \in {"encode", "check", "blocks"} => pc = 1
    /\ EncodingOk /\ CodeOk /\ CheckOk /\ BlocksOk /\ RunOk

(* The source does not change.                                             *)
LEMMA SourceStays ==
    ASSUME SourceOk, fun' = fun
    PROVE  SourceOk'
BY DEF SourceOk

(* The invariant holds at first,                                           *)
LEMMA AccessInvStarts ==
    ASSUME Init
    PROVE  AccessInv
<1>1. stage = "encode" /\ nonNull = {} /\ checked = {} /\ pc = 1
  BY DEF Init
<1>. QED BY <1>1, LaInvStarts, SourceOkStart, EncodingOkStart
         DEF AccessInv, CodeOk, CheckOk, BlocksOk, RunOk

(* and every step keeps it.                                                *)
LEMMA AccessInvKept ==
    ASSUME AccessInv, [Next]_vars
    PROVE  AccessInv'
<1>0. LaInv /\ LaInv' /\ SourceOk /\ BlocksAreFormed
  BY LaInvKept DEF AccessInv, LaInv
<1>1. CASE EncodeValues
  <2>1. /\ stage = "encode" /\ stage' = "encode" /\ E!EncodeNext
        /\ nonNull' = nonNull /\ checked' = checked /\ pc' = pc
    BY <1>1 DEF EncodeValues, checkState, runState
  <2>2. Passed(code, out, i, {})
    BY <1>0, <2>1 DEF LaInv
  <2>3. fun' = fun
    BY <2>1, <2>2, EncodeStep
  <2>4. EncodingOk'
    BY <1>0, <2>1, <2>2, EncodingStep DEF AccessInv
  <2>5. SourceOk'
    BY <1>0, <2>3, SourceStays
  <2>. QED BY <1>0, <2>1, <2>4, <2>5 DEF AccessInv, CodeOk, CheckOk, BlocksOk, RunOk
<1>2. CASE StartChecks
  <2>1. /\ stage = "encode" /\ stage' = "check" /\ i > Len(code) /\ C!CheckStart(out)
        /\ nonNull' = nonNull /\ checked' = checked /\ pc' = pc
        /\ code' = out /\ fun' = fun
    BY <1>2 DEF StartChecks, checkState, runState, C!CheckStart
  <2>2. Passed(code, out, i, {})
    BY <1>0, <2>1 DEF LaInv
  <2>3. IsCode(out) /\ i \in Nat
    BY <2>1, <2>2, PassedAll DEF Passed
  <2>4. nonNull = {} /\ checked = {} /\ EncodingOk
    BY <2>1 DEF AccessInv
  <2>5. CodeOk'
    BY <1>0, <2>1, <2>3, <2>4, CodeOkStart
  <2>6. CheckOk'
    BY <1>0, <2>1, <2>3, <2>4, CheckOkStart
  <2>7. SourceOk'
    BY <1>0, <2>1, SourceStays
  <2>8. pc' = 1
    BY <2>1 DEF AccessInv
  <2>. QED BY <1>0, <2>1, <2>5, <2>6, <2>7, <2>8 DEF AccessInv, EncodingOk, BlocksOk, RunOk
<1>3. CASE CheckAccesses
  <2>1. stage = "check" /\ stage' = "check" /\ C!CheckNext /\ pc' = pc
    BY <1>3 DEF CheckAccesses, runState
  <2>2. Passed(code, out, i, Pending)
    BY <1>0, <2>1 DEF LaInv
  <2>3. code' = code /\ fun' = fun
    BY <2>1, <2>2, CheckStep
  <2>4. IsCode(code) /\ IsSeq(out) /\ i \in Nat \ {0}
    BY <2>2 DEF Passed, IsCode
  <2>5. CheckOk'
    BY <1>0, <2>1, <2>4, AccessStep, BoundaryStep, OtherStep DEF AccessInv, C!CheckNext
  <2>6. CodeOk'
    <3>1. \A x : IsEncoding(x)' <=> IsEncoding(x)
      BY <2>3 DEF IsEncoding, Linked
    <3>2. CodeOk
      BY DEF AccessInv
    <3>. QED BY <2>1, <2>3, <3>1, <3>2 DEF CodeOk, Declared
  <2>7. SourceOk'
    BY <1>0, <2>3, SourceStays
  <2>8. pc' = 1
    BY <2>1 DEF AccessInv
  <2>. QED BY <1>0, <2>1, <2>5, <2>6, <2>7, <2>8 DEF AccessInv, EncodingOk, BlocksOk, RunOk
<1>4. CASE StartBlocks
  <2>. DEFINE c == C!CheckResult
  <2>1. /\ stage = "check" /\ stage' = "blocks" /\ i > Len(code) /\ C!BlockStart(c)
        /\ pc' = pc /\ fun' = fun
    BY <1>4 DEF StartBlocks, runState, C!BlockStart
  <2>2. Passed(code, out, i, Pending) /\ afterTerminator = FALSE
    BY <1>0, <2>1 DEF LaInv
  <2>3. IsCode(c)
    BY <2>1, <2>2, CheckResultIs
  <2>4. IsSeq(out)
    BY <2>2 DEF Passed, IsCode
  <2>5. Links(c) /\ \E L, B : Leads(L, c, {}, B)
    BY <2>1, <2>4, CheckOkEnd DEF AccessInv
  <2>. HIDE DEF c
  <2>6. BlocksOk'
    BY <2>1, <2>2, <2>3, <2>5, BlocksOkStart
  <2>7. SourceOk'
    BY <1>0, <2>1, SourceStays
  <2>8. pc' = 1
    BY <2>1 DEF AccessInv
  <2>. QED BY <1>0, <2>1, <2>6, <2>7, <2>8 DEF AccessInv, EncodingOk, CodeOk, CheckOk, RunOk
<1>5. CASE FormBlocks
  <2>1. stage = "blocks" /\ stage' = "blocks" /\ C!BlockNext /\ pc' = pc
    BY <1>5 DEF FormBlocks, runState
  <2>2. Passed(code, out, i, {}) /\ InBlocks(out, afterTerminator)
    BY <1>0, <2>1 DEF LaInv
  <2>3. fun' = fun
    BY <2>1, <2>2, BlockStep
  <2>4. BlocksOk'
    BY <2>1, <2>2, BlocksOkStep DEF AccessInv
  <2>5. SourceOk'
    BY <1>0, <2>3, SourceStays
  <2>6. pc' = 1
    BY <2>1 DEF AccessInv
  <2>. QED BY <1>0, <2>1, <2>4, <2>5, <2>6 DEF AccessInv, EncodingOk, CodeOk, CheckOk, RunOk
<1>6. CASE StartRun
  <2>1. /\ stage = "blocks" /\ stage' = "run" /\ i > Len(code) /\ code' = C!BlockResult
        /\ pc' = pc /\ fun' = fun
    BY <1>6, Zenon DEF StartRun
  <2>2. Passed(code, out, i, {}) /\ InBlocks(out, afterTerminator)
    BY <1>0, <2>1 DEF LaInv
  <2>3. IsCode(out)
    BY <2>2 DEF Passed
  <2>4. pc' = 1
    BY <2>1 DEF AccessInv
  <2>5. RunOk'
    BY <2>1, <2>2, <2>3, <2>4, RunOkStart DEF AccessInv
  <2>6. SourceOk'
    BY <1>0, <2>1, SourceStays
  <2>. QED BY <1>0, <2>1, <2>5, <2>6 DEF AccessInv, EncodingOk, CodeOk, CheckOk, BlocksOk
<1>7. CASE Run
  <2>1. code' = code /\ fun' = fun /\ stage = "run" /\ stage' \in {"run", "stopped"}
    BY <1>7 DEF Run, Instruction, RunReturn, RunError, RunsWith, Inserted, CanRun, RunCopy,
         RunWrite, RunCall, RunStore, RunJump, RunInsertedMark, RunInsertedAssign,
         RunInsertedLength, RunInsertedOp, RunInsertedCond, RunInsertedBranch
  <2>2. RunOk'
    <3>1. CASE Instruction /\ stage' = stage
      BY <1>0, <2>1, <3>1, RunStep DEF AccessInv
    <3>2. CASE stage' = "stopped"
      BY <3>2 DEF RunOk
    <3>. QED BY <1>7, <2>1, <3>1, <3>2 DEF Run, RunReturn, RunError
  <2>3. SourceOk'
    BY <1>0, <2>1, SourceStays
  <2>. QED BY <1>0, <2>1, <2>2, <2>3 DEF AccessInv, EncodingOk, CodeOk, CheckOk, BlocksOk
<1>8. CASE UNCHANGED vars
  <2>1. /\ UNCHANGED <<fun, code, i, out, counter, stage, pc, holds, facts, afterTerminator>>
        /\ UNCHANGED <<nonNull, checked>>
    BY <1>8 DEF vars, checkState, runState
  <2>2. /\ \A x : Linked(x)' <=> Linked(x)
        /\ \A x : IsEncoding(x)' <=> IsEncoding(x)
    BY <2>1 DEF IsEncoding, Linked
  <2>3. SourceOk'
    BY <1>0, <2>1, SourceStays
  <2>4. EncodingOk' /\ CodeOk'
    <3>1. EncodingOk /\ CodeOk
      BY DEF AccessInv
    <3>. QED BY <2>1, <2>2, <3>1 DEF EncodingOk, CodeOk, Declared
  <2>5. CheckOk'
    <3>1. C!names' = C!names /\ C!errLabel' = C!errLabel /\ Known' = Known
      BY <2>1 DEF C!names, C!errLabel, C!Shared, Known
    <3>2. Links(out)' <=> Links(out)
      BY <2>1, <2>2 DEF Links
    <3>3. Reached(Known)' = Reached(Known)
      BY <2>1, <3>1 DEF Reached
    <3>4. CheckOk
      BY DEF AccessInv
    <3>. QED BY <2>1, <3>1, <3>2, <3>3, <3>4 DEF CheckOk
  <2>6. \A L, K : Certified(L, K)' <=> Certified(L, K)
    BY <2>1, <2>2 DEF Certified
  <2>7. BlocksOk'
    <3>1. Links(out)' <=> Links(out)
      BY <2>1, <2>2 DEF Links
    <3>2. BlocksOk
      BY DEF AccessInv
    <3>. QED BY <2>1, <2>6, <3>1, <3>2 DEF BlocksOk
  <2>8. RunOk'
    <3>1. \A L, K : Here(L, K)' = Here(L, K)
      BY <2>1 DEF Here, now
    <3>2. RunOk
      BY DEF AccessInv
    <3>. QED BY <2>1, <2>6, <3>1, <3>2 DEF RunOk
  <2>. QED BY <1>0, <2>1, <2>3, <2>4, <2>5, <2>7, <2>8 DEF AccessInv
<1>. QED BY <1>1, <1>2, <1>3, <1>4, <1>5, <1>6, <1>7, <1>8 DEF Next

(* No element is read or written, and no length is read, before the array  *)
(* and the indices have been compared, on the path that was taken and with *)
(* the values they have: whatever checks are left out because they were    *)
(* made before, in a function of any length.                               *)
THEOREM AccessesAreChecked == Spec => []AccessIsChecked
<1>1. Init => AccessInv
  BY AccessInvStarts
<1>2. AccessInv /\ [Next]_vars => AccessInv'
  BY AccessInvKept
<1>3. AccessInv => AccessIsChecked
  BY RunChecks DEF AccessInv
<1>. QED BY <1>1, <1>2, <1>3, PTL DEF Spec

=============================================================================
