--------------------------- MODULE L2AllocProofs ----------------------------
(***************************************************************************)
(* For every function, every register file and every order in which equal  *)
(* degrees are met: the graph that is coloured is an interference graph,   *)
(* the rewritten function has no variable left, and it computes what the   *)
(* source does.  The analysis and the colouring are proved in              *)
(* L2LivenessProofs and L2ColoringProofs, spilling in L2SpillProofs; here  *)
(* the allocator's states are related to them.                             *)
(***************************************************************************)
EXTENDS L2SpillProofs, FiniteSetTheorems

(* The code that Rewrite makes of c.                                       *)
Compiled(c) == [i \in DOMAIN c |-> WithoutStackArg(Colored(c[i]))]

(* The liveness sets are those of c, a solution of the equations.          *)
AnalysedFor(c) ==
    \A i \in DOMAIN c :
        /\ ins[i] = Gen(c[i]) \cup (outs[i] \ Kill(c[i]))
        /\ outs[i] = UNION {ins[j] : j \in Succ(c, i)}

(* Every location has a register, another one than any value the location  *)
(* would destroy.                                                          *)
AssignedFor(c) ==
    /\ \A o \in Registers \cup {Imm} : InRegister(o) = o
    /\ \A i \in DOMAIN c :
          /\ \A l \in (Gen(c[i]) \cup Kill(c[i]) \cup ins[i] \cup outs[i]) \cap Homes :
                InRegister(l) \in GPR
          /\ \A x \in Kill(c[i]) \cap Homes : \A y \in outs[i] \cap Homes :
                x # y => InRegister(x) # InRegister(y)
          /\ c[i].op = "shift" /\ c[i].u \in Names => InRegister(c[i].u) = RCX

-----------------------------------------------------------------------------
(* The rewritten instructions.                                             *)
LEMMA HomesAre ==
    /\ RSP \notin Homes /\ Imm \notin Homes /\ Imm # RSP
    /\ Imm \notin Locations /\ Locations = Homes \cup {RSP}
    /\ GPR \subseteq Homes /\ Names \cap GPR = {} /\ Operands = Homes \cup {RSP, Imm}
BY NamesAssumption, RegistersAssumption DEF Homes, Locations, Registers, Operands

LEMMA OperandAssigned ==
    ASSUME NEW c \in Seq(Instructions), AssignedFor(c), NEW i \in DOMAIN c,
           NEW o \in {c[i].d, c[i].u, c[i].v}
    PROVE  /\ o \in Operands
           /\ o \in Homes => InRegister(o) \in GPR
           /\ o \notin Homes => InRegister(o) = o /\ o \in {RSP, Imm}
<1>0. c[i] \in Instructions
  OBVIOUS
<1>1. o \in Operands
  BY <1>0 DEF Instructions
<1>2. CASE o \in Names
  <2>1. o \in Gen(c[i]) \cup Kill(c[i]) /\ o \in Homes
    BY <1>0, <1>2, Occurs DEF Touches, Homes
  <2>. QED BY <1>1, <2>1 DEF AssignedFor
<1>3. CASE o \in GPR
  BY <1>1, <1>3, HomesAre DEF AssignedFor, Registers
<1>4. CASE o \in {RSP, Imm}
  BY <1>1, <1>4, HomesAre DEF AssignedFor, Registers
<1>. QED BY <1>1, <1>2, <1>3, <1>4, HomesAre DEF Homes

LEMMA CompiledFields ==
    ASSUME NEW c \in Seq(Instructions), NEW i \in DOMAIN c
    PROVE  LET m == Compiled(c)[i]
           IN  /\ m.op = (IF c[i].op = "stackarg" THEN "load" ELSE c[i].op)
               /\ m.d = InRegister(c[i].d)
               /\ c[i].op # "stackarg" =>
                     /\ m.u = InRegister(c[i].u) /\ m.v = InRegister(c[i].v)
                     /\ m.k = c[i].k /\ m.lab = c[i].lab
               /\ c[i].op = "stackarg" => m.u = RSP /\ m.v = Imm /\ m.k = numLocals + c[i].k
<1>1. c[i] \in [op : {"move", "load", "store", "stackarg", "update", "shift", "compute",
                      "label", "goto", "cjump", "call", "error", "return"},
                d : Operands, u : Operands, v : Operands, k : Int, lab : Labels]
  BY DEF Instructions
<1>2. LET q == Colored(c[i])
      IN  /\ q.op = c[i].op /\ q.k = c[i].k /\ q.lab = c[i].lab
          /\ q.d = InRegister(c[i].d) /\ q.u = InRegister(c[i].u)
          /\ q.v = InRegister(c[i].v)
  BY <1>1 DEF Colored
<1>3. Compiled(c)[i] = WithoutStackArg(Colored(c[i]))
  BY DEF Compiled
<1>. QED BY <1>2, <1>3 DEF WithoutStackArg, Load, Instr

(* Jumps go where they went.                                               *)
LEMMA CompiledBranch ==
    ASSUME NEW c \in Seq(Instructions), NEW i \in DOMAIN c, NEW taken \in BOOLEAN
    PROVE  Branch(Compiled(c), i, taken) = Branch(c, i, taken)
<1>1. DOMAIN Compiled(c) = DOMAIN c
  BY DEF Compiled
<1>2. \A j \in DOMAIN c :
         LET jumps == {"label", "goto", "cjump", "return", "error"}
         IN  Compiled(c)[j].op \in jumps \/ c[j].op \in jumps =>
                Compiled(c)[j].op = c[j].op /\ Compiled(c)[j].lab = c[j].lab
  BY CompiledFields
<1>3. \A l : LabelIndices(Compiled(c), l) = LabelIndices(c, l)
  BY <1>1, <1>2 DEF LabelIndices
<1>4. \A l : Targets(Compiled(c), l) = Targets(c, l)
  BY <1>3 DEF Targets
<1>. QED BY <1>1, <1>2, <1>4 DEF Branch

-----------------------------------------------------------------------------
(* Source and machine side by side: what the certificate says a location   *)
(* holds, its register holds, as long as the location is live.             *)
Together(c, w) ==
    /\ code = Compiled(c) /\ mat \in DOMAIN c
    /\ at = w.org[mat] /\ at \in DOMAIN source
    /\ known \subseteq Locations
    /\ DOMAIN holds = GPR /\ DOMAIN slots = 0 .. numLocals - 1
    /\ \A l \in ins[mat] \cap Homes :
          w.has[mat][l] \cap known \subseteq holds[InRegister(l)]
    /\ \A k \in 0 .. numLocals - 1 : w.slot[mat][k] \cap known \subseteq slots[k]

Compilation(c, w) ==
    /\ source \in Sources /\ numLocals \in Nat
    /\ c \in Seq(Instructions)
    /\ Certifies(source, c, numLocals, w)
    /\ AnalysedFor(c) /\ AssignedFor(c)

(* The instructions that access a slot are those of the code before the    *)
(* rewriting.                                                              *)
LEMMA AccessesStay ==
    ASSUME NEW c, NEW w, Compilation(c, w), Together(c, w)
    PROVE  /\ SpillAccess(code[mat]) <=> Access(c[mat])
           /\ IsLoad(c[mat]) => /\ code[mat].op = "load" /\ LoadAt(c, numLocals, w, mat)
                                /\ code[mat].d = InRegister(c[mat].d)
                                /\ code[mat].k = c[mat].k
           /\ IsStore(c[mat]) => /\ code[mat].op = "store" /\ StoreAt(c, numLocals, w, mat)
                                 /\ code[mat].u = InRegister(c[mat].u)
                                 /\ code[mat].k = c[mat].k
           /\ ~Access(c[mat]) => ImageAt(source, c, numLocals, w, mat)
<1>1. /\ source \in Sources /\ c \in Seq(Instructions) /\ mat \in DOMAIN c
      /\ c[mat] \in Instructions /\ w.org[mat] \in DOMAIN source /\ numLocals \in Nat
      /\ AssignedFor(c) /\ code = Compiled(c)
  BY DEF Compilation, Together
<1>2. /\ IsLoad(c[mat]) => LoadAt(c, numLocals, w, mat)
      /\ IsStore(c[mat]) => StoreAt(c, numLocals, w, mat)
      /\ ~Access(c[mat]) => ImageAt(source, c, numLocals, w, mat)
  BY <1>1 DEF Compilation, Certifies
<1>3. /\ InRegister(c[mat].u) = RSP <=> c[mat].u = RSP
      /\ InRegister(c[mat].d) = RSP <=> c[mat].d = RSP
  BY <1>1, OperandAssigned, HomesAre
<1>4. c[mat].k \in Int
  BY <1>1 DEF Instructions
<1>5. CASE c[mat].op = "stackarg"
  <2>1. ~Access(c[mat])
    BY <1>5 DEF Access, IsLoad, IsStore
  <2>2. source[at].op = "stackarg" /\ source[at].k = c[mat].k
    BY <1>2, <1>5, <2>1 DEF ImageAt, Like, Together
  <2>3. c[mat].k >= 0
    BY <1>1, <2>2, StackAssumption DEF Together
  <2>4. code[mat].op = "load" /\ code[mat].k = numLocals + c[mat].k
    BY <1>1, <1>5, CompiledFields
  <2>5. code[mat].k \notin 0 .. numLocals - 1
    BY <1>1, <1>4, <2>3, <2>4
  <2>. QED BY <1>2, <2>1, <2>5 DEF SpillAccess, Access
<1>6. CASE c[mat].op # "stackarg"
  <2>1. /\ code[mat].op = c[mat].op /\ code[mat].k = c[mat].k
        /\ code[mat].u = InRegister(c[mat].u) /\ code[mat].d = InRegister(c[mat].d)
    BY <1>1, <1>6, CompiledFields
  <2>2. IsLoad(c[mat]) => c[mat].k \in 0 .. numLocals - 1
    BY <1>2 DEF LoadAt
  <2>3. IsStore(c[mat]) => c[mat].k \in 0 .. numLocals - 1
    BY <1>2 DEF StoreAt
  <2>4. c[mat].k \in 0 .. numLocals - 1 => c[mat].k >= 0
    BY <1>1
  <2>5. SpillAccess(code[mat]) <=> Access(c[mat])
    BY <1>3, <2>1, <2>2, <2>3, <2>4 DEF SpillAccess, Access, IsLoad, IsStore
  <2>. QED BY <1>2, <2>1, <2>5 DEF IsLoad, IsStore
<1>. QED BY <1>5, <1>6

(* What the machine holds is what the source has.                          *)
LEMMA TogetherIsSound ==
    ASSUME NEW c, NEW w, Compilation(c, w), Together(c, w)
    PROVE  AllocationSound
<1>. SUFFICES ASSUME ~SpillAccess(code[mat])
              PROVE  LET s == source[at]
                         m == code[mat]
                     IN  /\ m.op = (IF s.op = "stackarg" THEN "load" ELSE s.op)
                         /\ \A f \in ReadFields(s) :
                               s[f] \in known /\ s[f] # RSP => s[f] \in holds[m[f]]
                         /\ \A r \in Gen(s) \ {s[f] : f \in ReadFields(s)} :
                               r \in known => r \in holds[r]
  BY DEF AllocationSound
<1>. DEFINE s == source[at]
            m == code[mat]
            i == c[mat]
<1>1. /\ source \in Sources /\ source \in Seq(Instructions) /\ c \in Seq(Instructions)
      /\ mat \in DOMAIN c /\ at = w.org[mat] /\ at \in DOMAIN source
      /\ i \in Instructions /\ s \in Instructions /\ known \subseteq Locations
      /\ AssignedFor(c) /\ AnalysedFor(c) /\ m = Compiled(c)[mat]
  BY SourcesAssumption DEF Compilation, Together
<1>2. ImageAt(source, c, numLocals, w, mat)
  BY AccessesStay
<1>3. Like(i, s) /\ Reads(w, mat, i, s)
  BY <1>1, <1>2 DEF ImageAt
<1>4. m.op = IF s.op = "stackarg" THEN "load" ELSE s.op
  BY <1>1, <1>3, CompiledFields DEF Like
<1>5. Gen(i) \subseteq ins[mat]
  BY <1>1 DEF AnalysedFor
<1>6. ReadFields(s) = ReadFields(i) /\ ReadFields(s) \subseteq {"d", "u", "v"}
  BY <1>3 DEF Like, ReadFields
<1>7. ASSUME NEW f \in ReadFields(s), s[f] \in known, s[f] # RSP
      PROVE  s[f] \in holds[m[f]]
  <2>1. s[f] \in Homes
    BY <1>1, <1>7, HomesAre
  <2>2. s[f] \in w.has[mat][i[f]]
    BY <1>3, <2>1 DEF Reads
  <2>3. i[f] \in Homes
    BY <1>3, <1>6, <2>1 DEF Like, Homes
  <2>4. i[f] \in Gen(i)
    <3>1. i[f] \in {i[g] : g \in ReadFields(i)}
      BY <1>6
    <3>2. \A g \in ReadFields(i) : i[g] \in Locations => i[g] \in Gen(i)
      BY DEF ReadFields, Gen
    <3>. QED BY <1>6, <2>3, <3>2, HomesAre
  <2>5. s[f] \in holds[InRegister(i[f])]
    BY <1>5, <1>7, <2>2, <2>3, <2>4 DEF Together
  <2>6. i.op # "stackarg"
    <3>1. SUFFICES ASSUME i.op = "stackarg" PROVE FALSE
      OBVIOUS
    <3>2. i.u = Imm /\ i.v = Imm /\ f \in {"u", "v"}
      BY <1>1, <1>6, <3>1 DEF Instructions, ReadFields
    <3>3. i[f] = Imm
      BY <3>2
    <3>. QED BY <2>3, <3>3, HomesAre
  <2>7. m[f] = InRegister(i[f])
    BY <1>1, <1>6, <2>6, CompiledFields
  <2>. QED BY <2>5, <2>7
<1>8. ASSUME NEW r \in Gen(s) \ {s[f] : f \in ReadFields(s)}, r \in known
      PROVE  r \in holds[r]
  <2>1. r \in w.has[mat][r]
    BY <1>3 DEF Reads, Fields
  <2>2. r \in GPR /\ r \in Gen(i)
    <3>1. /\ s.op \in {"call", "error"} => r \in ArgumentRegisters(s.k)
          /\ s.op = "return" => r \in {RAX} \cup CalleeSaved
          /\ s.op \in {"call", "error", "return"}
      BY DEF Gen, ReadFields
    <3>2. r \in GPR
      BY <3>1, RegistersAssumption DEF ArgumentRegisters
    <3>. QED BY <1>3, <3>1, <3>2 DEF Gen, Like
  <2>3. r \in holds[InRegister(r)]
    BY <1>5, <1>8, <2>1, <2>2, HomesAre DEF Together
  <2>. QED BY <1>1, <2>2, <2>3 DEF AssignedFor, Registers
<1>. QED BY <1>4, <1>7, <1>8

(* Only the register of the location that an instruction writes changes    *)
(* under it; what is live behind it was live before, or is written.        *)
LEMMA LiveBehind ==
    ASSUME NEW c \in Seq(Instructions), AnalysedFor(c), AssignedFor(c),
           NEW i \in DOMAIN c, NEW j \in Succ(c, i), NEW l \in ins[j] \cap Homes
    PROVE  /\ InRegister(l) \in GPR
           /\ l \notin Kill(c[i]) => l \in ins[i] \cap Homes
           /\ \A x \in Kill(c[i]) \cap Homes : x # l => InRegister(x) # InRegister(l)
<1>1. l \in outs[i]
  BY DEF AnalysedFor
<1>2. l \notin Kill(c[i]) => l \in ins[i]
  BY <1>1 DEF AnalysedFor
<1>. QED BY <1>1, <1>2 DEF AssignedFor

(* The allocator's own loads and stores.                                   *)
LEMMA SlotStep ==
    ASSUME NEW c, NEW w, Compilation(c, w), Together(c, w), RunSpillCode
    PROVE  Together(c, w)'
<1>. DEFINE i == c[mat]
            m == code[mat]
<1>1. /\ c \in Seq(Instructions) /\ mat \in DOMAIN c /\ i \in Instructions
      /\ AnalysedFor(c) /\ AssignedFor(c)
      /\ WitnessType(source, c, numLocals, w)
  BY DEF Compilation, Together, Certifies
<1>2. /\ mat' = mat + 1
      /\ UNCHANGED <<source, code, livenessVars, coloring, numLocals, at, known>>
      /\ SpillAccess(m)
  BY DEF RunSpillCode, colorVars
<1>3. Access(i)
  BY <1>2, AccessesStay
<1>4. /\ mat + 1 \in DOMAIN c /\ w.org[mat + 1] = w.org[mat]
      /\ IsLoad(i) => LoadAt(c, numLocals, w, mat)
      /\ IsStore(i) => StoreAt(c, numLocals, w, mat)
  BY <1>3, AccessesStay DEF Access, LoadAt, StoreAt
<1>5. mat + 1 \in Succ(c, mat)
  BY <1>3, <1>4 DEF Succ, Access, IsLoad, IsStore
<1>6. /\ Compiled(c)' = Compiled(c) /\ \A l : InRegister(l)' = InRegister(l)
      /\ ins' = ins
  BY <1>2 DEF Compiled, WithoutStackArg, Colored, InRegister, livenessVars
<1>7. i.d \in Names /\ IsLoad(i) => i.d \in Kill(i) \cap Homes /\ Kill(i) = {i.d}
  BY DEF Kill, IsLoad, Homes, Locations
<1>8. IsStore(i) => Kill(i) = {} /\ (i.u \in Names => i.u \in Gen(i) /\ i.u \in ins[mat] \cap Homes)
  BY <1>1 DEF Kill, Gen, IsStore, Homes, Locations, AnalysedFor
<1>9. CASE IsLoad(i)
  <2>1. /\ m.op = "load" /\ LoadAt(c, numLocals, w, mat)
        /\ m.d = InRegister(i.d) /\ m.k = i.k
    BY <1>9, AccessesStay
  <2>2. holds' = [holds EXCEPT ![InRegister(i.d)] = slots[i.k]] /\ slots' = slots
    BY <2>1 DEF RunSpillCode
  <2>3. ASSUME NEW l \in ins[mat + 1] \cap Homes
        PROVE  w.has[mat + 1][l] \cap known \subseteq holds'[InRegister(l)]
    <3>1. InRegister(l) \in GPR
      BY <1>1, <1>5, LiveBehind
    <3>2. CASE l = i.d
      BY <2>1, <2>2, <3>1, <3>2 DEF LoadAt, Together
    <3>3. CASE l # i.d
      <4>1. l \in ins[mat] \cap Homes /\ InRegister(i.d) # InRegister(l)
        BY <1>1, <1>5, <1>7, <1>9, <2>1, <3>3, LiveBehind DEF LoadAt
      <4>2. w.has[mat + 1][l] \subseteq w.has[mat][l]
        BY <2>1, <3>3 DEF LoadAt
      <4>. QED BY <2>2, <3>1, <4>1, <4>2 DEF Together
    <3>. QED BY <3>2, <3>3
  <2>4. \A k \in 0 .. numLocals - 1 : w.slot[mat + 1][k] \cap known \subseteq slots'[k]
    BY <2>1, <2>2 DEF LoadAt, Together
  <2>5. DOMAIN holds' = GPR /\ DOMAIN slots' = 0 .. numLocals - 1
    BY <2>2 DEF Together
  <2>. QED BY <1>2, <1>4, <1>6, <2>3, <2>4, <2>5 DEF Together
<1>10. CASE IsStore(i) /\ ~IsLoad(i)
  <2>1. /\ m.op = "store" /\ StoreAt(c, numLocals, w, mat)
        /\ m.u = InRegister(i.u) /\ m.k = i.k
    BY <1>10, AccessesStay
  <2>2. slots' = [slots EXCEPT ![i.k] = holds[InRegister(i.u)]] /\ holds' = holds
    BY <2>1 DEF RunSpillCode
  <2>3. ASSUME NEW l \in ins[mat + 1] \cap Homes
        PROVE  w.has[mat + 1][l] \cap known \subseteq holds'[InRegister(l)]
    <3>1. l \in ins[mat] \cap Homes
      BY <1>1, <1>5, <1>8, <1>10, LiveBehind
    <3>. QED BY <2>1, <2>2, <3>1 DEF StoreAt, Together
  <2>4. ASSUME NEW k \in 0 .. numLocals - 1
        PROVE  w.slot[mat + 1][k] \cap known \subseteq slots'[k]
    <3>1. CASE k = i.k
      <4>1. w.has[mat][i.u] \cap known \subseteq holds[InRegister(i.u)]
        BY <1>8, <1>10, <2>1 DEF StoreAt, Together
      <4>. QED BY <2>1, <2>2, <3>1, <4>1 DEF StoreAt, Together
    <3>2. CASE k # i.k
      BY <2>1, <2>2, <3>2 DEF StoreAt, Together
    <3>. QED BY <3>1, <3>2
  <2>5. DOMAIN holds' = GPR /\ DOMAIN slots' = 0 .. numLocals - 1
    BY <2>2 DEF Together
  <2>. QED BY <1>2, <1>4, <1>6, <2>3, <2>4, <2>5 DEF Together
<1>. QED BY <1>3, <1>9, <1>10 DEF Access

-----------------------------------------------------------------------------
(* A source instruction and its image.                                     *)
KnownAfter(s, K) ==
    (K \ Kill(s)) \cup (IF s.op = "move" /\ s.u \in Locations /\ s.u \notin K
                        THEN {} ELSE Result(s))

LEMMA ResultKilled ==
    ASSUME NEW m PROVE Result(m) \subseteq Kill(m) /\ Kill(m) \subseteq Locations
BY RegistersAssumption DEF Result, Kill, Locations, Registers

LEMMA AfterKnown ==
    ASSUME NEW s, NEW K, K \subseteq Locations,
           NEW F \in SUBSET Locations, NEW H, F \cap K \subseteq H
    PROVE  After(F, s) \cap KnownAfter(s, K) \subseteq After(H, s)
<1>. SUFFICES ASSUME NEW y \in After(F, s) \cap KnownAfter(s, K)
              PROVE  y \in After(H, s)
  OBVIOUS
<1>1. y \in K \/ y \in Kill(s)
  BY ResultKilled DEF KnownAfter
<1>2. CASE y \in F \ Kill(s)
  BY <1>1, <1>2 DEF After
<1>3. CASE s.op = "move" /\ s.u \in F /\ y = s.d
  <2>1. s.u \in Locations /\ y \in Locations
    BY <1>1, <1>3, ResultKilled
  <2>2. y \in Kill(s)
    BY <1>3, <2>1 DEF Kill
  <2>3. s.u \in K
    BY <1>3, <2>1, <2>2 DEF KnownAfter
  <2>. QED BY <1>3, <2>3 DEF After
<1>. QED BY <1>2, <1>3 DEF After

(* What an instruction destroys, its rewritten form destroys, in the       *)
(* registers.                                                              *)
LEMMA CompiledEffect ==
    ASSUME NEW c \in Seq(Instructions), AssignedFor(c), NEW i \in DOMAIN c,
           NEW l \in Homes, InRegister(l) \in GPR,
           \A x \in Kill(c[i]) \cap Homes : x # l => InRegister(x) # InRegister(l)
    PROVE  LET m == Compiled(c)[i]
           IN  /\ l \in Result(c[i]) => InRegister(l) \in Result(m)
               /\ l \notin Kill(c[i]) => InRegister(l) \notin Kill(m)
<1>. DEFINE m == Compiled(c)[i]
            s == c[i]
<1>1. m.op = (IF s.op = "stackarg" THEN "load" ELSE s.op) /\ m.d = InRegister(s.d)
  BY CompiledFields
<1>2. /\ s.d \in Homes => InRegister(s.d) \in GPR
      /\ s.d \notin Homes => InRegister(s.d) \notin GPR
  BY OperandAssigned, HomesAre
<1>3. \A r \in GPR : InRegister(r) = r
  BY DEF AssignedFor, Registers
<1>4. CASE s.op \in {"call", "error"}
  <2>1. Kill(m) = CallerSaved /\ Kill(s) = CallerSaved /\ Result(m) = Result(s)
    BY <1>1, <1>4 DEF Kill, Result
  <2>2. Result(s) \subseteq GPR /\ CallerSaved \subseteq GPR /\ GPR \subseteq Homes
    BY <1>4, <2>1, ResultKilled, RegistersAssumption, HomesAre DEF Result
  <2>3. l \in Result(s) => InRegister(l) = l
    BY <1>3, <2>2
  <2>4. ASSUME l \notin Kill(s), InRegister(l) \in CallerSaved PROVE FALSE
    <3>1. InRegister(l) # l
      BY <2>1, <2>4
    <3>2. InRegister(InRegister(l)) # InRegister(l)
      BY <2>1, <2>2, <2>4, <3>1
    <3>. QED BY <1>3, <3>2
  <2>. QED BY <2>1, <2>3, <2>4
<1>5. CASE s.op \in {"store", "label", "goto", "cjump", "return"}
  <2>1. Kill(m) = {} /\ Kill(s) = {} /\ Result(s) = {}
    BY <1>1, <1>5 DEF Kill, Result
  <2>. QED BY <2>1
<1>6. CASE s.op \notin {"call", "error", "store", "label", "goto", "cjump", "return"}
  <2>1. /\ Kill(s) = {s.d} \cap Locations /\ Result(s) = Kill(s)
        /\ Kill(m) = {InRegister(s.d)} \cap Locations /\ Result(m) = Kill(m)
    BY <1>1, <1>6 DEF Kill, Result
  <2>2. l \in Locations /\ InRegister(l) \in Locations
    BY HomesAre
  <2>3. l \in Result(s) => InRegister(l) \in Result(m)
    BY <2>1, <2>2
  <2>4. ASSUME l \notin Kill(s), InRegister(l) \in Kill(m) PROVE FALSE
    <3>1. InRegister(l) = InRegister(s.d) /\ l # s.d
      BY <2>1, <2>2, <2>4
    <3>2. s.d \in Homes
      BY <1>2, <3>1
    <3>3. s.d \in Kill(s) \cap Homes
      BY <2>1, <3>2, HomesAre
    <3>. QED BY <3>1, <3>3
  <2>. QED BY <2>3, <2>4
<1>. QED BY <1>4, <1>5, <1>6

LEMMA InstructionStep ==
    ASSUME NEW c, NEW w, Compilation(c, w), Together(c, w), RunInstruction
    PROVE  Together(c, w)'
<1>. DEFINE i == c[mat]
            m == code[mat]
            s == source[at]
            result == IF s.op = "move" /\ s.u \in Locations /\ m.u \in GPR
                      THEN After(holds[m.u], s) ELSE Result(s)
<1>1. /\ source \in Seq(Instructions) /\ c \in Seq(Instructions) /\ mat \in DOMAIN c
      /\ i \in Instructions /\ s \in Instructions
      /\ at = w.org[mat] /\ at \in DOMAIN source /\ known \subseteq Locations
      /\ AnalysedFor(c) /\ AssignedFor(c) /\ m = Compiled(c)[mat]
      /\ WitnessType(source, c, numLocals, w)
  BY SourcesAssumption DEF Compilation, Together, Certifies
<1>2. PICK taken \in BOOLEAN :
         at' \in Branch(source, at, taken) /\ mat' \in Branch(code, mat, taken)
  BY DEF RunInstruction
<1>3. /\ UNCHANGED <<source, code, livenessVars, coloring, numLocals>>
      /\ known' = KnownAfter(s, known)
      /\ holds' = [r \in GPR |-> IF r \in Result(m) THEN result
                                 ELSE IF r \in Kill(m) THEN {} ELSE After(holds[r], s)]
      /\ slots' = [k \in DOMAIN slots |-> After(slots[k], s)]
      /\ ~SpillAccess(m)
  BY DEF RunInstruction, KnownAfter, colorVars
<1>4. ImageAt(source, c, numLocals, w, mat)
  BY <1>3, AccessesStay
<1>5. Like(i, s)
  BY <1>1, <1>4 DEF ImageAt
<1>6. mat' \in Branch(c, mat, taken)
  BY <1>1, <1>2, CompiledBranch DEF Together
<1>7. /\ mat' \in DOMAIN c /\ mat' \in Succ(c, mat) /\ at' \in DOMAIN source
      /\ i.op \notin {"return", "error"}
  BY <1>1, <1>2, <1>6, BranchIsOne
<1>8. /\ w.org[mat'] = at'
      /\ \A l \in Homes :
            w.has[mat'][l] \subseteq Carried(w.has[mat], i, s, l) \cup Lost(s)
      /\ \A k \in 0 .. numLocals - 1 :
            w.slot[mat'][k] \subseteq After(w.slot[mat][k], s) \cup Lost(s)
  BY <1>1, <1>2, <1>4, <1>6 DEF ImageAt, Flows
<1>9. KnownAfter(s, known) \cap Lost(s) = {} /\ KnownAfter(s, known) \subseteq Locations
  BY <1>1, ResultKilled DEF KnownAfter, Lost
<1>10. /\ w.has[mat] \in [Homes -> SUBSET Locations]
       /\ w.slot[mat] \in [0 .. numLocals - 1 -> SUBSET Locations]
  BY <1>1 DEF WitnessType
<1>11. /\ Compiled(c)' = Compiled(c) /\ \A l : InRegister(l)' = InRegister(l)
       /\ ins' = ins
  BY <1>3 DEF Compiled, WithoutStackArg, Colored, InRegister, livenessVars
<1>12. ASSUME s.op = "move", i.u \in Homes
       PROVE  /\ s.u \in Locations /\ m.u \in GPR
              /\ After(w.has[mat][i.u], s) \cap KnownAfter(s, known)
                    \subseteq After(holds[m.u], s)
  <2>1. i.op = "move" /\ (i.u = s.u \/ s.u \in Names)
    BY <1>5, <1>12 DEF Like
  <2>2. m.u = InRegister(i.u) /\ m.u \in GPR
    BY <1>1, <1>12, <2>1, CompiledFields, OperandAssigned
  <2>3. i.u \in ins[mat] \cap Homes
    BY <1>1, <1>12, HomesAre DEF AnalysedFor, Gen
  <2>4. w.has[mat][i.u] \cap known \subseteq holds[m.u]
    BY <2>2, <2>3 DEF Together
  <2>5. s.u \in Locations /\ w.has[mat][i.u] \in SUBSET Locations
    BY <1>10, <1>12, <2>1, HomesAre DEF Homes
  <2>. QED BY <1>1, <2>2, <2>4, <2>5, AfterKnown
<1>13. ASSUME s.op = "move", i.u \notin Homes
       PROVE  m.u \notin GPR
  <2>1. i.op = "move"
    BY <1>5, <1>13 DEF Like
  <2>. QED BY <1>1, <1>13, <2>1, CompiledFields, OperandAssigned, HomesAre
<1>14. ASSUME NEW l \in ins[mat'] \cap Homes
       PROVE  w.has[mat'][l] \cap KnownAfter(s, known) \subseteq holds'[InRegister(l)]
  <2>1. /\ InRegister(l) \in GPR
        /\ l \notin Kill(i) => l \in ins[mat] \cap Homes
        /\ \A x \in Kill(i) \cap Homes : x # l => InRegister(x) # InRegister(l)
    BY <1>1, <1>7, LiveBehind
  <2>2. /\ l \in Result(i) => InRegister(l) \in Result(m)
        /\ l \notin Kill(i) => InRegister(l) \notin Kill(m)
    BY <1>1, <2>1, CompiledEffect
  <2>3. Carried(w.has[mat], i, s, l) \cap KnownAfter(s, known)
            \subseteq holds'[InRegister(l)]
    <3>1. CASE l \in Result(i)
      <4>1. holds'[InRegister(l)] = result
        BY <1>3, <2>1, <2>2, <3>1
      <4>2. CASE s.op = "move" /\ i.u \in Homes
        BY <1>12, <3>1, <4>1, <4>2 DEF Carried
      <4>3. CASE ~(s.op = "move" /\ i.u \in Homes)
        <5>1. Carried(w.has[mat], i, s, l) = Result(s)
          BY <3>1, <4>3 DEF Carried
        <5>2. result = Result(s)
          BY <1>13, <4>3
        <5>. QED BY <4>1, <5>1, <5>2
      <4>. QED BY <4>2, <4>3
    <3>2. CASE l \notin Result(i) /\ l \in Kill(i)
      BY <3>2 DEF Carried
    <3>3. CASE l \notin Kill(i)
      <4>1. l \notin Result(i) /\ InRegister(l) \notin Kill(m) \cup Result(m)
        BY <2>2, <3>3, ResultKilled
      <4>2. holds'[InRegister(l)] = After(holds[InRegister(l)], s)
        BY <1>3, <2>1, <4>1
      <4>3. w.has[mat][l] \cap known \subseteq holds[InRegister(l)]
        BY <2>1, <3>3 DEF Together
      <4>4. Carried(w.has[mat], i, s, l) = After(w.has[mat][l], s)
        BY <3>3, <4>1 DEF Carried
      <4>5. w.has[mat][l] \in SUBSET Locations
        BY <1>10
      <4>. QED BY <1>1, <4>2, <4>3, <4>4, <4>5, AfterKnown
    <3>. QED BY <3>1, <3>2, <3>3
  <2>. QED BY <1>8, <1>9, <2>3
<1>15. ASSUME NEW k \in 0 .. numLocals - 1
       PROVE  w.slot[mat'][k] \cap KnownAfter(s, known) \subseteq slots'[k]
  <2>1. slots'[k] = After(slots[k], s)
    BY <1>3 DEF Together
  <2>2. w.slot[mat][k] \cap known \subseteq slots[k] /\ w.slot[mat][k] \in SUBSET Locations
    BY <1>10 DEF Together
  <2>3. After(w.slot[mat][k], s) \cap KnownAfter(s, known) \subseteq slots'[k]
    BY <1>1, <2>1, <2>2, AfterKnown
  <2>. QED BY <1>8, <1>9, <2>3
<1>16. DOMAIN holds' = GPR /\ DOMAIN slots' = 0 .. numLocals' - 1
  BY <1>3 DEF Together
<1>17. code' = Compiled(c)'
  BY <1>3, <1>11 DEF Together
<1>. QED BY <1>3, <1>7, <1>8, <1>9, <1>11, <1>14, <1>15, <1>16, <1>17 DEF Together

-----------------------------------------------------------------------------
(* The proofs about the analysis and the colouring apply to the            *)
(* allocator's variables.                                                  *)
LP == INSTANCE L2LivenessProofs WITH Programs <- Sources
CP == INSTANCE L2ColoringProofs WITH Graphs <- {}

LEMMA AnalysisAssumptions ==
    /\ LP!RegistersAssumption /\ LP!NamesAssumption /\ LP!LabelsAssumption
    /\ LP!ProgramsAssumption
BY RegistersAssumption, NamesAssumption, LabelsAssumption, SourcesAssumption
DEF LP!RegistersAssumption, LP!NamesAssumption, LP!LabelsAssumption,
    LP!ProgramsAssumption, LP!Instructions, Instructions, LP!Operands, Operands,
    LP!Locations, Locations, LP!Registers, Registers

LEMMA SameSizes ==
    \A S : /\ C!Cardinality(S) = CP!Cardinality(S)
           /\ CP!Cardinality(S) = Cardinality(S)
           /\ C!IsFiniteSet(S) <=> IsFiniteSet(S)
           /\ CP!IsFiniteSet(S) <=> IsFiniteSet(S)
<1>1. \A S : C!IsFiniteSet(S) <=> IsFiniteSet(S)
  BY DEF C!IsFiniteSet, IsFiniteSet
<1>2. \A S : CP!IsFiniteSet(S) <=> IsFiniteSet(S)
  BY DEF CP!IsFiniteSet, IsFiniteSet
<1>3. \A S : C!Cardinality(S) = CP!Cardinality(S)
  BY DEF C!Cardinality, CP!Cardinality
<1>4. \A S : CP!Cardinality(S) = Cardinality(S)
  BY DEF CP!Cardinality, Cardinality
<1>. QED BY <1>1, <1>2, <1>3, <1>4

LEMMA ColoringAssumptions == CP!ColorsAssumption /\ CP!GraphsAssumption
BY RegistersAssumption, NamesAssumption, ColorOrderAssumption, SameSizes
DEF CP!ColorsAssumption, CP!GraphsAssumption

LEMMA SameVocabulary ==
    /\ LP!Locations = Locations /\ LP!Registers = Registers
    /\ LP!Instructions = Instructions
    /\ \A m : LP!Gen(m) = Gen(m) /\ LP!Kill(m) = Kill(m)
    /\ \A c, i : LP!Succ(c, i) = Succ(c, i)
<1>1. /\ LP!Locations = Locations /\ LP!Registers = Registers
      /\ LP!Instructions = Instructions
  BY DEF LP!Instructions, Instructions, LP!Operands, Operands,
         LP!Locations, Locations, LP!Registers, Registers
<1>2. \A n : LP!ArgumentRegisters(n) = ArgumentRegisters(n)
  BY DEF LP!ArgumentRegisters, ArgumentRegisters
<1>3. \A m : LP!Gen(m) = Gen(m) /\ LP!Kill(m) = Kill(m)
  BY <1>1, <1>2 DEF LP!Gen, LP!Kill, Gen, Kill
<1>4. \A c, l : LP!Targets(c, l) = Targets(c, l)
  BY DEF LP!Targets, Targets, LP!LabelIndices, LabelIndices
<1>5. \A c, i : LP!Succ(c, i) = Succ(c, i)
  BY <1>4 DEF LP!Succ, Succ
<1>. QED BY <1>1, <1>3, <1>5

LEMMA SameSteps ==
    /\ L!Next => LP!Next
    /\ C!Next => CP!Next
    /\ C!IsInterferenceGraph(graph) <=> CP!IsInterferenceGraph(graph)
<1>1. L!Next => LP!Next
  <2>1. L!Indices = LP!Indices /\ L!LabelsResolve(code) = LP!LabelsResolve(code)
    BY DEF L!Indices, LP!Indices, L!LabelsResolve, LP!LabelsResolve,
           L!LabelIndices, LP!LabelIndices
  <2>2. \A c, i : L!Succ(c, i) = LP!Succ(c, i)
    BY DEF L!Succ, LP!Succ, L!Targets, LP!Targets, L!LabelIndices, LP!LabelIndices
  <2>3. \A m : L!Gen(m) = LP!Gen(m) /\ L!Kill(m) = LP!Kill(m)
    BY DEF L!Gen, LP!Gen, L!Kill, LP!Kill, L!ArgumentRegisters, LP!ArgumentRegisters,
           L!Locations, LP!Locations, L!Registers, LP!Registers
  <2>4. \A i, o : L!OutOf(i) = LP!OutOf(i) /\ L!InOf(i, o) = LP!InOf(i, o)
    BY <2>3 DEF L!OutOf, LP!OutOf, L!InOf, LP!InOf
  <2>. QED BY <2>1, <2>2, <2>4
       DEF L!Next, LP!Next, L!Analyze, LP!Analyze, L!LabelNotFound, LP!LabelNotFound,
           L!SweepStep, LP!SweepStep, L!SweepAgain, LP!SweepAgain,
           L!Converged, LP!Converged
<1>2. C!Next => CP!Next
  <2>1. \A v : C!Remove(v) <=> CP!Remove(v)
    BY DEF C!Remove, CP!Remove
  <2>2. C!Variables = CP!Variables /\ C!Remaining = CP!Remaining /\ C!Simple = CP!Simple
    BY SameSizes DEF C!Variables, CP!Variables, C!Remaining, CP!Remaining, C!Simple, CP!Simple,
           C!NumColors, CP!NumColors
  <2>3. \A S : C!Candidates(S) = CP!Candidates(S)
    BY DEF C!Candidates, CP!Candidates
  <2>4. C!Top = CP!Top /\ C!Rest = CP!Rest /\ \A v : C!Free(v) = CP!Free(v)
    BY DEF C!Top, CP!Top, C!Rest, CP!Rest, C!Free, CP!Free
  <2>. QED BY <2>1, <2>2, <2>3, <2>4, SameSizes
       DEF C!Next, CP!Next, C!Begin, CP!Begin, C!Simplify, CP!Simplify,
           C!SimplifyDone, CP!SimplifyDone, C!PushRest, CP!PushRest,
           C!PushDone, CP!PushDone, C!Select, CP!Select, C!MustSpill, CP!MustSpill,
           C!SelectDone, CP!SelectDone
<1>3. C!IsInterferenceGraph(graph) <=> CP!IsInterferenceGraph(graph)
  BY DEF C!IsInterferenceGraph, CP!IsInterferenceGraph
<1>. QED BY <1>1, <1>2, <1>3

(* Steps of the analysis and of the colouring keep their invariants.       *)
LEMMA AnalysisKeeps ==
    ASSUME LP!TypeOK, LP!SolvedSoFar, L!Next
    PROVE  LP!TypeOK' /\ LP!SolvedSoFar'
BY AnalysisAssumptions, SameSteps, LP!TypeStep, LP!SolvedStep

LEMMA ColoringKeeps ==
    ASSUME CP!TypeOK, CP!ProperInv, C!Next
    PROVE  /\ CP!TypeOK' /\ CP!ProperInv'
           /\ CP!RemovalInv /\ CP!SelectInv => CP!RemovalInv' /\ CP!SelectInv'
BY ColoringAssumptions, SameSteps, CP!TypeStep, CP!ProperStep, CP!RemovalStep, CP!SelectStep

-----------------------------------------------------------------------------
(* What holds while the function is allocated.  The liveness sets and the  *)
(* graph are those of the code at hand until the first variable is         *)
(* spilled.                                                                *)
InSync ==
    \/ phase = "liveness"
    \/ phase = "color" /\ (cpc # "done" \/ toSpill = <<>>)

CodeInv ==
    /\ source \in Sources /\ code \in Seq(Instructions) /\ code # <<>>
    /\ numLocals \in Nat /\ spilledVarIdx \in Nat
    /\ \A k \in DOMAIN SpillName \cap Nat : k >= spilledVarIdx =>
          SpillName[k] \notin VarsOf(code) \cup VarsOf(newInstructions)
    /\ \E w : Certifies(source, code, numLocals, w)

(* The sets name nothing that the code does not.                           *)
Within ==
    lpc \in {"sweep", "done"} =>
        \A i \in DOMAIN code :
            succ[i] = Succ(code, i) /\ ins[i] \cup outs[i] \subseteq Registers \cup VarsOf(code)

AnalysisInv ==
    /\ changed \in BOOLEAN
    /\ phase = "color" \/ lpc = "done" => idx = 0
    /\ InSync => LP!TypeOK /\ LP!SolvedSoFar /\ Within

GraphInv ==
    phase = "color" =>
        /\ CP!TypeOK /\ CP!ProperInv
        /\ InSync => /\ lpc = "done"
                     /\ graph = [x \in Nodes |-> {y \in Nodes \ {x} : Interfere(x, y)}]
                     /\ CP!RemovalInv /\ CP!SelectInv

(* The loop over the instructions has come to next; as long as none of     *)
(* them named the variable, nothing has changed.                           *)
SpillInv ==
    IF Spilling
    THEN /\ next \in 1 .. Len(code) + 1
         /\ \E st, tmp : Expanded(code, Head(toSpill), numLocals, next - 1,
                                  newInstructions, st, tmp)
         /\ (\A i \in 1 .. next - 1 : ~Touches(code[i], Head(toSpill))) =>
               /\ Len(newInstructions) = next - 1
               /\ \A i \in 1 .. next - 1 : newInstructions[i] = code[i]
    ELSE newInstructions = <<>> /\ next = 1

AllocatingInv == CodeInv /\ AnalysisInv /\ GraphInv /\ SpillInv

-----------------------------------------------------------------------------
LEMMA NamesOfCode ==
    ASSUME NEW c \in Seq(Instructions)
    PROVE  /\ VarsOf(c) \subseteq Names
           /\ \A i \in DOMAIN c : Gen(c[i]) \cup Kill(c[i]) \subseteq Registers \cup VarsOf(c)
           /\ \A i \in DOMAIN c : \A x \in Names :
                 x \in {c[i].d, c[i].u, c[i].v} => x \in VarsOf(c)
<1>1. ASSUME NEW i \in DOMAIN c, NEW y \in Gen(c[i]) \cup Kill(c[i])
      PROVE  y \in Registers \cup VarsOf(c)
  <2>1. CASE y \in {c[i].d, c[i].u, c[i].v} \cap Locations
    BY <2>1 DEF Locations, VarsOf
  <2>2. CASE y \notin {c[i].d, c[i].u, c[i].v} \cap Locations
    BY <2>2, RegistersAssumption DEF Gen, Kill, ArgumentRegisters, Registers
  <2>. QED BY <2>1, <2>2
<1>. QED BY <1>1 DEF VarsOf

(* One step of the analysis.                                               *)
LEMMA AnalyzeStep ==
    ASSUME phase = "liveness", AllocatingInv, AnalyzeLiveness
    PROVE  AllocatingInv' /\ phase' = phase
<1>1. /\ UNCHANGED <<source, graph, toSpill, colorVars, spillVars, numLocals,
                     spilledVarIdx, phase, runVars>>
      /\ LP!Next
  BY SameSteps DEF AnalyzeLiveness
<1>2. /\ LP!TypeOK /\ LP!SolvedSoFar /\ Within /\ InSync /\ InSync'
      /\ code \in Seq(Instructions) /\ DOMAIN code = 1 .. Len(code)
  BY <1>1 DEF AllocatingInv, AnalysisInv, CodeInv, InSync
<1>3. code' = code
  BY <1>1 DEF LP!Next, LP!Analyze, LP!LabelNotFound, LP!SweepStep, LP!SweepAgain,
              LP!Converged
<1>4. LP!TypeOK' /\ LP!SolvedSoFar'
  BY <1>2, AnalysisKeeps DEF AnalyzeLiveness
<1>5. lpc' = "done" => idx' = 0
  BY <1>1 DEF LP!Next, LP!Analyze, LP!LabelNotFound, LP!SweepStep, LP!SweepAgain,
              LP!Converged
<1>6. changed' \in BOOLEAN
  BY <1>4 DEF LP!TypeOK
<1>7. Within'
  <2>1. CASE LP!Analyze
    BY <1>2, <2>1, SameVocabulary DEF LP!Analyze, LP!Indices, Within
  <2>2. CASE LP!LabelNotFound
    BY <2>2 DEF LP!LabelNotFound, Within
  <2>3. CASE LP!SweepStep
    <3>1. idx \in DOMAIN code
      BY <1>2, <2>3 DEF LP!SweepStep, LP!TypeOK
    <3>2. /\ lpc = "sweep" /\ UNCHANGED <<code, succ>>
          /\ outs' = [outs EXCEPT ![idx] = LP!OutOf(idx)]
          /\ ins' = [ins EXCEPT ![idx] = LP!InOf(idx, LP!OutOf(idx))]
      BY <2>3 DEF LP!SweepStep
    <3>3. succ[idx] \subseteq DOMAIN code
      BY <1>2, <3>1, <3>2 DEF LP!TypeOK, LP!Indices
    <3>4. LP!OutOf(idx) \subseteq Registers \cup VarsOf(code)
      BY <1>2, <3>2, <3>3 DEF Within, LP!OutOf
    <3>5. LP!InOf(idx, LP!OutOf(idx)) \subseteq Registers \cup VarsOf(code)
      <4>1. Gen(code[idx]) \subseteq Registers \cup VarsOf(code)
        BY <1>2, <3>1, NamesOfCode
      <4>2. LP!Gen(code[idx]) = Gen(code[idx])
        BY SameVocabulary
      <4>. QED BY <3>4, <4>1, <4>2 DEF LP!InOf
    <3>6. DOMAIN ins = DOMAIN code /\ DOMAIN outs = DOMAIN code
      BY <1>2, <3>2 DEF LP!TypeOK, LP!Indices
    <3>7. ASSUME NEW i \in DOMAIN code
          PROVE  /\ succ'[i] = Succ(code, i)
                 /\ ins'[i] \cup outs'[i] \subseteq Registers \cup VarsOf(code)
      <4>1. /\ succ[i] = Succ(code, i)
            /\ ins[i] \cup outs[i] \subseteq Registers \cup VarsOf(code)
        BY <1>2, <3>2 DEF Within
      <4>2. CASE i = idx
        BY <3>2, <3>4, <3>5, <3>6, <4>1, <4>2
      <4>3. CASE i # idx
        BY <3>2, <3>6, <4>1, <4>3
      <4>. QED BY <4>2, <4>3
    <3>. QED BY <3>2, <3>7 DEF Within, Registers
  <2>4. CASE LP!SweepAgain \/ LP!Converged
    BY <1>2, <2>4 DEF LP!SweepAgain, LP!Converged, Within, Registers
  <2>. QED BY <1>1, <2>1, <2>2, <2>3, <2>4 DEF LP!Next
<1>8. CodeInv' /\ GraphInv' /\ SpillInv'
  BY <1>1, <1>3 DEF AllocatingInv, CodeInv, GraphInv, SpillInv, Spilling, spillVars
<1>. QED BY <1>1, <1>2, <1>4, <1>5, <1>6, <1>7, <1>8 DEF AllocatingInv, AnalysisInv

-----------------------------------------------------------------------------
(* The graph of the code is an interference graph.                         *)
LEMMA VarsFinite ==
    ASSUME NEW c \in Seq(Instructions)
    PROVE  IsFiniteSet(VarsOf(c))
<1>. DEFINE V(i) == {c[i].d, c[i].u, c[i].v} \cap Names
            f == [i \in 1 .. Len(c) |-> V(i)]
            T == {V(i) : i \in 1 .. Len(c)}
<1>1. IsFiniteSet(1 .. Len(c)) /\ DOMAIN c = 1 .. Len(c)
  <2>1. Len(c) \in Int /\ 1 \in Int
    OBVIOUS
  <2>. QED BY <2>1, FS_Interval
<1>2. \A U \in T : IsFiniteSet(U)
  <2>. SUFFICES ASSUME NEW i \in 1 .. Len(c) PROVE IsFiniteSet(V(i))
    OBVIOUS
  <2>1. IsFiniteSet({c[i].d})
    BY FS_Singleton
  <2>2. IsFiniteSet({c[i].d} \cup {c[i].u})
    BY <2>1, FS_AddElement
  <2>3. IsFiniteSet(({c[i].d} \cup {c[i].u}) \cup {c[i].v})
    BY <2>2, FS_AddElement
  <2>4. V(i) \in SUBSET (({c[i].d} \cup {c[i].u}) \cup {c[i].v})
    OBVIOUS
  <2>. HIDE DEF V
  <2>. QED BY <2>3, <2>4, FS_Subset
<1>3. f \in Surjection(1 .. Len(c), T)
  BY DEF Surjection
<1>4. VarsOf(c) = UNION T
  BY <1>1 DEF VarsOf
<1>. HIDE DEF f, T
<1>5. IsFiniteSet(T)
  BY <1>1, <1>3, FS_Surjection
<1>. QED BY <1>2, <1>4, <1>5, FS_UNION

LEMMA NodesAre ==
    ASSUME code \in Seq(Instructions), lpc = "done", Within
    PROVE  /\ GPR \subseteq Nodes /\ Nodes \subseteq GPR \cup VarsOf(code)
           /\ VarsOf(code) \subseteq Names /\ IsFiniteSet(Nodes)
           /\ \A i \in DOMAIN code :
                 (Gen(code[i]) \cup Kill(code[i]) \cup ins[i] \cup outs[i]) \cap Homes
                    \subseteq Nodes
<1>1. VarsOf(code) \subseteq Names /\ IsFiniteSet(VarsOf(code)) /\ IsFiniteSet(GPR)
  BY NamesOfCode, VarsFinite, ColorOrderAssumption
<1>2. GPR \subseteq Nodes
  BY RegistersAssumption DEF Nodes
<1>3. \A i \in DOMAIN code :
         Gen(code[i]) \cup Kill(code[i]) \cup ins[i] \cup outs[i]
            \subseteq Registers \cup VarsOf(code)
  BY NamesOfCode DEF Within
<1>4. Nodes \subseteq GPR \cup VarsOf(code)
  BY <1>3 DEF Nodes, Registers
<1>5. IsFiniteSet(GPR \cup VarsOf(code))
  BY <1>1, FS_Union
<1>6. IsFiniteSet(Nodes)
  BY <1>4, <1>5, FS_Subset
<1>. QED BY <1>1, <1>2, <1>4, <1>6, HomesAre DEF Nodes

(* Building the graph.                                                     *)
LEMMA BuildStep ==
    ASSUME AllocatingInv, BuildGraph
    PROVE  AllocatingInv' /\ phase' = "color"
<1>1. /\ phase = "liveness" /\ lpc = "done" /\ phase' = "color" /\ cpc' = "idle"
      /\ graph' = [x \in Nodes |-> {y \in Nodes \ {x} : Interfere(x, y)}]
      /\ UNCHANGED <<source, code, livenessVars, spillVars, numLocals, spilledVarIdx>>
  BY DEF BuildGraph
<1>2. LP!TypeOK /\ LP!SolvedSoFar /\ Within /\ code \in Seq(Instructions) /\ idx = 0
  BY <1>1 DEF AllocatingInv, AnalysisInv, CodeInv, InSync
<1>3. /\ GPR \subseteq Nodes /\ Nodes \subseteq GPR \cup Names /\ IsFiniteSet(Nodes)
  BY <1>1, <1>2, NodesAre
<1>4. \A x, y : Interfere(x, y) => Interfere(y, x)
  BY DEF Interfere, LiveTogether
<1>5. CP!IsInterferenceGraph(graph')
  <2>1. \A r, s \in GPR : Interfere(r, s)
    BY DEF Interfere
  <2>. HIDE DEF Interfere, Nodes
  <2>. QED BY <1>1, <1>3, <1>4, <2>1 DEF CP!IsInterferenceGraph
<1>6. CP!TypeOK'
  BY <1>1, <1>3, <1>5, SameSizes DEF CP!TypeOK
<1>7. CP!ProperInv' /\ CP!RemovalInv' /\ CP!SelectInv'
  BY <1>1 DEF CP!ProperInv, CP!UnavailableCovers, CP!ProperColoring, CP!RemovalInv,
              CP!SelectInv
<1>8. /\ Nodes' = Nodes /\ \A x, y : Interfere(x, y)' = Interfere(x, y)
  BY <1>1 DEF livenessVars, Nodes, Interfere, LiveTogether, WrittenOver, ShiftForbids
<1>9. GraphInv'
  <2>1. graph' = [x \in Nodes' |-> {y \in Nodes' \ {x} : Interfere(x, y)'}]
    BY <1>1, <1>8
  <2>. QED BY <1>1, <1>6, <1>7, <2>1 DEF GraphInv, livenessVars
<1>10. LP!TypeOK' /\ LP!SolvedSoFar' /\ Within'
  BY <1>1, <1>2
  DEF livenessVars, LP!TypeOK, LP!Indices, LP!SolvedSoFar, LP!Solved, LP!EquationAt,
      LP!OutOf, LP!InOf, Within, Registers
<1>11. CodeInv' /\ SpillInv'
  BY <1>1 DEF AllocatingInv, CodeInv, SpillInv, Spilling, spillVars
<1>. QED BY <1>1, <1>2, <1>9, <1>10, <1>11 DEF AllocatingInv, AnalysisInv, livenessVars

(* One step of the colouring.                                              *)
LEMMA ColorStep ==
    ASSUME AllocatingInv, ColorGraph
    PROVE  AllocatingInv' /\ phase' = "color"
<1>1. /\ phase = "color" /\ phase' = "color" /\ CP!Next
      /\ UNCHANGED <<source, code, livenessVars, spillVars, numLocals, spilledVarIdx>>
  BY SameSteps DEF ColorGraph
<1>2. /\ cpc # "done" /\ graph' = graph
      /\ cpc' = "done" => toSpill' = toSpill
  BY <1>1 DEF CP!Next, CP!Begin, CP!Simplify, CP!SimplifyDone, CP!PushRest, CP!PushDone,
              CP!Select, CP!MustSpill, CP!SelectDone
<1>3. InSync /\ ~Spilling
  BY <1>1, <1>2 DEF InSync, Spilling
<1>4. /\ CP!TypeOK' /\ CP!ProperInv' /\ CP!RemovalInv' /\ CP!SelectInv'
  BY <1>1, <1>3, ColoringKeeps DEF AllocatingInv, GraphInv, ColorGraph
<1>5. /\ Nodes' = Nodes /\ \A x, y : Interfere(x, y)' = Interfere(x, y)
  BY <1>1 DEF livenessVars, Nodes, Interfere, LiveTogether, WrittenOver, ShiftForbids
<1>6. GraphInv'
  <2>1. lpc = "done" /\ graph = [x \in Nodes |-> {y \in Nodes \ {x} : Interfere(x, y)}]
    BY <1>1, <1>3 DEF AllocatingInv, GraphInv
  <2>2. graph' = [x \in Nodes' |-> {y \in Nodes' \ {x} : Interfere(x, y)'}]
    BY <1>2, <1>5, <2>1
  <2>. QED BY <1>1, <1>4, <2>1, <2>2 DEF GraphInv, livenessVars
<1>7. AnalysisInv'
  <2>1. LP!TypeOK /\ LP!SolvedSoFar /\ Within /\ changed \in BOOLEAN /\ idx = 0
    BY <1>1, <1>3 DEF AllocatingInv, AnalysisInv
  <2>2. LP!TypeOK' /\ LP!SolvedSoFar' /\ Within'
    BY <1>1, <2>1
    DEF livenessVars, LP!TypeOK, LP!Indices, LP!SolvedSoFar, LP!Solved, LP!EquationAt,
        LP!OutOf, LP!InOf, Within, Registers
  <2>. QED BY <1>1, <2>1, <2>2 DEF AnalysisInv, livenessVars
<1>8. CodeInv'
  BY <1>1 DEF AllocatingInv, CodeInv, spillVars
<1>9. SpillInv'
  <2>1. newInstructions' = <<>> /\ next' = 1
    BY <1>1, <1>3 DEF AllocatingInv, SpillInv, spillVars
  <2>2. code' = code /\ code \in Seq(Instructions) /\ Len(code) \in Nat
    BY <1>1 DEF AllocatingInv, CodeInv
  <2>3. 1 \in 1 .. Len(code) + 1 /\ 1 - 1 = 0 /\ 1 .. 1 - 1 = {} /\ Len(<<>>) = 0
    BY <2>2
  <2>4. \E st, tmp : Expanded(code', Head(toSpill'), numLocals', 0, <<>>, st, tmp)
    BY NothingExpanded
  <2>. QED BY <2>1, <2>2, <2>3, <2>4 DEF SpillInv
<1>. QED BY <1>1, <1>6, <1>7, <1>8, <1>9 DEF AllocatingInv

-----------------------------------------------------------------------------
(* Spilling one instruction.                                               *)
LEMMA NotRenamed ==
    ASSUME NEW m \in Instructions, NEW x \in Names, ~Touches(m, x), NEW t
    PROVE  Replace(m, x, t) = m
<1>1. m \in [op : {"move", "load", "store", "stackarg", "update", "shift", "compute",
                   "label", "goto", "cjump", "call", "error", "return"},
             d : Operands, u : Operands, v : Operands, k : Int, lab : Labels]
  BY DEF Instructions
<1>2. x \notin {m.d, m.u, m.v}
  BY Occurs
<1>. QED BY <1>1, <1>2 DEF Replace

LEMMA RenamedFields ==
    ASSUME NEW m \in Instructions, NEW x, NEW t, NEW r, r = Replace(m, x, t)
    PROVE  {r.d, r.u, r.v} \subseteq {t, m.d, m.u, m.v}
<1>1. m \in [op : {"move", "load", "store", "stackarg", "update", "shift", "compute",
                   "label", "goto", "cjump", "call", "error", "return"},
             d : Operands, u : Operands, v : Operands, k : Int, lab : Labels]
  BY DEF Instructions
<1>2. /\ r.d = (IF m.d = x THEN t ELSE m.d)
      /\ r.u = (IF m.u = x THEN t ELSE m.u)
      /\ r.v = (IF m.v = x THEN t ELSE m.v)
  BY <1>1 DEF Replace
<1>. QED BY <1>2

LEMMA SpillGroupVars ==
    ASSUME NEW m \in Instructions, NEW x \in Names, NEW n \in Nat, NEW t,
           Touches(m, x) => t \in Names, NEW new \in Seq(Instructions),
           NEW V, {m.d, m.u, m.v} \cap Names \subseteq V
    PROVE  /\ new \o SpillGroup(m, x, n, t) \in Seq(Instructions)
           /\ \A y \in VarsOf(new \o SpillGroup(m, x, n, t)) :
                 \/ y \in VarsOf(new) \/ y \in V
                 \/ Touches(m, x) /\ y = t
<1>. DEFINE g == SpillGroup(m, x, n, t)
<1>1. /\ g \in Seq(Instructions) /\ Len(g) = Before(m, x) + 1 + Behind(m, x)
      /\ x \in Gen(m) => g[1] = Load(t, RSP, n)
      /\ g[Before(m, x) + 1] = Replace(m, x, t)
      /\ x \in Kill(m) => g[Before(m, x) + 2] = Store(RSP, n, t)
  BY GroupLayout
<1>2. /\ Before(m, x) \in {0, 1} /\ Behind(m, x) \in {0, 1}
      /\ Before(m, x) = 1 => x \in Gen(m)
      /\ Behind(m, x) = 1 => x \in Kill(m)
  BY DEF Before, Behind
<1>. HIDE DEF g
<1>3. ASSUME NEW j \in DOMAIN g
      PROVE  \/ x \in Gen(m) /\ g[j] = Load(t, RSP, n)
             \/ g[j] = Replace(m, x, t)
             \/ x \in Kill(m) /\ g[j] = Store(RSP, n, t)
  <2>. DEFINE b == Before(m, x)
              e == Behind(m, x)
  <2>1. j \in 1 .. b + 1 + e /\ b \in {0, 1} /\ e \in {0, 1}
    BY <1>1, <1>2
  <2>. HIDE DEF b, e
  <2>2. \/ b = 1 /\ j = 1
        \/ j = b + 1
        \/ e = 1 /\ j = b + 2
    BY <2>1
  <2>. QED BY <1>1, <1>2, <2>2 DEF b, e
<1>4. ASSUME NEW j \in DOMAIN g, NEW y \in {g[j].d, g[j].u, g[j].v} \cap Names
      PROVE  y \in V \/ (Touches(m, x) /\ y = t)
  <2>0. RSP \notin Names /\ Imm \notin Names
    BY NamesAssumption
  <2>1. CASE x \in Gen(m) /\ g[j] = Load(t, RSP, n)
    BY <2>0, <2>1 DEF Load, Instr, Touches
  <2>2. CASE x \in Kill(m) /\ g[j] = Store(RSP, n, t)
    BY <2>0, <2>2 DEF Store, Instr, Touches
  <2>3. CASE g[j] = Replace(m, x, t)
    <3>1. CASE Touches(m, x)
      <4>1. y = t \/ y \in {m.d, m.u, m.v}
        BY <2>3, RenamedFields
      <4>. QED BY <3>1, <4>1
    <3>2. CASE ~Touches(m, x)
      <4>1. Replace(m, x, t) = m
        BY <3>2, NotRenamed
      <4>. QED BY <2>3, <4>1
    <3>. QED BY <3>1, <3>2
  <2>. QED BY <1>3, <2>1, <2>2, <2>3
<1>5. /\ new \o g \in Seq(Instructions)
      /\ \A k \in DOMAIN (new \o g) :
            \/ k \in DOMAIN new /\ (new \o g)[k] = new[k]
            \/ \E j \in DOMAIN g : (new \o g)[k] = g[j]
  <2>1. new \o g \in Seq(Instructions) /\ Len(new \o g) = Len(new) + Len(g)
    BY <1>1
  <2>2. ASSUME NEW k \in DOMAIN (new \o g), k \notin DOMAIN new
        PROVE  k - Len(new) \in DOMAIN g /\ (new \o g)[k] = g[k - Len(new)]
    BY <1>1, <2>1, <2>2
  <2>3. \A k \in DOMAIN new : (new \o g)[k] = new[k]
    BY <1>1
  <2>. QED BY <2>1, <2>2, <2>3
<1>6. ASSUME NEW y \in VarsOf(new \o g)
      PROVE  y \in VarsOf(new) \/ y \in V \/ (Touches(m, x) /\ y = t)
  <2>1. PICK k \in DOMAIN (new \o g) :
           y \in {(new \o g)[k].d, (new \o g)[k].u, (new \o g)[k].v} \cap Names
    BY DEF VarsOf
  <2>2. CASE k \in DOMAIN new /\ (new \o g)[k] = new[k]
    BY <2>1, <2>2 DEF VarsOf
  <2>3. CASE \E j \in DOMAIN g : (new \o g)[k] = g[j]
    BY <1>4, <2>1, <2>3
  <2>. QED BY <1>5, <2>2, <2>3
<1>. QED BY <1>5, <1>6 DEF g

LEMMA OneMore ==
    ASSUME NEW T, NEW s \in Seq(T), NEW u \in Seq(T), Len(u) = 1
    PROVE  /\ s \o u \in Seq(T) /\ Len(s \o u) = Len(s) + 1
           /\ \A j \in 1 .. Len(s) : (s \o u)[j] = s[j]
           /\ (s \o u)[Len(s) + 1] = u[1]
<1>. DEFINE a == s \o u
            l == Len(s)
            n == Len(u)
<1>1. /\ a \in Seq(T) /\ Len(a) = l + 1 /\ l \in Nat
      /\ \A j \in 1 .. l + 1 : a[j] = IF j <= l THEN s[j] ELSE u[j - l]
  <2>1. l \in Nat /\ n = 1
    OBVIOUS
  <2>2. /\ a \in Seq(T) /\ Len(a) = l + n
        /\ \A j \in 1 .. l + n : a[j] = IF j <= l THEN s[j] ELSE u[j - l]
    BY ConcatProperties, Zenon
  <2>. HIDE DEF a, l, n
  <2>. QED BY <2>1, <2>2
<1>. HIDE DEF a, l
<1>2. /\ l + 1 \in 1 .. l + 1 /\ ~(l + 1 <= l) /\ (l + 1) - l = 1
      /\ \A j \in 1 .. l : j \in 1 .. l + 1 /\ j <= l
  BY <1>1
<1>3. a[l + 1] = u[1] /\ \A j \in 1 .. l : a[j] = s[j]
  BY <1>1, <1>2
<1>. QED BY <1>1, <1>3 DEF a, l

(* Every step of the loop over the instructions.                           *)
LEMMA SpillingOf ==
    ASSUME AllocatingInv, Spilling
    PROVE  /\ Head(toSpill) \in Names /\ toSpill \in Seq(Names) /\ Len(toSpill) \in Nat \ {0}
           /\ CP!TypeOK /\ CP!ProperInv
<1>1. CP!TypeOK /\ CP!ProperInv /\ cpc = "done"
  BY DEF AllocatingInv, GraphInv, Spilling
<1>2. toSpill \in Seq(CP!Variables) /\ CP!Variables \subseteq Names
  BY <1>1 DEF CP!TypeOK, CP!IsInterferenceGraph, CP!Variables
<1>3. toSpill # <<>>
  BY DEF Spilling
<1>4. toSpill \in Seq(Names)
  <2>. HIDE DEF CP!Variables
  <2>. QED BY <1>2, SeqMonotonic
<1>5. Len(toSpill) \in Nat \ {0}
  BY <1>3, <1>4, EmptySeq
<1>. QED BY <1>1, <1>3, <1>4, <1>5

LEMMA SpillInstructionStep ==
    ASSUME AllocatingInv, SpillInstruction
    PROVE  AllocatingInv' /\ phase' = "color"
<1>. DEFINE x == Head(toSpill)
            i == code[next]
            t == SpillName[spilledVarIdx]
            g == SpillGroup(i, x, numLocals, t)
<1>1. /\ Spilling /\ next <= Len(code) /\ next' = next + 1 /\ phase = "color"
      /\ Touches(i, x) => spilledVarIdx \in DOMAIN SpillName
      /\ newInstructions' = newInstructions \o g
      /\ spilledVarIdx' = spilledVarIdx + (IF Touches(i, x) THEN 1 ELSE 0)
      /\ UNCHANGED <<source, code, livenessVars, graph, toSpill, colorVars, numLocals,
                     phase, runVars>>
  BY DEF SpillInstruction, SpillCode, SpillGroup, Spilling
<1>2. /\ x \in Names /\ CP!TypeOK /\ CP!ProperInv /\ toSpill' = toSpill /\ Spilling'
      /\ ~InSync /\ ~InSync'
  BY <1>1, SpillingOf DEF Spilling, InSync, colorVars
<1>3. /\ source \in Sources /\ code \in Seq(Instructions) /\ code # <<>>
      /\ numLocals \in Nat /\ spilledVarIdx \in Nat
      /\ next \in DOMAIN code /\ DOMAIN code = 1 .. Len(code) /\ Len(code) \in Nat
      /\ i \in Instructions /\ next \in Nat
  BY <1>1 DEF AllocatingInv, CodeInv, SpillInv
<1>4. PICK st, tmp : Expanded(code, x, numLocals, next - 1, newInstructions, st, tmp)
  BY <1>1 DEF AllocatingInv, SpillInv
<1>5. newInstructions \in Seq(Instructions) /\ Len(newInstructions) \in Nat
  BY <1>4 DEF Expanded
<1>6. Touches(i, x) => t \in Names \ VarsOf(code)
  BY <1>1, <1>3, SpillNamesAssumption DEF AllocatingInv, CodeInv
<1>. HIDE DEF x, i, t, g
<1>7. \E st2, tmp2 : Expanded(code, x, numLocals, next, newInstructions \o g, st2, tmp2)
  BY <1>2, <1>3, <1>4, <1>6, ExpandOne DEF i, g
<1>8. SpillInv'
  <2>1. next' \in 1 .. Len(code) + 1 /\ next' - 1 = next
    BY <1>1, <1>3
  <2>2. x' = x
    BY <1>2 DEF x
  <2>3. \E st2, tmp2 : Expanded(code', Head(toSpill'), numLocals', next' - 1,
                                newInstructions', st2, tmp2)
    BY <1>1, <1>2, <1>7, <2>1 DEF x
  <2>4. ASSUME \A j \in 1 .. next : ~Touches(code[j], x)
        PROVE  /\ Len(newInstructions \o g) = next
               /\ \A j \in 1 .. next : (newInstructions \o g)[j] = code[j]
    <3>1. /\ Len(newInstructions) = next - 1
          /\ \A j \in 1 .. next - 1 : newInstructions[j] = code[j]
      <4>1. \A j \in 1 .. next - 1 : ~Touches(code[j], x)
        BY <1>3, <2>4
      <4>. QED BY <1>1, <4>1 DEF AllocatingInv, SpillInv, x
    <3>2. ~Touches(i, x)
      BY <1>3, <2>4 DEF i
    <3>4. Replace(i, x, t) = i
      BY <1>2, <1>3, <3>2, NotRenamed
    <3>5. g = (<<>> \o <<i>>) \o <<>>
      BY <3>2, <3>4 DEF g, SpillGroup, Touches
    <3>6. g \in Seq(Instructions) /\ Len(g) = 1 /\ g[1] = i
      <4>1. <<>> \in Seq(Instructions) /\ Len(<<>>) = 0
        OBVIOUS
      <4>. QED BY <1>3, <3>5, <4>1, Joined
    <3>7. /\ Len(newInstructions \o g) = (next - 1) + 1
          /\ \A j \in 1 .. next - 1 : (newInstructions \o g)[j] = newInstructions[j]
          /\ (newInstructions \o g)[(next - 1) + 1] = g[1]
      BY <1>5, <3>1, <3>6, OneMore
    <3>8. (next - 1) + 1 = next /\ \A j \in 1 .. next : j \in 1 .. next - 1 \/ j = next
      BY <1>3
    <3>. QED BY <3>1, <3>6, <3>7, <3>8 DEF i
  <2>. QED BY <1>1, <1>2, <2>1, <2>3, <2>4 DEF SpillInv, x, Touches
<1>9. CodeInv'
  <2>1. spilledVarIdx' \in Nat
    BY <1>1, <1>3
  <2>2. ASSUME NEW k \in DOMAIN SpillName \cap Nat, k >= spilledVarIdx'
        PROVE  SpillName[k] \notin VarsOf(code) \cup VarsOf(newInstructions \o g)
    <3>1. k >= spilledVarIdx
      BY <1>1, <1>3, <2>2
    <3>2. SpillName[k] \notin VarsOf(code) \cup VarsOf(newInstructions)
      BY <3>1 DEF AllocatingInv, CodeInv
    <3>3. Touches(i, x) => SpillName[k] # t
      <4>1. Touches(i, x) => k # spilledVarIdx
        BY <1>1, <1>3, <2>2
      <4>. QED BY <1>1, <4>1, SpillNamesAssumption DEF t
    <3>4. \A y \in VarsOf(newInstructions \o g) :
             \/ y \in VarsOf(newInstructions) \/ y \in VarsOf(code)
             \/ Touches(i, x) /\ y = t
      <4>1. {i.d, i.u, i.v} \cap Names \subseteq VarsOf(code)
        BY <1>3, NamesOfCode DEF i
      <4>. QED BY <4>1, <1>2, <1>3, <1>5, <1>6, SpillGroupVars DEF i, g
    <3>. QED BY <3>2, <3>3, <3>4
  <2>. QED BY <1>1, <1>3, <2>1, <2>2 DEF AllocatingInv, CodeInv
<1>10. AnalysisInv' /\ GraphInv'
  BY <1>1, <1>2
  DEF AllocatingInv, AnalysisInv, GraphInv, livenessVars, colorVars, CP!TypeOK,
      CP!ProperInv, CP!UnavailableCovers, CP!ProperColoring, CP!Variables
<1>. QED BY <1>1, <1>8, <1>9, <1>10 DEF AllocatingInv


LEMMA NoVariables == VarsOf(<<>>) = {}
<1>1. DOMAIN <<>> = {}
  OBVIOUS
<1>. QED BY <1>1 DEF VarsOf

(* The end of the loop over the instructions.                              *)
LEMMA SpilledCode ==
    ASSUME AllocatingInv, SpillNext
    PROVE  /\ code' \in Seq(Instructions) /\ code' # <<>> /\ numLocals' \in Nat
           /\ \E v : Certifies(source, code', numLocals', v)
<1>. DEFINE x == Head(toSpill)
            new == newInstructions
<1>1. /\ Spilling /\ next > Len(code) /\ code' = new
      /\ numLocals' = numLocals
                      + (IF \E i \in DOMAIN code : Touches(code[i], x) THEN 1 ELSE 0)
  BY DEF SpillNext
<1>2. /\ source \in Sources /\ code \in Seq(Instructions) /\ code # <<>>
      /\ numLocals \in Nat /\ x \in Names
      /\ Len(code) \in Nat \ {0} /\ DOMAIN code = 1 .. Len(code)
  <2>1. code \in Seq(Instructions) /\ code # <<>>
    BY DEF AllocatingInv, CodeInv
  <2>2. Len(code) \in Nat \ {0} /\ DOMAIN code = 1 .. Len(code)
    BY <2>1, EmptySeq
  <2>. QED BY <1>1, <2>1, <2>2, SpillingOf DEF AllocatingInv, CodeInv
<1>3. next \in 1 .. Len(code) + 1
  BY <1>1 DEF AllocatingInv, SpillInv
<1>4. next - 1 = Len(code)
  BY <1>1, <1>2, <1>3
<1>5. PICK st, tmp : Expanded(code, x, numLocals, Len(code), new, st, tmp)
  BY <1>1, <1>4 DEF AllocatingInv, SpillInv
<1>6. new \in Seq(Instructions) /\ new # <<>>
  <2>1. new \in Seq(Instructions) /\ Len(new) = st[Len(code) + 1] - 1
    BY <1>5 DEF Expanded
  <2>2. st[1] = 1 /\ st[1] < st[Len(code) + 1] /\ st[Len(code) + 1] \in Nat
    <3>1. 1 \in 1 .. Len(code) + 1 /\ Len(code) + 1 \in 1 .. Len(code) + 1 /\ 1 < Len(code) + 1
      BY <1>2
    <3>. QED BY <1>5, <3>1 DEF Expanded
  <2>3. Len(new) # 0
    BY <2>1, <2>2
  <2>. QED BY <2>1, <2>3, EmptySeq
<1>7. PICK w : Certifies(source, code, numLocals, w)
  BY DEF AllocatingInv, CodeInv
<1>8. CASE \E i \in DOMAIN code : Touches(code[i], x)
  <2>1. numLocals' = numLocals + 1
    BY <1>1, <1>8
  <2>2. \E v : Certifies(source, new, numLocals + 1, v)
    <3>. HIDE DEF x, new
    <3>. QED BY <1>2, <1>5, <1>7, SpillCertified
  <2>. QED BY <1>1, <1>2, <1>6, <2>1, <2>2
<1>9. CASE ~\E i \in DOMAIN code : Touches(code[i], x)
  <2>1. numLocals' = numLocals
    BY <1>1, <1>2, <1>9
  <2>2. Len(new) = Len(code) /\ \A i \in 1 .. Len(code) : new[i] = code[i]
    BY <1>1, <1>2, <1>4, <1>9 DEF AllocatingInv, SpillInv
  <2>3. new = code
    <3>. HIDE DEF new
    <3>. QED BY <1>2, <1>6, <2>2, SeqEqual
  <2>. QED BY <1>1, <1>2, <1>7, <2>1, <2>3
<1>. QED BY <1>8, <1>9

LEMMA SpillNextStep ==
    ASSUME AllocatingInv, SpillNext
    PROVE  AllocatingInv' /\ phase' \in {"liveness", "color"}
<1>1. /\ Spilling /\ code' = newInstructions
      /\ newInstructions' = <<>> /\ next' = 1 /\ toSpill' = Tail(toSpill)
      /\ phase' = (IF Len(toSpill) = 1 THEN "liveness" ELSE "color")
      /\ lpc' = "idle" /\ phase = "color" /\ cpc = "done"
      /\ UNCHANGED <<source, succ, ins, outs, idx, changed, graph, colorVars,
                     spilledVarIdx, runVars>>
  BY DEF SpillNext, Spilling
<1>2. /\ code' \in Seq(Instructions) /\ code' # <<>> /\ numLocals' \in Nat
      /\ \E v : Certifies(source, code', numLocals', v)
  BY SpilledCode
<1>3. CodeInv'
  <2>1. source' = source /\ spilledVarIdx' = spilledVarIdx
    BY <1>1
  <2>2. VarsOf(newInstructions') = {}
    BY <1>1, NoVariables
  <2>3. /\ source \in Sources /\ spilledVarIdx \in Nat
        /\ \A k \in DOMAIN SpillName \cap Nat : k >= spilledVarIdx =>
              SpillName[k] \notin VarsOf(code')
    BY <1>1 DEF AllocatingInv, CodeInv
  <2>4. \A k \in DOMAIN SpillName \cap Nat : k >= spilledVarIdx' =>
           SpillName[k] \notin VarsOf(code') \cup VarsOf(newInstructions')
    BY <2>1, <2>2, <2>3
  <2>. QED BY <1>2, <2>1, <2>3, <2>4 DEF CodeInv
<1>4. /\ Head(toSpill) \in Names /\ toSpill \in Seq(Names) /\ Len(toSpill) \in Nat \ {0}
      /\ CP!TypeOK /\ CP!ProperInv
  BY <1>1, SpillingOf
<1>5. idx = 0 /\ changed \in BOOLEAN
  BY <1>1 DEF AllocatingInv, AnalysisInv
<1>6. CASE Len(toSpill) = 1
  <2>1. phase' = "liveness" /\ ~Spilling'
    BY <1>1, <1>6 DEF Spilling
  <2>2. LP!TypeOK' /\ LP!SolvedSoFar' /\ Within'
    <3>1. /\ code' \in Seq(LP!Instructions) /\ 0 \in 0 .. Len(code')
          /\ lpc' = "idle" /\ idx' = 0 /\ changed' \in BOOLEAN
      BY <1>1, <1>2, <1>5, SameVocabulary
    <3>. QED BY <3>1 DEF LP!TypeOK, LP!SolvedSoFar, LP!Solved, Within
  <2>3. AnalysisInv' /\ GraphInv' /\ SpillInv'
    BY <1>1, <1>5, <2>1, <2>2 DEF AnalysisInv, GraphInv, SpillInv
  <2>. QED BY <1>1, <1>3, <2>1, <2>3 DEF AllocatingInv
<1>7. CASE Len(toSpill) # 1
  <2>1. /\ toSpill' \in Seq(CP!Variables) /\ toSpill' # <<>>
    <3>1. toSpill \in Seq(CP!Variables) /\ toSpill # <<>>
      BY <1>1, <1>4 DEF CP!TypeOK, Spilling
    <3>. HIDE DEF CP!Variables
    <3>2. Tail(toSpill) \in Seq(CP!Variables) /\ Len(Tail(toSpill)) = Len(toSpill) - 1
      BY <3>1
    <3>3. Len(Tail(toSpill)) # 0
      BY <1>4, <1>7, <3>2
    <3>. QED BY <1>1, <3>2, <3>3, EmptySeq
  <2>2. phase' = "color" /\ cpc' = "done" /\ Spilling' /\ ~InSync'
    BY <1>1, <1>7, <2>1 DEF Spilling, InSync, colorVars
  <2>3. AnalysisInv'
    BY <1>1, <1>5, <2>2 DEF AnalysisInv
  <2>4. GraphInv'
    <3>1. /\ UNCHANGED <<graph, degree, varStack, unavailable, coloring, cpc>>
          /\ CP!Variables' = CP!Variables
      BY <1>1 DEF colorVars, CP!Variables
    <3>2. CP!TypeOK' /\ CP!ProperInv'
      BY <1>4, <2>1, <3>1
      DEF CP!TypeOK, CP!ProperInv, CP!UnavailableCovers, CP!ProperColoring
    <3>. QED BY <2>2, <3>2 DEF GraphInv
  <2>5. SpillInv'
    <3>1. Len(code') \in Nat
      BY <1>2
    <3>2. 1 \in 1 .. Len(code') + 1 /\ 1 - 1 = 0 /\ 1 .. 1 - 1 = {} /\ Len(<<>>) = 0
      BY <3>1
    <3>3. \E st, tmp : Expanded(code', Head(toSpill'), numLocals', 0, <<>>, st, tmp)
      BY NothingExpanded
    <3>. QED BY <1>1, <2>2, <3>2, <3>3 DEF SpillInv
  <2>. QED BY <1>3, <2>2, <2>3, <2>4, <2>5 DEF AllocatingInv
<1>. QED BY <1>6, <1>7

-----------------------------------------------------------------------------
(* A colouring that leaves nothing to spill gives every location that      *)
(* matters a register, and different ones where that is needed.            *)
AllColored == phase = "color" /\ cpc = "done" /\ toSpill = <<>>

LEMMA GraphOfCode ==
    ASSUME AllocatingInv, AllColored
    PROVE  /\ code \in Seq(Instructions) /\ lpc = "done" /\ Within
           /\ graph = [x \in Nodes |-> {y \in Nodes \ {x} : Interfere(x, y)}]
           /\ LP!SolvedSoFar /\ LP!TypeOK /\ CP!TypeOK /\ CP!ProperColoring /\ CP!SelectInv
           /\ CP!Variables = Nodes \ GPR /\ DOMAIN coloring = Nodes \ GPR
           /\ Nodes \ GPR \subseteq Names
           /\ \A v \in Nodes \ GPR : coloring[v] \in GPR
<1>1. InSync
  BY DEF InSync, AllColored
<1>2. /\ code \in Seq(Instructions) /\ lpc = "done" /\ Within
      /\ graph = [x \in Nodes |-> {y \in Nodes \ {x} : Interfere(x, y)}]
      /\ LP!SolvedSoFar /\ LP!TypeOK /\ CP!TypeOK /\ CP!ProperColoring /\ CP!SelectInv
  BY <1>1 DEF AllocatingInv, CodeInv, AnalysisInv, GraphInv, CP!ProperInv, AllColored
<1>3. CP!Variables = Nodes \ GPR
  BY <1>2 DEF CP!Variables
<1>4. coloring \in [CP!Variables -> GPR \cup {NoReg}]
  BY <1>2 DEF CP!TypeOK, AllColored
<1>5. CP!Stacked = {} /\ CP!Spilled = {}
  <2>1. varStack = <<>> /\ toSpill = <<>> /\ DOMAIN <<>> = {}
    BY <1>2 DEF CP!SelectInv, AllColored
  <2>. QED BY <2>1 DEF CP!Stacked, CP!Spilled, CP!Elements
<1>6. \A v \in CP!Variables : coloring[v] # NoReg
  BY <1>2, <1>5 DEF CP!SelectInv, AllColored
<1>7. Nodes \ GPR \subseteq Names
  BY <1>2, NodesAre
<1>. HIDE DEF CP!Variables
<1>. QED BY <1>2, <1>3, <1>4, <1>6, <1>7

LEMMA AnalysisHolds ==
    ASSUME AllocatingInv, AllColored
    PROVE  AnalysedFor(code)
<1>1. /\ code \in Seq(Instructions) /\ lpc = "done" /\ Within /\ LP!SolvedSoFar
  BY GraphOfCode
<1>2. SUFFICES ASSUME NEW i \in DOMAIN code
               PROVE  /\ ins[i] = Gen(code[i]) \cup (outs[i] \ Kill(code[i]))
                      /\ outs[i] = UNION {ins[j] : j \in Succ(code, i)}
  BY DEF AnalysedFor
<1>3. outs[i] = LP!OutOf(i) /\ ins[i] = LP!InOf(i, outs[i])
  BY <1>1 DEF LP!SolvedSoFar, LP!Solved, LP!EquationAt, LP!Indices
<1>4. succ[i] = Succ(code, i)
  BY <1>1 DEF Within
<1>5. LP!Gen(code[i]) = Gen(code[i]) /\ LP!Kill(code[i]) = Kill(code[i])
  BY SameVocabulary
<1>. QED BY <1>3, <1>4, <1>5 DEF LP!OutOf, LP!InOf

LEMMA AssignmentHolds ==
    ASSUME AllocatingInv, AllColored
    PROVE  AssignedFor(code)
<1>1. /\ code \in Seq(Instructions) /\ lpc = "done" /\ Within
      /\ graph = [x \in Nodes |-> {y \in Nodes \ {x} : Interfere(x, y)}]
      /\ CP!ProperColoring
      /\ CP!Variables = Nodes \ GPR /\ DOMAIN coloring = Nodes \ GPR
      /\ Nodes \ GPR \subseteq Names
      /\ \A v \in Nodes \ GPR : coloring[v] \in GPR
  BY GraphOfCode
<1>2. /\ GPR \subseteq Nodes
      /\ \A i \in DOMAIN code :
            (Gen(code[i]) \cup Kill(code[i]) \cup ins[i] \cup outs[i]) \cap Homes
               \subseteq Nodes
  BY <1>1, NodesAre
<1>3. NoReg \notin GPR
  BY ColorOrderAssumption
<1>4. ASSUME NEW v \in Nodes \ GPR
      PROVE  /\ InRegister(v) = coloring[v] /\ InRegister(v) \in GPR
             /\ InRegister(v) \notin graph[v]
             /\ \A u \in (Nodes \ GPR) \cap graph[v] : coloring[u] # coloring[v]
  <2>1. coloring[v] \in GPR /\ coloring[v] # NoReg
    BY <1>1, <1>3
  <2>2. /\ coloring[v] \notin graph[v]
        /\ \A u \in (Nodes \ GPR) \cap graph[v] : coloring[u] # coloring[v]
    BY <1>1, <2>1 DEF CP!ProperColoring, AllColored
  <2>. QED BY <1>1, <2>1, <2>2 DEF InRegister
<1>5. \A o : o \notin Nodes \ GPR => InRegister(o) = o
  BY <1>1 DEF InRegister
<1>6. \A x, y \in Nodes : x # y /\ Interfere(x, y) => y \in graph[x] /\ x \in graph[y]
  <2>1. \A x, y : Interfere(x, y) => Interfere(y, x)
    BY DEF Interfere, LiveTogether
  <2>. HIDE DEF Nodes, Interfere
  <2>. QED BY <1>1, <2>1
<1>. HIDE DEF Nodes, Interfere, InRegister
<1>7. \A o \in Registers \cup {Imm} : InRegister(o) = o
  BY <1>1, <1>5, NamesAssumption DEF Registers
<1>8. ASSUME NEW i \in DOMAIN code,
             NEW l \in (Gen(code[i]) \cup Kill(code[i]) \cup ins[i] \cup outs[i]) \cap Homes
      PROVE  InRegister(l) \in GPR
  <2>1. l \in Nodes
    BY <1>2
  <2>. QED BY <1>4, <1>5, <2>1
<1>9. ASSUME NEW i \in DOMAIN code,
             NEW x \in Kill(code[i]) \cap Homes, NEW y \in outs[i] \cap Homes, x # y
      PROVE  InRegister(x) # InRegister(y)
  <2>1. x \in Nodes /\ y \in Nodes
    BY <1>2
  <2>2. Interfere(x, y)
    BY DEF Interfere, WrittenOver
  <2>3. y \in graph[x] /\ x \in graph[y]
    BY <1>6, <1>9, <2>1, <2>2
  <2>. QED BY <1>4, <1>5, <1>9, <2>1, <2>3
<1>10. ASSUME NEW i \in DOMAIN code, code[i].op = "shift", code[i].u \in Names
       PROVE  InRegister(code[i].u) = RCX
  <2>. DEFINE u == code[i].u
  <2>1. u \in Gen(code[i]) \cap Homes /\ u \notin GPR
    BY <1>10, NamesAssumption DEF Gen, Locations, Homes
  <2>2. u \in Nodes \ GPR
    BY <1>2, <2>1
  <2>3. \A r \in GPR \ {RCX} : r \in graph[u]
    <3>. SUFFICES ASSUME NEW r \in GPR \ {RCX} PROVE r \in graph[u]
      OBVIOUS
    <3>1. Interfere(u, r)
      BY <1>10 DEF Interfere, ShiftForbids
    <3>. QED BY <1>2, <1>6, <2>2, <3>1
  <2>. QED BY <1>4, <2>2, <2>3
<1>. QED BY <1>7, <1>8, <1>9, <1>10 DEF AssignedFor

LEMMA CompiledStays ==
    ASSUME NEW c, UNCHANGED <<coloring, numLocals>>
    PROVE  /\ \A o : InRegister(o)' = InRegister(o)
           /\ Compiled(c)' = Compiled(c)
<1>1. \A o : InRegister(o)' = InRegister(o)
  BY DEF InRegister
<1>2. \A m : Colored(m)' = Colored(m)
  BY <1>1 DEF Colored
<1>3. \A m : WithoutStackArg(Colored(m))' = WithoutStackArg(Colored(m))
  BY <1>2 DEF WithoutStackArg, Load, Instr
<1>. QED BY <1>1, <1>3 DEF Compiled

(* The rewriting starts source and machine together.                       *)
LEMMA RewriteStep ==
    ASSUME AllocatingInv, Rewrite
    PROVE  /\ \E c, w : Compilation(c, w)' /\ Together(c, w)'
           /\ OnlyRegistersLeft' /\ phase' = "run"
<1>1. /\ AllColored /\ code' = Compiled(code) /\ phase' = "run" /\ at' = 1 /\ mat' = 1
      /\ known' = GPR /\ holds' = [r \in GPR |-> {r}]
      /\ slots' = [s \in 0 .. numLocals - 1 |-> {}]
      /\ UNCHANGED <<source, livenessVars, coloring, numLocals>>
  BY DEF Rewrite, AllColored, Compiled, colorVars
<1>2. PICK c : c = code
  OBVIOUS
<1>3. /\ source \in Sources /\ c \in Seq(Instructions) /\ c # <<>> /\ numLocals \in Nat
      /\ \E w : Certifies(source, c, numLocals, w)
  BY <1>2 DEF AllocatingInv, CodeInv
<1>4. AnalysedFor(c) /\ AssignedFor(c)
  BY <1>1, <1>2, AnalysisHolds, AssignmentHolds
<1>5. PICK w : Certifies(source, c, numLocals, w)
  BY <1>3
<1>6. /\ \A o : InRegister(o)' = InRegister(o)
      /\ Compiled(c)' = Compiled(c)
  BY <1>1, CompiledStays
<1>7. Compilation(c, w)'
  <2>1. AnalysedFor(c)'
    BY <1>1, <1>4 DEF AnalysedFor, livenessVars
  <2>2. AssignedFor(c)'
    BY <1>1, <1>4, <1>6 DEF AssignedFor, livenessVars, Registers, Homes
  <2>3. Certifies(source', c, numLocals', w)
    BY <1>1, <1>5
  <2>. QED BY <1>1, <1>3, <2>1, <2>2, <2>3 DEF Compilation
<1>8. Together(c, w)'
  <2>1. 1 \in DOMAIN c /\ 1 \in DOMAIN source
    <3>1. source \in Seq(Instructions) /\ source # <<>>
      BY <1>3, SourcesAssumption
    <3>2. Len(c) \in Nat \ {0} /\ Len(source) \in Nat \ {0}
      BY <1>3, <3>1, EmptySeq
    <3>. QED BY <1>3, <3>1, <3>2
  <2>2. /\ w.org[1] = 1
        /\ \A l \in Homes : w.has[1][l] \cap GPR \subseteq {l}
        /\ \A k \in 0 .. numLocals - 1 : w.slot[1][k] \cap GPR = {}
    BY <1>5 DEF Certifies, AtEntry
  <2>3. ASSUME NEW l \in Homes
        PROVE  w.has[1][l] \cap GPR \subseteq holds'[InRegister(l)]
    <3>1. CASE l \in GPR
      <4>1. InRegister(l) = l
        BY <1>4, <3>1 DEF AssignedFor, Registers
      <4>. QED BY <1>1, <2>2, <3>1, <4>1
    <3>2. CASE l \notin GPR
      BY <2>2, <3>2
    <3>. QED BY <3>1, <3>2
  <2>4. \A l \in ins'[mat'] \cap Homes : w.has[mat'][l] \cap known' \subseteq holds'[InRegister(l)']
    BY <1>1, <1>6, <2>3
  <2>5. \A k \in 0 .. numLocals' - 1 : w.slot[mat'][k] \cap known' \subseteq slots'[k]
    BY <1>1, <2>2
  <2>6. /\ code' = Compiled(c)' /\ mat' \in DOMAIN c
        /\ at' = w.org[mat'] /\ at' \in DOMAIN source'
        /\ known' \subseteq Locations
        /\ DOMAIN holds' = GPR /\ DOMAIN slots' = 0 .. numLocals' - 1
    BY <1>1, <1>2, <1>6, <2>1, <2>2 DEF Locations, Registers
  <2>. QED BY <2>4, <2>5, <2>6 DEF Together, Homes, Locations, Registers
<1>9. OnlyRegistersLeft'
  <2>1. ASSUME NEW i \in DOMAIN c
        PROVE  LET m == Compiled(c)[i]
               IN  /\ {m.d, m.u, m.v} \cap Names = {}
                   /\ m.op = "shift" => m.u \in {RCX, Imm}
    <3>. DEFINE m == Compiled(c)[i]
    <3>1. \A o \in {c[i].d, c[i].u, c[i].v} : InRegister(o) \notin Names
      BY <1>3, <1>4, OperandAssigned, HomesAre, NamesAssumption
    <3>2. /\ m.op = (IF c[i].op = "stackarg" THEN "load" ELSE c[i].op)
          /\ m.d = InRegister(c[i].d)
          /\ c[i].op # "stackarg" => m.u = InRegister(c[i].u) /\ m.v = InRegister(c[i].v)
          /\ c[i].op = "stackarg" => m.u = RSP /\ m.v = Imm
      BY <1>3, CompiledFields
    <3>3. RSP \notin Names /\ Imm \notin Names
      BY NamesAssumption
    <3>4. c[i].op = "shift" => c[i].u \in Names \cup {RCX, Imm}
      BY <1>3 DEF Instructions
    <3>5. c[i].op = "shift" => InRegister(c[i].u) \in {RCX, Imm}
      BY <1>4, <3>4, RegistersAssumption DEF AssignedFor, Registers
    <3>. QED BY <3>1, <3>2, <3>3, <3>5
  <2>2. code' = Compiled(c) /\ DOMAIN Compiled(c) = DOMAIN c
    BY <1>1, <1>2 DEF Compiled
  <2>3. /\ VarsOf(code') = {}
        /\ \A i \in DOMAIN code' : code'[i].op = "shift" => code'[i].u \in {RCX, Imm}
    BY <2>1, <2>2 DEF VarsOf
  <2>. QED BY <2>3 DEF OnlyRegistersLeft
<1>. QED BY <1>1, <1>7, <1>8, <1>9

-----------------------------------------------------------------------------
(* What holds in every state: the certificate and the invariants of the    *)
(* analysis, the colouring and the spilling while the function is          *)
(* allocated; that both sides are together once it runs.                   *)
Running == \E c, w : Compilation(c, w) /\ Together(c, w)

AllocInv ==
    /\ phase \in {"liveness", "color", "run", "halt"}
    /\ phase \in {"liveness", "color"} => AllocatingInv
    /\ phase = "run" => Running
    /\ OnlyRegistersLeft

LEMMA AllocInit == Init => AllocInv
<1>. SUFFICES ASSUME Init PROVE AllocInv
  OBVIOUS
<1>1. /\ source \in Sources /\ code = source /\ source \in Seq(Instructions) /\ source # <<>>
      /\ phase = "liveness" /\ lpc = "idle" /\ idx = 0 /\ changed = FALSE
      /\ newInstructions = <<>> /\ next = 1 /\ numLocals = 0 /\ spilledVarIdx = 0
  BY SourcesAssumption DEF Init
<1>2. \E w : Certifies(source, code, numLocals, w)
  BY <1>1, SourceCertified
<1>3. CodeInv
  <2>1. \A k \in DOMAIN SpillName : SpillName[k] \notin VarsOf(source)
    BY <1>1, SpillNamesAssumption
  <2>. QED BY <1>1, <1>2, <2>1, NoVariables DEF CodeInv
<1>4. AnalysisInv
  <2>1. /\ code \in Seq(LP!Instructions) /\ 0 \in 0 .. Len(code)
    BY <1>1, SameVocabulary
  <2>. QED BY <1>1, <2>1 DEF AnalysisInv, LP!TypeOK, LP!SolvedSoFar, LP!Solved, Within
<1>5. GraphInv /\ SpillInv
  BY <1>1 DEF GraphInv, SpillInv, Spilling
<1>. QED BY <1>1, <1>3, <1>4, <1>5 DEF AllocInv, AllocatingInv, OnlyRegistersLeft

LEMMA CompilationStays ==
    ASSUME NEW c, NEW w, Compilation(c, w),
           UNCHANGED <<source, code, livenessVars, colorVars, numLocals>>
    PROVE  Compilation(c, w)'
<1>1. AnalysedFor(c)'
  BY DEF Compilation, AnalysedFor, livenessVars
<1>2. AssignedFor(c)'
  <2>1. \A o : InRegister(o)' = InRegister(o)
    BY DEF InRegister, colorVars
  <2>. QED BY <2>1 DEF Compilation, AssignedFor, livenessVars, Registers, Homes
<1>3. Certifies(source', c, numLocals', w)
  BY DEF Compilation
<1>. QED BY <1>1, <1>2, <1>3 DEF Compilation

LEMMA AllocStep == AllocInv /\ [Next]_vars => AllocInv'
<1>. SUFFICES ASSUME AllocInv, [Next]_vars PROVE AllocInv'
  OBVIOUS
<1>1. ASSUME AnalyzeLiveness \/ BuildGraph \/ ColorGraph \/ SpillInstruction \/ SpillNext
      PROVE  AllocInv'
  <2>1. phase \in {"liveness", "color"} /\ AllocatingInv
    BY <1>1 DEF AllocInv, AnalyzeLiveness, BuildGraph, ColorGraph, SpillInstruction,
                SpillNext, Spilling
  <2>2. AllocatingInv' /\ phase' \in {"liveness", "color"}
    <3>1. CASE AnalyzeLiveness
      <4>1. phase = "liveness"
        BY <3>1 DEF AnalyzeLiveness
      <4>. QED BY <2>1, <3>1, <4>1, AnalyzeStep
    <3>. QED BY <1>1, <2>1, <3>1, BuildStep, ColorStep, SpillInstructionStep, SpillNextStep
  <2>. QED BY <2>2 DEF AllocInv, OnlyRegistersLeft
<1>2. CASE Rewrite
  <2>1. phase = "color" /\ AllocatingInv
    BY <1>2 DEF AllocInv, Rewrite
  <2>2. Running' /\ OnlyRegistersLeft' /\ phase' = "run"
    BY <1>2, <2>1, RewriteStep DEF Running
  <2>. QED BY <2>2 DEF AllocInv
<1>3. CASE RunSpillCode \/ RunInstruction
  <2>1. /\ phase = "run" /\ Running /\ phase' = phase
        /\ UNCHANGED <<source, code, livenessVars, colorVars, numLocals>>
    BY <1>3 DEF AllocInv, RunSpillCode, RunInstruction
  <2>2. Running'
    <3>1. PICK c, w : Compilation(c, w) /\ Together(c, w)
      BY <2>1 DEF Running
    <3>2. Compilation(c, w)'
      BY <2>1, <3>1, CompilationStays
    <3>3. Together(c, w)'
      BY <1>3, <3>1, SlotStep, InstructionStep
    <3>. QED BY <3>2, <3>3 DEF Running
  <2>3. OnlyRegistersLeft'
    BY <2>1 DEF AllocInv, OnlyRegistersLeft, VarsOf
  <2>. QED BY <2>1, <2>2, <2>3 DEF AllocInv
<1>4. CASE Halt
  <2>1. phase = "run" /\ phase' = "halt" /\ code' = code
    BY <1>4 DEF Halt
  <2>. QED BY <2>1 DEF AllocInv, OnlyRegistersLeft, VarsOf
<1>5. CASE UNCHANGED vars
  <2>1. /\ UNCHANGED <<source, code, succ, ins, outs, idx, changed, lpc>>
        /\ UNCHANGED <<graph, degree, varStack, unavailable, coloring, toSpill, cpc>>
        /\ UNCHANGED <<newInstructions, next, numLocals, spilledVarIdx, phase>>
        /\ UNCHANGED <<at, mat, known, holds, slots>>
    BY <1>5 DEF vars, livenessVars, colorVars, spillVars, runVars
  <2>2. ASSUME AllocatingInv PROVE AllocatingInv'
    <3>1. CodeInv'
      BY <2>1, <2>2 DEF AllocatingInv, CodeInv
    <3>2. AnalysisInv'
      <4>1. InSync' <=> InSync
        BY <2>1 DEF InSync
      <4>2. LP!TypeOK /\ LP!SolvedSoFar => LP!TypeOK' /\ LP!SolvedSoFar'
        BY <2>1, AnalysisAssumptions, LP!TypeStep, LP!SolvedStep DEF LP!lvars
      <4>3. Within => Within'
        BY <2>1 DEF Within, Registers
      <4>. QED BY <2>1, <2>2, <4>1, <4>2, <4>3 DEF AllocatingInv, AnalysisInv
    <3>3. GraphInv'
      <4>1. CP!TypeOK /\ CP!ProperInv => CP!TypeOK' /\ CP!ProperInv'
        BY <2>1, ColoringAssumptions, CP!TypeStep, CP!ProperStep DEF CP!cvars
      <4>2. CP!TypeOK /\ CP!RemovalInv /\ CP!SelectInv => CP!RemovalInv' /\ CP!SelectInv'
        BY <2>1, ColoringAssumptions, CP!RemovalStep, CP!SelectStep DEF CP!cvars
      <4>3. Nodes' = Nodes /\ \A x, y : Interfere(x, y)' = Interfere(x, y)
        BY <2>1 DEF Nodes, Interfere, LiveTogether, WrittenOver, ShiftForbids
      <4>4. [x \in Nodes |-> {y \in Nodes \ {x} : Interfere(x, y)}]'
               = [x \in Nodes |-> {y \in Nodes \ {x} : Interfere(x, y)}]
        BY <4>3
      <4>5. InSync' <=> InSync
        BY <2>1 DEF InSync
      <4>. QED BY <2>1, <2>2, <4>1, <4>2, <4>4, <4>5 DEF AllocatingInv, GraphInv
    <3>4. SpillInv'
      <4>1. Spilling' <=> Spilling
        BY <2>1 DEF Spilling
      <4>. QED BY <2>1, <2>2, <4>1 DEF AllocatingInv, SpillInv
    <3>. QED BY <3>1, <3>2, <3>3, <3>4 DEF AllocatingInv
  <2>3. ASSUME Running PROVE Running'
    <3>1. PICK c, w : Compilation(c, w) /\ Together(c, w)
      BY <2>3 DEF Running
    <3>2. Compilation(c, w)'
      BY <2>1, <3>1, CompilationStays DEF livenessVars, colorVars
    <3>3. Together(c, w)'
      <4>1. /\ \A o : InRegister(o)' = InRegister(o)
            /\ Compiled(c)' = Compiled(c)
        BY <2>1, CompiledStays
      <4>. QED BY <2>1, <3>1, <4>1 DEF Together, Homes, Locations, Registers
    <3>. QED BY <3>2, <3>3 DEF Running
  <2>4. OnlyRegistersLeft'
    BY <2>1 DEF AllocInv, OnlyRegistersLeft, VarsOf
  <2>. QED BY <2>1, <2>2, <2>3, <2>4 DEF AllocInv
<1>. QED BY <1>1, <1>2, <1>3, <1>4, <1>5 DEF Next, Allocate

THEOREM AllocInvariant == Spec => []AllocInv
BY AllocInit, AllocStep, PTL DEF Spec

(* The graph handed to the colouring is symmetric and irreflexive, has     *)
(* every register, pairwise adjacent, and lacks the stack pointer, for     *)
(* every function and in every round.                                      *)
THEOREM GraphsAreWellFormed == Spec => []GraphIsWellFormed
<1>1. AllocInv => GraphIsWellFormed
  BY SameSteps DEF AllocInv, AllocatingInv, GraphInv, CP!TypeOK, GraphIsWellFormed
<1>. QED BY <1>1, AllocInvariant, PTL

(* When the allocation of a function ends, no variable is left in it, and  *)
(* every variable shift amount is in rcx.                                  *)
THEOREM VariablesAreGone == Spec => []OnlyRegistersLeft
<1>1. AllocInv => OnlyRegistersLeft
  BY DEF AllocInv
<1>. QED BY <1>1, AllocInvariant, PTL

(* Whatever was spilled, in however many rounds, and however the variables *)
(* were coloured: every instruction of the compiled function reads, in the *)
(* registers it names, the values that its source reads.                   *)
THEOREM AllocationIsSound == Spec => []AllocationSound
<1>1. AllocInv => AllocationSound
  BY TogetherIsSound DEF AllocInv, Running, AllocationSound
<1>. QED BY <1>1, AllocInvariant, PTL
=============================================================================
