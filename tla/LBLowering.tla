---------------------------- MODULE LBLowering ----------------------------
(***************************************************************************)
(* The passes of LB (LB/src/code_generator.cpp).                           *)
(*                                                                         *)
(* translate_variable_decl: every declaration gets a name of its own, so   *)
(* that the scopes can be dropped.  rewrite_scope calls itself for a       *)
(* nested scope; entering and leaving one are steps, and so is each node   *)
(* of a scope.                                                             *)
(*                                                                         *)
(* translate_if_while: while, if, break and continue become comparisons    *)
(* and branches.  The first loop over the instructions finds out, from     *)
(* where the begin and end labels of the loops are, to which loop each     *)
(* instruction belongs; the second one lowers.                             *)
(*                                                                         *)
(* A function is what its compiler sees of it (LB/src/instruction.h).  The *)
(* tree of scopes is a sequence with marks where a scope opens and closes. *)
(* Of an instruction matter the names in it, in order, and its labels; all *)
(* that only compute are Use.  The field of is history: the place in the   *)
(* source of the instruction it stands for, 0 for one that was inserted.   *)
(***************************************************************************)
EXTENDS Integers, FiniteSets, SequencesExt

(* A name is a word and the numbers it was given behind underscores:       *)
(* x_0 is <<"x", <<0>>>>.                                                  *)
Name(s)        == <<s, <<>>>>
Suffixed(x, n) == <<x[1], Append(x[2], n)>>

Item(op, names, to) == [op |-> op, names |-> names, to |-> to, of |-> 0]

Open            == Item("open", <<>>, <<>>)
Close           == Item("close", <<>>, <<>>)
Declare(x)      == Item("declare", <<x>>, <<>>)
Use(xs)         == Item("use", xs, <<>>)
Label(l)        == Item("label", <<>>, <<l>>)
While(xs, l, m) == Item("while", xs, <<l, m>>)
If(xs, l, m)    == Item("if", xs, <<l, m>>)
Break           == Item("break", <<>>, <<>>)
Continue        == Item("continue", <<>>, <<>>)
Return(xs)      == Item("return", xs, <<>>)
Branch(l)       == Item("branch", <<>>, <<l>>)

(* Of the result only: the condition is compared into a variable, and that *)
(* is branched on.                                                         *)
Compare(x, xs)  == Item("compare", <<x>> \o xs, <<>>)
Cond(x, l, m)   == Item("cond", <<x>>, <<l, m>>)

AllNames == STRING \X Seq(Nat)

(* The instructions of a source, with what a kind has of names and labels. *)
Items ==
    {it \in [op : {"open", "close", "declare", "use", "label", "while", "if", "break",
                   "continue", "return", "branch"},
             names : Seq(AllNames), to : Seq(AllNames), of : Nat] :
        /\ it.op \in {"open", "close"} => it.names = <<>>
        /\ it.op = "declare" => Len(it.names) = 1
        /\ it.op \in {"label", "branch"} => Len(it.to) = 1
        /\ it.op \in {"while", "if"} => Len(it.to) = 2}

IsMark(it) == it.op \in {"open", "close"}

NamesIn(c) == UNION {Range(c[k].names) : k \in DOMAIN c}

Places(c, l) == {k \in DOMAIN c : c[k].op = "label" /\ c[k].to[1] = l}

Latest(S) == CHOOSE k \in S : \A j \in S : j <= k

(* map[k] = v. *)
Put(map, k, v) == [j \in DOMAIN map \cup {k} |-> IF j = k THEN v ELSE map[j]]

-----------------------------------------------------------------------------
VARIABLES
    params,         \* the names of the parameters
    code, i, out,   \* the source, the next place, what has been rewritten
    scopeMaps,      \* the maps of the open scopes
    nameCounters,   \* how often a name has been declared
    loopStack,      \* the loops that are open, by the place of their while
    loopOf          \* for each place seen, the loop it belongs to

item == code[i]

Rewrite(it) ==
    /\ i' = i + 1
    /\ out' = Append(out, it)
    /\ UNCHANGED code

(* lookup_renamed_name, from the innermost scope outwards.  A name that is *)
(* nowhere stays as it is: a parameter or a function.                      *)
Renamed(x) ==
    LET found == {s \in DOMAIN scopeMaps : x \in DOMAIN scopeMaps[s]}
    IN  IF found = {} THEN x
        ELSE scopeMaps[CHOOSE s \in found : \A r \in found : r <= s][x]

EnterScope ==
    /\ i <= Len(code) /\ item.op = "open"
    /\ scopeMaps' = Append(scopeMaps, <<>>)
    /\ Rewrite(item)
    /\ UNCHANGED nameCounters

LeaveScope ==
    /\ i <= Len(code) /\ item.op = "close"
    /\ scopeMaps' = Front(scopeMaps)
    /\ Rewrite(item)
    /\ UNCHANGED nameCounters

Count(x) == IF x \in DOMAIN nameCounters THEN nameCounters[x] ELSE 0

(* Variant: the suffix is the depth of the scope.                          *)
SuffixByDepth(x) == Len(scopeMaps)

Suffix(x) == Count(x)

RenameDeclared ==
    /\ i <= Len(code) /\ item.op = "declare"
    /\ LET x   == item.names[1]
           new == Suffixed(x, Suffix(x))
       IN  /\ Rewrite([item EXCEPT !.names = <<new>>])
           /\ scopeMaps' = [scopeMaps EXCEPT ![Len(scopeMaps)] = Put(@, x, new)]
           /\ nameCounters' = Put(nameCounters, x, Count(x) + 1)

(* rewrite_instruction_refs.                                               *)
RewriteRefs ==
    /\ i <= Len(code) /\ item.op \notin {"open", "close", "declare"}
    /\ Rewrite([item EXCEPT !.names = [j \in DOMAIN @ |-> Renamed(@[j])]])
    /\ UNCHANGED <<scopeMaps, nameCounters>>

ScopesNext == EnterScope \/ LeaveScope \/ RenameDeclared \/ RewriteRefs

(* flatten_nested_scopes.                                                  *)
Flat(c) ==
    LET flattened[k \in 0 .. Len(c)] ==
            IF k = 0 THEN <<>>
            ELSE IF IsMark(c[k]) THEN flattened[k - 1]
            ELSE Append(flattened[k - 1], c[k])
    IN  flattened[Len(c)]

-----------------------------------------------------------------------------
Whiles == {k \in DOMAIN code : code[k].op = "while"}

(* beginToWhile and endToWhile: the last while with the label counts.      *)
BeginsAt(l) == {k \in Whiles : code[k].to[1] = l}
EndsAt(l)   == {k \in Whiles : code[k].to[2] = l}

(* The numbers fresh_label takes, one for each while in their order; a     *)
(* label of the source is passed over.                                     *)
CondLabel(k) ==
    LET Numbered(n) == <<"__lb_while_cond", <<n>>>>
        used == {code[j].to[1] : j \in {h \in DOMAIN code : code[h].op = "label"}}
        free == {n \in 0 .. 2 * Len(code) : Numbered(n) \notin used}
        rank == Cardinality({w \in Whiles : w < k})
    IN  Numbered(CHOOSE n \in free : Cardinality({m \in free : m < n}) = rank)

(* sharedCondTmp.                                                          *)
CondTmp ==
    LET Numbered(n) == <<"__lb_cond_tmp", <<n>>>>
        used == NamesIn(code) \cup params
    IN  Numbered(CHOOSE n \in 0 .. Cardinality(used) :
            Numbered(n) \notin used /\ \A m \in 0 .. n - 1 : Numbered(m) \in used)

LoopsStart(c) ==
    /\ code' = c
    /\ i' = 1 /\ out' = <<>>
    /\ loopStack' = <<>> /\ loopOf' = <<>>

(* Variant: an end label closes the innermost loop.                        *)
WithoutInnermost(stack, w) == IF stack = <<>> THEN stack ELSE Front(stack)

(* An end label closes its loop, wherever that is on the stack.            *)
WithoutLoop(stack, w) ==
    IF w \notin Range(stack) THEN stack
    ELSE RemoveAt(stack, Latest({k \in DOMAIN stack : stack[k] = w}))

AssignLoop ==
    /\ i <= Len(code)
    /\ loopOf' = IF loopStack = <<>> THEN loopOf ELSE Put(loopOf, i, Last(loopStack))
    /\ loopStack' =
         IF item.op # "label" THEN loopStack
         ELSE LET l      == item.to[1]
                  opened == IF BeginsAt(l) = {} THEN loopStack
                            ELSE Append(loopStack, Latest(BeginsAt(l)))
              IN  IF EndsAt(l) = {} THEN opened
                  ELSE WithoutLoop(opened, Latest(EndsAt(l)))
    /\ i' = i + 1
    /\ UNCHANGED <<params, code, out>>

LowerStart ==
    /\ i' = 1
    /\ UNCHANGED <<params, code, out, loopStack, loopOf>>

Emit(seq) ==
    /\ i' = i + 1
    /\ out' = out \o seq
    /\ UNCHANGED <<params, code, loopStack, loopOf>>

(* The comparison and the branch stand for the instruction.                *)
Tested == <<Declare(CondTmp),
            [Compare(CondTmp, item.names) EXCEPT !.of = item.of],
            [Cond(CondTmp, item.to[1], item.to[2]) EXCEPT !.of = item.of]>>

LowerWhile ==
    /\ i <= Len(code) /\ item.op = "while"
    /\ Emit(<<Label(CondLabel(i))>> \o Tested)

LowerIf ==
    /\ i <= Len(code) /\ item.op = "if"
    /\ Emit(Tested)

(* Outside of every loop they are left as they are.                        *)
LowerContinue ==
    /\ i <= Len(code) /\ item.op = "continue"
    /\ Emit(<<IF i \in DOMAIN loopOf
              THEN [Branch(CondLabel(loopOf[i])) EXCEPT !.of = item.of] ELSE item>>)

LowerBreak ==
    /\ i <= Len(code) /\ item.op = "break"
    /\ Emit(<<IF i \in DOMAIN loopOf
              THEN [Branch(code[loopOf[i]].to[2]) EXCEPT !.of = item.of] ELSE item>>)

LowerOther ==
    /\ i <= Len(code) /\ item.op \notin {"while", "if", "continue", "break"}
    /\ Emit(<<item>>)

LowerNext == LowerWhile \/ LowerIf \/ LowerContinue \/ LowerBreak \/ LowerOther
=============================================================================
