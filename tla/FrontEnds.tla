----------------------------- MODULE FrontEnds -----------------------------
(***************************************************************************)
(* A program on its way through a text: what one stage prints is all the   *)
(* next one knows of it.                                                   *)
(*                                                                         *)
(* A source program is a tree of the language; WriteOut writes its text,   *)
(* as the stage above does it and in one of the layouts the language       *)
(* allows, Read runs the parser of the stage over that text.  Of a program *)
(* of L1 the last stage then writes the assembler, and it runs.            *)
(***************************************************************************)
EXTENDS HighTexts, X86Code

CONSTANTS Sources,   \* for a language, the programs of its texts
          Layouts    \* for a language, the layouts of its texts

VARIABLES lang, source, layout, text, result

texts == <<lang, source, layout, text, result>>

vars == <<texts, machine>>

Nothing == <<>>

Init ==
    /\ lang \in DOMAIN Sources
    /\ source \in Sources[lang]
    /\ layout \in Layouts[lang]
    /\ text = Nothing /\ result = Nothing
    /\ NoMachine

PrintText(language, program) ==
    CASE language = "L1" -> PrintL1(program)
      [] language = "L2" -> PrintL2(program)
      [] language = "L3" -> PrintL3(program)
      [] language = "IR" -> PrintIR(program)
      [] language = "LA" -> PrintLA(program)
      [] language = "LB" -> PrintLB(program)

(* parse_file of the six stages.                                           *)
ReadText(language, t) ==
    CASE language = "L1" -> ReadL1(t)
      [] language = "L2" -> ReadL2(t)
      [] language = "L3" -> ReadL3(t)
      [] language = "IR" -> ReadIR(t)
      [] language = "LA" -> ReadLA(t)
      [] language = "LB" -> ReadLB(t)

(* A layout of a text by hand: a comment at the end of every line, or all  *)
(* on one line.                                                            *)
Laid(t, lay) ==
    CASE lay = "printed"   -> t
      [] lay = "commented" ->
            FlattenSeq([j \in DOMAIN t |->
                IF t[j] = "\n" THEN <<" ", "/", "/", "x", "\n">> ELSE <<t[j]>>])
      [] lay = "one_line"  -> [j \in DOMAIN t |-> IF t[j] = "\n" THEN " " ELSE t[j]]

WriteOut ==
    /\ text = Nothing
    /\ text' = Laid(PrintText(lang, source), layout)
    /\ UNCHANGED <<lang, source, layout, result, machine>>

Read ==
    /\ text # Nothing /\ result = Nothing
    /\ result' = ReadText(lang, text)
    /\ UNCHANGED <<lang, source, layout, text, machine>>

(* The run of a program of one function, as calls are not followed.        *)
Generate ==
    /\ lang = "L1" /\ result # Nothing /\ result.accepted /\ cpu = <<>>
    /\ Len(result.program.a) = 1
    /\ GenerateCode(result.program.a[1])
    /\ UNCHANGED texts

Run == Execute /\ UNCHANGED texts

Next == WriteOut \/ Read \/ Generate \/ Run

Spec == Init /\ [][Next]_vars

(***************************************************************************)
(* What the two sides of a text share: the program that was written.       *)
(***************************************************************************)
(* A declaration of several names stands for one of each.                  *)
RECURSIVE Declared(_)

Declared(node) ==
    IF node.k = "Declaration"
    THEN [j \in DOMAIN node.a[2].a |-> Node("VarDef", <<>>, <<node.a[1], node.a[2].a[j]>>)]
    ELSE <<[node EXCEPT !.a = FlattenSeq([j \in DOMAIN @ |-> Declared(@[j])])]>>

(* A file of L2 with one bare function is a program of that function.      *)
Functions ==
    [written |-> IF source.k = "Program" THEN Declared(source)[1].a ELSE <<source.a[1]>>,
     read    |-> IF source.k = "Program" THEN result.program.a
                 ELSE SubSeq(result.program.a, 1, 1)]

SameProgram ==
    /\ result.accepted
    /\ Functions.read = Functions.written
    /\ source.k = "Program" => result.program.t = source.t

(***************************************************************************)
(* Where a language cannot be read back.                                   *)
(***************************************************************************)
(* The nodes of a tree.                                                    *)
RECURSIVE Nodes(_)

Nodes(node) == {node} \cup UNION {Nodes(node.a[j]) : j \in DOMAIN node.a}

Has(node, Fits(_)) == \E n \in Nodes(node) : Fits(n)

IsLabel(node) == node.k = "Label"

(* IR knows a function only as what is assigned, stored or called; LA      *)
(* prints its name wherever it is used.                                    *)
UsesFunction(node) ==
    /\ node.k \in {"Args", "Indices", "ReturnVal", "Operator", "NewArray"}
    /\ \E j \in DOMAIN node.a : IsLabel(node.a[j])

(* A longer name that begins like a word.                                  *)
BeginsLike(node, words) == node.k = "Name" /\ Len(node.t) > 1 /\ node.t[1] \in words

(* LA takes the beginning of a name for a type at the start of a           *)
(* statement, and for "length" where a value starts: the operations and    *)
(* the accesses are tried before.                                          *)
LooksLikeADeclaration(node) ==
    \/ node.k = "Assign" /\ BeginsLike(node.a[1], {"int64", "tuple", "code"})
    \/ node.k = "CallInstruction" /\ BeginsLike(node.a[1].a[1], {"int64", "tuple", "code"})

LooksLikeALength(node) ==
    /\ node.k = "Assign"
    /\ LET value == node.a[2]
       IN  \/ BeginsLike(value, {"length"})
           \/ value.k = "Call" /\ BeginsLike(value.a[1], {"length"})

(* LB tries the words that are a statement of their own before the calls.  *)
LooksLikeAJump(node) ==
    /\ node.k = "CallInstruction"
    /\ BeginsLike(node.a[1].a[1], {"return", "break", "continue"})

(* Blanks of LB are line breaks as well: a statement that may go on takes  *)
(* the first word of the next one, unless a comment stands in between.     *)
MayGoOn(statement) ==
    \/ statement.k = "Return"
    \/ statement.k = "Assign" /\ statement.a[2].k = "TupleLength"

BeginsWithWord(statement) == statement.k \notin {"Scope", "LabelInstruction"}

TakesTheNextWord(node) ==
    /\ node.k = "Scope"
    /\ \E j \in 1..(Len(node.a) - 1) : MayGoOn(node.a[j]) /\ BeginsWithWord(node.a[j + 1])

Readable ==
    CASE lang = "IR" -> ~Has(source, UsesFunction)
      [] lang = "LA" -> ~Has(source, LooksLikeADeclaration) /\ ~Has(source, LooksLikeALength)
      [] lang = "LB" -> /\ ~Has(source, LooksLikeAJump)
                        /\ layout = "commented" \/ ~Has(source, TakesTheNextWord)
      [] OTHER -> TRUE

(***************************************************************************)
(* Properties.                                                             *)
(***************************************************************************)
JustRead == result # Nothing /\ cpu = <<>>

(* Reading gives back the program that was written, function by function   *)
(* and operand by operand, whatever the layout, but for the programs the   *)
(* three grammars above cannot tell from others: those come back as        *)
(* another program, as the first functions only, or not at all.            *)
ReadsBack == JustRead => (SameProgram <=> Readable)

(* A semantic action takes from the stacks only what the match of its own  *)
(* rule has put there, and no name, operator or number of an alternative   *)
(* that failed before it.  The three that do otherwise take what the rules *)
(* in front of them leave on purpose: the type in front of a function's    *)
(* name, the statements of the scope that is being closed.                 *)
OwnPushesOnly ==
    JustRead =>
        result.robbed \subseteq {"function_name", "function_name_tok", "scope_close"}
=============================================================================
