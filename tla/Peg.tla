-------------------------------- MODULE Peg --------------------------------
(***************************************************************************)
(* The part of the vendored PEGTL library the six front ends are built     *)
(* from: a grammar is a record of named rules, Match runs one of them over *)
(* a text.                                                                 *)
(*                                                                         *)
(* A text is a sequence of pieces: words, digits, blanks, and one piece    *)
(* for every other character.  No terminal of a grammar is a proper prefix *)
(* of a piece; one may match the first pieces of a longer name, as         *)
(* "length" does in the name "lengthB" (two pieces).                       *)
(*                                                                         *)
(* An answer tells whether the rule matched, where it stopped, the         *)
(* semantic actions that ran, in order, and whether a must<> gave up.  A   *)
(* rule that fails gives its characters back, never its actions: what an   *)
(* alternative did before it failed stays done.  A struct that derives     *)
(* from another rule is that rule's expression under a name of its own, so *)
(* the action of the other rule does not run.  In the operators below,     *)
(* match is the function from rules and places to answers.                 *)
(*                                                                         *)
(* Then what the parsers make of the actions that ran, and how a tree is   *)
(* written.                                                                *)
(***************************************************************************)
EXTENDS Integers, SequencesExt

Expr(op, of, chars) == [op |-> op, of |-> of, chars |-> chars]

All(rules)  == Expr("seq", rules, {})
Sor(rules)    == Expr("sor", rules, {})
Star(rules)   == Expr("star", rules, {})
Opt(rules)    == Expr("opt", rules, {})
Must(rules)   == Expr("must", rules, {})
Disable(rules) == Expr("disable", rules, {})
Str(pieces)   == Expr("string", pieces, {})
One(chars)    == Expr("one", <<>>, chars)
NotOne(chars) == Expr("not_one", <<>>, chars)
UntilEolf     == Expr("until", <<>>, {"\n"})
Eof           == Expr("eof", <<>>, {})

(* The items of a rule with blanks in between, as most rules are written.  *)
Spaced(rules) ==
    All([j \in 1..(2 * Len(rules) - 1) |->
              IF j % 2 = 1 THEN rules[(j + 1) \div 2] ELSE "spaces"])

Answer(ok, at, fired, raised) == [ok |-> ok, at |-> at, fired |-> fired, raised |-> raised]

Matches(at) == Answer(TRUE, at, <<>>, FALSE)

Fails(at) == Answer(FALSE, at, <<>>, FALSE)

(* One answer after another: the actions of both have run.                 *)
Then(m, next) == [next EXCEPT !.fired = m.fired \o @]

MatchOne(text, chars, at) ==
    IF at <= Len(text) /\ text[at] \in chars THEN Matches(at + 1) ELSE Fails(at)

MatchNotOne(text, chars, at) ==
    IF at <= Len(text) /\ text[at] \notin chars THEN Matches(at + 1) ELSE Fails(at)

MatchString(text, pieces, at) ==
    LET end == at + Len(pieces)
    IN  IF end <= Len(text) + 1 /\ SubSeq(text, at, end - 1) = pieces
        THEN Matches(end)
        ELSE Fails(at)

MatchEof(text, at) == IF at > Len(text) THEN Matches(at) ELSE Fails(at)

(* until< eolf >: past the end of the line, or to the end of the text.     *)
MatchUntilEolf(text, at) ==
    LET ends == {k \in at..Len(text) : text[k] = "\n"}
    IN  Matches(1 + Min(ends \cup {Len(text)}))

MatchSeq(match, rules, at) ==
    FoldLeft(LAMBDA m, r : IF m.ok THEN Then(m, match[r, m.at]) ELSE m, Matches(at), rules)

(* The first alternative that matches; the actions of one that did not     *)
(* have run all the same.                                                  *)
MatchSor(match, rules, at) ==
    FoldLeft(LAMBDA m, r : IF m.ok \/ m.raised THEN m ELSE Then(m, match[r, at]),
             Fails(at), rules)

(* Once more, or not at all: rule is the star itself.                      *)
MatchStar(match, rule, rules, at) ==
    LET once == MatchSeq(match, rules, at)
    IN  CASE once.ok     -> Then(once, match[rule, once.at])
          [] once.raised -> once
          [] OTHER       -> Then(once, Matches(at))

MatchOpt(match, rules, at) ==
    LET once == MatchSeq(match, rules, at)
    IN  IF once.ok \/ once.raised THEN once ELSE Then(once, Matches(at))

MatchMust(match, rules, at) ==
    LET all == MatchSeq(match, rules, at) IN [all EXCEPT !.raised = @ \/ ~all.ok]

MatchDisable(match, rules, at) == [MatchSeq(match, rules, at) EXCEPT !.fired = <<>>]

(* The semantic action of a rule that has matched: its name, its text, and *)
(* the number of actions that ran within the rule.                         *)
Firing(rule, text, from, m) ==
    [m EXCEPT !.fired =
        Append(@, [rule |-> rule, text |-> SubSeq(text, from, m.at - 1), within |-> Len(@)])]

(* Parsing a text from the rule named grammar; acting are the rules that   *)
(* have a semantic action.                                                 *)
Parse(text, rules, acting, grammar) ==
    LET match[r \in STRING, at \in Nat] ==
            LET e == rules[r]
                m == CASE e.op = "seq"     -> MatchSeq(match, e.of, at)
                       [] e.op = "one"     -> MatchOne(text, e.chars, at)
                       [] e.op = "string"  -> MatchString(text, e.of, at)
                       [] e.op = "sor"     -> MatchSor(match, e.of, at)
                       [] e.op = "star"    -> MatchStar(match, r, e.of, at)
                       [] e.op = "opt"     -> MatchOpt(match, e.of, at)
                       [] e.op = "not_one" -> MatchNotOne(text, e.chars, at)
                       [] e.op = "until"   -> MatchUntilEolf(text, at)
                       [] e.op = "disable" -> MatchDisable(match, e.of, at)
                       [] e.op = "must"    -> MatchMust(match, e.of, at)
                       [] e.op = "eof"     -> MatchEof(text, at)
            IN  IF m.ok /\ r \in acting THEN Firing(r, text, at, m) ELSE m
    IN  match[grammar, 1]

-----------------------------------------------------------------------------
(* What the six front ends have in common: the trees they build, the       *)
(* stacks their semantic actions work on, and the printing of a tree.      *)

Digits == {"0", "1", "2", "3", "4", "5", "6", "7", "8", "9"}

Symbols == {" ", "\t", "\n", "<", "-", "=", "+", "*", "&", ">", "(", ")", "{", "}",
            "[", "]", ",", ":", "@", "%", "/"}

(***************************************************************************)
(* Trees.  A node is its kind, its text and its children; a function keeps *)
(* its body as its last child.                                             *)
(***************************************************************************)
Node(k, t, a) == [k |-> k, t |-> t, a |-> a]

Leaf(k, t) == Node(k, t, <<>>)

(* std::stoll and back to text: no plus sign, and no sign on a zero.       *)
Numeral(t) == IF t[1] = "+" \/ t = <<"-", "0">> THEN Tail(t) ELSE t

Text(kind, t) == IF kind = "Number" THEN Numeral(t) ELSE t

DigitValue == [d \in Digits |-> CHOOSE v \in 0..9 : ToString(v) = d]

Magnitude(t) ==
    FoldLeft(LAMBDA v, d : 10 * v + DigitValue[d], 0, SelectSeq(t, LAMBDA d : d \in Digits))

(***************************************************************************)
(* The state of a parser: the stack of nodes, the stacks of operators, the *)
(* counters, and the program read so far.  "sizes" is the history of the   *)
(* heights of the stacks, one entry per action; it is no state of the code *)
(* and feeds "robbed", the rules whose action took more from the stacks    *)
(* than the match of the rule had put there.                               *)
(***************************************************************************)
Heights(g) ==
    [items |-> Len(g.items), ops |-> [s \in DOMAIN g.ops |-> Len(g.ops[s])]]

Counting(g) == [g EXCEPT !.sizes = <<Heights(g)>>]

ParserStart(stacks, counters) ==
    Counting([items |-> <<>>, ops |-> [s \in stacks |-> <<>>],
              count |-> [c \in counters |-> 0], entry |-> <<>>, functions |-> <<>>,
              thrown |-> FALSE, sizes |-> <<>>, robbed |-> {}])

(* What an action does: push a node, push an operator, count, or pop some  *)
(* nodes (and an operator) and make a node or an instruction of them.      *)
Does(do, kind, n, stack) == [do |-> do, kind |-> kind, n |-> n, stack |-> stack]

Push(kind) == Does("push", kind, 0, "")
PushOp(kind, stack) == Does("op", kind, 0, stack)
Count(counter) == Does("count", "", 0, counter)
Wrap(kind, n) == Does("wrap", kind, n, "")
Emit(kind, n) == Does("emit", kind, n, "")
EmitOp(kind, n, stack) == Does("emit", kind, n, stack)

(* The last n elements.  The actions that pop n nodes one by one and then  *)
(* reverse them keep them in this order.                                   *)
Top(s, n) == SubSeq(s, Len(s) - n + 1, Len(s))

Without(s, n) == SubSeq(s, 1, Len(s) - n)

Item(g, node) == [g EXCEPT !.items = Append(@, node)]

Drop(g, n) == [g EXCEPT !.items = Without(@, n)]

(* program.functions.back()                                                *)
LastFunction(g) == g.functions[Len(g.functions)]

(* An instruction at the end of the body of the function being read.       *)
AddInstruction(g, ins) ==
    LET f == LastFunction(g)
        n == Len(f.a)
    IN  [g EXCEPT !.functions[Len(g.functions)] =
            [f EXCEPT !.a[n] = [@ EXCEPT !.a = Append(@, ins)]]]

AddFunction(g, f) == [g EXCEPT !.functions = Append(@, f)]

(* A block at the end of the function being read: the instructions that    *)
(* follow go there.                                                        *)
AddBlock(g, block) == [g EXCEPT !.functions[Len(g.functions)].a = Append(@, block)]

SetChild(g, n, node) == [g EXCEPT !.functions[Len(g.functions)].a[n] = node]

Operator(g, stack) == IF stack = "" THEN <<>> ELSE Top(g.ops[stack], 1)

PopOp(g, stack) == IF stack = "" THEN g ELSE [g EXCEPT !.ops[stack] = Without(@, 1)]

(* What an action makes of what it pops, and what it leaves.               *)
Made(act, g) == Node(act.kind, Operator(g, act.stack), Top(g.items, act.n))

Left(act, g) == PopOp(Drop(g, act.n), act.stack)

Act(act, g, text) ==
    CASE act.do = "push"  -> Item(g, Leaf(act.kind, Text(act.kind, text)))
      [] act.do = "op"    -> [g EXCEPT !.ops[act.stack] = Append(@, act.kind)]
      [] act.do = "count" -> [g EXCEPT !.count[act.stack] = @ + 1]
      [] act.do = "wrap"  -> Item(Left(act, g), Made(act, g))
      [] act.do = "emit"  -> AddInstruction(Left(act, g), Made(act, g))

(* The state after an action, with the history and the rules that robbed   *)
(* another; none runs after an exception.                                  *)
Robs(g, before, event) ==
    LET own == before.sizes[Len(before.sizes) - event.within]
    IN  \/ Len(g.items) < own.items
        \/ \E s \in DOMAIN g.ops : Len(g.ops[s]) < own.ops[s]

Recorded(g, before, event) ==
    [g EXCEPT !.sizes = Append(@, Heights(g)),
              !.robbed = IF Robs(g, before, event) THEN @ \cup {event.rule} ELSE @]

(* What is left of a run of the parser: the program read, or nothing when  *)
(* it gave up.                                                             *)
Outcome(answer, start, Apply(_, _)) ==
    LET Fire(g, event) ==
            IF g.thrown THEN g ELSE Recorded(Apply(g, event), g, event)
        after[j \in Nat] == IF j = 0 THEN start ELSE Fire(after[j - 1], answer.fired[j])
        end == after[Len(answer.fired)]
    IN  [accepted |-> answer.ok /\ ~end.thrown,
         program  |-> Node("Program", end.entry, end.functions),
         robbed   |-> end.robbed, count |-> end.count, at |-> answer.at,
         heights  |-> Heights(end)]

(***************************************************************************)
(* Printing.  A form is the pieces written for a kind of node: $t its      *)
(* text, $op the spelling of its operator, $1 to $4 a child, $list all     *)
(* children between separators, $rows with a line break between them,      *)
(* $lines each in the form of a line, $items each in that of an item, $all *)
(* one after the other, $rest so from the third on.                        *)
(***************************************************************************)
Child == [p \in {"$1", "$2", "$3", "$4"} |->
            CASE p = "$1" -> 1 [] p = "$2" -> 2 [] p = "$3" -> 3 [] p = "$4" -> 4]

RECURSIVE Write(_, _, _), WriteEach(_, _, _, _), WriteList(_, _, _, _), WritePiece(_, _, _, _)

WriteEach(forms, spelling, nodes, kind) ==
    FlattenSeq([j \in DOMAIN nodes |->
        Write(forms, spelling, Node(kind, <<>>, <<nodes[j]>>))])

WriteList(forms, spelling, nodes, separator) ==
    FlattenSeq([j \in DOMAIN nodes |->
        IF j = 1 THEN Write(forms, spelling, nodes[j])
        ELSE separator \o Write(forms, spelling, nodes[j])])

WritePiece(forms, spelling, node, p) ==
    CASE p = "$t"  -> node.t
      [] p = "$op" -> spelling[node.t[1]]
      [] p \in DOMAIN Child -> Write(forms, spelling, node.a[Child[p]])
      [] p = "$all" ->
            FlattenSeq([j \in DOMAIN node.a |-> Write(forms, spelling, node.a[j])])
      [] p = "$rest" ->
            FlattenSeq([j \in 1..(Len(node.a) - 2) |-> Write(forms, spelling, node.a[j + 2])])
      [] p = "$lines" -> WriteEach(forms, spelling, node.a, "line")
      [] p = "$items" -> WriteEach(forms, spelling, node.a, "item")
      [] p = "$list" -> WriteList(forms, spelling, node.a, forms["separator"])
      [] p = "$rows" -> WriteList(forms, spelling, node.a, <<"\n">>)
      [] OTHER -> <<p>>

Write(forms, spelling, node) ==
    LET form == forms[node.k]
    IN  FlattenSeq([j \in DOMAIN form |-> WritePiece(forms, spelling, node, form[j])])
=============================================================================
