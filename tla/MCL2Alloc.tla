----------------------------- MODULE MCL2Alloc ------------------------------
(***************************************************************************)
(* L2Alloc with four registers, three of them destroyed by calls, on       *)
(* functions that need every part of the allocator: values live across     *)
(* calls and loops, more live values than registers, two shift amounts     *)
(* that both want rcx, stack arguments, calls through a variable, dead     *)
(* assignments, and all short bodies over a small alphabet.                *)
(***************************************************************************)
EXTENDS L2Alloc

MCArgRegs == <<"rdi", "rcx">>
MCColorOrder == <<"rax", "rcx", "rdi", "r12">>
MCSpillName == [k \in 0 .. 30 |-> "%S" \o ToString(k)]
MCNames == {"a", "b", "c", "d"} \cup {MCSpillName[k] : k \in DOMAIN MCSpillName}

LoopSum ==
    <<Move("a", "rdi"), Move("b", "imm"), LabelAt("l"), CJump("a", "b", "m"),
      Update("b", "a"), Update("a", "imm"), Goto("l"), LabelAt("m"),
      Move("rax", "b"), Return>>

LiveAcrossCall ==
    <<Move("a", "rdi"), Move("b", "rcx"), Move("rdi", "b"), Store("rsp", -1, "imm"),
      Call("imm", 1), LabelAt("l"), Move("c", "rax"), Update("c", "a"),
      Update("c", "b"), Move("rax", "c"), Return>>

TwoShifts ==
    <<Move("a", "rdi"), Move("b", "rcx"), Move("c", "imm"), Shift("c", "a"),
      Shift("c", "b"), Shift("b", "a"), Update("c", "b"), Move("rax", "c"), Return>>

Pressure ==
    <<Move("a", "rdi"), Move("b", "rcx"), LabelAt("l"), Compute("c", "a", "b"),
      Compute("d", "a", "c"), Update("b", "d"), CJump("b", "c", "l"),
      Store("a", 0, "b"), Move("rax", "c"), Return>>

StackArgument ==
    <<StackArg("a", 0), Move("b", "rdi"), Call("b", 0), Update("rax", "a"),
      Load("c", "b", 0), Update("rax", "c"), Return>>

SavedByHand ==
    <<Move("a", "r12"), Move("r12", "rdi"), Move("rdi", "imm"), Call("imm", 1),
      Update("rax", "r12"), Move("r12", "a"), Return>>

SwapInLoop ==
    <<Move("a", "rdi"), Move("b", "rcx"), LabelAt("l"), Move("c", "a"),
      Move("a", "b"), Move("b", "c"), CJump("a", "b", "l"), Move("d", "a"),
      Move("rax", "b"), Return>>

ErrorPath ==
    <<Move("a", "rdi"), Move("b", "rcx"), CJump("a", "imm", "l"),
      Move("rdi", "a"), ErrorCall(1), LabelAt("l"), Call("imm", 0),
      Update("rax", "a"), Update("rax", "b"), Return>>

NoSuchLabel == <<Move("a", "rdi"), Goto("m"), Return>>

Body ==
    { Move("b", "a"), Move("a", "b"), Update("b", "a"), Compute("c", "a", "b"),
      Shift("a", "b"), Store("a", 0, "b"), Call("a", 1), LabelAt("l"),
      CJump("a", "b", "l"), Move("rcx", "b") }

ShortBodies ==
    { <<Move("a", "rdi"), Move("b", "rcx"), Move("c", "imm"), LabelAt("m")>> \o p
        \o <<Update("c", "a"), Update("c", "b"), Move("rax", "c"), Return>> :
            p \in [1 .. 1 -> Body] }

MCSources ==
    { LoopSum, LiveAcrossCall, TwoShifts, Pressure, StackArgument, SavedByHand,
      SwapInLoop, ErrorPath, NoSuchLabel } \cup ShortBodies
=============================================================================
