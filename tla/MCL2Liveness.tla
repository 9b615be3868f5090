---------------------------- MODULE MCL2Liveness ----------------------------
(***************************************************************************)
(* L2Liveness on every program of three instructions over a small          *)
(* alphabet that is closed by a return: loops, jumps backwards and         *)
(* forwards, unreachable code, dead assignments, calls and jumps to a      *)
(* missing label.                                                          *)
(***************************************************************************)
EXTENDS L2Liveness

(* Two variables, one label, one instruction of every kind whose GEN and   *)
(* KILL sets differ.                                                       *)
Alphabet ==
    { Move("a", "b"), Move("rax", "a"), Update("b", "a"), Shift("a", "b"),
      Compute("b", "a", "a"), Store("a", 0, "b"), Load("b", "a", 0),
      LabelAt("l"), Goto("l"), CJump("a", "b", "l"), Call("a", 1),
      ErrorCall(1) }

(* A loop around a branch, two loops one inside the other, a loop that is  *)
(* never left, so that the return after it is dead code, and two jumps     *)
(* back in a row, which take three sweeps.                                 *)
LongPrograms ==
    { <<Move("a", "rdi"), LabelAt("l"), CJump("a", "b", "m"), Update("b", "a"),
        Goto("l"), LabelAt("m"), Move("rax", "b"), Return>>,
      <<LabelAt("l"), LabelAt("m"), Shift("a", "b"), CJump("a", "a", "m"),
        Call("imm", 1), CJump("b", "b", "l"), Move("rax", "a"), Return>>,
      <<Move("b", "imm"), LabelAt("l"), Update("b", "a"), Goto("l"),
        Move("rax", "b"), Return>>,
      <<Move("b", "imm"), CJump("a", "a", "m"), LabelAt("l"), Move("rax", "b"),
        Return, LabelAt("k"), Goto("l"), LabelAt("m"), Goto("k")>> }

MCPrograms == {p \o <<Return>> : p \in [1..3 -> Alphabet]} \cup LongPrograms
MCArgRegs == <<"rdi">>
=============================================================================
