----------------------------- MODULE MCCallFrame -----------------------------
(***************************************************************************)
(* CallFrame with functions of no, seven and eight parameters and up to    *)
(* two spilled variables, calling each other and themselves.               *)
(***************************************************************************)
EXTENDS CallFrame, TLC

CONSTANTS f, g, h, sf, sg, sh

MCNumArgs   == (f :> 0) @@ (g :> 8) @@ (h :> 7)
MCNumLocals == (f :> 2) @@ (g :> 1) @@ (h :> 0)
MCCaller    == (sf :> f) @@ (sg :> g) @@ (sh :> h)
=============================================================================
