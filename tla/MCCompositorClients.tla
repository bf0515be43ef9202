------------------------- MODULE MCCompositorClients -------------------------
(***************************************************************************)
(* What the compositor is asked for: the guest's keys, the guest's         *)
(* clipboard, the effect behind a surface, and its snap buttons.  Each     *)
(* part runs while the others keep still in one of their first states, so  *)
(* that one run explores the disjoint sum of the four state spaces.        *)
(***************************************************************************)
EXTENDS TLC, VirtualInput, Clipboard, SurfaceEffect, SnapButton

VARIABLE part    \* the part that runs

-----------------------------------------------------------------------------
(* VirtualInput: two keymaps, of two letters that change places in the     *)
(* second layout and of one letter, with room for two and for one more     *)
(* symbol.                                                                 *)
Level(sym, masks) == [sym |-> sym, masks |-> masks]
Letter(small, big) ==
  <<Level(small, {{}, {"Shift", "Lock"}}), Level(big, {{"Shift"}, {"Lock"}})>>
One(sym) == <<Level(sym, {{}})>>
Common ==
  3 :> <<One("Shift_L"), One("Shift_L")>> @@ 4 :> <<One("Caps_Lock")>>
  @@ 5 :> <<One("Next")>>
MCSession ==
  [two |-> 1 :> <<Letter("a", "A"), Letter("b", "B")>>
           @@ 2 :> <<Letter("b", "B"), Letter("a", "A")>>
           @@ Common @@ 6 :> <<>> @@ 7 :> <<>>,
   one |-> 1 :> <<Letter("a", "A")>> @@ 2 :> <<>> @@ Common
           @@ 6 :> <<One("x")>> @@ 7 :> <<One("NoSymbol")>>]
MCCapital == "a" :> "A" @@ "b" :> "B" @@ "x" :> "X"

\* SnapButton: two buttons on one window, one on another.
MCWindowOf == "b1" :> "v1" @@ "b2" :> "v1" @@ "b3" :> "v2"

-----------------------------------------------------------------------------
Rest(p, vars) == part # p => UNCHANGED vars

ClientsInit ==
  /\ part \in {"input", "clipboard", "effect", "snap"}
  /\ InputInit /\ ClipInit /\ EffectInit /\ SnapInit
  /\ part # "input" => coming = <<[base |-> "one", extra |-> <<>>]>>
  /\ part # "clipboard" => board = Nobody
  /\ part # "effect" => /\ kind = [w \in Window |-> "card"]
                        /\ has = [version |-> 3, set |-> TRUE, region |-> TRUE]
  /\ part # "snap" => snapVersion = 2

ClientsNext ==
  /\ \/ part = "input" /\ InputNext
     \/ part = "clipboard" /\ ClipNext
     \/ part = "effect" /\ EffectNext
     \/ part = "snap" /\ SnapNext
  /\ Rest("input", inputVars)
  /\ Rest("clipboard", clipVars)
  /\ Rest("effect", effectVars)
  /\ Rest("snap", snapVars)
  /\ UNCHANGED part

ClientsSpec ==
  ClientsInit
  /\ [][ClientsNext]_<<part, inputVars, clipVars, effectVars, snapVars>>

-----------------------------------------------------------------------------
(* The variables keep their types, lists their limits, and what is kept    *)
(* twice agrees: keys with the keymap in use, sources, proxies and pointers *)
(* with what they stand for.                                               *)
ClientsTypeOK == InputTypeOK /\ ClipTypeOK /\ EffectTypeOK /\ SnapTypeOK
=============================================================================
