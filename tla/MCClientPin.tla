---------------------------- MODULE MCClientPin ----------------------------
(* Small instances of ClientPin.  PIN 1 has four code points, PIN 2 six. *)
EXTENDS ClientPin

FourAndSix == [pin \in {1, 2} |-> IF pin = 1 THEN 4 ELSE 6]
Mixed      == {{"GA", "LBW"}, {"ACFG", "CM"}}
Assert     == {{"GA"}}
=============================================================================
