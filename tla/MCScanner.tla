------------------------------ MODULE MCScanner ------------------------------
(***************************************************************************)
(* Two threads, a preset and a rule of the operator's own.                  *)
(***************************************************************************)
EXTENDS Scanner, TLC

CONSTANTS t1, t2, f1

Rule(id, body, enabled) == [id |-> id, body |-> body, enabled |-> enabled]
ThePreset == Rule("breakout", "preset", TRUE)
Changed == Rule("breakout", "changed", TRUE)
Off == Rule("mine", "mine", FALSE)

MCSavedRules == {ThePreset, Off}
MCPresets == <<ThePreset>>
MCRequests == {[presets |-> <<>>, rules |-> <<>>, most |-> 2, demo |-> FALSE],
               [presets |-> <<>>, rules |-> <<Off, Changed>>, most |-> 0, demo |-> TRUE]}
=============================================================================
