------------------------------- MODULE MCMash -------------------------------
(* Small instances of Mash for TLC.                                        *)
EXTENDS Mash, TLC

Step(id, target, minutes, auto) ==
  [recipe |-> id, targetTemp |-> target, duration |-> minutes, autoContinue |-> auto]
EndMarker == Step(0, 0, 0, FALSE)

\* A manual warm-up, a timed rest, and a last step that continues by itself.
AutoEnd ==
  (0 :> Step(1, 3, 0, FALSE)) @@ (1 :> Step(1, 2, 2, TRUE)) @@
  (2 :> Step(1, 4, 0, TRUE)) @@ (3 :> EndMarker)

\* The kinds of steps in the recipe of setup(), in its order: a temperature to be
\* confirmed, a rest (with ByteMod = 6 the longest that the byte can measure), a
\* temperature that continues by itself, and the "Ende" step without a target, which
\* is confirmed.
AsInSetup ==
  (0 :> Step(1, 2, 0, FALSE)) @@ (1 :> Step(1, 2, 5, TRUE)) @@
  (2 :> Step(1, 3, 0, TRUE)) @@ (3 :> Step(1, 0, 0, FALSE)) @@ (4 :> EndMarker)

OneTick      == {1}
MCLoopTicks  == {1, 2}
MCStartTemps == {1}
MCDisconnected == -5
=============================================================================
