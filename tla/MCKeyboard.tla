----------------------------- MODULE MCKeyboard -----------------------------
(* Keys for TLC: a, c and q, both Shifts, the right Control, CapsLock, Up.  *)
EXTENDS Keyboard

MCKeys == {<<0, 30>>, <<0, 46>>, <<0, 16>>, <<0, 42>>, <<0, 54>>, <<128, 29>>,
           <<0, 58>>, <<128, 72>>}
=============================================================================
