----------------------------- MODULE MCLibrary ------------------------------
(* Inputs for TLC: two words that end and do not end their line, strings,   *)
(* and words at the edges of 4, 5 and 6 bits.                               *)
EXTENDS Library

MCWords   == {<<65, 10>>, <<66, 67, 68>>}
MCStrings == {<<>>, <<65, 66, 67>>}
MCWidths  == {-2, -1, 2, 5}
MCPrecisions == {-1, 0, 3}
MCSizes   == {0, 1, 3, 5}
MCArgs    == {0, 1, 8, 15, 16, 40, 63}
=============================================================================
