---------------------------- MODULE MCFsFormat ------------------------------
(***************************************************************************)
(* Small images for TLC: blocks of four bytes, two entries or eight bits,  *)
(* and two pointers of each kind.  The lengths take no block, part of one, *)
(* exactly the direct pointers, exactly those and the indirect ones, and   *)
(* most of the double-indirect ones.                                       *)
(***************************************************************************)
EXTENDS FsImage

CONSTANTS MaxFiles, FileNames, Lengths

MCArguments ==
  UNION {[1..n -> [name : FileNames, len : Lengths]] : n \in 0..MaxFiles}
=============================================================================
