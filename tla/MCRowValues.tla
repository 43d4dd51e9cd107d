---------------------------- MODULE MCRowValues ----------------------------
(* An instance of RowValues for TLC: integers of two bits, microseconds of *)
(* four nanoseconds and seconds of two microseconds.                       *)
EXTENDS RowValues

MCParses(c) == c # "garbage"
=============================================================================
