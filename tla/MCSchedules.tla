---------------------------- MODULE MCSchedules ----------------------------
(***************************************************************************)
(* Instances of Schedules for TLC. A cron expression is the period at      *)
(* which it fires; "30 feb" parses and never fires, "garbage" does not     *)
(* parse.                                                                  *)
(***************************************************************************)
EXTENDS Schedules, TLC

MCParses(c) == c # "garbage"
MCNextAfter(c, t) ==
    CASE c = "every tick" -> t + 1
      [] c = "every other" -> 2 * (t \div 2) + 2
      [] OTHER -> Null
=============================================================================
