-------------------------------- MODULE Absence --------------------------------
(***************************************************************************)
(* What stands for nothing being there: SQL NULL, an undefined property, a *)
(* row that was not found, a request or a turn that is not under way.      *)
(* Each module assumes it apart from what it has to be told from.          *)
(***************************************************************************)
CONSTANT None

=============================================================================
