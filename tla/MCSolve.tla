-------------------------------- MODULE MCSolve --------------------------------
(***************************************************************************)
(* Solve on the small games of MCDfpn.                                     *)
(***************************************************************************)
EXTENDS MCDfpn, Solve

===============================================================================
