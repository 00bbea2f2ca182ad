-------------------------------- MODULE Eager --------------------------------
EXTENDS TLC

(* A value bound once.  TLC evaluates an argument or a LET at every use of  *)
(* it when it looks for enabled actions; an element of a set only once.     *)
With(value, Body(_)) == CHOOSE x \in {Body(v) : v \in {value}} : TRUE

(* A function as a table, so that TLC computes each value once. *)
Table(f) == f @@ <<>>
==============================================================================
