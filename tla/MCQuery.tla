------------------------------ MODULE MCQuery ------------------------------
(* Small instances of Query. *)
EXTENDS Query
=============================================================================
