----------------------------- MODULE MCExecute -----------------------------
(* Small instances of Execute. *)
EXTENDS Execute

CONSTANTS a, b

\* The application names both nodes, or none.
Both == {<< >>, <<a, b>>}
=============================================================================
