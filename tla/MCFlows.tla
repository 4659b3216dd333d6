------------------------------ MODULE MCFlows ------------------------------
(* Small instances of ChunkedTransaction and Flows: up to four chunks, full *)
(* or not, contents that fit into one, and contents that need no file.      *)
EXTENDS Flows

UpToSeven == 0..7
UpToThree == 1..3
=============================================================================
