-------------------------- MODULE MCManagedNetwork --------------------------
(* Small instances of ManagedNetwork. *)
EXTENDS ManagedNetwork, TLC

CONSTANTS h1, h2, a1, a2

\* Two hosts; an account that moves from one host to the other, an account
\* with two addresses, and a map that drops a node.
MCNetworks ==
  { (<<h1, 50211>> :> a1 @@ <<h2, 50211>> :> a2),
    (<<h1, 50211>> :> a2 @@ <<h2, 50211>> :> a2),
    (<<h2, 50211>> :> a1) }

\* A node with one address, and a node whose address book entry lists both ports.
OneNode == { (<<h1, 50211>> :> a1) }
BothPorts == { (<<h1, 50211>> :> a1 @@ <<h1, 50212>> :> a1) }

Symmetry == Permutations(NodeObj)
=============================================================================
