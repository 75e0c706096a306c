---------------------------- MODULE MCHubStreams ----------------------------
(* HubStreams for TLC. *)
EXTENDS HubStreams, TLC

\* Connections, asks and the hubs nothing happens to are interchangeable
\* (safety runs only).
Symmetry == Permutations(Conns) \cup Permutations(Asks)
            \cup Permutations(Hubs \ (Troubled \cup {FirstHub}))

\* A revocation reaches one hub: each hub acts on it alone.
OneHears == Cardinality(revoking \cup heard) <= 1
=============================================================================
