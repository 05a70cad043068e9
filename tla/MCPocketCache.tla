--------------------------- MODULE MCPocketCache ---------------------------
(* PocketCache for TLC: threads, lengths and addresses are interchangeable. *)
EXTENDS PocketCache, TLC

Symmetry == Permutations(Thread) \cup Permutations(Length)
                                 \cup Permutations(Address)
=============================================================================
