------------------------- MODULE MCConnectionManager -------------------------
(* ConnectionManager for TLC: the processes are model values. *)
EXTENDS ConnectionManager, TLC

\* Handlers, and leases, are interchangeable: no definition tells them apart.
Alike == Permutations(Request) \union Permutations(Renewal) \union Permutations(Lease)
=============================================================================
