----------------------------- MODULE MCEmbedder -----------------------------
(* Embedder and the store under it on small sets.                          *)
EXTENDS Embedder, TLC

\* Threads, models and objects are interchangeable.
Symmetry == Permutations(Threads) \cup Permutations(Keys) \cup Permutations(Objects)
=============================================================================
