--------------------------- MODULE MCSessionStore ---------------------------
(* SessionStore on small sets of threads and models.                       *)
EXTENDS SessionStore, TLC

\* Threads are interchangeable, and so are models; used for safety runs only.
Symmetry == Permutations(Threads) \cup Permutations(Keys)
=============================================================================
