--------------------------- MODULE RuntimeSetting ---------------------------
(***************************************************************************)
(* What configure_runtime promises (include/cyborgdb_embed/embed.hpp:177-188), *)
(* whoever calls it and whenever: one number of threads for the process,   *)
(* which may be changed until the pool exists and never again.             *)
(***************************************************************************)
EXTENDS Integers

CONSTANT Sizes  \* the sizes anyone asks for

VARIABLES
  size,   \* the size in force
  fixed   \* does the pool exist?

Init == size = 1 /\ fixed = FALSE

\* An accepted call, or one that asks for the size in force.
Configure == ~fixed /\ size' \in Sizes /\ UNCHANGED fixed

\* The pool is made, of the size in force.
MakePool == fixed' = TRUE /\ UNCHANGED size

Next == Configure \/ MakePool

Spec == Init /\ [][Next]_<<size, fixed>>
=============================================================================
