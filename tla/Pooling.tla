------------------------------ MODULE Pooling ------------------------------
(***************************************************************************)
(* pool and l2_normalize (src/pooling.hpp) on one row.  A hidden state is  *)
(* an opaque value; a vector is described by the states it is computed     *)
(* from, per position, and by what kind of floats come out: "finite" ones, *)
(* all "zero", or the "-inf" and "nan" that a row without tokens can give. *)
(***************************************************************************)
EXTENDS Integers

Modes == {"ClsToken", "MeanTokens", "MaxTokens"}
Kinds == {"finite", "zero", "-inf", "nan"}

Vector(kind, states) == [is |-> kind, of |-> states]

\* row[t] is the state at position t, mask the positions of real tokens.
Pool(mode, row, mask) ==
  LET masked == [t \in mask |-> row[t]]
  IN  CASE mode = "ClsToken"   -> Vector("finite", [t \in {0} |-> row[0]])
        [] mode = "MaxTokens"  -> Vector(IF mask = {} THEN "-inf" ELSE "finite", masked)
        [] mode = "MeanTokens" -> Vector(IF mask = {} THEN "zero" ELSE "finite", masked)

\* The norm of a row of -inf is inf, and -inf / inf is nan.
L2Normalize(v) == IF v.is = "-inf" THEN [v EXCEPT !.is = "nan"] ELSE v
=============================================================================
