-------------------------- MODULE MCRegistryPipeline --------------------------
\* Instances of RegistryPipeline for TLC.
EXTENDS RegistryPipeline, TLC

\* Models are interchangeable, and so are verdicts.
Symmetry == Permutations(Models) \cup Permutations(Verdicts)
=============================================================================
