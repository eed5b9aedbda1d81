--------------------------- MODULE MCImplicitProducer ---------------------------
\* Small instances of ImplicitProducer.
EXTENDS ImplicitProducer, TLC

\* Consumers run the same code, and no block differs from another.
Symmetry == Permutations(Consumers) \cup Permutations(Blocks)

=================================================================================
