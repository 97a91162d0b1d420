------------------------------ MODULE MCMQueue ------------------------------
(* Small instances of MQueue for TLC. *)
EXTENDS MQueue, TLC

CONSTANTS p1, p2, c1, c2, d1, d2, d3

TwoProducers == {p1, p2}
OneProducer == {p1}
TwoConsumers == {c1, c2}
OneConsumer == {c1}
ThreeData == {d1, d2, d3}
WholeSeconds == {0, 2}
AnyWait == {0, 1, 2, 3}

\* Threads of a role and pointers are interchangeable.
Symmetry == Permutations({p1, p2}) \cup Permutations({c1, c2}) \cup Permutations({d1, d2, d3})
=============================================================================
