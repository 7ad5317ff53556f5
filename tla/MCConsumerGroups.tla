-------------------------- MODULE MCConsumerGroups --------------------------
(* Instances of ConsumerGroups for TLC. *)
EXTENDS ConsumerGroups, TLC

CONSTANTS c1, c2

\* 0-0, which is always refused, and an id ahead of the clock.
MCIds == {<<0, 0>>, <<2, 0>>}

ConsumerSymmetry == Permutations({c1, c2})
=============================================================================
