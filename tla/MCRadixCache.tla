----------------------------- MODULE MCRadixCache -----------------------------
(* Constants for model checking RadixCache with TLC. *)
EXTENDS RadixCache, TLC

\* With pages of two tokens: partial last pages, forks inside a page and after one.
PagedInputs == {<<1, 1, 1>>, <<1, 1, 1, 2>>, <<1, 1, 1, 1, 1, 1>>, <<1, 2>>}

\* Clients are interchangeable: no definition tells them apart.
ClientSymmetry == Permutations(Clients)

\* The hypotheses of PrefixProofs hold of this instance.
ASSUME PromiseAssumption == Promise!PrefixCacheAssumption
==============================================================================
