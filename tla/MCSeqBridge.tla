---------------------------- MODULE MCSeqBridge -----------------------------
(* SeqBridge on small sets of model values. *)
EXTENDS SeqBridge, TLC

\* Two numbers of each side, so that one is dropped and its object renumbered.
MCGoMin == GoFirst - 1
MCJavaMax == RefOffset + 1
MCTracked == Plain \union Classes

\* Every set of model values is interchangeable.
MCSymmetry ==
  Permutations(GoObjs) \union Permutations(Plain) \union Permutations(Proxies)
    \union Permutations(Classes) \union Permutations(Refs)
    \union Permutations(Threads)
=============================================================================
