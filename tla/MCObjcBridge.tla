---------------------------- MODULE MCObjcBridge ----------------------------
(* ObjcBridge on small sets of model values. *)
EXTENDS ObjcBridge, TLC
MCGoMin == GoFirst - 1
MCObjcMax == ObjcFirst + 1
MCTracked == Plain \union Boxes
MCSymmetry == Permutations(GoObjs) \union Permutations(Plain) \union Permutations(Boxes)
                \union Permutations(Refs) \union Permutations(Threads)
=============================================================================
