-------------------------------- MODULE Pairs --------------------------------
(***************************************************************************)
(* Two modifications of a document, one after the other: each behaviour    *)
(* takes a document, applies one modification and then a second one, as    *)
(* test_commute does, and the properties say what the functions on         *)
(* modifications promise of them.                                          *)
(***************************************************************************)
EXTENDS Modifications

CONSTANTS
  Documents,   \* the documents to begin with
  ModsOf(_)    \* per document, the modifications that are tried

VARIABLES trees,   \* the document before, between and after the modifications
          mods     \* the modifications applied so far

vars == <<trees, mods>>

Init == /\ trees \in {<<t>> : t \in Documents}
        /\ mods = <<>>

Edit == /\ Len(mods) < 2
        /\ \E m \in ModsOf(trees[Len(trees)]) :
             /\ IsApplicable(trees[Len(trees)], m)
             /\ mods' = Append(mods, m)
             /\ trees' = Append(trees, CleanApply(trees[Len(trees)], m))

Spec == Init /\ [][Edit]_vars

-----------------------------------------------------------------------------
Two == Len(mods) = 2
Undoing(i) == InvertMod(mods[i], trees[i])

(* A join of two nodes with different labels keeps only the first label.   *)
LosesLabel(i) ==
  LET s == SubTree(trees[i], Root(mods[i])) IN
  /\ mods[i].k = "join"
  /\ s.arg[Index(mods[i]) + 1].op # s.arg[Index(mods[i]) + 2].op

(* The inverse of a modification applies to the document the modification  *)
(* produced, gives back the document it was applied to, and is itself      *)
(* undone by a modification with the effect of the first (commute.cpp,     *)
(* invert), unless the modification joined nodes with different labels.    *)
InverseRestores ==
  \A i \in 1 .. Len(mods) :
    LosesLabel(i) \/
    /\ IsApplicable(trees[i + 1], Undoing(i))
    /\ CleanApply(trees[i + 1], Undoing(i)) = trees[i]
    /\ CleanApply(trees[i], InvertMod(Undoing(i), trees[i + 1])) = trees[i + 1]
    /\ PossibleInverse(mods[i], Undoing(i))

(* Two nested insertions of a node, the second around the child the first  *)
(* one had wrapped: the only pair that swap gets wrong (commute.cpp:219).  *)
WrapsTwice ==
  /\ \A i \in 1 .. 2 : mods[i].k = "insert_node"
  /\ Root(mods[2]) = mods[1].p

SwapSound ==
  LET s == SwapMods(mods[1], mods[2]) IN
  s.ok => /\ IsApplicable(trees[1], s.first)
          /\ LET u == CleanApply(trees[1], s.first) IN
             /\ IsApplicable(u, s.second)
             /\ CleanApply(u, s.second) = trees[3]

(* Two modifications that can be swapped have the same effect in the other *)
(* order, and each is applicable when its turn comes (commute.cpp, swap),  *)
(* except for two nested insertions of a node.                             *)
SwapKeepsEffect == Two => (WrapsTwice \/ SwapSound)

SwapAgain(s) == SwapMods(s.first, s.second)

(* Pairs that are refused on the way back, because swap is not symmetric:  *)
(*  - setting the cursor in front of a split, a join or a change of label   *)
(*    of the same node: commute.cpp:287-290 means to let them back, but is  *)
(*    not reached with m1 at the root; lines 124, 190, 199 and 206 refuse;  *)
(*  - wrapping a node in front of setting the cursor in it (line 236), or   *)
(*    of joining two of its children, when the join has the index that the  *)
(*    wrapped node gets (lines 197-199).                                    *)
RefusesBack(m1, m2) ==
  \/ /\ m1.k = "set_cursor" /\ m2.k \in {"join", "split", "assign_node"}
     /\ Root(m1) = Root(m2)
  \/ /\ m1.k = "insert_node" /\ Root(m2) = m1.p
     /\ m2.k = "set_cursor" \/ (m2.k = "join" /\ Index(m2) = Index(m1))

(* A swap can be swapped back, except for the pairs named above, for which *)
(* test_commute calls FAILED; and swapping back leads to where one came    *)
(* from, or to a pair that swaps to and fro from then on: items of the     *)
(* history that pass each other do not get stuck on the other side, nor do *)
(* they drift (commute.cpp:426-443, the second part of test_commute).      *)
SwapBack ==
  Two => LET s == SwapMods(mods[1], mods[2]) IN
    s.ok => LET b == SwapAgain(s)
                c == SwapAgain(b)
            IN  /\ RefusesBack(mods[1], mods[2]) \/ b.ok
                /\ b.ok => \/ <<b.first, b.second>> = mods
                           \/ c.ok /\ c.first = s.first /\ c.second = s.second

(* What test_commute demands of every swap (commute.cpp:420): it calls     *)
(* FAILED ("inconsistency") when the two orders have different effects.    *)
(* They have for two nested insertions of different nodes; the test does   *)
(* not meet that, for all insertions of a node in its list insert the same *)
(* tree at the same index, and such a pair is swapped to itself.           *)
TestCommute == Two => SwapSound
=============================================================================
