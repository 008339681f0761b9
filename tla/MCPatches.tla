----------------------------- MODULE MCPatches -----------------------------
(***************************************************************************)
(* The patches that undo every pair of modifications of some small         *)
(* documents.                                                              *)
(***************************************************************************)
EXTENDS MCModifications, Patches

(* The patch that undoes modification i, as an archiver records it: alone, *)
(* or with the cursor position that was archived before it.                *)
Alone(i) == ModPatch(Undoing(i), mods[i])

Cursor(i) ==
  LET m == Mod("set_cursor", Root(mods[i]) \o <<0>>, Node("cursor", <<>>))
  IN  ModPatch(m, m)

Recorded(i) == {Alone(i), Compound(<<Alone(i), Cursor(i)>>)}

(* The patch p leads from t to u and its inverse leads back.               *)
Leads(p, t, u) ==
  /\ PatchApplicable(p, t) /\ PatchApply(p, t) = u
  /\ PatchApplicable(PatchInvert(p), u) /\ PatchApply(PatchInvert(p), u) = t

(* Two items of the history that are joined are undone and redone as one,  *)
(* with the effect the two had (patch.cpp, join).                          *)
JoinKeepsEffect ==
  Two => \A p \in Recorded(2), q \in Recorded(1) :
    LET r == PatchJoin(Authored("v1", p), Authored("v1", q), trees[3])
    IN  r.ok => Leads(r.p, trees[3], trees[1])

(* The flat form of current modifications has the effect they had, though  *)
(* modifications that cancel are dropped (patch.cpp, compactify).          *)
CompactKeepsEffect ==
  Two /\ ~LosesLabel(1) /\ ~LosesLabel(2) =>
    \A p \in Recorded(2), q \in Recorded(1) :
      \A c \in {Compound(<<p, q>>),
                Compound(<<Authored("v1", p), Authored("v1", q)>>)} :
        Leads(Compactify(c), trees[3], trees[1])

(* Both ways in which archives get shorter keep the effect.                *)
ShrinkKeepsEffect == JoinKeepsEffect /\ CompactKeepsEffect

(* The second modification puts something where the first took something   *)
(* away: the one pair whose two modifications and two inverses change      *)
(* places in ways that do not fit (patch.cpp:353, possible_inverse).       *)
Replaces ==
  /\ mods[1].k = "remove" /\ mods[2].k = "insert"
  /\ Root(mods[1]) = Root(mods[2]) /\ Index(mods[1]) = Index(mods[2])

(* Two items that change places in the history still undo the document to  *)
(* where it came from, and each can be redone (patch.cpp, swap), except    *)
(* when one replaces what the other removed.                               *)
SwapKeepsHistory ==
  Two /\ ~Replaces /\ ~LosesLabel(1) /\ ~LosesLabel(2) =>
    LET s == PatchSwap(Alone(2), Alone(1))
        u == PatchApply(s.first, trees[3])
    IN  s.ok => Leads(s.first, trees[3], u) /\ Leads(s.second, u, trees[1])
=============================================================================
