------------------------------ MODULE Patches ------------------------------
(***************************************************************************)
(* The operations on patches that descend into them.                       *)
(***************************************************************************)
EXTENDS Modifications, PatchTypes

LOCAL INSTANCE SequencesExt

RECURSIVE PatchApply(_, _), PatchApplicable(_, _), PatchInvert(_), PatchMods(_)

(* The document t after the patch p.                                       *)
PatchApply(p, t) ==
  CASE p.ty = "modification" -> CleanApply(t, p.mod)
    [] p.ty = "birth"        -> t
    [] OTHER                 -> FoldLeft(LAMBDA u, q : PatchApply(q, u), t, p.ch)

PatchApplicable(p, t) ==
  CASE p.ty = "modification" -> IsApplicable(t, p.mod)
    [] p.ty = "birth"        -> TRUE
    [] OTHER ->
         \A i \in DOMAIN p.ch :
           PatchApplicable(p.ch[i], PatchApply(Compound(Prefix(p.ch, i - 1)), t))

(* Both modifications of a pair are stored, so that inverting swaps them.  *)
PatchInvert(p) ==
  CASE p.ty = "modification" -> ModPatch(p.inv, p.mod)
    [] p.ty = "birth"        -> Birth(p.author, ~p.birth)
    [] p.ty = "author"       -> Authored(p.author, PatchInvert(p.ch[1]))
    [] p.ty = "compound"     ->
         Compound(Reverse([i \in DOMAIN p.ch |-> PatchInvert(p.ch[i])]))

(* The modifications that applying p makes, in order.                      *)
PatchMods(p) ==
  CASE p.ty = "modification" -> <<p.mod>>
    [] p.ty = "birth"        -> <<>>
    [] OTHER -> FlattenSeq([i \in DOMAIN p.ch |-> PatchMods(p.ch[i])])

(***************************************************************************)
(* Commutation: p1 before p2 becomes first before second.  a1 and a2 are   *)
(* the innermost authors around p1 and p2.                                 *)
(***************************************************************************)
(* Owns gone wrong: everything passes.                                     *)
OwnsNothing(author, a) == FALSE

(* A birth or death of author does not pass what that author did.          *)
Owns(author, a) == author = a

RECURSIVE SwapBy(_, _, _, _)
SwapBy(p1, p2, a1, a2) ==
  CASE p1.ty = "compound" ->
         \* p2 moves in front of the children of p1, the last one first
         FoldRight(LAMBDA q, acc :
             IF ~acc.ok THEN acc
             ELSE LET s == SwapBy(q, acc.first, a1, a2)
                  IN  IF ~s.ok THEN NoSwap
                      ELSE Swapped(s.first,
                                   Compound(<<s.second>> \o acc.second.ch)),
           p1.ch, Swapped(p2, NoPatch))
    [] p1.ty # "compound" /\ p2.ty = "compound" ->
         \* p1 moves behind the children of p2, the first one first
         FoldLeft(LAMBDA acc, q :
             IF ~acc.ok THEN acc
             ELSE LET s == SwapBy(acc.second, q, a1, a2)
                  IN  IF ~s.ok THEN NoSwap
                      ELSE Swapped(Compound(Append(acc.first.ch, s.first)),
                                   s.second),
           Swapped(NoPatch, p1), p2.ch)
    [] p1.ty = "author" /\ p2.ty # "compound" ->
         LET s == SwapBy(p1.ch[1], p2, p1.author, a2)
         IN  IF s.ok THEN Swapped(s.first, Authored(p1.author, s.second)) ELSE s
    [] p1.ty \in {"birth", "modification"} /\ p2.ty = "author" ->
         LET s == SwapBy(p1, p2.ch[1], a1, p2.author)
         IN  IF s.ok THEN Swapped(Authored(p2.author, s.first), s.second) ELSE s
    [] p1.ty = "birth" /\ p2.ty \in {"birth", "modification"} ->
         IF Owns(p1.author, a2) THEN NoSwap ELSE Swapped(p2, p1)
    [] p1.ty = "modification" /\ p2.ty = "birth" ->
         IF Owns(p2.author, a1) THEN NoSwap ELSE Swapped(p2, p1)
    [] p1.ty = "modification" /\ p2.ty = "modification" ->
         LET s == SwapMods(p1.mod, p2.mod)
             v == SwapMods(p2.inv, p1.inv)
         IN  IF s.ok /\ v.ok /\ PossibleInverse(s.first, v.second)
                             /\ PossibleInverse(s.second, v.first)
             THEN Swapped(ModPatch(s.first, v.second), ModPatch(s.second, v.first))
             ELSE NoSwap

PatchSwap(p1, p2) == SwapBy(p1, p2, NoAuthor, NoAuthor)

(***************************************************************************)
(* Cursor positions in patches, and the flat form of a patch               *)
(***************************************************************************)
RECURSIVE RemoveSetCursor(_)
RemoveSetCursor(p) ==
  CASE p.ty = "modification" -> IF p.mod.k = "set_cursor" THEN NoPatch ELSE p
    [] p.ty = "birth"        -> p
    [] p.ty = "author"       ->
         LET q == RemoveSetCursor(p.ch[1])
         IN  IF IsEmpty(q) THEN q ELSE Authored(p.author, q)
    [] p.ty = "compound"     ->
         LET r == FlattenSeq([i \in DOMAIN p.ch |-> Children(RemoveSetCursor(p.ch[i]))])
         IN  IF Len(r) = 1 THEN r[1] ELSE Compound(r)

(* Cancels gone wrong: only the places are compared.                       *)
CancelsPlace(p, q) == p.inv.p = q.mod.p

(* The modifications p and q, one after the other, have no effect.         *)
Cancels(p, q) == p.inv = q.mod /\ p.mod = q.inv

RECURSIVE Insert(_, _)
(* The patch p at the end of the flat sequence a; two modifications that   *)
(* undo each other both go.                                                *)
Insert(a, p) ==
  IF p.ty = "compound" THEN FoldLeft(Insert, a, p.ch)
  ELSE IF /\ p.ty = "modification" /\ a # <<>>
          /\ Last(a).ty = "modification"
          /\ Cancels(Last(a), p)
       THEN Front(a)
       ELSE Append(a, p)

Flat(a) == IF Len(a) = 1 THEN a[1] ELSE Compound(a)

(* All patches have the author of the last one; NoAuthor may come before.  *)
OneAuthor(ps) ==
  /\ ps # <<>>
  /\ \A i \in DOMAIN ps : ps[i].ty = "author"
  /\ Last(ps).author # NoAuthor
  /\ \A i \in DOMAIN ps :
       \/ ps[i].author = Last(ps).author
       \/ \A j \in 1 .. i : ps[j].author = NoAuthor

RECURSIVE Compactify(_)
Compactify(p) ==
  CASE p.ty = "author" -> Authored(p.author, Compactify(p.ch[1]))
    [] p.ty = "compound" ->
         IF OneAuthor(p.ch)
         THEN Authored(Last(p.ch).author,
                Flat(FoldLeft(Insert, <<>>, [i \in DOMAIN p.ch |-> p.ch[i].ch[1]])))
         ELSE Flat(Insert(<<>>, p))
    [] OTHER -> p

(***************************************************************************)
(* Joining p1 and p2, done in this order from t, into one patch            *)
(***************************************************************************)
NoJoin    == [ok |-> FALSE]
Joined(p) == [ok |-> TRUE, p |-> p]

(* A sequence whose only change of the document is a single first child.   *)
OneChange(p) ==
  /\ p.ty = "compound" /\ ~IsEmpty(p)
  /\ Len(Children(RemoveSetCursor(p))) = 1
  /\ Len(Children(p.ch[1])) = 1

RECURSIVE PatchJoin(_, _, _)
PatchJoin(p1, p2, t) ==
  CASE p1.ty = "author" /\ p2.ty = "author" /\ p1.author = p2.author ->
         LET r == PatchJoin(p1.ch[1], p2.ch[1], t)
         IN  IF r.ok THEN Joined(Authored(p1.author, r.p)) ELSE NoJoin
    [] p1.ty = "modification" /\ p2.ty = "modification" ->
         LET r == JoinMods(p1.mod, p2.mod, t)
             v == JoinMods(p2.inv, p1.inv, PatchApply(p2, PatchApply(p1, t)))
         IN  IF r.ok /\ v.ok THEN Joined(ModPatch(r.m, v.m)) ELSE NoJoin
    [] OneChange(p1) -> PatchJoin(p1.ch[1], p2, t)
    [] ~OneChange(p1) /\ OneChange(p2) ->
         LET r == PatchJoin(p1, p2.ch[1], t)
         IN  IF r.ok THEN Joined(Compound(Children(r.p) \o Tail(p2.ch)))
             ELSE NoJoin
    [] OTHER -> NoJoin

RECURSIVE IsMarker(_, _, _)
(* Whether p is the birth (b) or the death (~b) of marker m.               *)
IsMarker(p, m, b) ==
  \/ p.ty = "author" /\ IsMarker(p.ch[1], m, b)
  \/ p.ty = "birth" /\ p.author = m /\ p.birth = b
=============================================================================
