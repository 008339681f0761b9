------------------------------ MODULE Archiver ------------------------------
(***************************************************************************)
(* The undo archives of the views of one buffer.                           *)
(*                                                                         *)
(* Every view of a buffer has an editor with an archiver of its own.  All  *)
(* archivers observe the same document: each records every modification of *)
(* it, whoever made it, except those it makes itself while it undoes and   *)
(* redoes.                                                                 *)
(*                                                                         *)
(* An archive is kept as two sequences.  past holds the patches that undo  *)
(* the document, the next one last; redo[n + 1] is the forest of futures   *)
(* that can be redone once all but the first n patches of past are undone. *)
(* In the source the two are one nested patch.                             *)
(*                                                                         *)
(* The functions of the source are operators on the whole state w of the   *)
(* history, a record of                                                    *)
(*   doc      the document of the buffer                                   *)
(*   author   the current author                                           *)
(*   arch     the archiver of each view                                    *)
(*   pending  the archivers with modifications to be confirmed             *)
(*   failed   the assertion that stopped the program, "" while it runs     *)
(* so that a handler of the editor is a chain of them.  The operations on  *)
(* patches that descend into them are parameters.                          *)
(***************************************************************************)
EXTENDS Modifications, PatchTypes

CONSTANTS
  View,                   \* the views of the buffer; each is its own author
  MaxRounds,              \* bound on the rounds of the loops of the source
  PSwap(_, _),            \* commutation of two patches
  PInvert(_),             \* inversion
  PApplicable(_, _),      \* applicability to a document
  PMods(_),               \* the modifications of a patch
  PJoin(_, _, _),         \* joining two patches into one
  PCompactify(_),         \* the flat form of a patch
  PRemoveSetCursor(_),    \* a patch without its cursor positions
  PIsMarker(_, _, _),     \* the birth or death of a marker
  FSplit(_, _, _),        \* futures in front of and behind a patch
  FMake(_, _, _)          \* a patch followed by futures

ASSUME MaxRoundsAssumption == MaxRounds \in Nat

NotSaved == -1

NewArchiver ==
  [past |-> <<>>, redo |-> << <<>> >>, current |-> NoPatch, owner |-> NoAuthor,
   depth |-> 0, last_save |-> 0, last_autosave |-> 0]

Cleared == [NewArchiver EXCEPT !.last_save = NotSaved, !.last_autosave = NotSaved]

Fail(w, msg)    == IF w.failed = "" THEN [w EXCEPT !.failed = msg] ELSE w
Update(w, v, a) == [w EXCEPT !.arch[v] = a]

HasHistory(a) == Len(a.past) # 0
Active(a)     == ~IsEmpty(a.current)
Top(a)        == a.past[Len(a.past)]
RedoTop(a)    == a.redo[Len(a.redo)]
Below(s)      == SubSeq(s, 1, Len(s) - 1)
Replace(s, x) == Append(Below(s), x)

(* AppendBranches gone wrong: new branches come last.                      *)
AppendBranchesLast(new, old) == old \o new

AppendBranches(new, old) == new \o old

(* A saved state that lies at depth d or above is gone.                    *)
ForgetSaves(a, d) ==
  [a EXCEPT !.last_save     = IF d <= @ THEN NotSaved ELSE @,
            !.last_autosave = IF d <= @ THEN NotSaved ELSE @]

LoseSaves(a) == [a EXCEPT !.last_save = NotSaved, !.last_autosave = NotSaved]

(***************************************************************************)
(* Confirming: the current modifications become an item of the history.    *)
(***************************************************************************)

(* Own futures that lie below a foreign item move on top of it.            *)
Normalize(me, a) ==
  LET n == Len(a.past)
      s == FSplit(me, Top(a), a.redo[n])
  IN  IF n = 0 \/ a.redo[n] = <<>> \/ GetAuthor(Top(a)) = me THEN a
      ELSE [LoseSaves(a) EXCEPT !.redo[n] = s.stay, !.redo[n + 1] = @ \o s.moved]

Confirm(me, a) ==
  LET p    == Authored(a.owner, PCompactify(a.current))
      push == [a EXCEPT !.past = Append(@, p), !.redo = Append(@, <<>>),
                        !.current = NoPatch, !.owner = NoAuthor,
                        !.depth = @ + 1]
  IN  IF ~Active(a) THEN a
      ELSE IF IsEmpty(PRemoveSetCursor(p)) THEN [a EXCEPT !.current = NoPatch]
      ELSE Normalize(me, ForgetSaves(push, push.depth))

(* The patch q, of the current author, comes in front of the current ones. *)
AddPatch(me, author, a, q) ==
  LET b == IF a.owner \notin {NoAuthor, author} THEN Confirm(me, a)
           ELSE [a EXCEPT !.owner = author]
  IN  [b EXCEPT !.current = Compound(<<q, @>>)]

StartSlave(w, v, s) ==
  Update(w, v, AddPatch(v, w.author, w.arch[v], Birth(s, FALSE)))

(***************************************************************************)
(* Modifications of the document, announced to the archivers in S.  An     *)
(* assignment of what is there already is not recorded.                    *)
(***************************************************************************)
Modify(w, S, m) ==
  LET q == ModPatch(InvertMod(m, w.doc), m)
      R == IF m.k = "assign" /\ m = q.mod THEN {} ELSE S
  IN  [w EXCEPT !.doc     = CleanApply(@, m),
                !.arch    = [v \in View |-> IF v \in R
                                            THEN AddPatch(v, w.author, @[v], q)
                                            ELSE @[v]],
                !.pending = @ \cup R]

(* ApplyFirst gone wrong: no view records what is applied.                 *)
ApplyFirstSilently(s) ==
  [s EXCEPT !.w = Modify(@, {}, Head(s.ms)), !.ms = Tail(@)]

(* The archiver of v applies p; it does not record what it does itself.    *)
ApplyFirst(s) ==
  [s EXCEPT !.w = Modify(@, View \ {s.v}, Head(s.ms)), !.ms = Tail(@)]
ApplyLoop == INSTANCE Iteration WITH Step <- ApplyFirst

Apply(w, v, p) ==
  LET ms == PMods(p)
  IN  IF PApplicable(p, w.doc)
      THEN ApplyLoop!Iterate([w |-> w, v |-> v, ms |-> ms], Len(ms)).w
      ELSE Fail(w, "invalid history")

(* Cancel gone wrong: the document stays as it is.                         *)
CancelKeepsText(w, v) ==
  [w EXCEPT !.arch[v].current = NoPatch, !.arch[v].owner = NoAuthor]

Cancel(w, v) ==
  LET u == Apply(w, v, w.arch[v].current)
  IN  IF Active(w.arch[v])
      THEN [u EXCEPT !.arch[v].current = NoPatch, !.arch[v].owner = NoAuthor]
      ELSE w

ForgetCursor(w, v) == [w EXCEPT !.arch[v].current = PRemoveSetCursor(@)]

(***************************************************************************)
(* Simplifying: the last two items are joined where possible.              *)
(***************************************************************************)
(* CanSimplify gone wrong: the saved state is not looked at.               *)
CanSimplifySaved(a) ==
  Len(a.past) >= 2 /\ a.redo[Len(a.past)] = <<>>

(* CanSimplify gone wrong: the branches are not looked at.                 *)
CanSimplifyBranches(a) ==
  Len(a.past) >= 2 /\ a.depth # a.last_save + 1

(* The last item is not where another branch or the saved state starts.    *)
CanSimplify(a) ==
  /\ Len(a.past) >= 2
  /\ a.redo[Len(a.past)] = <<>>
  /\ a.depth # a.last_save + 1

SimplifyOnce(s) ==
  LET b == s.a
      n == Len(b.past)
      r == PJoin(b.past[n], b.past[n - 1], s.doc)
  IN  IF CanSimplify(b) /\ r.ok
      THEN [s EXCEPT !.a =
             [b EXCEPT !.past = Replace(Below(@), r.p),
                       !.redo = Replace(Below(@), RedoTop(b)),
                       !.last_autosave = IF b.depth = @ + 1 THEN NotSaved ELSE @,
                       !.depth = @ - 1]]
      ELSE s
SimplifyLoop == INSTANCE Iteration WITH Step <- SimplifyOnce

Simplify(a, doc) ==
  SimplifyLoop!Iterate([a |-> a, doc |-> doc], Len(a.past)).a

GlobalConfirm(w) ==
  [w EXCEPT !.arch    = [v \in View |-> IF v \in w.pending
                                        THEN Simplify(Confirm(v, @[v]), w.doc)
                                        ELSE @[v]],
            !.pending = {}]

(* GlobalClearHistory gone wrong: depth is not reset.                      *)
GlobalClearKeepsDepth(w) ==
  [w EXCEPT !.arch = [v \in View |-> [Cleared EXCEPT !.depth = w.arch[v].depth]]]

GlobalClearHistory(w) == [w EXCEPT !.arch = [v \in View |-> Cleared]]

(***************************************************************************)
(* Exposing: the last own item comes on top when it commutes with all      *)
(* foreign items above it.                                                 *)
(***************************************************************************)

(* Expose gone wrong: nothing is brought on top.                           *)
ExposeNothing(me, a) == a

Expose(me, a) ==
  LET n   == Len(a.past)
      own == {i \in 1 .. n : GetAuthor(a.past[i]) = me}
      j   == Max(own)
      \* the own item on its way up, and the forest that goes with it
      up[i \in j .. n] ==
        IF i = j THEN Swapped(a.past[j], NoPatch)
        ELSE LET c == up[i - 1]
             IN  IF c.ok THEN PSwap(a.past[i], c.first) ELSE c
      fut[i \in j .. n] ==
        IF i = j THEN a.redo[j + 1]
        ELSE LET f == fut[i - 1]
             IN  a.redo[i + 1] \o (IF f = <<>> THEN f ELSE FMake(me, a.past[i], f))
  IN  IF own = {} \/ j = n THEN a
      ELSE IF ~up[j + 1].ok THEN a
      ELSE IF ~up[n].ok THEN LoseSaves(a)
      ELSE [LoseSaves(a) EXCEPT
              !.past = [i \in 1 .. n |-> CASE i < j -> @[i]
                                           [] i \in j .. n - 1 -> up[i + 1].second
                                           [] i = n -> up[n].first],
              !.redo = [i \in 1 .. n + 1 |-> CASE i <= j -> @[i]
                                               [] i \in j + 1 .. n -> <<>>
                                               [] i = n + 1 -> fut[n]]]

(***************************************************************************)
(* Reopening the last own item for further modifications                   *)
(***************************************************************************)
CanRetract(me, a) ==
  /\ HasHistory(a)
  /\ a.owner \in {NoAuthor, me}
  /\ GetAuthor(Top(Expose(me, a))) = me

(* Retract gone wrong: the item is not reopened.                           *)
RetractNothing(me, a) == a

Retract(me, a) ==
  LET b   == Expose(me, a)
      cur == IF Active(b) THEN PCompactify(Compound(<<b.current, Top(b)>>))
             ELSE Top(b)
      re  == IF RedoTop(b) = <<>> THEN <<>>
             ELSE << [p |-> PInvert(cur), f |-> RedoTop(b)] >>
  IN  IF CanRetract(me, a)
      THEN [b EXCEPT !.current = cur, !.owner = me, !.past = Below(@),
                     !.redo = Replace(Below(@), re), !.depth = @ - 1]
      ELSE IF HasHistory(a) /\ a.owner \in {NoAuthor, me} THEN b ELSE a

(* Undo and forget about the last own item.                                *)
Forget(w, v) ==
  LET u == Cancel(w, v)
      x == Update(u, v, Retract(v, u.arch[v]))
  IN  IF CanRetract(v, u.arch[v]) THEN Cancel(x, v) ELSE x

(***************************************************************************)
(* Undo and redo                                                           *)
(***************************************************************************)
(* Branches gone wrong: the branches above and beside p change places.     *)
BranchesCrossed(p, above, beside) ==
  AppendBranches(<< [p |-> PInvert(p), f |-> beside] >>, above)

(* The branches once p is undone: those that followed it stay behind it,   *)
(* and the branches that could be taken instead of p come last.            *)
Branches(p, above, beside) ==
  AppendBranches(<< [p |-> PInvert(p), f |-> above] >>, beside)

UndoOne(w, v) ==
  LET a == w.arch[v]
      p == Top(a)
      n == Len(a.past)
      u == Apply(w, v, p)
  IN  IF ~PApplicable(p, w.doc) THEN Fail(w, "history corrupted")
      ELSE Update(u, v,
             [a EXCEPT !.past = Below(@),
                       !.redo = Replace(Below(@), Branches(p, RedoTop(a), a.redo[n])),
                       !.depth = @ - 1])

(* The state of a loop of v has a flag go; a loop that still goes after    *)
(* the last round is taken not to end.                                     *)
Ended(s, msg) == IF s.go THEN Fail(s.w, msg) ELSE s.w

(* Foreign items that cannot be passed are undone on the way.              *)
UndoRound(s) ==
  LET x == Update(s.w, s.v, Expose(s.v, s.w.arch[s.v]))
      u == UndoOne(x, s.v)
  IN  IF ~s.go \/ ~HasHistory(s.w.arch[s.v]) THEN [s EXCEPT !.go = FALSE]
      ELSE [s EXCEPT !.w  = u,
                     !.go = u.failed = "" /\ GetAuthor(Top(x.arch[s.v])) # s.v]
UndoLoop == INSTANCE Iteration WITH Step <- UndoRound

Undo(w, v) ==
  LET start == [w |-> w, v |-> v, go |-> ~Active(w.arch[v])]
  IN  Ended(UndoLoop!Iterate(start, MaxRounds), "undo does not end")

RedoOne(w, v, i) ==
  LET a  == w.arch[v]
      re == RedoTop(a)
      p  == re[i].p
      u  == Apply(w, v, p)
      b  == [a EXCEPT !.past = Append(@, PInvert(p)),
                      !.redo = Append(Replace(@, SubSeq(re, 1, i - 1) \o
                                                 SubSeq(re, i + 1, Len(re))),
                                      re[i].f),
                      !.depth = @ + 1]
  IN  IF ~PApplicable(p, w.doc) THEN Fail(w, "future corrupted")
      ELSE Update(u, v,
             Normalize(v, IF i = 1 THEN b ELSE ForgetSaves(b, a.depth)))

(* The branch i is redone, and after it the only branches that follow: up  *)
(* to and including the next own item when i was foreign, and the foreign  *)
(* items of no other view when i was own.                                  *)
RedoRound(s) ==
  LET re   == RedoTop(s.w.arch[s.v])
      done == GetAuthor(re[s.i].p) = s.v
      x    == RedoOne(s.w, s.v, s.i)
      next == RedoTop(x.arch[s.v])
      who  == GetAuthor(next[1].p)
  IN  IF ~s.go \/ re = <<>> THEN [s EXCEPT !.go = FALSE]
      ELSE [s EXCEPT !.w = x, !.i = 1, !.first = FALSE,
                     !.go = /\ x.failed = ""
                            /\ ~(done /\ ~s.first)
                            /\ Len(next) = 1
                            /\ who # s.v
                            /\ ~(done /\ who \in View)]
RedoLoop == INSTANCE Iteration WITH Step <- RedoRound

Redo(w, v, i) ==
  LET start == [w |-> w, v |-> v, i |-> i, first |-> TRUE, go |-> ~Active(w.arch[v])]
  IN  Ended(RedoLoop!Iterate(start, MaxRounds), "redo does not end")

(***************************************************************************)
(* Markers around blocks of modifications                                  *)
(***************************************************************************)
RemoveMarker(w, v, m) ==
  LET a  == w.arch[v]
      at == {i \in DOMAIN a.past : PIsMarker(a.past[i], m, FALSE)}
      j  == Max(at)
      Without(s, i) == SubSeq(s, 1, i - 1) \o SubSeq(s, i + 1, Len(s))
  IN  IF at = {} THEN Fail(w, "marker not found")
      ELSE IF a.redo[j + 1] # <<>> THEN Fail(w, "cannot remove marker")
      ELSE Update(w, v, [a EXCEPT !.past = Without(@, j),
                                  !.redo = Without(@, j + 1),
                                  !.depth = @ - 1])

(* MarkStart gone wrong: open modifications join the marker.               *)
MarkStartMerged(w, v, m) ==
  LET x == StartSlave(w, v, m)
  IN  Update(x, v, Confirm(v, x.arch[v]))

(* MarkStart gone wrong: the marker is not confirmed.                      *)
MarkStartOpen(w, v, m) ==
  StartSlave(Update(w, v, Confirm(v, w.arch[v])), v, m)

MarkStart(w, v, m) ==
  LET x == StartSlave(Update(w, v, Confirm(v, w.arch[v])), v, m)
  IN  Update(x, v, Confirm(v, x.arch[v]))

(* MarkEnd gone wrong: the marker stays.                                   *)
MarkEndKeeps(w, v, m) == w

MarkEnd(w, v, m) ==
  LET x == RemoveMarker(w, v, m)
  IN  Update(x, v, IF x.failed = "" THEN Simplify(x.arch[v], x.doc) ELSE x.arch[v])

(* Everything since the marker is undone and forgotten; MarkReached tells  *)
(* whether the marker was reached.                                         *)
CancelRound(s) ==
  LET x   == Update(s.w, s.v, Expose(s.v, s.w.arch[s.v]))
      top == Top(x.arch[s.v])
      Stop(w, ok) == [s EXCEPT !.w = w, !.ok = ok, !.go = FALSE]
  IN  IF ~s.go THEN s
      ELSE IF s.w.failed # "" \/ ~HasHistory(s.w.arch[s.v]) THEN Stop(s.w, FALSE)
      ELSE IF PIsMarker(top, s.m, FALSE) THEN Stop(MarkEnd(x, s.v, s.m), TRUE)
      ELSE IF GetAuthor(top) # s.v THEN Stop(RemoveMarker(x, s.v, s.m), FALSE)
      ELSE [s EXCEPT !.w = Cancel(Update(x, s.v, Retract(s.v, x.arch[s.v])), s.v)]
CancelLoop == INSTANCE Iteration WITH Step <- CancelRound

CancelTo(w, v, m) ==
  CancelLoop!Iterate([w |-> Cancel(w, v), v |-> v, m |-> m, ok |-> FALSE, go |-> TRUE],
                     MaxRounds)

MarkReached(w, v, m) == CancelTo(w, v, m).ok
MarkCancel(w, v, m)  == Ended(CancelTo(w, v, m), "mark_cancel does not end")

(***************************************************************************)
(* Conformity of the document with its saved state                         *)
(***************************************************************************)
IsDeath(p) == p.ty = "birth" /\ ~p.birth

CorrectedDepth(a) ==
  IF HasHistory(a) /\ IsDeath(IF Top(a).ty = "author" THEN Top(a).ch[1] ELSE Top(a))
  THEN a.depth - 1 ELSE a.depth

ConformSave(a)     == a.last_save = CorrectedDepth(a)
ConformAutosave(a) == a.last_autosave = a.depth

(* The editors' notify_save, for every view of the buffer.                 *)
NotifySave(w, real) ==
  LET Saved(v) == LET a == Confirm(v, w.arch[v]) IN
        [a EXCEPT !.last_autosave = a.depth,
                  !.last_save = IF real THEN CorrectedDepth(a) ELSE @]
  IN  [w EXCEPT !.arch = [v \in View |-> Saved(v)]]

(***************************************************************************)
(* The shape of an archive: redo has a forest for every number of undone   *)
(* items, and depth is the number of items that can be undone.             *)
(***************************************************************************)
Shape(a) ==
  /\ Len(a.redo) = Len(a.past) + 1
  /\ a.depth = Len(a.past)
=============================================================================
