------------------------------ MODULE MCEditing ------------------------------
(***************************************************************************)
(* The editors of a buffer with two short paragraphs.                      *)
(***************************************************************************)
EXTENDS Editing, Futures

(* The operations on patches.  Each has its value named before it is       *)
(* returned: TLC's statistics then count them once, and not at every one   *)
(* of the thousands of places where a handler comes to use them.           *)
MCSwap(p, q)            == LET r == PatchSwap(p, q)         IN r
MCInvert(p)             == LET r == PatchInvert(p)          IN r
MCApplicable(p, t)      == LET r == PatchApplicable(p, t)   IN r
MCMods(p)               == LET r == PatchMods(p)            IN r
MCJoin(p, q, t)         == LET r == PatchJoin(p, q, t)      IN r
MCCompactify(p)         == LET r == Compactify(p)           IN r
MCRemoveSetCursor(p)    == LET r == RemoveSetCursor(p)      IN r
MCIsMarker(p, m, b)     == LET r == IsMarker(p, m, b)       IN r
MCSplit(me, p, fs)      == LET r == SplitFutures(me, p, fs) IN r
MCMake(me, p, fs)       == LET r == MakeFuture(me, p, fs)   IN r

MCMarkerOf(i) == <<"m1", "m2", "m3", "m4", "m5", "m6", "m7", "m8">>[i]

Paragraph(cs) == Str([i \in DOMAIN cs |-> Node(cs[i], <<>>)])

MCDoc == Node("document", <<Paragraph(<<"a">>), Paragraph(<<>>)>>)

MCMaxLength == 3

(* An author types its own name at the end of a paragraph, or removes the  *)
(* first character of the first one.                                       *)
Typing(doc, author, i) ==
  Mod("insert", <<i - 1, Arity(doc.arg[i])>>, Paragraph(<<author>>))

MCEditsOf(doc, author) ==
  {Typing(doc, author, i) : i \in {j \in 1 .. 2 : Arity(doc.arg[j]) < MCMaxLength}}
  \cup IF Arity(doc.arg[1]) > 0 /\ doc.arg[1].arg[1].op = "a"
       THEN {Mod("remove", <<0, 0, 1>>, EmptyTree)} ELSE {}

(* Every author types in a paragraph of its own.                           *)
ParagraphOf(author) == IF author = "v1" THEN 1 ELSE 2

MCOwnParagraph(doc, author) ==
  {Typing(doc, author, i) : i \in {j \in {ParagraphOf(author)} :
                                     Arity(doc.arg[j]) < MCMaxLength}}

MCCursorsOf(doc, v) == {<<0, 0>>}

MCOwnCursors(doc, v) == {<<ParagraphOf(v) - 1, 0>>}

-----------------------------------------------------------------------------
arch(v) == hist.arch[v]

(* No assertion of the archiver fails: the history and the future are      *)
(* applicable when they are applied, markers are where they are looked     *)
(* for, and the loops end (archiver.cpp:172, 415, 441, 513, 515).          *)
NoFailure == hist.failed = ""

RECURSIVE FutureApplies(_, _)
(* All branches of the forest fs can be redone one after the other, and    *)
(* undoing what was redone gives the document back.                        *)
FutureApplies(fs, t) ==
  \A i \in DOMAIN fs :
    /\ PatchApplicable(fs[i].p, t)
    /\ LET u == PatchApply(fs[i].p, t)
           q == PatchInvert(fs[i].p)
       IN  /\ PatchApplicable(q, u) /\ PatchApply(q, u) = t
           /\ FutureApplies(fs[i].f, u)

RECURSIVE ArchiveApplies(_, _, _)
(* The first n items of an archive can be undone from t one after the      *)
(* other, redone from where they lead to, and so can all branches there.   *)
ArchiveApplies(a, n, t) ==
  /\ FutureApplies(a.redo[n + 1], t)
  /\ n > 0 => LET p == a.past[n]
                  u == PatchApply(p, t)
                  q == PatchInvert(p)
              IN  /\ PatchApplicable(p, t)
                  /\ PatchApplicable(q, u) /\ PatchApply(q, u) = t
                  /\ ArchiveApplies(a, n - 1, u)

(* The whole archive of every view stays applicable, the branches that     *)
(* were left included, however items were swapped, joined and moved        *)
(* between branches, and whichever view changed the document.              *)
HistoryApplies ==
  \A v \in View :
    LET a == arch(v) IN
    /\ PatchApplicable(a.current, hist.doc)
    /\ ArchiveApplies(a, Len(a.past), PatchApply(a.current, hist.doc))

RECURSIVE BranchesFrom(_, _), TreeBack(_, _, _)
(* The documents that the futures fs lead to from t.                       *)
BranchesFrom(fs, t) ==
  IF fs = <<>> THEN <<>>
  ELSE LET u == PatchApply(Head(fs).p, t)
       IN  <<[doc |-> u, f |-> BranchesFrom(Head(fs).f, u)]>>
             \o BranchesFrom(Tail(fs), t)

(* The documents that undoing n items of a from t leads through, and the   *)
(* branches that start there.                                              *)
TreeBack(a, n, t) ==
  LET here == BranchesFrom(a.redo[n + 1], t)
      b    == TreeBack(a, n - 1, PatchApply(a.past[n], t))
  IN  IF n = 0 THEN [docs |-> <<t>>, branches |-> <<here>>]
      ELSE [docs |-> Append(b.docs, t), branches |-> Append(b.branches, here)]

(* The tree of documents that the archive of the only view stands for.     *)
OnlyView == CHOOSE v \in View : TRUE
TreeOf(w) ==
  LET a == w.arch[OnlyView] IN TreeBack(a, Len(a.past), w.doc)

Promised == INSTANCE UndoTree WITH tree <- TreeOf(hist), First <- InitialDoc

(* The archive of the only view of a buffer implements a tree of documents *)
(* through which undo and redo move: every step leads where it should,     *)
(* every branch is kept, joining items loses no document where a branch    *)
(* starts, and only clearing the history forgets (archiver.cpp).  This is  *)
(* Promised!Spec with the tree after a step computed from the history      *)
(* after it.                                                               *)
KeepsUndoTree ==
  /\ Promised!Init
  /\ [][LET t == TreeOf(hist) u == TreeOf(hist')
         IN  u = t \/ Promised!Step(t, u)]_hist

(* A view that reports the document as saved has the document of the last  *)
(* save (archiver.cpp, conform_save).                                      *)
SavedIsSaved ==
  \A v \in View :
    ConformSave(arch(v)) /\ ~Active(arch(v)) => hist.doc = saved.at

(* Undo followed by redo gives the document back and leaves the same items *)
(* to be undone, when the item undone is the view's own, whether it was on *)
(* top or had to be brought there (archiver.cpp, undo and redo).           *)
RedoReversesUndo ==
  \A v \in View :
    LET a == Expose(v, arch(v))
        w == Redo(Undo(hist, v), v, 1)
    IN  HasHistory(a) /\ ~Active(a) /\ GetAuthor(Top(a)) = v =>
          w.doc = hist.doc /\ Len(w.arch[v].past) = Len(a.past)

(* What a shortcut or a pre-edit inserts can be taken back at once: the    *)
(* block between the marker and the last item is exactly what the key did  *)
(* (archiver.cpp, mark_start and mark_cancel).                             *)
TakesBack ==
  [][\A v \in View :
       /\ sh_mark'[v] \notin {NoMark, sh_mark[v]} =>
            /\ MarkReached(hist', v, sh_mark'[v])
            /\ MarkCancel(hist', v, sh_mark'[v]).doc \in
                 {InterruptShortcut(BeginKey(v), v).doc} \cup
                 (IF sh_mark[v] = NoMark THEN {} ELSE {Continued(v).doc})
       /\ pre_edit_mark'[v] \notin {NoMark, pre_edit_mark[v]} =>
            /\ MarkReached(hist', v, pre_edit_mark'[v])
            /\ MarkCancel(hist', v, pre_edit_mark'[v]).doc = BeginKey(v).doc]_vars

(* The marker of a shortcut or pre-edit in progress can be reached, so     *)
(* that the next key can take back what was inserted.                      *)
MarkInReach ==
  \A v \in View : \A m \in {sh_mark[v], pre_edit_mark[v]} \ {NoMark} :
    MarkReached(hist, v, m) /\ MarkCancel(hist, v, m).failed = ""

(* Dragging an object is one item: undoing it after the drop gives the     *)
(* document that undoing it during the drag gives, unless the drop         *)
(* interrupts a shortcut: without its marker, the object that was taken is *)
(* joined with what was typed before (graphics-object.scm, sketch-commit). *)
DragIsOneItem ==
  [][\A v \in View :
       sh_mark[v] = NoMark /\ dragging' # dragging /\ Commit(v) =>
       Undo(hist', v).doc = EditUndo(SetAuthor(hist, v), v).doc]_vars

(* A tentative modification that is taken back leaves the document and all *)
(* that can be undone or redone as they were, but for the marker of a      *)
(* shortcut that the menu interrupts (tree.scm, try-modification).         *)
TryLeavesNoTrace ==
  [][\A v \in View :
       hist'.doc = hist.doc /\ sh_mark[v] = NoMark /\ MenuTry(v) =>
       /\ arch(v)'.past = arch(v).past
       /\ arch(v)'.redo = arch(v).redo]_vars

RECURSIVE Births(_)
(* The authors born in p.                                                  *)
Births(p) ==
  CASE p.ty = "modification" -> {}
    [] p.ty = "birth"        -> {p.author}
    [] OTHER                 -> UNION {Births(p.ch[i]) : i \in DOMAIN p.ch}

(* Undoing is in order: the results of an evaluation are undone before the *)
(* item that asked for it (patch.cpp, swap).                               *)
ResultAfterBirth ==
  \A v \in View : \A i, j \in DOMAIN arch(v).past :
    i < j => GetAuthor(arch(v).past[i]) \notin Births(arch(v).past[j])

RECURSIVE MadeBy(_, _)
(* What p, archived under author, changes is in that author's paragraph.   *)
MadeBy(p, author) ==
  CASE p.ty = "modification" -> Head(p.mod.p) = ParagraphOf(author) - 1
    [] p.ty = "birth"  -> TRUE
    [] p.ty = "author" -> MadeBy(p.ch[1], p.author)
    [] OTHER           -> \A i \in DOMAIN p.ch : MadeBy(p.ch[i], author)

RightlyAttributed(a) == \A i \in DOMAIN a.past : MadeBy(a.past[i], NoAuthor)

(* The paragraph where v does not type.                                    *)
Others(doc, v) == doc.arg[3 - ParagraphOf(v)]

(* Undo in a view that has an item of its own leaves alone what is typed   *)
(* in the other views, however the items of the views follow each other,   *)
(* provided that its archive has the right authors (archiver.cpp, expose). *)
UndoIsOwn ==
  [][\A v \in View :
       /\ MenuUndo(v)
       /\ RightlyAttributed(arch(v))
       /\ \E i \in DOMAIN arch(v).past : GetAuthor(arch(v).past[i]) = v
       => Others(hist.doc, v) = Others(hist'.doc, v)]_vars
=============================================================================
