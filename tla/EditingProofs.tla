---------------------------- MODULE EditingProofs ----------------------------
(***************************************************************************)
(* The archives of the editors keep their shape, and none is left with     *)
(* modifications that are not confirmed, for any number of views, any      *)
(* documents and modifications, and any operations on patches.             *)
(***************************************************************************)
EXTENDS Editing, ArchiverProofs

-----------------------------------------------------------------------------
(* What the handlers are made of *)

(* The current author is no part of the archives.                          *)
LEMMA SetAuthorWorld ==
  ASSUME NEW w, IsWorld(w), NEW a
  PROVE  IsWorld(SetAuthor(w, a))
<1> DEFINE u == [w EXCEPT !.author = a]
<1>1. DOMAIN u = DOMAIN w /\ u.arch = w.arch
  BY DEF IsWorld
<1>2. SetAuthor(w, a) = u
  BY DEF SetAuthor
<1> HIDE DEF u
<1> QED BY <1>1, <1>2, SameArchives

(* Archiving a cursor keeps the history well-formed.                       *)
LEMMA ArchiveStateWorld ==
  ASSUME NEW w, IsWorld(w), NEW v, NEW c
  PROVE  IsWorld(ArchiveState(w, v, c))
BY ModifyWorld DEF ArchiveState

(* Interrupting a shortcut keeps the history well-formed.                  *)
LEMMA InterruptShortcutWorld ==
  ASSUME NEW w, IsWorld(w), NEW v \in View
  PROVE  IsWorld(InterruptShortcut(w, v))
BY MarkEndWorld DEF InterruptShortcut

(* Undo through the editor keeps the history well-formed.                  *)
LEMMA EditUndoWorld ==
  ASSUME NEW w, IsWorld(w), NEW v \in View
  PROVE  IsWorld(EditUndo(w, v))
<1> DEFINE u == ForgetCursor(w, v)
<1>1. IsWorld(u)
  BY ForgetCursorWorld
<1>2. EditUndo(w, v) \in {u, Forget(u, v), Undo(u, v)}
  BY DEF EditUndo
<1> HIDE DEF u
<1> QED BY <1>1, <1>2, ForgetWorld, UndoWorld

(* Redo through the editor keeps the history well-formed.                  *)
LEMMA EditRedoWorld ==
  ASSUME NEW w, IsWorld(w), NEW v \in View, NEW i
  PROVE  IsWorld(EditRedo(w, v, i))
BY ForgetCursorWorld, RedoWorld DEF EditRedo

(* The start of a key press keeps the history well-formed.                 *)
LEMMA BeginKeyWorld ==
  ASSUME IsWorld(hist), NEW v \in View
  PROVE  /\ IsWorld(BeginKey(v))
         /\ IsWorld(InterruptShortcut(BeginKey(v), v))
         /\ IsWorld(Continued(v))
<1> DEFINE w == SetAuthor(hist, v)
<1>1. IsWorld(w)
  BY SetAuthorWorld
<1>2. BeginKey(v) \in {w, MarkCancel(w, v, pre_edit_mark[v])}
  BY DEF BeginKey
<1> HIDE DEF w
<1>3. IsWorld(BeginKey(v))
  BY <1>1, <1>2, MarkCancelWorld
<1> QED BY <1>3, InterruptShortcutWorld, MarkCancelWorld DEF Continued

(* The start of a menu command keeps the history well-formed.              *)
LEMMA BeginMenuWorld ==
  ASSUME IsWorld(hist), NEW v \in View, NEW c
  PROVE  IsWorld(BeginMenu(v, c))
BY ArchiveStateWorld, SetAuthorWorld, InterruptShortcutWorld DEF BeginMenu

(* The end of an event keeps the history well-formed.                      *)
LEMMA EndEventWorld ==
  ASSUME NEW w, IsWorld(w), EndEvent(w)
  PROVE  IsWorld(hist')
BY GlobalConfirmWorld DEF EndEvent

(* Inserting text keeps the history well-formed.                           *)
LEMMA InsertionWorld ==
  ASSUME NEW w, IsWorld(w), NEW v, Insertion(w, v)
  PROVE  IsWorld(hist')
<1>1. PICK m : EndEvent(Modify(ArchiveState(w, v, CursorFor(m)), View, m))
  BY DEF Insertion
<1>2. IsWorld(Modify(ArchiveState(w, v, CursorFor(m)), View, m))
  BY ArchiveStateWorld, ModifyWorld
<1> QED BY <1>1, <1>2, EndEventWorld

-----------------------------------------------------------------------------
(* The handlers *)

(* The commands of shortcuts keep the history well-formed.                 *)
LEMMA ShortcutWorld ==
  ASSUME NEW w, IsWorld(w), NEW v \in View, NEW mark,
         Shortcut(w, v, mark)
  PROVE  IsWorld(hist')
<1>1. CASE Insertion(w, v)
  BY <1>1, InsertionWorld
<1>2. ASSUME NEW c,
             LET x == ArchiveState(w, v, c)
             IN  \/ EndEvent(x)
                 \/ EndEvent(NotifySave(x, TRUE))
                 \/ EndEvent(EditUndo(MarkEnd(x, v, mark), v))
      PROVE  IsWorld(hist')
  <2> DEFINE x == ArchiveState(w, v, c)
  <2>1. IsWorld(x)
    BY ArchiveStateWorld
  <2> HIDE DEF x
  <2>2. IsWorld(NotifySave(x, TRUE)) /\ IsWorld(EditUndo(MarkEnd(x, v, mark), v))
    BY <2>1, NotifySaveWorld, MarkEndWorld, EditUndoWorld
  <2> QED BY <1>2, <2>1, <2>2, EndEventWorld DEF x
<1> QED BY <1>1, <1>2 DEF Shortcut

(* The keyboard handlers keep the history well-formed.                     *)
LEMMA KeyboardWorld ==
  ASSUME IsWorld(hist), NEW v \in View,
         KeyPress(v) \/ ShortcutPress(v) \/ PreEditPress(v) \/ PreEditEnd(v)
         \/ Suspend(v)
  PROVE  IsWorld(hist')
<1>1. CASE KeyPress(v)
  BY <1>1, BeginKeyWorld, InsertionWorld DEF KeyPress
<1>2. CASE ShortcutPress(v)
  <2>1. ASSUME NEW w, IsWorld(w),
               Shortcut(MarkStart(w, v, NewMarker), v, NewMarker)
        PROVE  IsWorld(hist')
    <3>1. IsWorld(MarkStart(w, v, NewMarker))
      BY <2>1, MarkStartWorld
    <3> QED BY <2>1, <3>1, ShortcutWorld
  <2> QED BY <1>2, <2>1, BeginKeyWorld DEF ShortcutPress
<1>3. CASE PreEditPress(v)
  BY <1>3, BeginKeyWorld, MarkStartWorld, InsertionWorld DEF PreEditPress
<1>4. CASE PreEditEnd(v)
  BY <1>4, BeginKeyWorld, EndEventWorld DEF PreEditEnd
<1>5. CASE Suspend(v)
  BY <1>5, InterruptShortcutWorld DEF Suspend
<1> QED BY <1>1, <1>2, <1>3, <1>4, <1>5

(* The menu handlers keep the history well-formed.                         *)
LEMMA MenuWorld ==
  ASSUME IsWorld(hist), NEW v \in View,
         MenuEdit(v) \/ MenuUndo(v) \/ MenuRedo(v) \/ MenuSave(v)
         \/ MenuClearHistory(v) \/ MenuTry(v) \/ \E s \in Slave : Evaluate(v, s)
  PROVE  IsWorld(hist')
<1>1. CASE MenuEdit(v)
  <2>1. PICK c, m : EndEvent(Modify(BeginMenu(v, c), View, m))
    BY <1>1 DEF MenuEdit, Menu
  <2> QED BY <2>1, BeginMenuWorld, ModifyWorld, EndEventWorld
<1>2. CASE MenuUndo(v)
  <2>1. PICK c : EndEvent(EditUndo(BeginMenu(v, c), v))
    BY <1>2 DEF MenuUndo, Menu
  <2> QED BY <2>1, BeginMenuWorld, EditUndoWorld, EndEventWorld
<1>3. CASE MenuRedo(v)
  <2>1. PICK c, i : EndEvent(EditRedo(BeginMenu(v, c), v, i))
    BY <1>3 DEF MenuRedo, Menu
  <2> QED BY <2>1, BeginMenuWorld, EditRedoWorld, EndEventWorld
<1>4. CASE MenuSave(v)
  <2>1. PICK c : EndEvent(NotifySave(BeginMenu(v, c), TRUE))
    BY <1>4 DEF MenuSave, Menu
  <2> QED BY <2>1, BeginMenuWorld, NotifySaveWorld, EndEventWorld
<1>5. CASE MenuClearHistory(v)
  <2>1. PICK c : EndEvent(GlobalClearHistory(BeginMenu(v, c)))
    BY <1>5 DEF MenuClearHistory, Menu
  <2> QED BY <2>1, BeginMenuWorld, GlobalClearHistoryWorld, EndEventWorld
<1>6. CASE MenuTry(v)
  <2> DEFINE Try(w, m) == Modify(MarkStart(w, v, NewMarker), View, m)
  <2>1. PICK c, m : \/ EndEvent(MarkEnd(Try(BeginMenu(v, c), m), v, NewMarker))
                    \/ EndEvent(MarkCancel(Try(BeginMenu(v, c), m), v, NewMarker))
    BY <1>6 DEF MenuTry
  <2>2. IsWorld(Try(BeginMenu(v, c), m))
    BY BeginMenuWorld, MarkStartWorld, ModifyWorld
  <2> HIDE DEF Try
  <2> QED BY <2>1, <2>2, MarkEndWorld, MarkCancelWorld, EndEventWorld
<1>7. CASE \E s \in Slave : Evaluate(v, s)
  <2>1. PICK s, c, m : EndEvent(Modify(StartSlave(BeginMenu(v, c), v, s), View, m))
    BY <1>7 DEF Evaluate, Menu
  <2> QED BY <2>1, BeginMenuWorld, StartSlaveWorld, ModifyWorld, EndEventWorld
<1> QED BY <1>1, <1>2, <1>3, <1>4, <1>5, <1>6, <1>7

(* The mouse handlers keep the history well-formed.                        *)
LEMMA MouseWorld ==
  ASSUME IsWorld(hist), NEW v \in View, MouseClick(v) \/ Checkout(v) \/ Commit(v)
  PROVE  IsWorld(hist')
<1>1. IsWorld(SetAuthor(hist, v)) /\ IsWorld(Click(v))
  BY SetAuthorWorld, InterruptShortcutWorld DEF Click
<1>2. CASE MouseClick(v)
  BY <1>1, <1>2, EndEventWorld DEF MouseClick
<1>3. CASE Checkout(v)
  BY <1>1, <1>3, ModifyWorld, EndEventWorld DEF Checkout
<1>4. CASE Commit(v)
  <2> DEFINE P(x) == Update(x, v, Retract(v, x.arch[v]))
  <2>1. PICK m : EndEvent(P(Modify(Click(v), View, m)))
    BY <1>4 DEF Commit
  <2>2. IsWorld(Modify(Click(v), View, m))
    BY <1>1, ModifyWorld
  <2>3. ASSUME NEW x, IsWorld(x) PROVE IsWorld(P(x))
    <3>1. IsArchiver(x.arch[v])
      BY <2>3 DEF IsWorld
    <3> QED BY <2>3, <3>1, RetractShape, UpdateWorld
  <2> HIDE DEF P
  <2> QED BY <2>1, <2>2, <2>3, EndEventWorld
<1> QED BY <1>2, <1>3, <1>4

(* The result of a plug-in keeps the history well-formed.                  *)
LEMMA OutputWorld ==
  ASSUME IsWorld(hist), NEW s, Output(s)
  PROVE  IsWorld(hist')
<1> DEFINE w == SetAuthor(hist, s)
<1>1. PICK m : hist' = SetAuthor(GlobalConfirm(Modify(w, View, m)), hist.author)
  BY DEF Output
<1>2. IsWorld(GlobalConfirm(Modify(w, View, m)))
  BY SetAuthorWorld, ModifyWorld, GlobalConfirmWorld
<1> QED BY <1>1, <1>2, SetAuthorWorld

(* The history is well-formed when the views are opened.                   *)
LEMMA WorldInit == Init => IsWorld(hist)
<1> SUFFICES ASSUME Init PROVE IsWorld(hist)
  OBVIOUS
<1>1. /\ DOMAIN hist = {"doc", "author", "arch", "pending", "failed"}
      /\ hist.arch = [v \in View |-> NewArchiver]
  BY DEF Init
<1>2. IsArchiver(NewArchiver)
  BY NewArchiverShape
<1> HIDE DEF NewArchiver
<1> QED BY <1>1, <1>2 DEF IsWorld

(* Every event keeps it well-formed.                                       *)
LEMMA WorldNext ==
  ASSUME IsWorld(hist), [Next]_vars
  PROVE  IsWorld(hist)'
<1>1. CASE UNCHANGED vars
  BY <1>1 DEF vars
<1>2. CASE Autosave
  BY <1>2, NotifySaveWorld DEF Autosave
<1> QED BY <1>1, <1>2, KeyboardWorld, MenuWorld, MouseWorld, OutputWorld DEF Next

(***************************************************************************)
(* Every archive has as many forests of futures as there are numbers of    *)
(* items to be undone, and counts the items right: archiver.cpp keeps the  *)
(* counter depth in step with the nested patches archive and undo.         *)
(***************************************************************************)
THEOREM ArchivesKeepShape == Spec => []ArchiveShape
<1>1. IsWorld(hist) => ArchiveShape
  BY DEF IsWorld, IsArchiver, ArchiveShape
<1> QED BY <1>1, WorldInit, WorldNext, PTL DEF Spec

-----------------------------------------------------------------------------
(* The marks of shortcuts and pre-edits *)

(* All variables have their types when the views are opened.               *)
LEMMA TypeInit == Init => TypeOK
<1> SUFFICES ASSUME Init PROVE TypeOK
  OBVIOUS
<1>1. NoMark \in Marks
  BY DEF Marks
<1>2. sh_mark \in [View -> Marks] /\ pre_edit_mark \in [View -> Marks]
  BY <1>1 DEF Init
<1>3. /\ DOMAIN hist = {"doc", "author", "arch", "pending", "failed"}
      /\ DOMAIN hist.arch = View
  BY DEF Init
<1>4. DOMAIN saved = {"at"}
  BY DEF Init
<1>5. next_marker \in 1 .. events + 1 /\ events \in 0 .. MaxEvents
  <2>1. next_marker = 1 /\ events = 0
    BY DEF Init
  <2> QED BY <2>1, EditingAssumption
<1>6. dragging \subseteq View /\ slaves \subseteq Slave
  BY DEF Init
<1> QED BY <1>2, <1>3, <1>4, <1>5, <1>6 DEF TypeOK

(* The part of the types that concerns the marks.                          *)
MarkType ==
  /\ sh_mark \in [View -> Marks] /\ pre_edit_mark \in [View -> Marks]
  /\ next_marker \in 1 .. events + 1 /\ events \in 0 .. MaxEvents

(* The marker of an event that still may happen.                           *)
LEMMA NewMarkerType ==
  ASSUME MarkType, events < MaxEvents
  PROVE  NewMarker \in Marks
<1>1. next_marker \in 1 .. MaxEvents
  BY EditingAssumption DEF MarkType
<1> QED BY <1>1 DEF Marks, NewMarker

(* What an event does to the marks of the views.                           *)
MarkStep ==
  \/ UNCHANGED <<sh_mark, pre_edit_mark>>
  \/ \E v \in View, m \in Marks :
       /\ sh_mark' = [sh_mark EXCEPT ![v] = m]
       /\ pre_edit_mark' = [pre_edit_mark EXCEPT ![v] = NoMark]
  \/ \E v \in View, m \in Marks :
       /\ sh_mark' = [sh_mark EXCEPT ![v] = NoMark]
       /\ pre_edit_mark' = [pre_edit_mark EXCEPT ![v] = m]
  \/ \E v \in View :
       /\ sh_mark' = [sh_mark EXCEPT ![v] = NoMark]
       /\ UNCHANGED pre_edit_mark

(* What an event does to the two marks of the views, and to the counters.  *)
LEMMA NextMarks ==
  ASSUME MarkType, Next
  PROVE  /\ MarkStep
         /\ events' = events + 1 /\ events < MaxEvents
         /\ next_marker' \in {next_marker, next_marker + 1}
<1>0. NoMark \in Marks
  BY DEF Marks
<1>1. events < MaxEvents /\ events' = events + 1
  BY DEF Next, KeyPress, ShortcutPress, PreEditPress, PreEditEnd, Suspend, Menu,
         MenuEdit, MenuUndo, MenuRedo, MenuSave, MenuClearHistory, MenuTry,
         MouseClick, Checkout, Commit, Evaluate, Output, Autosave, Event
<1>2. NewMarker \in Marks
  BY <1>1, NewMarkerType
<1>3. ASSUME NEW v \in View,
             KeyPress(v) \/ ShortcutPress(v) \/ PreEditPress(v) \/ PreEditEnd(v)
      PROVE  MarkStep /\ next_marker' \in {next_marker, next_marker + 1}
  <2>1. CASE KeyPress(v)
    BY <1>0, <2>1 DEF KeyPress, EndShortcut, MarkStep
  <2>2. CASE ShortcutPress(v)
    <3>1. ASSUME NEW w, Shortcut(w, v, NewMarker)
          PROVE  \E m \in Marks : sh_mark' = [sh_mark EXCEPT ![v] = m]
      BY <1>0, <1>2, <3>1 DEF Shortcut, EndShortcut
    <3> QED BY <2>2, <3>1 DEF ShortcutPress, MarkStep
  <2>3. CASE PreEditPress(v)
    BY <1>2, <2>3 DEF PreEditPress, EndShortcut, MarkStep
  <2>4. CASE PreEditEnd(v)
    BY <1>0, <2>4 DEF PreEditEnd, EndShortcut, MarkStep
  <2> QED BY <1>3, <2>1, <2>2, <2>3, <2>4
<1>4. ASSUME NEW v \in View,
             Suspend(v) \/ MouseClick(v) \/ Commit(v)
             \/ MenuEdit(v) \/ MenuUndo(v) \/ MenuRedo(v) \/ MenuSave(v)
             \/ MenuClearHistory(v) \/ MenuTry(v) \/ \E s \in Slave : Evaluate(v, s)
      PROVE  MarkStep /\ next_marker' \in {next_marker, next_marker + 1}
  <2>1. /\ sh_mark' = [sh_mark EXCEPT ![v] = NoMark]
        /\ UNCHANGED pre_edit_mark
        /\ next_marker' \in {next_marker, next_marker + 1}
    BY <1>4 DEF Suspend, MouseClick, Commit, Menu, MenuEdit, MenuUndo, MenuRedo, MenuSave,
                MenuClearHistory, MenuTry, Evaluate, EndShortcut
  <2> QED BY <2>1 DEF MarkStep
<1>5. ASSUME NEW v \in View, Checkout(v)
      PROVE  MarkStep /\ next_marker' \in {next_marker, next_marker + 1}
  BY <1>5 DEF Checkout, EndShortcut, MarkStep
<1>6. ASSUME (\E s \in Slave : Output(s)) \/ Autosave
      PROVE  MarkStep /\ next_marker' \in {next_marker, next_marker + 1}
  BY <1>6 DEF Output, Autosave, marks, MarkStep
<1> QED BY <1>1, <1>3, <1>4, <1>5, <1>6 DEF Next

(* An event keeps the types of the marks, and does not set both.           *)
LEMMA MarkStepKeeps ==
  ASSUME MarkType, [Next]_vars
  PROVE  MarkType' /\ (OneMark => OneMark')
<1>1. CASE UNCHANGED vars
  BY <1>1 DEF vars, MarkType, OneMark
<1>2. CASE Next
  <2>1. /\ MarkStep
        /\ events' = events + 1 /\ events < MaxEvents
        /\ next_marker' \in {next_marker, next_marker + 1}
    BY <1>2, NextMarks
  <2>2. NoMark \in Marks
    BY DEF Marks
  <2>3. sh_mark' \in [View -> Marks] /\ pre_edit_mark' \in [View -> Marks]
    BY <2>1, <2>2 DEF MarkStep, MarkType
  <2>4. next_marker' \in 1 .. events' + 1 /\ events' \in 0 .. MaxEvents
    BY <2>1, EditingAssumption DEF MarkType
  <2>5. ASSUME OneMark, NEW u \in View
        PROVE  sh_mark'[u] = NoMark \/ pre_edit_mark'[u] = NoMark
    BY <2>1, <2>5 DEF MarkStep, MarkType, OneMark
  <2> QED BY <2>3, <2>4, <2>5 DEF MarkType, OneMark
<1> QED BY <1>1, <1>2

(***************************************************************************)
(* A view never types a shortcut and a pre-edit at the same time, which    *)
(* key_press asserts (edit_keyboard.cpp:129).                              *)
(***************************************************************************)
THEOREM MarksExclude == Spec => []OneMark
<1>1. Init => MarkType /\ OneMark
  <2>1. Init => OneMark
    BY DEF Init, OneMark
  <2> QED BY <2>1, TypeInit DEF TypeOK, MarkType
<1>2. MarkType /\ OneMark /\ [Next]_vars => (MarkType /\ OneMark)'
  BY MarkStepKeeps
<1> QED BY <1>1, <1>2, PTL DEF Spec

(***************************************************************************)
(* The variables of the editors and archivers keep their types.            *)
(***************************************************************************)
THEOREM EditingTypes == Spec => []TypeOK
<1> DEFINE Rest == /\ dragging \subseteq View /\ slaves \subseteq Slave
                   /\ DOMAIN saved = {"at"}
<1>1. Init => IsWorld(hist) /\ MarkType /\ Rest
  BY WorldInit, TypeInit DEF TypeOK, MarkType
<1>2. IsWorld(hist) /\ MarkType /\ Rest /\ [Next]_vars
        => (IsWorld(hist) /\ MarkType /\ Rest)'
  <2> SUFFICES ASSUME IsWorld(hist), MarkType, Rest, [Next]_vars
               PROVE  Rest'
    BY WorldNext, MarkStepKeeps
  <2>1. CASE UNCHANGED vars
    BY <2>1 DEF vars
  <2>2. CASE Next
    <3>1. saved' = saved \/ \E d : saved' = [at |-> d]
      BY <2>2 DEF Next, KeyPress, ShortcutPress, Shortcut, PreEditPress, PreEditEnd,
           Suspend, Menu, MenuEdit, MenuUndo, MenuRedo, MenuSave, MenuClearHistory,
           MenuTry, MouseClick, Checkout, Commit, Evaluate, Output, Autosave, Saves, NoSave
    <3>2. /\ dragging' \subseteq View
          /\ slaves' \subseteq Slave
      BY <2>2 DEF Next, KeyPress, ShortcutPress, Shortcut, PreEditPress, PreEditEnd,
           Suspend, Menu, MenuEdit, MenuUndo, MenuRedo, MenuSave, MenuClearHistory,
           MenuTry, MouseClick, Checkout, Commit, Evaluate, Output, Autosave
    <3> QED BY <3>1, <3>2
  <2> QED BY <2>1, <2>2
<1>3. IsWorld(hist) /\ MarkType /\ Rest => TypeOK
  BY DEF IsWorld, MarkType, TypeOK
<1> QED BY <1>1, <1>2, <1>3, PTL DEF Spec

-----------------------------------------------------------------------------
(***************************************************************************)
(* No archive is left with modifications that are not confirmed: whatever  *)
(* an event records, in whichever views, its end turns into items of the   *)
(* history, for any number of views, any documents, and any operations on  *)
(* patches.                                                                *)
(***************************************************************************)

(* What the operations on one archive do to its current modifications *)

LEMMA NothingIsEmpty == IsEmpty(NoPatch)
BY DEF IsEmpty, NoPatch, Compound, Children

(* Saved states, futures and the order of items are no modifications.      *)
LEMMA SavesKeepCurrent ==
  ASSUME NEW a, IsArchiver(a), NEW d
  PROVE  ForgetSaves(a, d).current = a.current /\ LoseSaves(a).current = a.current
BY DEF IsArchiver, IsArchiverRecord, ForgetSaves, LoseSaves

LEMMA NormalizeKeepsCurrent ==
  ASSUME NEW me, NEW a, IsArchiver(a)
  PROVE  Normalize(me, a).current = a.current
<1> DEFINE b == LoseSaves(a)
<1>1. IsArchiver(b) /\ b.current = a.current
  BY SavesKeepCurrent, LoseSavesShape
<1> DEFINE n == Len(a.past)
           s == FSplit(me, Top(a), a.redo[n])
           c == [b EXCEPT !.redo[n] = s.stay, !.redo[n + 1] = @ \o s.moved]
<1>2. Normalize(me, a) \in {a, c}
  BY DEF Normalize
<1> HIDE DEF b, s, n
<1>3. c.current = b.current
  BY <1>1 DEF IsArchiver, IsArchiverRecord
<1> HIDE DEF c
<1> QED BY <1>1, <1>2, <1>3

LEMMA ExposeKeepsCurrent ==
  ASSUME NEW me, NEW a, IsArchiver(a)
  PROVE  Expose(me, a).current = a.current
<1> DEFINE b   == LoseSaves(a)
           n   == Len(a.past)
           own == {i \in 1 .. n : GetAuthor(a.past[i]) = me}
           j   == Max(own)
           up[i \in j .. n] ==
             IF i = j THEN Swapped(a.past[j], NoPatch)
             ELSE LET c == up[i - 1]
                  IN  IF c.ok THEN PSwap(a.past[i], c.first) ELSE c
           fut[i \in j .. n] ==
             IF i = j THEN a.redo[j + 1]
             ELSE LET f == fut[i - 1]
                  IN  a.redo[i + 1] \o (IF f = <<>> THEN f ELSE FMake(me, a.past[i], f))
           P(i) == CASE i < j -> b.past[i]
                     [] i \in j .. n - 1 -> up[i + 1].second
                     [] i = n -> up[n].first
           R(i) == CASE i <= j -> b.redo[i]
                     [] i \in j + 1 .. n -> <<>>
                     [] i = n + 1 -> fut[n]
           p == [i \in 1 .. n |-> P(i)]
           r == [i \in 1 .. n + 1 |-> R(i)]
           c == [b EXCEPT !.past = p, !.redo = r]
<1>1. IsArchiver(b) /\ b.current = a.current
  BY SavesKeepCurrent, LoseSavesShape
<1>2. Expose(me, a) \in {a, b, c}
  BY Zenon DEF Expose
<1> HIDE DEF b, n, up, fut, j, P, R, p, r
<1>3. c.current = b.current
  BY <1>1 DEF IsArchiver, IsArchiverRecord
<1> HIDE DEF c
<1> QED BY <1>1, <1>2, <1>3

(* What has been confirmed is not current any more.                        *)
LEMMA ConfirmSettles ==
  ASSUME NEW me, NEW a, IsArchiver(a)
  PROVE  ~Active(Confirm(me, a))
<1> DEFINE p    == Authored(a.owner, PCompactify(a.current))
           push == [a EXCEPT !.past = Append(@, p), !.redo = Append(@, <<>>),
                             !.current = NoPatch, !.owner = NoAuthor,
                             !.depth = @ + 1]
           drop == [a EXCEPT !.current = NoPatch]
           done == Normalize(me, ForgetSaves(push, push.depth))
<1>1. Confirm(me, a) \in {drop, done} \/ (Confirm(me, a) = a /\ ~Active(a))
  BY DEF Confirm
<1>2. drop.current = NoPatch /\ push.current = NoPatch
  BY DEF IsArchiver, IsArchiverRecord
<1>3. IsArchiver(push)
  <2>1. /\ IsArchiverRecord(push)
        /\ push.past = Append(a.past, p)
        /\ push.redo = Append(a.redo, <<>>)
        /\ push.depth = a.depth + 1
    BY DEF IsArchiver, IsArchiverRecord
  <2>2. IsSeq(push.past) /\ Len(push.past) = Len(a.past) + 1
    BY <2>1, AppendIsSeq DEF IsArchiver
  <2>3. IsSeq(push.redo) /\ Len(push.redo) = Len(a.redo) + 1
    BY <2>1, AppendIsSeq DEF IsArchiver
  <2> QED BY <2>1, <2>2, <2>3, ArchiverLengths DEF IsArchiver, Shape
<1> HIDE DEF push, drop
<1>4. done.current = NoPatch
  <2> DEFINE f == ForgetSaves(push, push.depth)
  <2>1. IsArchiver(f) /\ f.current = NoPatch
    BY <1>2, <1>3, SavesKeepCurrent, ForgetSavesShape
  <2> HIDE DEF f
  <2>2. Normalize(me, f).current = NoPatch
    BY <2>1, NormalizeKeepsCurrent
  <2> QED BY <2>2 DEF f
<1> HIDE DEF done
<1> QED BY <1>1, <1>2, <1>4, NothingIsEmpty DEF Active

(* Joining items makes nothing current.                                    *)
IsSettling(s) == IsSimplified(s) /\ ~Active(s.a)

SettleProofs ==
  INSTANCE IterationProofs WITH Step <- SimplifyOnce, Inv <- IsSettling

LEMMA SimplifySettled ==
  ASSUME NEW a, IsArchiver(a), ~Active(a), NEW doc
  PROVE  ~Active(Simplify(a, doc))
<1> DEFINE x == [a |-> a, doc |-> doc]
<1>1. IsSettling(x)
  BY DEF IsSettling, IsSimplified
<1>2. ASSUME NEW s, IsSettling(s) PROVE IsSettling(SimplifyOnce(s))
  <2> DEFINE b == s.a
             n == Len(b.past)
             r == PJoin(b.past[n], b.past[n - 1], s.doc)
             c == [b EXCEPT !.past = Replace(Below(@), r.p),
                            !.redo = Replace(Below(@), RedoTop(b)),
                            !.last_autosave = IF b.depth = @ + 1 THEN NotSaved ELSE @,
                            !.depth = @ - 1]
  <2>1. SimplifyOnce(s) = s \/ SimplifyOnce(s) = [s EXCEPT !.a = c]
    BY DEF SimplifyOnce
  <2>2. IsArchiver(b) /\ ~Active(b) /\ DOMAIN s = {"a", "doc"}
    BY <1>2 DEF IsSettling, IsSimplified
  <2>3. c.current = b.current
    <3> HIDE DEF b, r
    <3> QED BY <2>2 DEF IsArchiver, IsArchiverRecord
  <2> HIDE DEF c
  <2>4. [s EXCEPT !.a = c].a = c
    BY <2>2
  <2>5. ~Active(SimplifyOnce(s).a)
    BY <2>1, <2>2, <2>3, <2>4 DEF Active
  <2> QED BY <1>2, <2>5, SimplifyOnceShape DEF IsSettling
<1> HIDE DEF x
<1>3. IsSettling(SettleProofs!Iterate(x, Len(a.past)))
  BY <1>1, <1>2, SettleProofs!IterateKeeps
<1>4. SettleProofs!Iterate(x, Len(a.past)) = SimplifyLoop!Iterate(x, Len(a.past))
  BY DEF SettleProofs!Iterate, SimplifyLoop!Iterate
<1> QED BY <1>3, <1>4 DEF IsSettling, Simplify, x

(* Reopening an item gives current modifications only when it succeeds.    *)
LEMMA RetractFails ==
  ASSUME NEW me, NEW a, IsArchiver(a), ~CanRetract(me, a)
  PROVE  Retract(me, a).current = a.current
<1>1. Retract(me, a) \in {a, Expose(me, a)}
  BY DEF Retract
<1> QED BY <1>1, ExposeKeepsCurrent

-----------------------------------------------------------------------------
(* Between the steps of an event *)

(* Who has current modifications, other than v, waits to be confirmed.     *)
AwaitsBut(w, v) ==
  IsWorld(w) /\ \A u \in View \ {v} : Active(w.arch[u]) => u \in w.pending

(* Who has current modifications waits to be confirmed.                    *)
Awaits(w) == IsWorld(w) /\ \A u \in View : Active(w.arch[u]) => u \in w.pending

(* All views wait to be confirmed.                                         *)
AllAwait(w) == IsWorld(w) /\ View \subseteq w.pending

(* No view has current modifications, and none waits.                      *)
Settled(w) == IsWorld(w) /\ w.pending = {} /\ \A u \in View : ~Active(w.arch[u])

LEMMA AwaitsWeaker ==
  ASSUME NEW w
  PROVE  /\ Settled(w) => Awaits(w)
         /\ AllAwait(w) => Awaits(w)
         /\ Awaits(w) => IsWorld(w) /\ \A v : AwaitsBut(w, v)
BY DEF Settled, AllAwait, Awaits, AwaitsBut

(* The archive of v is replaced.                                           *)
LEMMA UpdateParts ==
  ASSUME NEW w, IsWorld(w), NEW v \in View, NEW a
  PROVE  /\ Update(w, v, a).pending = w.pending
         /\ Update(w, v, a).arch[v] = a
         /\ \A u \in View \ {v} : Update(w, v, a).arch[u] = w.arch[u]
BY DEF IsWorld, Update

LEMMA UpdateBut ==
  ASSUME NEW w, NEW v \in View, AwaitsBut(w, v), NEW a, IsWorld(Update(w, v, a))
  PROVE  AwaitsBut(Update(w, v, a), v)
<1>1. IsWorld(w)
  BY DEF AwaitsBut
<1> QED BY <1>1, UpdateParts DEF AwaitsBut

(* ... by one that has current modifications only when v waits.            *)
LEMMA UpdateAwaits ==
  ASSUME NEW w, NEW v \in View, AwaitsBut(w, v), NEW a, IsWorld(Update(w, v, a)),
         Active(a) => v \in w.pending
  PROVE  Awaits(Update(w, v, a))
<1>1. IsWorld(w)
  BY DEF AwaitsBut
<1> QED BY <1>1, UpdateParts DEF AwaitsBut, Awaits

(* A failed assertion changes no archive, and who waits goes on waiting.   *)
LEMMA FailParts ==
  ASSUME NEW w, IsWorld(w), NEW msg
  PROVE  Fail(w, msg).pending = w.pending
BY DEF Fail, IsWorld

LEMMA FailAwaits ==
  ASSUME NEW w, Awaits(w), NEW msg
  PROVE  Awaits(Fail(w, msg))
BY FailWorld, FailParts DEF Awaits

LEMMA FailBut ==
  ASSUME NEW w, NEW v, AwaitsBut(w, v), NEW msg
  PROVE  AwaitsBut(Fail(w, msg), v)
BY FailWorld, FailParts DEF AwaitsBut

(* Who records a modification waits.                                       *)
LEMMA ModifyParts ==
  ASSUME NEW w, IsWorld(w), NEW S, NEW m
  PROVE  /\ w.pending \subseteq Modify(w, S, m).pending
         /\ \A u \in View : \/ u \in Modify(w, S, m).pending
                            \/ Modify(w, S, m).arch[u] = w.arch[u]
         /\ ~(m.k = "assign" /\ m = InvertMod(m, w.doc)) => S \subseteq Modify(w, S, m).pending
<1> DEFINE q == ModPatch(InvertMod(m, w.doc), m)
           R == IF m.k = "assign" /\ m = q.mod THEN {} ELSE S
           f == [v \in View |-> IF v \in R THEN AddPatch(v, w.author, w.arch[v], q)
                                ELSE w.arch[v]]
           d == CleanApply(w.doc, m)
           x == [w EXCEPT !.doc = d, !.arch = f, !.pending = @ \cup R]
<1>1. Modify(w, S, m) = x
  BY DEF Modify
<1>2. q.mod = InvertMod(m, w.doc)
  BY DEF ModPatch
<1>3. ~(m.k = "assign" /\ m = InvertMod(m, w.doc)) => R = S
  BY <1>2
<1>4. \A u \in View : u \notin R => f[u] = w.arch[u]
  OBVIOUS
<1> HIDE DEF R, f, d
<1>5. x.pending = w.pending \cup R /\ x.arch = f
  BY DEF IsWorld
<1> HIDE DEF x
<1> QED BY <1>1, <1>3, <1>4, <1>5

LEMMA ModifyAwaits ==
  ASSUME NEW w, NEW S, NEW m
  PROVE  /\ Awaits(w) => Awaits(Modify(w, S, m))
         /\ \A v : AwaitsBut(w, v) => AwaitsBut(Modify(w, S, m), v)
<1> DEFINE x == Modify(w, S, m)
<1>1. IsWorld(w) => /\ IsWorld(x) /\ w.pending \subseteq x.pending
                    /\ \A u \in View : u \in x.pending \/ x.arch[u] = w.arch[u]
  BY ModifyWorld, ModifyParts
<1> HIDE DEF x
<1>2. Awaits(w) => Awaits(x)
  BY <1>1 DEF Awaits
<1>3. \A v : AwaitsBut(w, v) => AwaitsBut(x, v)
  BY <1>1 DEF AwaitsBut
<1> QED BY <1>2, <1>3 DEF x

(* Applying a patch: who applies it records nothing, the others wait.      *)
LEMMA ApplyFirstAwaits ==
  ASSUME NEW s, IsApplying(s), NEW v \in View, s.v = v, AwaitsBut(s.w, v)
  PROVE  LET r == ApplyFirst(s)
         IN  /\ IsApplying(r) /\ r.v = v /\ AwaitsBut(r.w, v)
             /\ s.w.pending \subseteq r.w.pending
<1> DEFINE u == Modify(s.w, View \ {s.v}, Head(s.ms))
           y == [s EXCEPT !.w = u, !.ms = Tail(@)]
<1>1. IsWorld(s.w)
  BY DEF IsApplying
<1>2. IsWorld(u) /\ AwaitsBut(u, v) /\ s.w.pending \subseteq u.pending
  BY <1>1, ModifyWorld, ModifyAwaits, ModifyParts
<1>3. ApplyFirst(s) = y
  BY DEF ApplyFirst
<1> HIDE DEF u
<1>4. DOMAIN y = DOMAIN s /\ y.v = s.v /\ y.w = u
  BY DEF IsApplying
<1> HIDE DEF y
<1>5. IsApplying(y)
  BY <1>2, <1>4 DEF IsApplying
<1> QED BY <1>2, <1>3, <1>4, <1>5

LEMMA ApplyAwaits ==
  ASSUME NEW w, NEW v \in View, AwaitsBut(w, v), NEW p
  PROVE  AwaitsBut(Apply(w, v, p), v) /\ w.pending \subseteq Apply(w, v, p).pending
<1> DEFINE N == Len(PMods(p))
           x == [w |-> w, v |-> v, ms |-> PMods(p)]
           Good(s) == /\ IsApplying(s) /\ s.v = v /\ AwaitsBut(s.w, v)
                      /\ w.pending \subseteq s.w.pending
           e == ApplyLoop!Iterate(x, N)
<1>0. IsWorld(w)
  BY DEF AwaitsBut
<1>1. Good(x)
  BY <1>0 DEF IsApplying
<1>2. ASSUME NEW s, Good(s) PROVE Good(ApplyFirst(s))
  BY <1>2, ApplyFirstAwaits
<1> HIDE DEF Good, x
<1>3. Good(e)
  <2>1. CASE N \notin Nat
    BY <1>1, <2>1 DEF ApplyLoop!Iterate
  <2>2. CASE N \in Nat
    <3> DEFINE run == CHOOSE f : ApplyProofs!Runs(x, N, f)
               Bad == {n \in 0 .. N : ~Good(run[n])}
    <3>1. ApplyProofs!Runs(x, N, run)
      BY <2>2, ApplyProofs!RunExists
    <3>2. e = run[N]
      BY <2>2 DEF ApplyLoop!Iterate, ApplyProofs!Runs
    <3> HIDE DEF run
    <3>3. ASSUME Bad # {} PROVE FALSE
      <4>0. Bad \in SUBSET Nat
        OBVIOUS
      <4>1. PICK n \in Bad : \A m \in Bad : n <= m
        <5> HIDE DEF Bad
        <5> QED BY <3>3, <4>0, ApplyProofs!LeastNat
      <4>2. n # 0
        BY <1>1, <3>1, <4>1 DEF ApplyProofs!Runs
      <4>3. n - 1 \in 0 .. N /\ Good(run[n - 1])
        BY <4>1, <4>2
      <4>4. run[n] = ApplyFirst(run[n - 1])
        BY <4>1, <4>2, <3>1 DEF ApplyProofs!Runs
      <4> QED BY <1>2, <4>1, <4>3, <4>4
    <3> QED BY <2>2, <3>2, <3>3
  <2> QED BY <2>1, <2>2
<1>4. Apply(w, v, p) \in {e.w, Fail(w, "invalid history")}
  BY DEF Apply, x
<1> HIDE DEF e
<1>5. AwaitsBut(e.w, v) /\ w.pending \subseteq e.w.pending
  BY <1>3 DEF Good
<1>6. /\ AwaitsBut(Fail(w, "invalid history"), v)
      /\ Fail(w, "invalid history").pending = w.pending
  BY <1>0, FailParts, FailBut
<1> QED BY <1>4, <1>5, <1>6

-----------------------------------------------------------------------------
(* The operations on the whole history *)

(* The current modifications of v are dropped.                             *)
Dropped(w, v) ==
  [w EXCEPT !.arch[v].current = NoPatch, !.arch[v].owner = NoAuthor]

LEMMA DroppedParts ==
  ASSUME NEW w, IsWorld(w), NEW v \in View
  PROVE  /\ Dropped(w, v).pending = w.pending
         /\ Dropped(w, v).arch[v].current = NoPatch
         /\ \A u \in View \ {v} : Dropped(w, v).arch[u] = w.arch[u]
<1>1. DOMAIN w.arch[v] = {"past", "redo", "current", "owner", "depth",
                          "last_save", "last_autosave"}
  BY DEF IsWorld, IsArchiver, IsArchiverRecord
<1> QED BY <1>1 DEF IsWorld, Dropped

(* What is cancelled is not current any more.                              *)
LEMMA CancelAwaits ==
  ASSUME NEW w, NEW v \in View, AwaitsBut(w, v)
  PROVE  Awaits(Cancel(w, v))
<1> DEFINE u == Apply(w, v, w.arch[v].current)
           x == Dropped(u, v)
<1>1. IsWorld(w)
  BY DEF AwaitsBut
<1>2. IsWorld(u) /\ AwaitsBut(u, v)
  BY <1>1, ApplyWorld, ApplyAwaits
<1>3. CASE ~Active(w.arch[v])
  BY <1>1, <1>3 DEF Cancel, AwaitsBut, Awaits
<1>4. CASE Active(w.arch[v])
  <2>1. Cancel(w, v) = x
    BY <1>4 DEF Cancel, Dropped
  <2> HIDE DEF u
  <2>2. /\ x.pending = u.pending /\ x.arch[v].current = NoPatch
        /\ \A y \in View \ {v} : x.arch[y] = u.arch[y]
    BY <1>2, DroppedParts
  <2>4. IsWorld(x)
    BY <1>2, CurrentWorld DEF Dropped
  <2> HIDE DEF x
  <2>3. ~Active(x.arch[v])
    BY <2>2, NothingIsEmpty DEF Active
  <2> QED BY <1>2, <2>1, <2>2, <2>3, <2>4 DEF AwaitsBut, Awaits
<1> QED BY <1>3, <1>4

(* Undoing an item and forgetting it.                                      *)
LEMMA ForgetAwaits ==
  ASSUME NEW w, NEW v \in View, Awaits(w)
  PROVE  Awaits(Forget(w, v))
<1> DEFINE u == Cancel(w, v)
           a == Retract(v, u.arch[v])
           x == Update(u, v, a)
<1>1. AwaitsBut(w, v)
  BY AwaitsWeaker
<1>2. Awaits(u) /\ IsWorld(u)
  BY <1>1, CancelAwaits DEF Awaits
<1>3. Forget(w, v) = IF CanRetract(v, u.arch[v]) THEN Cancel(x, v) ELSE x
  BY DEF Forget
<1> HIDE DEF u
<1>4. AwaitsBut(u, v)
  BY <1>2, AwaitsWeaker
<1>5. IsArchiver(u.arch[v])
  BY <1>2 DEF IsWorld
<1>6. IsArchiver(a)
  BY <1>5, RetractShape
<1>7. ~CanRetract(v, u.arch[v]) => a.current = u.arch[v].current
  BY <1>5, RetractFails
<1> HIDE DEF a
<1>8. IsWorld(x)
  BY <1>2, <1>6, UpdateWorld
<1>9. AwaitsBut(x, v)
  BY <1>4, <1>8, UpdateBut
<1>10. Awaits(Cancel(x, v))
  BY <1>9, CancelAwaits
<1>11. CASE ~CanRetract(v, u.arch[v])
  <2>1. Active(a) => v \in u.pending
    BY <1>2, <1>7, <1>11 DEF Awaits, Active
  <2>2. Awaits(x)
    BY <1>4, <1>8, <2>1, UpdateAwaits
  <2> QED BY <1>3, <1>11, <2>2
<1> QED BY <1>3, <1>10, <1>11

-----------------------------------------------------------------------------
(* Undo and redo *)

(* The archive of v gets another past and other futures.                   *)
LEMMA SameCurrent ==
  ASSUME NEW w, NEW v \in View, Awaits(w), NEW u, AwaitsBut(u, v),
         w.pending \subseteq u.pending, NEW a, a.current = w.arch[v].current,
         IsWorld(Update(u, v, a))
  PROVE  Awaits(Update(u, v, a))
<1>1. Active(a) => v \in u.pending
  BY DEF Awaits, Active
<1> QED BY <1>1, UpdateAwaits

LEMMA ExposeAwaits ==
  ASSUME NEW w, NEW v \in View, Awaits(w)
  PROVE  Awaits(Update(w, v, Expose(v, w.arch[v])))
<1> DEFINE a == Expose(v, w.arch[v])
<1>1. IsWorld(w) /\ AwaitsBut(w, v)
  BY AwaitsWeaker
<1>2. IsArchiver(w.arch[v])
  BY <1>1 DEF IsWorld
<1>3. IsArchiver(a) /\ a.current = w.arch[v].current
  BY <1>2, ExposeShape, ExposeKeepsCurrent
<1> HIDE DEF a
<1>4. IsWorld(Update(w, v, a))
  BY <1>1, <1>3, UpdateWorld
<1>5. Awaits(Update(w, v, a))
  BY <1>1, <1>3, <1>4, SameCurrent
<1> QED BY <1>5 DEF a

LEMMA UndoOneAwaits ==
  ASSUME NEW w, NEW v \in View, Awaits(w), HasHistory(w.arch[v])
  PROVE  Awaits(UndoOne(w, v))
<1> DEFINE a  == w.arch[v]
           p  == Top(a)
           u  == Apply(w, v, p)
           re == Branches(p, RedoTop(a), a.redo[Len(a.past)])
           c  == [a EXCEPT !.past = Below(@), !.redo = Replace(Below(@), re),
                           !.depth = @ - 1]
<1>1. IsWorld(w) /\ AwaitsBut(w, v)
  BY AwaitsWeaker
<1>2. AwaitsBut(u, v) /\ w.pending \subseteq u.pending
  BY <1>1, ApplyAwaits
<1>3. IsWorld(UndoOne(w, v))
  BY <1>1, UndoOneWorld
<1>4. UndoOne(w, v) \in {Fail(w, "history corrupted"), Update(u, v, c)}
  BY DEF UndoOne
<1>5. IsArchiver(a)
  BY <1>1 DEF IsWorld
<1> HIDE DEF u, re
<1>6. c.current = w.arch[v].current
  BY <1>5 DEF IsArchiver, IsArchiverRecord
<1> HIDE DEF c
<1>7. UndoOne(w, v) = Update(u, v, c) => Awaits(UndoOne(w, v))
  BY <1>2, <1>3, <1>6, SameCurrent
<1> QED BY <1>4, <1>7, FailAwaits

(* The state of the loop of undo.                                          *)
IsUndoingCalmly(s) == IsUndoing(s) /\ Awaits(s.w)

CalmUndo ==
  INSTANCE IterationProofs WITH Step <- UndoRound, Inv <- IsUndoingCalmly

LEMMA UndoAwaits ==
  ASSUME NEW w, NEW v \in View, Awaits(w)
  PROVE  Awaits(Undo(w, v))
<1> DEFINE start == [w |-> w, v |-> v, go |-> ~Active(w.arch[v])]
<1>1. IsUndoingCalmly(start)
  BY DEF IsUndoing, IsUndoingCalmly, Awaits
<1>2. ASSUME NEW s, IsUndoingCalmly(s) PROVE IsUndoingCalmly(UndoRound(s))
  <2> DEFINE x == Update(s.w, s.v, Expose(s.v, s.w.arch[s.v]))
             u == UndoOne(x, s.v)
             g == u.failed = "" /\ GetAuthor(Top(x.arch[s.v])) # s.v
             y == [s EXCEPT !.w = u, !.go = g]
             z == [s EXCEPT !.go = FALSE]
  <2>0. IsUndoing(s) /\ Awaits(s.w) /\ s.v \in View /\ IsWorld(s.w)
    BY <1>2 DEF IsUndoing, IsUndoingCalmly
  <2>1. UndoRound(s) = z \/ (HasHistory(s.w.arch[s.v]) /\ UndoRound(s) = y)
    BY DEF UndoRound
  <2>2. IsUndoingCalmly(z)
    <3>1. DOMAIN z = DOMAIN s /\ z.w = s.w /\ z.v = s.v
      BY <2>0 DEF IsUndoing
    <3> HIDE DEF z
    <3> QED BY <2>0, <3>1 DEF IsUndoing, IsUndoingCalmly
  <2>3. ASSUME HasHistory(s.w.arch[s.v]) PROVE IsUndoingCalmly(y)
    <3>1. /\ IsArchiver(Expose(s.v, s.w.arch[s.v]))
          /\ HasHistory(Expose(s.v, s.w.arch[s.v]))
      BY <2>0, <2>3, ExposeShape DEF IsWorld, HasHistory
    <3>2. Awaits(x) /\ HasHistory(x.arch[s.v])
      BY <2>0, <3>1, UpdateWorld, ExposeAwaits
    <3> HIDE DEF x
    <3>3. Awaits(u) /\ IsWorld(u)
      BY <2>0, <3>2, UndoOneAwaits DEF Awaits
    <3> HIDE DEF u, g
    <3>4. DOMAIN y = DOMAIN s /\ y.w = u /\ y.v = s.v
      BY <2>0 DEF IsUndoing
    <3> HIDE DEF y
    <3> QED BY <2>0, <3>3, <3>4 DEF IsUndoing, IsUndoingCalmly
  <2> HIDE DEF y, z
  <2> QED BY <2>1, <2>2, <2>3
<1> HIDE DEF start
<1> DEFINE end == CalmUndo!Iterate(start, MaxRounds)
<1>3. IsUndoingCalmly(end)
  BY <1>1, <1>2, CalmUndo!IterateKeeps
<1>4. end = UndoLoop!Iterate(start, MaxRounds)
  BY DEF CalmUndo!Iterate, UndoLoop!Iterate
<1> HIDE DEF end
<1>5. Undo(w, v) \in {end.w, Fail(end.w, "undo does not end")}
  BY <1>4 DEF Undo, Ended, start
<1> QED BY <1>3, <1>5, FailAwaits DEF IsUndoingCalmly

(* An item of the redo branch comes back.                                  *)
LEMMA RedoOneAwaits ==
  ASSUME NEW w, NEW v \in View, Awaits(w), NEW i
  PROVE  Awaits(RedoOne(w, v, i))
<1> DEFINE a    == w.arch[v]
           re   == RedoTop(a)
           p    == re[i].p
           q    == PInvert(p)
           f    == re[i].f
           rest == SubSeq(re, 1, i - 1) \o SubSeq(re, i + 1, Len(re))
           u    == Apply(w, v, p)
           b    == [a EXCEPT !.past = Append(@, q),
                             !.redo = Append(Replace(@, rest), f),
                             !.depth = @ + 1]
           d    == IF i = 1 THEN b ELSE ForgetSaves(b, a.depth)
           c    == Normalize(v, d)
<1>1. IsWorld(w) /\ AwaitsBut(w, v)
  BY AwaitsWeaker
<1>2. AwaitsBut(u, v) /\ w.pending \subseteq u.pending
  BY <1>1, ApplyAwaits
<1>3. IsWorld(RedoOne(w, v, i))
  BY <1>1, RedoOneWorld
<1>4. RedoOne(w, v, i) \in {Fail(w, "future corrupted"), Update(u, v, c)}
  BY DEF RedoOne
<1>5. IsArchiver(a)
  BY <1>1 DEF IsWorld
<1> HIDE DEF u, q, f, rest
<1>6. IsArchiver(b) /\ b.current = a.current
  <2> HIDE DEF a
  <2>1. /\ IsArchiverRecord(b) /\ b.past = Append(a.past, q)
        /\ b.redo = Append(Replace(a.redo, rest), f) /\ b.depth = a.depth + 1
        /\ b.current = a.current
    BY <1>5 DEF IsArchiver, IsArchiverRecord
  <2>2. Len(a.past) \in Nat /\ Len(a.redo) = Len(a.past) + 1 /\ Len(a.redo) # 0
    BY <1>5, ArchiverLengths
  <2>3. IsSeq(Append(a.past, q)) /\ Len(Append(a.past, q)) = Len(a.past) + 1
    BY <1>5, AppendIsSeq DEF IsArchiver
  <2>4. IsSeq(Replace(a.redo, rest)) /\ Len(Replace(a.redo, rest)) = Len(a.redo)
    BY <1>5, <2>2, ReplaceIsSeq DEF IsArchiver
  <2>5. /\ IsSeq(Append(Replace(a.redo, rest), f))
        /\ Len(Append(Replace(a.redo, rest), f)) = Len(a.redo) + 1
    BY <2>4, AppendIsSeq
  <2> HIDE DEF b
  <2> QED BY <1>5, <2>1, <2>2, <2>3, <2>5 DEF IsArchiver, Shape
<1> HIDE DEF b
<1>7. IsArchiver(d) /\ d.current = b.current
  BY <1>6, ForgetSavesShape, SavesKeepCurrent
<1> HIDE DEF d
<1>8. c.current = w.arch[v].current
  BY <1>6, <1>7, NormalizeKeepsCurrent
<1> HIDE DEF c
<1>9. RedoOne(w, v, i) = Update(u, v, c) => Awaits(RedoOne(w, v, i))
  BY <1>2, <1>3, <1>8, SameCurrent
<1> QED BY <1>4, <1>9, FailAwaits

(* The state of the loop of redo.                                          *)
IsRedoingCalmly(s) == IsRedoing(s) /\ Awaits(s.w)

CalmRedo ==
  INSTANCE IterationProofs WITH Step <- RedoRound, Inv <- IsRedoingCalmly

LEMMA RedoAwaits ==
  ASSUME NEW w, NEW v \in View, Awaits(w), NEW i
  PROVE  Awaits(Redo(w, v, i))
<1> DEFINE start == [w |-> w, v |-> v, i |-> i, first |-> TRUE,
                     go |-> ~Active(w.arch[v])]
<1>1. IsRedoingCalmly(start)
  BY DEF IsRedoing, IsRedoingCalmly, Awaits
<1>2. ASSUME NEW s, IsRedoingCalmly(s) PROVE IsRedoingCalmly(RedoRound(s))
  <2> DEFINE x    == RedoOne(s.w, s.v, s.i)
             done == GetAuthor(RedoTop(s.w.arch[s.v])[s.i].p) = s.v
             next == RedoTop(x.arch[s.v])
             who  == GetAuthor(next[1].p)
             g    == /\ x.failed = ""
                     /\ ~(done /\ ~s.first)
                     /\ Len(next) = 1
                     /\ who # s.v
                     /\ ~(done /\ who \in View)
             y    == [s EXCEPT !.w = x, !.i = 1, !.first = FALSE, !.go = g]
             z    == [s EXCEPT !.go = FALSE]
  <2>0. IsRedoing(s) /\ Awaits(s.w) /\ s.v \in View
    BY <1>2 DEF IsRedoing, IsRedoingCalmly
  <2>1. RedoRound(s) \in {y, z}
    BY DEF RedoRound
  <2>2. Awaits(x) /\ IsWorld(x)
    BY <2>0, RedoOneAwaits DEF Awaits
  <2> HIDE DEF x, g
  <2>3. IsRedoingCalmly(z)
    <3>1. DOMAIN z = DOMAIN s /\ z.w = s.w /\ z.v = s.v
      BY <2>0 DEF IsRedoing
    <3> HIDE DEF z
    <3> QED BY <2>0, <3>1 DEF IsRedoing, IsRedoingCalmly
  <2>4. IsRedoingCalmly(y)
    <3>1. DOMAIN y = DOMAIN s /\ y.w = x /\ y.v = s.v
      BY <2>0 DEF IsRedoing
    <3> HIDE DEF y
    <3> QED BY <2>0, <2>2, <3>1 DEF IsRedoing, IsRedoingCalmly
  <2> HIDE DEF y, z
  <2> QED BY <2>1, <2>3, <2>4
<1> HIDE DEF start
<1> DEFINE end == CalmRedo!Iterate(start, MaxRounds)
<1>3. IsRedoingCalmly(end)
  BY <1>1, <1>2, CalmRedo!IterateKeeps
<1>4. end = RedoLoop!Iterate(start, MaxRounds)
  BY DEF CalmRedo!Iterate, RedoLoop!Iterate
<1> HIDE DEF end
<1>5. Redo(w, v, i) \in {end.w, Fail(end.w, "redo does not end")}
  BY <1>4 DEF Redo, Ended, start
<1> QED BY <1>3, <1>5, FailAwaits DEF IsRedoingCalmly

-----------------------------------------------------------------------------
(* Markers *)

(* Removing a marker leaves the modifications that are not confirmed.      *)
LEMMA RemoveMarkerAwaits ==
  ASSUME NEW w, NEW v \in View, Awaits(w), NEW m
  PROVE  Awaits(RemoveMarker(w, v, m)) /\ RemoveMarker(w, v, m).pending = w.pending
<1> DEFINE a  == w.arch[v]
           at == {i \in DOMAIN a.past : PIsMarker(a.past[i], m, FALSE)}
           j  == Max(at)
           p  == SubSeq(a.past, 1, j - 1) \o SubSeq(a.past, j + 1, Len(a.past))
           r  == SubSeq(a.redo, 1, (j + 1) - 1) \o
                 SubSeq(a.redo, (j + 1) + 1, Len(a.redo))
           c  == [a EXCEPT !.past = p, !.redo = r, !.depth = @ - 1]
           F(msg) == Fail(w, msg)
<1>1. IsWorld(w) /\ AwaitsBut(w, v) /\ IsWorld(RemoveMarker(w, v, m))
  BY AwaitsWeaker, RemoveMarkerWorld
<1>2. RemoveMarker(w, v, m) \in {F("marker not found"), F("cannot remove marker"),
                                 Update(w, v, c)}
  BY DEF RemoveMarker
<1>3. IsArchiver(a)
  BY <1>1 DEF IsWorld
<1> HIDE DEF p, r
<1>4. c.current = w.arch[v].current
  BY <1>3 DEF IsArchiver, IsArchiverRecord
<1> HIDE DEF c
<1>5. RemoveMarker(w, v, m) = Update(w, v, c) => Awaits(RemoveMarker(w, v, m))
  BY <1>1, <1>4, SameCurrent
<1>6. Update(w, v, c).pending = w.pending
  BY <1>1, UpdateParts
<1>7. ASSUME NEW msg PROVE Awaits(F(msg)) /\ F(msg).pending = w.pending
  BY <1>1, FailAwaits, FailParts
<1> HIDE DEF F
<1> QED BY <1>2, <1>5, <1>6, <1>7

(* Ending a block.                                                         *)
LEMMA MarkEndAwaits ==
  ASSUME NEW w, NEW v \in View, Awaits(w), NEW m
  PROVE  Awaits(MarkEnd(w, v, m)) /\ MarkEnd(w, v, m).pending = w.pending
<1> DEFINE x == RemoveMarker(w, v, m)
           a == IF x.failed = "" THEN Simplify(x.arch[v], x.doc) ELSE x.arch[v]
<1>1. IsWorld(w) /\ IsWorld(MarkEnd(w, v, m))
  BY AwaitsWeaker, MarkEndWorld
<1>2. Awaits(x) /\ AwaitsBut(x, v) /\ IsWorld(x) /\ x.pending = w.pending
  BY RemoveMarkerAwaits, AwaitsWeaker
<1>3. MarkEnd(w, v, m) = Update(x, v, a)
  BY DEF MarkEnd
<1> HIDE DEF x
<1>4. Active(a) => Active(x.arch[v])
  BY <1>2, SimplifySettled DEF IsWorld
<1> HIDE DEF a
<1>5. Active(a) => v \in x.pending
  BY <1>2, <1>4 DEF Awaits
<1>6. Awaits(Update(x, v, a))
  BY <1>1, <1>2, <1>3, <1>5, UpdateAwaits
<1>7. Update(x, v, a).pending = x.pending
  BY <1>2, UpdateParts
<1> QED BY <1>2, <1>3, <1>6, <1>7

(* Starting a block confirms what came before it, and its marker.          *)
LEMMA ConfirmAwaits ==
  ASSUME NEW w, NEW v \in View, AwaitsBut(w, v)
  PROVE  Awaits(Update(w, v, Confirm(v, w.arch[v])))
<1> DEFINE a == Confirm(v, w.arch[v])
<1>1. IsWorld(w)
  BY DEF AwaitsBut
<1>2. IsArchiver(w.arch[v])
  BY <1>1 DEF IsWorld
<1>3. IsArchiver(a) /\ ~Active(a)
  BY <1>2, ConfirmShape, ConfirmSettles
<1> HIDE DEF a
<1>4. IsWorld(Update(w, v, a))
  BY <1>1, <1>3, UpdateWorld
<1>5. Awaits(Update(w, v, a))
  BY <1>3, <1>4, UpdateAwaits
<1> QED BY <1>5 DEF a

LEMMA StartSlaveAwaits ==
  ASSUME NEW w, NEW v \in View, IsWorld(w), NEW s
  PROVE  /\ AwaitsBut(w, v) => AwaitsBut(StartSlave(w, v, s), v)
         /\ StartSlave(w, v, s).pending = w.pending
<1> DEFINE a == AddPatch(v, w.author, w.arch[v], Birth(s, FALSE))
<1>1. StartSlave(w, v, s) = Update(w, v, a)
  BY DEF StartSlave
<1>2. IsWorld(Update(w, v, a))
  BY <1>1, StartSlaveWorld
<1> HIDE DEF a
<1>3. Update(w, v, a).pending = w.pending
  BY UpdateParts
<1>4. AwaitsBut(w, v) => AwaitsBut(Update(w, v, a), v)
  BY <1>2, UpdateBut
<1> QED BY <1>1, <1>3, <1>4

LEMMA MarkStartAwaits ==
  ASSUME NEW w, NEW v \in View, Awaits(w), NEW m
  PROVE  Awaits(MarkStart(w, v, m))
<1> DEFINE y == Update(w, v, Confirm(v, w.arch[v]))
           x == StartSlave(y, v, m)
<1>1. MarkStart(w, v, m) = Update(x, v, Confirm(v, x.arch[v]))
  BY DEF MarkStart
<1>2. Awaits(y)
  BY AwaitsWeaker, ConfirmAwaits
<1> HIDE DEF y
<1>3. AwaitsBut(x, v)
  BY <1>2, AwaitsWeaker, StartSlaveAwaits
<1> HIDE DEF x
<1> QED BY <1>1, <1>3, ConfirmAwaits

(* The state of the loop of mark_cancel.                                   *)
IsCancellingCalmly(s) == IsCancelling(s) /\ Awaits(s.w)

CalmCancel ==
  INSTANCE IterationProofs WITH Step <- CancelRound, Inv <- IsCancellingCalmly

(* What a round reopens, it cancels.                                       *)
LEMMA CancelRoundAwaits ==
  ASSUME NEW s, IsCancellingCalmly(s)
  PROVE  IsCancellingCalmly(CancelRound(s))
<1> DEFINE v == s.v
           x == Update(s.w, v, Expose(v, s.w.arch[v]))
           c == Cancel(Update(x, v, Retract(v, x.arch[v])), v)
           Stop(w, ok) == [s EXCEPT !.w = w, !.ok = ok, !.go = FALSE]
           y == [s EXCEPT !.w = c]
<1>0. IsCancelling(s) /\ Awaits(s.w) /\ v \in View
  BY DEF IsCancelling, IsCancellingCalmly
<1>1. IsCancelling(CancelRound(s))
  BY <1>0, CancelRoundWorld
<1>2. CancelRound(s) \in {s, Stop(s.w, FALSE), Stop(MarkEnd(x, v, s.m), TRUE),
                         Stop(RemoveMarker(x, v, s.m), FALSE), y}
  BY DEF CancelRound
<1> HIDE DEF v
<1>3. Awaits(x) /\ IsWorld(x)
  BY <1>0, ExposeAwaits DEF Awaits
<1> HIDE DEF x
<1>4. Awaits(c)
  <2> DEFINE a == Retract(v, x.arch[v])
  <2>1. IsArchiver(a)
    BY <1>0, <1>3, RetractShape DEF IsWorld
  <2> HIDE DEF a
  <2>2. IsWorld(Update(x, v, a)) /\ AwaitsBut(x, v)
    BY <1>0, <1>3, <2>1, UpdateWorld, AwaitsWeaker
  <2>3. AwaitsBut(Update(x, v, a), v)
    BY <1>0, <2>2, UpdateBut
  <2>4. Awaits(Cancel(Update(x, v, a), v))
    BY <1>0, <2>3, CancelAwaits
  <2> QED BY <2>4 DEF a
<1> HIDE DEF c
<1>5. y.w = c
  BY <1>0 DEF IsCancelling
<1>6. ASSUME NEW w, NEW ok PROVE Stop(w, ok).w = w
  BY <1>0 DEF IsCancelling
<1>7. Awaits(MarkEnd(x, v, s.m)) /\ Awaits(RemoveMarker(x, v, s.m))
  BY <1>0, <1>3, MarkEndAwaits, RemoveMarkerAwaits
<1> HIDE DEF Stop, y
<1>8. CancelRound(s).w \in {s.w, MarkEnd(x, v, s.m), RemoveMarker(x, v, s.m), c}
  BY <1>2, <1>5, <1>6
<1>9. Awaits(CancelRound(s).w)
  BY <1>0, <1>4, <1>7, <1>8
<1> QED BY <1>1, <1>9 DEF IsCancellingCalmly

LEMMA MarkCancelAwaits ==
  ASSUME NEW w, NEW v \in View, Awaits(w), NEW m
  PROVE  Awaits(MarkCancel(w, v, m))
<1> DEFINE start == [w |-> Cancel(w, v), v |-> v, m |-> m, ok |-> FALSE, go |-> TRUE]
           end   == CalmCancel!Iterate(start, MaxRounds)
<1>1. IsCancellingCalmly(start)
  <2>1. Awaits(Cancel(w, v))
    BY AwaitsWeaker, CancelAwaits
  <2>2. start.w = Cancel(w, v) /\ start.v = v /\ DOMAIN start = {"w", "v", "m", "ok", "go"}
    OBVIOUS
  <2> HIDE DEF start
  <2> QED BY <2>1, <2>2 DEF IsCancelling, IsCancellingCalmly, Awaits
<1>2. end = CancelTo(w, v, m)
  BY DEF CalmCancel!Iterate, CancelLoop!Iterate, CancelTo
<1> HIDE DEF start
<1>3. IsCancellingCalmly(end)
  BY <1>1, CancelRoundAwaits, CalmCancel!IterateKeeps
<1> HIDE DEF end
<1>4. MarkCancel(w, v, m) \in {end.w, Fail(end.w, "mark_cancel does not end")}
  BY <1>2 DEF MarkCancel, Ended
<1> QED BY <1>3, <1>4, FailAwaits DEF IsCancellingCalmly

-----------------------------------------------------------------------------
(* The end of an event *)

(* Who waits is confirmed, so that nobody has anything to confirm.         *)
LEMMA GlobalConfirmSettles ==
  ASSUME NEW w, Awaits(w)
  PROVE  Settled(GlobalConfirm(w))
<1> DEFINE F(v) == IF v \in w.pending THEN Simplify(Confirm(v, w.arch[v]), w.doc)
                   ELSE w.arch[v]
           f == [v \in View |-> F(v)]
           x == [w EXCEPT !.arch = f, !.pending = {}]
<1>1. IsWorld(w) /\ IsWorld(GlobalConfirm(w))
  BY GlobalConfirmWorld DEF Awaits
<1>2. GlobalConfirm(w) = x
  BY DEF GlobalConfirm
<1>3. ASSUME NEW v \in View PROVE ~Active(F(v))
  <2>1. IsArchiver(w.arch[v])
    BY <1>1 DEF IsWorld
  <2>2. ~Active(Simplify(Confirm(v, w.arch[v]), w.doc))
    BY <2>1, ConfirmShape, ConfirmSettles, SimplifySettled
  <2> QED BY <2>2 DEF Awaits
<1> HIDE DEF F
<1>4. x.pending = {} /\ x.arch = f
  BY <1>1 DEF IsWorld
<1> HIDE DEF x
<1> QED BY <1>1, <1>2, <1>3, <1>4 DEF Settled

(* Saving confirms in all views, and clearing leaves nothing to confirm.   *)
LEMMA NotifySaveSettles ==
  ASSUME NEW w, IsWorld(w), NEW real
  PROVE  /\ Awaits(NotifySave(w, real)) /\ NotifySave(w, real).pending = w.pending
         /\ \A v \in View : ~Active(NotifySave(w, real).arch[v])
<1> DEFINE C(v) == Confirm(v, w.arch[v])
           F(v) == [C(v) EXCEPT !.last_autosave = C(v).depth,
                                !.last_save = IF real THEN CorrectedDepth(C(v))
                                              ELSE @]
           f == [v \in View |-> F(v)]
           x == [w EXCEPT !.arch = f]
<1>1. NotifySave(w, real) = x /\ IsWorld(NotifySave(w, real))
  BY NotifySaveWorld DEF NotifySave
<1>2. ASSUME NEW v \in View PROVE ~Active(F(v))
  <2>1. IsArchiver(C(v)) /\ ~Active(C(v))
    BY ConfirmShape, ConfirmSettles DEF IsWorld
  <2> HIDE DEF C
  <2>2. F(v).current = C(v).current
    BY <2>1 DEF IsArchiver, IsArchiverRecord
  <2> HIDE DEF F
  <2> QED BY <2>1, <2>2 DEF Active
<1> HIDE DEF F
<1>3. x.arch = f /\ x.pending = w.pending
  BY DEF IsWorld
<1> HIDE DEF x
<1> QED BY <1>1, <1>2, <1>3 DEF Awaits

LEMMA GlobalClearHistoryAwaits ==
  ASSUME NEW w, IsWorld(w)
  PROVE  Awaits(GlobalClearHistory(w))
<1> DEFINE f == [v \in View |-> Cleared]
           x == [w EXCEPT !.arch = f]
<1>1. GlobalClearHistory(w) = x /\ IsWorld(GlobalClearHistory(w))
  BY GlobalClearHistoryWorld DEF GlobalClearHistory
<1>2. ~Active(Cleared)
  BY NothingIsEmpty DEF Active, Cleared, NewArchiver
<1> HIDE DEF Cleared
<1>3. x.arch = f
  BY DEF IsWorld
<1> HIDE DEF x
<1> QED BY <1>1, <1>2, <1>3 DEF Awaits

-----------------------------------------------------------------------------
(* What the handlers are made of *)

(* m is recorded: it does not assign what is there already.                *)
IsRecorded(m, t) == ~(m.k = "assign" /\ m = InvertMod(m, t))

LEMMA RecordedAwaits ==
  ASSUME NEW w, IsWorld(w), NEW m, IsRecorded(m, w.doc)
  PROVE  AllAwait(Modify(w, View, m))
BY ModifyWorld, ModifyParts DEF IsRecorded, AllAwait

(* All views record a cursor.                                              *)
LEMMA ArchiveStateAwaits ==
  ASSUME NEW w, IsWorld(w), NEW v, NEW c
  PROVE  AllAwait(ArchiveState(w, v, c))
<1> DEFINE m == Mod("set_cursor", c, Node("cursor", <<Node(v, <<>>)>>))
<1>1. m.k = "set_cursor"
  BY DEF Mod
<1>2. ArchiveState(w, v, c) = Modify(w, View, m)
  BY DEF ArchiveState
<1> HIDE DEF m
<1>3. IsRecorded(m, w.doc)
  BY <1>1 DEF IsRecorded
<1> QED BY <1>2, <1>3, RecordedAwaits

LEMMA SetAuthorAwaits ==
  ASSUME NEW w, IsWorld(w), NEW a
  PROVE  /\ Awaits(w) => Awaits(SetAuthor(w, a))
         /\ AllAwait(w) => AllAwait(SetAuthor(w, a))
         /\ Settled(w) => Settled(SetAuthor(w, a))
<1>1. IsWorld(SetAuthor(w, a))
  BY SetAuthorWorld
<1>2. SetAuthor(w, a).arch = w.arch /\ SetAuthor(w, a).pending = w.pending
  BY DEF SetAuthor, IsWorld
<1> QED BY <1>1, <1>2 DEF Awaits, AllAwait, Settled

LEMMA InterruptShortcutAwaits ==
  ASSUME NEW w, NEW v \in View, Awaits(w)
  PROVE  /\ Awaits(InterruptShortcut(w, v))
         /\ InterruptShortcut(w, v).pending = w.pending
BY MarkEndAwaits DEF InterruptShortcut

LEMMA BeginMenuAwaits ==
  ASSUME IsWorld(hist), NEW v \in View, NEW c
  PROVE  AllAwait(BeginMenu(v, c))
<1> DEFINE w == SetAuthor(ArchiveState(hist, v, c), v)
<1>1. AllAwait(ArchiveState(hist, v, c))
  BY ArchiveStateAwaits
<1>2. AllAwait(w)
  BY <1>1, SetAuthorAwaits DEF AllAwait
<1>3. BeginMenu(v, c) = InterruptShortcut(w, v)
  BY DEF BeginMenu
<1> HIDE DEF w
<1>4. Awaits(InterruptShortcut(w, v)) /\ InterruptShortcut(w, v).pending = w.pending
  BY <1>2, AwaitsWeaker, InterruptShortcutAwaits
<1> QED BY <1>2, <1>3, <1>4 DEF Awaits, AllAwait

LEMMA ForgetCursorAwaits ==
  ASSUME NEW w, NEW v \in View, AllAwait(w)
  PROVE  AllAwait(ForgetCursor(w, v))
<1>1. IsWorld(w) /\ IsWorld(ForgetCursor(w, v))
  BY ForgetCursorWorld DEF AllAwait
<1>2. ForgetCursor(w, v).pending = w.pending
  BY <1>1 DEF ForgetCursor, IsWorld
<1> QED BY <1>1, <1>2 DEF AllAwait

LEMMA EditUndoAwaits ==
  ASSUME NEW w, NEW v \in View, AllAwait(w)
  PROVE  Awaits(EditUndo(w, v))
<1> DEFINE u == ForgetCursor(w, v)
<1>1. Awaits(u)
  BY ForgetCursorAwaits, AwaitsWeaker
<1>2. EditUndo(w, v) \in {u, Forget(u, v), Undo(u, v)}
  BY DEF EditUndo
<1> HIDE DEF u
<1> QED BY <1>1, <1>2, ForgetAwaits, UndoAwaits

LEMMA EditRedoAwaits ==
  ASSUME NEW w, NEW v \in View, AllAwait(w), NEW i
  PROVE  Awaits(EditRedo(w, v, i))
<1>1. Awaits(ForgetCursor(w, v))
  BY ForgetCursorAwaits, AwaitsWeaker
<1> QED BY <1>1, RedoAwaits DEF EditRedo

LEMMA BeginKeyAwaits ==
  ASSUME Settled(hist), NEW v \in View
  PROVE  /\ Awaits(BeginKey(v))
         /\ Awaits(InterruptShortcut(BeginKey(v), v))
         /\ Awaits(Continued(v))
<1> DEFINE w == SetAuthor(hist, v)
<1>1. Awaits(w)
  <2>1. IsWorld(hist) /\ Awaits(hist)
    BY AwaitsWeaker DEF Settled
  <2> QED BY <2>1, SetAuthorAwaits
<1>2. BeginKey(v) \in {w, MarkCancel(w, v, pre_edit_mark[v])}
  BY DEF BeginKey
<1> HIDE DEF w
<1>3. Awaits(BeginKey(v))
  BY <1>1, <1>2, MarkCancelAwaits
<1> QED BY <1>3, InterruptShortcutAwaits, MarkCancelAwaits DEF Continued

LEMMA EndEventSettles ==
  ASSUME NEW w, Awaits(w), EndEvent(w)
  PROVE  Settled(hist')
BY GlobalConfirmSettles DEF EndEvent

LEMMA InsertionSettles ==
  ASSUME NEW w, Awaits(w), NEW v, Insertion(w, v)
  PROVE  Settled(hist')
<1>1. PICK m : EndEvent(Modify(ArchiveState(w, v, CursorFor(m)), View, m))
  BY DEF Insertion
<1> DEFINE x == ArchiveState(w, v, CursorFor(m))
<1>2. Awaits(x)
  BY ArchiveStateAwaits, AwaitsWeaker
<1> HIDE DEF x
<1>3. Awaits(Modify(x, View, m))
  BY <1>2, ModifyAwaits
<1> QED BY <1>1, <1>3, EndEventSettles DEF x

-----------------------------------------------------------------------------
(* The handlers *)

LEMMA ShortcutSettles ==
  ASSUME NEW w, NEW v \in View, Awaits(w), NEW mark, Shortcut(w, v, mark)
  PROVE  Settled(hist')
<1>1. CASE Insertion(w, v)
  BY <1>1, InsertionSettles
<1>2. ASSUME NEW c,
             LET x == ArchiveState(w, v, c)
             IN  \/ EndEvent(x)
                 \/ EndEvent(NotifySave(x, TRUE))
                 \/ EndEvent(EditUndo(MarkEnd(x, v, mark), v))
      PROVE  Settled(hist')
  <2> DEFINE x == ArchiveState(w, v, c)
  <2>1. AllAwait(x) /\ Awaits(x) /\ IsWorld(x)
    BY ArchiveStateAwaits, AwaitsWeaker
  <2> HIDE DEF x
  <2>2. Awaits(NotifySave(x, TRUE))
    BY <2>1, NotifySaveSettles
  <2>3. AllAwait(MarkEnd(x, v, mark))
    BY <2>1, MarkEndAwaits DEF Awaits, AllAwait
  <2>4. Awaits(EditUndo(MarkEnd(x, v, mark), v))
    BY <2>3, EditUndoAwaits
  <2> QED BY <1>2, <2>1, <2>2, <2>4, EndEventSettles DEF x
<1> QED BY <1>1, <1>2 DEF Shortcut

LEMMA KeyboardSettles ==
  ASSUME Settled(hist), NEW v \in View,
         KeyPress(v) \/ ShortcutPress(v) \/ PreEditPress(v) \/ PreEditEnd(v)
         \/ Suspend(v)
  PROVE  Settled(hist')
<1>1. CASE KeyPress(v)
  BY <1>1, BeginKeyAwaits, InsertionSettles DEF KeyPress
<1>2. CASE ShortcutPress(v)
  <2>1. ASSUME NEW w, Awaits(w),
               Shortcut(MarkStart(w, v, NewMarker), v, NewMarker)
        PROVE  Settled(hist')
    <3>1. Awaits(MarkStart(w, v, NewMarker))
      BY <2>1, MarkStartAwaits
    <3> QED BY <2>1, <3>1, ShortcutSettles
  <2> QED BY <1>2, <2>1, BeginKeyAwaits DEF ShortcutPress
<1>3. CASE PreEditPress(v)
  BY <1>3, BeginKeyAwaits, MarkStartAwaits, InsertionSettles DEF PreEditPress
<1>4. CASE PreEditEnd(v)
  BY <1>4, BeginKeyAwaits, EndEventSettles DEF PreEditEnd
<1>5. CASE Suspend(v)
  <2> DEFINE x == InterruptShortcut(hist, v)
  <2>1. Awaits(hist) /\ IsWorld(hist)
    BY AwaitsWeaker DEF Settled
  <2>2. Awaits(x) /\ x.pending = hist.pending
    BY <2>1, InterruptShortcutAwaits
  <2>3. hist' = x
    BY <1>5 DEF Suspend
  <2> HIDE DEF x
  <2> QED BY <2>2, <2>3 DEF Awaits, Settled
<1> QED BY <1>1, <1>2, <1>3, <1>4, <1>5

LEMMA MenuSettles ==
  ASSUME IsWorld(hist), NEW v \in View,
         MenuEdit(v) \/ MenuUndo(v) \/ MenuRedo(v) \/ MenuSave(v)
         \/ MenuClearHistory(v) \/ MenuTry(v) \/ \E s \in Slave : Evaluate(v, s)
  PROVE  Settled(hist')
<1>0. ASSUME NEW c
      PROVE  AllAwait(BeginMenu(v, c)) /\ Awaits(BeginMenu(v, c)) /\ IsWorld(BeginMenu(v, c))
  BY BeginMenuAwaits, AwaitsWeaker
<1>1. CASE MenuEdit(v)
  <2>1. PICK c, m : EndEvent(Modify(BeginMenu(v, c), View, m))
    BY <1>1 DEF MenuEdit, Menu
  <2>2. Awaits(Modify(BeginMenu(v, c), View, m))
    BY <1>0, ModifyAwaits
  <2> QED BY <2>1, <2>2, EndEventSettles
<1>2. CASE MenuUndo(v)
  <2>1. PICK c : EndEvent(EditUndo(BeginMenu(v, c), v))
    BY <1>2 DEF MenuUndo, Menu
  <2> QED BY <1>0, <2>1, EditUndoAwaits, EndEventSettles
<1>3. CASE MenuRedo(v)
  <2>1. PICK c, i : EndEvent(EditRedo(BeginMenu(v, c), v, i))
    BY <1>3 DEF MenuRedo, Menu
  <2> QED BY <1>0, <2>1, EditRedoAwaits, EndEventSettles
<1>4. CASE MenuSave(v)
  <2>1. PICK c : EndEvent(NotifySave(BeginMenu(v, c), TRUE))
    BY <1>4 DEF MenuSave, Menu
  <2> QED BY <1>0, <2>1, NotifySaveSettles, EndEventSettles
<1>5. CASE MenuClearHistory(v)
  <2>1. PICK c : EndEvent(GlobalClearHistory(BeginMenu(v, c)))
    BY <1>5 DEF MenuClearHistory, Menu
  <2> QED BY <1>0, <2>1, GlobalClearHistoryAwaits, EndEventSettles
<1>6. CASE MenuTry(v)
  <2> DEFINE Try(w, m) == Modify(MarkStart(w, v, NewMarker), View, m)
  <2>1. PICK c, m : \/ EndEvent(MarkEnd(Try(BeginMenu(v, c), m), v, NewMarker))
                    \/ EndEvent(MarkCancel(Try(BeginMenu(v, c), m), v, NewMarker))
    BY <1>6 DEF MenuTry
  <2>2. Awaits(Try(BeginMenu(v, c), m))
    BY <1>0, MarkStartAwaits, ModifyAwaits
  <2> HIDE DEF Try
  <2> QED BY <2>1, <2>2, MarkEndAwaits, MarkCancelAwaits, EndEventSettles
<1>7. CASE \E s \in Slave : Evaluate(v, s)
  <2>1. PICK s, c, m : EndEvent(Modify(StartSlave(BeginMenu(v, c), v, s), View, m))
    BY <1>7 DEF Evaluate, Menu
  <2> DEFINE x == StartSlave(BeginMenu(v, c), v, s)
  <2>2. AllAwait(x)
    BY <1>0, StartSlaveWorld, StartSlaveAwaits DEF AllAwait
  <2> HIDE DEF x
  <2>3. Awaits(Modify(x, View, m))
    BY <2>2, AwaitsWeaker, ModifyAwaits
  <2> QED BY <2>1, <2>3, EndEventSettles DEF x
<1> QED BY <1>1, <1>2, <1>3, <1>4, <1>5, <1>6, <1>7

(* What an author may ask for is recorded.                                 *)
EditsAreRecorded == \A t, a : \A m \in EditsOf(t, a) : IsRecorded(m, t)

LEMMA MouseSettles ==
  ASSUME EditsAreRecorded, Settled(hist), NEW v \in View,
         MouseClick(v) \/ Checkout(v) \/ Commit(v)
  PROVE  Settled(hist')
<1>1. Awaits(SetAuthor(hist, v)) /\ Awaits(Click(v)) /\ IsWorld(Click(v))
  <2>1. IsWorld(hist) /\ Awaits(hist)
    BY AwaitsWeaker DEF Settled
  <2>2. Awaits(SetAuthor(hist, v))
    BY <2>1, SetAuthorAwaits
  <2>3. Awaits(Click(v))
    BY <2>2, InterruptShortcutAwaits DEF Click
  <2> QED BY <2>2, <2>3 DEF Awaits
<1>2. CASE MouseClick(v)
  BY <1>1, <1>2, EndEventSettles DEF MouseClick
<1>3. CASE Checkout(v)
  <2>1. PICK w \in {Click(v), SetAuthor(hist, v)} : \E m : EndEvent(Modify(w, View, m))
    BY <1>3 DEF Checkout
  <2>2. PICK m : EndEvent(Modify(w, View, m))
    BY <2>1
  <2>3. Awaits(Modify(w, View, m))
    BY <1>1, <2>1, ModifyAwaits
  <2> QED BY <2>2, <2>3, EndEventSettles
<1>4. CASE Commit(v)
  <2> DEFINE P(x) == Update(x, v, Retract(v, x.arch[v]))
  <2>1. PICK m \in EditsOf(Click(v).doc, v) : EndEvent(P(Modify(Click(v), View, m)))
    BY <1>4 DEF Commit
  <2>2. IsRecorded(m, Click(v).doc)
    BY <2>1 DEF EditsAreRecorded
  <2>3. AllAwait(Modify(Click(v), View, m))
    BY <1>1, <2>2, RecordedAwaits
  <2>4. ASSUME NEW x, AllAwait(x) PROVE Awaits(P(x))
    <3> DEFINE a == Retract(v, x.arch[v])
    <3>1. IsWorld(x) /\ AwaitsBut(x, v) /\ View \subseteq x.pending
      BY <2>4, AwaitsWeaker DEF AllAwait
    <3>2. IsArchiver(a)
      BY <3>1, RetractShape DEF IsWorld
    <3> HIDE DEF a
    <3>3. IsWorld(Update(x, v, a))
      BY <3>1, <3>2, UpdateWorld
    <3>4. Awaits(Update(x, v, a))
      BY <3>1, <3>3, UpdateAwaits
    <3> QED BY <3>4 DEF a
  <2> HIDE DEF P
  <2> QED BY <2>1, <2>3, <2>4, EndEventSettles
<1> QED BY <1>2, <1>3, <1>4

LEMMA OutputSettles ==
  ASSUME Settled(hist), NEW s, Output(s)
  PROVE  Settled(hist')
<1> DEFINE w == SetAuthor(hist, s)
<1>1. PICK m : hist' = SetAuthor(GlobalConfirm(Modify(w, View, m)), hist.author)
  BY DEF Output
<1>2. Awaits(w)
  BY AwaitsWeaker, SetAuthorAwaits DEF Settled
<1> HIDE DEF w
<1>3. Settled(GlobalConfirm(Modify(w, View, m)))
  BY <1>2, ModifyAwaits, GlobalConfirmSettles
<1> QED BY <1>1, <1>3, SetAuthorAwaits DEF Settled

LEMMA SettledNext ==
  ASSUME EditsAreRecorded, Settled(hist), [Next]_vars
  PROVE  Settled(hist)'
<1>1. CASE UNCHANGED vars
  <2>1. hist' = hist
    BY <1>1 DEF vars
  <2> QED BY <2>1
<1>2. CASE Autosave
  <2>1. hist' = NotifySave(hist, FALSE)
    BY <1>2 DEF Autosave
  <2> QED BY <2>1, NotifySaveSettles DEF Settled, Awaits
<1>3. IsWorld(hist)
  BY DEF Settled
<1> QED
  BY <1>1, <1>2, <1>3, KeyboardSettles, MenuSettles, MouseSettles, OutputSettles DEF Next

(***************************************************************************)
(* Between two events no view has modifications that are not confirmed,    *)
(* and none waits to be: every modification reaches the end of its event   *)
(* as an item of the archive of every view, also those of blocks that were *)
(* cancelled, of items that were reopened, and of other authors            *)
(* (archiver.cpp, global_confirm).  The hypothesis is needed where an      *)
(* object that was dragged is put back: reopening the last item makes its  *)
(* modifications current without letting the archive wait.                 *)
(***************************************************************************)
THEOREM NothingIsOpen ==
  ASSUME EditsAreRecorded
  PROVE  Spec => []Confirmed
<1>1. Init => Settled(hist)
  <2> SUFFICES ASSUME Init PROVE Settled(hist)
    OBVIOUS
  <2>1. IsWorld(hist)
    BY WorldInit
  <2>2. hist.pending = {} /\ hist.arch = [v \in View |-> NewArchiver]
    BY DEF Init
  <2>3. ~Active(NewArchiver)
    BY NothingIsEmpty DEF Active, NewArchiver
  <2> HIDE DEF NewArchiver
  <2> QED BY <2>1, <2>2, <2>3 DEF Settled
<1>2. Settled(hist) /\ [Next]_vars => Settled(hist)'
  BY SettledNext
<1>3. Settled(hist) => Confirmed
  BY DEF Settled, Confirmed
<1> QED BY <1>1, <1>2, <1>3, PTL DEF Spec
=============================================================================
