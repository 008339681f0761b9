------------------------------ MODULE Editing ------------------------------
(***************************************************************************)
(* The editors of the views of one buffer and their archivers.             *)
(*                                                                         *)
(* The program has one thread: a key press, a mouse event, a menu command  *)
(* or a delayed command is handled to its end before the next one starts,  *)
(* so that each action below is a whole handler.  What interleaves are the *)
(* handlers of several views, of the plug-ins that write results into the  *)
(* document, and of the blocks that span several handlers: keyboard        *)
(* shortcuts and input-method pre-edits, which bracket what they insert    *)
(* between markers of the archive, and graphical objects being dragged.    *)
(***************************************************************************)
EXTENDS Archiver

CONSTANTS
  Slave,             \* authors of the results of plug-ins
  Handlers,          \* the names of the handlers that take part
  Commands,          \* the commands bound to shortcuts that take part
  InitialDoc,        \* the document when the views are opened
  EditsOf(_, _),     \* the modifications an author can ask for in a document
  CursorsOf(_, _),   \* the positions of the cursor of a view in a document
  MarkerOf(_),       \* the marker with a given number
  MaxEvents          \* bound on the number of events handled

ASSUME EditingAssumption ==
  /\ MaxEvents \in Nat
  /\ NoAuthor \notin View \cup Slave
  /\ \A i \in 1 .. MaxEvents : MarkerOf(i) \notin View \cup Slave \cup {NoAuthor}

NoMark == NoAuthor

VARIABLES
  hist,              \* the document and its archives (module Archiver)
  sh_mark,           \* per view, the marker of the shortcut being typed
  pre_edit_mark,     \* per view, the marker of the pre-edit
  next_marker,       \* the number of the next marker
  dragging,          \* the views where a graphical object is being dragged
  slaves,            \* the plug-in evaluations that have been started
  saved,             \* ghost: the document at the last save, if any
  events             \* the number of events handled

vars == <<hist, sh_mark, pre_edit_mark, next_marker, dragging, slaves, saved, events>>
marks == <<sh_mark, pre_edit_mark, next_marker>>

Init ==
  /\ hist = [doc |-> InitialDoc, author |-> NoAuthor,
             arch |-> [v \in View |-> NewArchiver], pending |-> {}, failed |-> ""]
  /\ sh_mark = [v \in View |-> NoMark]
  /\ pre_edit_mark = [v \in View |-> NoMark]
  /\ next_marker = 1
  /\ dragging = {}
  /\ slaves = {}
  /\ saved = [at |-> InitialDoc]
  /\ events = 0

-----------------------------------------------------------------------------
SetAuthor(w, a) == [w EXCEPT !.author = a]

(* The cursor of v goes into the archives, to be restored by undo.         *)
ArchiveState(w, v, c) ==
  Modify(w, View, Mod("set_cursor", c, Node("cursor", <<Node(v, <<>>)>>)))

CursorFor(m) == Append(Root(m), 0)

(* NewMarker gone wrong: the marker is that of the author.                 *)
NewMarkerAuthor == hist.author

NewMarker == MarkerOf(next_marker)

InterruptShortcut(w, v) ==
  IF sh_mark[v] = NoMark THEN w ELSE MarkEnd(w, v, sh_mark[v])

(* What key_press does before it looks at the key itself.                  *)
BeginKey(v) ==
  LET w == SetAuthor(hist, v)
  IN  IF pre_edit_mark[v] = NoMark THEN w
      ELSE MarkCancel(w, v, pre_edit_mark[v])

BeginMenu(v, c) ==
  InterruptShortcut(SetAuthor(ArchiveState(hist, v, c), v), v)

(* Undo through the editor; while an object is dragged, undo drops it.     *)
EditUndo(w, v) ==
  LET u == ForgetCursor(w, v)
  IN  CASE ~HasHistory(u.arch[v])                    -> u
        [] HasHistory(u.arch[v]) /\ v \in dragging    -> Forget(u, v)
        [] HasHistory(u.arch[v]) /\ v \notin dragging -> Undo(u, v)

EditRedo(w, v, i) == Redo(ForgetCursor(w, v), v, i)

Event(name) ==
  /\ name \in Handlers
  /\ events < MaxEvents
  /\ hist.failed = ""
  /\ events' = events + 1

(* EndEvent gone wrong: nothing is confirmed.                              *)
EndEventOpen(w) == hist' = w

EndEvent(w) == hist' = GlobalConfirm(w)

Saves(w) == saved' = [at |-> w.doc]
NoSave   == UNCHANGED saved

(* EndShortcut gone wrong: the mark is kept.                               *)
EndShortcutKeeps(v) == UNCHANGED sh_mark

EndShortcut(v) == sh_mark' = [sh_mark EXCEPT ![v] = NoMark]

-----------------------------------------------------------------------------
(* The keyboard *)

(* Inserting a text, after the cursor has been archived.                   *)
Insertion(w, v) ==
  \E m \in EditsOf(w.doc, v) :
    EndEvent(Modify(ArchiveState(w, v, CursorFor(m)), View, m))

(* The shortcut being typed is continued by a key: what it inserted goes.  *)
Continued(v) == MarkCancel(BeginKey(v), v, sh_mark[v])

(* The marker of the shortcut was not reached: what it inserted stays.     *)
Stuck(v) ==
  sh_mark[v] # NoMark /\ ~MarkReached(BeginKey(v), v, sh_mark[v])

(* A key without a binding inserts itself.                                 *)
KeyPress(v) ==
  /\ Event("key")
  /\ \/ Insertion(InterruptShortcut(BeginKey(v), v), v)
     \/ Stuck(v) /\ Insertion(Continued(v), v)
  /\ EndShortcut(v)
  /\ pre_edit_mark' = [pre_edit_mark EXCEPT ![v] = NoMark]
  /\ NoSave
  /\ UNCHANGED <<next_marker, dragging, slaves>>

(* The command of a shortcut, or the text that stands for its prefix.      *)
Shortcut(w, v, mark) ==
  \/ /\ "edit" \in Commands
     /\ Insertion(w, v)
     /\ sh_mark' = [sh_mark EXCEPT ![v] = mark]
     /\ NoSave /\ UNCHANGED dragging
  \/ \E c \in CursorsOf(w.doc, v) :
       LET x == ArchiveState(w, v, c)
       IN  \/ /\ "move" \in Commands
              /\ EndEvent(x)
              /\ sh_mark' = [sh_mark EXCEPT ![v] = mark]
              /\ NoSave /\ UNCHANGED dragging
           \/ /\ "save" \in Commands
              /\ EndEvent(NotifySave(x, TRUE))
              /\ sh_mark' = [sh_mark EXCEPT ![v] = mark]
              /\ Saves(x) /\ UNCHANGED dragging
           \/ /\ "undo" \in Commands
              /\ EndEvent(EditUndo(MarkEnd(x, v, mark), v))
              /\ EndShortcut(v)
              /\ dragging' = dragging \ {v}
              /\ NoSave

(* A key with a binding, which may continue the shortcut being typed.      *)
ShortcutPress(v) ==
  LET Begin(w) == Shortcut(MarkStart(w, v, NewMarker), v, NewMarker) IN
  /\ Event("shortcut")
  /\ \/ Begin(InterruptShortcut(BeginKey(v), v))
     \/ sh_mark[v] # NoMark /\ Begin(Continued(v))
  /\ pre_edit_mark' = [pre_edit_mark EXCEPT ![v] = NoMark]
  /\ next_marker' = next_marker + 1
  /\ UNCHANGED slaves

(* The input method shows text that is not final yet.                      *)
PreEditPress(v) ==
  /\ Event("pre-edit")
  /\ Insertion(MarkStart(InterruptShortcut(BeginKey(v), v), v, NewMarker), v)
  /\ EndShortcut(v)
  /\ pre_edit_mark' = [pre_edit_mark EXCEPT ![v] = NewMarker]
  /\ next_marker' = next_marker + 1
  /\ NoSave
  /\ UNCHANGED <<dragging, slaves>>

(* The input method has no text to show.                                   *)
PreEditEnd(v) ==
  /\ Event("pre-edit")
  /\ EndEvent(InterruptShortcut(BeginKey(v), v))
  /\ EndShortcut(v)
  /\ pre_edit_mark' = [pre_edit_mark EXCEPT ![v] = NoMark]
  /\ NoSave
  /\ UNCHANGED <<next_marker, dragging, slaves>>

(* The view, which has the focus, is taken out of its window.              *)
Suspend(v) ==
  /\ Event("suspend")
  /\ sh_mark[v] # NoMark
  /\ hist' = InterruptShortcut(hist, v)
  /\ EndShortcut(v)
  /\ NoSave
  /\ UNCHANGED <<pre_edit_mark, next_marker, dragging, slaves>>

-----------------------------------------------------------------------------
(* Menus *)

Menu(v, name, Body(_)) ==
  /\ Event(name)
  /\ \E c \in CursorsOf(hist.doc, v) : Body(BeginMenu(v, c))
  /\ EndShortcut(v)
  /\ UNCHANGED <<pre_edit_mark, next_marker>>

MenuEdit(v) ==
  LET Body(w) == \E m \in EditsOf(w.doc, v) : EndEvent(Modify(w, View, m))
  IN  Menu(v, "menu-edit", Body) /\ NoSave /\ UNCHANGED <<dragging, slaves>>

MenuUndo(v) ==
  LET Body(w) == EndEvent(EditUndo(w, v))
  IN  /\ Menu(v, "menu-undo", Body)
      /\ dragging' = dragging \ {v}
      /\ NoSave /\ UNCHANGED slaves

MenuRedo(v) ==
  LET Body(w) == \E i \in DOMAIN RedoTop(w.arch[v]) : EndEvent(EditRedo(w, v, i))
  IN  Menu(v, "menu-redo", Body) /\ NoSave /\ UNCHANGED <<dragging, slaves>>

MenuSave(v) ==
  LET Body(w) == EndEvent(NotifySave(w, TRUE))
  IN  Menu(v, "menu-save", Body) /\ Saves(hist) /\ UNCHANGED <<dragging, slaves>>

MenuClearHistory(v) ==
  LET Body(w) == EndEvent(GlobalClearHistory(w))
  IN  Menu(v, "menu-clear", Body) /\ NoSave /\ UNCHANGED <<dragging, slaves>>

(* A tentative modification, kept or taken back in the same handler.       *)
MenuTry(v) ==
  LET Try(w, m) == Modify(MarkStart(w, v, NewMarker), View, m)
      Body(w) == \E m \in EditsOf(w.doc, v) :
                   \/ EndEvent(MarkEnd(Try(w, m), v, NewMarker))
                   \/ EndEvent(MarkCancel(Try(w, m), v, NewMarker))
  IN  /\ Event("menu-try")
      /\ \E c \in CursorsOf(hist.doc, v) : Body(BeginMenu(v, c))
      /\ EndShortcut(v)
      /\ next_marker' = next_marker + 1
      /\ NoSave /\ UNCHANGED <<pre_edit_mark, dragging, slaves>>

-----------------------------------------------------------------------------
(* The mouse.  In graphics an object is taken out of the picture and put   *)
(* back by a later event; the two make one item of the history.            *)

(* A button is pressed or released: that interrupts a shortcut.            *)
Click(v) == InterruptShortcut(SetAuthor(hist, v), v)

(* Nothing but the click happens.                                          *)
MouseClick(v) ==
  /\ Event("click")
  /\ EndEvent(Click(v))
  /\ EndShortcut(v)
  /\ NoSave
  /\ UNCHANGED <<pre_edit_mark, next_marker, dragging, slaves>>

(* The object is taken at a click, or when the mouse starts to move.       *)
Checkout(v) ==
  LET Take(w) == \E m \in EditsOf(w.doc, v) : EndEvent(Modify(w, View, m)) IN
  /\ Event("drag")
  /\ v \notin dragging
  /\ \/ Take(Click(v)) /\ EndShortcut(v)
     \/ Take(SetAuthor(hist, v)) /\ UNCHANGED sh_mark
  /\ dragging' = dragging \cup {v}
  /\ NoSave
  /\ UNCHANGED <<pre_edit_mark, next_marker, slaves>>

Commit(v) ==
  LET PutBack(m) == LET x == Modify(Click(v), View, m)
                    IN  Update(x, v, Retract(v, x.arch[v]))
  IN
  /\ Event("drag")
  /\ v \in dragging
  /\ \E m \in EditsOf(Click(v).doc, v) : EndEvent(PutBack(m))
  /\ EndShortcut(v)
  /\ dragging' = dragging \ {v}
  /\ NoSave
  /\ UNCHANGED <<pre_edit_mark, next_marker, slaves>>

-----------------------------------------------------------------------------
(* Plug-ins *)

(* An evaluation is asked for; its results will have an author of theirs.  *)
Evaluate(v, s) ==
  LET Body(w) == \E m \in EditsOf(w.doc, v) :
                   EndEvent(Modify(StartSlave(w, v, s), View, m))
  IN  /\ s \notin slaves
      /\ Menu(v, "plugin", Body)
      /\ slaves' = slaves \cup {s}
      /\ NoSave /\ UNCHANGED dragging

(* A result arrives and goes into the document.                            *)
Output(s) ==
  LET w == SetAuthor(hist, s) IN
  /\ Event("plugin")
  /\ s \in slaves
  /\ \E m \in EditsOf(w.doc, s) :
       hist' = SetAuthor(GlobalConfirm(Modify(w, View, m)), hist.author)
  /\ NoSave
  /\ UNCHANGED <<marks, dragging, slaves>>

-----------------------------------------------------------------------------
(* The delayed command that saves a copy of the modified buffer.           *)
Autosave ==
  /\ Event("autosave")
  /\ \E v \in View : ~ConformSave(hist.arch[v]) /\ ~ConformAutosave(hist.arch[v])
  /\ hist' = NotifySave(hist, FALSE)
  /\ NoSave
  /\ UNCHANGED <<marks, dragging, slaves>>

Next ==
  \/ \E v \in View :
       \/ KeyPress(v) \/ ShortcutPress(v) \/ PreEditPress(v) \/ PreEditEnd(v)
       \/ Suspend(v)
       \/ MenuEdit(v) \/ MenuUndo(v) \/ MenuRedo(v) \/ MenuSave(v)
       \/ MenuClearHistory(v) \/ MenuTry(v)
       \/ MouseClick(v) \/ Checkout(v) \/ Commit(v)
       \/ \E s \in Slave : Evaluate(v, s)
  \/ \E s \in Slave : Output(s)
  \/ Autosave

Spec == Init /\ [][Next]_vars

-----------------------------------------------------------------------------
Marks == {NoMark} \cup {MarkerOf(i) : i \in 1 .. MaxEvents}

TypeOK ==
  /\ DOMAIN hist = {"doc", "author", "arch", "pending", "failed"}
  /\ DOMAIN hist.arch = View
  /\ sh_mark \in [View -> Marks]
  /\ pre_edit_mark \in [View -> Marks]
  /\ next_marker \in 1 .. events + 1
  /\ dragging \subseteq View
  /\ slaves \subseteq Slave
  /\ DOMAIN saved = {"at"}
  /\ events \in 0 .. MaxEvents

(* The counter depth of an archiver, on which the save marks rely, is the  *)
(* number of items that can be undone, and every such number has a forest  *)
(* of futures (archiver.hpp:22).                                           *)
ArchiveShape == \A v \in View : Shape(hist.arch[v])

(* A view does not type a shortcut and a pre-edit at the same time         *)
(* (edit_keyboard.cpp:129).                                                *)
OneMark == \A v \in View : sh_mark[v] = NoMark \/ pre_edit_mark[v] = NoMark

(* Between events no view has modifications that are not confirmed: what   *)
(* an event did is in the items of the archives, where undo, save and the  *)
(* next event expect it (archiver.cpp, global_confirm).                    *)
Confirmed ==
  hist.failed = "" =>
    hist.pending = {} /\ \A v \in View : ~Active(hist.arch[v])
=============================================================================
