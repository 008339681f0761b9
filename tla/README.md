# A TLA+ development of the TeXmacs editor core

This directory holds TLA+ modules that model how TeXmacs (here iTeXmacs) changes
documents, archives, undoes and saves the changes, lets positions and links
follow them, shows documents in windows, and serves events, delayed commands and
plug-ins, with TLC configurations that check the modules on small instances and
proofs checked by TLAPS. Paths below are relative to `source/src/` of the
repository unless they start with `TeXmacs/`, which is `source/TeXmacs/`.

Contents: [1 the system](#1-the-system) · [2 plan](#2-plan) ·
[3 modules and code](#3-modules-and-code) · [4 runs](#4-what-the-runs-check) ·
[5 findings](#5-findings) · [6 proofs](#6-what-is-proved) ·
[7 limits](#7-what-is-not-modelled)

## 1 The system

TeXmacs has one thread. The event loop of the graphical interface hands key
presses, mouse events, menu commands, delayed commands and plug-in output to
handlers, and a handler runs to its end before the next one starts. What is hard
is therefore not preemption but *protocols that span handlers*, carried on by
several actors that do not know of each other: the views of one buffer, the
plug-ins that write into the document, the windows that are opened and closed
while a question waits for its answer, blocks (shortcuts, pre-edits, drags) that
are opened by one event and closed by a later one, and callbacks that change
what their caller is in the middle of changing.

| Component | State | Operations | Interacts with |
|---|---|---|---|
| Modifications (`Kernel/Types/modification.*`, `Data/History/commute.cpp`) | none | test applicability, apply, invert, commute (`swap`), join | patches |
| Patches (`Data/History/patch.*`) | markers and authors handed out | apply, invert, commute, join, compactify, strip cursors | archives |
| Undo archives (`Data/History/archiver.*`, `Data/Observers/undo_observer.cpp`) | `archive`, `current`, `depth`, `last_save`, `last_autosave`, `the_owner`; the set `pending_archs`; the global current author | `add`, `confirm`, `retract`, `forget`, `simplify`, `expose`, `undo`, `redo`, `mark_start/end/cancel`, save marks | told of every modification by an observer at the root of the document; modify the document while undoing |
| Editors (`Edit/Modify/edit_modify.cpp`, `Edit/Interface/edit_keyboard.cpp`) | `sh_mark`, `pre_edit_mark`, cursor, focus | keys, shortcuts, pre-edits, undo, redo, save marks | one archiver each; set the current author |
| Canvas events (`Edit/Interface/edit_interface.cpp`, `edit_mouse.cpp`) | pointer, interrupted shortcut | mouse events, menu brackets, `suspend`, `resume` | editors, graphics code |
| Graphics editing (`TeXmacs/progs/graphics/graphics-object.scm`) | the object being sketched | `sketch-checkout`, `sketch-commit` | `retract` and `forget` of the archiver |
| Plug-in evaluations (`TeXmacs/progs/utils/plugins/plugin-eval.scm`, `System/Link/connection.cpp`) | queue of pending evaluations, state of a connection | feed, output, cancel | write into the document under an author of their own |
| Plug-in connections (`System/Link/connection.cpp`, `pipe_link.cpp`) | status, status last notified, pipes, queue of pending evaluations | start, write, read, listen, interrupt, stop, forced evaluation | notifications call Scheme, which writes the next input |
| Saving and autosaving (`Texmacs/Data/tm_file.cpp`, `tm_data.cpp`) | save marks of all views | save, autosave, `need_save` | archivers of all views; delayed commands |
| Buffers, views, windows (`Texmacs/`) | lists of buffers and of their views, the window of each view, the view in use | switch, open, clone, close, kill, revert, quit | create and destroy editors; ask the user |
| Observers (`Data/Observers/`, `Kernel/Abstractions/observer.cpp`) | inverse paths, positions and pointers attached to trees; links; postponed modifications | announce, done, reattach, detach | run at every modification |
| Delayed commands (`Plugins/Qt/qt_gui.cpp`, `TeXmacs/progs/kernel/texmacs/tm-dialogue.scm`) | queue of commands and times | delay, pause, repeat, run | autosave, plug-ins, mouse |
| GUI event loop (`Plugins/Qt/qt_gui.cpp`) | queue of waiting events, timer, notifiers of sockets | post, process, update | everything |
| Typesetter, converters, fonts, styles | caches | pure functions of the tree | read the document |

What makes the parts correct:

* *Modifications.* An inverse gives the document back. Two modifications that
  can be swapped have the same effect in both orders. A join has the effect of
  what it joins.
* *Patches.* The same, for a patch and its inverse **together**, because the
  history needs both afterwards.
* *Archives.* The history can be undone item after item and redone along each
  branch, whichever view modified the document and however items were moved past
  each other. Undo in a view undoes that view's items. The save mark says that
  the document is the saved one only if it is. Markers are found when they are
  looked for. Every loop ends. No archive is left with unconfirmed changes.
* *Blocks.* Cancelling a shortcut or a pre-edit takes back what it did and
  nothing else; a drag is one item of the history; a tentative modification that
  is given up leaves no trace.
* *Plug-ins.* A result cannot outlive the evaluation that asked for it.
  Evaluations end in the order in which they were fed, each once, each with its
  own output, and none waits for ever, whenever the plug-in answers, dies or is
  interrupted.
* *Windows.* Every window shows a view of a listed buffer, and the view in use
  is shown. A change is known to be unsaved, and what is unsaved is not given up
  without a question.
* *Event loop.* What arrives during an update leads to another update. No kind
  of event starves another one. Autosaving is never lost from the queue of
  delayed commands, and saves every change in the end. Without work, the program
  rests.
* *Observers.* Inverse paths are paths; positions stay in the document, follow
  their text and do not pass each other; a tree that was taken out has no path;
  linked trees stay equal.

The hazards, each at its line and with the properties that would catch it, are
listed in `PROJECT.json`.

## 2 Plan

Done:

1. `Modifications`, `PatchTypes`, `Patches`, `Futures`: the pure layer, checked
   exhaustively over pairs of modifications.
2. `Archiver`: the archives as operators on one record, so that a handler is a
   chain of them; `Editing`: one action per handler; `MCEditing`: instances.
3. `IterationProofs`, `ArchiverProofs`, `EditingProofs`: the shape of the
   archives, the types, the exclusion of shortcut and pre-edit.
4. `UndoTree`: what the editors promise, a tree of documents with a position in
   it; `Editing` with one view is checked to implement it, the documents read
   off `past` and `redo`.
5. `Windows`: buffers, views and windows, with what is saved and what is asked.
6. `EventLoop`: events, delayed commands, notifiers and autosaving, with the
   liveness that the fairness of the loop gives.
7. `Connections`, which implements `Evaluations`: the status of a plug-in, its
   pipes and its pending evaluations.
8. `Observers`: inverse paths, positions, pointers, links, postponed
   modifications, over the modifications of `Modifications`.
9. `ConnectionsProofs`, `WindowsProofs`, `EventLoopProofs`: the safety
   properties of these components for all instances, and the refinement of
   `Evaluations`.
10. `Pairs`, two modifications one after the other, separated from the
    documents of the instance so that `ModificationsProofs` can speak of all
    trees: inverses.
11. Nothing is left unconfirmed between events (`EditingProofs`).
12. `SwapProofs`: swapping two modifications, and swapping them back, in all
    trees.

Left, in this order:

13. Proofs about patches as a typed set closed under the operations, for a
    stronger type invariant; the bounds on save marks.
14. `UndoTree` for several views, where undo may take a document that never was
    (an own item undone below foreign ones).
15. Opening and closing views in `Editing`, so that archives come and go while
    others hold items of the same buffer; the postponed modifications of
    `Observers` together with the archives.
16. `Observers` with recursive functions in the place of recursive operators, so
    that its invariant can be proved.

## 3 Modules and code

| Module | Models | Extends |
|---|---|---|
| `Modifications` | trees and the nine kinds of modification: `is_applicable`, `clean_apply`, `invert`, `swap`, `join`, `possible_inverse` | |
| `PatchTypes` | the five kinds of patch as records | |
| `Patches` | the operations on patches, which descend into them (recursive operators) | `Modifications`, `PatchTypes` |
| `Futures` | `archiver_rep::split` and `make_future`: the forest of branches to redo | `Patches` |
| `Iteration` | a step repeated N times, for the `while` loops of the archiver | |
| `Archiver` | all operations of `archiver_rep` but `require_save`, `require_autosave` and the destructor; patch operations are parameters | `Modifications`, `PatchTypes` |
| `Editing` | variables, one action per handler, `Spec` | `Archiver` |
| `UndoTree` | the abstract specification: documents on the way from the root, branches left on the way; edit, undo, redo, clear, joins | |
| `Pairs` | a document and two modifications applied to it one after the other; what inverting and swapping promise of them | `Modifications` |
| `MCModifications`, `MCPatches` | the documents and all modifications of them; properties of joining, compactifying and of items of a history | `Pairs`; `Patches` |
| `MCEditing` | the concrete patches for `Archiver`'s parameters, documents, edits, properties, the refinement mapping `TreeOf` | `Editing`, `Futures` |
| `Windows` | buffers, views, windows, the questions before closing; save marks and styles of views | |
| `EventLoop` | `qt_gui_rep::update`, the queues of events and delayed commands, notifiers, the delayed autosave | |
| `Evaluations` | the abstract specification of pending evaluations | |
| `Connections` | `connection.cpp`, `pipe_link.cpp`, `plugin-eval.scm` and a plug-in | `Evaluations` (instance) |
| `Observers`, `MCObservers` | `observer.cpp`, `ip_observer.cpp`, `tree_position.cpp`, `tree_pointer.cpp`, `link.cpp`; documents | `Modifications` |
| `IterationProofs`, `ArchiverProofs`, `EditingProofs`, `ModificationsProofs`, `SwapProofs`, `WindowsProofs`, `EventLoopProofs`, `ConnectionsProofs` | theorems and the lemmas they rest on | the module of that name; `ArchiverProofs` also uses `IterationProofs`, `EditingProofs` extends `ArchiverProofs`, and `SwapProofs` extends `ModificationsProofs`, which extends `Pairs` |

How data is abstracted:

* A document is `Node(op, args)`; an atomic tree (a string) is a node whose
  arguments are its characters, so that positions in strings and in compounds
  work alike, as they do in `insert_length`. Labels and characters are members
  of small sets.
* The archive of the source is one nested patch: a branch whose first part leads
  down and whose others can be redone. Here it is two sequences. `past[n]` is
  the n-th item; `redo[n + 1]` is the forest of futures that apply when n items
  have not been undone. `get_undo`, `get_redo`, `car`, `cdr` and `make_history`
  become `Below`, `Top`, `RedoTop` and `Replace`.
* Authors are the views (and the slaves of plug-ins) instead of floating-point
  numbers; a marker is `MarkerOf(i)`, the i-th handed out. `NoAuthor` stands for
  author 0, `NoOne` for what `get_author` returns of a compound.
* Assertions are kept: `w.failed` is set to the message of the assertion that
  would stop the program, and no event is handled afterwards.
* The `while` loops are `Iterate` of a round with a flag `go`. A loop that still
  runs after `MaxRounds` rounds counts as failed (`Ended`), which is how the
  models would show that `mark_cancel` or `undo` hangs.
* `pending` is the set `pending_archs`; `global_confirm` confirms (which
  normalizes) and simplifies each of its archives.

Each action of `Editing` is a whole handler, brackets included: `key_press` with
the pre-edit it cancels, the shortcut it interrupts or continues, the cursor it
archives, the edit, and `end_editing`; a menu command with
`before_menu_action` and `after_menu_action`. Which edits a handler may make is
a parameter (`EditsOf`), and so is the cursor (`CursorsOf`).

`Handlers` and `Commands` choose which handlers take part in an instance; no
action is changed by that.

The later modules stand beside this pair and meet it at one point each:

* `Windows` has one action per command of the server. The archive of a view is
  reduced to one bit, its membership in `need` ("not at the last save"), because
  undo is `Archiver`'s business; a modification sets it for all views of the
  buffer, since all observers at the root are told (`archive_announce`).
  `CurWin`, `CurBuf` are `get_window`, `get_buffer`. Views are numbers that are
  reused; a freed view forgets its style and its mark. `excused` is a ghost: the
  buffers in which one of four named leaks of marks has happened since they were
  last saved or reverted. A step that is one of these leaks puts its buffer in;
  no step looks at whether a change is hidden thereby.
* `EventLoop` cuts `update` where other code runs: `StartUpdate`, one action per
  kind of event handled (`Key…`, `DoCommand`, `Notify`), `StartCommands` and one
  action per delayed command (`Requeue`, `RunCommand`, `RunBoot`, `AutoSave`),
  `EndCommands`, `FinishUpdate`. Qt's calls (`UserInput`, `CloseButton`,
  `SocketActivated`) come between two updates; what a handler puts in the queues
  comes in the middle of one. Time passes while the program rests and while a
  handler or a delayed command is at work (`Busy`). Times are countdowns, which
  keeps the state space finite.
* `Connections` writes the functions of `connection.cpp` and `plugin-eval.scm`
  as operators from connection to connection, because they call each other:
  `Notified` may write the next input and change the status that it is about to
  record. Actions are what the event loop or the user start: `Feed`,
  `Callback`, `Interrupt`, `Stop`, `ForcedEval`, `ForcedRead`. The plug-in
  (`Plugin…`) is external; it may be silent, speak, end its answer, die or
  answer late to a signal at any moment.
* `Observers` gives nodes an identity and inverse paths their cells, which nodes
  share and `set_ip` overwrites in place; `world` is the state of all objects,
  and `Apply` is `apply` with everything that its announcement postpones.
  `Closest`, `NotifyPosition` and `NotifyPointer` together are the case
  analyses of `raw_apply` and of the observers.

## 4 What the runs check

`Editing` is bounded by `MaxEvents`, the number of events handled, in the guard
`Event`; a behaviour ends there, so deadlock is not checked. `Windows` and
`Observers` are bounded in the same way, by commands and by modifications;
`Connections` may have nothing left to do. `EventLoop` never stops, and deadlock
is checked. `MaxRounds` (12) bounds the rounds of a loop of the archiver: an
event adds at most two items, a marker and what follows it, so no instance comes
near it, and each round of `undo`, `redo` or `mark_cancel` removes an item or
stops. `MCMaxLength` (3) bounds a paragraph. No symmetry is used.

`MCEditing` has a document of two paragraphs, the first with a character `a`. An
author types its own name (so that the author of every character is known) or
removes the `a`; typing is joined by `simplify`, removing is not, and the two
together do not commute, so that the rules for joining, cancelling and moving
all have cases.

| Run | Instance | Shows |
|---|---|---|
| `commutation` | five documents and all pairs of modifications of them (30 215 states), alone and as items of a history, with and without an archived cursor | inverses give the document back; swapping keeps the effect, can be swapped back (but for `RefusesBack`) and does not drift; joining and compactifying keep the effect; a swapped pair still undoes **and** redoes |
| `all_handlers` | one view, one plug-in, all handlers but pre-edits, 4 events; 98 439 states | no assertion fails, no loop hangs, depth is the number of items, nothing stays unconfirmed; no result lies below the birth of its author; a drag is one item; a tentative modification that is given up leaves past and branches as they were |
| `history` | one view, 7 events: key, undo, redo, clearing; 14 335 states | every item and every branch of the history stays applicable; redo reverses undo; the archive implements `UndoTree` (below) |
| `saving` | one view, 6 events: edits, undo, save, autosave; 31 478 states | a document that counts as saved is the one that was saved |
| `shortcuts` | one view, 5 events: keys, shortcuts, pre-edits, clicks, suspension; 9 008 states | never two blocks at once; the marker can be reached; cancelling gives back the document before the block |
| `two_views` | two views, a paragraph each, 6 events; 4 414 states | undo in one view leaves the other's paragraph alone |
| `shared_paragraph` | two views in the same paragraphs, 4 events; 17 365 states | both archives stay applicable when items cannot pass each other and a marker is out of reach |
| `windows` | two windows, up to four views, a buffer without a name, a file and the buffer of a widget, 6 commands; 393 234 states | `ViewsShown`: windows and views fit, the assertions of `get_view` and `get_window` hold; `UnsavedIsKnown`, `NothingLostUnasked`: changes are marked, and asked about before they are given up, but for named exceptions |
| `event_loop` | a document, a key, a delayed command, a plug-in, autosave 0 or 2 units, one round of events per update; 138 354 states | `NothingForgotten`: no update is missed, no notifier stays disabled; `AllServed`, `Autosaving`, `SettlesDown`: liveness |
| `connections` | two evaluations and an empty one, two messages in the pipe at a signal; 52 663 states | `InStep`, `PendingWaits`, `OwnOutput`; `EndsInOrder`: implements `Evaluations!Spec`; `NobodyWaits`: liveness |
| `observers` | four documents and all sequences of two modifications; 13 339 states | `ObserversFit`, `PositionsFollow`, `LeavesPassive`, `LinksHold` |

One run is kept that TLC must find violated, `test_commute` (section 5).

Several properties are conjunctions of named parts, each with its own comment in
the module: `ShrinkKeepsEffect` (joining and compactifying), `ViewsShown`,
`NothingForgotten`, `AllServed`, `Autosaving`, `NobodyWaits`, `ObserversFit`,
`PositionsFollow`, `LinksHold`.

*Fairness.* Only `EventLoop` and `Connections` have liveness properties. Weak
fairness of `Loop` says that the program, which has one thread, goes on with the
update it is in and starts the one its timer asks for. Strong fairness of `Tick`
says that time passes although updates run in between. Strong fairness of
`SocketActivated` says that Qt looks at every readable socket each time it has
nothing else to do, which it does on every pass of its own loop, although the
notifier is disabled in between. Weak fairness of `Callback` or `ForcedRead` is
what `EventLoop` shows of a socket (`SocketsRead`). Weak fairness of
`PluginBoots`, `PluginReads` or `PluginEnds` is the one assumption about an
external program: a plug-in that lives ends its answers. Nothing is assumed of
the user, nor of the death of a plug-in or its answer to a signal.

`KeepsUndoTree` says that `Editing` with one view implements `UndoTree!Spec`
under the mapping `TreeOf`, which plays the whole archive back: `past` gives the
documents on the way to the root, `redo` the futures that start at each. An undo
must lead to the document before, a redo to the document that was left, and no
document may be forgotten except by joining two edits between which no branch
starts. The property is `Promised!Init` and every step a `Promised!Step` or a
stutter, with the two trees bound by `LET` before they are compared, since TLC
would otherwise play the archive back anew at each use of the mapped variable.

Why the bounds are enough to be interesting: 7 events give two branches at one
point of the history with an item below and above it, which is the smallest
situation where `split`, `make_future` and `append_branches` disagree if one of
them is wrong; 4 events of all handlers reach a marker that is set, covered,
undone and looked for; 6 events of two views reach an own item below two foreign
ones. In `windows`, 6 commands open a second window, show the same buffer in
both, hide a view, modify, ask and answer from the other window; a third buffer
and four views let a passive view be found, reused and deleted. In `event_loop`,
one round per update makes the limit of rounds bite with a single key, and a
command with a pause of its own can be called, postponed and due again while the
preference changes; a second key or command only multiplies the states. In
`connections`, the empty evaluation ends within the notification that ends the
one before, so that a queue of three takes every path of `plugin-do`. In
`observers`, the second modification meets the shared cells, moved positions and
reattached pointers that the first one left; the documents have a join of
compounds, a join of strings, a link in each direction and a link of a link. The
mutants listed in `PROJECT.json` confirm this: each property is
violated in its run when the named definition gets a plausible mistake.

Conditions under which properties are stated, all of them visible in the modules:

* `LosesLabel`: a join of nodes with different labels, whose inverse is a split
  that gives both halves the label of the first (`commute.cpp`, `invert`); undo
  does not restore such a document.
* `WrapsTwice`: two nested insertions of a node, which `swap` gets wrong (a
  finding below).
* `RefusesBack`: the pairs that `swap` exchanges and then refuses to exchange
  back, for which `test_commute` calls `FAILED` (`commute.cpp:426-443`; its list
  has no cursors and no such join). `SwapBack` demands of all other pairs that
  they can be swapped back, and of every pair that is, that it returns or takes
  turns.
* `Replaces`: an insertion where something was removed. `possible_inverse`
  compares no indices (`patch.cpp:359-364`), so that such items can be swapped
  though their modifications and inverses then disagree; undo followed by redo
  may give another document, as when a plug-in writes where a dragged object was.
* `saving` has no redo, `all_handlers` and `history` no pre-edits, and
  `UndoIsOwn` looks at archives with the right authors, because of the findings.
* `DragIsOneItem` leaves out drops that interrupt a shortcut: when its marker
  goes, the object taken is joined with what was typed before, and `retract`
  reopens both.
* `UnsavedIsKnown` and `NothingLostUnasked` leave out the buffers in `excused`,
  where one of four things has happened since the buffer was saved or reverted:
  a new view of it took the marks of the others away, or got the style that the
  file had when it was loaded and not the one it has now (`Leaks`); it was saved
  while two views had different styles (`OtherStyle`); the only view with a mark
  was deleted with its window (`LastMark`); an initial environment was set
  (`InitEnv`).
* `NothingLostUnasked` besides excepts three steps: an answer that closes the
  buffer in use though another one was asked about (`Moved`), the button of a
  widget that leaves the program (`WidgetQuits`), and, for a style only, the
  closing of the window in use, whose view is deleted (`ViewClosed`).
* `SettlesDown` leaves out a program without delayed commands.
* `InStep` and `OwnOutput` are about plug-ins that have not been interrupted
  since their start; `ForcedEval` is modelled while no evaluation is pending.
* `InOrder` leaves out positions behind the first of two compounds that are
  joined (`Jumps`); `KeepsPlace` positions exactly where text is inserted or a
  string is split (`AtSeam`); `LeavesPassive` nodes whose cells do not form a
  chain (`Shared`); `MirrorsAgree` trees of which one contains the other.

## 5 Findings

`test_commute` is a run that TLC must find violated: two nested insertions of
different nodes do not commute, though `swap` says they do. Where the second
wraps the child that the first one wrapped, line 219 of
`Data/History/commute.cpp` extends the path of the first insertion (`[0]` becomes
`[1,0]` when the second path is `[0,1]`); it should keep it, as line 218 does
for the other kinds. The routine `test_commute` of the same file calls `FAILED`
("inconsistency", 420) for every swap whose two orders differ. Its own list does
not meet the case: all its insertions of a node insert the same tree at the same
index, and such a pair is swapped to itself.

The following are not kept as runs; the models show or contain them, and the
conditions in section 4 exclude them from the properties.

Modifications:

* `swap` cannot exchange some pairs back. Lines 287-290 mean to let a split, a
  join or a change of label pass back over a cursor at the same node, but are
  not reached when the modification in front is at the root of the two; 124,
  190, 199 and 206 refuse. The others are the wrapping of a node in front of a
  cursor in it (236), and in front of a join of two of its children at the
  index that the wrapped node gets (197-199).

Archives:

* Undo with nothing but a cursor to archive leaves `the_owner` behind; what the
  other view types next is archived as the undoer's own (`archiver.cpp:309-311`).
* Saving at depth 2 is followed by `simplify`, which makes the depth 1; a redo
  leads to depth 2 again, with another document, which counts as saved (388).
* Undo from the menu during a pre-edit, then a key: the assertion "cannot remove
  marker" fails (515).
* `retract` takes the branches of the wrong part; what could be redone before a
  drag is lost (343-344).

Windows and saving:

* A new view of a buffer without a name runs `init-buffer.scm`, whose last line
  pretends that the buffer has been saved, on **all** its views
  (`tm_file.cpp:424-430`); text typed in another view is then given up by quit
  without a question.
* `init_env` and `init_default` never call `require_save`, and `init_style`
  marks one view only; the file is saved with the style of the view in use.
* `kill_window` asks nothing when another window is open. The view it deletes
  may be the only one with a mark, and it takes the style set in it along.
* A new view of a file gets the style the file was loaded with (`Leaks`), though
  the file may have been saved with another one since.
* `kill_window_and_buffer`, the button of a widget's window, leaves the program
  without a question when there is one buffer (`tm_data.cpp:618`) or no other
  window (612). Six commands do it: modify a buffer, switch to another one, open
  the window of a widget, go back to the first window, close it, press the
  button of the widget; the change of the first buffer is gone.
* The question before closing waits in the footer; the answer applies to the
  buffer in use when it is given (`tm-server.scm:123-140`).
* `window_set_buffer` on the window in use would leave no view shown; nothing
  calls it so. The close button delays `safely-kill-window`, which acts on the
  window in use by then. A focus event queued for the editor of a deleted view
  would fail "invalid situation" (`tm_server.cpp:360`).

Event loop:

* Without any delayed command `lapse` stays in the past, and every update asks
  for the next one at once (`qt_gui.cpp:958`): with autosaving disabled the
  program never rests, contrary to the comment at 966-971.
* A file that could not be autosaved counts as autosaved (`tm_file.cpp:384`).
  Each change of the preference adds another chain of autosaves.
* `delayed` within a dialogue uses `exec-delayed`, whose commands
  `exec_pending_commands` does not put back: one that asks for a pause is dropped.

Connections:

* An interrupted plug-in may still answer; its answer meets the next evaluation.
* A forced evaluation while others are pending takes the answer of another one.
* `plugin-eval` of a plug-in that died after its start loops: the connection is
  neither started again nor ever waiting for input.

Observers:

* `attach_ip` links the children of an attached node to a fresh cell
  (`ip_observer.cpp:215`) and not to the node's own, so that below a node that
  is removed later there is still a path: the tree counts as active though it is
  no part of a document any more (`doc/devel/scheme/edit/edit-model.en.tm:81-83`
  in `TeXmacs/` has the distinction).
* A position behind the first of two compound trees goes behind both when they
  are joined; the offset for a join is chosen by whether the *parent* is atomic
  (`observer.cpp:239`), so that `N` is called on strings too, which gives their
  length only because strings and arrays have the same layout.
* Modifications of detached or busy trees are dropped without a message
  (`observer.cpp:398-404`).
* A pointer with a link that moved to the global root would make a mirrored
  modification fail ("cannot alter global root"). Editing never removes the
  children of that root, and the model does not either.

## 6 What is proved

| Theorem | States |
|---|---|
| `ArchivesKeepShape` (`EditingProofs`) | `[]ArchiveShape`: in every archive `depth` is the number of items and there is one forest of futures per number of undone items |
| `EditingTypes` (`EditingProofs`) | `[]TypeOK`; in particular the markers handed out never exceed those that exist |
| `MarksExclude` (`EditingProofs`) | `[]OneMark`: no view is in a shortcut and a pre-edit at once, as the assertion in `key_press` demands |
| `NothingIsOpen` (`EditingProofs`) | `[]Confirmed`: between events no archive has modifications that are not confirmed, and none waits to be confirmed |
| `InverseUndoes` (`ModificationsProofs`) | the inverse of an applicable modification applies to the result, gives the tree back, and its own inverse has the effect of the modification; joins that lose a label excepted |
| `InversesRestore` (`ModificationsProofs`) | `[]InverseRestores`: the same of all steps of `Pairs` |
| `SwapsAgree` (`SwapProofs`) | when `SwapMods` gives another order of two modifications, each is applicable when its turn comes and the result is the same tree; two nested insertions of a node excepted |
| `SwapsKeepEffect` (`SwapProofs`) | `[]SwapKeepsEffect`: the same of all pairs in `Pairs` |
| `SwapsBack` (`SwapProofs`) | `[]SwapBack`: a swapped pair can be swapped back, but for those of `RefusesBack`; that gives the pair one came from, or two orders that take turns |
| `WindowsTypeOK` (`WindowsProofs`) | `[]TypeOK` of `Windows`: nothing is listed twice, and a view has one buffer, which is listed |
| `ShownAndInUseFit` (`WindowsProofs`) | `[]ViewsShown`: each open window shows one view, of a listed buffer; the view in use is shown |
| `ChangesAreKnown` (`WindowsProofs`) | `[]UnsavedIsKnown`: a buffer that is not as in its file has a view that is marked (one is enough), but in the buffers of `excused` |
| `NothingElseIsLost` (`WindowsProofs`) | `NothingLostUnasked`: no step gives up a change the user was not asked about, with the exceptions of section 4 |
| `LoopTypeOK` (`EventLoopProofs`) | `[]TypeOK` of `EventLoop` |
| `NothingIsForgotten` (`EventLoopProofs`) | `[]NothingForgotten`: no update is missed, and a disabled notifier has its event in the queue |
| `AutosaveIsScheduled` (`EventLoopProofs`) | `[]AutosaveScheduled`: the autosave, or the boot that starts it, never drops out of the queues; a part of the property `Autosaving` |
| `InOrder` (`ConnectionsProofs`) | `EndsInOrder`: `Connections!Spec` implements `Evaluations!Spec`; evaluations end in their order and each once |
| `Waits` (`ConnectionsProofs`) | `[]PendingWaits`: who is pending waits for a plug-in that lives and whose answer will be noticed |
| `OneAnswer` (`ConnectionsProofs`) | `[]InStep`: one answer is on its way when the connection waits for output, and none when it does not |
| `ToItsOwn` (`ConnectionsProofs`) | `OwnOutput`: all output goes to the evaluation it is about |
| `Typing` (`ConnectionsProofs`) | `[]TypeOK` of `Connections` |
| `IterateKeeps` (`IterationProofs`) | what every round of a loop keeps, the loop keeps |

The theorems about `Editing` hold for all sets of views and slaves, all documents, all
choices of edits, cursors and handlers, every bound, and **any** operations on
patches: the eight operations on patches and the two on futures are parameters, and the proofs do not look
into them. So neither a wrong case in `swap` nor a refusal in `join` can make
`depth` differ from the number of items, or leave an archive unconfirmed. Those
about `Windows`, `EventLoop` and `Connections` hold for all constants that fulfil
the assumption of the module, and those about modifications for all finite trees
over any labels.

*Assumptions.* The assumptions about constants are named, and TLC evaluates them
in the runs:

* `EditingAssumption`: markers, authors and "no author" differ, and `MaxEvents` is
  a number (`MaxRoundsAssumption` in `Archiver`: so is `MaxRounds`). Nothing is assumed of patches, not even that a patch has finitely many
  modifications: `Iterate` is total (a number of rounds that is no number stands
  for no round).
* `WindowsAssumption`: buffers without a name and buffers of widgets are buffers,
  there is room for a view, "no window" is no window.
* `EventLoopAssumption`: bounds and times are numbers, the bounds not 0, the
  preference has a value, and no command is called like the two built in.
* `ConnectionsAssumption`: the empty evaluations are evaluations, the prompt is
  none, and neither is the value that stands for "no evaluation".

Some theorems have a hypothesis besides. `NothingIsOpen` supposes that no edit
assigns what is there already (`EditsAreRecorded`): such an assignment is not
recorded, and where it put back a dragged object, `retract` would reopen the last
item in an archive that does not wait to be confirmed; the code puts objects back
by insertions. `InversesRestore`, `SwapsKeepEffect` and `SwapsBack` suppose that the
documents are finite trees and that the modifications tried are some the
constructors make (`Modification`: the path is long enough for its kind, the tree
of an insertion is a tree). `SwapsBack` supposes besides that an insertion inserts
something and a removal removes something (`IsSolid`), as do those that
`MCModifications` tries. With others it is wrong: let nothing be inserted at
position 1 and then child 0 be removed. `swap` puts the insertion last, at position
0; swapping back puts it first, still at position 0, and there the two cannot be
swapped any more.

*Archives.* `ArchiveShape` is not inductive as it stands: it says nothing of
what the archives are, so that `EXCEPT` on them could do anything. The
strengthening is `IsWorld(hist)`: `hist` has its five fields, one archive per
view, and each archive is a record of its seven fields with `past` and `redo`
sequences, `Len(redo) = Len(past) + 1` and `depth = Len(past)`. Every operator of
`Archiver` gets a lemma that it keeps `IsArchiver` or `IsWorld`; loops are instances of
`IterateKeeps`, whose hypothesis is the lemma about one round. `WorldNext`
collects one lemma per group of handlers. `MarksExclude` is inductive together
with the types of the marks (`MarkType`).

`Confirmed` gets the invariant `Settled(hist)`, which drops the condition that no
assertion failed. Within an event it does not hold; there the proof follows
`Awaits`, "whoever has current modifications waits to be confirmed", through the
chain of operators that a handler is. Two of its steps break even that: `retract`
and a marker of `mark_start` give a view current modifications without letting it
wait. What follows at once repairs it, `cancel` in `forget` and `mark_cancel`,
`confirm` in `mark_start`, so that between them `AwaitsBut(w, v)`, which excepts the
view at work, is what is kept. Dropping cursors, the birth of a plug-in's author
and `sketch-commit` are safe for another reason: a modification before them made
all views wait (`AllAwait`).

*Modifications.* Paths are walked by recursive functions (`SubTree` downwards,
`Put` upwards); facts about them are proved by taking the shortest, or the last,
prefix of the path where they fail. `Splice` is characterized by its length and
its elements (`IsSplice`), from which the lemma of each kind of modification
follows at one node (`Restores`), and `Put` carries it to the root. `Trees(L)` is
the union of the levels of finite trees over the labels `L`; that it is closed
under making nodes (`IsTrees`) is all the proofs use of it.

*Swapping.* `SwapMods` strips both paths of what they have in common. `Deep(h, m)`
is m below the path h, and what two modifications do to the node at h they do to
the tree (`SameDeep`); that the common part is what it should be follows from
`CommonDepth` being a maximum (`CommonFacts`, `StripFacts`). At that node the four
kinds that change a list of children are one: an edit (`IsEdit`) replaces n
children after position i by others, and `Growth` is what `swap` shifts positions
by. Two edits that do not overlap commute (`EditsApart`), from which
`SecondBefore` and `SecondAfter` follow; an edit commutes with a modification of a
child that it does not replace (`EditAndChild`), and two modifications of
different children do (`WithinBoth`). A new label, the wrapping of a node, the
taking out of one and a cursor have a lemma for each order. `ToRoot` and
`FromRoot` go through the cases of `SwapToRoot` and `SwapFromRoot`.

`SwapBack` needs no trees: it is about paths. `Returns` says of one answer that
swapping it again gives the pair it came from, or a pair that is answered by it.
The second happens twice: an insertion where a removal before it ends
(`ListsReturn`), and a node that is wrapped where another one was taken out
(`WrappedReturns`). `DeepCommon` shows that swapping does not change how long the
common part of the paths is, so that all this holds at any depth (`SwapDeep`). `Returns`
says where the way back leads; that it is open but for `RefusesBack` is
`Accepts`, for which `StrippedAccepts` goes through the same cases at the common
node. `RefusedDeep` carries the exceptions from there to the root.

*Windows.* `TypeOK` and `ViewsShown` are inductive together, not alone: that a
closed buffer leaves no view of itself in a window needs that views have one
buffer, and that a view can be chosen for a window needs that windows have one
view. `Keep`, `GetViews` and `Attach` are characterized first by what they list
and that they list nothing twice. For `UnsavedIsKnown`, the
invariant is `Known`, which adds that a buffer without a name still has the
default style as that of its file, since its new views get that style, and that
a closed buffer has no changes (`FilesFit`). `NothingLostUnasked`
follows for each step from `Known` before it: `StaysOpen` says which buffers and
views survive a step, `StepAsks` goes through the others, where `UnsavedIsKnown`
turns a change into a mark and the mark into a question.

*Event loop.* `TypeOK` needs `RoundIsLeft` (the count of a round in progress is
below the limit); `NoOversleep`, the first half of `NothingForgotten`, needs
`LapseFits`: `lapse` is no later than the start of any queued command, except
while the queue is being run. The second half and `AutosaveScheduled` are
inductive with the types.

*Connections.* `PendingWaits` is not inductive: it must also be known that a
`:start` item is never alone in the queue, that only a connection that lives is
dying, that no evaluation pends while the program waits for a forced one, which
has not ended, and that a plug-in at work has a job. The invariant `IInv` is
`TypeOK`, `Fit(con)` and these facts about `forced` and `job`. Each operator from
connection to connection has a lemma that it keeps `Fit` and, for the refinement,
which step of `Evaluations` it amounts to: reading the end of an answer is
`Answer(n)`, where n counts the empty evaluations that end with it, or no step;
noticing a death is `Cancel("dead")`. `StepInvariant` collects one case per
action, and `InOrder` uses the invariant for every step. `InStep` and `OwnOutput`
need to know where the one input or answer is: `Line` says that, unless the
plug-in was interrupted, it is in one of five stages (no input, booting, an input
written, the plug-in at work, an answer written), and that a process whose
connection is gone is dead. `Line` was checked with TLC before it was proved, which
showed that the last part was missing.

*Model-checked only.*

* Liveness, and everything with `ENABLED`: `AllServed`, `Autosaving`,
  `SettlesDown`, `NobodyWaits`.
* What depends on what patches do, since patches nest, their operators are
  recursive, and induction over them is out of reach of the provers used:
  `NoFailure`, `ResultAfterBirth`, `MarkInReach`, `HistoryApplies`,
  `RedoReversesUndo`, `UndoIsOwn`, `DragIsOneItem`, `TryLeavesNoTrace`,
  `KeepsUndoTree`, `SavedIsSaved`, `TakesBack`, `ShrinkKeepsEffect`,
  `SwapKeepsHistory`.
* `Observers`, which uses recursive operators on trees.

## 7 What is not modelled

* In the modelled files: the cursor position that undo jumps to (`cursor_hint`),
  selections in `archive_state`, opening and closing views in `Editing`, the
  reattachment of the undo observer when the root of the document is replaced,
  printing. `require_save` is modelled in `Windows`, not on an archive.
* Windows: renaming, projects, help and auxiliary buffers, menus, the geometry
  of windows, the file dialogs.
* Event loop: nested loops of modal dialogs, repaints that are interrupted, help
  balloons, input methods, modifiers of `delayed` other than pauses and idle
  times; the X11 and Cocoa loops.
* Connections: sockets (`socket_link.cpp`), dynamic links, the parsing of output
  into trees, the session that shows it, standard error.
* Observers: those of editors, of undo and of highlighting; modifications of
  detached trees; the registration of links, and links with more than two ends.
* Typesetter, converters, fonts, languages and styles: functions of their input
  without protocol state; the bulk of the repository, and out of TLC's reach.
  Likewise the generated glue (`Guile/Glue`) and the PDF library that comes with
  the program (`Plugins/Pdf/dvipdfmx`).
* Menus, dialogs and the Scheme libraries, except where they are cited above.
* File formats and the file system, apart from the fact that a save happened or
  failed.
