------------------------------- MODULE Windows -------------------------------
(***************************************************************************)
(* The buffers of the server, their views and the windows that show them.  *)
(*                                                                         *)
(* A buffer lists its views; a view that no window shows is passive and is *)
(* used again when the buffer is switched to.  Whether a buffer needs to   *)
(* be saved is a mark of each of its views, kept by the archive of the     *)
(* view: the buffer counts as unsaved when one of its views does.  Closing *)
(* a buffer and leaving the program ask first when there is something      *)
(* unsaved; the question is put in the footer of a window, and other       *)
(* windows can be used before it is answered.                              *)
(*                                                                         *)
(* Undo, which can bring a view back to its saved state, is modelled in    *)
(* module Archiver; here an edit only goes forward.                        *)
(***************************************************************************)
EXTENDS Naturals, SequencesExt

CONSTANTS
  Buffers,     \* the names of the buffers that can be opened
  Scratch,     \* those that have no name yet
  Hidden,      \* the buffers of widgets, which no menu lists
  Wins,        \* the windows that can be opened
  NrViews,     \* bound on the number of views at one time
  MaxEvents,   \* bound on the number of commands
  NoWin, NoQuestion

ASSUME WindowsAssumption ==
  /\ Scratch \subseteq Buffers /\ Hidden \subseteq Buffers
  /\ NrViews \in Nat \ {0} /\ MaxEvents \in Nat /\ NoWin \notin Wins

Views  == 1 .. NrViews
Styles == {"plain", "article"}

VARIABLES
  running,     \* the program has not been left
  bufs,        \* the buffers, the one used last first
  doc,         \* per buffer: the file, the style it was loaded with, changes
  vws,         \* per buffer, its views
  win,         \* per view, the window that shows it
  style,       \* per view, the style and initial environment of its editor
  need,        \* the views whose archive is not at its last save
  wins,        \* the windows that are open
  cur,         \* the view in use
  question,    \* the question that waits for an answer
  excused,     \* ghost: the buffers in which a leak of marks has happened
  events       \* the number of commands handled

vars == <<running, bufs, doc, vws, win, style, need, wins, cur, question, excused, events>>
views == <<vws, win, style, need>>

-----------------------------------------------------------------------------
(* The items of s that are in S, in their order.                           *)
Keep(s, S) ==
  LET kept[i \in 0 .. Len(s)] ==
        IF i = 0 THEN <<>>
        ELSE IF s[i] \in S THEN Append(kept[i - 1], s[i]) ELSE kept[i - 1]
  IN  kept[Len(s)]

ViewsOf(b) == ToSet(vws[b])
BufferOf(v) == CHOOSE b \in ToSet(bufs) : v \in ViewsOf(b)
CurBuf == BufferOf(cur)
CurWin == win[cur]

(* NeedsSave gone wrong: only the first view is asked.                     *)
NeedsSaveFirst(b) == b \notin Hidden /\ vws[b] # <<>> /\ vws[b][1] \in need

NeedsSave(b) == b \notin Hidden /\ ViewsOf(b) \cap need # {}

(* ExistsUnsaved gone wrong: only the buffer in use is asked.              *)
CurIsUnsaved == NeedsSave(CurBuf)
ExistsUnsaved == \E b \in ToSet(bufs) : NeedsSave(b)

(* What the editors show of b is not what the file of b holds.             *)
Differs(b) ==
  b \notin Hidden /\ (doc[b].changed \/ \E v \in ViewsOf(b) : style[v] # doc[b].file)

(* FocusMenu gone wrong: the buffer also keeps its old place.              *)
FocusMenuTwice(b) == <<b>> \o bufs

FocusMenu(b) == <<b>> \o Keep(bufs, Buffers \ {b})

FreeViews ==
  Keep([i \in 1 .. NrViews |-> i], Views \ UNION {ViewsOf(b) : b \in Buffers})

Passive == {v \in Views : win[v] = NoWin}

(* PassiveViews gone wrong: a view may be shown already.                   *)
AllViews(b) == vws[b]

PassiveViews(b) == Keep(vws[b], Passive)
ActiveViews(b) == Keep(vws[b], Views \ Passive)

(* The views of b that the windows ws get: passive ones first, then new    *)
(* ones.                                                                   *)
GetViews(b, ws) == SubSeq(PassiveViews(b) \o FreeViews, 1, Len(ws))

(* A new view of a buffer without a name runs init-buffer.scm, which gives *)
(* it the default style and pretends that the buffer has just been saved.  *)
StyleOfNew(b) == IF doc[b].scratch THEN "article" ELSE doc[b].loaded
NeedAfterNew(b, fresh) ==
  IF fresh # {} /\ doc[b].scratch THEN (need \ fresh) \ ViewsOf(b) ELSE need \ fresh

(* The leaks of marks.  A first one is a new view: that of a buffer without *)
(* a name takes the marks of the other views away; that of a file has the  *)
(* style the file was loaded with, also when another one was saved since.  *)
Leaks(b, ws) ==
  /\ ~(ToSet(GetViews(b, ws)) \subseteq ViewsOf(b))
  /\ IF doc[b].scratch THEN ViewsOf(b) \cap need # {} ELSE doc[b].loaded # doc[b].file

(* A second one is a file saved with the style of the view in use only.    *)
OtherStyle == \E v \in ViewsOf(CurBuf) : style[v] # style[cur]

(* A third one is that the only view with a mark is deleted.               *)
LastMark == ViewsOf(CurBuf) \cap need = {cur}

(* The buffers in S have had a leak, those in clean are as in their file.  *)
Excuse(S, clean) == excused' = (excused \ clean) \cup S

(* The windows ws show b, each in a view of its own, instead of the views  *)
(* in old; the views in gone are deleted.                                  *)
Attach(b, ws, old, gone) ==
  LET got   == GetViews(b, ws)
      fresh == ToSet(got) \ ViewsOf(b)
      new   == Keep(got, fresh)
  IN  /\ Len(ws) <= Len(PassiveViews(b) \o FreeViews)   \* the bound on views
      /\ vws' = [c \in Buffers |->
                   Keep(vws[c], Views \ gone) \o (IF c = b THEN new ELSE <<>>)]
      /\ win' = [v \in Views |->
                   IF v \in ToSet(got) THEN ws[CHOOSE i \in 1 .. Len(ws) : got[i] = v]
                   ELSE IF v \in old \cup gone THEN NoWin ELSE win[v]]
      /\ style' = [v \in Views |->
                     IF v \in fresh THEN StyleOfNew(b)
                     ELSE IF v \in gone THEN "plain" ELSE style[v]]
      /\ need' = NeedAfterNew(b, fresh) \ gone

Init ==
  \E b \in Buffers \ Hidden, w \in Wins :
    /\ running = TRUE
    /\ bufs = <<b>>
    /\ doc = [c \in Buffers |->
                [scratch |-> c \in Scratch, changed |-> FALSE,
                 file |-> IF c \in Scratch THEN "article" ELSE "plain", loaded |-> "plain"]]
    /\ vws = [c \in Buffers |-> IF c = b THEN <<1>> ELSE <<>>]
    /\ win = [v \in Views |-> IF v = 1 THEN w ELSE NoWin]
    /\ style = [v \in Views |-> IF v = 1 /\ b \in Scratch THEN "article" ELSE "plain"]
    /\ need = {}
    /\ wins = {w}
    /\ cur = 1
    /\ question = NoQuestion
    /\ excused = {}
    /\ events = 0

Step == running /\ events < MaxEvents /\ events' = events + 1

-----------------------------------------------------------------------------
(* Showing buffers.                                                        *)

SwitchToBuffer(b) ==
  /\ Step
  /\ b \notin Hidden
  /\ Attach(b, <<CurWin>>, {cur}, {})
  /\ cur' = GetViews(b, <<CurWin>>)[1]
  /\ bufs' = FocusMenu(b)
  /\ UNCHANGED <<running, doc, wins, question>>
  /\ Excuse({c \in {b} : Leaks(c, <<CurWin>>)}, {})

SwitchToActiveBuffer(b) ==
  /\ Step
  /\ ActiveViews(b) # <<>>
  /\ cur' = ActiveViews(b)[1]
  /\ bufs' = FocusMenu(b)
  /\ UNCHANGED <<running, doc, views, wins, question, excused>>

NewWindow(b, w) ==
  /\ w \notin wins
  /\ wins' = wins \cup {w}
  /\ Attach(b, <<w>>, {}, {})
  /\ cur' = GetViews(b, <<w>>)[1]
  /\ bufs' = FocusMenu(b)
  /\ UNCHANGED <<running, doc, question>>
  /\ Excuse({c \in {b} : Leaks(c, <<w>>)}, {})

OpenWindow(b, w) == Step /\ b \in (Scratch \cup Hidden) \ ToSet(bufs) /\ NewWindow(b, w)
CloneWindow(w) == Step /\ NewWindow(CurBuf, w)

WindowFindView(w) == CHOOSE v \in UNION {ViewsOf(b) : b \in ToSet(bufs)} : win[v] = w

(* Nothing in the sources calls this one for the window in use, where it   *)
(* would leave the server with a view that no window shows.                *)
WindowSetBuffer(w, b) ==
  /\ Step
  /\ b \in ToSet(bufs) \ Hidden
  /\ w \in wins \ {CurWin}
  /\ WindowFindView(w) \notin ViewsOf(b)
  /\ Attach(b, <<w>>, {WindowFindView(w)}, {})
  /\ UNCHANGED <<running, bufs, doc, wins, cur, question>>
  /\ Excuse({c \in {b} : Leaks(c, <<w>>)}, {})

WindowFocus(w) ==
  /\ Step
  /\ w \in wins \ {CurWin}
  /\ cur' = WindowFindView(w)
  /\ bufs' = FocusMenu(BufferOf(WindowFindView(w)))
  /\ UNCHANGED <<running, doc, views, wins, question, excused>>

(* The keyboard focus enters the canvas of a window.                       *)
FocusOnEditor(w) ==
  /\ Step
  /\ w \in wins
  /\ cur' = WindowFindView(w)
  /\ UNCHANGED <<running, bufs, doc, views, wins, question, excused>>

-----------------------------------------------------------------------------
(* Changing and saving the buffer in use; what is typed into a widget is   *)
(* not followed.                                                           *)

ModifyBuffer ==
  /\ Step
  /\ CurBuf \notin Hidden
  /\ doc' = [doc EXCEPT ![CurBuf].changed = TRUE]
  /\ need' = need \cup ViewsOf(CurBuf)
  /\ UNCHANGED <<running, bufs, vws, win, style, wins, cur, question, excused>>

InitStyle(s) ==
  /\ Step
  /\ CurBuf \notin Hidden
  /\ style' = [style EXCEPT ![cur] = s]
  /\ need' = need \cup {cur}
  /\ UNCHANGED <<running, bufs, doc, vws, win, wins, cur, question, excused>>

(* An initial environment variable is set: no archive is told, which is a  *)
(* leak of its own.                                                        *)
InitEnv(s) ==
  /\ Step
  /\ CurBuf \notin Hidden /\ s # style[cur]
  /\ style' = [style EXCEPT ![cur] = s]
  /\ UNCHANGED <<running, bufs, doc, vws, win, need, wins, cur, question>>
  /\ Excuse({CurBuf}, {})

(* The file gets the style of the view in use, and the buffer its name.    *)
SaveBuffer ==
  /\ Step
  /\ CurBuf \notin Hidden
  /\ doc[CurBuf].scratch \/ NeedsSave(CurBuf)
  /\ doc' = [doc EXCEPT ![CurBuf].scratch = FALSE, ![CurBuf].changed = FALSE,
                        ![CurBuf].file = style[cur]]
  /\ need' = need \ ViewsOf(CurBuf)
  /\ UNCHANGED <<running, bufs, vws, win, style, wins, cur, question>>
  /\ Excuse(IF OtherStyle THEN {CurBuf} ELSE {}, {CurBuf})

RevertBuffer ==
  /\ Step
  /\ CurBuf \notin Hidden /\ ~doc[CurBuf].scratch
  /\ doc' = [doc EXCEPT ![CurBuf].changed = FALSE, ![CurBuf].loaded = doc[CurBuf].file]
  /\ style' = [v \in Views |-> IF v \in ViewsOf(CurBuf) THEN doc[CurBuf].file ELSE style[v]]
  /\ need' = need \ ViewsOf(CurBuf)
  /\ UNCHANGED <<running, bufs, vws, win, wins, cur, question>>
  /\ Excuse({}, {CurBuf})

-----------------------------------------------------------------------------
(* Closing buffers and windows, and leaving the program.                   *)

Quit ==
  /\ running' = FALSE
  /\ question' = NoQuestion
  /\ UNCHANGED <<bufs, doc, views, wins, cur, excused>>

(* What b is when it is opened again.                                      *)
Reset(d) == [d EXCEPT !.changed = FALSE, !.loaded = IF d.scratch THEN "plain" ELSE d.file]

(* Every window that shows the buffer in use gets another buffer.          *)
KillBuffer ==
  LET buf     == CurBuf
      new_buf == Keep(bufs, Buffers \ {buf})[1]
      shown   == ActiveViews(buf)
      ws      == [i \in DOMAIN shown |-> win[shown[i]]]
  IN  IF Len(bufs) <= 1 THEN Quit
      ELSE /\ Attach(new_buf, ws, {}, ViewsOf(buf))
           /\ cur' = GetViews(new_buf, ws)[CHOOSE i \in DOMAIN shown : shown[i] = cur]
           /\ bufs' = Keep(bufs, Buffers \ {buf})
           /\ doc' = [doc EXCEPT ![buf] = Reset(@)]
           /\ question' = NoQuestion
           /\ UNCHANGED <<running, wins>>
           /\ Excuse({c \in {new_buf} : Leaks(c, ws)}, {buf})

(* The server goes to the first view in another window, and the view of    *)
(* the window is deleted with it.                                          *)
OtherViews(b) == Keep(vws[b], {v \in Views : win[v] \notin {NoWin, CurWin}})

OtherView ==
  LET first == CHOOSE i \in DOMAIN bufs :
                 /\ OtherViews(bufs[i]) # <<>>
                 /\ \A j \in 1 .. i - 1 : OtherViews(bufs[j]) = <<>>
  IN  OtherViews(bufs[first])[1]

CloseWindow(dead) ==
  /\ cur' = OtherView
  /\ bufs' = Keep(FocusMenu(BufferOf(OtherView)), Buffers \ dead)
  /\ wins' = wins \ {CurWin}
  /\ vws' = [c \in Buffers |-> IF c \in dead THEN <<>> ELSE Keep(vws[c], Views \ {cur})]
  /\ win' = [win EXCEPT ![cur] = NoWin]
  /\ style' = [style EXCEPT ![cur] = "plain"]
  /\ need' = need \ {cur}
  /\ doc' = [c \in Buffers |-> IF c \in dead THEN Reset(doc[c]) ELSE doc[c]]
  /\ UNCHANGED <<running, question>>
  /\ Excuse((IF LastMark THEN {CurBuf} ELSE {}) \ dead, dead)

KillWindow == Step /\ wins # {CurWin} /\ CloseWindow({})

(* The button that closes the window of a widget.                          *)
KillWindowAndBuffer ==
  /\ Step
  /\ CurBuf \in Hidden
  /\ IF Len(bufs) <= 1 \/ wins = {CurWin} THEN Quit
     ELSE CloseWindow(IF \A v \in ViewsOf(CurBuf) : win[v] = CurWin THEN {CurBuf} ELSE {})

Ask(q) ==
  /\ question' = q
  /\ UNCHANGED <<running, bufs, doc, views, wins, cur, excused>>

SafelyKillBuffer ==
  /\ Step
  /\ question = NoQuestion
  /\ IF NeedsSave(CurBuf) THEN Ask([what |-> "buffer", buf |-> CurBuf])
     ELSE KillBuffer

SafelyQuit ==
  /\ Step
  /\ question = NoQuestion
  /\ IF ExistsUnsaved THEN Ask([what |-> "quit"])
     ELSE Quit

(* The answer applies to the buffer that is in use when it comes.          *)
AnswerYes ==
  /\ Step
  /\ question # NoQuestion
  /\ IF question.what = "quit" THEN Quit ELSE KillBuffer

AnswerNo == Step /\ question # NoQuestion /\ Ask(NoQuestion)

Show ==
  \/ \E b \in Buffers : SwitchToBuffer(b) \/ SwitchToActiveBuffer(b)
  \/ \E b \in Buffers, w \in Wins : OpenWindow(b, w) \/ WindowSetBuffer(w, b)
  \/ \E w \in Wins : CloneWindow(w) \/ WindowFocus(w) \/ FocusOnEditor(w)

Change ==
  \/ ModifyBuffer \/ SaveBuffer \/ RevertBuffer
  \/ \E s \in Styles : InitStyle(s) \/ InitEnv(s)

Close ==
  \/ SafelyKillBuffer \/ KillWindow \/ KillWindowAndBuffer
  \/ SafelyQuit \/ AnswerYes \/ AnswerNo

Next == Show \/ Change \/ Close

Spec == Init /\ [][Next]_vars

-----------------------------------------------------------------------------
Questions ==
  {NoQuestion} \cup [what : {"quit"}] \cup [what : {"buffer"}, buf : Buffers]

(* The types of the variables, among them: a buffer is listed once, and a  *)
(* view belongs to one buffer, which is listed (new_view, delete_view).    *)
TypeOK ==
  /\ running \in BOOLEAN
  /\ bufs \in Seq(Buffers) /\ IsInjective(bufs)
  /\ doc \in [Buffers -> [scratch : BOOLEAN, changed : BOOLEAN, file : Styles, loaded : Styles]]
  /\ vws \in [Buffers -> Seq(Views)] /\ \A b \in Buffers : IsInjective(vws[b])
  /\ \A b, c \in Buffers : b # c => ViewsOf(b) \cap ViewsOf(c) = {}
  /\ \A b \in Buffers \ ToSet(bufs) : vws[b] = <<>>
  /\ win \in [Views -> wins \cup {NoWin}]
  /\ style \in [Views -> Styles]
  /\ need \subseteq UNION {ViewsOf(b) : b \in Buffers}
  /\ wins \subseteq Wins
  /\ cur \in Views
  /\ question \in Questions
  /\ excused \subseteq Buffers
  /\ events \in 0 .. MaxEvents

(* Every open window shows one view of a listed buffer, and closed windows *)
(* show none: window_find_view, which refresh uses without a test, finds   *)
(* a view, and no window is left with a view of a deleted buffer.          *)
WindowsShow ==
  /\ \A w \in wins : \E v \in Views : {u \in Views : win[u] = w} = {v}
  /\ \A v \in Views : win[v] # NoWin => \E b \in ToSet(bufs) : v \in ViewsOf(b)

(* The view in use belongs to a listed buffer and is shown by an open      *)
(* window: the assertions "no active view" and "no window attached to      *)
(* view" of get_view and get_window, on which every command relies.        *)
CurrentShown ==
  /\ \E b \in ToSet(bufs) : cur \in ViewsOf(b)
  /\ CurWin \in wins

(* What is shown and what is in use fit, whatever is closed in whichever   *)
(* order.                                                                  *)
ViewsShown == WindowsShow /\ CurrentShown

(* A change is known to be unsaved, whatever views are made, shown, hidden *)
(* and deleted, except in a buffer where a leak has happened since it was  *)
(* saved: Leaks (init-buffer.scm, or a style saved after loading),         *)
(* OtherStyle (save_buffer), LastMark (kill_window) and InitEnv.           *)
UnsavedIsKnown == \A b \in ToSet(bufs) \ excused : Differs(b) => NeedsSave(b)

(* A step gives up what was typed in b, or the style of one of its views:  *)
(* the program is left, or the buffer or the view is deleted.              *)
LosesText(b) == doc[b].changed /\ (~running' \/ b \notin ToSet(bufs'))
LosesStyle(b) ==
  \E v \in ViewsOf(b) : style[v] # doc[b].file /\ (~running' \/ v \notin ViewsOf(b)')

(* The user has agreed to it: the question was about leaving, or about b.  *)
Agreed(b) == AnswerYes /\ (question.what = "quit" \/ question.buf = b)

(* The three ways in which the program asks about nothing or about another *)
(* buffer: the answer came when b was in use, though the question was not  *)
(* about b; the button of a widget leaves the program when it closes the   *)
(* last window or the last buffer; and kill_window deletes the view in use *)
(* with its style.                                                         *)
Moved(b) == AnswerYes /\ question.what = "buffer" /\ CurBuf = b
WidgetQuits == KillWindowAndBuffer /\ ~running'
ViewClosed(b) == KillWindow /\ CurBuf = b

(* Nothing else is given up that the user was not asked about, over any    *)
(* number of views and windows, unless a leak has hidden it before: what   *)
(* was typed in a buffer survives its views and windows, and the questions *)
(* of safely-kill-buffer and safely-quit-TeXmacs are asked when needed.    *)
NothingLostUnasked ==
  [][\A b \in ToSet(bufs) \ (Hidden \cup excused) :
       /\ LosesText(b) => Agreed(b) \/ Moved(b) \/ WidgetQuits
       /\ LosesStyle(b) => Agreed(b) \/ Moved(b) \/ WidgetQuits \/ ViewClosed(b)]_vars
=============================================================================
