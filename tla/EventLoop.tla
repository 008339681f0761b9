------------------------------ MODULE EventLoop ------------------------------
(***************************************************************************)
(* The event loop of the graphical interface: the queue of events, the     *)
(* queue of delayed commands, the timer that starts an update, the sockets *)
(* of the plug-ins, and the delayed command that saves the buffers         *)
(* automatically.                                                          *)
(*                                                                         *)
(* Qt calls the program when an event arrives; the event is only put in a  *)
(* queue.  A timer with a single shot starts an update, which handles the  *)
(* queue, runs the delayed commands that are due, repaints and starts the  *)
(* timer again.  An update that forgets something leaves the program deaf  *)
(* until something else starts the timer.                                  *)
(*                                                                         *)
(* Times are relative: a countdown says how long from now, and Tick        *)
(* decreases all of them.  0 stands for now and for every moment before.   *)
(***************************************************************************)
EXTENDS Integers, FiniteSets, SequencesExt

CONSTANTS
  Docs,        \* the buffers
  Sockets,     \* the notifiers of the plug-ins
  Keys,        \* the keys (clicks, changes of the focus) that can wait
  Cmds,        \* the commands that can be delayed
  Prefs,       \* the lengths the preference "autosave" can have, 0 for never
  Idle,        \* the rest the boot command waits for
  Slice,       \* the longest pause between two updates
  MaxProc,     \* the number of rounds of events in one update
  MaxDelayed   \* bound on the number of delayed commands

ASSUME EventLoopAssumption ==
  /\ Prefs \subseteq Nat /\ Prefs # {}
  /\ Idle \in Nat /\ Slice \in Nat \ {0} /\ MaxProc \in Nat \ {0}
  /\ Cmds \cap {"auto", "boot"} = {}

Off == -1                                   \* the timer is not running

VARIABLES
  phase,       \* where the program is, see TypeOK
  count,       \* count_events
  waiting,     \* waiting_events
  needing,     \* needing_update
  timer,       \* the time left on updatetimer
  queue,       \* delayed_queue and start_queue
  batch,       \* the commands exec_pending_commands has still to look at
  lapse,       \* the time until lapse
  focused,     \* the editor has the keyboard focus
  rest,        \* the time since the last change, up to Idle
  pref,        \* the preference "autosave"
  need,        \* the buffers that need to be autosaved
  sock,        \* per notifier: "on", "off" or "removed"
  data         \* the notifiers whose socket holds something to read

events == <<count, waiting>>
user   == <<focused, rest>>
vars   == <<phase, events, needing, timer, queue, batch, lapse, user, pref, need, sock, data>>

-----------------------------------------------------------------------------
Least(S) == CHOOSE x \in S : \A y \in S : x <= y
Down(x)  == IF x > 0 THEN x - 1 ELSE x

Key(k)     == [kind |-> "key", id |-> k]
Command    == [kind |-> "command"]
Delayed    == [kind |-> "delayed"]
Socket(n)  == [kind |-> "socket", id |-> n]
Waits(e)   == e \in ToSet(waiting)

(* Only these events are counted by process_queued_events.                 *)
Sensible(e) == e.kind = "key"

(* A delayed command: what it does, when it is looked at next, and the     *)
(* pause that the command itself makes before it does something.           *)
Entry(what, start, own) == [what |-> what, start |-> start, own |-> own]

(* The pause a command asks for when it is called; 0 if it does its work.  *)
Left(e) == IF e.what # "boot" THEN e.own ELSE IF focused THEN Idle - rest ELSE Idle

Scheduled(what) == \E e \in ToSet(queue) \cup ToSet(batch) : e.what = what

(* ExecDelayed gone wrong: the timer is started within an update, too.     *)
ExecDelayedNow(es) ==
  /\ queue' = queue \o es
  /\ IF es = <<>> THEN UNCHANGED <<lapse, needing, timer>>
     ELSE lapse' = 0 /\ timer' = 0 /\ UNCHANGED needing

(* exec_delayed, exec_delayed_pause and needs_update.                      *)
ExecDelayed(es) ==
  /\ queue' = queue \o es
  /\ IF es = <<>> THEN UNCHANGED <<lapse, needing, timer>>
     ELSE /\ lapse' = 0
          /\ IF phase = "idle" THEN timer' = 0 /\ UNCHANGED needing
                               ELSE needing' = TRUE /\ UNCHANGED timer

(* add_event and needs_update.                                             *)
AddEvent(e) ==
  /\ waiting' = Append(waiting, e)
  /\ IF phase = "idle" THEN timer' = 0 /\ UNCHANGED needing
                       ELSE needing' = TRUE /\ UNCHANGED timer

(* delayed-auto-save.                                                      *)
DelayedAutoSave(p) == IF p > 0 THEN <<Entry("auto", 0, p)>> ELSE <<>>

Init ==
  /\ phase = "idle" /\ count = 0 /\ waiting = <<>>
  /\ needing = FALSE /\ timer = 0
  /\ queue = <<Entry("boot", 0, 0)>> /\ batch = <<>> /\ lapse = 0
  /\ focused = TRUE /\ rest = 0
  /\ pref \in Prefs
  /\ need = {}
  /\ sock = [n \in Sockets |-> "removed"] /\ data = {}

-----------------------------------------------------------------------------
(* What happens outside: time, the user, the plug-ins.                     *)

(* The handler of a key and a delayed command may take long, the loop      *)
(* itself takes less than the unit of time.                                *)
Busy ==
  \/ phase = "events" /\ \E k \in Keys : waiting # <<>> /\ Head(waiting) = Key(k)
  \/ phase = "commands" /\ batch # <<>> /\ Head(batch).what \in Cmds

Tick ==
  /\ (phase = "idle" /\ timer > 0) \/ Busy
  /\ timer' = Down(timer) /\ lapse' = Down(lapse)
  /\ queue' = [i \in DOMAIN queue |->
                 [queue[i] EXCEPT !.start = Down(@), !.own = Down(@)]]
  /\ batch' = [i \in DOMAIN batch |->
                 [batch[i] EXCEPT !.start = Down(@), !.own = Down(@)]]
  /\ rest' = IF rest < Idle THEN rest + 1 ELSE rest
  /\ UNCHANGED <<phase, events, needing, focused, pref, need, sock, data>>

UserInput(k) ==                             \* a key, the mouse, the focus
  /\ phase = "idle" /\ ~Waits(Key(k))
  /\ AddEvent(Key(k))
  /\ UNCHANGED <<phase, count, queue, batch, lapse, user, pref, need, sock, data>>

CloseButton(c) ==                           \* Qt calls quit of the window itself
  /\ phase = "idle" /\ ~Scheduled(c)
  /\ ExecDelayed(<<Entry(c, 0, 0)>>)
  /\ UNCHANGED <<phase, events, batch, user, pref, need, sock, data>>

PluginWrites(n) ==
  /\ sock[n] # "removed" /\ data' = data \cup {n}
  /\ UNCHANGED <<phase, events, needing, timer, queue, batch, lapse, user, pref, need, sock>>

SocketActivated(n) ==
  /\ phase = "idle" /\ sock[n] = "on" /\ n \in data
  /\ AddEvent(Socket(n)) /\ sock' = [sock EXCEPT ![n] = "off"]
  /\ UNCHANGED <<phase, count, queue, batch, lapse, user, pref, need, data>>

-----------------------------------------------------------------------------
(* One update, from its start to the moment it starts the timer again.     *)

(* StartUpdate gone wrong: delayed commands wait until there is no event.  *)
StartUpdatePolite ==
  /\ phase = "idle" /\ timer = 0
  /\ phase' = IF count < MaxProc THEN "events" ELSE "repaint"
  /\ timer' = Off
  /\ IF lapse = 0 /\ waiting = <<>> THEN waiting' = <<Delayed>> /\ needing' = TRUE
                                    ELSE needing' = FALSE /\ UNCHANGED waiting
  /\ UNCHANGED <<count, queue, batch, lapse, user, pref, need, sock, data>>

StartUpdate ==
  /\ phase = "idle" /\ timer = 0
  /\ phase' = IF count < MaxProc THEN "events" ELSE "repaint"
  /\ timer' = Off
  /\ IF lapse = 0 THEN waiting' = Append(waiting, Delayed) /\ needing' = TRUE
                  ELSE needing' = FALSE /\ UNCHANGED waiting
  /\ UNCHANGED <<count, queue, batch, lapse, user, pref, need, sock, data>>

(* The next event is taken out of the queue.  A round ends with a sensible *)
(* event; another round follows while there are events, up to the limit.   *)
Take(k, es) ==
  /\ phase = "events" /\ waiting # <<>> /\ Head(waiting).kind = k
  /\ waiting' = Tail(waiting) \o es
  /\ es # <<>> => needing' = TRUE
  /\ IF Sensible(Head(waiting))
     THEN /\ count' = count + 1
          /\ phase' = IF waiting' # <<>> /\ count' < MaxProc THEN "events" ELSE "repaint"
     ELSE UNCHANGED count

Handled == UNCHANGED <<timer, batch>>

(* What the handler of a key may do: change the text, save it, move the    *)
(* focus, put a command in one of the queues, change the preference, start *)
(* and stop plug-ins.                                                      *)
KeyEdits(d) ==
  /\ Take("key", <<>>) /\ Handled
  /\ need' = need \cup {d} /\ rest' = 0
  /\ UNCHANGED <<needing, queue, lapse, focused, pref, sock, data>>

KeySaves(d) ==
  /\ Take("key", <<>>) /\ Handled
  /\ need' = need \ {d}
  /\ UNCHANGED <<needing, queue, lapse, focused, rest, pref, sock, data>>

KeyFocus ==
  /\ Take("key", <<>>) /\ Handled
  /\ focused' = ~focused
  /\ UNCHANGED <<needing, queue, lapse, rest, pref, need, sock, data>>

KeyCommand ==                               \* process_command
  /\ Take("key", <<Command>>) /\ Handled
  /\ UNCHANGED <<queue, lapse, focused, rest, pref, need, sock, data>>

KeyDelays(c, own) ==
  /\ Take("key", <<>>) /\ Handled
  /\ ~Scheduled(c) /\ ExecDelayed(<<Entry(c, 0, own)>>)
  /\ UNCHANGED <<focused, rest, pref, need, sock, data>>

(* KeyPreference gone wrong: it replaces the command that waits already.   *)
KeyPreferenceRestarts(p) ==
  /\ Take("key", <<>>) /\ Handled
  /\ p # pref /\ pref' = p
  /\ queue' = SelectSeq(queue, LAMBDA e : e.what # "auto") \o DelayedAutoSave(p)
  /\ lapse' = 0 /\ needing' = TRUE
  /\ UNCHANGED <<focused, rest, need, sock, data>>

KeyPreference(p) ==                         \* notify-autosave
  /\ Take("key", <<>>) /\ Handled
  /\ p # pref /\ pref' = p
  /\ Len(queue) < MaxDelayed /\ ExecDelayed(DelayedAutoSave(p))
  /\ UNCHANGED <<focused, rest, need, sock, data>>

KeyPlugin(n) ==
  /\ Take("key", <<>>) /\ Handled
  /\ sock' = [sock EXCEPT ![n] = IF @ = "removed" THEN "on" ELSE "removed"]
  /\ data' = data \ {n}
  /\ UNCHANGED <<needing, queue, lapse, focused, rest, pref, need>>

DoCommand ==
  /\ Take("command", <<>>) /\ Handled /\ UNCHANGED phase
  /\ UNCHANGED <<needing, queue, lapse, focused, rest, pref, need, sock, data>>

(* The callback reads what there is, or the end of the file and removes    *)
(* the notifier; afterwards a notifier that still exists is enabled.       *)
Notify(n, eof) ==
  /\ Take("socket", <<>>) /\ Handled /\ UNCHANGED phase
  /\ Head(waiting).id = n
  /\ sock' = [sock EXCEPT ![n] = IF @ = "removed" \/ eof THEN "removed" ELSE "on"]
  /\ data' = data \ {n}
  /\ UNCHANGED <<needing, queue, lapse, focused, rest, pref, need>>

(* exec_pending_commands, command by command: the queue is emptied first,  *)
(* and whatever is put in it meanwhile waits for the next time.            *)
StartCommands ==
  /\ Take("delayed", <<>>)
  /\ phase' = "commands" /\ batch' = queue /\ queue' = <<>>
  /\ UNCHANGED <<needing, timer, lapse, user, pref, need, sock, data>>

Called(what) == phase = "commands" /\ batch # <<>> /\ Head(batch).what = what
Due == Head(batch).start = 0

(* Requeue gone wrong: the pause a command asks for is ignored.            *)
RequeueNow ==
  /\ phase = "commands" /\ batch # <<>>
  /\ ~Due \/ Left(Head(batch)) > 0
  /\ queue' = Append(queue, Head(batch))
  /\ batch' = Tail(batch)
  /\ UNCHANGED <<phase, events, needing, timer, lapse, user, pref, need, sock, data>>

Requeue ==
  /\ phase = "commands" /\ batch # <<>>
  /\ ~Due \/ Left(Head(batch)) > 0
  /\ queue' = Append(queue, IF Due THEN [Head(batch) EXCEPT !.start = Left(Head(batch))]
                                   ELSE Head(batch))
  /\ batch' = Tail(batch)
  /\ UNCHANGED <<phase, events, needing, timer, lapse, user, pref, need, sock, data>>

RunCommand(c) ==
  /\ Called(c) /\ Due /\ Left(Head(batch)) = 0
  /\ batch' = Tail(batch)
  /\ UNCHANGED <<phase, events, needing, timer, queue, lapse, user, pref, need, sock, data>>

RunBoot ==
  /\ Called("boot") /\ Due /\ Left(Head(batch)) = 0
  /\ batch' = Tail(batch) /\ ExecDelayed(DelayedAutoSave(pref))
  /\ UNCHANGED <<phase, events, user, pref, need, sock, data>>

(* auto_save: every buffer counts as saved, also when its file could not be*)
(* written.                                                                *)
AutoSave ==
  /\ Called("auto") /\ Due /\ Left(Head(batch)) = 0
  /\ need' = {}
  /\ batch' = Tail(batch) /\ ExecDelayed(DelayedAutoSave(pref))
  /\ UNCHANGED <<phase, events, user, pref, sock, data>>

EndCommands ==
  /\ phase = "commands" /\ batch = <<>>
  /\ phase' = "events"
  /\ lapse' = IF queue = <<>> THEN lapse ELSE Least({e.start : e \in ToSet(queue)})
  /\ UNCHANGED <<events, needing, timer, queue, batch, user, pref, need, sock, data>>

(* After the last round; the round of an event that is not sensible ends   *)
(* when the queue is empty.                                                *)
RoundsDone == phase = "repaint" \/ (phase = "events" /\ waiting = <<>>)

(* FinishUpdate gone wrong: the events that are left are forgotten.        *)
FinishUpdateLate ==
  /\ RoundsDone
  /\ phase' = "idle" /\ count' = 0
  /\ timer' = IF needing THEN 0 ELSE Least({lapse, Slice})
  /\ UNCHANGED <<needing, waiting, queue, batch, lapse, user, pref, need, sock, data>>

FinishUpdate ==
  /\ RoundsDone
  /\ phase' = "idle" /\ count' = 0
  /\ needing' = (needing \/ waiting # <<>>)
  /\ timer' = IF needing' THEN 0 ELSE Least({lapse, Slice})
  /\ UNCHANGED <<waiting, queue, batch, lapse, user, pref, need, sock, data>>

-----------------------------------------------------------------------------
Loop ==
  \/ StartUpdate
  \/ \E d \in Docs : KeyEdits(d)
  \/ \E d \in Docs : KeySaves(d)
  \/ KeyFocus
  \/ KeyCommand
  \/ \E c \in Cmds, own \in {0, Slice} : KeyDelays(c, own)
  \/ \E p \in Prefs : KeyPreference(p)
  \/ \E n \in Sockets : KeyPlugin(n)
  \/ DoCommand
  \/ \E n \in Sockets, eof \in BOOLEAN : Notify(n, eof)
  \/ StartCommands
  \/ Requeue
  \/ \E c \in Cmds : RunCommand(c)
  \/ RunBoot
  \/ AutoSave
  \/ EndCommands
  \/ FinishUpdate

Outside ==
  \/ Tick
  \/ \E k \in Keys : UserInput(k)
  \/ \E c \in Cmds : CloseButton(c)
  \/ \E n \in Sockets : PluginWrites(n)
  \/ \E n \in Sockets : SocketActivated(n)

Next == Loop \/ Outside

(* The program makes its steps, time passes, and Qt looks at every socket  *)
(* each time it has nothing else to do.  Nothing is assumed of the user.   *)
Fairness ==
  /\ WF_vars(Loop) /\ SF_vars(Tick)
  /\ \A n \in Sockets : SF_vars(SocketActivated(n))

Spec == Init /\ [][Next]_vars /\ Fairness

-----------------------------------------------------------------------------
(* Every variable keeps its type, and the phases of an update fit: the     *)
(* timer runs exactly between two updates, and commands are looked at only *)
(* in the handling of an event.                                            *)
Entries == [what : Cmds \cup {"auto", "boot"}, start : Nat, own : Nat]

TypeOK ==
  /\ phase \in {"idle", "events", "commands", "repaint"}
  /\ count \in 0 .. MaxProc /\ needing \in BOOLEAN
  /\ waiting \in Seq({Key(k) : k \in Keys} \cup {Command, Delayed} \cup {Socket(n) : n \in Sockets})
  /\ timer \in Nat \cup {Off} /\ lapse \in Nat
  /\ queue \in Seq(Entries) /\ batch \in Seq(Entries)
  /\ focused \in BOOLEAN /\ rest \in 0 .. Idle
  /\ pref \in Prefs
  /\ need \subseteq Docs
  /\ sock \in [Sockets -> {"on", "off", "removed"}] /\ data \subseteq Sockets
  /\ (timer = Off) <=> (phase # "idle")
  /\ phase # "commands" => batch = <<>>

(* Between two updates the timer runs, and it ends before the next delayed *)
(* command is due, and at once when an event waits: whatever arrived       *)
(* during an update, from a handler or from a delayed command, is not left *)
(* for the next key of the user.                                           *)
NoOversleep ==
  phase = "idle" =>
    /\ timer # Off
    /\ waiting # <<>> => timer = 0
    /\ \A e \in ToSet(queue) : timer <= e.start

(* While the preference asks for it, a command that saves automatically is *)
(* waiting, or the one that starts them after the boot; also after a file  *)
(* could not be written and after the preference was changed.              *)
AutosaveScheduled == pref > 0 => Scheduled("auto") \/ Scheduled("boot")

(* A notifier that was disabled when its event was queued is enabled again *)
(* when the event is handled: as long as it is off, its event waits.       *)
OffIsQueued ==
  \A n \in Sockets : sock[n] = "off" => Waits(Socket(n))

(* Nothing is left for which no update will come.                          *)
NothingForgotten == NoOversleep /\ OffIsQueued

(* Every key is handled in the end, however much else arrives.             *)
KeysHandled == \A k \in Keys : Waits(Key(k)) ~> ~Waits(Key(k))

(* Every delayed command runs in the end: one that is not due yet, one that*)
(* asks for a pause when it is called, one that is put in the queue while  *)
(* the queue is being run.                                                 *)
CommandsRun == \A c \in Cmds : Scheduled(c) ~> ~Scheduled(c)

(* What a plug-in writes is read in the end, or the plug-in is stopped.    *)
SocketsRead == \A n \in Sockets : n \in data ~> n \notin data

(* No kind of work starves another one: keys, commands and sockets are all *)
(* served, however the user, time and the plug-ins interleave.             *)
AllServed == KeysHandled /\ CommandsRun /\ SocketsRead

(* Once autosaving has started, no change waits for ever, whatever the user*)
(* does to the preference and whichever files cannot be written.           *)
Autosaved ==
  \A d \in Docs : d \in need /\ Scheduled("auto") ~> d \notin need

(* Autosaving starts after the boot, unless the editor is never left alone *)
(* with the focus of the keyboard for long enough.                         *)
Disturbed ==
  []<><<KeyFocus \/ \E d \in Docs : KeyEdits(d)>>_vars \/ []<>~focused
BootEnds == Disturbed \/ <>~Scheduled("boot")

(* Autosaving starts, goes on, and saves everything (auto_save calls       *)
(* delayed-auto-save whatever happened).                                   *)
Autosaving == BootEnds /\ []AutosaveScheduled /\ Autosaved

(* When nothing more comes from outside, the updates become rare: an       *)
(* update that has nothing to do starts the timer with a pause.  The one   *)
(* exception is a program without any delayed command, which repeats its   *)
(* updates without a pause (see README).                                   *)
Arrival ==
  \/ \E k \in Keys : UserInput(k)
  \/ \E c \in Cmds : CloseButton(c)
  \/ \E n \in Sockets : SocketActivated(n)
SettlesDown ==
  []<><<Arrival>>_vars \/ []<>(timer > 0) \/ []<>(phase = "idle" /\ queue = <<>>)
=============================================================================
