----------------------------- MODULE Connections -----------------------------
(***************************************************************************)
(* A connection with a plug-in: the pipes of the link, the status of the   *)
(* connection and what was last notified of it, and the queue of pending   *)
(* evaluations of its session, which is kept by plugin-eval.scm.           *)
(*                                                                         *)
(* The event loop calls the callback of the link when the plug-in has      *)
(* written something or has closed its pipes.  The connection parses the   *)
(* output, hands it to the oldest evaluation, and notifies each change of  *)
(* its status; the notification "waiting for input" ends the evaluation    *)
(* and writes the next one to the plug-in, from within the notification.   *)
(*                                                                         *)
(* The functions of connection.cpp and plugin-eval.scm call each other, so *)
(* they are operators here: each maps a connection c to the connection it  *)
(* leaves.  The plug-in is external.                                       *)
(***************************************************************************)
EXTENDS Naturals, FiniteSets, SequencesExt

CONSTANTS
  Evals,       \* the evaluations that can be fed
  Empty,       \* those that end without the plug-in (no input, output gone)
  Prompt,      \* the end of an answer of the plug-in
  MaxOut       \* bound on the messages in the pipe when a signal is handled

ASSUME ConnectionsAssumption ==
  Empty \subseteq Evals /\ Prompt \notin Evals /\ MaxOut \in Nat /\ "none" \notin Evals

VARIABLES
  con,         \* the connection, its link and its pending evaluations
  forced,      \* the evaluation the program waits for, and for what
  proc,        \* the plug-in: see TypeOK
  job,         \* the evaluation the plug-in works at
  signal,      \* an interrupt is on its way to the plug-in
  interrupted  \* ghost: the plug-in got one since it was started

vars == <<con, forced, proc, job, signal, interrupted>>

-----------------------------------------------------------------------------
Dead   == 0
Dying  == 1
Input  == 2
Output == 3
None   == "none"

(* made: the connection exists; starting: a :start item is at the head of  *)
(* the pending ones; inbox and out: the pipes to and from the plug-in.     *)
Connection ==
  [made : BOOLEAN, alive : BOOLEAN, status : {Dead, Dying, Input, Output},
   prev : {Dead, Input, Output}, starting : BOOLEAN, pending : Seq(Evals),
   inbox : Seq(Evals), out : Seq(Evals \cup {Prompt}),
   ended : [Evals -> {"no", "answered", "dead", "interrupted"}],
   got : [Evals -> SUBSET Evals]]

Waiting(c) == c.starting \/ c.pending # <<>>
InQueue(c, e) == e \in ToSet(c.pending)
New(e) == con.ended[e] = "no" /\ ~InQueue(con, e) /\ forced.eval # e

(* connection_status.                                                      *)
Status(c) == IF c.status = Dying THEN Output ELSE IF ~c.alive THEN Dead ELSE c.status

(* The evaluations in S end.                                               *)
EndAs(c, S, how) == [e \in Evals |-> IF e \in S THEN how ELSE c.ended[e]]

(* connection_rep::start.                                                  *)
Start(c) ==
  [c EXCEPT !.made = TRUE, !.alive = TRUE, !.status = Output, !.inbox = <<>>, !.out = <<>>]

(* connection_rep::write.                                                  *)
Write(c, e) ==
  [c EXCEPT !.inbox = IF c.alive THEN Append(@, e) ELSE @, !.status = Output]

(* The number of evaluations at the head of q that end without the plug-in.*)
NrEmpty(q) ==
  CHOOSE n \in 0 .. Len(q) :
    /\ \A i \in 1 .. n : q[i] \in Empty
    /\ n < Len(q) => q[n + 1] \notin Empty

(* plugin-do: the plug-in is started, or the next input is written to it.  *)
Do(c) ==
  IF c.pending = <<>> THEN c
  ELSE IF Status(c) = Dead THEN [Start(c) EXCEPT !.starting = TRUE]
  ELSE LET n == NrEmpty(c.pending)
           d == [c EXCEPT !.pending = SubSeq(@, n + 1, Len(@)),
                          !.ended = EndAs(c, {c.pending[i] : i \in 1 .. n}, "answered")]
       IN  IF d.pending = <<>> THEN d ELSE Write(d, Head(d.pending))

(* DoNext gone wrong: the queue advances before its head is told.          *)
DoNextAhead(c) ==
  IF ~Waiting(c) THEN c
  ELSE IF c.starting THEN Do([c EXCEPT !.starting = FALSE])
  ELSE Do([c EXCEPT !.pending = Tail(@),
                    !.ended = EndAs(c, {c.pending[i] : i \in {2} \cap DOMAIN c.pending}, "answered")])

(* plugin-next.                                                            *)
DoNext(c) ==
  IF ~Waiting(c) THEN c
  ELSE IF c.starting THEN Do([c EXCEPT !.starting = FALSE])
  ELSE Do([c EXCEPT !.pending = Tail(@), !.ended = EndAs(c, {Head(c.pending)}, "answered")])

(* CancelAll gone wrong: only the head is cancelled.                       *)
CancelAllFirst(c, how) ==
  [c EXCEPT !.starting = FALSE, !.pending = Tail(@),
            !.ended = EndAs(c, {Head(c.pending)}, how)]

(* plugin-cancel.                                                          *)
CancelAll(c, how) ==
  [c EXCEPT !.starting = FALSE, !.pending = <<>>, !.ended = EndAs(c, ToSet(c.pending), how)]

(* Notified gone wrong: "dying" is notified as such.                       *)
NotifiedRaw(c) == c.status

Notified(c) == IF c.status = Dying THEN Output ELSE c.status

(* connection_notify_status: prev_status is set after the call, which may  *)
(* have changed the status again.                                          *)
NotifyStatus(c) ==
  LET st == Notified(c)
  IN  IF st = c.prev THEN c
      ELSE [(CASE st = Dead   -> CancelAll(c, "dead")
               [] st = Input  -> DoNext(c)
               [] OTHER       -> c) EXCEPT !.prev = st]

(* Parse gone wrong: the newest evaluation gets the output.                *)
ParseNewest(c, s, e) ==
  LET of == IF e # None THEN {e} ELSE {c.pending[i] : i \in {Len(c.pending)} \ {0}}
  IN  [c EXCEPT
        !.status = IF ~c.alive THEN Dead ELSE IF Prompt \in ToSet(s) THEN Input ELSE @,
        !.got = [x \in Evals |-> IF x \in of THEN @[x] \cup (ToSet(s) \ {Prompt}) ELSE @[x]]]

(* connection_rep::read of the messages s, which the oldest evaluation     *)
(* gets, or the one in e that the program waits for.                       *)
Parse(c, s, e) ==
  LET of == IF e # None THEN {e} ELSE IF c.starting \/ c.pending = <<>> THEN {} ELSE {Head(c.pending)}
  IN  [c EXCEPT
        !.status = IF ~c.alive THEN Dead ELSE IF Prompt \in ToSet(s) THEN Input ELSE @,
        !.got = [x \in Evals |-> IF x \in of THEN @[x] \cup (ToSet(s) \ {Prompt}) ELSE @[x]]]

(* Listen gone wrong: the status is notified at the end only.              *)
ListenOnce(c, s) ==
  con' = IF c.status = Dead THEN NotifyStatus(c) ELSE NotifyStatus(Parse(c, s, None))

(* connection_rep::listen; c becomes the connection.                       *)
Listen(c, s) ==
  \E d \in {NotifyStatus(c)} :
    con' = IF d.status = Dead THEN NotifyStatus(d) ELSE NotifyStatus(Parse(d, s, None))

(* The pipes are read up to their k-th message; at their end the link dies.*)
ReadPipes(c, k, eof) ==
  [c EXCEPT !.alive = ~eof, !.out = IF eof THEN <<>> ELSE SubSeq(@, k + 1, Len(@))]

-----------------------------------------------------------------------------
Idle == [eval |-> None, phase |-> None]

Init ==
  /\ con = [made |-> FALSE, alive |-> FALSE, status |-> Dead, prev |-> Dead, starting |-> FALSE,
            pending |-> <<>>, inbox |-> <<>>, out |-> <<>>,
            ended |-> [e \in Evals |-> "no"], got |-> [e \in Evals |-> {}]]
  /\ forced = Idle
  /\ proc = "dead" /\ job = None /\ signal = FALSE /\ interrupted = FALSE

(* A start makes a new process.                                            *)
Spawn ==
  IF con'.alive /\ ~con.alive
  THEN proc' = "booting" /\ job' = None /\ signal' = FALSE /\ interrupted' = FALSE
  ELSE UNCHANGED <<proc, job, signal, interrupted>>

(* Feed gone wrong: the input is written at once.                          *)
FeedAtOnce(e) ==
  /\ forced = Idle /\ New(e)
  /\ con' = Do([con EXCEPT !.pending = Append(@, e)])
  /\ Spawn /\ UNCHANGED forced

(* plugin-feed: session-feed, silent-feed and plugin-command.              *)
Feed(e) ==
  /\ forced = Idle /\ New(e)
  /\ LET c == [con EXCEPT !.pending = Append(@, e)]
     IN  con' = IF con.pending = <<>> THEN Do(c) ELSE c
  /\ Spawn /\ UNCHANGED forced

(* There are k messages in the pipes, or they are closed.                  *)
Readable(k) ==
  /\ con.out # <<>> \/ proc = "dead"
  /\ k \in 0 .. Len(con.out) /\ (proc # "dead" => k = Len(con.out))

(* pipe_callback and connection_callback, when there is something to read. *)
(* When the pipes are closed too, what is still in them may be lost.       *)
Callback(k) ==
  /\ forced = Idle /\ con.alive
  /\ Readable(k)
  /\ Listen(ReadPipes(con, k, proc = "dead"), SubSeq(con.out, 1, k))
  /\ UNCHANGED <<forced, proc, job, signal, interrupted>>

(* plugin-interrupt; the link has nothing to listen to, as the callback    *)
(* always leaves it empty.                                                 *)
Interrupt ==
  /\ forced = Idle /\ con.made
  /\ IF Status(con) = Output /\ con.alive
     THEN /\ con' = CancelAll(NotifyStatus([con EXCEPT !.status = IF @ = Output THEN Dying ELSE @]),
                              "interrupted")
          /\ signal' = TRUE /\ interrupted' = TRUE
     ELSE con' = CancelAll(con, "interrupted") /\ UNCHANGED <<signal, interrupted>>
  /\ UNCHANGED <<forced, proc, job>>

(* plugin-stop.                                                            *)
Stop ==
  /\ forced = Idle /\ con.made /\ Status(con) # Dead
  /\ Listen([con EXCEPT !.alive = FALSE, !.inbox = <<>>, !.out = <<>>,
                         !.status = IF con.alive /\ @ = Output THEN Dying ELSE @], <<>>)
  /\ proc' = "dead" /\ job' = None /\ signal' = FALSE
  /\ UNCHANGED <<forced, interrupted>>

(* connection_eval: the program waits until the status is "waiting for     *)
(* input".  A connection is started when it was never made; one that died  *)
(* is not.  Known limit: only while no evaluation is pending (see README). *)
ForcedEval(e) ==
  /\ forced = Idle /\ New(e) /\ ~Waiting(con)
  /\ con' = IF con.made THEN Write(con, e) ELSE Start(con)
  /\ forced' = [eval |-> e, phase |-> IF con.made THEN "answer" ELSE "banner"]
  /\ Spawn

(* connection_retrieve.                                                    *)
ForcedRead(k) ==
  /\ forced # Idle
  /\ IF con.alive THEN Readable(k) ELSE con.status # Dead /\ k = 0
  /\ LET e == forced.eval
         of == IF forced.phase = "answer" THEN e ELSE None
     IN  \E c \in {Parse(ReadPipes(con, k, proc = "dead"), SubSeq(con.out, 1, k), of)} :
         IF c.status # Input THEN con' = c /\ UNCHANGED forced
         ELSE IF forced.phase = "banner"
              THEN con' = Write(c, e) /\ forced' = [forced EXCEPT !.phase = "answer"]
              ELSE con' = [c EXCEPT !.ended = EndAs(c, {e}, "answered")] /\ forced' = Idle
  /\ UNCHANGED <<proc, job, signal, interrupted>>

-----------------------------------------------------------------------------
(* The plug-in.                                                            *)
Say(s) == con' = [con EXCEPT !.out = @ \o s]

PluginBoots ==
  /\ proc = "booting" /\ proc' = "ready" /\ Say(<<Prompt>>)
  /\ UNCHANGED <<forced, job, signal, interrupted>>

PluginReads ==
  /\ proc = "ready" /\ con.inbox # <<>>
  /\ proc' = "busy" /\ job' = Head(con.inbox)
  /\ con' = [con EXCEPT !.inbox = Tail(@)]
  /\ UNCHANGED <<forced, signal, interrupted>>

PluginSpeaks ==
  /\ proc = "busy" /\ proc' = "spoken" /\ Say(<<job>>)
  /\ UNCHANGED <<forced, job, signal, interrupted>>

PluginEnds ==
  /\ proc \in {"busy", "spoken"} /\ proc' = "ready" /\ job' = None /\ Say(<<Prompt>>)
  /\ UNCHANGED <<forced, signal, interrupted>>

PluginDies ==
  /\ proc # "dead" /\ proc' = "dead" /\ job' = None /\ signal' = FALSE
  /\ UNCHANGED <<con, forced, interrupted>>

(* It goes on, or gives up its job, or just shows a new prompt.            *)
PluginInterrupted ==
  /\ signal /\ signal' = FALSE
  /\ \/ UNCHANGED <<con, proc, job>>
     \/ /\ proc \in {"ready", "busy", "spoken"} /\ Len(con.out) < MaxOut
        /\ Say(<<Prompt>>) /\ proc' = "ready" /\ job' = None
  /\ UNCHANGED <<forced, interrupted>>

-----------------------------------------------------------------------------
Program ==
  \/ \E e \in Evals : Feed(e)
  \/ \E k \in 0 .. Len(con.out) : Callback(k)
  \/ Interrupt
  \/ Stop
  \/ \E e \in Evals : ForcedEval(e)
  \/ \E k \in 0 .. Len(con.out) : ForcedRead(k)

Plugin ==
  \/ PluginBoots
  \/ PluginReads
  \/ PluginSpeaks
  \/ PluginEnds
  \/ PluginDies
  \/ PluginInterrupted

Next == Program \/ Plugin

(* The event loop calls the callback when there is something to read, and  *)
(* a plug-in that does not die comes to an end with its job.               *)
Fairness ==
  /\ WF_vars(\E k \in 0 .. Len(con.out) : Callback(k) \/ ForcedRead(k))
  /\ WF_vars(PluginBoots \/ PluginReads \/ PluginEnds)

Spec == Init /\ [][Next]_vars /\ Fairness

-----------------------------------------------------------------------------
(* Every variable keeps its type.                                          *)
TypeOK ==
  /\ con \in Connection
  /\ forced \in [eval : Evals \cup {None}, phase : {None, "banner", "answer"}]
  /\ proc \in {"dead", "booting", "ready", "busy", "spoken"}
  /\ job \in Evals \cup {None} /\ signal \in BOOLEAN /\ interrupted \in BOOLEAN

(* The ends of answers that are on their way from the plug-in.             *)
Coming ==
  Len(con.inbox) + Cardinality({i \in DOMAIN con.out : con.out[i] = Prompt})
    + (IF job # None THEN 1 ELSE 0) + (IF proc = "booting" THEN 1 ELSE 0)

(* The connection waits for output exactly when one answer is on its way:  *)
(* two inputs never meet in the plug-in, whichever of the functions wrote  *)
(* them.  An interrupt breaks this for the rest of the life of the plug-in:*)
(* the pending evaluations are cancelled at once and the next one is       *)
(* written while the plug-in still works at the old one.                   *)
InStep ==
  con.alive /\ proc # "dead" /\ ~interrupted =>
    Coming = (IF con.status = Output THEN 1 ELSE 0)

(* An evaluation that is pending waits for a plug-in that lives as far as  *)
(* the program knows, and whose answer will be noticed.                    *)
PendingWaits == Waiting(con) => con.alive /\ Notified(con) = Output

(* An evaluation gets no output of another one, unless there was an        *)
(* interrupt.                                                              *)
OwnOutput ==
  [][~interrupted => \A e \in Evals : con'.got[e] \subseteq con.got[e] \cup {e}]_vars

(* Evaluations end in their order, and each of them once.                  *)
Promise == INSTANCE Evaluations WITH queue <- con.pending, ended <- con.ended
EndsInOrder == Promise!Spec

(* Every evaluation that is fed ends: it is answered, or it learns that the*)
(* plug-in died or was interrupted; also when the plug-in answers to a     *)
(* question that was cancelled, and when it dies while the next input is   *)
(* written.                                                                *)
EveryEvaluationEnds ==
  \A e \in Evals : InQueue(con, e) ~> ~InQueue(con, e)

(* An evaluation the program waits for returns, unless the plug-in dies.   *)
ForcedReturns ==
  \A e \in Evals : forced.eval = e ~> forced.eval # e \/ proc = "dead"

(* Nobody waits for ever, neither a session nor the program itself.        *)
NobodyWaits == EveryEvaluationEnds /\ ForcedReturns
=============================================================================
