--------------------------- MODULE EventLoopProofs ---------------------------
(***************************************************************************)
(* For any buffers, sockets, keys and commands, and any lengths of the     *)
(* pauses: the event loop keeps its types, it never forgets an event, a    *)
(* delayed command or a socket, and while the preference asks for it, a    *)
(* command that saves automatically is waiting.                            *)
(***************************************************************************)
EXTENDS EventLoop, SequenceTheorems, TLAPS

W == INSTANCE WellFoundedInduction

-----------------------------------------------------------------------------
(* Sequences as sets, and least elements *)

(* Which elements a sequence has after an append or a concatenation, and   *)
(* that its first element and the others are all.                          *)
LEMMA ElementsOfAppend ==
  ASSUME NEW S, NEW s \in Seq(S), NEW e \in S
  PROVE  ToSet(Append(s, e)) = ToSet(s) \cup {e}
<1>1. /\ DOMAIN Append(s, e) = 1 .. Len(s) + 1
      /\ DOMAIN s = 1 .. Len(s) /\ Len(s) \in Nat
      /\ \A i \in 1 .. Len(s) : Append(s, e)[i] = s[i]
      /\ Append(s, e)[Len(s) + 1] = e
  OBVIOUS
<1>2. 1 .. Len(s) + 1 = 1 .. Len(s) \cup {Len(s) + 1}
  BY <1>1
<1> DEFINE I == 1 .. Len(s)
           n == Len(s) + 1
           a == Append(s, e)
<1>3. /\ DOMAIN a = I \cup {n} /\ DOMAIN s = I
      /\ \A i \in I : a[i] = s[i]
      /\ a[n] = e
  BY <1>1, <1>2
<1> HIDE DEF I, n, a
<1>4. ToSet(a) = ToSet(s) \cup {e}
  BY <1>3, SMT DEF ToSet
<1> QED BY <1>4 DEF a

LEMMA ElementsOfConcat ==
  ASSUME NEW S, NEW s \in Seq(S), NEW t \in Seq(S)
  PROVE  ToSet(s \o t) = ToSet(s) \cup ToSet(t)
<1>1. /\ DOMAIN s = 1 .. Len(s) /\ DOMAIN t = 1 .. Len(t)
      /\ DOMAIN (s \o t) = 1 .. Len(s) + Len(t)
      /\ Len(s) \in Nat /\ Len(t) \in Nat
      /\ \A i \in 1 .. Len(s) : (s \o t)[i] = s[i]
      /\ \A i \in 1 .. Len(t) : (s \o t)[i + Len(s)] = t[i]
  OBVIOUS
<1>2. ToSet(s \o t) \subseteq ToSet(s) \cup ToSet(t)
  <2> SUFFICES ASSUME NEW i \in 1 .. Len(s) + Len(t)
               PROVE  (s \o t)[i] \in ToSet(s) \cup ToSet(t)
    BY <1>1 DEF ToSet
  <2>1. CASE i \in 1 .. Len(s)
    BY <2>1, <1>1, Zenon DEF ToSet
  <2>2. CASE i \notin 1 .. Len(s)
    <3>1. i - Len(s) \in 1 .. Len(t) /\ i = (i - Len(s)) + Len(s)
      BY <2>2, <1>1
    <3> QED BY <3>1, <1>1, Zenon DEF ToSet
  <2> QED BY <2>1, <2>2
<1>3. ToSet(s) \subseteq ToSet(s \o t)
  <2>1. 1 .. Len(s) \subseteq 1 .. Len(s) + Len(t)
    BY <1>1
  <2> QED BY <2>1, <1>1, Zenon DEF ToSet
<1>4. ToSet(t) \subseteq ToSet(s \o t)
  <2>1. \A i \in 1 .. Len(t) : i + Len(s) \in 1 .. Len(s) + Len(t)
    BY <1>1
  <2> QED BY <2>1, <1>1, Zenon DEF ToSet
<1> QED BY <1>2, <1>3, <1>4

LEMMA ElementsOfTail ==
  ASSUME NEW S, NEW s \in Seq(S), s # <<>>
  PROVE  ToSet(s) = ToSet(Tail(s)) \cup {Head(s)}
<1>1. /\ DOMAIN s = 1 .. Len(s) /\ DOMAIN Tail(s) = 1 .. Len(s) - 1
      /\ Len(s) \in Nat \ {0} /\ Head(s) = s[1]
      /\ \A i \in 1 .. Len(s) - 1 : Tail(s)[i] = s[i + 1]
  OBVIOUS
<1>2. ToSet(s) \subseteq ToSet(Tail(s)) \cup {Head(s)}
  <2> SUFFICES ASSUME NEW i \in 1 .. Len(s)
               PROVE  s[i] \in ToSet(Tail(s)) \cup {Head(s)}
    BY <1>1 DEF ToSet
  <2>1. i = 1 \/ (i - 1 \in 1 .. Len(s) - 1 /\ (i - 1) + 1 = i)
    BY <1>1
  <2> QED BY <2>1, <1>1, Zenon DEF ToSet
<1>3. Head(s) \in ToSet(s)
  <2>1. 1 \in 1 .. Len(s)
    BY <1>1
  <2> QED BY <2>1, <1>1, Zenon DEF ToSet
<1>4. ToSet(Tail(s)) \subseteq ToSet(s)
  <2>1. \A i \in 1 .. Len(s) - 1 : i + 1 \in 1 .. Len(s)
    BY <1>1
  <2> SUFFICES ASSUME NEW i \in 1 .. Len(s) - 1
               PROVE  Tail(s)[i] \in ToSet(s)
    BY <1>1 DEF ToSet
  <2> QED BY <2>1, <1>1, Zenon DEF ToSet
<1> QED BY <1>2, <1>3, <1>4

LEMMA ElementsType ==
  ASSUME NEW S, NEW s \in Seq(S)
  PROVE  ToSet(s) \subseteq S /\ (s = <<>> <=> ToSet(s) = {})
<1>1. DOMAIN s = 1 .. Len(s) /\ Len(s) \in Nat /\ \A i \in 1 .. Len(s) : s[i] \in S
  OBVIOUS
<1>2. s # <<>> => 1 \in 1 .. Len(s)
  OBVIOUS
<1>3. s = <<>> => DOMAIN s = {}
  BY <1>1
<1> QED BY <1>1, <1>2, <1>3, Zenon DEF ToSet

(* A set of natural numbers that is not empty has its least element.       *)
LEMMA LeastFacts ==
  ASSUME NEW S \in SUBSET Nat, S # {}
  PROVE  Least(S) \in S /\ \A y \in S : Least(S) <= y
<1>1. PICK m \in S : \A y \in S : ~(<<y, m>> \in W!OpToRel(<, Nat))
  BY W!NatLessThanWellFounded, W!WFMin, Zenon
<1>2. \A y \in S : ~(y < m)
  BY <1>1 DEF W!OpToRel
<1>3. \A y \in S : m <= y
  BY <1>2
<1> QED BY <1>3, Zenon DEF Least

-----------------------------------------------------------------------------
(* The inductive invariant *)

Events == {Key(k) : k \in Keys} \cup {Command, Delayed} \cup {Socket(n) : n \in Sockets}

(* The events are handled, and the commands looked at, only while a round  *)
(* is left in the update.                                                  *)
RoundIsLeft == phase \in {"events", "commands"} => count < MaxProc

TypeInv == TypeOK /\ RoundIsLeft

(* No delayed command is due before lapse, except while the queue is being *)
(* looked at.                                                              *)
LapseFits == phase # "commands" => \A e \in ToSet(queue) : lapse <= e.start

SleepInv == TypeInv /\ LapseFits /\ NoOversleep

-----------------------------------------------------------------------------
(* What the steps that the actions share do *)

LEMMA EventKinds ==
  /\ \A k \in Keys : Key(k) \in Events /\ Key(k).kind = "key"
  /\ Command \in Events /\ Command.kind = "command"
  /\ Delayed \in Events /\ Delayed.kind = "delayed"
  /\ \A n \in Sockets : Socket(n) \in Events /\ Socket(n).kind = "socket" /\ Socket(n).id = n
BY DEF Events, Key, Command, Delayed, Socket

LEMMA AutoEntries ==
  ASSUME TypeOK, NEW p \in Prefs
  PROVE  /\ DelayedAutoSave(p) \in Seq(Entries)
         /\ p > 0 => DelayedAutoSave(p) # <<>> /\ \E e \in ToSet(DelayedAutoSave(p)) : e.what = "auto"
<1>1. p \in Nat
  BY EventLoopAssumption
<1>2. Entry("auto", 0, p) \in Entries /\ Entry("auto", 0, p).what = "auto"
  BY <1>1 DEF Entry, Entries
<1>3. CASE p > 0
  <2>1. DelayedAutoSave(p) = <<Entry("auto", 0, p)>>
    BY <1>3 DEF DelayedAutoSave
  <2>2. ToSet(<<Entry("auto", 0, p)>>) = {Entry("auto", 0, p)}
    BY DEF ToSet
  <2> QED BY <2>1, <2>2, <1>2
<1>4. CASE ~(p > 0)
  BY <1>4 DEF DelayedAutoSave
<1> QED BY <1>3, <1>4

(* A command is put in the queue: nothing is taken out, and an update      *)
(* follows.                                                                *)
LEMMA ExecDelayedFacts ==
  ASSUME TypeOK, NEW es \in Seq(Entries), ExecDelayed(es)
  PROVE  /\ queue' \in Seq(Entries) /\ lapse' \in Nat /\ needing' \in BOOLEAN
         /\ timer' \in Nat \cup {Off}
         /\ ToSet(queue') = ToSet(queue) \cup ToSet(es)
         /\ es = <<>> => /\ queue' = queue
                         /\ lapse' = lapse /\ needing' = needing /\ timer' = timer
         /\ es # <<>> => /\ lapse' = 0
                         /\ phase = "idle" => timer' = 0
         /\ phase # "idle" => timer' = timer
<1> USE DEF TypeOK, ExecDelayed
<1>1. queue' \in Seq(Entries) /\ (es = <<>> => queue' = queue)
  OBVIOUS
<1>2. ToSet(queue') = ToSet(queue) \cup ToSet(es)
  BY ElementsOfConcat
<1>3. CASE es = <<>>
  BY <1>1, <1>2, <1>3
<1>4. CASE es # <<>> /\ phase = "idle"
  BY <1>1, <1>2, <1>4
<1>5. CASE es # <<>> /\ phase # "idle"
  <2>1. lapse' = 0 /\ needing' = TRUE /\ timer' = timer
    BY <1>5
  <2> QED BY <1>1, <1>2, <1>5, <2>1
<1> QED BY <1>3, <1>4, <1>5

LEMMA AddEventFacts ==
  ASSUME TypeOK, NEW e \in Events, AddEvent(e), phase = "idle"
  PROVE  /\ waiting' \in Seq(Events) /\ needing' \in BOOLEAN /\ timer' = 0
         /\ ToSet(waiting') = ToSet(waiting) \cup {e}
<1>1. waiting \in Seq(Events)
  BY DEF TypeOK, Events
<1> QED BY <1>1, ElementsOfAppend DEF TypeOK, AddEvent

(* An event is taken: only the event that was the first is missing now.    *)
LEMMA TakeFacts ==
  ASSUME TypeInv, NEW k, NEW es \in Seq(Events), Take(k, es)
  PROVE  /\ phase = "events"
         /\ waiting' \in Seq(Events)
         /\ Head(waiting) \in Events /\ Head(waiting).kind = k
         /\ \A e \in ToSet(waiting) : e # Head(waiting) => e \in ToSet(waiting')
         /\ k = "key" => /\ count' \in 0 .. MaxProc
                         /\ phase' \in {"events", "repaint"}
                         /\ phase' = "events" => count' < MaxProc
         /\ k # "key" => count' = count
         /\ es # <<>> => needing' = TRUE
<1> USE DEF TypeInv, TypeOK, RoundIsLeft
<1>1. phase = "events" /\ waiting # <<>> /\ Head(waiting).kind = k
  BY DEF Take
<1>2. waiting \in Seq(Events)
  BY DEF Events
<1>3. Tail(waiting) \in Seq(Events) /\ Head(waiting) \in Events
  BY <1>1, <1>2
<1>4. waiting' = Tail(waiting) \o es
  BY DEF Take
<1>5. waiting' \in Seq(Events)
  BY <1>3, <1>4
<1>6. ToSet(waiting') = ToSet(Tail(waiting)) \cup ToSet(es)
  <2>1. ToSet(Tail(waiting) \o es) = ToSet(Tail(waiting)) \cup ToSet(es)
    <3> DEFINE E == Events
               s == Tail(waiting)
    <3>1. s \in Seq(E) /\ es \in Seq(E)
      BY <1>3
    <3> HIDE DEF E, s
    <3>2. ToSet(s \o es) = ToSet(s) \cup ToSet(es)
      BY ONLY <3>1, ElementsOfConcat
    <3> QED BY <3>2 DEF s
  <2> QED BY <2>1, <1>4
<1>7. ToSet(waiting) = ToSet(Tail(waiting)) \cup {Head(waiting)}
  BY <1>1, <1>2, ElementsOfTail
<1>8. k = "key" => /\ count' \in 0 .. MaxProc
                   /\ phase' \in {"events", "repaint"}
                   /\ phase' = "events" => count' < MaxProc
  <2> SUFFICES ASSUME k = "key"
               PROVE  /\ count' \in 0 .. MaxProc
                      /\ phase' \in {"events", "repaint"}
                      /\ phase' = "events" => count' < MaxProc
    OBVIOUS
  <2>1. count < MaxProc
    BY <1>1
  <2>2. count' = count + 1
    BY <1>1 DEF Take, Sensible
  <2>3. phase' = IF waiting' # <<>> /\ count' < MaxProc THEN "events" ELSE "repaint"
    BY <1>1 DEF Take, Sensible
  <2> QED BY <2>1, <2>2, <2>3, EventLoopAssumption
<1>9. k # "key" => count' = count
  BY <1>1 DEF Take, Sensible
<1>10. es # <<>> => needing' = TRUE
  BY DEF Take
<1> QED BY <1>1, <1>3, <1>5, <1>6, <1>7, <1>8, <1>9, <1>10

(* Time passes for every command of a queue.                               *)
LEMMA TickedQueue ==
  ASSUME NEW q \in Seq(Entries)
  PROVE  LET s == [i \in DOMAIN q |-> [q[i] EXCEPT !.start = Down(@), !.own = Down(@)]]
         IN  /\ s \in Seq(Entries)
             /\ s = <<>> <=> q = <<>>
             /\ \A e \in ToSet(s) : \E d \in ToSet(q) : e.start = Down(d.start)
             /\ \A d \in ToSet(q) : \E e \in ToSet(s) : e.what = d.what
<1> DEFINE s == [i \in DOMAIN q |-> [q[i] EXCEPT !.start = Down(@), !.own = Down(@)]]
<1>1. /\ DOMAIN q = 1 .. Len(q) /\ Len(q) \in Nat
      /\ \A i \in 1 .. Len(q) : q[i] \in Entries
  OBVIOUS
<1>2. ASSUME NEW i \in 1 .. Len(q)
      PROVE  /\ s[i] \in Entries
             /\ s[i].start = Down(q[i].start) /\ s[i].what = q[i].what
  <2>1. q[i] \in Entries
    BY <1>1
  <2>2. Down(q[i].start) \in Nat /\ Down(q[i].own) \in Nat
    BY <2>1 DEF Entries, Down
  <2>3. s[i] = [q[i] EXCEPT !.start = Down(q[i].start), !.own = Down(q[i].own)]
    BY <1>1
  <2> QED BY <2>1, <2>2, <2>3 DEF Entries
<1>3. DOMAIN s = 1 .. Len(q)
  BY <1>1
<1>4. s \in Seq(Entries) /\ Len(s) = Len(q)
  <2>1. s \in [1 .. Len(q) -> Entries]
    BY <1>1, <1>2
  <2> HIDE DEF s
  <2> QED BY <2>1, <1>1
<1>5. s = <<>> <=> q = <<>>
  <2> HIDE DEF s
  <2> QED BY <1>4
<1> HIDE DEF s
<1>6. \A e \in ToSet(s) : \E d \in ToSet(q) : e.start = Down(d.start)
  BY <1>1, <1>2, <1>3, Zenon DEF ToSet
<1>7. \A d \in ToSet(q) : \E e \in ToSet(s) : e.what = d.what
  BY <1>1, <1>2, <1>3, Zenon DEF ToSet
<1> QED BY <1>4, <1>5, <1>6, <1>7 DEF s

LEMMA TickFacts ==
  ASSUME TypeOK, Tick
  PROVE  /\ timer' = Down(timer) /\ lapse' = Down(lapse)
         /\ queue' \in Seq(Entries) /\ batch' \in Seq(Entries)
         /\ batch = <<>> <=> batch' = <<>>
         /\ \A e \in ToSet(queue') : \E d \in ToSet(queue) : e.start = Down(d.start)
         /\ \A d \in ToSet(queue) : \E e \in ToSet(queue') : e.what = d.what
         /\ \A d \in ToSet(batch) : \E e \in ToSet(batch') : e.what = d.what
         /\ rest' = IF rest < Idle THEN rest + 1 ELSE rest
         /\ UNCHANGED <<phase, count, waiting, needing, focused, pref, need, sock, data>>
         /\ phase = "idle" => timer > 0
<1>1. queue \in Seq(Entries) /\ batch \in Seq(Entries)
  BY DEF TypeOK
<1>2. /\ queue' = [i \in DOMAIN queue |-> [queue[i] EXCEPT !.start = Down(@), !.own = Down(@)]]
      /\ batch' = [i \in DOMAIN batch |-> [batch[i] EXCEPT !.start = Down(@), !.own = Down(@)]]
  BY Zenon DEF Tick
<1>3. /\ queue' \in Seq(Entries)
      /\ \A e \in ToSet(queue') : \E d \in ToSet(queue) : e.start = Down(d.start)
      /\ \A d \in ToSet(queue) : \E e \in ToSet(queue') : e.what = d.what
  BY ONLY <1>1, <1>2, TickedQueue, Zenon
<1>4. /\ batch' \in Seq(Entries) /\ (batch = <<>> <=> batch' = <<>>)
      /\ \A d \in ToSet(batch) : \E e \in ToSet(batch') : e.what = d.what
  <2> DEFINE s == [i \in DOMAIN batch |-> [batch[i] EXCEPT !.start = Down(@), !.own = Down(@)]]
  <2>1. /\ s \in Seq(Entries) /\ (s = <<>> <=> batch = <<>>)
        /\ \A d \in ToSet(batch) : \E e \in ToSet(s) : e.what = d.what
    BY <1>1, TickedQueue, Zenon
  <2>2. batch' = s
    BY <1>2
  <2> HIDE DEF s
  <2> QED BY <2>1, <2>2
<1>5. /\ timer' = Down(timer) /\ lapse' = Down(lapse)
      /\ rest' = IF rest < Idle THEN rest + 1 ELSE rest
      /\ UNCHANGED <<phase, count, waiting, needing, focused, pref, need, sock, data>>
  BY Zenon DEF Tick, events
<1>6. phase = "idle" => timer > 0
  BY Zenon DEF Tick, Busy
<1> QED BY <1>3, <1>4, <1>5, <1>6, Zenon

-----------------------------------------------------------------------------
(* Types *)

LEMMA LoopTypes ==
  ASSUME TypeInv, Loop
  PROVE  TypeInv'
<1> USE EventLoopAssumption DEF TypeInv, RoundIsLeft
<1>e. Seq({Key(k) : k \in Keys} \cup {Command, Delayed} \cup {Socket(n) : n \in Sockets})
        = Seq(Events)
  BY DEF Events
<1>n. <<>> \in Seq(Events) /\ <<>> \in Seq(Entries) /\ <<Command>> \in Seq(Events)
  BY EventKinds
<1>1. CASE StartUpdate
  <2>1. waiting' \in Seq(Events)
    <3>1. waiting \in Seq(Events) /\ Delayed \in Events
      BY <1>e, EventKinds DEF TypeOK
    <3>2. Append(waiting, Delayed) \in Seq(Events)
      BY <3>1
    <3> QED BY <1>1, <3>1, <3>2 DEF StartUpdate
  <2>2. needing' \in BOOLEAN
    BY <1>1 DEF StartUpdate, TypeOK
  <2> QED BY <1>1, <1>e, <2>1, <2>2 DEF StartUpdate, TypeOK, user, Off
<1>2. ASSUME NEW d \in Docs, KeyEdits(d) PROVE TypeInv'
  <2>1. rest' \in 0 .. Idle /\ need' \subseteq Docs
    BY <1>2 DEF KeyEdits, TypeOK
  <2> QED BY <2>1, <1>2, <1>e, <1>n, TakeFacts DEF KeyEdits, Handled, TypeOK
<1>3. ASSUME NEW d \in Docs, KeySaves(d) PROVE TypeInv'
  BY <1>3, <1>e, <1>n, TakeFacts DEF KeySaves, Handled, TypeOK
<1>4. CASE KeyFocus
  BY <1>4, <1>e, <1>n, TakeFacts DEF KeyFocus, Handled, TypeOK
<1>5. CASE KeyCommand
  BY <1>5, <1>e, <1>n, TakeFacts DEF KeyCommand, Handled, TypeOK
<1>6. ASSUME NEW c \in Cmds, NEW own \in {0, Slice}, KeyDelays(c, own) PROVE TypeInv'
  <2>1. <<Entry(c, 0, own)>> \in Seq(Entries)
    BY DEF Entry, Entries
  <2> QED BY <2>1, <1>6, <1>e, <1>n, TakeFacts, ExecDelayedFacts DEF KeyDelays, Handled, TypeOK
<1>7. ASSUME NEW q \in Prefs, KeyPreference(q) PROVE TypeInv'
  BY <1>7, <1>e, <1>n, TakeFacts, ExecDelayedFacts, AutoEntries
     DEF KeyPreference, Handled, TypeOK
<1>8. ASSUME NEW n \in Sockets, KeyPlugin(n) PROVE TypeInv'
  BY <1>8, <1>e, <1>n, TakeFacts DEF KeyPlugin, Handled, TypeOK
<1>9. CASE DoCommand
  BY <1>9, <1>e, <1>n, TakeFacts DEF DoCommand, Handled, TypeOK
<1>10. ASSUME NEW n \in Sockets, NEW eof \in BOOLEAN, Notify(n, eof) PROVE TypeInv'
  BY <1>10, <1>e, <1>n, TakeFacts DEF Notify, Handled, TypeOK
<1>11. CASE StartCommands
  BY <1>11, <1>e, <1>n, TakeFacts DEF StartCommands, TypeOK, user
<1>12. CASE Requeue
  <2>1. batch # <<>> /\ phase = "commands"
    BY <1>12 DEF Requeue
  <2>2. Head(batch) \in Entries /\ Tail(batch) \in Seq(Entries)
    BY <2>1 DEF TypeOK
  <2>3. Left(Head(batch)) \in Nat
    BY <2>2 DEF Left, Entries, TypeOK
  <2>4. [Head(batch) EXCEPT !.start = Left(Head(batch))] \in Entries
    BY <2>2, <2>3 DEF Entries
  <2>5. queue' \in Seq(Entries) /\ batch' \in Seq(Entries)
    BY <1>12, <2>2, <2>4 DEF Requeue, TypeOK
  <2> QED BY <1>12, <2>1, <2>5 DEF Requeue, TypeOK, events, user
<1>13. ASSUME NEW c \in Cmds, RunCommand(c) PROVE TypeInv'
  BY <1>13 DEF RunCommand, Called, TypeOK, events, user
<1>14. CASE RunBoot
  BY <1>14, ExecDelayedFacts, AutoEntries DEF RunBoot, Called, TypeOK, events, user
<1>15. CASE AutoSave
  BY <1>15, ExecDelayedFacts, AutoEntries DEF AutoSave, Called, TypeOK, events, user
<1>16. CASE EndCommands
  <2>1. lapse' \in Nat
    <3>1. CASE queue = <<>>
      BY <1>16, <3>1 DEF EndCommands, TypeOK
    <3>2. CASE queue # <<>>
      <4>1. ToSet(queue) \subseteq Entries /\ ToSet(queue) # {}
        BY <3>2, ElementsType DEF TypeOK
      <4>2. /\ {e.start : e \in ToSet(queue)} \subseteq Nat
            /\ {e.start : e \in ToSet(queue)} # {}
        BY <4>1 DEF Entries
      <4> QED BY <1>16, <3>2, <4>2, LeastFacts DEF EndCommands
    <3> QED BY <3>1, <3>2
  <2> QED BY <1>16, <2>1 DEF EndCommands, TypeOK, events, user
<1>17. CASE FinishUpdate
  <2>1. Least({lapse, Slice}) \in Nat
    <3>1. {lapse, Slice} \in SUBSET Nat /\ {lapse, Slice} # {}
      BY DEF TypeOK
    <3> QED BY <3>1, LeastFacts
  <2>2. needing' \in BOOLEAN
    BY <1>17 DEF FinishUpdate
  <2>3. timer' \in Nat
    BY <1>17, <2>1 DEF FinishUpdate
  <2>4. phase # "commands"
    BY <1>17 DEF FinishUpdate, RoundsDone
  <2> QED BY <1>17, <2>2, <2>3, <2>4 DEF FinishUpdate, TypeOK, user, Off
<1> QED
  BY <1>1, <1>2, <1>3, <1>4, <1>5, <1>6, <1>7, <1>8, <1>9, <1>10, <1>11, <1>12,
     <1>13, <1>14, <1>15, <1>16, <1>17 DEF Loop

LEMMA OutsideTypes ==
  ASSUME TypeInv, Outside
  PROVE  TypeInv'
<1> USE EventLoopAssumption DEF TypeInv, RoundIsLeft
<1>e. Seq({Key(k) : k \in Keys} \cup {Command, Delayed} \cup {Socket(n) : n \in Sockets})
        = Seq(Events)
  BY DEF Events
<1>1. CASE Tick
  <2>1. timer' \in Nat \cup {Off} /\ (timer' = Off <=> timer = Off) /\ lapse' \in Nat
    BY <1>1, TickFacts DEF TypeOK, Down, Off
  <2>2. rest' \in 0 .. Idle
    BY <1>1, TickFacts DEF TypeOK
  <2> QED BY <1>1, <2>1, <2>2, TickFacts DEF TypeOK
<1>2. ASSUME NEW k \in Keys, UserInput(k) PROVE TypeInv'
  <2>1. waiting' \in Seq(Events) /\ needing' \in BOOLEAN /\ timer' = 0
    BY <1>2, EventKinds, AddEventFacts DEF UserInput
  <2> QED BY <1>2, <1>e, <2>1 DEF UserInput, TypeOK, user, Off
<1>3. ASSUME NEW c \in Cmds, CloseButton(c) PROVE TypeInv'
  <2>1. <<Entry(c, 0, 0)>> \in Seq(Entries)
    BY DEF Entry, Entries
  <2>2. /\ queue' \in Seq(Entries) /\ lapse' \in Nat /\ needing' \in BOOLEAN
        /\ timer' = 0
    BY <1>3, <2>1, ExecDelayedFacts DEF CloseButton
  <2> QED BY <1>3, <2>2 DEF CloseButton, TypeOK, events, user, Off
<1>4. ASSUME NEW n \in Sockets, PluginWrites(n) PROVE TypeInv'
  BY <1>4 DEF PluginWrites, TypeOK, events, user
<1>5. ASSUME NEW n \in Sockets, SocketActivated(n) PROVE TypeInv'
  <2>1. waiting' \in Seq(Events) /\ needing' \in BOOLEAN /\ timer' = 0
    BY <1>5, EventKinds, AddEventFacts DEF SocketActivated
  <2> QED BY <1>5, <1>e, <2>1 DEF SocketActivated, TypeOK, user, Off
<1> QED BY <1>1, <1>2, <1>3, <1>4, <1>5 DEF Outside

LEMMA InitTypes == Init => TypeInv
<1> SUFFICES ASSUME Init PROVE TypeInv
  OBVIOUS
<1>1. <<Entry("boot", 0, 0)>> \in Seq(Entries)
  BY DEF Entry, Entries
<1>2. 0 \in 0 .. MaxProc /\ 0 \in 0 .. Idle /\ 0 < MaxProc
  BY EventLoopAssumption
<1>3. /\ needing \in BOOLEAN /\ focused \in BOOLEAN
      /\ sock \in [Sockets -> {"on", "off", "removed"}]
  BY DEF Init
<1>4. /\ waiting \in Seq({Key(k) : k \in Keys} \cup {Command, Delayed} \cup {Socket(n) : n \in Sockets})
      /\ queue \in Seq(Entries) /\ batch = <<>> /\ batch \in Seq(Entries)
  BY <1>1 DEF Init
<1> QED BY <1>2, <1>3, <1>4 DEF Init, TypeInv, RoundIsLeft, TypeOK, Off

LEMMA TypesHold == Spec => []TypeInv
<1>1. Init => TypeInv
  BY InitTypes
<1>2. TypeInv /\ [Next]_vars => TypeInv'
  <2> SUFFICES ASSUME TypeInv, [Next]_vars PROVE TypeInv'
    OBVIOUS
  <2>1. CASE UNCHANGED vars
    BY <2>1 DEF vars, events, user, TypeInv, RoundIsLeft, TypeOK
  <2> QED BY <2>1, LoopTypes, OutsideTypes DEF Next
<1> QED BY <1>1, <1>2, PTL DEF Spec

(* The variables keep their types, and the phases of an update fit: the    *)
(* timer runs exactly between two updates, no update handles more rounds   *)
(* than MaxProc, and commands are looked at only in the handling of an     *)
(* event.                                                                  *)
THEOREM LoopTypeOK == Spec => []TypeOK
BY TypesHold, PTL DEF TypeInv

-----------------------------------------------------------------------------
(* No oversleeping *)

LEMMA LoopSleeps ==
  ASSUME SleepInv, TypeInv', Loop
  PROVE  SleepInv'
<1> USE EventLoopAssumption DEF SleepInv, LapseFits, NoOversleep
<1>t. TypeOK /\ queue \in Seq(Entries) /\ lapse \in Nat /\ ToSet(queue) \subseteq Entries
  BY ElementsType DEF TypeInv, TypeOK
<1>n. <<>> \in Seq(Events) /\ <<>> \in Seq(Entries) /\ <<Command>> \in Seq(Events)
  BY EventKinds
<1>d. ASSUME NEW es \in Seq(Entries), ExecDelayed(es), phase # "commands"
      PROVE  \A e \in ToSet(queue') : lapse' <= e.start
  <2>1. CASE es = <<>>
    BY <1>d, <2>1, <1>t, ExecDelayedFacts
  <2>2. CASE es # <<>>
    <3>1. ToSet(queue') \subseteq Entries /\ lapse' = 0
      BY <1>d, <2>2, <1>t, ExecDelayedFacts, ElementsType
    <3> QED BY <3>1 DEF Entries
  <2> QED BY <2>1, <2>2
<1>1. CASE StartUpdate
  BY <1>1 DEF StartUpdate
<1>k. ASSUME Take("key", <<>>) \/ Take("key", <<Command>>)
      PROVE  phase = "events" /\ phase' \in {"events", "repaint"}
  BY <1>k, <1>n, TakeFacts
<1>2. ASSUME NEW d \in Docs, KeyEdits(d) PROVE SleepInv'
  BY <1>2, <1>k DEF KeyEdits
<1>3. ASSUME NEW d \in Docs, KeySaves(d) PROVE SleepInv'
  BY <1>3, <1>k DEF KeySaves
<1>4. CASE KeyFocus
  BY <1>4, <1>k DEF KeyFocus
<1>5. CASE KeyCommand
  BY <1>5, <1>k DEF KeyCommand
<1>6. ASSUME NEW c \in Cmds, NEW own \in {0, Slice}, KeyDelays(c, own) PROVE SleepInv'
  <2>1. <<Entry(c, 0, own)>> \in Seq(Entries)
    BY DEF Entry, Entries
  <2> QED BY <2>1, <1>6, <1>k, <1>d DEF KeyDelays
<1>7. ASSUME NEW q \in Prefs, KeyPreference(q) PROVE SleepInv'
  BY <1>7, <1>k, <1>d, <1>t, AutoEntries DEF KeyPreference
<1>8. ASSUME NEW n \in Sockets, KeyPlugin(n) PROVE SleepInv'
  BY <1>8, <1>k DEF KeyPlugin
<1>9. CASE DoCommand
  BY <1>9, <1>n, TakeFacts DEF DoCommand
<1>10. ASSUME NEW n \in Sockets, NEW eof \in BOOLEAN, Notify(n, eof) PROVE SleepInv'
  BY <1>10, <1>n, TakeFacts DEF Notify
<1>11. CASE StartCommands
  BY <1>11 DEF StartCommands
<1>12. CASE Requeue
  BY <1>12 DEF Requeue
<1>13. ASSUME NEW c \in Cmds, RunCommand(c) PROVE SleepInv'
  BY <1>13 DEF RunCommand, Called
<1>14. CASE RunBoot
  BY <1>14 DEF RunBoot, Called
<1>15. CASE AutoSave
  BY <1>15 DEF AutoSave, Called
<1>16. CASE EndCommands
  <2>1. \A e \in ToSet(queue) : lapse' <= e.start
    <3>1. CASE queue = <<>>
      BY <3>1, <1>t, ElementsType
    <3>2. CASE queue # <<>>
      <4>1. {e.start : e \in ToSet(queue)} \in SUBSET Nat
        BY <1>t DEF Entries
      <4>2. \A e \in ToSet(queue) : Least({f.start : f \in ToSet(queue)}) <= e.start
        <5> SUFFICES ASSUME NEW e \in ToSet(queue)
                     PROVE  Least({f.start : f \in ToSet(queue)}) <= e.start
          OBVIOUS
        <5> DEFINE T == {f.start : f \in ToSet(queue)}
        <5>1. e.start \in T /\ T \in SUBSET Nat
          BY <4>1
        <5> HIDE DEF T
        <5>2. Least(T) <= e.start
          BY <5>1, LeastFacts
        <5> QED BY <5>2 DEF T
      <4> QED BY <1>16, <3>2, <4>2 DEF EndCommands
    <3> QED BY <3>1, <3>2
  <2> QED BY <1>16, <2>1 DEF EndCommands
<1>17. CASE FinishUpdate
  <2>1. phase # "commands" /\ queue' = queue /\ lapse' = lapse /\ waiting' = waiting
    BY <1>17 DEF FinishUpdate, RoundsDone
  <2>2. {lapse, Slice} \in SUBSET Nat /\ {lapse, Slice} # {}
    BY <1>t
  <2>3. Least({lapse, Slice}) <= lapse /\ Least({lapse, Slice}) \in Nat
    BY <2>2, LeastFacts
  <2>4. CASE needing'
    <3>1. timer' = 0
      BY <1>17, <2>4 DEF FinishUpdate
    <3> QED BY <2>1, <3>1, <1>t DEF Entries, Off
  <2>5. CASE ~needing'
    <3>1. timer' = Least({lapse, Slice}) /\ waiting = <<>>
      BY <1>17, <2>5 DEF FinishUpdate
    <3>2. \A e \in ToSet(queue) : timer' <= e.start
      BY <1>t, <2>1, <2>3, <3>1 DEF Entries
    <3>3. LapseFits'
      BY <2>1
    <3>4. timer' \in Nat /\ waiting' = <<>>
      BY <2>1, <2>3, <3>1
    <3>5. \A e \in ToSet(queue') : timer' <= e.start
      BY <2>1, <3>2
    <3> QED BY <3>3, <3>4, <3>5 DEF Off
  <2> QED BY <2>4, <2>5
<1> QED
  BY <1>1, <1>2, <1>3, <1>4, <1>5, <1>6, <1>7, <1>8, <1>9, <1>10, <1>11, <1>12,
     <1>13, <1>14, <1>15, <1>16, <1>17 DEF Loop

LEMMA OutsideSleeps ==
  ASSUME SleepInv, TypeInv', Outside
  PROVE  SleepInv'
<1> USE DEF SleepInv, LapseFits, NoOversleep
<1>t. /\ TypeOK /\ queue \in Seq(Entries) /\ batch \in Seq(Entries) /\ lapse \in Nat
      /\ timer \in Nat \cup {Off} /\ ToSet(queue) \subseteq Entries
  BY ElementsType DEF TypeInv, TypeOK
<1>1. CASE Tick
  <2>1. /\ UNCHANGED <<phase, waiting>> /\ timer' = Down(timer) /\ lapse' = Down(lapse)
        /\ \A e \in ToSet(queue') : \E d \in ToSet(queue) : e.start = Down(d.start)
        /\ phase = "idle" => timer > 0
    BY <1>1, <1>t, TickFacts
  <2>2. ASSUME NEW x \in Nat, \A d \in ToSet(queue) : x <= d.start
        PROVE  \A e \in ToSet(queue') : Down(x) <= e.start
    <3>1. \A d \in ToSet(queue) : d.start \in Nat
      BY <1>t DEF Entries
    <3>2. \A y \in Nat : x <= y => Down(x) <= Down(y)
      BY DEF Down
    <3> QED BY <2>1, <2>2, <3>1, <3>2
  <2>3. LapseFits'
    BY <1>t, <2>1, <2>2
  <2>4. CASE phase = "idle"
    <3>1. waiting = <<>> /\ timer \in Nat /\ Down(timer) \in Nat
      BY <2>1, <2>4, <1>t DEF Down, Off
    <3>2. \A e \in ToSet(queue') : timer' <= e.start
      BY <2>1, <2>2, <2>4, <3>1
    <3> QED BY <2>1, <2>3, <3>1, <3>2 DEF Off
  <2> QED BY <2>1, <2>3, <2>4
<1>2. ASSUME NEW k \in Keys, UserInput(k) PROVE SleepInv'
  <2>1. timer' = 0 /\ queue' = queue
    BY <1>2, <1>t, EventKinds, AddEventFacts DEF UserInput
  <2> QED BY <1>2, <1>t, <2>1 DEF UserInput, Entries, Off
<1>3. ASSUME NEW c \in Cmds, CloseButton(c) PROVE SleepInv'
  <2>1. <<Entry(c, 0, 0)>> \in Seq(Entries)
    BY DEF Entry, Entries
  <2>2. queue' \in Seq(Entries) /\ lapse' = 0 /\ timer' = 0
    BY <1>3, <1>t, <2>1, ExecDelayedFacts DEF CloseButton
  <2>3. \A e \in ToSet(queue') : 0 <= e.start
    <3>1. ToSet(queue') \subseteq Entries
      BY <2>2, ElementsType
    <3> QED BY <3>1 DEF Entries
  <2> QED BY <1>3, <2>2, <2>3 DEF CloseButton, events, Off
<1>4. ASSUME NEW n \in Sockets, PluginWrites(n) PROVE SleepInv'
  BY <1>4 DEF PluginWrites, events
<1>5. ASSUME NEW n \in Sockets, SocketActivated(n) PROVE SleepInv'
  <2>1. timer' = 0 /\ queue' = queue
    BY <1>5, <1>t, EventKinds, AddEventFacts DEF SocketActivated
  <2> QED BY <1>5, <1>t, <2>1 DEF SocketActivated, Entries, Off
<1> QED BY <1>1, <1>2, <1>3, <1>4, <1>5 DEF Outside

LEMMA SleepHolds == Spec => []SleepInv
<1>1. Init => SleepInv
  <2> SUFFICES ASSUME Init PROVE SleepInv
    OBVIOUS
  <2>1. TypeInv /\ ToSet(queue) \subseteq Entries
    BY InitTypes, ElementsType DEF TypeInv, TypeOK
  <2> QED BY <2>1 DEF Init, SleepInv, LapseFits, NoOversleep, Entries, Off
<1>2. SleepInv /\ TypeInv' /\ [Next]_vars => SleepInv'
  <2> SUFFICES ASSUME SleepInv, TypeInv', [Next]_vars PROVE SleepInv'
    OBVIOUS
  <2>1. CASE UNCHANGED vars
    BY <2>1 DEF vars, events, user, SleepInv, LapseFits, NoOversleep
  <2> QED BY <2>1, LoopSleeps, OutsideSleeps DEF Next
<1> QED BY <1>1, <1>2, TypesHold, PTL DEF Spec

-----------------------------------------------------------------------------
(* The sockets, and the command that saves automatically *)

LEMMA LoopSockets ==
  ASSUME TypeInv, OffIsQueued, Loop
  PROVE  OffIsQueued'
<1> USE DEF OffIsQueued, Waits
<1>t. waiting \in Seq(Events) /\ sock \in [Sockets -> {"on", "off", "removed"}]
  BY DEF TypeInv, TypeOK, Events
<1>n. <<>> \in Seq(Events) /\ <<Command>> \in Seq(Events)
  BY EventKinds
<1>k. ASSUME NEW k \in {"key", "command", "delayed"}, NEW es \in Seq(Events), Take(k, es)
      PROVE  \A n \in Sockets : Waits(Socket(n)) => Waits(Socket(n))'
  <2>1. Head(waiting).kind # "socket"
    BY <1>k, TakeFacts
  <2>2. \A n \in Sockets : Socket(n) # Head(waiting)
    BY <2>1, EventKinds
  <2> QED BY <1>k, <2>2, TakeFacts
<1>1. CASE StartUpdate
  <2>1. ToSet(Append(waiting, Delayed)) = ToSet(waiting) \cup {Delayed}
    BY <1>t, EventKinds, ElementsOfAppend
  <2> QED BY <1>1, <2>1 DEF StartUpdate
<1>2. ASSUME NEW d \in Docs, KeyEdits(d) PROVE OffIsQueued'
  BY <1>2, <1>k, <1>n DEF KeyEdits
<1>3. ASSUME NEW d \in Docs, KeySaves(d) PROVE OffIsQueued'
  BY <1>3, <1>k, <1>n DEF KeySaves
<1>4. CASE KeyFocus
  BY <1>4, <1>k, <1>n DEF KeyFocus
<1>5. CASE KeyCommand
  BY <1>5, <1>k, <1>n DEF KeyCommand
<1>6. ASSUME NEW c \in Cmds, NEW own \in {0, Slice}, KeyDelays(c, own) PROVE OffIsQueued'
  BY <1>6, <1>k, <1>n DEF KeyDelays
<1>7. ASSUME NEW q \in Prefs, KeyPreference(q) PROVE OffIsQueued'
  BY <1>7, <1>k, <1>n DEF KeyPreference
<1>8. ASSUME NEW n \in Sockets, KeyPlugin(n) PROVE OffIsQueued'
  BY <1>8, <1>k, <1>n, <1>t DEF KeyPlugin
<1>9. CASE DoCommand
  BY <1>9, <1>k, <1>n DEF DoCommand
<1>10. ASSUME NEW n \in Sockets, NEW eof \in BOOLEAN, Notify(n, eof) PROVE OffIsQueued'
  <2>1. Take("socket", <<>>) /\ Head(waiting).id = n
    BY <1>10 DEF Notify
  <2>2. sock'[n] # "off" /\ \A m \in Sockets \ {n} : sock'[m] = sock[m]
    BY <1>10, <1>t DEF Notify
  <2>3. \A m \in Sockets \ {n} : Socket(m) # Head(waiting)
    BY <2>1, EventKinds
  <2> QED BY <2>1, <2>2, <2>3, <1>n, TakeFacts
<1>11. CASE StartCommands
  BY <1>11, <1>k, <1>n DEF StartCommands
<1>12. CASE Requeue
  BY <1>12 DEF Requeue, events
<1>13. ASSUME NEW c \in Cmds, RunCommand(c) PROVE OffIsQueued'
  BY <1>13 DEF RunCommand, events
<1>14. CASE RunBoot
  BY <1>14 DEF RunBoot, events
<1>15. CASE AutoSave
  BY <1>15 DEF AutoSave, events
<1>16. CASE EndCommands
  BY <1>16 DEF EndCommands, events
<1>17. CASE FinishUpdate
  BY <1>17 DEF FinishUpdate
<1> QED
  BY <1>1, <1>2, <1>3, <1>4, <1>5, <1>6, <1>7, <1>8, <1>9, <1>10, <1>11, <1>12,
     <1>13, <1>14, <1>15, <1>16, <1>17 DEF Loop

LEMMA OutsideSockets ==
  ASSUME TypeInv, OffIsQueued, Outside
  PROVE  OffIsQueued'
<1> USE DEF OffIsQueued, Waits
<1>t. TypeOK /\ waiting \in Seq(Events) /\ sock \in [Sockets -> {"on", "off", "removed"}]
  BY DEF TypeInv, TypeOK, Events
<1>1. CASE Tick
  BY <1>1, <1>t, TickFacts
<1>2. ASSUME NEW k \in Keys, UserInput(k) PROVE OffIsQueued'
  BY <1>2, <1>t, EventKinds, AddEventFacts DEF UserInput
<1>3. ASSUME NEW c \in Cmds, CloseButton(c) PROVE OffIsQueued'
  BY <1>3 DEF CloseButton, events
<1>4. ASSUME NEW n \in Sockets, PluginWrites(n) PROVE OffIsQueued'
  BY <1>4 DEF PluginWrites, events
<1>5. ASSUME NEW n \in Sockets, SocketActivated(n) PROVE OffIsQueued'
  <2>1. ToSet(waiting') = ToSet(waiting) \cup {Socket(n)}
    BY <1>5, <1>t, EventKinds, AddEventFacts DEF SocketActivated
  <2>2. \A m \in Sockets \ {n} : sock'[m] = sock[m]
    BY <1>5, <1>t DEF SocketActivated
  <2> QED BY <2>1, <2>2
<1> QED BY <1>1, <1>2, <1>3, <1>4, <1>5 DEF Outside

(* Between two updates the timer runs, and it ends before the next delayed *)
(* command is due, and at once when an event waits; a notifier that was    *)
(* disabled when its event was queued has this event in the queue: nothing *)
(* is left for which no update will come.                                  *)
THEOREM NothingIsForgotten == Spec => []NothingForgotten
<1>1. Init => OffIsQueued
  BY DEF Init, OffIsQueued
<1>2. TypeInv /\ OffIsQueued /\ [Next]_vars => OffIsQueued'
  <2> SUFFICES ASSUME TypeInv, OffIsQueued, [Next]_vars PROVE OffIsQueued'
    OBVIOUS
  <2>1. CASE UNCHANGED vars
    BY <2>1 DEF vars, events, OffIsQueued, Waits
  <2> QED BY <2>1, LoopSockets, OutsideSockets DEF Next
<1>3. SleepInv /\ OffIsQueued => NothingForgotten
  BY DEF SleepInv, NothingForgotten
<1> QED BY <1>1, <1>2, <1>3, TypesHold, SleepHolds, PTL DEF Spec

LEMMA LoopAutosaves ==
  ASSUME TypeInv, AutosaveScheduled, Loop
  PROVE  AutosaveScheduled'
<1> USE DEF AutosaveScheduled, Scheduled
<1>t. TypeOK /\ queue \in Seq(Entries) /\ batch \in Seq(Entries) /\ pref \in Prefs
  BY DEF TypeInv, TypeOK
<1>d. ASSUME NEW es \in Seq(Entries), ExecDelayed(es)
      PROVE  ToSet(queue) \subseteq ToSet(queue')
  BY <1>d, <1>t, ExecDelayedFacts
<1>a. ASSUME NEW p \in Prefs, ExecDelayed(DelayedAutoSave(p)), pref' = p
      PROVE  AutosaveScheduled'
  <2>1. ToSet(queue') = ToSet(queue) \cup ToSet(DelayedAutoSave(p))
    BY <1>a, <1>t, AutoEntries, ExecDelayedFacts
  <2> QED BY <1>a, <1>t, <2>1, AutoEntries
<1>1. CASE StartUpdate
  BY <1>1 DEF StartUpdate
<1>2. ASSUME NEW d \in Docs, KeyEdits(d) PROVE AutosaveScheduled'
  BY <1>2 DEF KeyEdits, Handled
<1>3. ASSUME NEW d \in Docs, KeySaves(d) PROVE AutosaveScheduled'
  BY <1>3 DEF KeySaves, Handled
<1>4. CASE KeyFocus
  BY <1>4 DEF KeyFocus, Handled
<1>5. CASE KeyCommand
  BY <1>5 DEF KeyCommand, Handled
<1>6. ASSUME NEW c \in Cmds, NEW own \in {0, Slice}, KeyDelays(c, own) PROVE AutosaveScheduled'
  <2>1. <<Entry(c, 0, own)>> \in Seq(Entries)
    BY EventLoopAssumption DEF Entry, Entries
  <2> QED BY <1>6, <1>d, <2>1 DEF KeyDelays, Handled
<1>7. ASSUME NEW p \in Prefs, KeyPreference(p) PROVE AutosaveScheduled'
  BY <1>7, <1>a DEF KeyPreference
<1>8. ASSUME NEW n \in Sockets, KeyPlugin(n) PROVE AutosaveScheduled'
  BY <1>8 DEF KeyPlugin, Handled
<1>9. CASE DoCommand
  BY <1>9 DEF DoCommand, Handled
<1>10. ASSUME NEW n \in Sockets, NEW eof \in BOOLEAN, Notify(n, eof) PROVE AutosaveScheduled'
  BY <1>10 DEF Notify, Handled
<1>11. CASE StartCommands
  <2>1. batch = <<>> /\ queue' = <<>> /\ batch' = queue /\ pref' = pref
    BY <1>11 DEF StartCommands, Take, TypeInv, TypeOK
  <2>2. ToSet(batch) = {}
    BY <2>1, <1>t, ElementsType
  <2> QED BY <2>1, <2>2
<1>12. CASE Requeue
  <2>1. PICK e \in Entries :
          /\ e.what = Head(batch).what
          /\ queue' = Append(queue, e) /\ batch' = Tail(batch) /\ pref' = pref
    <3>1. Head(batch) \in Entries
      BY <1>12, <1>t DEF Requeue
    <3>2. Left(Head(batch)) \in Nat
      BY <3>1, <1>t, EventLoopAssumption DEF Left, Entries, TypeOK
    <3>3. [Head(batch) EXCEPT !.start = Left(Head(batch))] \in Entries
      BY <3>1, <3>2 DEF Entries
    <3>4. [Head(batch) EXCEPT !.start = Left(Head(batch))].what = Head(batch).what
      BY <3>1 DEF Entries
    <3> QED BY <1>12, <3>1, <3>3, <3>4 DEF Requeue
  <2>2. ToSet(queue') = ToSet(queue) \cup {e}
    BY <2>1, <1>t, ElementsOfAppend
  <2>3. ToSet(batch) = ToSet(batch') \cup {Head(batch)}
    BY <1>12, <2>1, <1>t, ElementsOfTail DEF Requeue
  <2> QED BY <2>1, <2>2, <2>3
<1>r. ASSUME batch # <<>>, batch' = Tail(batch), Head(batch).what \in Cmds,
             queue' = queue, pref' = pref
      PROVE  AutosaveScheduled'
  <2>1. ToSet(batch) = ToSet(batch') \cup {Head(batch)}
    BY <1>r, <1>t, ElementsOfTail
  <2>2. Head(batch).what # "auto" /\ Head(batch).what # "boot"
    BY <1>r, EventLoopAssumption
  <2> QED BY <1>r, <2>1, <2>2
<1>13. ASSUME NEW c \in Cmds, RunCommand(c) PROVE AutosaveScheduled'
  BY <1>13, <1>r DEF RunCommand, Called
<1>14. CASE RunBoot
  BY <1>14, <1>a, <1>t DEF RunBoot
<1>15. CASE AutoSave
  BY <1>15, <1>a, <1>t DEF AutoSave
<1>16. CASE EndCommands
  BY <1>16 DEF EndCommands
<1>17. CASE FinishUpdate
  BY <1>17 DEF FinishUpdate
<1> QED
  BY <1>1, <1>2, <1>3, <1>4, <1>5, <1>6, <1>7, <1>8, <1>9, <1>10, <1>11, <1>12,
     <1>13, <1>14, <1>15, <1>16, <1>17 DEF Loop

LEMMA OutsideAutosaves ==
  ASSUME TypeInv, AutosaveScheduled, Outside
  PROVE  AutosaveScheduled'
<1> USE DEF AutosaveScheduled, Scheduled
<1>t. TypeOK
  BY DEF TypeInv
<1>1. CASE Tick
  BY <1>1, <1>t, TickFacts
<1>2. ASSUME NEW k \in Keys, UserInput(k) PROVE AutosaveScheduled'
  BY <1>2 DEF UserInput
<1>3. ASSUME NEW c \in Cmds, CloseButton(c) PROVE AutosaveScheduled'
  <2>1. <<Entry(c, 0, 0)>> \in Seq(Entries)
    BY DEF Entry, Entries
  <2> QED BY <1>3, <1>t, <2>1, ExecDelayedFacts DEF CloseButton
<1>4. ASSUME NEW n \in Sockets, PluginWrites(n) PROVE AutosaveScheduled'
  BY <1>4 DEF PluginWrites
<1>5. ASSUME NEW n \in Sockets, SocketActivated(n) PROVE AutosaveScheduled'
  BY <1>5 DEF SocketActivated
<1> QED BY <1>1, <1>2, <1>3, <1>4, <1>5 DEF Outside

(* While the preference asks for it, a command that saves automatically is *)
(* waiting, or the one that starts them after the boot, in either of the   *)
(* two queues: also after a file could not be written, and however the     *)
(* preference was changed while the queue was being run.                   *)
THEOREM AutosaveIsScheduled == Spec => []AutosaveScheduled
<1>1. Init => AutosaveScheduled
  <2> SUFFICES ASSUME Init PROVE AutosaveScheduled
    OBVIOUS
  <2>1. ToSet(<<Entry("boot", 0, 0)>>) = {Entry("boot", 0, 0)}
    BY DEF ToSet
  <2> QED BY <2>1 DEF Init, AutosaveScheduled, Scheduled, Entry
<1>2. TypeInv /\ AutosaveScheduled /\ [Next]_vars => AutosaveScheduled'
  <2> SUFFICES ASSUME TypeInv, AutosaveScheduled, [Next]_vars
               PROVE  AutosaveScheduled'
    OBVIOUS
  <2>1. CASE UNCHANGED vars
    BY <2>1 DEF vars, AutosaveScheduled, Scheduled
  <2> QED BY <2>1, LoopAutosaves, OutsideAutosaves DEF Next
<1> QED BY <1>1, <1>2, TypesHold, PTL DEF Spec
=============================================================================
