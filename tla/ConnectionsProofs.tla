-------------------------- MODULE ConnectionsProofs --------------------------
(***************************************************************************)
(* For any set of evaluations: the variables of a connection keep their    *)
(* types, pending evaluations wait for a plug-in that lives, they end in   *)
(* their order, each of them once, two inputs never meet in the plug-in    *)
(* and no evaluation gets the output of another one, unless the plug-in    *)
(* was interrupted.                                                        *)
(***************************************************************************)
EXTENDS Connections, SequenceTheorems, FiniteSetTheorems, TLAPS

W == INSTANCE WellFoundedInduction

-----------------------------------------------------------------------------
(* What the operators on connections return *)

(* A run of empty evaluations at the head of a queue has a length.         *)
LEMMA NrEmptyLength ==
  ASSUME NEW q \in Seq(Evals)
  PROVE  NrEmpty(q) \in 0 .. Len(q)
<1> DEFINE T == {n \in 0 .. Len(q) : n < Len(q) => q[n + 1] \notin Empty}
<1>1. Len(q) \in Nat
  OBVIOUS
<1>2. T \subseteq Nat /\ T # {}
  <2>1. Len(q) \in T
    BY <1>1
  <2> QED BY <2>1, <1>1
<1>3. PICK m \in T : \A y \in T : ~(<<y, m>> \in W!OpToRel(<, Nat))
  BY <1>2, W!NatLessThanWellFounded, W!WFMin
<1> HIDE DEF T
<1>4. \A n \in Nat : n < m => n \notin T
  BY <1>2, <1>3 DEF W!OpToRel
<1> USE DEF T
<1>5. \A i \in 1 .. m : q[i] \in Empty
  <2> SUFFICES ASSUME NEW i \in 1 .. m PROVE q[i] \in Empty
    OBVIOUS
  <2>1. i - 1 \in Nat /\ i - 1 < m /\ m \in 0 .. Len(q)
    BY <1>1
  <2>2. i - 1 \notin T
    BY <2>1, <1>4
  <2> QED BY <2>1, <2>2, <1>1
<1> QED BY <1>5 DEF NrEmpty

(* The ends that an operator sets are ends.                                *)
LEMMA EndAsType ==
  ASSUME NEW c \in Connection, NEW S, NEW how \in {"answered", "dead", "interrupted"}
  PROVE  EndAs(c, S, how) \in [Evals -> {"no", "answered", "dead", "interrupted"}]
BY DEF EndAs, Connection

(* Starting a plug-in keeps the pending evaluations.                       *)
LEMMA StartFacts ==
  ASSUME NEW c \in Connection
  PROVE  /\ Start(c) \in Connection
         /\ Start(c).alive /\ Start(c).status = Output
         /\ Start(c).starting = c.starting /\ Start(c).pending = c.pending
         /\ Start(c).ended = c.ended /\ Start(c).prev = c.prev /\ Start(c).got = c.got
<1>1. Start(c) \in Connection
  <2> <<>> \in Seq(Evals) /\ <<>> \in Seq(Evals \cup {Prompt})
    OBVIOUS
  <2> QED BY DEF Start, Connection
<1>2. Start(c).alive = TRUE /\ Start(c).starting = c.starting
  BY Zenon DEF Start, Connection
<1>3. /\ Start(c).status = Output /\ Start(c).pending = c.pending
      /\ Start(c).ended = c.ended /\ Start(c).prev = c.prev /\ Start(c).got = c.got
  BY DEF Start, Connection
<1> QED BY <1>1, <1>2, <1>3

(* Writing to a plug-in keeps the pending evaluations.                     *)
LEMMA WriteFacts ==
  ASSUME NEW c \in Connection, NEW e \in Evals
  PROVE  /\ Write(c, e) \in Connection
         /\ Write(c, e).status = Output
         /\ Write(c, e).alive = c.alive /\ Write(c, e).starting = c.starting
         /\ Write(c, e).pending = c.pending /\ Write(c, e).ended = c.ended
         /\ Write(c, e).prev = c.prev /\ Write(c, e).got = c.got
<1>1. Write(c, e) \in Connection
  <2> (IF c.alive THEN Append(c.inbox, e) ELSE c.inbox) \in Seq(Evals)
    BY DEF Connection
  <2> QED BY DEF Write, Connection
<1>2. Write(c, e).alive = c.alive /\ Write(c, e).starting = c.starting
  BY Zenon DEF Write, Connection
<1>3. /\ Write(c, e).status = Output /\ Write(c, e).pending = c.pending
      /\ Write(c, e).ended = c.ended /\ Write(c, e).prev = c.prev /\ Write(c, e).got = c.got
  BY DEF Write, Connection
<1> QED BY <1>1, <1>2, <1>3

(* Whoever waits, waits for a plug-in that lives.                          *)
Fit(c) ==
  /\ Waiting(c) => c.alive /\ Notified(c) = Output
  /\ c.starting => c.pending # <<>>
  /\ c.status = Dying => c.alive

(* The inductive invariant; while the program waits for an answer nothing  *)
(* else does.                                                              *)
IInv ==
  /\ TypeOK
  /\ Fit(con)
  /\ forced # Idle => ~Waiting(con) /\ forced.eval \in Evals /\ con.ended[forced.eval] = "no"
  /\ proc = "busy" => job \in Evals

(* From c to d the n oldest evaluations were answered.                     *)
Answered(c, d, n) ==
  /\ n \in 0 .. Len(c.pending)
  /\ d.pending = SubSeq(c.pending, n + 1, Len(c.pending))
  /\ d.ended = EndAs(c, {c.pending[i] : i \in 1 .. n}, "answered")

(* plugin-do answers the empty evaluations at the head of the queue, and   *)
(* leaves the next one waiting.                                            *)
LEMMA DoFacts ==
  ASSUME NEW c \in Connection, ~c.starting, c.status = Dying => c.alive
  PROVE  /\ Do(c) \in Connection /\ Do(c).prev = c.prev
         /\ c.pending # <<>> => Fit(Do(c))
         /\ c.pending = <<>> => Do(c) = c
         /\ \E n \in 0 .. Len(c.pending) : Answered(c, Do(c), n)
<1>1. c.pending \in Seq(Evals) /\ c.ended \in [Evals -> {"no", "answered", "dead", "interrupted"}]
  BY DEF Connection
<1>2. EndAs(c, {c.pending[i] : i \in 1 .. 0}, "answered") = c.ended
  BY <1>1 DEF EndAs
<1>3. SubSeq(c.pending, 0 + 1, Len(c.pending)) = c.pending
  BY <1>1
<1>4. ASSUME NEW d, d.pending = c.pending, d.ended = c.ended
      PROVE  Answered(c, d, 0)
  BY <1>1, <1>2, <1>3, <1>4 DEF Answered
<1>5. CASE c.pending = <<>>
  <2>1. Do(c) = c
    BY <1>5 DEF Do
  <2> QED BY <2>1, <1>1, <1>4, <1>5
<1>6. CASE c.pending # <<>> /\ Status(c) = Dead
  <2> DEFINE u == Start(c)
             d == [u EXCEPT !.starting = TRUE]
  <2>1. Do(c) = d
    BY <1>6 DEF Do
  <2>2. u \in Connection /\ u.alive /\ u.status = Output /\ u.pending = c.pending
        /\ u.ended = c.ended /\ u.prev = c.prev
    BY StartFacts
  <2> HIDE DEF u
  <2>3. d \in Connection /\ d.alive /\ d.status = Output /\ d.pending = c.pending
        /\ d.ended = c.ended /\ d.prev = c.prev
    BY <2>2 DEF Connection
  <2>4. Fit(d)
    BY <2>3, <1>6 DEF Fit, Notified, Output, Dying
  <2> HIDE DEF d
  <2>5. Answered(c, d, 0)
    BY <2>3, <1>4
  <2> QED BY <2>1, <2>3, <2>4, <2>5, <1>1, <1>6
<1>7. CASE c.pending # <<>> /\ Status(c) # Dead
  <2> DEFINE n == NrEmpty(c.pending)
             E == EndAs(c, {c.pending[i] : i \in 1 .. n}, "answered")
             d == [c EXCEPT !.pending = SubSeq(c.pending, n + 1, Len(c.pending)), !.ended = E]
             w == Write(d, Head(d.pending))
  <2>1. n \in 0 .. Len(c.pending)
    BY <1>1, NrEmptyLength
  <2>2. E \in [Evals -> {"no", "answered", "dead", "interrupted"}]
    BY EndAsType
  <2>3. Do(c) = IF d.pending = <<>> THEN d ELSE w
    BY <1>7, Zenon DEF Do
  <2> HIDE DEF n, E
  <2>4. /\ d \in Connection /\ d.pending = SubSeq(c.pending, n + 1, Len(c.pending))
        /\ d.ended = E /\ d.prev = c.prev /\ d.alive = c.alive
        /\ d.status = c.status /\ d.starting = c.starting
    <3>1. SubSeq(c.pending, n + 1, Len(c.pending)) \in Seq(Evals)
      BY <2>1, <1>1, SubSeqProperties
    <3> QED BY <3>1, <2>2 DEF Connection
  <2>5. c.alive
    BY <1>7 DEF Status, Dead, Dying
  <2> HIDE DEF d
  <2>6. Answered(c, d, n)
    BY <2>1, <2>4 DEF Answered, E
  <2>7. CASE d.pending = <<>>
    <3>1. Fit(d)
      BY <2>4, <2>5, <2>7 DEF Fit, Waiting
    <3> QED BY <2>1, <2>3, <2>4, <2>6, <2>7, <3>1, <1>7
  <2>8. CASE d.pending # <<>>
    <3> d.pending \in Seq(Evals)
      BY <2>4 DEF Connection
    <3>1. Head(d.pending) \in Evals
      BY <2>8
    <3>2. /\ w \in Connection /\ w.status = Output /\ w.alive = d.alive /\ w.pending = d.pending
          /\ w.ended = d.ended /\ w.prev = d.prev /\ w.starting = d.starting
      BY <2>4, <3>1, WriteFacts
    <3>3. Do(c) = w
      BY <2>3, <2>8
    <3> HIDE DEF w
    <3>4. Fit(w)
      BY <3>2, <2>4, <2>5, <2>8 DEF Fit, Notified, Output, Dying
    <3>5. Answered(c, w, n)
      BY <3>2, <2>6 DEF Answered
    <3> QED BY <2>1, <2>4, <3>2, <3>3, <3>4, <3>5, <1>7
  <2> QED BY <2>7, <2>8
<1> QED BY <1>5, <1>6, <1>7

(* An evaluation that ends before others end makes one more.               *)
LEMMA AnsweredAfter ==
  ASSUME NEW c \in Connection, c.pending # <<>>,
         NEW b, b.pending = Tail(c.pending),
         b.ended = EndAs(c, {Head(c.pending)}, "answered"),
         NEW d, NEW m, Answered(b, d, m)
  PROVE  Answered(c, d, m + 1)
<1> DEFINE p == c.pending
<1>1. p \in Seq(Evals) /\ p # <<>>
  BY DEF Connection
<1>2. /\ Len(b.pending) = Len(p) - 1 /\ Len(p) \in Nat \ {0}
      /\ b.pending \in Seq(Evals)
      /\ \A i \in 1 .. Len(p) - 1 : b.pending[i] = p[i + 1]
  BY <1>1
<1>3. m \in 0 .. Len(p) - 1
  BY <1>2 DEF Answered
<1>4. d.pending = SubSeq(p, m + 2, Len(p))
  <2>1. d.pending = SubSeq(Tail(p), m + 1, Len(p) - 1)
    BY <1>2 DEF Answered
  <2> QED BY <2>1, <1>1, <1>2, <1>3
<1>5. {p[i] : i \in 1 .. m + 1} = {Head(p)} \cup {b.pending[i] : i \in 1 .. m}
  <2>1. \A i \in 1 .. m + 1 : i = 1 \/ (i - 1 \in 1 .. m /\ p[i] = b.pending[i - 1])
    BY <1>2, <1>3
  <2>2. \A i \in 1 .. m : i + 1 \in 1 .. m + 1 /\ p[i + 1] = b.pending[i]
    BY <1>2, <1>3
  <2>3. Head(p) = p[1] /\ 1 \in 1 .. m + 1
    BY <1>1, <1>3
  <2> DEFINE L == {p[i] : i \in 1 .. m + 1}
             F == {b.pending[i] : i \in 1 .. m}
  <2>4. L \subseteq {Head(p)} \cup F
    BY <2>1, <2>3
  <2>5. F \subseteq L
    BY <2>2
  <2>6. Head(p) \in L
    BY <2>3
  <2> HIDE DEF L, F
  <2>7. L = {Head(p)} \cup F
    BY <2>4, <2>5, <2>6
  <2> QED BY <2>7 DEF L, F
<1>6. d.ended = EndAs(c, {p[i] : i \in 1 .. m + 1}, "answered")
  <2>1. d.ended = EndAs(b, {b.pending[i] : i \in 1 .. m}, "answered")
    BY DEF Answered
  <2> HIDE DEF p
  <2> QED BY <2>1, <1>5 DEF EndAs, p
<1>7. (m + 1) + 1 = m + 2 /\ m + 1 \in 0 .. Len(p)
  BY <1>2, <1>3
<1> QED BY <1>4, <1>6, <1>7 DEF Answered

(* plugin-next ends the head of the queue and what plugin-do ends.         *)
LEMMA NextFacts ==
  ASSUME NEW c \in Connection, c.alive, c.starting => c.pending # <<>>
  PROVE  /\ DoNext(c) \in Connection /\ DoNext(c).prev = c.prev
         /\ Fit(DoNext(c))
         /\ \E n \in 0 .. Len(c.pending) : Answered(c, DoNext(c), n)
<1>1. c.pending \in Seq(Evals) /\ c.ended \in [Evals -> {"no", "answered", "dead", "interrupted"}]
  BY DEF Connection
<1>2. CASE ~Waiting(c)
  <2>1. DoNext(c) = c /\ c.pending = <<>>
    BY <1>2 DEF DoNext, Waiting
  <2>2. Answered(c, c, 0)
    BY <1>1 DEF Answered, EndAs
  <2> QED BY <2>1, <2>2, <1>1, <1>2 DEF Fit, Waiting
<1>3. CASE c.starting
  <2> DEFINE b == [c EXCEPT !.starting = FALSE]
  <2>1. DoNext(c) = Do(b)
    BY <1>3 DEF DoNext, Waiting
  <2>2. b \in Connection /\ ~b.starting
    BY Zenon DEF Connection
  <2>3. /\ b.alive = c.alive
        /\ b.pending = c.pending /\ b.ended = c.ended /\ b.prev = c.prev
    BY DEF Connection
  <2> HIDE DEF b
  <2>4. /\ Do(b) \in Connection /\ Do(b).prev = b.prev /\ Fit(Do(b))
        /\ \E n \in 0 .. Len(b.pending) : Answered(b, Do(b), n)
    BY <2>2, <2>3, <1>3, DoFacts
  <2>5. ASSUME NEW n, Answered(b, Do(b), n) PROVE Answered(c, Do(b), n)
    BY <2>3, <2>5 DEF Answered, EndAs
  <2> QED BY <2>1, <2>3, <2>4, <2>5
<1>4. CASE ~c.starting /\ c.pending # <<>>
  <2> DEFINE E == EndAs(c, {Head(c.pending)}, "answered")
             b == [c EXCEPT !.pending = Tail(@), !.ended = E]
  <2>1. DoNext(c) = Do(b)
    BY <1>4 DEF DoNext, Waiting
  <2>2. E \in [Evals -> {"no", "answered", "dead", "interrupted"}]
    BY EndAsType
  <2> HIDE DEF E
  <2>3. Tail(c.pending) \in Seq(Evals) /\ Len(Tail(c.pending)) = Len(c.pending) - 1
    BY <1>1, <1>4
  <2>4. b \in Connection /\ b.pending = Tail(c.pending) /\ b.ended = E /\ b.prev = c.prev
    BY <2>2, <2>3 DEF Connection
  <2>5. ~b.starting /\ b.alive
    BY <1>4, Zenon DEF Connection
  <2> HIDE DEF b
  <2>6. /\ Do(b) \in Connection /\ Do(b).prev = c.prev
        /\ b.pending # <<>> => Fit(Do(b))
        /\ b.pending = <<>> => Do(b) = b
    BY <2>4, <2>5, DoFacts
  <2>7. Fit(Do(b))
    BY <2>5, <2>6 DEF Fit, Waiting
  <2>8. PICK m \in 0 .. Len(b.pending) : Answered(b, Do(b), m)
    BY <2>4, <2>5, DoFacts
  <2>9. Answered(c, Do(b), m + 1)
    BY <2>4, <2>8, <1>4, AnsweredAfter DEF E
  <2>10. m + 1 \in 0 .. Len(c.pending)
    BY <2>9 DEF Answered
  <2> QED BY <2>1, <2>6, <2>7, <2>9, <2>10
<1> QED BY <1>2, <1>3, <1>4 DEF Waiting

-----------------------------------------------------------------------------
(* The notifications *)

(* From c to d all evaluations were cancelled.                             *)
Cancelled(c, d, how) ==
  /\ ~d.starting /\ d.pending = <<>>
  /\ d.ended = EndAs(c, ToSet(c.pending), how)

(* Cancelling all of them keeps the rest of the connection.                *)
LEMMA CancelFacts ==
  ASSUME NEW c \in Connection, NEW how \in {"dead", "interrupted"}
  PROVE  /\ CancelAll(c, how) \in Connection
         /\ CancelAll(c, how).alive = c.alive /\ CancelAll(c, how).status = c.status
         /\ CancelAll(c, how).prev = c.prev
         /\ Cancelled(c, CancelAll(c, how), how)
<1> DEFINE E == EndAs(c, ToSet(c.pending), how)
           d == CancelAll(c, how)
<1>1. E \in [Evals -> {"no", "answered", "dead", "interrupted"}]
  BY EndAsType
<1> HIDE DEF E
<1>2. d \in Connection
  <2> <<>> \in Seq(Evals)
    OBVIOUS
  <2> QED BY <1>1 DEF CancelAll, Connection, E
<1>3. d.alive = c.alive /\ d.starting = FALSE
  BY Zenon DEF CancelAll, Connection
<1>4. d.status = c.status /\ d.prev = c.prev /\ d.pending = <<>> /\ d.ended = E
  BY DEF CancelAll, Connection, E
<1> QED BY <1>2, <1>3, <1>4 DEF Cancelled, E

(* Where nothing waits, cancelling changes no end.                         *)
LEMMA CancelNone ==
  ASSUME NEW c \in Connection, c.pending = <<>>, NEW d, NEW how, Cancelled(c, d, how)
  PROVE  d.pending = c.pending /\ d.ended = c.ended
<1>1. ToSet(c.pending) = {}
  BY DEF ToSet
<1> QED BY <1>1 DEF Cancelled, EndAs, Connection

(* The first notification of a callback tells nothing that concerns those  *)
(* who wait.                                                               *)
LEMMA FirstNotification ==
  ASSUME NEW c \in Connection, Waiting(c) => Notified(c) = Output,
         c.starting => c.pending # <<>>
  PROVE  LET d == NotifyStatus(c)
         IN  /\ d \in Connection /\ d.prev = Notified(c)
             /\ d.alive = c.alive /\ d.status = c.status /\ d.starting = c.starting
             /\ d.pending = c.pending /\ d.ended = c.ended
<1> DEFINE d  == NotifyStatus(c)
           st == Notified(c)
           g  == CASE st = Dead -> CancelAll(c, "dead") [] st = Input -> DoNext(c) [] OTHER -> c
<1>1. st \in {Dead, Input, Output}
  BY DEF Notified, Connection, Dying
<1>2. CASE st = c.prev
  BY <1>2 DEF NotifyStatus
<1>3. CASE st # c.prev
  <2>1. d = [g EXCEPT !.prev = st]
    BY <1>3 DEF NotifyStatus
  <2>2. /\ g \in Connection /\ g.alive = c.alive /\ g.status = c.status
        /\ g.starting = c.starting /\ g.pending = c.pending /\ g.ended = c.ended
    <3>1. CASE st = Output
      BY <3>1 DEF Output, Dead, Input
    <3>2. CASE st # Output
      <4>1. ~Waiting(c) /\ ~c.starting /\ c.pending = <<>>
        BY <3>2 DEF Waiting
      <4>2. DoNext(c) = c
        BY <4>1 DEF DoNext
      <4>3. CASE st = Dead
        <5>1. g = CancelAll(c, "dead")
          BY <4>3 DEF Dead, Input
        <5>2. /\ g \in Connection /\ g.alive = c.alive /\ g.status = c.status
              /\ Cancelled(c, g, "dead")
          BY <5>1, CancelFacts
        <5>3. g.pending = c.pending /\ g.ended = c.ended /\ ~g.starting
          BY <4>1, <5>2, CancelNone DEF Cancelled
        <5> HIDE DEF g
        <5> QED BY <5>2, <5>3, <4>1 DEF Connection
      <4>4. CASE st = Input
        BY <4>2, <4>4 DEF Dead, Input
      <4> QED BY <1>1, <3>2, <4>3, <4>4
    <3> QED BY <3>1, <3>2
  <2> HIDE DEF g, st
  <2>3. d \in Connection
    BY <2>1, <2>2, <1>1 DEF Connection
  <2>4. d.alive = g.alive /\ d.starting = g.starting
    BY <2>1, <2>2, Zenon DEF Connection
  <2>5. d.prev = st /\ d.status = g.status /\ d.pending = g.pending /\ d.ended = g.ended
    BY <2>1, <2>2 DEF Connection
  <2> QED BY <2>2, <2>3, <2>4, <2>5 DEF st
<1> QED BY <1>2, <1>3

(* From c to d evaluations ended as their user may expect.                 *)
Ended(c, d) ==
  \/ \E n \in 0 .. Len(c.pending) : Answered(c, d, n)
  \/ Cancelled(c, d, "dead")

(* The second one, after output was read, ends the evaluations that were   *)
(* answered, or all of them when the plug-in died.                         *)
LEMMA SecondNotification ==
  ASSUME NEW c \in Connection, Waiting(c) => c.prev = Output,
         c.starting => c.pending # <<>>, ~c.alive => c.status = Dead,
         c.status = Dead => ~c.alive
  PROVE  LET d == NotifyStatus(c)
         IN  d \in Connection /\ Fit(d) /\ Ended(c, d)
<1> DEFINE d  == NotifyStatus(c)
           st == Notified(c)
           g  == CASE st = Dead -> CancelAll(c, "dead") [] st = Input -> DoNext(c) [] OTHER -> c
<1>1. st \in {Dead, Input, Output}
  BY DEF Notified, Connection, Dying
<1>2. ASSUME NEW x \in Connection, NEW y \in {Dead, Input, Output}, Fit(x), Ended(c, x)
      PROVE  LET z == [x EXCEPT !.prev = y] IN z \in Connection /\ Fit(z) /\ Ended(c, z)
  <2> DEFINE z == [x EXCEPT !.prev = y]
  <2>1. z \in Connection
    BY DEF Connection
  <2>2. z.alive = x.alive /\ z.starting = x.starting
    BY Zenon DEF Connection
  <2>3. z.status = x.status /\ z.pending = x.pending /\ z.ended = x.ended
    BY DEF Connection
  <2> HIDE DEF z
  <2>4. Fit(z)
    BY <1>2, <2>2, <2>3 DEF Fit, Waiting, Notified
  <2>5. Ended(c, z)
    BY <1>2, <2>2, <2>3 DEF Ended, Answered, Cancelled
  <2> QED BY <2>1, <2>4, <2>5 DEF z
<1>3. CASE st = Output
  <2>1. Fit(c)
    BY <1>3 DEF Fit, Notified, Output, Dead, Dying
  <2>2. c.pending \in Seq(Evals) /\ c.ended \in [Evals -> {"no", "answered", "dead", "interrupted"}]
    BY DEF Connection
  <2>3. Answered(c, c, 0) /\ 0 \in 0 .. Len(c.pending)
    BY <2>2 DEF Answered, EndAs
  <2>4. Ended(c, c)
    BY <2>3 DEF Ended
  <2>5. d = c \/ d = [c EXCEPT !.prev = st]
    BY <1>3 DEF NotifyStatus, Output, Dead, Input
  <2> HIDE DEF d, st
  <2> QED BY <2>1, <2>4, <2>5, <1>1, <1>2 DEF d
<1>4. CASE st # Output /\ st = c.prev
  <2>1. ~Waiting(c) /\ d = c
    BY <1>4 DEF NotifyStatus
  <2>2. Fit(c)
    BY <2>1, <1>4 DEF Fit, Waiting, Notified, Dead, Dying
  <2>3. c.pending \in Seq(Evals) /\ c.ended \in [Evals -> {"no", "answered", "dead", "interrupted"}]
    BY DEF Connection
  <2>4. Answered(c, c, 0) /\ 0 \in 0 .. Len(c.pending)
    BY <2>3 DEF Answered, EndAs
  <2> QED BY <2>1, <2>2, <2>4 DEF Ended
<1>5. CASE st = Dead /\ st # c.prev
  <2>1. d = [CancelAll(c, "dead") EXCEPT !.prev = st]
    BY <1>5 DEF NotifyStatus, Dead, Input
  <2>2. /\ CancelAll(c, "dead") \in Connection
        /\ CancelAll(c, "dead").status = c.status
        /\ Cancelled(c, CancelAll(c, "dead"), "dead")
    BY CancelFacts
  <2>3. Fit(CancelAll(c, "dead"))
    BY <1>5, <2>2 DEF Fit, Waiting, Cancelled, Notified, Dead, Dying, Output
  <2>4. Ended(c, CancelAll(c, "dead"))
    BY <2>2 DEF Ended
  <2> HIDE DEF d, st
  <2> QED BY <2>1, <2>2, <2>3, <2>4, <1>1, <1>2 DEF d
<1>6. CASE st = Input /\ st # c.prev
  <2>1. d = [DoNext(c) EXCEPT !.prev = st]
    BY <1>6 DEF NotifyStatus, Dead, Input
  <2>2. c.alive
    BY <1>6 DEF Notified, Dead, Dying, Input, Output
  <2>3. /\ DoNext(c) \in Connection /\ Fit(DoNext(c))
        /\ \E n \in 0 .. Len(c.pending) : Answered(c, DoNext(c), n)
    BY <2>2, NextFacts
  <2>4. Ended(c, DoNext(c))
    BY <2>3 DEF Ended
  <2> HIDE DEF d, st
  <2> QED BY <2>1, <2>3, <2>4, <1>1, <1>2 DEF d
<1> QED BY <1>1, <1>3, <1>4, <1>5, <1>6

(* Reading output disturbs no pending evaluation.                          *)
LEMMA ParseFacts ==
  ASSUME NEW c \in Connection, NEW s \in Seq(Evals \cup {Prompt}), NEW e \in Evals \cup {None}
  PROVE  LET d == Parse(c, s, e)
         IN  /\ d \in Connection /\ d.prev = c.prev
             /\ d.alive = c.alive /\ d.starting = c.starting
             /\ d.pending = c.pending /\ d.ended = c.ended
             /\ d.status = IF ~c.alive THEN Dead ELSE IF Prompt \in ToSet(s) THEN Input ELSE c.status
<1> DEFINE d == Parse(c, s, e)
           of == IF e # None THEN {e} ELSE IF c.starting \/ c.pending = <<>> THEN {} ELSE {Head(c.pending)}
           st == IF ~c.alive THEN Dead ELSE IF Prompt \in ToSet(s) THEN Input ELSE c.status
           gt == [x \in Evals |-> IF x \in of THEN c.got[x] \cup (ToSet(s) \ {Prompt}) ELSE c.got[x]]
<1>1. d = [c EXCEPT !.status = st, !.got = gt]
  BY Zenon DEF Parse
<1>2. ToSet(s) \ {Prompt} \subseteq Evals
  BY DEF ToSet
<1>3. gt \in [Evals -> SUBSET Evals]
  <2> HIDE DEF of
  <2> QED BY <1>2 DEF Connection
<1>4. st \in {Dead, Dying, Input, Output}
  BY DEF Connection
<1> HIDE DEF d, st, gt
<1>5. d \in Connection
  BY <1>1, <1>3, <1>4 DEF Connection
<1>6. d.alive = c.alive /\ d.starting = c.starting
  BY <1>1, Zenon DEF Connection
<1>7. d.prev = c.prev /\ d.pending = c.pending /\ d.ended = c.ended /\ d.status = st
  BY <1>1 DEF Connection
<1> QED BY <1>5, <1>6, <1>7 DEF d, st

(* Listening ends evaluations, and leaves none that waits for the dead.    *)
LEMMA ListenFacts ==
  ASSUME NEW c \in Connection, NEW s \in Seq(Evals \cup {Prompt}), Listen(c, s),
         Waiting(c) => Notified(c) = Output, c.starting => c.pending # <<>>
  PROVE  con' \in Connection /\ Fit(con') /\ Ended(c, con')
<1> DEFINE d == NotifyStatus(c)
           p == Parse(d, s, None)
<1>1. /\ d \in Connection /\ d.prev = Notified(c)
      /\ d.alive = c.alive /\ d.status = c.status /\ d.starting = c.starting
      /\ d.pending = c.pending /\ d.ended = c.ended
  BY FirstNotification
<1>2. con' = IF d.status = Dead THEN NotifyStatus(d) ELSE NotifyStatus(p)
  BY DEF Listen
<1> HIDE DEF d
<1>3. CASE d.status = Dead
  <2>1. Notified(d) = Dead /\ Notified(c) = Dead
    BY <1>1, <1>3 DEF Notified, Dead, Dying
  <2>2. con' = d /\ ~Waiting(c)
    BY <1>1, <1>2, <1>3, <2>1 DEF NotifyStatus, Dead, Output
  <2>3. Fit(d)
    BY <1>1, <1>3, <2>2 DEF Fit, Waiting, Dead, Dying
  <2>4. c.pending \in Seq(Evals) /\ c.ended \in [Evals -> {"no", "answered", "dead", "interrupted"}]
    BY DEF Connection
  <2>5. Answered(c, d, 0) /\ 0 \in 0 .. Len(c.pending)
    BY <1>1, <2>4 DEF Answered, EndAs
  <2> QED BY <1>1, <2>2, <2>3, <2>5 DEF Ended
<1>4. CASE d.status # Dead
  <2>1. /\ p \in Connection /\ p.prev = d.prev
        /\ p.alive = d.alive /\ p.starting = d.starting
        /\ p.pending = d.pending /\ p.ended = d.ended
        /\ p.status = IF ~d.alive THEN Dead ELSE IF Prompt \in ToSet(s) THEN Input ELSE d.status
    BY <1>1, ParseFacts
  <2> HIDE DEF p
  <2>2. /\ Waiting(p) => p.prev = Output
        /\ p.starting => p.pending # <<>>
    BY <1>1, <2>1 DEF Waiting
  <2>3. (~p.alive => p.status = Dead) /\ (p.status = Dead => ~p.alive)
    BY <2>1, <1>4 DEF Dead, Input
  <2>4. con' \in Connection /\ Fit(con') /\ Ended(p, con')
    BY <1>2, <1>4, <2>1, <2>2, <2>3, SecondNotification
  <2>5. Ended(c, con')
    <3>1. p.pending = c.pending /\ p.ended = c.ended
      BY <1>1, <2>1
    <3>2. ASSUME NEW S, NEW how PROVE EndAs(p, S, how) = EndAs(c, S, how)
      BY <3>1 DEF EndAs
    <3>3. ASSUME NEW n \in 0 .. Len(p.pending), Answered(p, con', n)
          PROVE  n \in 0 .. Len(c.pending) /\ Answered(c, con', n)
      BY <3>1, <3>2, <3>3 DEF Answered
    <3>4. ASSUME Cancelled(p, con', "dead") PROVE Cancelled(c, con', "dead")
      BY <3>1, <3>2, <3>4 DEF Cancelled
    <3> QED BY <2>4, <3>3, <3>4 DEF Ended
  <2> QED BY <2>4, <2>5
<1> QED BY <1>3, <1>4

-----------------------------------------------------------------------------
(* Each action keeps the invariant and does what was promised *)

Promised == [Promise!Next]_(Promise!vars)

(* Cancelling all evaluations is promised.                                 *)
LEMMA CancelledPromised ==
  ASSUME con \in Connection, NEW how \in {"dead", "interrupted"}, Cancelled(con, con', how)
  PROVE  Promised
<1>0. con.pending \in Seq(Evals) /\ con.ended \in [Evals -> {"no", "answered", "dead", "interrupted"}]
  BY DEF Connection
<1>1. {con.pending[i] : i \in 1 .. Len(con.pending)} = ToSet(con.pending)
  BY <1>0 DEF ToSet
<1>2. /\ con'.pending = <<>>
      /\ con'.ended = [e \in Evals |-> IF e \in ToSet(con.pending) THEN how ELSE con.ended[e]]
  BY DEF Cancelled, EndAs
<1>3. CASE con.pending = <<>>
  <2>1. ToSet(con.pending) = {}
    BY <1>3 DEF ToSet
  <2>2. con'.pending = con.pending /\ con'.ended = con.ended
    BY <1>0, <1>2, <1>3, <2>1
  <2> QED BY <2>2 DEF Promised, Promise!vars
<1>4. CASE con.pending # <<>>
  <2>1. Promise!Cancel(how)
    BY <1>1, <1>2, <1>4 DEF Promise!Cancel, Promise!First
  <2>2. how \in Promise!Ends \ {"answered"}
    BY DEF Promise!Ends
  <2> QED BY <2>1, <2>2 DEF Promised, Promise!Next
<1> QED BY <1>3, <1>4

(* So is answering the oldest ones.                                        *)
LEMMA EndedPromised ==
  ASSUME con \in Connection, NEW c, c.pending = con.pending, c.ended = con.ended, Ended(c, con')
  PROVE  Promised
<1>1. con.pending \in Seq(Evals) /\ con.ended \in [Evals -> {"no", "answered", "dead", "interrupted"}]
  BY DEF Connection
<1>2. ASSUME NEW n \in 0 .. Len(c.pending), Answered(c, con', n)
      PROVE  Promised
  <2>1. /\ con'.pending = SubSeq(con.pending, n + 1, Len(con.pending))
        /\ con'.ended = [e \in Evals |-> IF e \in {con.pending[i] : i \in 1 .. n}
                                         THEN "answered" ELSE con.ended[e]]
    BY <1>2 DEF Answered, EndAs
  <2>2. CASE n = 0
    <3>1. con'.pending = con.pending /\ con'.ended = con.ended
      BY <1>1, <2>1, <2>2
    <3> QED BY <3>1 DEF Promised, Promise!vars
  <2>3. CASE n # 0
    <3>1. n \in 1 .. Len(con.pending)
      BY <2>3, <1>1
    <3>2. Promise!Answer(n)
      BY <2>1, <3>1 DEF Promise!Answer, Promise!Rest, Promise!First
    <3> QED BY <3>1, <3>2 DEF Promised, Promise!Next
  <2> QED BY <2>2, <2>3
<1>3. ASSUME Cancelled(c, con', "dead")
      PROVE  Promised
  <2>1. Cancelled(con, con', "dead")
    BY <1>3 DEF Cancelled, EndAs
  <2> QED BY <2>1, CancelledPromised
<1> QED BY <1>2, <1>3 DEF Ended

(* What the actions of the program change besides the connection.          *)
LEMMA SpawnType ==
  ASSUME TypeOK, proc = "busy" => job \in Evals, Spawn
  PROVE  /\ proc' \in {"dead", "booting", "ready", "busy", "spoken"}
         /\ job' \in Evals \cup {None} /\ signal' \in BOOLEAN /\ interrupted' \in BOOLEAN
         /\ proc' = "busy" => job' \in Evals
BY Zenon DEF Spawn, TypeOK

(* Only a queue that was empty is served at once.                          *)
LEMMA FeedStep ==
  ASSUME IInv, NEW e \in Evals, Feed(e)
  PROVE  IInv' /\ Promised
<1> DEFINE c == [con EXCEPT !.pending = Append(@, e)]
<1>1. /\ con \in Connection /\ Fit(con) /\ forced' = forced /\ forced = Idle
      /\ con.pending \in Seq(Evals)
      /\ con.ended \in [Evals -> {"no", "answered", "dead", "interrupted"}]
  BY DEF IInv, TypeOK, Feed, Connection
<1>2. Append(con.pending, e) \in Seq(Evals)
  BY <1>1
<1>3. /\ c \in Connection /\ c.pending = Append(con.pending, e) /\ c.ended = con.ended
      /\ c.status = con.status
  BY <1>1, <1>2 DEF Connection
<1>4. c.alive = con.alive /\ c.starting = con.starting
  BY <1>1, Zenon DEF Connection
<1>5. con' = IF con.pending = <<>> THEN Do(c) ELSE c
  BY DEF Feed
<1> HIDE DEF c
<1>6. con.ended[e] = "no" /\ \A i \in 1 .. Len(con.pending) : con.pending[i] # e
  BY <1>1 DEF Feed, New, InQueue, ToSet
<1>7. CASE con.pending = <<>>
  <2>1. con' = Do(c) /\ ~c.starting /\ c.pending # <<>> /\ c.pending = <<e>>
    BY <1>1, <1>3, <1>4, <1>5, <1>7 DEF Fit
  <2>2. (c.status = Dying => c.alive)
    BY <1>1, <1>3, <1>4 DEF Fit
  <2>3. con' \in Connection /\ Fit(con')
    BY <1>3, <2>1, <2>2, DoFacts
  <2>4. PICK n \in 0 .. Len(c.pending) : Answered(c, con', n)
    BY <1>3, <2>1, <2>2, DoFacts
  <2>5. /\ n \in 0 .. 1
        /\ con'.pending = SubSeq(<<e>>, n + 1, 1)
        /\ con'.ended = [x \in Evals |-> IF x \in {c.pending[i] : i \in 1 .. n}
                                         THEN "answered" ELSE con.ended[x]]
    BY <2>1, <2>4, <1>3 DEF Answered, EndAs
  <2>6. ASSUME n = 0 PROVE Promised
    <3>0. {c.pending[i] : i \in 1 .. n} = {}
      BY <2>6
    <3>1. con'.pending = Append(con.pending, e) /\ con'.ended = con.ended
      <4>1. con'.ended = con.ended
        BY <1>1, <2>5, <3>0
      <4>2. con'.pending = c.pending
        <5>1. SubSeq(c.pending, 0 + 1, Len(c.pending)) = c.pending
          BY <1>2, <1>3
        <5> QED BY <5>1, <2>4, <2>6 DEF Answered
      <4> QED BY <1>3, <4>1, <4>2
    <3>2. Promise!Feed(e)
      BY <3>1, <1>6 DEF Promise!Feed, Promise!New
    <3> QED BY <3>2 DEF Promised, Promise!Next
  <2>7. ASSUME n = 1 PROVE Promised
    <3>1. {c.pending[i] : i \in 1 .. n} = {e}
      BY <2>1, <2>7
    <3>2. con'.pending = con.pending /\ con'.ended = [con.ended EXCEPT ![e] = "answered"]
      <4>1. con'.pending = con.pending
        BY <1>7, <2>5, <2>7
      <4>2. con'.ended = [x \in Evals |-> IF x \in {e} THEN "answered" ELSE con.ended[x]]
        BY <2>5, <3>1
      <4>3. con'.ended = [con.ended EXCEPT ![e] = "answered"]
        BY <1>1, <4>2
      <4> QED BY <4>1, <4>3
    <3>3. Promise!EvalAtOnce(e)
      BY <3>2, <1>6, <1>7 DEF Promise!EvalAtOnce, Promise!New
    <3> QED BY <3>3 DEF Promised, Promise!Next
  <2>8. Promised
    BY <2>5, <2>6, <2>7
  <2> QED BY <2>3, <2>8, <1>1, SpawnType DEF IInv, TypeOK, Feed
<1>8. CASE con.pending # <<>>
  <2>1. con' = c /\ c.pending # <<>>
    BY <1>1, <1>3, <1>5, <1>8
  <2>2. Fit(c)
    BY <1>1, <1>3, <1>4, <1>8, <2>1 DEF Fit, Waiting, Notified
  <2>3. Promise!Feed(e)
    BY <1>3, <1>6, <2>1 DEF Promise!Feed, Promise!New
  <2>4. Promised
    BY <2>3 DEF Promised, Promise!Next
  <2> QED BY <2>1, <2>2, <2>4, <1>1, <1>3, SpawnType DEF IInv, TypeOK, Feed
<1> QED BY <1>7, <1>8

(* Reading the pipes disturbs no pending evaluation.                       *)
LEMMA ReadFacts ==
  ASSUME NEW c \in Connection, NEW k \in 0 .. Len(c.out), NEW eof \in BOOLEAN
  PROVE  LET d == ReadPipes(c, k, eof)
         IN  /\ d \in Connection /\ d.starting = c.starting /\ d.status = c.status
             /\ d.pending = c.pending /\ d.ended = c.ended
             /\ SubSeq(c.out, 1, k) \in Seq(Evals \cup {Prompt})
<1> DEFINE o == IF eof THEN <<>> ELSE SubSeq(c.out, k + 1, Len(c.out))
           a == ~eof
           d == [c EXCEPT !.alive = a, !.out = o]
<1>1. c.out \in Seq(Evals \cup {Prompt})
  BY DEF Connection
<1>2. SubSeq(c.out, 1, k) \in Seq(Evals \cup {Prompt}) /\ o \in Seq(Evals \cup {Prompt})
  BY <1>1, SubSeqProperties
<1>3. a \in BOOLEAN
  OBVIOUS
<1>4. ReadPipes(c, k, eof) = d
  BY Zenon DEF ReadPipes
<1> HIDE DEF a, o
<1>5. d \in Connection /\ d.status = c.status /\ d.pending = c.pending /\ d.ended = c.ended
  BY <1>2, <1>3 DEF Connection
<1>6. d.starting = c.starting
  BY Zenon DEF Connection
<1> HIDE DEF d
<1> QED BY <1>2, <1>4, <1>5, <1>6

(* The link calls back with what the plug-in wrote, or as it is closed.    *)
LEMMA CallbackStep ==
  ASSUME IInv, NEW k \in 0 .. Len(con.out), Callback(k)
  PROVE  IInv' /\ Promised
<1> DEFINE c == ReadPipes(con, k, proc = "dead")
           s == SubSeq(con.out, 1, k)
<1>1. /\ con \in Connection /\ Fit(con) /\ forced' = forced /\ forced = Idle
      /\ con.out \in Seq(Evals \cup {Prompt})
  BY DEF IInv, TypeOK, Callback, Connection
<1>2. s \in Seq(Evals \cup {Prompt})
  BY <1>1, ReadFacts
<1>3. /\ c \in Connection /\ c.pending = con.pending /\ c.ended = con.ended
      /\ c.status = con.status
  BY <1>1, ReadFacts
<1>4. c.starting = con.starting
  BY <1>1, ReadFacts
<1>5. Listen(c, s)
  BY DEF Callback
<1> HIDE DEF c, s
<1>6. /\ Waiting(c) => Notified(c) = Output
      /\ c.starting => c.pending # <<>>
  BY <1>1, <1>3, <1>4 DEF Fit, Waiting, Notified
<1>7. con' \in Connection /\ Fit(con') /\ Ended(c, con')
  BY <1>2, <1>3, <1>5, <1>6, ListenFacts
<1>8. Promised
  BY <1>1, <1>3, <1>7, EndedPromised
<1> QED BY <1>1, <1>7, <1>8 DEF IInv, TypeOK, Callback

(* Stopping the plug-in ends all evaluations.                              *)
LEMMA StopStep ==
  ASSUME IInv, Stop
  PROVE  IInv' /\ Promised
<1> DEFINE st == IF con.alive /\ con.status = Output THEN Dying ELSE con.status
           c  == [con EXCEPT !.alive = FALSE, !.inbox = <<>>, !.out = <<>>, !.status = st]
<1>1. con \in Connection /\ Fit(con) /\ forced' = forced /\ forced = Idle
  BY DEF IInv, TypeOK, Stop
<1>2. <<>> \in Seq(Evals) /\ <<>> \in Seq(Evals \cup {Prompt})
  OBVIOUS
<1>3. st \in {Dead, Dying, Input, Output}
  BY <1>1 DEF Connection
<1>4. Listen(c, <<>>)
  BY DEF Stop
<1>5. st = con.status \/ (st = Dying /\ con.status = Output)
  OBVIOUS
<1> HIDE DEF st
<1>6. /\ c \in Connection /\ c.pending = con.pending /\ c.ended = con.ended
      /\ c.status = st
  BY <1>1, <1>2, <1>3 DEF Connection
<1>7. c.starting = con.starting
  BY <1>1, Zenon DEF Connection
<1> HIDE DEF c
<1>8. /\ Waiting(c) => Notified(c) = Output
      /\ c.starting => c.pending # <<>>
  BY <1>1, <1>5, <1>6, <1>7 DEF Fit, Waiting, Notified
<1>9. con' \in Connection /\ Fit(con') /\ Ended(c, con')
  BY <1>2, <1>4, <1>6, <1>8, ListenFacts
<1>10. Promised
  BY <1>1, <1>6, <1>9, EndedPromised
<1>11. proc' = "dead" /\ job' = None /\ signal' = FALSE /\ interrupted' = interrupted
  BY DEF Stop
<1> QED BY <1>1, <1>9, <1>10, <1>11 DEF IInv, TypeOK

(* Interrupting the plug-in ends all evaluations; the program learns later *)
(* whether it died of it.                                                  *)
LEMMA InterruptStep ==
  ASSUME IInv, Interrupt
  PROVE  IInv' /\ Promised
<1>1. /\ con \in Connection /\ Fit(con) /\ forced' = forced /\ forced = Idle
      /\ proc' = proc /\ job' = job
  BY DEF IInv, TypeOK, Interrupt
<1>2. signal' \in BOOLEAN /\ interrupted' \in BOOLEAN
  BY Zenon DEF IInv, TypeOK, Interrupt
<1>3. \E d \in Connection :
        /\ con' = CancelAll(d, "interrupted")
        /\ d.pending = con.pending /\ d.ended = con.ended
        /\ d.status = Dying => d.alive
  <2>1. CASE Status(con) = Output /\ con.alive
    <3> DEFINE st == IF con.status = Output THEN Dying ELSE con.status
               c  == [con EXCEPT !.status = st]
               d  == NotifyStatus(c)
    <3>1. con' = CancelAll(d, "interrupted")
      BY <2>1 DEF Interrupt
    <3>2. st \in {Dead, Dying, Input, Output} /\ (st = con.status \/ (st = Dying /\ con.status = Output))
      BY <1>1 DEF Connection
    <3> HIDE DEF st
    <3>3. /\ c \in Connection /\ c.pending = con.pending /\ c.ended = con.ended
          /\ c.status = st
      BY <1>1, <3>2 DEF Connection
    <3>4. c.starting = con.starting /\ c.alive = con.alive
      BY <1>1, Zenon DEF Connection
    <3> HIDE DEF c
    <3>5. /\ Waiting(c) => Notified(c) = Output
          /\ c.starting => c.pending # <<>>
      BY <1>1, <3>2, <3>3, <3>4 DEF Fit, Waiting, Notified
    <3>6. d \in Connection /\ d.pending = c.pending /\ d.ended = c.ended /\ d.alive = c.alive
      BY <3>3, <3>5, FirstNotification
    <3> QED BY <2>1, <3>1, <3>3, <3>4, <3>6
  <2>2. CASE ~(Status(con) = Output /\ con.alive)
    <3>1. con' = CancelAll(con, "interrupted")
      BY <2>2 DEF Interrupt
    <3> QED BY <1>1, <3>1 DEF Fit
  <2> QED BY <2>1, <2>2
<1>4. PICK d \in Connection :
        /\ con' = CancelAll(d, "interrupted")
        /\ d.pending = con.pending /\ d.ended = con.ended
        /\ d.status = Dying => d.alive
  BY <1>3
<1>5. /\ con' \in Connection /\ con'.alive = d.alive /\ con'.status = d.status
      /\ Cancelled(d, con', "interrupted")
  BY <1>4, CancelFacts
<1>6. Fit(con')
  BY <1>4, <1>5 DEF Fit, Waiting, Cancelled
<1>7. Promised
  <2>1. Cancelled(con, con', "interrupted")
    BY <1>4, <1>5 DEF Cancelled, EndAs
  <2> QED BY <1>1, <2>1, CancelledPromised
<1> QED BY <1>1, <1>2, <1>5, <1>6, <1>7 DEF IInv, TypeOK

(* The program waits for an evaluation only while none is pending.         *)
LEMMA ForcedEvalStep ==
  ASSUME IInv, NEW e \in Evals, ForcedEval(e)
  PROVE  IInv' /\ Promised
<1>1. /\ con \in Connection /\ Fit(con) /\ ~Waiting(con) /\ con.ended[e] = "no"
      /\ con' = IF con.made THEN Write(con, e) ELSE Start(con)
      /\ con.ended \in [Evals -> {"no", "answered", "dead", "interrupted"}]
  BY DEF IInv, TypeOK, ForcedEval, New, Connection
<1>2. /\ con' \in Connection /\ con'.status = Output
      /\ con'.pending = con.pending /\ con'.ended = con.ended /\ con'.starting = con.starting
  BY <1>1, StartFacts, WriteFacts
<1>3. Fit(con') /\ ~Waiting(con')
  BY <1>1, <1>2 DEF Fit, Waiting, Output, Dying
<1>4. /\ forced' \in [eval : Evals \cup {None}, phase : {None, "banner", "answer"}]
      /\ forced'.eval = e
  BY DEF ForcedEval
<1>5. Promised
  BY <1>2 DEF Promised, Promise!vars
<1>6. Spawn
  BY DEF ForcedEval
<1> QED BY <1>1, <1>2, <1>3, <1>4, <1>5, <1>6, SpawnType DEF IInv, TypeOK

(* It ends when its answer is complete.                                    *)
LEMMA ForcedReadStep ==
  ASSUME IInv, NEW k \in 0 .. Len(con.out), ForcedRead(k)
  PROVE  IInv' /\ Promised
<1> DEFINE e  == forced.eval
           of == IF forced.phase = "answer" THEN e ELSE None
           b  == ReadPipes(con, k, proc = "dead")
           s  == SubSeq(con.out, 1, k)
           c  == Parse(b, s, of)
           E  == EndAs(c, {e}, "answered")
<1>1. /\ con \in Connection /\ Fit(con) /\ ~Waiting(con) /\ e \in Evals /\ con.ended[e] = "no"
      /\ con.out \in Seq(Evals \cup {Prompt}) /\ con.pending = <<>> /\ ~con.starting
      /\ con.ended \in [Evals -> {"no", "answered", "dead", "interrupted"}]
  BY DEF IInv, TypeOK, ForcedRead, Connection, Waiting
<1>2. /\ forced \in [eval : Evals \cup {None}, phase : {None, "banner", "answer"}]
      /\ proc' = proc /\ job' = job /\ signal' = signal /\ interrupted' = interrupted
  BY DEF IInv, TypeOK, ForcedRead
<1>3. IF c.status # Input THEN con' = c /\ UNCHANGED forced
      ELSE IF forced.phase = "banner"
           THEN con' = Write(c, e) /\ forced' = [forced EXCEPT !.phase = "answer"]
           ELSE con' = [c EXCEPT !.ended = E] /\ forced' = Idle
  BY Zenon DEF ForcedRead
<1>4. of \in Evals \cup {None}
  BY <1>1
<1>5. s \in Seq(Evals \cup {Prompt})
  BY <1>1, ReadFacts
<1>6. b \in Connection /\ b.starting = con.starting
  BY <1>1, ReadFacts
<1>7. b.pending = con.pending /\ b.ended = con.ended /\ b.status = con.status
  BY <1>1, ReadFacts
<1> HIDE DEF e, of, b, s
<1>8. /\ c \in Connection /\ c.alive = b.alive /\ c.starting = b.starting
      /\ c.pending = b.pending /\ c.ended = b.ended
      /\ ~b.alive => c.status = Dead
  BY <1>4, <1>5, <1>6, ParseFacts
<1>9. E \in [Evals -> {"no", "answered", "dead", "interrupted"}]
  BY <1>8, EndAsType
<1> HIDE DEF c, E
<1>10. ~Waiting(c) /\ Fit(c) /\ c.pending = con.pending /\ c.ended = con.ended
  BY <1>1, <1>6, <1>7, <1>8 DEF Waiting, Fit, Dead, Dying
<1>11. CASE c.status # Input
  <2>1. con' = c /\ forced' = forced
    BY <1>3, <1>11
  <2>2. Promised
    BY <2>1, <1>10 DEF Promised, Promise!vars
  <2> QED BY <2>1, <2>2, <1>1, <1>2, <1>8, <1>10 DEF IInv, TypeOK, e
<1>12. CASE c.status = Input /\ forced.phase = "banner"
  <2>1. con' = Write(c, e) /\ forced' = [forced EXCEPT !.phase = "answer"]
    BY <1>3, <1>12
  <2>2. /\ con' \in Connection /\ con'.status = Output /\ con'.starting = c.starting
        /\ con'.pending = c.pending /\ con'.ended = c.ended
    BY <1>1, <1>8, <2>1, WriteFacts
  <2>3. Fit(con') /\ ~Waiting(con')
    BY <2>2, <1>10 DEF Fit, Waiting, Output, Dying
  <2>4. /\ forced' \in [eval : Evals \cup {None}, phase : {None, "banner", "answer"}]
        /\ forced'.eval = e
    BY <1>2, <2>1 DEF e
  <2>5. Promised
    BY <2>2, <1>10 DEF Promised, Promise!vars
  <2> QED BY <2>2, <2>3, <2>4, <2>5, <1>1, <1>2, <1>10 DEF IInv, TypeOK
<1>13. CASE c.status = Input /\ forced.phase # "banner"
  <2>1. con' = [c EXCEPT !.ended = E] /\ forced' = Idle
    BY <1>3, <1>13
  <2>2. /\ con' \in Connection /\ con'.pending = c.pending /\ con'.ended = E
        /\ con'.status = c.status
    BY <2>1, <1>8, <1>9 DEF Connection
  <2>3. con'.starting = c.starting /\ con'.alive = c.alive
    BY <2>1, <1>8, Zenon DEF Connection
  <2>4. Fit(con')
    BY <1>10, <2>2, <2>3 DEF Fit, Waiting
  <2>5. con'.ended = [con.ended EXCEPT ![e] = "answered"]
    BY <1>1, <1>10, <2>2 DEF EndAs, E
  <2>6. Promise!EvalAtOnce(e)
    BY <1>1, <1>10, <2>2, <2>5 DEF Promise!EvalAtOnce, Promise!New
  <2>7. Promised
    BY <1>1, <2>6 DEF Promised, Promise!Next
  <2>8. Idle \in [eval : Evals \cup {None}, phase : {None, "banner", "answer"}]
    BY DEF Idle
  <2> QED BY <2>1, <2>2, <2>4, <2>7, <2>8, <1>2 DEF IInv, TypeOK
<1> QED BY <1>11, <1>12, <1>13

(* The plug-in only touches the pipes.                                     *)
LEMMA InboxFacts ==
  ASSUME NEW c \in Connection, NEW i \in Seq(Evals)
  PROVE  LET d == [c EXCEPT !.inbox = i]
         IN  /\ d \in Connection /\ d.alive = c.alive /\ d.starting = c.starting
             /\ d.status = c.status /\ d.pending = c.pending /\ d.ended = c.ended
<1> DEFINE d == [c EXCEPT !.inbox = i]
<1>1. d \in Connection /\ d.status = c.status /\ d.pending = c.pending /\ d.ended = c.ended
  BY DEF Connection
<1>2. d.alive = c.alive /\ d.starting = c.starting
  BY Zenon DEF Connection
<1> QED BY <1>1, <1>2

(* What the plug-in says goes into the other pipe, and nowhere else.       *)
LEMMA PipesFacts ==
  ASSUME NEW c \in Connection, NEW o \in Seq(Evals \cup {Prompt})
  PROVE  LET d == [c EXCEPT !.out = o]
         IN  /\ d \in Connection /\ d.alive = c.alive /\ d.starting = c.starting
             /\ d.status = c.status /\ d.pending = c.pending /\ d.ended = c.ended
<1> DEFINE d == [c EXCEPT !.out = o]
<1>1. d \in Connection /\ d.status = c.status /\ d.pending = c.pending /\ d.ended = c.ended
  BY DEF Connection
<1>2. d.alive = c.alive /\ d.starting = c.starting
  BY Zenon DEF Connection
<1> QED BY <1>1, <1>2

(* A step of the plug-in keeps the invariant and is a stutter of the       *)
(* promise.                                                                *)
LEMMA PluginStep ==
  ASSUME IInv, Plugin
  PROVE  IInv' /\ Promised
<1>1. /\ con \in Connection /\ con.inbox \in Seq(Evals) /\ con.out \in Seq(Evals \cup {Prompt})
      /\ proc \in {"dead", "booting", "ready", "busy", "spoken"} /\ job \in Evals \cup {None}
      /\ signal \in BOOLEAN /\ interrupted \in BOOLEAN
      /\ proc = "busy" => job \in Evals
  BY DEF IInv, TypeOK, Connection
<1>2. forced' = forced /\ signal' \in BOOLEAN /\ interrupted' = interrupted
  BY <1>1, Zenon DEF Plugin, PluginBoots, PluginReads, PluginSpeaks, PluginEnds, PluginDies, PluginInterrupted
<1> DEFINE Pipes(d) == /\ d \in Connection /\ d.alive = con.alive /\ d.starting = con.starting
                       /\ d.status = con.status /\ d.pending = con.pending /\ d.ended = con.ended
<1>3. ASSUME NEW m \in Evals \cup {Prompt}, Say(<<m>>) PROVE Pipes(con')
  <2>1. con.out \o <<m>> \in Seq(Evals \cup {Prompt})
    BY <1>1
  <2> QED BY <1>1, <1>3, <2>1, PipesFacts DEF Say
<1>4. Pipes(con) /\ Prompt \in Evals \cup {Prompt}
  BY <1>1
<1> DEFINE Works == /\ Pipes(con')
                    /\ proc' \in {"dead", "booting", "ready", "busy", "spoken"}
                    /\ job' \in Evals \cup {None} /\ (proc' = "busy" => job' \in Evals)
<1>5. Works
  <2>1. CASE PluginBoots
    <3>1. proc' = "ready" /\ job' = job /\ Say(<<Prompt>>)
      BY <2>1 DEF PluginBoots
    <3> QED BY <1>1, <1>3, <1>4, <3>1
  <2>2. CASE PluginReads
    <3>1. /\ proc' = "busy" /\ job' = Head(con.inbox) /\ con.inbox # <<>>
          /\ con' = [con EXCEPT !.inbox = Tail(con.inbox)]
      BY <2>2 DEF PluginReads
    <3>2. Head(con.inbox) \in Evals /\ Tail(con.inbox) \in Seq(Evals)
      BY <1>1, <3>1
    <3>3. Pipes(con')
      BY <1>1, <3>1, <3>2, InboxFacts
    <3> QED BY <3>1, <3>2, <3>3
  <2>3. CASE PluginSpeaks
    <3>1. proc = "busy" /\ proc' = "spoken" /\ job' = job /\ Say(<<job>>)
      BY <2>3 DEF PluginSpeaks
    <3>2. job \in Evals
      BY <1>1, <3>1
    <3> QED BY <1>3, <3>1, <3>2
  <2>4. CASE PluginEnds
    <3>1. proc' = "ready" /\ job' = None /\ Say(<<Prompt>>)
      BY <2>4 DEF PluginEnds
    <3> QED BY <1>3, <1>4, <3>1
  <2>5. CASE PluginDies
    <3>1. proc' = "dead" /\ job' = None /\ con' = con
      BY <2>5 DEF PluginDies
    <3> QED BY <1>4, <3>1
  <2>6. CASE PluginInterrupted
    <3>1. \/ con' = con /\ proc' = proc /\ job' = job
          \/ Say(<<Prompt>>) /\ proc' = "ready" /\ job' = None
      BY <2>6 DEF PluginInterrupted
    <3> QED BY <1>1, <1>3, <1>4, <3>1
  <2> QED BY <2>1, <2>2, <2>3, <2>4, <2>5, <2>6 DEF Plugin
<1>6. Fit(con') /\ (Waiting(con') => Waiting(con))
  BY <1>5 DEF IInv, Fit, Waiting, Notified
<1>7. Promised
  BY <1>5 DEF Promised, Promise!vars
<1> QED BY <1>2, <1>5, <1>6, <1>7 DEF IInv, TypeOK

(* A step of the program keeps the invariant and is promised.              *)
LEMMA ProgramStep ==
  ASSUME IInv, Program
  PROVE  IInv' /\ Promised
BY FeedStep, CallbackStep, InterruptStep, StopStep, ForcedEvalStep, ForcedReadStep DEF Program

-----------------------------------------------------------------------------
(* One answer at a time *)

(* Who gets what the plug-in says.                                         *)
Receiver ==
  IF forced.phase = "answer" THEN {forced.eval}
  ELSE IF con.starting \/ con.pending = <<>> THEN {} ELSE {Head(con.pending)}

(* The last message, and only it, is a prompt.                             *)
EndsWithPrompt(s) == s # <<>> /\ \A i \in 1 .. Len(s) : s[i] = Prompt <=> i = Len(s)

(* Where the input and its answer are: nowhere, as nothing is waited for;  *)
(* the plug-in still boots; the input is in the pipe; the plug-in works at *)
(* it; its answer is complete.                                             *)
Quiet   == con.status = Input /\ proc = "ready" /\ job = None /\ con.inbox = <<>>
Boots   == con.status = Output /\ proc = "booting" /\ job = None /\ con.inbox = <<>> /\ con.out = <<>>
Written == /\ con.status = Output /\ proc = "ready" /\ job = None /\ con.out = <<>>
           /\ \E x \in Receiver : con.inbox = <<x>>
Working == /\ con.status = Output /\ proc \in {"busy", "spoken"} /\ job \in Receiver
           /\ con.inbox = <<>> /\ Prompt \notin ToSet(con.out)
Told    == /\ con.status = Output /\ proc = "ready" /\ job = None /\ con.inbox = <<>>
           /\ EndsWithPrompt(con.out)
Stage == Quiet \/ Boots \/ Written \/ Working \/ Told

(* The link lives as far as the program knows as long as the plug-in does. *)
Linked ==
  /\ ~con.made => ~con.alive
  /\ ~con.alive => proc = "dead"
  /\ signal => interrupted
  /\ forced # Idle => forced.phase # None

(* All that is said is for the one who waits.                              *)
OnLine ==
  /\ con.status \in {Input, Output}
  /\ con.status = Output => Waiting(con) \/ forced # Idle
  /\ con.status = Input => con.out = <<>>
  /\ \A m \in ToSet(con.out) : m = Prompt \/ m \in Receiver
  /\ proc # "dead" => Stage

Line == Linked /\ (con.alive /\ ~interrupted => OnLine)

(* From c to d the pipes were not touched, and nothing was read from them. *)
Kept(c, d) ==
  /\ d.made = c.made /\ d.alive = c.alive
  /\ d.inbox = c.inbox /\ d.out = c.out /\ d.got = c.got

(* The next input, if there is one, was written.                           *)
Served(c, d) ==
  /\ d.alive /\ d.made = c.made /\ ~d.starting /\ d.out = c.out
  /\ \/ d.pending = <<>> /\ d.status = Input /\ d.inbox = c.inbox
     \/ d.pending # <<>> /\ d.status = Output /\ d.inbox = Append(c.inbox, Head(d.pending))

(* The queue, its ends and the notified status are not the pipes.          *)
LEMMA QueueKept ==
  ASSUME NEW c \in Connection, NEW p, NEW E
  PROVE  Kept(c, [c EXCEPT !.pending = p, !.ended = E])
<1> DEFINE d == [c EXCEPT !.pending = p, !.ended = E]
<1>1. d.made = c.made /\ d.alive = c.alive
  BY Zenon DEF Connection
<1>2. d.inbox = c.inbox /\ d.out = c.out /\ d.got = c.got
  BY DEF Connection
<1> QED BY <1>1, <1>2 DEF Kept

(* Neither is what tells that the plug-in is being started.                *)
LEMMA StartingKept ==
  ASSUME NEW c \in Connection, NEW b
  PROVE  Kept(c, [c EXCEPT !.starting = b])
<1> DEFINE d == [c EXCEPT !.starting = b]
<1>1. d.made = c.made /\ d.alive = c.alive
  BY Zenon DEF Connection
<1>2. d.inbox = c.inbox /\ d.out = c.out /\ d.got = c.got
  BY DEF Connection
<1> QED BY <1>1, <1>2 DEF Kept

(* Nor the status that was notified.                                      *)
LEMMA PrevKept ==
  ASSUME NEW c \in Connection, NEW st
  PROVE  Kept(c, [c EXCEPT !.prev = st])
<1> DEFINE d == [c EXCEPT !.prev = st]
<1>1. d.made = c.made /\ d.alive = c.alive
  BY Zenon DEF Connection
<1>2. d.inbox = c.inbox /\ d.out = c.out /\ d.got = c.got
  BY DEF Connection
<1> QED BY <1>1, <1>2 DEF Kept

(* Cancelling the evaluations leaves the pipes alone.                      *)
LEMMA CancelKept ==
  ASSUME NEW c \in Connection, NEW how
  PROVE  Kept(c, CancelAll(c, how))
<1> DEFINE d == CancelAll(c, how)
<1>1. d.made = c.made /\ d.alive = c.alive
  BY Zenon DEF Connection, CancelAll
<1>2. d.inbox = c.inbox /\ d.out = c.out /\ d.got = c.got
  BY DEF Connection, CancelAll
<1> QED BY <1>1, <1>2 DEF Kept

(* So do two steps that do.                                                *)
LEMMA KeptAfter ==
  ASSUME NEW c, NEW d, NEW e, Kept(c, d), Kept(d, e)
  PROVE  Kept(c, e)
BY DEF Kept

(* plugin-do writes the next input to a plug-in that waits for it.         *)
LEMMA DoServed ==
  ASSUME NEW c \in Connection, c.alive, ~c.starting, c.status = Input
  PROVE  Served(c, Do(c))
<1>1. c.pending \in Seq(Evals) /\ c.inbox \in Seq(Evals)
  BY DEF Connection
<1>2. CASE c.pending = <<>>
  BY <1>2 DEF Do, Served
<1>3. CASE c.pending # <<>>
  <2> DEFINE n == NrEmpty(c.pending)
             E == EndAs(c, {c.pending[i] : i \in 1 .. n}, "answered")
             p == SubSeq(c.pending, n + 1, Len(c.pending))
             d == [c EXCEPT !.pending = p, !.ended = E]
             w == Write(d, Head(d.pending))
  <2>1. n \in 0 .. Len(c.pending)
    BY <1>1, NrEmptyLength
  <2>2. E \in [Evals -> {"no", "answered", "dead", "interrupted"}]
    BY EndAsType
  <2>3. Status(c) # Dead
    BY DEF Status, Dead, Dying, Input, Output
  <2>4. Do(c) = IF d.pending = <<>> THEN d ELSE w
    BY <1>3, <2>3, Zenon DEF Do
  <2>5. p \in Seq(Evals)
    BY <2>1, <1>1, SubSeqProperties
  <2> HIDE DEF n, E, p
  <2>6. d \in Connection /\ d.pending = p /\ d.status = c.status
    BY <2>2, <2>5 DEF Connection
  <2>7. d.starting = c.starting
    BY Zenon DEF Connection
  <2>8. Kept(c, d)
    BY QueueKept
  <2> HIDE DEF d
  <2>9. CASE d.pending = <<>>
    <3>1. Do(c) = d
      BY <2>4, <2>9
    <3> QED BY <3>1, <2>6, <2>7, <2>8, <2>9 DEF Served, Kept
  <2>10. CASE d.pending # <<>>
    <3>1. Do(c) = w
      BY <2>4, <2>10
    <3>2. d.alive
      BY <2>8 DEF Kept
    <3>3. w.inbox = Append(d.inbox, Head(d.pending)) /\ w.status = Output /\ w.pending = d.pending
          /\ w.out = d.out
      BY <2>6, <3>2 DEF Write, Connection
    <3>4. w.made = d.made /\ w.alive = d.alive /\ w.starting = d.starting
      BY <2>6, Zenon DEF Write, Connection
    <3> HIDE DEF w
    <3> QED BY <3>1, <3>2, <3>3, <3>4, <2>7, <2>8, <2>10 DEF Served, Kept
  <2> QED BY <2>9, <2>10
<1> QED BY <1>2, <1>3

(* So does plugin-next.                                                    *)
LEMMA NextServed ==
  ASSUME NEW c \in Connection, c.alive, c.status = Input, c.starting => c.pending # <<>>
  PROVE  Served(c, DoNext(c))
<1>1. ASSUME NEW b, Kept(c, b), Served(b, Do(b)) PROVE Served(c, Do(b))
  BY <1>1 DEF Kept, Served
<1>2. CASE ~Waiting(c)
  <2>1. DoNext(c) = c /\ c.pending = <<>> /\ ~c.starting
    BY <1>2 DEF DoNext, Waiting
  <2> QED BY <2>1 DEF Served
<1>3. CASE c.starting
  <2> DEFINE b == [c EXCEPT !.starting = FALSE]
  <2>1. DoNext(c) = Do(b)
    BY <1>3 DEF DoNext, Waiting
  <2>2. b \in Connection /\ ~b.starting
    BY Zenon DEF Connection
  <2>3. b.status = c.status
    BY DEF Connection
  <2>4. Kept(c, b)
    BY StartingKept
  <2> HIDE DEF b
  <2>5. Served(b, Do(b))
    BY <2>2, <2>3, <2>4, DoServed DEF Kept
  <2> QED BY <1>1, <2>1, <2>4, <2>5
<1>4. CASE ~c.starting /\ c.pending # <<>>
  <2> DEFINE E == EndAs(c, {Head(c.pending)}, "answered")
             p == Tail(c.pending)
             b == [c EXCEPT !.pending = p, !.ended = E]
  <2>1. DoNext(c) = Do(b)
    BY <1>4 DEF DoNext, Waiting
  <2>2. E \in [Evals -> {"no", "answered", "dead", "interrupted"}]
    BY EndAsType
  <2>3. p \in Seq(Evals)
    BY <1>4 DEF Connection
  <2> HIDE DEF E, p
  <2>4. b \in Connection /\ b.status = c.status
    BY <2>2, <2>3 DEF Connection
  <2>5. ~b.starting
    BY <1>4, Zenon DEF Connection
  <2>6. Kept(c, b)
    BY QueueKept
  <2> HIDE DEF b
  <2>7. Served(b, Do(b))
    BY <2>4, <2>5, <2>6, DoServed DEF Kept
  <2> QED BY <1>1, <2>1, <2>6, <2>7
<1> QED BY <1>2, <1>3, <1>4 DEF Waiting

(* From c to d nothing was read, and the plug-in was started at most.      *)
Grown(c, d) == d.got = c.got /\ (c.made => d.made) /\ (c.alive => d.alive)

(* What leaves the pipes alone is no exception.                            *)
LEMMA KeptGrown ==
  ASSUME NEW c, NEW d, Kept(c, d)
  PROVE  Grown(c, d)
BY DEF Kept, Grown

(* Two such steps make one.                                                *)
LEMMA GrownAfter ==
  ASSUME NEW c, NEW d, NEW e, Grown(c, d), Grown(d, e)
  PROVE  Grown(c, e)
BY DEF Grown

(* No evaluation gets output from plugin-do.                               *)
LEMMA DoGrown ==
  ASSUME NEW c \in Connection
  PROVE  Grown(c, Do(c))
<1>1. CASE c.pending = <<>>
  BY <1>1 DEF Do, Grown
<1>2. CASE c.pending # <<>> /\ Status(c) = Dead
  <2> DEFINE u == Start(c)
             d == [u EXCEPT !.starting = TRUE]
  <2>1. Do(c) = d
    BY <1>2 DEF Do
  <2>2. u \in Connection /\ u.got = c.got /\ u.alive
    BY StartFacts
  <2>3. u.made
    BY Zenon DEF Start, Connection
  <2> HIDE DEF u
  <2>4. Kept(u, d)
    BY <2>2, StartingKept
  <2> HIDE DEF d
  <2> QED BY <2>1, <2>2, <2>3, <2>4 DEF Kept, Grown
<1>3. CASE c.pending # <<>> /\ Status(c) # Dead
  <2> DEFINE n == NrEmpty(c.pending)
             E == EndAs(c, {c.pending[i] : i \in 1 .. n}, "answered")
             p == SubSeq(c.pending, n + 1, Len(c.pending))
             d == [c EXCEPT !.pending = p, !.ended = E]
             w == Write(d, Head(d.pending))
  <2>1. n \in 0 .. Len(c.pending)
    BY NrEmptyLength DEF Connection
  <2>2. E \in [Evals -> {"no", "answered", "dead", "interrupted"}]
    BY EndAsType
  <2>3. Do(c) = IF d.pending = <<>> THEN d ELSE w
    BY <1>3, Zenon DEF Do
  <2>4. p \in Seq(Evals)
    BY <2>1, SubSeqProperties DEF Connection
  <2> HIDE DEF n, E, p
  <2>5. d \in Connection /\ d.pending = p
    BY <2>2, <2>4 DEF Connection
  <2>6. Grown(c, d)
    BY QueueKept, KeptGrown
  <2> HIDE DEF d
  <2>7. ASSUME d.pending # <<>> PROVE Grown(d, w)
    <3>1. Head(d.pending) \in Evals
      BY <2>4, <2>5, <2>7
    <3>2. w.got = d.got /\ w.alive = d.alive
      BY <2>5, <3>1, WriteFacts
    <3>3. w.made = d.made
      BY <2>5, Zenon DEF Write, Connection
    <3> HIDE DEF w
    <3> QED BY <3>2, <3>3 DEF Grown
  <2> HIDE DEF w
  <2> QED BY <2>3, <2>6, <2>7, GrownAfter
<1> QED BY <1>1, <1>2, <1>3

(* The same of plugin-next.                                                *)
LEMMA NextGrown ==
  ASSUME NEW c \in Connection, c.starting => c.pending # <<>>
  PROVE  Grown(c, DoNext(c))
<1>1. CASE ~Waiting(c)
  BY <1>1 DEF DoNext, Grown
<1>2. CASE c.starting
  <2> DEFINE b == [c EXCEPT !.starting = FALSE]
  <2>1. DoNext(c) = Do(b)
    BY <1>2 DEF DoNext, Waiting
  <2>2. b \in Connection
    BY Zenon DEF Connection
  <2>3. Grown(c, b)
    BY StartingKept, KeptGrown
  <2> HIDE DEF b
  <2>4. Grown(b, Do(b))
    BY <2>2, DoGrown
  <2> QED BY <2>1, <2>3, <2>4, GrownAfter
<1>3. CASE ~c.starting /\ c.pending # <<>>
  <2> DEFINE E == EndAs(c, {Head(c.pending)}, "answered")
             p == Tail(c.pending)
             b == [c EXCEPT !.pending = p, !.ended = E]
  <2>1. DoNext(c) = Do(b)
    BY <1>3 DEF DoNext, Waiting
  <2>2. E \in [Evals -> {"no", "answered", "dead", "interrupted"}]
    BY EndAsType
  <2>3. p \in Seq(Evals)
    BY <1>3 DEF Connection
  <2> HIDE DEF E, p
  <2>4. b \in Connection
    BY <2>2, <2>3 DEF Connection
  <2>5. Grown(c, b)
    BY QueueKept, KeptGrown
  <2> HIDE DEF b
  <2>6. Grown(b, Do(b))
    BY <2>4, DoGrown
  <2> QED BY <2>1, <2>5, <2>6, GrownAfter
<1> QED BY <1>1, <1>2, <1>3 DEF Waiting

(* Nor from a notification.                                                *)
LEMMA NotifyGrown ==
  ASSUME NEW c \in Connection, c.starting => c.pending # <<>>,
         Notified(c) = Input => c.alive
  PROVE  Grown(c, NotifyStatus(c))
<1> DEFINE st == Notified(c)
           g  == CASE st = Dead -> CancelAll(c, "dead") [] st = Input -> DoNext(c) [] OTHER -> c
           d  == [g EXCEPT !.prev = st]
<1>1. NotifyStatus(c) = IF st = c.prev THEN c ELSE d
  BY DEF NotifyStatus
<1>2. Grown(c, c)
  BY DEF Grown
<1>3. g \in Connection /\ Grown(c, g)
  <2>1. CASE st = Dead
    <3>1. g = CancelAll(c, "dead")
      BY <2>1 DEF Dead, Input
    <3> QED BY <3>1, CancelFacts, CancelKept, KeptGrown
  <2>2. CASE st = Input
    <3>1. g = DoNext(c)
      BY <2>2 DEF Dead, Input
    <3> QED BY <2>2, <3>1, NextFacts, NextGrown
  <2>3. CASE st # Dead /\ st # Input
    BY <2>3, <1>2
  <2> QED BY <2>1, <2>2, <2>3
<1> HIDE DEF g, st
<1>4. Grown(g, d)
  BY <1>3, PrevKept, KeptGrown
<1> HIDE DEF d
<1> QED BY <1>1, <1>2, <1>3, <1>4, GrownAfter

(* A notification of what concerns nobody, or of an end, only cancels.     *)
LEMMA NotifyKept ==
  ASSUME NEW c \in Connection, (Waiting(c) => Notified(c) = Output) \/ Notified(c) = Dead
  PROVE  Kept(c, NotifyStatus(c))
<1> DEFINE st == Notified(c)
           g  == CASE st = Dead -> CancelAll(c, "dead") [] st = Input -> DoNext(c) [] OTHER -> c
           d  == [g EXCEPT !.prev = st]
<1>1. NotifyStatus(c) = IF st = c.prev THEN c ELSE d
  BY DEF NotifyStatus
<1>2. Kept(c, c)
  BY DEF Kept
<1>3. g \in Connection /\ Kept(c, g)
  <2>1. CancelAll(c, "dead") \in Connection /\ Kept(c, CancelAll(c, "dead"))
    BY CancelFacts, CancelKept
  <2>2. CASE st = Dead
    <3>1. g = CancelAll(c, "dead")
      BY <2>2 DEF Dead, Input
    <3> QED BY <2>1, <3>1
  <2>3. CASE st = Input
    <3>1. ~Waiting(c)
      BY <2>3 DEF Input, Output, Dead
    <3>2. DoNext(c) = c
      BY <3>1 DEF DoNext
    <3> QED BY <2>3, <3>2, <1>2 DEF Input, Dead
  <2>4. CASE st # Dead /\ st # Input
    BY <2>4, <1>2
  <2> QED BY <2>2, <2>3, <2>4
<1> HIDE DEF g, st
<1>4. Kept(c, d)
  BY <1>3, PrevKept, KeptAfter
<1> HIDE DEF d
<1> QED BY <1>1, <1>2, <1>4

(* Reading output leaves the pipes to the plug-in alone, and gives it to   *)
(* the receiver.                                                           *)
Heard(c, d, of, s) ==
  /\ d.made = c.made /\ d.alive = c.alive /\ d.inbox = c.inbox /\ d.out = c.out
  /\ \A x \in Evals : d.got[x] \subseteq c.got[x] \cup (IF x \in of THEN ToSet(s) \ {Prompt} ELSE {})

(* Where the output goes.                                                  *)
For(c, e) ==
  IF e # None THEN {e} ELSE IF c.starting \/ c.pending = <<>> THEN {} ELSE {Head(c.pending)}

(* read gives the output to whom it is for.                                *)
LEMMA ParseHeard ==
  ASSUME NEW c \in Connection, NEW s \in Seq(Evals \cup {Prompt}), NEW e \in Evals \cup {None}
  PROVE  Heard(c, Parse(c, s, e), For(c, e), s)
<1> DEFINE d == Parse(c, s, e)
           of == For(c, e)
           st == IF ~c.alive THEN Dead ELSE IF Prompt \in ToSet(s) THEN Input ELSE c.status
           gt == [x \in Evals |-> IF x \in of THEN c.got[x] \cup (ToSet(s) \ {Prompt}) ELSE c.got[x]]
<1>1. d = [c EXCEPT !.status = st, !.got = gt]
  BY Zenon DEF Parse, For
<1>2. \A x \in Evals : gt[x] \subseteq c.got[x] \cup (IF x \in of THEN ToSet(s) \ {Prompt} ELSE {})
  <2> HIDE DEF of
  <2> QED OBVIOUS
<1> HIDE DEF d, st, gt
<1>3. d.made = c.made /\ d.alive = c.alive
  BY <1>1, Zenon DEF Connection
<1>4. d.inbox = c.inbox /\ d.out = c.out /\ d.got = gt
  BY <1>1 DEF Connection
<1> QED BY <1>2, <1>3, <1>4 DEF Heard, d

(* No evaluation got output of another one.                                *)
Own(g, h) == \A x \in Evals : h[x] \subseteq g[x] \cup {x}

(* Output that is for the one who reads it is nobody else's.               *)
LEMMA HeardOwn ==
  ASSUME NEW c, NEW d, NEW of, NEW s, Heard(c, d, of, s),
         \A m \in ToSet(s) : m = Prompt \/ m \in of,
         \A x, y \in of : x = y
  PROVE  Own(c.got, d.got)
<1> SUFFICES ASSUME NEW x \in Evals PROVE d.got[x] \subseteq c.got[x] \cup {x}
  BY DEF Own
<1>1. CASE x \in of
  <2>1. ToSet(s) \ {Prompt} \subseteq {x}
    BY <1>1
  <2>2. d.got[x] \subseteq c.got[x] \cup (ToSet(s) \ {Prompt})
    BY <1>1 DEF Heard
  <2> QED BY <2>1, <2>2
<1>2. CASE x \notin of
  BY <1>2 DEF Heard
<1> QED BY <1>1, <1>2

(* From c to d the messages s, the first k of them, were read.             *)
ReadTo(c, d, s, k, eof) ==
  /\ d.made = c.made /\ d.alive = ~eof /\ d.inbox = c.inbox /\ d.got = c.got
  /\ k = Len(c.out) => d.out = <<>> /\ s = c.out
  /\ ToSet(s) \subseteq ToSet(c.out)

(* The pipes are read, and so is their end.                                *)
LEMMA ReadPipesFacts ==
  ASSUME NEW c \in Connection, NEW k \in 0 .. Len(c.out), NEW eof \in BOOLEAN
  PROVE  ReadTo(c, ReadPipes(c, k, eof), SubSeq(c.out, 1, k), k, eof)
<1> DEFINE o == IF eof THEN <<>> ELSE SubSeq(c.out, k + 1, Len(c.out))
           a == ~eof
           d == [c EXCEPT !.alive = a, !.out = o]
<1>1. c.out \in Seq(Evals \cup {Prompt}) /\ Len(c.out) \in Nat
  BY DEF Connection
<1>2. k = Len(c.out) => o = <<>>
  BY <1>1
<1>3. k = Len(c.out) => SubSeq(c.out, 1, k) = c.out
  BY <1>1
<1>4. ToSet(SubSeq(c.out, 1, k)) \subseteq ToSet(c.out)
  BY <1>1 DEF ToSet
<1>5. ReadPipes(c, k, eof) = d
  BY Zenon DEF ReadPipes
<1> HIDE DEF a, o
<1>6. d.made = c.made /\ d.alive = a
  BY Zenon DEF Connection
<1>7. d.inbox = c.inbox /\ d.got = c.got /\ d.out = o
  BY DEF Connection
<1> HIDE DEF d
<1> QED BY <1>2, <1>3, <1>4, <1>5, <1>6, <1>7 DEF a, ReadTo

(* Reading keeps the queue, and sets the status.                           *)
Read(c, d, s) ==
  /\ d \in Connection /\ d.alive = c.alive /\ d.starting = c.starting /\ d.pending = c.pending
  /\ d.status = IF ~c.alive THEN Dead ELSE IF Prompt \in ToSet(s) THEN Input ELSE c.status

LEMMA ParseRead ==
  ASSUME NEW c \in Connection, NEW s \in Seq(Evals \cup {Prompt}), NEW e \in Evals \cup {None}
  PROVE  Read(c, Parse(c, s, e), s)
BY ParseFacts DEF Read

(* What listening does to the pipes of a link that is dead.                *)
LEMMA ListenDead ==
  ASSUME NEW c \in Connection, NEW s \in Seq(Evals \cup {Prompt}), Listen(c, s), ~c.alive,
         Waiting(c) => Notified(c) = Output, c.starting => c.pending # <<>>
  PROVE  con'.made = c.made /\ ~con'.alive
<1> DEFINE d == NotifyStatus(c)
           p == Parse(d, s, None)
<1>1. d \in Connection /\ Kept(c, d)
  BY FirstNotification, NotifyKept
<1>2. con' = IF d.status = Dead THEN NotifyStatus(d) ELSE NotifyStatus(p)
  BY DEF Listen
<1> HIDE DEF d
<1>3. Read(d, p, s)
  BY <1>1, ParseRead
<1>4. Heard(d, p, For(d, None), s)
  BY <1>1, ParseHeard
<1> HIDE DEF p
<1>5. Kept(d, con') \/ Kept(p, con')
  <2>1. d.status = Dead => Notified(d) = Dead
    BY DEF Notified, Dead, Dying
  <2>2. Notified(p) = Dead
    BY <1>1, <1>3 DEF Kept, Read, Notified, Dead, Dying
  <2>3. p \in Connection
    BY <1>3 DEF Read
  <2> QED BY <1>1, <1>2, <2>1, <2>2, <2>3, NotifyKept
<1> QED BY <1>1, <1>4, <1>5 DEF Kept, Heard

(* What is heard while listening is for the oldest evaluation.             *)
LEMMA ListenOwn ==
  ASSUME NEW c \in Connection, NEW s \in Seq(Evals \cup {Prompt}), Listen(c, s),
         Waiting(c) => Notified(c) = Output, c.starting => c.pending # <<>>,
         \A m \in ToSet(s) : m = Prompt \/ m \in For(c, None)
  PROVE  Own(c.got, con'.got)
<1> DEFINE d == NotifyStatus(c)
           p == Parse(d, s, None)
<1>1. d \in Connection /\ Kept(c, d) /\ d.starting = c.starting /\ d.pending = c.pending
  BY FirstNotification, NotifyKept
<1>2. con' = IF d.status = Dead THEN NotifyStatus(d) ELSE NotifyStatus(p)
  BY DEF Listen
<1>3. For(d, None) = For(c, None)
  BY <1>1 DEF For
<1> HIDE DEF d
<1>4. Read(d, p, s)
  BY <1>1, ParseRead
<1>5. Own(d.got, p.got)
  <2>1. Heard(d, p, For(d, None), s)
    BY <1>1, ParseHeard
  <2>2. \A x, y \in For(d, None) : x = y
    BY DEF For
  <2>3. \A m \in ToSet(s) : m = Prompt \/ m \in For(d, None)
    BY <1>3
  <2> HIDE DEF p
  <2> QED BY <2>1, <2>2, <2>3, HeardOwn
<1> HIDE DEF p
<1>6. CASE d.status = Dead
  <2>1. Notified(d) = Dead
    BY <1>6 DEF Notified, Dead, Dying
  <2>2. Kept(d, con')
    BY <1>1, <1>2, <1>6, <2>1, NotifyKept
  <2> QED BY <1>1, <2>2 DEF Kept, Own
<1>7. CASE d.status # Dead
  <2>1. Notified(p) = Input => p.alive
    BY <1>4 DEF Read, Notified, Dead, Input, Output, Dying
  <2>2. p \in Connection /\ (p.starting => p.pending # <<>>)
    BY <1>1, <1>4 DEF Read
  <2>3. Grown(p, con')
    BY <1>2, <1>7, <2>1, <2>2, NotifyGrown
  <2> QED BY <1>1, <1>5, <2>3 DEF Kept, Grown, Own
<1> QED BY <1>6, <1>7

(* Listening starts the plug-in at most.                                   *)
LEMMA ListenUp ==
  ASSUME NEW c \in Connection, NEW s \in Seq(Evals \cup {Prompt}), Listen(c, s),
         Waiting(c) => Notified(c) = Output, c.starting => c.pending # <<>>
  PROVE  (c.made => con'.made) /\ (c.alive => con'.alive)
<1> DEFINE d == NotifyStatus(c)
           p == Parse(d, s, None)
<1>1. d \in Connection /\ Kept(c, d) /\ d.starting = c.starting /\ d.pending = c.pending
  BY FirstNotification, NotifyKept
<1>2. con' = IF d.status = Dead THEN NotifyStatus(d) ELSE NotifyStatus(p)
  BY DEF Listen
<1> HIDE DEF d
<1>3. Read(d, p, s)
  BY <1>1, ParseRead
<1>4. p.made = d.made
  BY <1>1, ParseHeard DEF Heard
<1> HIDE DEF p
<1>5. CASE d.status = Dead
  <2>1. Notified(d) = Dead
    BY <1>5 DEF Notified, Dead, Dying
  <2>2. Kept(d, con')
    BY <1>1, <1>2, <1>5, <2>1, NotifyKept
  <2> QED BY <1>1, <2>2 DEF Kept
<1>6. CASE d.status # Dead
  <2>1. Notified(p) = Input => p.alive
    BY <1>3 DEF Read, Notified, Dead, Input, Output, Dying
  <2>2. p \in Connection /\ (p.starting => p.pending # <<>>)
    BY <1>1, <1>3 DEF Read
  <2>3. Grown(p, con')
    BY <1>2, <1>6, <2>1, <2>2, NotifyGrown
  <2> QED BY <1>1, <1>3, <1>4, <2>3 DEF Kept, Grown, Read
<1> QED BY <1>5, <1>6

(* What listening does to the pipes of one that lives: where no prompt was *)
(* read nothing changes, and where one was the next input is written.      *)
LEMMA ListenAlive ==
  ASSUME NEW c \in Connection, NEW s \in Seq(Evals \cup {Prompt}), Listen(c, s), c.alive,
         c.status = Output, Waiting(c), c.starting => c.pending # <<>>
  PROVE  /\ Prompt \in ToSet(s) => Served(c, con')
         /\ Prompt \notin ToSet(s) =>
              /\ con'.made = c.made /\ con'.alive /\ con'.inbox = c.inbox /\ con'.out = c.out
              /\ con'.status = Output /\ con'.starting = c.starting /\ con'.pending = c.pending
<1> DEFINE d == NotifyStatus(c)
           p == Parse(d, s, None)
<1>1. Notified(c) = Output
  BY DEF Notified
<1>2. d \in Connection /\ Kept(c, d) /\ d.starting = c.starting /\ d.pending = c.pending
  BY <1>1, FirstNotification, NotifyKept
<1>3. d.status = Output /\ d.prev = Output
  BY <1>1, FirstNotification
<1>4. con' = NotifyStatus(p)
  BY <1>3 DEF Listen, Output, Dead
<1> HIDE DEF d
<1>5. Read(d, p, s)
  BY <1>2, ParseRead
<1>6. p.prev = Output
  <2>1. None \in Evals \cup {None}
    OBVIOUS
  <2> HIDE DEF p
  <2>2. Parse(d, s, None).prev = d.prev
    BY <2>1, <1>2, ParseFacts, Zenon
  <2> QED BY <2>2, <1>3 DEF p
<1>7. Heard(d, p, For(d, None), s)
  BY <1>2, ParseHeard
<1> HIDE DEF p
<1>8. /\ p \in Connection /\ p.alive /\ p.made = c.made /\ p.inbox = c.inbox /\ p.out = c.out
      /\ p.starting = c.starting /\ p.pending = c.pending
  BY <1>2, <1>5, <1>7 DEF Kept, Read, Heard
<1>9. CASE Prompt \notin ToSet(s)
  <2>1. p.status = Output
    BY <1>2, <1>3, <1>5, <1>9 DEF Kept, Read
  <2>2. con' = p
    BY <1>4, <1>6, <2>1 DEF NotifyStatus, Notified, Output, Dying
  <2> QED BY <1>8, <1>9, <2>1, <2>2
<1>10. CASE Prompt \in ToSet(s)
  <2> DEFINE n == DoNext(p)
  <2>1. p.status = Input
    BY <1>2, <1>5, <1>10 DEF Kept, Read
  <2>2. con' = [n EXCEPT !.prev = Input]
    BY <1>4, <1>6, <2>1 DEF NotifyStatus, Notified, Output, Dying, Input, Dead
  <2>3. n \in Connection
    BY <1>8, NextFacts
  <2>4. Served(p, n)
    BY <1>8, <2>1, NextServed
  <2> HIDE DEF n
  <2>5. Kept(n, con')
    BY <2>2, <2>3, PrevKept
  <2>6. con'.starting = n.starting
    BY <2>2, <2>3, Zenon DEF Connection
  <2>7. con'.pending = n.pending /\ con'.status = n.status
    BY <2>2, <2>3 DEF Connection
  <2>8. Served(c, con')
    BY <1>8, <2>4, <2>5, <2>6, <2>7 DEF Served, Kept
  <2> QED BY <1>10, <2>8
<1> QED BY <1>9, <1>10

-----------------------------------------------------------------------------
(* Each action keeps the line *)

Hears == ~interrupted => Own(con.got, con'.got)

(* Nothing is heard where nothing is read.                                 *)
LEMMA NothingHeard ==
  ASSUME con'.got = con.got
  PROVE  Hears
BY DEF Hears, Own

(* A dead link is in line as long as nothing else is.                      *)
LEMMA DeadLine ==
  ASSUME Linked', ~con'.alive
  PROVE  Line'
BY DEF Line

(* A plug-in that was just started boots.                                  *)
LEMMA BootLine ==
  ASSUME con'.made, con'.alive, ~signal', forced' # Idle => forced'.phase # None,
         con'.status = Output, Waiting(con') \/ forced' # Idle,
         proc' = "booting", job' = None, con'.inbox = <<>>, con'.out = <<>>
  PROVE  Line'
<1>1. Boots'
  BY DEF Boots
<1>2. ToSet(con'.out) = {}
  BY DEF ToSet
<1>3. OnLine'
  BY <1>1, <1>2 DEF OnLine, Stage, Output, Input
<1> QED BY <1>3 DEF Line, Linked

(* The line is kept where the pipes, the plug-in and the one who waits are.*)
LEMMA SameLine ==
  ASSUME Line, con'.made = con.made, con'.alive = con.alive, con'.status = con.status,
         con'.inbox = con.inbox, con'.out = con.out, UNCHANGED <<proc, job, signal, interrupted>>,
         Receiver' = Receiver, forced' = forced, Waiting(con) => Waiting(con')
  PROVE  Line'
<1>1. Linked'
  BY DEF Line, Linked
<1>2. Stage => Stage'
  BY DEF Stage, Quiet, Boots, Written, Working, Told
<1>3. OnLine => OnLine'
  BY <1>2 DEF OnLine
<1> QED BY <1>1, <1>3 DEF Line

(* The line after plugin-do or plugin-next, of a plug-in that waits.       *)
LEMMA ServedLine ==
  ASSUME Linked', NEW c, Served(c, con'), con'.out = <<>>, forced' = Idle, con' \in Connection,
         proc' # "dead" => proc' = "ready" /\ job' = None /\ c.inbox = <<>>
  PROVE  Line'
<1>1. ToSet(con'.out) = {}
  BY DEF ToSet
<1>2. con'.pending \in Seq(Evals)
  BY DEF Connection
<1>3. CASE con'.pending = <<>>
  <2>1. con'.status = Input /\ con'.inbox = c.inbox
    BY <1>3 DEF Served
  <2>2. proc' # "dead" => Quiet'
    BY <2>1 DEF Quiet
  <2>3. OnLine'
    BY <1>1, <2>1, <2>2 DEF OnLine, Stage, Input, Output
  <2> QED BY <2>3 DEF Line
<1>4. CASE con'.pending # <<>>
  <2>1. con'.status = Output /\ con'.inbox = Append(c.inbox, Head(con'.pending)) /\ ~con'.starting
    BY <1>4 DEF Served
  <2>2. proc' # "dead" => con'.inbox = <<Head(con'.pending)>>
    <3>1. Append(<<>>, Head(con'.pending)) = <<Head(con'.pending)>>
      OBVIOUS
    <3> QED BY <2>1, <3>1
  <2>3. Receiver' = {Head(con'.pending)}
    BY <1>4, <2>1 DEF Receiver, Idle, None
  <2>4. proc' # "dead" => Written'
    BY <2>1, <2>2, <2>3 DEF Written
  <2>5. OnLine'
    BY <1>1, <1>4, <2>1, <2>4 DEF OnLine, Stage, Waiting, Input, Output
  <2> QED BY <2>5 DEF Line
<1> QED BY <1>3, <1>4

(* What an action that may spawn the plug-in leaves.                       *)
LEMMA SpawnLinked ==
  ASSUME Linked, Spawn, con'.made \/ con' = con, con.alive => con'.alive, 
         forced' # Idle => forced'.phase # None
  PROVE  Linked'
<1>1. CASE con'.alive /\ ~con.alive
  <2>1. ~signal'
    BY <1>1, Zenon DEF Spawn
  <2> QED BY <1>1, <2>1 DEF Linked
<1>2. CASE ~(con'.alive /\ ~con.alive)
  <2>1. proc' = proc /\ signal' = signal /\ interrupted' = interrupted
    BY <1>2, Zenon DEF Spawn
  <2> QED BY <1>2, <2>1, Zenon DEF Linked
<1> QED BY <1>1, <1>2

(* Feeding writes at once only to a plug-in that waits for input.          *)
LEMMA FeedLine ==
  ASSUME IInv, Line, NEW e \in Evals, Feed(e)
  PROVE  Line' /\ Hears
<1> DEFINE c == [con EXCEPT !.pending = Append(@, e)]
<1>1. /\ con \in Connection /\ Fit(con) /\ forced' = forced /\ forced = Idle /\ Spawn
      /\ con.pending \in Seq(Evals)
  BY DEF IInv, TypeOK, Feed, Connection
<1>2. Append(con.pending, e) \in Seq(Evals) /\ Append(con.pending, e) # <<>>
  BY <1>1
<1>3. /\ c \in Connection /\ c.pending = Append(con.pending, e) /\ c.status = con.status
      /\ c.inbox = con.inbox /\ c.out = con.out /\ c.got = con.got
  BY <1>1, <1>2 DEF Connection
<1>4. c.alive = con.alive /\ c.starting = con.starting /\ c.made = con.made
  BY <1>1, Zenon DEF Connection
<1>5. con' = IF con.pending = <<>> THEN Do(c) ELSE c
  BY DEF Feed
<1> HIDE DEF c
<1>6. Hears
  <2>1. con'.got = con.got
    BY <1>3, <1>5, DoGrown DEF Grown
  <2> QED BY <2>1, NothingHeard
<1>7. CASE con.pending # <<>>
  <2>1. con' = c /\ con.alive
    BY <1>1, <1>5, <1>7 DEF Fit, Waiting
  <2>2. UNCHANGED <<proc, job, signal, interrupted>>
    BY <1>1, <2>1, Zenon DEF Spawn
  <2>3. Head(con'.pending) = Head(con.pending)
    BY <1>1, <1>3, <1>7, <2>1
  <2>4. Receiver' = Receiver
    BY <1>1, <1>2, <1>3, <1>4, <1>7, <2>1, <2>3 DEF Receiver
  <2>5. Waiting(con')
    BY <1>2, <1>3, <2>1 DEF Waiting
  <2>6. con'.made = con.made /\ con'.alive = con.alive
    BY <1>4, <2>1
  <2>7. con'.status = con.status /\ con'.inbox = con.inbox /\ con'.out = con.out
    BY <1>3, <2>1
  <2>8. Line'
    BY <1>1, <2>2, <2>4, <2>5, <2>6, <2>7, SameLine
  <2> QED BY <2>8, <1>6
<1>8. CASE con.pending = <<>> /\ ~con.alive
  <2> DEFINE u == Start(c)
  <2>1. Status(c) = Dead /\ c.pending # <<>>
    BY <1>1, <1>2, <1>3, <1>4, <1>8 DEF Fit, Status
  <2>2. con' = [u EXCEPT !.starting = TRUE]
    BY <1>5, <1>8, <2>1 DEF Do
  <2>3. u \in Connection /\ u.alive /\ u.status = Output
    BY <1>3, StartFacts
  <2>4. u.made
    BY <1>3, Zenon DEF Start, Connection
  <2>5. u.inbox = <<>> /\ u.out = <<>>
    BY <1>3 DEF Start, Connection
  <2> HIDE DEF u
  <2>6. Kept(u, con')
    BY <2>2, <2>3, StartingKept
  <2>7. con'.status = Output
    BY <2>2, <2>3 DEF Connection
  <2>8. con'.starting
    BY <2>2, <2>3, Zenon DEF Connection
  <2>9. con'.made /\ con'.alive /\ con'.inbox = <<>> /\ con'.out = <<>>
    BY <2>3, <2>4, <2>5, <2>6 DEF Kept
  <2>10. proc' = "booting" /\ job' = None /\ signal' = FALSE
    BY <1>1, <1>8, <2>9, Zenon DEF Spawn
  <2>11. Waiting(con')
    BY <2>8 DEF Waiting
  <2>12. Line'
    BY <1>1, <2>7, <2>9, <2>10, <2>11, BootLine
  <2> QED BY <2>12, <1>6
<1>9. CASE con.pending = <<>> /\ con.alive
  <2>1. Grown(c, con')
    BY <1>3, <1>5, <1>9, DoGrown
  <2>2. con.made
    BY <1>9 DEF Line, Linked
  <2>3. con'.made /\ con'.alive
    BY <1>4, <1>9, <2>1, <2>2 DEF Grown
  <2>4. UNCHANGED <<proc, job, signal, interrupted>>
    BY <1>1, <1>9, Zenon DEF Spawn
  <2>5. Linked'
    BY <1>1, <2>3, <2>4 DEF Line, Linked
  <2>6. CASE interrupted
    BY <1>6, <2>4, <2>5, <2>6 DEF Line
  <2>7. CASE ~interrupted
    <3>1. OnLine /\ ~Waiting(con)
      BY <1>1, <1>9, <2>7 DEF Line, Fit, Waiting
    <3>2. con.status = Input /\ con.out = <<>>
      BY <1>1, <3>1 DEF OnLine
    <3>3. proc # "dead" => Quiet
      BY <3>1, <3>2 DEF OnLine, Stage, Quiet, Boots, Written, Working, Told, Input, Output
    <3>4. con' = Do(c) /\ ~c.starting
      BY <1>1, <1>4, <1>5, <1>9 DEF Fit
    <3>5. Served(c, con')
      BY <1>3, <1>4, <1>9, <3>2, <3>4, DoServed
    <3>6. con' \in Connection
      BY <1>3, <1>4, <3>2, <3>4, DoFacts DEF Input, Dying
    <3>7. con'.out = <<>>
      BY <1>3, <3>2, <3>5 DEF Served
    <3>8. forced' = Idle
      BY <1>1
    <3>9. proc' # "dead" => proc' = "ready" /\ job' = None /\ c.inbox = <<>>
      BY <1>3, <2>4, <3>3 DEF Quiet
    <3>10. Line'
      BY <2>5, <3>5, <3>6, <3>7, <3>8, <3>9, ServedLine
    <3> QED BY <3>10, <1>6
  <2> QED BY <2>6, <2>7
<1> QED BY <1>7, <1>8, <1>9

(* The callback gives what was said to the one who waits, and writes the   *)
(* next input when it is told that the answer is complete.                 *)
LEMMA CallbackLine ==
  ASSUME IInv, Line, NEW k \in 0 .. Len(con.out), Callback(k)
  PROVE  Line' /\ Hears
<1> DEFINE eof == (proc = "dead")
           c == ReadPipes(con, k, eof)
           s == SubSeq(con.out, 1, k)
<1>1. /\ con \in Connection /\ Fit(con) /\ forced = Idle /\ con.alive /\ Readable(k)
      /\ UNCHANGED <<forced, proc, job, signal, interrupted>>
      /\ con.out \in Seq(Evals \cup {Prompt})
  BY DEF IInv, TypeOK, Callback, Connection
<1>2. eof \in BOOLEAN /\ (eof => proc = "dead") /\ (proc = "dead" => eof)
  OBVIOUS
<1>3. Listen(c, s)
  BY DEF Callback
<1> HIDE DEF eof
<1>4. /\ c \in Connection /\ c.starting = con.starting /\ c.status = con.status
      /\ c.pending = con.pending /\ s \in Seq(Evals \cup {Prompt})
  BY <1>1, <1>2, ReadFacts
<1>5. ReadTo(con, c, s, k, eof)
  BY <1>1, <1>2, ReadPipesFacts
<1> HIDE DEF c, s
<1>6. /\ Waiting(c) => Notified(c) = Output
      /\ c.starting => c.pending # <<>>
  BY <1>1, <1>4 DEF Fit, Waiting, Notified
<1>7. con' \in Connection
  BY <1>3, <1>4, <1>6, ListenFacts
<1>8. con.made
  BY <1>1 DEF Line, Linked
<1>9. Hears
  <2> SUFFICES ASSUME ~interrupted PROVE Own(con.got, con'.got)
    BY DEF Hears
  <2>1. \A m \in ToSet(con.out) : m = Prompt \/ m \in Receiver
    BY <1>1 DEF Line, OnLine
  <2>2. Receiver = For(c, None)
    BY <1>1, <1>4 DEF Receiver, For, Idle, None
  <2>3. \A m \in ToSet(s) : m = Prompt \/ m \in For(c, None)
    BY <1>5, <2>1, <2>2 DEF ReadTo
  <2>4. Own(c.got, con'.got)
    BY <1>3, <1>4, <1>6, <2>3, ListenOwn
  <2> QED BY <1>5, <2>4 DEF ReadTo
<1>10. CASE eof
  <2>1. ~c.alive
    BY <1>5, <1>10 DEF ReadTo
  <2>2. con'.made = c.made /\ ~con'.alive
    BY <1>3, <1>4, <1>6, <2>1, ListenDead
  <2>3. Linked'
    BY <1>1, <1>2, <1>10, <2>2 DEF Line, Linked
  <2> QED BY <1>9, <2>2, <2>3, DeadLine
<1>11. CASE ~eof /\ interrupted
  <2>1. c.alive /\ c.made
    BY <1>5, <1>8, <1>11 DEF ReadTo
  <2>2. con'.alive /\ con'.made
    BY <1>3, <1>4, <1>6, <2>1, ListenUp
  <2>3. Linked'
    BY <1>1, <2>2 DEF Line, Linked
  <2> QED BY <1>1, <1>9, <1>11, <2>3 DEF Line
<1>12. CASE ~eof /\ ~interrupted
  <2>1. proc # "dead" /\ OnLine /\ Stage
    BY <1>1, <1>2, <1>12 DEF Line, OnLine
  <2>2. k = Len(con.out) /\ con.out # <<>>
    BY <1>1, <2>1 DEF Readable
  <2>3. c.alive /\ c.out = <<>> /\ s = con.out
    BY <1>5, <1>12, <2>2 DEF ReadTo
  <2>4. con.status = Output /\ Waiting(con)
    BY <1>1, <2>1, <2>2 DEF OnLine
  <2>5. c.status = Output /\ Waiting(c)
    BY <1>4, <2>4 DEF Waiting
  <2>6. Working \/ Told
    BY <2>1, <2>2, <2>4 DEF Stage, Quiet, Boots, Written, Input, Output
  <2>7. CASE Working
    <3>1. Prompt \notin ToSet(s)
      BY <2>3, <2>7 DEF Working
    <3>2. /\ con'.made = c.made /\ con'.alive /\ con'.inbox = c.inbox /\ con'.out = c.out
          /\ con'.status = Output /\ con'.starting = c.starting /\ con'.pending = c.pending
      BY <1>3, <1>4, <1>6, <2>3, <2>5, <3>1, ListenAlive
    <3>3. Linked'
      BY <1>1, <1>5, <1>8, <3>2 DEF Line, Linked, ReadTo
    <3>4. Receiver' = Receiver
      BY <1>1, <1>4, <3>2 DEF Receiver
    <3>5. ToSet(con'.out) = {}
      BY <2>3, <3>2 DEF ToSet
    <3>6. Working'
      BY <1>1, <1>5, <2>7, <3>2, <3>4, <3>5 DEF Working, ReadTo
    <3>7. OnLine'
      BY <1>4, <2>4, <3>2, <3>5, <3>6 DEF OnLine, Stage, Waiting, Input, Output
    <3> QED BY <1>9, <3>3, <3>7 DEF Line
  <2>8. CASE Told
    <3>1. Prompt \in ToSet(s)
      <4>1. Len(con.out) \in 1 .. Len(con.out) /\ con.out[Len(con.out)] = Prompt
        BY <1>1, <2>8 DEF Told, EndsWithPrompt
      <4> QED BY <2>3, <4>1 DEF ToSet
    <3>2. Served(c, con')
      BY <1>3, <1>4, <1>6, <2>3, <2>5, <3>1, ListenAlive
    <3>3. con'.made /\ con'.alive /\ con'.out = <<>>
      BY <1>5, <1>8, <2>3, <3>2 DEF Served, ReadTo
    <3>4. Linked'
      BY <1>1, <3>3 DEF Line, Linked
    <3>5. proc' # "dead" => proc' = "ready" /\ job' = None /\ c.inbox = <<>>
      BY <1>1, <1>5, <2>8 DEF Told, ReadTo
    <3>6. forced' = Idle
      BY <1>1
    <3> QED BY <1>7, <1>9, <3>2, <3>3, <3>4, <3>5, <3>6, ServedLine
  <2> QED BY <2>6, <2>7, <2>8
<1> QED BY <1>10, <1>11, <1>12

(* Setting the status leaves the pipes alone.                              *)
LEMMA StatusKept ==
  ASSUME NEW c \in Connection, NEW st
  PROVE  Kept(c, [c EXCEPT !.status = st])
<1> DEFINE d == [c EXCEPT !.status = st]
<1>1. d.made = c.made /\ d.alive = c.alive
  BY Zenon DEF Connection
<1>2. d.inbox = c.inbox /\ d.out = c.out /\ d.got = c.got
  BY DEF Connection
<1> QED BY <1>1, <1>2 DEF Kept

(* An interrupt that is not sent finds nothing to cancel.                  *)
LEMMA InterruptLine ==
  ASSUME IInv, Line, Interrupt
  PROVE  Line' /\ Hears
<1>1. /\ con \in Connection /\ Fit(con) /\ forced = Idle
      /\ UNCHANGED <<forced, proc, job>>
  BY DEF IInv, TypeOK, Interrupt
<1>2. CASE Status(con) = Output /\ con.alive
  <2> DEFINE st == IF con.status = Output THEN Dying ELSE con.status
             c  == [con EXCEPT !.status = st]
             d  == NotifyStatus(c)
  <2>1. con' = CancelAll(d, "interrupted") /\ interrupted'
    BY <1>2 DEF Interrupt
  <2>2. st \in {Dead, Dying, Input, Output} /\ (st = con.status \/ (st = Dying /\ con.status = Output))
    BY <1>1 DEF Connection
  <2> HIDE DEF st
  <2>3. /\ c \in Connection /\ c.pending = con.pending /\ c.status = st
    BY <1>1, <2>2 DEF Connection
  <2>4. c.starting = con.starting
    BY <1>1, Zenon DEF Connection
  <2>5. Kept(con, c)
    BY <1>1, StatusKept
  <2> HIDE DEF c
  <2>6. /\ Waiting(c) => Notified(c) = Output
        /\ c.starting => c.pending # <<>>
    BY <1>1, <2>2, <2>3, <2>4 DEF Fit, Waiting, Notified
  <2>7. d \in Connection /\ Kept(c, d)
    BY <2>3, <2>6, FirstNotification, NotifyKept
  <2> HIDE DEF d
  <2>8. Kept(d, con')
    BY <2>1, <2>7, CancelKept
  <2>9. Kept(con, con')
    BY <2>5, <2>7, <2>8, KeptAfter
  <2>10. Hears
    BY <2>9, NothingHeard DEF Kept
  <2>11. Linked'
    BY <1>1, <2>1, <2>9 DEF Line, Linked, Kept
  <2> QED BY <2>1, <2>10, <2>11 DEF Line
<1>3. CASE ~(Status(con) = Output /\ con.alive)
  <2>1. con' = CancelAll(con, "interrupted") /\ signal' = signal /\ interrupted' = interrupted
    BY <1>3, Zenon DEF Interrupt
  <2>2. Kept(con, con')
    BY <1>1, <2>1, CancelKept
  <2>3. Hears
    BY <2>2, NothingHeard DEF Kept
  <2>4. Linked'
    BY <1>1, <2>1, <2>2 DEF Line, Linked, Kept
  <2>5. CASE ~con.alive \/ interrupted
    BY <2>1, <2>2, <2>3, <2>4, <2>5 DEF Line, Kept
  <2>6. CASE con.alive /\ ~interrupted
    <3>1. con.status \in {Input, Output}
      BY <2>6 DEF Line, OnLine
    <3>2. con.status = Input /\ ~Waiting(con)
      BY <1>1, <1>3, <2>6, <3>1 DEF Status, Fit, Notified, Dead, Dying, Input, Output
    <3>3. Cancelled(con, con', "interrupted") /\ con'.status = con.status
      BY <1>1, <2>1, CancelFacts
    <3>4. Receiver' = Receiver
      BY <1>1, <3>2, <3>3 DEF Receiver, Waiting, Cancelled
    <3>5. Line'
      BY <1>1, <2>1, <2>2, <3>2, <3>3, <3>4, SameLine DEF Kept
    <3> QED BY <2>3, <3>5
  <2> QED BY <2>5, <2>6
<1> QED BY <1>2, <1>3

(* Stopping the plug-in drops what was on its way.                         *)
LEMMA StopLine ==
  ASSUME IInv, Line, Stop
  PROVE  Line' /\ Hears
<1> DEFINE st == IF con.alive /\ con.status = Output THEN Dying ELSE con.status
           c  == [con EXCEPT !.alive = FALSE, !.inbox = <<>>, !.out = <<>>, !.status = st]
<1>1. con \in Connection /\ Fit(con) /\ forced' = forced /\ con.made
  BY DEF IInv, TypeOK, Stop
<1>2. <<>> \in Seq(Evals) /\ <<>> \in Seq(Evals \cup {Prompt})
  OBVIOUS
<1>3. st \in {Dead, Dying, Input, Output} /\ (st = con.status \/ (st = Dying /\ con.status = Output))
  BY <1>1 DEF Connection
<1>4. Listen(c, <<>>)
  BY DEF Stop
<1> HIDE DEF st
<1>5. /\ c \in Connection /\ c.pending = con.pending /\ c.status = st /\ c.got = con.got
  BY <1>1, <1>2, <1>3 DEF Connection
<1>6. c.starting = con.starting /\ c.made = con.made /\ ~c.alive
  BY <1>1, Zenon DEF Connection
<1> HIDE DEF c
<1>7. /\ Waiting(c) => Notified(c) = Output
      /\ c.starting => c.pending # <<>>
  BY <1>1, <1>3, <1>5, <1>6 DEF Fit, Waiting, Notified
<1>8. con'.made = c.made /\ ~con'.alive
  BY <1>2, <1>4, <1>5, <1>6, <1>7, ListenDead
<1>9. Hears
  <2>1. \A m \in ToSet(<<>>) : m = Prompt \/ m \in For(c, None)
    BY DEF ToSet
  <2>2. Own(c.got, con'.got)
    BY <1>2, <1>4, <1>5, <1>7, <2>1, ListenOwn
  <2> QED BY <1>5, <2>2 DEF Hears
<1>10. proc' = "dead" /\ ~signal'
  BY DEF Stop
<1>11. Linked'
  BY <1>1, <1>6, <1>8, <1>10 DEF Line, Linked
<1> QED BY <1>8, <1>9, <1>11, DeadLine

(* connection_eval writes to a plug-in that waits for input, or starts one.*)
LEMMA ForcedEvalLine ==
  ASSUME IInv, Line, NEW e \in Evals, ForcedEval(e)
  PROVE  Line' /\ Hears
<1>1. /\ con \in Connection /\ Fit(con) /\ ~Waiting(con) /\ forced = Idle /\ Spawn
      /\ con' = IF con.made THEN Write(con, e) ELSE Start(con)
      /\ forced' = [eval |-> e, phase |-> IF con.made THEN "answer" ELSE "banner"]
  BY DEF IInv, TypeOK, ForcedEval
<1>2. Hears
  <2>1. con'.got = con.got
    BY <1>1, StartFacts, WriteFacts
  <2> QED BY <2>1, NothingHeard
<1>3. forced'.eval = e /\ forced'.phase = (IF con.made THEN "answer" ELSE "banner")
  BY <1>1
<1>4. e # None
  BY ConnectionsAssumption DEF None
<1>5. forced' # Idle /\ forced'.phase # None
  BY <1>3, <1>4 DEF Idle, None
<1>6. CASE ~con.made
  <2>1. con' = Start(con) /\ ~con.alive
    BY <1>1, <1>6 DEF Line, Linked
  <2>2. con'.alive /\ con'.status = Output
    BY <1>1, <2>1, StartFacts
  <2>3. con'.made
    BY <1>1, <2>1, Zenon DEF Start, Connection
  <2>4. con'.inbox = <<>> /\ con'.out = <<>>
    BY <1>1, <2>1 DEF Start, Connection
  <2>5. proc' = "booting" /\ job' = None /\ signal' = FALSE
    BY <1>1, <2>1, <2>2, Zenon DEF Spawn
  <2>6. Line'
    BY <1>5, <2>2, <2>3, <2>4, <2>5, BootLine
  <2> QED BY <1>2, <2>6
<1>7. CASE con.made
  <2>1. con' = Write(con, e)
    BY <1>1, <1>7
  <2>2. con'.status = Output /\ con'.alive = con.alive
    BY <1>1, <2>1, WriteFacts
  <2>3. con'.made = con.made
    BY <1>1, <2>1, Zenon DEF Write, Connection
  <2>4. con'.out = con.out /\ (con.alive => con'.inbox = Append(con.inbox, e))
    BY <1>1, <2>1 DEF Write, Connection
  <2>5. UNCHANGED <<proc, job, signal, interrupted>>
    BY <1>1, <2>2, Zenon DEF Spawn
  <2>6. Linked'
    BY <1>5, <2>2, <2>3, <2>5 DEF Line, Linked
  <2>7. CASE ~con.alive \/ interrupted
    BY <1>2, <2>2, <2>5, <2>6, <2>7 DEF Line
  <2>8. CASE con.alive /\ ~interrupted
    <3>1. OnLine
      BY <2>8 DEF Line
    <3>2. con.status = Input /\ con.out = <<>>
      BY <1>1, <3>1 DEF OnLine
    <3>3. proc # "dead" => Quiet
      BY <3>1, <3>2 DEF OnLine, Stage, Quiet, Boots, Written, Working, Told, Input, Output
    <3>4. Receiver' = {e}
      BY <1>3, <1>7 DEF Receiver
    <3>5. Append(<<>>, e) = <<e>>
      OBVIOUS
    <3>6. proc' # "dead" => Written'
      BY <2>2, <2>4, <2>5, <2>8, <3>2, <3>3, <3>4, <3>5 DEF Quiet, Written
    <3>7. ToSet(con'.out) = {}
      BY <2>4, <3>2 DEF ToSet
    <3>8. OnLine'
      BY <1>5, <2>2, <3>6, <3>7 DEF OnLine, Stage, Input, Output
    <3> QED BY <1>2, <2>6, <3>8 DEF Line
  <2> QED BY <2>7, <2>8
<1> QED BY <1>6, <1>7

(* connection_retrieve reads for the evaluation the program waits for.     *)
LEMMA ForcedReadLine ==
  ASSUME IInv, Line, NEW k \in 0 .. Len(con.out), ForcedRead(k)
  PROVE  Line' /\ Hears
<1> DEFINE e   == forced.eval
           of  == IF forced.phase = "answer" THEN e ELSE None
           eof == (proc = "dead")
           b   == ReadPipes(con, k, eof)
           s   == SubSeq(con.out, 1, k)
           c   == Parse(b, s, of)
           E   == EndAs(c, {e}, "answered")
<1>1. /\ con \in Connection /\ ~Waiting(con) /\ e \in Evals /\ forced # Idle
      /\ con.pending = <<>> /\ ~con.starting /\ con.out \in Seq(Evals \cup {Prompt})
      /\ con.alive => Readable(k)
      /\ ~con.alive => k = 0
      /\ UNCHANGED <<proc, job, signal, interrupted>>
      /\ forced \in [eval : Evals \cup {None}, phase : {None, "banner", "answer"}]
  BY DEF IInv, TypeOK, ForcedRead, Connection, Waiting
<1>2. IF c.status # Input THEN con' = c /\ UNCHANGED forced
      ELSE IF forced.phase = "banner"
           THEN con' = Write(c, e) /\ forced' = [forced EXCEPT !.phase = "answer"]
           ELSE con' = [c EXCEPT !.ended = E] /\ forced' = Idle
  BY Zenon DEF ForcedRead
<1>3. eof \in BOOLEAN /\ (eof => proc = "dead") /\ (proc = "dead" => eof)
  OBVIOUS
<1>4. of \in Evals \cup {None} /\ e # None
  BY <1>1, ConnectionsAssumption DEF None
<1>5. forced.phase \in {"banner", "answer"}
  BY <1>1 DEF Line, Linked
<1> HIDE DEF eof
<1>6. /\ b \in Connection /\ b.starting = con.starting /\ b.status = con.status
      /\ b.pending = con.pending /\ s \in Seq(Evals \cup {Prompt})
  BY <1>1, <1>3, ReadFacts
<1>7. ReadTo(con, b, s, k, eof)
  BY <1>1, <1>3, ReadPipesFacts
<1>8. ~con.alive => ToSet(s) = {}
  BY <1>1 DEF ToSet
<1> HIDE DEF b, s
<1>9. For(b, of) = Receiver
  BY <1>1, <1>4, <1>5, <1>6 DEF For, Receiver
<1> HIDE DEF of
<1>10. Read(b, c, s)
  BY <1>4, <1>6, ParseRead
<1>11. Heard(b, c, Receiver, s)
  BY <1>4, <1>6, <1>9, ParseHeard
<1>12. E \in [Evals -> {"no", "answered", "dead", "interrupted"}]
  BY <1>10, EndAsType DEF Read
<1> HIDE DEF c, E, e
<1>13. /\ c \in Connection /\ c.made = con.made /\ c.alive = ~eof /\ c.inbox = con.inbox
       /\ c.pending = con.pending /\ c.starting = con.starting
  BY <1>6, <1>7, <1>10, <1>11 DEF Read, ReadTo, Heard
<1>14. /\ con'.made = c.made /\ con'.alive = c.alive /\ con'.got = c.got /\ con'.out = c.out
       /\ forced' # Idle => forced'.phase # None
  <2>1. CASE c.status # Input
    BY <1>2, <1>5, <2>1 DEF None
  <2>2. CASE c.status = Input /\ forced.phase = "banner"
    <3>1. con' = Write(c, e) /\ forced' = [forced EXCEPT !.phase = "answer"]
      BY <1>2, <2>2
    <3>2. forced'.phase = "answer"
      BY <1>1, <3>1
    <3>3. con'.made = c.made /\ con'.alive = c.alive
      BY <1>13, <3>1, Zenon DEF Write, Connection
    <3>4. con'.got = c.got /\ con'.out = c.out
      BY <1>13, <3>1 DEF Write, Connection
    <3> QED BY <3>2, <3>3, <3>4 DEF None
  <2>3. CASE c.status = Input /\ forced.phase # "banner"
    <3>1. con' = [c EXCEPT !.ended = E] /\ forced' = Idle
      BY <1>2, <2>3
    <3>2. con'.made = c.made /\ con'.alive = c.alive
      BY <1>13, <3>1, Zenon DEF Connection
    <3>3. con'.got = c.got /\ con'.out = c.out
      BY <1>13, <3>1 DEF Connection
    <3> QED BY <3>1, <3>2, <3>3
  <2> QED BY <2>1, <2>2, <2>3
<1>15. Hears
  <2> SUFFICES ASSUME ~interrupted PROVE Own(con.got, con'.got)
    BY DEF Hears
  <2>1. \A m \in ToSet(s) : m = Prompt \/ m \in Receiver
    <3>1. CASE con.alive
      <4>1. \A m \in ToSet(con.out) : m = Prompt \/ m \in Receiver
        BY <3>1 DEF Line, OnLine
      <4> QED BY <1>7, <4>1 DEF ReadTo
    <3>2. CASE ~con.alive
      BY <1>8, <3>2
    <3> QED BY <3>1, <3>2
  <2>2. \A x, y \in Receiver : x = y
    BY DEF Receiver
  <2>3. Own(b.got, c.got)
    BY <1>11, <2>1, <2>2, HeardOwn
  <2> QED BY <1>7, <1>14, <2>3 DEF ReadTo
<1>16. CASE eof
  <2>1. Linked' /\ ~con'.alive
    BY <1>1, <1>3, <1>13, <1>14, <1>16 DEF Line, Linked
  <2> QED BY <1>15, <2>1, DeadLine
<1>17. CASE ~eof
  <2>1. con.alive /\ con.made
    BY <1>3, <1>17 DEF Line, Linked
  <2>2. Linked'
    BY <1>1, <1>13, <1>14, <1>17, <2>1 DEF Line, Linked
  <2>3. CASE interrupted
    BY <1>1, <1>15, <2>2, <2>3 DEF Line
  <2>4. CASE ~interrupted
    <3>1. proc # "dead" /\ OnLine /\ Stage
      BY <1>3, <1>17, <2>1, <2>4 DEF Line, OnLine
    <3>2. k = Len(con.out) /\ con.out # <<>>
      BY <1>1, <2>1, <3>1 DEF Readable
    <3>3. b.out = <<>> /\ s = con.out
      BY <1>7, <3>2 DEF ReadTo
    <3>4. con.status = Output
      BY <3>1, <3>2 DEF OnLine
    <3>5. con'.out = <<>> /\ ToSet(con'.out) = {}
      BY <1>11, <1>14, <3>3 DEF Heard, ToSet
    <3>6. Working \/ Told
      BY <3>1, <3>2, <3>4 DEF Stage, Quiet, Boots, Written, Input, Output
    <3>7. CASE Working
      <4>1. c.status = Output
        BY <1>6, <1>7, <1>10, <1>17, <3>3, <3>4, <3>7 DEF Read, ReadTo, Working
      <4>2. con' = c /\ forced' = forced
        BY <1>2, <4>1 DEF Input, Output
      <4>3. Receiver' = Receiver
        BY <1>13, <4>2 DEF Receiver
      <4>4. Working'
        BY <1>1, <1>13, <3>5, <3>7, <4>1, <4>2, <4>3 DEF Working
      <4>5. OnLine'
        BY <1>1, <3>5, <4>1, <4>2, <4>4 DEF OnLine, Stage, Input, Output
      <4> QED BY <1>15, <2>2, <4>5 DEF Line
    <3>8. CASE Told
      <4>1. Prompt \in ToSet(s)
        <5>1. Len(con.out) \in 1 .. Len(con.out) /\ con.out[Len(con.out)] = Prompt
          BY <1>1, <3>8 DEF Told, EndsWithPrompt
        <5> QED BY <3>3, <5>1 DEF ToSet
      <4>2. c.status = Input
        BY <1>7, <1>10, <1>17, <4>1 DEF Read, ReadTo
      <4>3. proc' = "ready" /\ job' = None /\ c.inbox = <<>>
        BY <1>1, <1>13, <3>8 DEF Told
      <4>4. CASE forced.phase = "banner"
        <5>1. con' = Write(c, e) /\ forced' = [forced EXCEPT !.phase = "answer"]
          BY <1>2, <4>2, <4>4
        <5>2. con'.status = Output /\ con'.inbox = Append(c.inbox, e)
          BY <1>13, <1>17, <5>1 DEF Write, Connection
        <5>3. forced'.phase = "answer" /\ forced'.eval = e
          BY <1>1, <5>1 DEF e
        <5>4. Receiver' = {e} /\ forced' # Idle
          BY <5>3, <1>4 DEF Receiver, Idle, None, e
        <5>5. Append(<<>>, e) = <<e>>
          OBVIOUS
        <5>6. Written'
          BY <3>5, <4>3, <5>2, <5>4, <5>5 DEF Written
        <5>7. OnLine'
          BY <3>5, <5>2, <5>4, <5>6 DEF OnLine, Stage, Input, Output
        <5> QED BY <1>15, <2>2, <5>7 DEF Line
      <4>5. CASE forced.phase # "banner"
        <5>1. con' = [c EXCEPT !.ended = E] /\ forced' = Idle
          BY <1>2, <4>2, <4>5
        <5>2. con'.status = Input /\ con'.inbox = <<>>
          BY <1>13, <4>2, <4>3, <5>1 DEF Connection
        <5>3. Quiet'
          BY <4>3, <5>2 DEF Quiet
        <5>4. OnLine'
          BY <3>5, <5>2, <5>3 DEF OnLine, Stage, Input, Output
        <5> QED BY <1>15, <2>2, <5>4 DEF Line
      <4> QED BY <4>4, <4>5
    <3> QED BY <3>6, <3>7, <3>8
  <2> QED BY <2>3, <2>4
<1> QED BY <1>16, <1>17

(* What the plug-in says goes nowhere but into its pipe.                   *)
LEMMA SayFacts ==
  ASSUME con \in Connection, NEW m, Say(<<m>>)
  PROVE  /\ con'.made = con.made /\ con'.alive = con.alive /\ con'.starting = con.starting
         /\ con'.status = con.status /\ con'.pending = con.pending /\ con'.inbox = con.inbox
         /\ con'.got = con.got /\ con'.out = Append(con.out, m)
<1> DEFINE o == con.out \o <<m>>
<1>1. con' = [con EXCEPT !.out = o]
  BY DEF Say
<1>2. o = Append(con.out, m)
  BY DEF Connection
<1> HIDE DEF o
<1>3. con'.made = con.made /\ con'.alive = con.alive /\ con'.starting = con.starting
  BY <1>1, Zenon DEF Connection
<1>4. /\ con'.status = con.status /\ con'.pending = con.pending /\ con'.inbox = con.inbox
      /\ con'.got = con.got /\ con'.out = o
  BY <1>1 DEF Connection
<1> QED BY <1>2, <1>3, <1>4

(* A message more is a message more.                                       *)
LEMMA SaidMore ==
  ASSUME NEW S, NEW o \in Seq(S), NEW m \in S
  PROVE  ToSet(Append(o, m)) = ToSet(o) \cup {m}
<1> DEFINE a == Append(o, m)
<1>1. /\ Len(a) = Len(o) + 1 /\ Len(o) \in Nat /\ a \in Seq(S) /\ a[Len(o) + 1] = m
      /\ \A i \in 1 .. Len(o) : a[i] = o[i]
  OBVIOUS
<1> HIDE DEF a
<1>2. ToSet(a) \subseteq ToSet(o) \cup {m}
  BY <1>1 DEF ToSet
<1>3. m \in ToSet(a)
  BY <1>1 DEF ToSet
<1>4. ToSet(o) \subseteq ToSet(a)
  BY <1>1 DEF ToSet
<1> QED BY <1>2, <1>3, <1>4 DEF a

(* A prompt after what held none is the end of an answer.                  *)
LEMMA SaidPrompt ==
  ASSUME NEW o \in Seq(Evals \cup {Prompt}), Prompt \notin ToSet(o)
  PROVE  EndsWithPrompt(Append(o, Prompt))
<1> DEFINE a == Append(o, Prompt)
<1>1. /\ Len(a) = Len(o) + 1 /\ Len(o) \in Nat /\ a # <<>> /\ a[Len(o) + 1] = Prompt
      /\ \A i \in 1 .. Len(o) : a[i] = o[i]
  OBVIOUS
<1> HIDE DEF a
<1>2. \A i \in 1 .. Len(o) : o[i] # Prompt
  BY DEF ToSet
<1> QED BY <1>1, <1>2 DEF EndsWithPrompt, a

(* The plug-in answers one input after the other, with one prompt each; it *)
(* is only asked to do otherwise by an interrupt.                          *)
LEMMA PluginLine ==
  ASSUME IInv, Line, Plugin
  PROVE  Line' /\ Hears
<1>1. /\ con \in Connection /\ con.inbox \in Seq(Evals) /\ con.out \in Seq(Evals \cup {Prompt})
      /\ proc \in {"dead", "booting", "ready", "busy", "spoken"} /\ job \in Evals \cup {None}
      /\ Prompt \notin Evals /\ Prompt \in Evals \cup {Prompt}
  BY ConnectionsAssumption DEF IInv, TypeOK, Connection
<1>2. CASE PluginBoots
  <2>1. /\ proc = "booting" /\ proc' = "ready" /\ Say(<<Prompt>>)
        /\ UNCHANGED <<forced, job, signal, interrupted>>
    BY <1>2 DEF PluginBoots
  <2>2. /\ con'.made = con.made /\ con'.alive = con.alive /\ con'.starting = con.starting
        /\ con'.status = con.status /\ con'.pending = con.pending /\ con'.inbox = con.inbox
        /\ con'.got = con.got /\ con'.out = Append(con.out, Prompt)
    BY <1>1, <2>1, SayFacts
  <2>3. Hears
    BY <2>2, NothingHeard
  <2>4. con.alive
    BY <2>1 DEF Line, Linked
  <2>5. Linked'
    BY <2>1, <2>2, <2>4 DEF Line, Linked
  <2>6. ASSUME ~interrupted PROVE OnLine'
    <3>1. OnLine /\ Boots
      BY <2>1, <2>4, <2>6 DEF Line, OnLine, Stage, Quiet, Boots, Written, Working, Told
    <3>2. ToSet(con.out) = {}
      BY <3>1 DEF Boots, ToSet
    <3>3. EndsWithPrompt(con'.out) /\ ToSet(con'.out) = {Prompt}
      BY <1>1, <2>2, <3>2, SaidMore, SaidPrompt
    <3>4. Told'
      BY <2>1, <2>2, <3>1, <3>3 DEF Boots, Told
    <3>5. Waiting(con') \/ forced' # Idle
      BY <2>1, <2>2, <3>1 DEF OnLine, Boots, Waiting
    <3> QED BY <2>2, <3>1, <3>3, <3>4, <3>5 DEF OnLine, Boots, Stage, Input, Output
  <2> QED BY <2>1, <2>3, <2>5, <2>6 DEF Line
<1>3. CASE PluginReads
  <2>1. /\ proc = "ready" /\ proc' = "busy" /\ con.inbox # <<>> /\ job' = Head(con.inbox)
        /\ con' = [con EXCEPT !.inbox = Tail(con.inbox)]
        /\ UNCHANGED <<forced, signal, interrupted>>
    BY <1>3 DEF PluginReads
  <2>2. con'.made = con.made /\ con'.alive = con.alive /\ con'.starting = con.starting
    BY <1>1, <2>1, Zenon DEF Connection
  <2>3. /\ con'.status = con.status /\ con'.pending = con.pending /\ con'.out = con.out
        /\ con'.got = con.got /\ con'.inbox = Tail(con.inbox)
    BY <1>1, <2>1 DEF Connection
  <2>4. Hears
    BY <2>3, NothingHeard
  <2>5. con.alive
    BY <2>1 DEF Line, Linked
  <2>6. Linked'
    BY <2>1, <2>2, <2>5 DEF Line, Linked
  <2>7. ASSUME ~interrupted PROVE OnLine'
    <3>1. OnLine /\ Written
      BY <2>1, <2>5, <2>7 DEF Line, OnLine, Stage, Quiet, Boots, Written, Working, Told
    <3>2. PICK x \in Receiver : con.inbox = <<x>>
      BY <3>1 DEF Written
    <3>3. job' = x /\ con'.inbox = <<>>
      BY <2>1, <2>3, <3>2
    <3>4. ToSet(con'.out) = {}
      BY <2>3, <3>1 DEF Written, ToSet
    <3>5. Receiver' = Receiver
      BY <2>1, <2>2, <2>3 DEF Receiver
    <3>6. Working'
      BY <2>1, <2>3, <3>1, <3>2, <3>3, <3>4, <3>5 DEF Written, Working
    <3>7. Waiting(con') \/ forced' # Idle
      BY <2>1, <2>2, <2>3, <3>1 DEF OnLine, Written, Waiting
    <3> QED BY <2>3, <3>1, <3>4, <3>6, <3>7 DEF OnLine, Written, Stage, Input, Output
  <2> QED BY <2>1, <2>4, <2>6, <2>7 DEF Line
<1>4. CASE PluginSpeaks
  <2>1. /\ proc = "busy" /\ proc' = "spoken" /\ Say(<<job>>)
        /\ UNCHANGED <<forced, job, signal, interrupted>>
    BY <1>4 DEF PluginSpeaks
  <2>2. /\ con'.made = con.made /\ con'.alive = con.alive /\ con'.starting = con.starting
        /\ con'.status = con.status /\ con'.pending = con.pending /\ con'.inbox = con.inbox
        /\ con'.got = con.got /\ con'.out = Append(con.out, job)
    BY <1>1, <2>1, SayFacts
  <2>3. Hears
    BY <2>2, NothingHeard
  <2>4. con.alive /\ job \in Evals
    BY <2>1 DEF Line, Linked, IInv
  <2>5. Linked'
    BY <2>1, <2>2, <2>4 DEF Line, Linked
  <2>6. ASSUME ~interrupted PROVE OnLine'
    <3>1. OnLine /\ Working
      BY <2>1, <2>4, <2>6 DEF Line, OnLine, Stage, Quiet, Boots, Written, Working, Told
    <3>2. Receiver' = Receiver
      BY <2>1, <2>2 DEF Receiver
    <3>3. ToSet(con'.out) = ToSet(con.out) \cup {job}
      BY <1>1, <2>2, <2>4, SaidMore
    <3>4. Working'
      BY <1>1, <2>1, <2>2, <2>4, <3>1, <3>2, <3>3 DEF Working
    <3>5. Waiting(con') \/ forced' # Idle
      BY <2>1, <2>2, <3>1 DEF OnLine, Working, Waiting
    <3>6. \A m \in ToSet(con'.out) : m = Prompt \/ m \in Receiver'
      BY <3>1, <3>2, <3>3 DEF OnLine, Working
    <3> QED BY <2>2, <3>1, <3>4, <3>5, <3>6 DEF OnLine, Working, Stage, Input, Output
  <2> QED BY <2>1, <2>3, <2>5, <2>6 DEF Line
<1>5. CASE PluginEnds
  <2>1. /\ proc \in {"busy", "spoken"} /\ proc' = "ready" /\ job' = None /\ Say(<<Prompt>>)
        /\ UNCHANGED <<forced, signal, interrupted>>
    BY <1>5 DEF PluginEnds
  <2>2. /\ con'.made = con.made /\ con'.alive = con.alive /\ con'.starting = con.starting
        /\ con'.status = con.status /\ con'.pending = con.pending /\ con'.inbox = con.inbox
        /\ con'.got = con.got /\ con'.out = Append(con.out, Prompt)
    BY <1>1, <2>1, SayFacts
  <2>3. Hears
    BY <2>2, NothingHeard
  <2>4. con.alive
    BY <2>1 DEF Line, Linked
  <2>5. Linked'
    BY <2>1, <2>2, <2>4 DEF Line, Linked
  <2>6. ASSUME ~interrupted PROVE OnLine'
    <3>1. OnLine /\ Working
      BY <2>1, <2>4, <2>6 DEF Line, OnLine, Stage, Quiet, Boots, Written, Working, Told
    <3>2. Receiver' = Receiver
      BY <2>1, <2>2 DEF Receiver
    <3>3. EndsWithPrompt(con'.out) /\ ToSet(con'.out) = ToSet(con.out) \cup {Prompt}
      BY <1>1, <2>2, <3>1, SaidMore, SaidPrompt DEF Working
    <3>4. Told'
      BY <2>1, <2>2, <3>1, <3>3 DEF Working, Told
    <3>5. Waiting(con') \/ forced' # Idle
      BY <2>1, <2>2, <3>1 DEF OnLine, Working, Waiting
    <3>6. \A m \in ToSet(con'.out) : m = Prompt \/ m \in Receiver'
      BY <3>1, <3>2, <3>3 DEF OnLine
    <3> QED BY <2>2, <3>1, <3>4, <3>5, <3>6 DEF OnLine, Working, Stage, Input, Output
  <2> QED BY <2>1, <2>3, <2>5, <2>6 DEF Line
<1>6. CASE PluginDies
  <2>1. proc' = "dead" /\ ~signal' /\ UNCHANGED <<con, forced, interrupted>>
    BY <1>6 DEF PluginDies
  <2>2. Hears
    BY <2>1, NothingHeard
  <2>3. Linked'
    BY <2>1 DEF Line, Linked
  <2>4. Receiver' = Receiver
    BY <2>1 DEF Receiver
  <2>5. OnLine => OnLine'
    BY <2>1, <2>4 DEF OnLine
  <2> QED BY <2>1, <2>2, <2>3, <2>5 DEF Line
<1>7. CASE PluginInterrupted
  <2>1. /\ ~signal' /\ signal /\ UNCHANGED <<forced, interrupted>>
        /\ (con' = con /\ proc' = proc) \/ (Say(<<Prompt>>) /\ proc # "dead")
    BY <1>7, Zenon DEF PluginInterrupted
  <2>2. interrupted
    BY <2>1 DEF Line, Linked
  <2>3. con'.made = con.made /\ con'.alive = con.alive /\ (proc = "dead" => proc' = "dead")
    BY <1>1, <2>1, SayFacts
  <2>4. Linked'
    BY <2>1, <2>2, <2>3 DEF Line, Linked
  <2> QED BY <2>1, <2>2, <2>4 DEF Line, Hears
<1> QED BY <1>2, <1>3, <1>4, <1>5, <1>6, <1>7 DEF Plugin

(* Before the plug-in is started there is nothing to keep in line.         *)
LEMMA InitLine == Init => Line
BY DEF Init, Line, Linked, Idle

(* Every step keeps the line, and gives output to nobody but its receiver. *)
LEMMA StepLine == IInv /\ Line /\ [Next]_vars => Line' /\ [Hears]_vars
<1> SUFFICES ASSUME IInv, Line, [Next]_vars PROVE Line' /\ [Hears]_vars
  OBVIOUS
<1>1. CASE Program
  BY <1>1, FeedLine, CallbackLine, InterruptLine, StopLine, ForcedEvalLine, ForcedReadLine DEF Program
<1>2. CASE Plugin
  BY <1>2, PluginLine
<1>3. CASE UNCHANGED vars
  <2>1. con' = con /\ forced' = forced /\ proc' = proc /\ job' = job /\ signal' = signal
        /\ interrupted' = interrupted
    BY <1>3 DEF vars
  <2>2. Receiver' = Receiver
    BY <2>1 DEF Receiver
  <2>3. Line'
    BY <2>1, <2>2, SameLine
  <2> QED BY <1>3, <2>3
<1> QED BY <1>1, <1>2, <1>3 DEF Next

(* In line, as many ends of answers are coming as are waited for.          *)
LEMMA LineInStep ==
  ASSUME IInv, Line
  PROVE  InStep
<1> SUFFICES ASSUME con.alive, proc # "dead", ~interrupted
             PROVE  Coming = (IF con.status = Output THEN 1 ELSE 0)
  BY DEF InStep
<1> DEFINE P == {i \in DOMAIN con.out : con.out[i] = Prompt}
<1>1. OnLine /\ Stage
  BY DEF Line, OnLine
<1>2. con.out \in Seq(Evals \cup {Prompt}) /\ None \notin Evals
  BY ConnectionsAssumption DEF IInv, TypeOK, Connection, None
<1>3. P = {} => Cardinality(P) = 0
  BY FS_EmptySet
<1>4. \A x : P = {x} => Cardinality(P) = 1
  BY FS_Singleton
<1>5. ToSet(con.out) = {} \/ Prompt \notin ToSet(con.out) => P = {}
  BY <1>2 DEF ToSet
<1>6. EndsWithPrompt(con.out) => P = {Len(con.out)}
  BY <1>2 DEF EndsWithPrompt
<1>7. con.out = <<>> => P = {}
  OBVIOUS
<1>8. Coming = Len(con.inbox) + Cardinality(P) + (IF job # None THEN 1 ELSE 0)
                 + (IF proc = "booting" THEN 1 ELSE 0)
  BY DEF Coming
<1> HIDE DEF P
<1>9. \A x : Len(<<x>>) = 1
  OBVIOUS
<1>10. Len(<<>>) = 0
  OBVIOUS
<1>11. CASE Quiet
  <2>1. con.out = <<>>
    BY <1>1, <1>11 DEF OnLine, Quiet
  <2> QED BY <2>1, <1>3, <1>7, <1>8, <1>10, <1>11 DEF Quiet, Input, Output
<1>12. CASE Boots
  BY <1>3, <1>7, <1>8, <1>10, <1>12 DEF Boots
<1>13. CASE Written
  BY <1>3, <1>7, <1>8, <1>9, <1>13 DEF Written
<1>14. CASE Working
  <2>1. Receiver \subseteq Evals
    <3>1. CASE forced.phase = "answer"
      <4>1. forced # Idle
        BY <3>1 DEF Idle, None
      <4> QED BY <3>1, <4>1 DEF Receiver, IInv
    <3>2. CASE forced.phase # "answer"
      <4>1. con.pending \in Seq(Evals)
        BY DEF IInv, TypeOK, Connection
      <4>2. con.pending # <<>> => Head(con.pending) \in Evals
        BY <4>1
      <4> QED BY <3>2, <4>2 DEF Receiver
    <3> QED BY <3>1, <3>2
  <2>2. job # None
    BY <2>1, <1>2, <1>14 DEF Working
  <2> QED BY <2>2, <1>3, <1>5, <1>8, <1>10, <1>14 DEF Working
<1>15. CASE Told
  <2>1. Cardinality(P) = 1
    BY <1>4, <1>6, <1>15 DEF Told
  <2> QED BY <2>1, <1>8, <1>10, <1>15 DEF Told
<1> QED BY <1>1, <1>11, <1>12, <1>13, <1>14, <1>15 DEF Stage

-----------------------------------------------------------------------------
(* What is proved of the specification *)

(* The invariant holds before the plug-in is started.                      *)
LEMMA InitInvariant == Init => IInv
<1> SUFFICES ASSUME Init PROVE IInv
  OBVIOUS
<1>1. <<>> \in Seq(Evals) /\ <<>> \in Seq(Evals \cup {Prompt})
  OBVIOUS
<1>2. con \in Connection
  BY <1>1 DEF Init, Connection
<1>3. ~Waiting(con) /\ con.status # Dying /\ ~con.starting
  BY DEF Init, Waiting, Dead, Dying
<1>4. Fit(con)
  BY <1>3 DEF Fit
<1>5. forced \in [eval : Evals \cup {None}, phase : {None, "banner", "answer"}]
  BY DEF Init, Idle
<1> QED BY <1>2, <1>3, <1>4, <1>5 DEF Init, IInv, TypeOK

(* Every step keeps it.                                                    *)
LEMMA StepInvariant == IInv /\ [Next]_vars => IInv' /\ Promised
<1> SUFFICES ASSUME IInv, [Next]_vars PROVE IInv' /\ Promised
  OBVIOUS
<1>1. CASE Next
  BY <1>1, ProgramStep, PluginStep DEF Next
<1>2. CASE UNCHANGED vars
  <2>1. con' = con /\ forced' = forced /\ proc' = proc /\ job' = job /\ signal' = signal
        /\ interrupted' = interrupted
    BY <1>2 DEF vars
  <2>2. Promised
    BY <2>1 DEF Promised, Promise!vars
  <2> QED BY <2>1, <2>2 DEF IInv, TypeOK
<1> QED BY <1>1, <1>2

(* The variables of a connection keep their types.                         *)
THEOREM Typing == Spec => []TypeOK
<1>1. IInv => TypeOK
  BY DEF IInv
<1> QED BY <1>1, InitInvariant, StepInvariant, PTL DEF Spec

(* No evaluation is left waiting for a plug-in that died, or for an answer *)
(* that was already noticed: connection_notify_status tells every change.  *)
THEOREM Waits == Spec => []PendingWaits
<1>1. IInv => PendingWaits
  BY DEF IInv, Fit, PendingWaits
<1> QED BY <1>1, InitInvariant, StepInvariant, PTL DEF Spec

(* The connection implements the promise: whatever the plug-in does, the   *)
(* evaluations that are fed to it end in their order, and each of them once.*)
THEOREM InOrder == Spec => EndsInOrder
<1>1. Init => Promise!Init
  BY DEF Init, Promise!Init
<1>2. Promised <=> [Promise!Next]_(Promise!vars)
  BY DEF Promised
<1> QED BY <1>1, <1>2, InitInvariant, StepInvariant, PTL DEF Spec, EndsInOrder, Promise!Spec

(* Two inputs never meet in the plug-in, and no answer comes unasked:      *)
(* whichever of plugin-feed, plugin-next and connection_eval writes, there *)
(* is one answer on its way when the connection waits for output, and none *)
(* when it does not, as long as nobody interrupted the plug-in.            *)
THEOREM OneAnswer == Spec => []InStep
<1>1. IInv /\ Line => InStep
  BY LineInStep
<1> QED BY <1>1, InitInvariant, StepInvariant, InitLine, StepLine, PTL DEF Spec

(* And all output goes to the evaluation it is about.                      *)
THEOREM ToItsOwn == Spec => OwnOutput
<1>1. [Hears]_vars => [~interrupted => \A e \in Evals : con'.got[e] \subseteq con.got[e] \cup {e}]_vars
  BY DEF Hears, Own
<1> QED BY <1>1, InitInvariant, StepInvariant, InitLine, StepLine, PTL DEF Spec, OwnOutput
=============================================================================
