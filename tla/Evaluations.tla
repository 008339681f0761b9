----------------------------- MODULE Evaluations -----------------------------
(***************************************************************************)
(* What the user of a plug-in may expect of the evaluations that are fed   *)
(* to it: they end in the order in which they were fed, and each of them   *)
(* ends once, with an answer or with the news that it was cancelled.       *)
(***************************************************************************)
EXTENDS Naturals, Sequences

CONSTANT Evals               \* the evaluations that can be fed

VARIABLES
  queue,                     \* the evaluations that wait, the oldest first
  ended                      \* per evaluation: how it ended, or "no"

vars == <<queue, ended>>

Ends == {"answered", "dead", "interrupted"}
First(n) == {queue[i] : i \in 1 .. n}
Rest(n)  == SubSeq(queue, n + 1, Len(queue))
New(e)   == ended[e] = "no" /\ \A i \in 1 .. Len(queue) : queue[i] # e

Init ==
  /\ queue = <<>>
  /\ ended = [e \in Evals |-> "no"]

Feed(e) ==
  /\ New(e)
  /\ queue' = Append(queue, e)
  /\ UNCHANGED ended

(* An evaluation that nothing waits for may end while it is fed.           *)
EvalAtOnce(e) ==
  /\ New(e) /\ queue = <<>>
  /\ ended' = [ended EXCEPT ![e] = "answered"]
  /\ UNCHANGED queue

(* The oldest evaluations are answered.                                    *)
Answer(n) ==
  /\ n \in 1 .. Len(queue)
  /\ queue' = Rest(n)
  /\ ended' = [e \in Evals |-> IF e \in First(n) THEN "answered" ELSE ended[e]]

(* All of them are cancelled.                                              *)
Cancel(how) ==
  /\ queue # <<>> /\ queue' = <<>>
  /\ ended' = [e \in Evals |-> IF e \in First(Len(queue)) THEN how ELSE ended[e]]

Next ==
  \/ \E e \in Evals : Feed(e) \/ EvalAtOnce(e)
  \/ \E n \in 1 .. Len(queue) : Answer(n)
  \/ \E how \in Ends \ {"answered"} : Cancel(how)

Spec == Init /\ [][Next]_vars
=============================================================================
