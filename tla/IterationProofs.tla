-------------------------- MODULE IterationProofs --------------------------
(***************************************************************************)
(* What every round of a loop keeps, the loop keeps.  Inv is fixed by the  *)
(* module that instantiates this one, so that the theorem needs no         *)
(* parameter that is an operator.                                          *)
(***************************************************************************)
EXTENDS Iteration, WellFoundedInduction, NaturalsInduction, TLAPS

CONSTANT Inv(_)

(* f is the sequence of the states of the loop.                            *)
Runs(x, N, f) == f = [k \in 0 .. N |-> IF k = 0 THEN x ELSE Step(f[k - 1])]

(* A set of natural numbers that is not empty has a least element.         *)
LEMMA LeastNat ==
  ASSUME NEW S \in SUBSET Nat, S # {}
  PROVE  \E n \in S : \A m \in S : n <= m
<1>1. IsWellFoundedOn(OpToRel(<, Nat), Nat)
  BY NatLessThanWellFounded
<1>2. PICK n \in S : \A m \in S : ~(<<m, n>> \in OpToRel(<, Nat))
  BY <1>1, WFMin
<1>3. \A m \in S : ~(m < n)
  BY <1>2 DEF OpToRel
<1> QED BY <1>3

(* The function that Iterate defines by recursion exists.                  *)
LEMMA RunExists ==
  ASSUME NEW x, NEW N \in Nat
  PROVE  \E f : Runs(x, N, f)
<1> DEFINE Bad == {n \in Nat : ~\E f : Runs(x, n, f)}
<1>1. SUFFICES ASSUME Bad # {} PROVE FALSE
  BY <1>1
<1>2. PICK n \in Bad : \A m \in Bad : n <= m
  BY <1>1, LeastNat
<1>3. n \in Nat /\ ~\E f : Runs(x, n, f)
  BY <1>2
<1>4. CASE n = 0
  <2>1. Runs(x, 0, [k \in 0 .. 0 |-> x])
    BY DEF Runs
  <2> QED BY <2>1, <1>3, <1>4
<1>5. CASE n # 0
  <2>1. n - 1 \in Nat /\ n - 1 \notin Bad
    BY <1>3, <1>5, <1>2
  <2>2. PICK f : Runs(x, n - 1, f)
    BY <2>1
  <2> DEFINE g == [k \in 0 .. n |-> IF k = 0 THEN x ELSE Step(f[k - 1])]
  <2>3. \A k \in 0 .. n - 1 : g[k] = f[k]
    <3>1. \A k \in 0 .. n - 1 : k \in 0 .. n
      BY <1>3
    <3>2. \A k \in 0 .. n - 1 : f[k] = IF k = 0 THEN x ELSE Step(f[k - 1])
      BY <2>2 DEF Runs
    <3> QED BY <3>1, <3>2
  <2>4. \A k \in 0 .. n : k # 0 => k - 1 \in 0 .. n - 1
    BY <2>1, <1>3
  <2>5. g = [k \in 0 .. n |-> IF k = 0 THEN x ELSE Step(g[k - 1])]
    BY <2>3, <2>4
  <2> QED BY <2>5, <1>3 DEF Runs
<1> QED BY <1>4, <1>5

(* A property of the first state that every round keeps holds after N      *)
(* rounds.  It carries every proof about simplify, undo, redo, mark_cancel *)
(* and apply, the loops of archiver.cpp.                                   *)
THEOREM IterateKeeps ==
  ASSUME NEW x, NEW N, Inv(x), \A s : Inv(s) => Inv(Step(s))
  PROVE  Inv(Iterate(x, N))
<1> SUFFICES ASSUME N \in Nat PROVE Inv(Iterate(x, N))
  BY DEF Iterate
<1> DEFINE run == CHOOSE f : Runs(x, N, f)
<1>1. Runs(x, N, run)
  BY RunExists
<1>2. Iterate(x, N) = run[N]
  BY DEF Iterate, Runs
<1> DEFINE Bad == {n \in 0 .. N : ~Inv(run[n])}
<1>3. ASSUME Bad # {} PROVE FALSE
  <2>0. Bad \in SUBSET Nat
    OBVIOUS
  <2>1. PICK n \in Bad : \A m \in Bad : n <= m
    <3> HIDE DEF Bad
    <3> QED BY <1>3, <2>0, LeastNat
  <2>2. n # 0
    BY <1>1, <2>1 DEF Runs
  <2>3. n - 1 \in 0 .. N /\ Inv(run[n - 1])
    BY <2>1, <2>2
  <2>4. run[n] = Step(run[n - 1])
    BY <2>1, <2>2, <1>1 DEF Runs
  <2> QED BY <2>3, <2>4, <2>1
<1> QED BY <1>2, <1>3, N \in 0 .. N
=============================================================================
