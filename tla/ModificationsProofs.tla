------------------------ MODULE ModificationsProofs ------------------------
(***************************************************************************)
(* The inverse of a modification, for every document and every            *)
(* modification that is applicable to it.                                  *)
(***************************************************************************)
EXTENDS Pairs, SequenceTheorems, TLAPS

Order == INSTANCE WellFoundedInduction

-----------------------------------------------------------------------------
(* Induction over an interval, upwards and downwards, for a set of numbers *)

LEMMA LeastNumber ==
  ASSUME NEW S \in SUBSET Nat, S # {}
  PROVE  \E n \in S : \A m \in S : n <= m
<1>1. PICK n \in S : \A m \in S : ~(<<m, n>> \in Order!OpToRel(<, Nat))
  BY Order!NatLessThanWellFounded, Order!WFMin, Zenon
<1>2. \A m \in S : ~(m < n)
  BY <1>1 DEF Order!OpToRel
<1> QED BY <1>2

LEMMA Upwards ==
  ASSUME NEW N \in Nat, NEW S, 0 \in S, \A k \in 0 .. N - 1 : k \in S => k + 1 \in S
  PROVE  0 .. N \subseteq S
<1> DEFINE Bad == {n \in 0 .. N : n \notin S}
<1>1. SUFFICES ASSUME Bad # {} PROVE FALSE
  BY <1>1
<1>2. Bad \in SUBSET Nat
  OBVIOUS
<1>3. PICK n \in Bad : \A m \in Bad : n <= m
  <2> HIDE DEF Bad
  <2> QED BY <1>1, <1>2, LeastNumber
<1>4. n # 0 /\ n - 1 \in 0 .. N - 1 /\ n - 1 \in 0 .. N /\ (n - 1) + 1 = n /\ ~(n <= n - 1)
  BY <1>3
<1>5. n - 1 \notin Bad
  BY <1>3, <1>4
<1>6. n - 1 \in S
  BY <1>4, <1>5
<1> QED BY <1>3, <1>4, <1>6

LEMMA Downwards ==
  ASSUME NEW N \in Nat, NEW S, N \in S, \A k \in 0 .. N - 1 : k + 1 \in S => k \in S
  PROVE  0 .. N \subseteq S
<1> DEFINE T == {k \in 0 .. N : N - k \in S}
<1>1. 0 \in T
  BY N - 0 = N
<1>2. ASSUME NEW k \in 0 .. N - 1, k \in T PROVE k + 1 \in T
  <2>1. N - (k + 1) \in 0 .. N - 1 /\ (N - (k + 1)) + 1 = N - k /\ k + 1 \in 0 .. N
    OBVIOUS
  <2> QED BY <1>2, <2>1
<1>3. 0 .. N \subseteq T
  <2> HIDE DEF T
  <2> QED BY <1>1, <1>2, Upwards
<1>4. \A k \in 0 .. N : N - k \in 0 .. N /\ N - (N - k) = k
  OBVIOUS
<1> QED BY <1>3, <1>4

-----------------------------------------------------------------------------
(* The functions that SubTree and Put define by recursion *)

Downs(t, p, d) == d = [n \in 0 .. Len(p) |-> IF n = 0 THEN t ELSE d[n - 1].arg[p[n] + 1]]

Ups(t, p, u, f) ==
  f = [n \in 0 .. Len(p) |->
         IF n = Len(p) THEN u
         ELSE [SubTree(t, Prefix(p, n)) EXCEPT !.arg[p[n + 1] + 1] = f[n + 1]]]

LEMMA DownExists ==
  ASSUME NEW t, NEW p \in Seq(Nat)
  PROVE  \E d : Downs(t, p, d)
<1> DEFINE N == Len(p)
           Is(k, d) == d = [n \in 0 .. k |-> IF n = 0 THEN t ELSE d[n - 1].arg[p[n] + 1]]
           S == {k \in 0 .. N : \E d : Is(k, d)}
<1>1. N \in Nat
  OBVIOUS
<1>2. 0 \in S
  <2>1. Is(0, [n \in 0 .. 0 |-> t])
    OBVIOUS
  <2>2. 0 \in 0 .. N
    BY <1>1
  <2> HIDE DEF Is
  <2> QED BY <2>1, <2>2, Zenon
<1>3. ASSUME NEW k \in 0 .. N - 1, k \in S PROVE k + 1 \in S
  <2>1. PICK d : Is(k, d)
    BY <1>3
  <2> DEFINE e == [n \in 0 .. k + 1 |-> IF n = 0 THEN t ELSE d[n - 1].arg[p[n] + 1]]
  <2>2. \A n \in 0 .. k : e[n] = d[n]
    <3>1. \A n \in 0 .. k : n \in 0 .. k + 1
      BY <1>1
    <3>2. \A n \in 0 .. k : d[n] = IF n = 0 THEN t ELSE d[n - 1].arg[p[n] + 1]
      BY <2>1
    <3> QED BY <3>1, <3>2
  <2>3. \A n \in 0 .. k + 1 : n # 0 => n - 1 \in 0 .. k
    BY <1>1
  <2>4. Is(k + 1, e)
    BY <2>2, <2>3
  <2>5. k + 1 \in 0 .. N
    BY <1>1
  <2> HIDE DEF Is, e
  <2> QED BY <2>4, <2>5, Zenon
<1>4. 0 .. N \subseteq S
  <2> HIDE DEF S, N
  <2> QED BY <1>1, <1>2, <1>3, Upwards
<1>5. N \in S
  BY <1>1, <1>4
<1> QED BY <1>5 DEF Downs

LEMMA UpExists ==
  ASSUME NEW t, NEW p \in Seq(Nat), NEW u
  PROVE  \E f : Ups(t, p, u, f)
<1> DEFINE N == Len(p)
           Is(k, f) == f = [n \in k .. N |->
                              IF n = N THEN u
                              ELSE [SubTree(t, Prefix(p, n)) EXCEPT !.arg[p[n + 1] + 1] = f[n + 1]]]
           S == {k \in 0 .. N : \E f : Is(k, f)}
<1>1. N \in Nat
  OBVIOUS
<1>2. N \in S
  <2>1. Is(N, [n \in N .. N |-> u])
    BY <1>1
  <2>2. N \in 0 .. N
    BY <1>1
  <2> HIDE DEF Is
  <2> QED BY <2>1, <2>2, Zenon
<1>3. ASSUME NEW k \in 0 .. N - 1, k + 1 \in S PROVE k \in S
  <2>1. PICK f : Is(k + 1, f)
    BY <1>3
  <2> DEFINE At(n, g) == IF n = N THEN u
                         ELSE [SubTree(t, Prefix(p, n)) EXCEPT !.arg[p[n + 1] + 1] = g[n + 1]]
             e == [n \in k .. N |-> At(n, f)]
  <2>2. \A n \in k + 1 .. N : e[n] = f[n]
    <3>1. \A n \in k + 1 .. N : n \in k .. N
      BY <1>1
    <3>2. \A n \in k + 1 .. N : f[n] = At(n, f)
      BY <2>1
    <3> QED BY <3>1, <3>2, Zenon
  <2>3. \A n \in k .. N : n # N => n + 1 \in k + 1 .. N
    BY <1>1
  <2>4. \A n \in k .. N : At(n, e) = At(n, f)
    <3> HIDE DEF e, N
    <3> QED BY <2>2, <2>3, Zenon
  <2>5. Is(k, e)
    <3>1. e = [n \in k .. N |-> At(n, e)]
      <4> HIDE DEF At
      <4> QED BY <2>4
    <3> QED BY <3>1, Zenon
  <2>6. k \in 0 .. N
    BY <1>1
  <2> HIDE DEF Is, e
  <2> QED BY <2>5, <2>6, Zenon
<1>4. 0 .. N \subseteq S
  <2> HIDE DEF S, N
  <2> QED BY <1>1, <1>2, <1>3, Downwards
<1>5. 0 \in S
  BY <1>1, <1>4
<1> QED BY <1>5 DEF Ups

(* The nodes along p, from t down to the one that p leads to.              *)
Along(t, p) == CHOOSE d : Downs(t, p, d)

LEMMA AlongFacts ==
  ASSUME NEW t, NEW p \in Seq(Nat)
  PROVE  /\ Along(t, p)[0] = t
         /\ \A n \in 1 .. Len(p) : Along(t, p)[n] = Along(t, p)[n - 1].arg[p[n] + 1]
         /\ SubTree(t, p) = Along(t, p)[Len(p)]
<1>1. Downs(t, p, Along(t, p))
  BY DownExists, Zenon DEF Along
<1>2. SubTree(t, p) = Along(t, p)[Len(p)]
  BY DEF SubTree, Along, Downs
<1> DEFINE d == Along(t, p)
<1>3. d = [n \in 0 .. Len(p) |-> IF n = 0 THEN t ELSE d[n - 1].arg[p[n] + 1]]
  BY <1>1 DEF Downs
<1>4. 0 \in 0 .. Len(p) /\ \A n \in 1 .. Len(p) : n \in 0 .. Len(p) /\ n # 0
  OBVIOUS
<1> HIDE DEF d
<1>5. d[0] = t /\ \A n \in 1 .. Len(p) : d[n] = d[n - 1].arg[p[n] + 1]
  BY <1>3, <1>4
<1> QED BY <1>2, <1>5 DEF d

(* What leads to the same nodes is the same.                               *)
Leads(t, p, n, d) == d[0] = t /\ \A k \in 1 .. n : d[k] = d[k - 1].arg[p[k] + 1]

LEMMA AlongUnique ==
  ASSUME NEW t, NEW p \in Seq(Nat), NEW d, NEW n \in 0 .. Len(p), Leads(t, p, n, d)
  PROVE  d[n] = Along(t, p)[n]
<1> DEFINE S == {k \in 0 .. n : d[k] = Along(t, p)[k]}
<1>1. n \in Nat /\ Len(p) \in Nat /\ \A k \in 1 .. n : k \in 1 .. Len(p)
  OBVIOUS
<1>2. 0 \in S
  BY <1>1, AlongFacts DEF Leads
<1>3. ASSUME NEW k \in 0 .. n - 1, k \in S PROVE k + 1 \in S
  <2>1. k + 1 \in 1 .. n /\ k + 1 \in 0 .. n /\ (k + 1) - 1 = k
    BY <1>1
  <2>2. d[k + 1] = d[k].arg[p[k + 1] + 1]
    BY <2>1 DEF Leads
  <2>3. Along(t, p)[k + 1] = Along(t, p)[k].arg[p[k + 1] + 1]
    BY <1>1, <2>1, AlongFacts
  <2> QED BY <1>3, <2>1, <2>2, <2>3
<1>4. 0 .. n \subseteq S
  <2> HIDE DEF S
  <2> QED BY <1>1, <1>2, <1>3, Upwards
<1>5. n \in 0 .. n
  BY <1>1
<1> QED BY <1>4, <1>5

LEMMA PrefixFacts ==
  ASSUME NEW p \in Seq(Nat), NEW n \in 0 .. Len(p)
  PROVE  /\ Prefix(p, n) \in Seq(Nat) /\ Len(Prefix(p, n)) = n
         /\ \A k \in 1 .. n : Prefix(p, n)[k] = p[k]
BY DEF Prefix

(* The nodes along p are the subtrees at the beginnings of p.              *)
LEMMA SubTreeAlong ==
  ASSUME NEW t, NEW p \in Seq(Nat), NEW n \in 0 .. Len(p)
  PROVE  SubTree(t, Prefix(p, n)) = Along(t, p)[n]
<1>1. ASSUME NEW q \in Seq(Nat), Len(q) = n, \A k \in 1 .. n : q[k] = p[k]
      PROVE  SubTree(t, q) = Along(t, p)[n]
  <2>1. n \in 0 .. n
    OBVIOUS
  <2>2. Along(t, q)[0] = t /\ SubTree(t, q) = Along(t, q)[n]
    BY <1>1, AlongFacts
  <2>3. \A k \in 1 .. Len(q) : Along(t, q)[k] = Along(t, q)[k - 1].arg[q[k] + 1]
    BY AlongFacts
  <2>4. \A k \in 1 .. n : Along(t, q)[k] = Along(t, q)[k - 1].arg[p[k] + 1]
    BY <1>1, <2>3
  <2>5. Along(t, q)[n] = Along(t, p)[n]
    <3>1. Leads(t, p, n, Along(t, q))
      BY <2>2, <2>4 DEF Leads
    <3> QED BY <3>1, AlongUnique
  <2> QED BY <2>2, <2>5
<1> QED BY <1>1, PrefixFacts

(* A path exists in t when the nodes along it have the children it asks    *)
(* for.                                                                    *)
LEMMA HasSubTreeAlong ==
  ASSUME NEW t, NEW p \in Seq(Nat)
  PROVE  HasSubTree(t, p) <=>
           \A n \in 1 .. Len(p) :
             ~IsAtomic(Along(t, p)[n - 1]) /\ p[n] \in 0 .. Arity(Along(t, p)[n - 1]) - 1
<1>1. \A n \in 1 .. Len(p) : n - 1 \in 0 .. Len(p)
  OBVIOUS
<1>2. \A n \in 1 .. Len(p) : SubTree(t, Prefix(p, n - 1)) = Along(t, p)[n - 1]
  BY <1>1, SubTreeAlong
<1> QED BY <1>2, Zenon DEF HasSubTree

(* The node s with v as its child i.                                       *)
WithChild(s, i, v) == [s EXCEPT !.arg[i + 1] = v]

Changed(a, i, v) == [a EXCEPT ![i + 1] = v]

LEMMA WithChildNode ==
  ASSUME NEW s, NEW o, NEW a, s = Node(o, a), NEW i, NEW v
  PROVE  WithChild(s, i, v) = Node(o, Changed(a, i, v))
BY DEF WithChild, Changed, Node

(* What Put builds, from the node at the end of p up to the root.          *)
Rebuilt(t, p, u) == CHOOSE f : Ups(t, p, u, f)

LEMMA RebuiltIsUp ==
  ASSUME NEW t, NEW p \in Seq(Nat), NEW u
  PROVE  Ups(t, p, u, Rebuilt(t, p, u))
BY UpExists, Zenon DEF Rebuilt

LEMMA RebuiltEnds ==
  ASSUME NEW t, NEW p \in Seq(Nat), NEW u
  PROVE  Put(t, p, u) = Rebuilt(t, p, u)[0] /\ Rebuilt(t, p, u)[Len(p)] = u
<1>1. Put(t, p, u) = Rebuilt(t, p, u)[0]
  BY DEF Put, Rebuilt, Ups
<1> DEFINE f == Rebuilt(t, p, u)
<1>2. Ups(t, p, u, f)
  BY RebuiltIsUp
<1>3. Len(p) \in 0 .. Len(p)
  OBVIOUS
<1> HIDE DEF f
<1>4. f[Len(p)] = u
  BY <1>2, <1>3 DEF Ups
<1> QED BY <1>1, <1>4 DEF f

LEMMA RebuiltStep ==
  ASSUME NEW t, NEW p \in Seq(Nat), NEW u, NEW n \in 0 .. Len(p) - 1
  PROVE  Rebuilt(t, p, u)[n] = WithChild(Along(t, p)[n], p[n + 1], Rebuilt(t, p, u)[n + 1])
<1>u. Ups(t, p, u, Rebuilt(t, p, u))
  BY RebuiltIsUp
<1> DEFINE f == Rebuilt(t, p, u)
<1>1. f = [k \in 0 .. Len(p) |->
             IF k = Len(p) THEN u
             ELSE [SubTree(t, Prefix(p, k)) EXCEPT !.arg[p[k + 1] + 1] = f[k + 1]]]
  BY <1>u DEF Ups
<1>2. n \in 0 .. Len(p) /\ n # Len(p)
  OBVIOUS
<1> HIDE DEF f
<1>3. f[n] = [SubTree(t, Prefix(p, n)) EXCEPT !.arg[p[n + 1] + 1] = f[n + 1]]
  BY <1>1, <1>2, Zenon
<1>4. SubTree(t, Prefix(p, n)) = Along(t, p)[n]
  BY <1>2, SubTreeAlong
<1>5. f[n] = WithChild(Along(t, p)[n], p[n + 1], f[n + 1])
  BY <1>3, <1>4, Zenon DEF WithChild
<1> QED BY <1>5 DEF f

-----------------------------------------------------------------------------
(* Trees: T is a set of trees, for some set L of labels, when its elements *)
(* are just the nodes whose children are elements of it.                   *)

IsTrees(T) == \E L : T = [op : L, arg : Seq(T)]

LEMMA NodeFacts ==
  ASSUME NEW T, IsTrees(T), NEW s \in T
  PROVE  /\ s.arg \in Seq(T) /\ Arity(s) \in Nat /\ s = Node(s.op, s.arg)
         /\ \A as \in Seq(T) : Node(s.op, as) \in T
<1>1. PICK L : T = [op : L, arg : Seq(T)]
  BY DEF IsTrees
<1> DEFINE A == Seq(T)
<1>2. s \in [op : L, arg : A]
  BY <1>1
<1> HIDE DEF A
<1>3. s.op \in L /\ s.arg \in A /\ s = [op |-> s.op, arg |-> s.arg]
  BY <1>2
<1>4. \A as \in A : [op |-> s.op, arg |-> as] \in [op : L, arg : A]
  BY <1>3
<1>5. \A as \in A : [op |-> s.op, arg |-> as] \in T
  BY <1>1, <1>4, Zenon DEF A
<1> QED BY <1>3, <1>5 DEF A, Arity, Node

LEMMA NodeParts ==
  ASSUME NEW o, NEW a
  PROVE  Node(o, a).op = o /\ Node(o, a).arg = a /\ Arity(Node(o, a)) = Len(a)
         /\ IsAtomic(Node(o, a)) = (o = "string")
BY DEF Node, Arity, IsAtomic

LEMMA ChangedFacts ==
  ASSUME NEW T, NEW a \in Seq(T), NEW i \in 0 .. Len(a) - 1, NEW v \in T
  PROVE  /\ Changed(a, i, v) \in Seq(T) /\ Len(Changed(a, i, v)) = Len(a)
         /\ Changed(a, i, v)[i + 1] = v
<1>1. i + 1 \in 1 .. Len(a)
  OBVIOUS
<1>2. /\ [a EXCEPT ![i + 1] = v] \in Seq(T) /\ Len([a EXCEPT ![i + 1] = v]) = Len(a)
      /\ [a EXCEPT ![i + 1] = v][i + 1] = v
  BY <1>1, ExceptSeq
<1> QED BY <1>2, Zenon DEF Changed

LEMMA ChangedAgain ==
  ASSUME NEW T, NEW a \in Seq(T), NEW i \in 0 .. Len(a) - 1, NEW v \in T, NEW w \in T
  PROVE  /\ Changed(Changed(a, i, v), i, w) = Changed(a, i, w)
         /\ Changed(a, i, a[i + 1]) = a /\ a[i + 1] \in T
<1>1. i + 1 \in 1 .. Len(a) /\ DOMAIN a = 1 .. Len(a)
  OBVIOUS
<1>2. [[a EXCEPT ![i + 1] = v] EXCEPT ![i + 1] = w] = [a EXCEPT ![i + 1] = w]
  BY <1>1
<1>3. [a EXCEPT ![i + 1] = a[i + 1]] = a /\ a[i + 1] \in T
  BY <1>1
<1> QED BY <1>2, <1>3, Zenon DEF Changed

(* A child of a node is replaced.                                          *)
LEMMA ChildFacts ==
  ASSUME NEW T, IsTrees(T), NEW s \in T, NEW i \in 0 .. Arity(s) - 1, NEW v \in T
  PROVE  /\ s.arg[i + 1] \in T
         /\ WithChild(s, i, v) \in T
         /\ WithChild(s, i, v).op = s.op /\ Arity(WithChild(s, i, v)) = Arity(s)
         /\ WithChild(s, i, v).arg[i + 1] = v
         /\ \A w \in T : WithChild(WithChild(s, i, v), i, w) = WithChild(s, i, w)
<1>1. /\ s.arg \in Seq(T) /\ s = Node(s.op, s.arg)
      /\ \A as \in Seq(T) : Node(s.op, as) \in T
  BY NodeFacts
<1>2. i \in 0 .. Len(s.arg) - 1
  BY DEF Arity
<1>3. WithChild(s, i, v) = Node(s.op, Changed(s.arg, i, v))
  BY <1>1, WithChildNode
<1>4. \A w \in T : /\ WithChild(s, i, w) = Node(s.op, Changed(s.arg, i, w))
                   /\ WithChild(WithChild(s, i, v), i, w)
                        = Node(s.op, Changed(Changed(s.arg, i, v), i, w))
  BY <1>1, <1>3, WithChildNode
<1>5. /\ Changed(s.arg, i, v) \in Seq(T) /\ Len(Changed(s.arg, i, v)) = Len(s.arg)
      /\ Changed(s.arg, i, v)[i + 1] = v
  <2> DEFINE a == s.arg
  <2>1. a \in Seq(T) /\ i \in 0 .. Len(a) - 1
    BY <1>1, <1>2
  <2> HIDE DEF a
  <2>2. /\ Changed(a, i, v) \in Seq(T) /\ Len(Changed(a, i, v)) = Len(a)
        /\ Changed(a, i, v)[i + 1] = v
    BY <2>1, ChangedFacts, SMTT(30)
  <2> QED BY <2>2 DEF a
<1>6. \A w \in T : Changed(Changed(s.arg, i, v), i, w) = Changed(s.arg, i, w)
  BY <1>1, <1>2, ChangedAgain
<1>7. s.arg[i + 1] \in T
  BY <1>1, <1>2, ChangedAgain
<1> QED BY <1>1, <1>3, <1>4, <1>5, <1>6, <1>7, NodeParts DEF Arity

LEMMA OwnChild ==
  ASSUME NEW T, IsTrees(T), NEW s \in T, NEW i \in 0 .. Arity(s) - 1
  PROVE  WithChild(s, i, s.arg[i + 1]) = s
<1>1. s.arg \in Seq(T) /\ s = Node(s.op, s.arg)
  BY NodeFacts
<1>2. i \in 0 .. Len(s.arg) - 1 /\ s.arg[i + 1] \in T
  BY <1>1 DEF Arity
<1>3. WithChild(s, i, s.arg[i + 1]) = Node(s.op, Changed(s.arg, i, s.arg[i + 1]))
  BY <1>1, WithChildNode
<1> QED BY <1>1, <1>2, <1>3, ChangedAgain

LEMMA AlongTrees ==
  ASSUME NEW T, IsTrees(T), NEW t \in T, NEW p \in Seq(Nat), HasSubTree(t, p)
  PROVE  /\ \A n \in 0 .. Len(p) : Along(t, p)[n] \in T
         /\ \A n \in 0 .. Len(p) - 1 : /\ Along(t, p)[n] \in T /\ ~IsAtomic(Along(t, p)[n])
                                       /\ p[n + 1] \in 0 .. Arity(Along(t, p)[n]) - 1
                                       /\ Along(t, p)[n + 1] = Along(t, p)[n].arg[p[n + 1] + 1]
<1> DEFINE d == Along(t, p)
           S == {k \in 0 .. Len(p) : d[k] \in T}
<1>0. Len(p) \in Nat
  OBVIOUS
<1>1. ASSUME NEW n \in 0 .. Len(p) - 1
      PROVE  /\ ~IsAtomic(d[n]) /\ p[n + 1] \in 0 .. Arity(d[n]) - 1
             /\ d[n + 1] = d[n].arg[p[n + 1] + 1]
  <2>1. n + 1 \in 1 .. Len(p) /\ (n + 1) - 1 = n
    BY <1>0
  <2>2. ~IsAtomic(d[(n + 1) - 1]) /\ p[n + 1] \in 0 .. Arity(d[(n + 1) - 1]) - 1
    BY <2>1, HasSubTreeAlong
  <2>3. d[n + 1] = d[(n + 1) - 1].arg[p[n + 1] + 1]
    BY <2>1, AlongFacts
  <2> QED BY <2>1, <2>2, <2>3
<1>2. 0 \in S
  BY <1>0, AlongFacts
<1>3. ASSUME NEW k \in 0 .. Len(p) - 1, k \in S PROVE k + 1 \in S
  <2>1. d[k].arg[p[k + 1] + 1] \in T
    BY <1>1, <1>3, ChildFacts
  <2> QED BY <2>1, <1>0, <1>1
<1>4. 0 .. Len(p) \subseteq S
  <2> HIDE DEF S
  <2> QED BY <1>0, <1>2, <1>3, Upwards
<1>5. \A n \in 0 .. Len(p) - 1 : n \in 0 .. Len(p)
  BY <1>0
<1> QED BY <1>1, <1>4, <1>5

LEMMA RebuiltTrees ==
  ASSUME NEW T, IsTrees(T), NEW t \in T, NEW p \in Seq(Nat), HasSubTree(t, p),
         NEW u \in T
  PROVE  \A n \in 0 .. Len(p) : Rebuilt(t, p, u)[n] \in T
<1> DEFINE f == Rebuilt(t, p, u)
           S == {k \in 0 .. Len(p) : f[k] \in T}
<1>0. Len(p) \in Nat /\ \A k \in 0 .. Len(p) - 1 : k \in 0 .. Len(p)
  OBVIOUS
<1>1. Len(p) \in S
  BY <1>0, RebuiltEnds
<1>2. ASSUME NEW k \in 0 .. Len(p) - 1, k + 1 \in S PROVE k \in S
  <2>1. f[k] = WithChild(Along(t, p)[k], p[k + 1], f[k + 1])
    BY RebuiltStep
  <2>2. Along(t, p)[k] \in T /\ p[k + 1] \in 0 .. Arity(Along(t, p)[k]) - 1
    BY AlongTrees
  <2>3. f[k + 1] \in T
    BY <1>2
  <2> HIDE DEF f
  <2>4. f[k] \in T
    BY <2>1, <2>2, <2>3, ChildFacts
  <2> QED BY <2>4, <1>0
<1>3. 0 .. Len(p) \subseteq S
  <2> HIDE DEF S
  <2> QED BY <1>0, <1>1, <1>2, Downwards
<1> QED BY <1>3

(* Where a node was put, it is found, and everything above it is as it was.*)
LEMMA AlongRebuilt ==
  ASSUME NEW T, IsTrees(T), NEW t \in T, NEW p \in Seq(Nat), HasSubTree(t, p),
         NEW u \in T
  PROVE  /\ Put(t, p, u) \in T /\ HasSubTree(Put(t, p, u), p)
         /\ \A n \in 0 .. Len(p) : Along(Put(t, p, u), p)[n] = Rebuilt(t, p, u)[n]
<1> DEFINE f == Rebuilt(t, p, u)
<1>0. Len(p) \in Nat /\ 0 \in 0 .. Len(p) /\ Len(p) \in 0 .. Len(p)
  OBVIOUS
<1>1. /\ \A n \in 0 .. Len(p) : f[n] \in T
      /\ Put(t, p, u) = f[0]
      /\ \A n \in 0 .. Len(p) - 1 : f[n] = WithChild(Along(t, p)[n], p[n + 1], f[n + 1])
  <2>1. \A n \in 0 .. Len(p) : f[n] \in T
    BY RebuiltTrees
  <2>2. Put(t, p, u) = f[0]
    BY RebuiltEnds
  <2>3. \A n \in 0 .. Len(p) - 1 : f[n] = WithChild(Along(t, p)[n], p[n + 1], f[n + 1])
    BY RebuiltStep
  <2> QED BY <2>1, <2>2, <2>3
<1> HIDE DEF f
<1>2. ASSUME NEW n \in 0 .. Len(p) - 1
      PROVE  /\ f[n].op = Along(t, p)[n].op /\ Arity(f[n]) = Arity(Along(t, p)[n])
             /\ f[n].arg[p[n + 1] + 1] = f[n + 1]
  <2>1. Along(t, p)[n] \in T /\ p[n + 1] \in 0 .. Arity(Along(t, p)[n]) - 1
    BY AlongTrees
  <2>2. n + 1 \in 0 .. Len(p)
    BY <1>0
  <2>3. f[n + 1] \in T
    BY <1>1, <2>2
  <2>4. f[n] = WithChild(Along(t, p)[n], p[n + 1], f[n + 1])
    BY <1>1
  <2> QED BY <2>1, <2>3, <2>4, ChildFacts
<1>3. \A n \in 1 .. Len(p) : f[n] = f[n - 1].arg[p[n] + 1]
  <2> SUFFICES ASSUME NEW n \in 1 .. Len(p) PROVE f[n] = f[n - 1].arg[p[n] + 1]
    OBVIOUS
  <2>1. n - 1 \in 0 .. Len(p) - 1 /\ (n - 1) + 1 = n
    BY <1>0
  <2> QED BY <2>1, <1>2
<1>4. ASSUME NEW n \in 0 .. Len(p) PROVE f[n] = Along(Put(t, p, u), p)[n]
  <2>1. \A k \in 1 .. n : k \in 1 .. Len(p)
    BY <1>0
  <2>2. Leads(Put(t, p, u), p, n, f)
    BY <2>1, <1>1, <1>3 DEF Leads
  <2> QED BY <2>2, AlongUnique
<1>5. HasSubTree(Put(t, p, u), p)
  <2> SUFFICES ASSUME NEW n \in 1 .. Len(p)
               PROVE  /\ ~IsAtomic(Along(Put(t, p, u), p)[n - 1])
                      /\ p[n] \in 0 .. Arity(Along(Put(t, p, u), p)[n - 1]) - 1
    BY HasSubTreeAlong, Zenon
  <2>1. n - 1 \in 0 .. Len(p) - 1 /\ n - 1 \in 0 .. Len(p) /\ (n - 1) + 1 = n
    BY <1>0
  <2>2. ~IsAtomic(Along(t, p)[n - 1]) /\ p[n] \in 0 .. Arity(Along(t, p)[n - 1]) - 1
    BY <2>1, HasSubTreeAlong
  <2>3. Along(Put(t, p, u), p)[n - 1] = f[n - 1]
    BY <2>1, <1>4
  <2> QED BY <2>1, <2>2, <2>3, <1>2 DEF IsAtomic
<1> QED BY <1>0, <1>1, <1>4, <1>5 DEF f

LEMMA PutFacts ==
  ASSUME NEW T, IsTrees(T), NEW t \in T, NEW p \in Seq(Nat), HasSubTree(t, p),
         NEW u \in T
  PROVE  /\ SubTree(t, p) \in T
         /\ Put(t, p, u) \in T /\ HasSubTree(Put(t, p, u), p)
         /\ SubTree(Put(t, p, u), p) = u
         /\ Put(t, p, SubTree(t, p)) = t
         /\ \A v \in T : Put(Put(t, p, u), p, v) = Put(t, p, v)
<1>0. Len(p) \in Nat /\ 0 \in 0 .. Len(p) /\ Len(p) \in 0 .. Len(p)
  OBVIOUS
<1>1. SubTree(t, p) \in T
  BY <1>0, AlongFacts, AlongTrees
<1>2. Put(t, p, u) \in T /\ HasSubTree(Put(t, p, u), p)
  BY AlongRebuilt
<1>3. SubTree(Put(t, p, u), p) = u
  <2>1. SubTree(Put(t, p, u), p) = Along(Put(t, p, u), p)[Len(p)]
    BY AlongFacts
  <2>2. Along(Put(t, p, u), p)[Len(p)] = Rebuilt(t, p, u)[Len(p)]
    BY <1>0, AlongRebuilt
  <2>3. Rebuilt(t, p, u)[Len(p)] = u
    BY RebuiltEnds
  <2> QED BY <2>1, <2>2, <2>3
<1>4. Put(t, p, SubTree(t, p)) = t
  <2> DEFINE f == Rebuilt(t, p, SubTree(t, p))
             S == {k \in 0 .. Len(p) : f[k] = Along(t, p)[k]}
  <2>1. Len(p) \in S
    BY <1>0, RebuiltEnds, AlongFacts
  <2>2. ASSUME NEW k \in 0 .. Len(p) - 1, k + 1 \in S PROVE k \in S
    <3>1. f[k] = WithChild(Along(t, p)[k], p[k + 1], f[k + 1])
      BY RebuiltStep
    <3>2. f[k + 1] = Along(t, p)[k].arg[p[k + 1] + 1]
      BY <2>2, AlongTrees
    <3>3. /\ Along(t, p)[k] \in T /\ p[k + 1] \in 0 .. Arity(Along(t, p)[k]) - 1
      BY AlongTrees
    <3>4. k \in 0 .. Len(p)
      BY <1>0
    <3> HIDE DEF f
    <3>5. f[k] = Along(t, p)[k]
      BY <3>1, <3>2, <3>3, OwnChild
    <3> QED BY <3>4, <3>5
  <2>3. 0 .. Len(p) \subseteq S
    <3> HIDE DEF S
    <3> QED BY <1>0, <2>1, <2>2, Downwards
  <2>4. f[0] = Along(t, p)[0]
    BY <2>3, <1>0
  <2> QED BY <2>4, RebuiltEnds, AlongFacts
<1>5. ASSUME NEW v \in T PROVE Put(Put(t, p, u), p, v) = Put(t, p, v)
  <2> DEFINE x == Put(t, p, u)
             f == Rebuilt(x, p, v)
             g == Rebuilt(t, p, v)
             S == {k \in 0 .. Len(p) : f[k] = g[k]}
  <2>1. Len(p) \in S
    BY <1>0, RebuiltEnds
  <2>2. ASSUME NEW k \in 0 .. Len(p) - 1, k + 1 \in S PROVE k \in S
    <3>0. k \in 0 .. Len(p) /\ k + 1 \in 0 .. Len(p)
      BY <1>0
    <3>1. f[k] = WithChild(Along(x, p)[k], p[k + 1], f[k + 1])
      BY RebuiltStep
    <3>2. g[k] = WithChild(Along(t, p)[k], p[k + 1], g[k + 1])
      BY RebuiltStep
    <3>3. Along(x, p)[k] = WithChild(Along(t, p)[k], p[k + 1], Rebuilt(t, p, u)[k + 1])
      BY <3>0, AlongRebuilt, RebuiltStep
    <3>4. Along(t, p)[k] \in T /\ p[k + 1] \in 0 .. Arity(Along(t, p)[k]) - 1
      BY AlongTrees
    <3>5. g[k + 1] \in T /\ Rebuilt(t, p, u)[k + 1] \in T
      BY <3>0, RebuiltTrees
    <3>6. f[k + 1] = g[k + 1]
      BY <2>2
    <3> HIDE DEF f, g, x
    <3>7. f[k] = g[k]
      BY <3>1, <3>2, <3>3, <3>4, <3>5, <3>6, ChildFacts
    <3> QED BY <3>0, <3>7
  <2>3. 0 .. Len(p) \subseteq S
    <3> HIDE DEF S
    <3> QED BY <1>0, <2>1, <2>2, Downwards
  <2>4. f[0] = g[0]
    BY <2>3, <1>0
  <2> QED BY <2>4, RebuiltEnds
<1> QED BY <1>1, <1>2, <1>3, <1>4, <1>5

-----------------------------------------------------------------------------
(* Sequences with a part replaced *)

IsConcat(c, a, b) ==
  /\ Len(c) = Len(a) + Len(b)
  /\ \A k \in 1 .. Len(a) : c[k] = a[k]
  /\ \A k \in 1 .. Len(b) : c[Len(a) + k] = b[k]

IsSplice(b, a, i, n, new) ==
  /\ Len(b) = Len(a) - n + Len(new)
  /\ \A k \in 1 .. i : b[k] = a[k]
  /\ \A k \in 1 .. Len(new) : b[i + k] = new[k]
  /\ \A k \in i + n + 1 .. Len(a) : b[k - n + Len(new)] = a[k]

LEMMA ConcatFacts ==
  ASSUME NEW T, NEW a \in Seq(T), NEW b \in Seq(T)
  PROVE  a \o b \in Seq(T) /\ IsConcat(a \o b, a, b)
<1>1. /\ a \o b \in Seq(T) /\ Len(a \o b) = Len(a) + Len(b)
      /\ \A k \in 1 .. Len(a) + Len(b) :
           (a \o b)[k] = IF k <= Len(a) THEN a[k] ELSE b[k - Len(a)]
  BY ConcatProperties
<1> DEFINE c == a \o b
<1> HIDE DEF c
<1>2. \A k \in 1 .. Len(a) : c[k] = a[k]
  BY <1>1 DEF c
<1>3. ASSUME NEW k \in 1 .. Len(b) PROVE c[Len(a) + k] = b[k]
  <2>1. /\ Len(a) + k \in 1 .. Len(a) + Len(b) /\ ~(Len(a) + k <= Len(a))
        /\ (Len(a) + k) - Len(a) = k
    OBVIOUS
  <2> QED BY <2>1, <1>1 DEF c
<1> QED BY <1>1, <1>2, <1>3 DEF c, IsConcat

LEMMA SpliceFacts ==
  ASSUME NEW T, NEW a \in Seq(T), NEW i \in Nat, NEW n \in Nat, i + n <= Len(a),
         NEW new \in Seq(T)
  PROVE  Splice(a, i, n, new) \in Seq(T) /\ IsSplice(Splice(a, i, n, new), a, i, n, new)
<1> DEFINE x == SubSeq(a, 1, i)
           z == SubSeq(a, i + n + 1, Len(a))
<1>1. x \in Seq(T) /\ Len(x) = i /\ \A k \in 1 .. i : x[k] = a[k]
  OBVIOUS
<1>2. /\ z \in Seq(T) /\ Len(z) = Len(a) - i - n
      /\ \A k \in 1 .. Len(a) - i - n : z[k] = a[i + n + k]
  OBVIOUS
<1>3. Splice(a, i, n, new) = (x \o new) \o z
  BY DEF Splice, Prefix, Drop
<1> HIDE DEF x, z
<1> DEFINE y == x \o new
           q == y \o z
<1>4. y \in Seq(T) /\ IsConcat(y, x, new)
  BY <1>1, ConcatFacts
<1>5. q \in Seq(T) /\ IsConcat(q, y, z)
  <2> HIDE DEF y
  <2> QED BY <1>2, <1>4, ConcatFacts
<1> HIDE DEF y, q
<1>6. /\ Len(y) = i + Len(new) /\ Len(q) = Len(a) - n + Len(new)
      /\ Len(new) \in Nat /\ Len(a) \in Nat
  BY <1>1, <1>2, <1>4, <1>5 DEF IsConcat
<1>7. \A k \in 1 .. i : q[k] = a[k]
  BY <1>1, <1>4, <1>5, <1>6 DEF IsConcat
<1>8. ASSUME NEW k \in 1 .. Len(new) PROVE q[i + k] = new[k]
  <2>1. i + k \in 1 .. Len(y)
    BY <1>6
  <2> QED BY <2>1, <1>1, <1>4, <1>5 DEF IsConcat
<1>9. ASSUME NEW k \in i + n + 1 .. Len(a) PROVE q[k - n + Len(new)] = a[k]
  <2>1. k - i - n \in 1 .. Len(a) - i - n /\ Len(y) + (k - i - n) = k - n + Len(new)
        /\ i + n + (k - i - n) = k
    BY <1>6
  <2>2. q[Len(y) + (k - i - n)] = z[k - i - n]
    BY <2>1, <1>2, <1>5 DEF IsConcat
  <2>3. z[k - i - n] = a[i + n + (k - i - n)]
    BY <2>1, <1>2
  <2> QED BY <2>1, <2>2, <2>3
<1>10. Splice(a, i, n, new) = q
  BY <1>3 DEF q, y
<1> QED BY <1>5, <1>6, <1>7, <1>8, <1>9, <1>10 DEF IsSplice

(* The n elements after the first i.                                       *)
LEMMA Between ==
  ASSUME NEW T, NEW a \in Seq(T), NEW i \in Nat, NEW n \in Nat, i + n <= Len(a)
  PROVE  /\ SubSeq(a, i + 1, i + n) \in Seq(T) /\ Len(SubSeq(a, i + 1, i + n)) = n
         /\ \A k \in 1 .. n : SubSeq(a, i + 1, i + n)[k] = a[i + k]
<1>1. \A k \in i + 1 .. i + n : k \in 1 .. Len(a) /\ a[k] \in T
  OBVIOUS
<1>2. SubSeq(a, i + 1, i + n) = [k \in 1 .. n |-> a[i + k]]
  BY <1>1
<1>3. \A k \in 1 .. n : i + k \in i + 1 .. i + n
  OBVIOUS
<1> DEFINE f == [k \in 1 .. n |-> a[i + k]]
<1>4. f \in Seq(T) /\ Len(f) = n /\ \A k \in 1 .. n : f[k] = a[i + k]
  BY <1>1, <1>3
<1> HIDE DEF f
<1> QED BY <1>2, <1>4 DEF f

(* What was put in is there, and putting back what was taken out restores. *)
LEMMA SpliceBack ==
  ASSUME NEW T, NEW a \in Seq(T), NEW i \in Nat, NEW n \in Nat, i + n <= Len(a),
         NEW new \in Seq(T)
  PROVE  /\ SubSeq(a, i + 1, i + n) \in Seq(T) /\ Len(SubSeq(a, i + 1, i + n)) = n
         /\ SubSeq(Splice(a, i, n, new), i + 1, i + Len(new)) = new
         /\ Splice(Splice(a, i, n, new), i, Len(new), SubSeq(a, i + 1, i + n)) = a
<1> DEFINE b == Splice(a, i, n, new)
           old == SubSeq(a, i + 1, i + n)
           w == Len(new)
           c == Splice(b, i, w, old)
           m == SubSeq(b, i + 1, i + w)
<1>1. old \in Seq(T) /\ Len(old) = n /\ \A k \in 1 .. n : old[k] = a[i + k]
  BY Between
<1>2. b \in Seq(T) /\ IsSplice(b, a, i, n, new)
  BY SpliceFacts
<1>3. w \in Nat /\ Len(b) = Len(a) - n + w /\ i + w <= Len(b)
  BY <1>2 DEF IsSplice
<1> HIDE DEF b, old
<1>4. c \in Seq(T) /\ IsSplice(c, b, i, w, old)
  <2> HIDE DEF w
  <2> QED BY <1>1, <1>2, <1>3, SpliceFacts
<1>5. m = new
  <2>1. m \in Seq(T) /\ Len(m) = w /\ \A k \in 1 .. w : m[k] = b[i + k]
    <3>1. b \in Seq(T) /\ i + w <= Len(b) /\ w \in Nat
      BY <1>2, <1>3
    <3> HIDE DEF w
    <3> QED BY <3>1, Between
  <2> HIDE DEF m
  <2> QED BY <2>1, <1>2, SeqEqual DEF IsSplice
<1> HIDE DEF c, w, m
<1>6. ASSUME NEW k \in 1 .. Len(a) PROVE c[k] = a[k]
  <2>1. CASE k \in 1 .. i
    BY <2>1, <1>2, <1>4 DEF IsSplice
  <2>2. CASE k \in i + 1 .. i + n
    <3>1. k - i \in 1 .. n /\ i + (k - i) = k
      BY <2>2
    <3>2. c[i + (k - i)] = old[k - i]
      BY <3>1, <1>1, <1>4 DEF IsSplice
    <3>3. old[k - i] = a[i + (k - i)]
      BY <3>1, <1>1
    <3> QED BY <3>1, <3>2, <3>3
  <2>3. CASE k \in i + n + 1 .. Len(a)
    <3>1. /\ k - n + w \in i + w + 1 .. Len(b) /\ (k - n + w) - w + n = k
      BY <2>3, <1>3
    <3>2. b[k - n + w] = a[k]
      BY <2>3, <1>2 DEF IsSplice, w
    <3>3. c[(k - n + w) - w + n] = b[k - n + w]
      BY <3>1, <1>1, <1>4 DEF IsSplice
    <3> QED BY <3>1, <3>2, <3>3
  <2>4. k \in 1 .. i \/ k \in i + 1 .. i + n \/ k \in i + n + 1 .. Len(a)
    OBVIOUS
  <2> QED BY <2>1, <2>2, <2>3, <2>4
<1>7. c = a
  <2>1. Len(c) = Len(a)
    BY <1>1, <1>3, <1>4 DEF IsSplice
  <2> QED BY <2>1, <1>4, <1>6, SeqEqual
<1> QED BY <1>1, <1>5, <1>7 DEF b, old, c, w, m

-----------------------------------------------------------------------------
(* Modifications as the constructors make them: the path is long enough    *)
(* for the kind, and the label that assign_node sets is not "string".      *)

Kinds == {"assign", "insert", "remove", "split", "join",
          "assign_node", "insert_node", "remove_node", "set_cursor"}

Modification(T) ==
  {m \in [k : Kinds, p : Seq(Nat), t : T] :
     Len(m.p) >= Extra(m.k) /\ (m.k = "assign_node" => ~IsAtomic(m.t))}

LEMMA ModFacts ==
  ASSUME NEW T, NEW m \in Modification(T)
  PROVE  /\ m.k \in Kinds /\ m.p \in Seq(Nat) /\ m.t \in T /\ Root(m) \in Seq(Nat)
         /\ Extra(m.k) # 0 => Index(m) \in Nat /\ Argument(m) \in Nat
         /\ Extra(m.k) = 1 => Argument(m) = Index(m)
<1>1. /\ m.k \in Kinds /\ m.p \in Seq(Nat) /\ m.t \in T /\ Len(m.p) >= Extra(m.k)
  BY DEF Modification
<1>2. Extra(m.k) \in 0 .. 2
  BY DEF Extra
<1>3. /\ Root(m) \in Seq(Nat) /\ Len(Root(m)) = Len(m.p) - Extra(m.k)
  <2>1. Len(m.p) - Extra(m.k) \in 0 .. Len(m.p)
    BY <1>1, <1>2
  <2> QED BY <2>1, <1>1, PrefixFacts DEF Root
<1>4. /\ Extra(m.k) # 0 => Len(Root(m)) + 1 \in 1 .. Len(m.p) /\ Len(m.p) \in 1 .. Len(m.p)
      /\ Extra(m.k) = 1 => Len(Root(m)) + 1 = Len(m.p)
  BY <1>1, <1>2, <1>3
<1> QED BY <1>1, <1>3, <1>4 DEF Index, Argument

MadeAs(v, k, r, more, u) ==
  /\ v.k = k /\ v.t = u /\ Root(v) = r
  /\ Len(more) # 0 => Index(v) = more[1] /\ Argument(v) = more[Len(more)]

LEMMA MadeMod ==
  ASSUME NEW k, NEW r \in Seq(Nat), NEW more \in Seq(Nat), Len(more) = Extra(k), NEW u
  PROVE  MadeAs(Mod(k, r \o more, u), k, r, more, u)
<1> DEFINE p == r \o more
           v == Mod(k, p, u)
<1>1. p \in Seq(Nat) /\ IsConcat(p, r, more)
  BY ConcatFacts
<1>2. v.k = k /\ v.t = u /\ v.p = p
  BY DEF Mod
<1> HIDE DEF p, v
<1>3. Len(p) = Len(r) + Len(more) /\ Len(r) \in Nat /\ Len(more) \in Nat
  BY <1>1 DEF IsConcat
<1>4. Root(v) = r
  <2>1. Root(v) = Prefix(p, Len(r))
    BY <1>2, <1>3 DEF Root
  <2>2. /\ Prefix(p, Len(r)) \in Seq(Nat) /\ Len(Prefix(p, Len(r))) = Len(r)
        /\ \A i \in 1 .. Len(r) : Prefix(p, Len(r))[i] = p[i]
    <3>1. Len(r) \in 0 .. Len(p)
      BY <1>3
    <3> QED BY <3>1, <1>1, PrefixFacts
  <2>3. \A i \in 1 .. Len(r) : p[i] = r[i]
    BY <1>1 DEF IsConcat
  <2>4. Prefix(p, Len(r)) = r
    BY <2>2, <2>3, SeqEqual
  <2> QED BY <2>1, <2>4
<1>5. ASSUME Len(more) # 0
      PROVE  Index(v) = more[1] /\ Argument(v) = more[Len(more)]
  <2>1. 1 \in 1 .. Len(more) /\ Len(more) \in 1 .. Len(more)
    BY <1>3, <1>5
  <2>2. p[Len(r) + 1] = more[1] /\ p[Len(r) + Len(more)] = more[Len(more)]
    BY <2>1, <1>1 DEF IsConcat
  <2> QED BY <2>2, <1>2, <1>3, <1>4 DEF Index, Argument
<1> QED BY <1>2, <1>4, <1>5 DEF v, p, MadeAs

LEMMA Made0 ==
  ASSUME NEW k, Extra(k) = 0, NEW r \in Seq(Nat), NEW u
  PROVE  /\ Mod(k, r \o <<>>, u).k = k /\ Mod(k, r \o <<>>, u).t = u
         /\ Root(Mod(k, r \o <<>>, u)) = r
<1> DEFINE more == <<>>
<1>1. more \in Seq(Nat) /\ Len(more) = 0
  OBVIOUS
<1> HIDE DEF more
<1>2. MadeAs(Mod(k, r \o more, u), k, r, more, u)
  BY <1>1, MadeMod
<1> QED BY <1>1, <1>2 DEF more, MadeAs

LEMMA Made1 ==
  ASSUME NEW k, Extra(k) = 1, NEW r \in Seq(Nat), NEW i \in Nat, NEW u
  PROVE  /\ Mod(k, r \o <<i>>, u).k = k /\ Mod(k, r \o <<i>>, u).t = u
         /\ Root(Mod(k, r \o <<i>>, u)) = r
         /\ Index(Mod(k, r \o <<i>>, u)) = i /\ Argument(Mod(k, r \o <<i>>, u)) = i
<1> DEFINE more == <<i>>
<1>1. more \in Seq(Nat) /\ Len(more) = 1 /\ more[1] = i /\ Len(more) # 0 /\ more[Len(more)] = i
  OBVIOUS
<1> HIDE DEF more
<1>2. MadeAs(Mod(k, r \o more, u), k, r, more, u)
  BY <1>1, MadeMod
<1> QED BY <1>1, <1>2 DEF more, MadeAs

LEMMA Made2 ==
  ASSUME NEW k, Extra(k) = 2, NEW r \in Seq(Nat), NEW i \in Nat, NEW j \in Nat, NEW u
  PROVE  /\ Mod(k, r \o <<i, j>>, u).k = k /\ Mod(k, r \o <<i, j>>, u).t = u
         /\ Root(Mod(k, r \o <<i, j>>, u)) = r
         /\ Index(Mod(k, r \o <<i, j>>, u)) = i /\ Argument(Mod(k, r \o <<i, j>>, u)) = j
<1> DEFINE more == <<i, j>>
<1>1. more \in Seq(Nat) /\ Len(more) = 2 /\ more[1] = i /\ Len(more) # 0 /\ more[Len(more)] = j
  OBVIOUS
<1> HIDE DEF more
<1>2. MadeAs(Mod(k, r \o more, u), k, r, more, u)
  BY <1>1, MadeMod
<1> QED BY <1>1, <1>2 DEF more, MadeAs

(* The nodes just below s.                                                 *)
LEMMA ChildAt ==
  ASSUME NEW s, NEW i \in Nat
  PROVE  /\ HasSubTree(s, <<i>>) <=> ~IsAtomic(s) /\ i \in 0 .. Arity(s) - 1
         /\ SubTree(s, <<i>>) = s.arg[i + 1]
<1> DEFINE p == <<i>>
<1>1. p \in Seq(Nat) /\ Len(p) = 1 /\ p[1] = i
  OBVIOUS
<1> HIDE DEF p
<1>2. Along(s, p)[0] = s /\ SubTree(s, p) = Along(s, p)[1]
  <2>1. Along(s, p)[0] = s /\ SubTree(s, p) = Along(s, p)[Len(p)]
    BY <1>1, AlongFacts
  <2> QED BY <2>1, <1>1
<1>3. Along(s, p)[1] = Along(s, p)[0].arg[i + 1]
  <2>1. 1 \in 1 .. Len(p) /\ 1 - 1 = 0
    BY <1>1
  <2>2. Along(s, p)[1] = Along(s, p)[1 - 1].arg[p[1] + 1]
    BY <2>1, <1>1, AlongFacts
  <2> QED BY <2>1, <2>2, <1>1
<1>4. HasSubTree(s, p) <=> ~IsAtomic(s) /\ i \in 0 .. Arity(s) - 1
  <2>1. HasSubTree(s, p) <=>
           \A n \in 1 .. Len(p) :
             ~IsAtomic(Along(s, p)[n - 1]) /\ p[n] \in 0 .. Arity(Along(s, p)[n - 1]) - 1
    BY <1>1, HasSubTreeAlong, Zenon
  <2>2. \A n \in 1 .. Len(p) : n = 1 /\ n - 1 = 0
    BY <1>1
  <2>3. 1 \in 1 .. Len(p) /\ 1 - 1 = 0
    BY <1>1
  <2> QED BY <2>1, <2>2, <2>3, <1>1, <1>2
<1> QED BY <1>2, <1>3, <1>4 DEF p

(* What each kind of modification does to the node s at its root, and what *)
(* undoes it.                                                              *)
WithArg(s, as) == [s EXCEPT !.arg = as]

WithLabel(s, l) == [s EXCEPT !.op = l]

LEMMA WithArgNode ==
  ASSUME NEW s, NEW o, NEW a, s = Node(o, a), NEW as
  PROVE  WithArg(s, as) = Node(o, as)
<1> DEFINE x == [s EXCEPT !.arg = as]
<1>1. x.op = o /\ x.arg = as /\ DOMAIN x = {"op", "arg"} /\ x = [k \in DOMAIN x |-> x[k]]
  BY DEF Node
<1> HIDE DEF x
<1>2. x \in [op : {o}, arg : {as}]
  BY <1>1
<1>3. x = [op |-> o, arg |-> as]
  BY <1>2
<1> QED BY <1>3 DEF x, WithArg, Node

LEMMA WithLabelNode ==
  ASSUME NEW s, NEW o, NEW a, s = Node(o, a), NEW l
  PROVE  WithLabel(s, l) = Node(l, a)
<1> DEFINE x == [s EXCEPT !.op = l]
<1>1. x.op = l /\ x.arg = a /\ DOMAIN x = {"op", "arg"} /\ x = [k \in DOMAIN x |-> x[k]]
  BY DEF Node
<1> HIDE DEF x
<1>2. x \in [op : {l}, arg : {a}]
  BY <1>1
<1>3. x = [op |-> l, arg |-> a]
  BY <1>2
<1> QED BY <1>3 DEF x, WithLabel, Node

LEMMA Effects ==
  ASSUME NEW s, NEW m
  PROVE  /\ m.k = "assign" => ApplyAt(s, m) = m.t
         /\ m.k = "insert" => ApplyAt(s, m) = WithArg(s, Splice(s.arg, Index(m), 0, m.t.arg))
         /\ m.k = "remove" =>
              ApplyAt(s, m) = WithArg(s, Splice(s.arg, Index(m), Argument(m), <<>>))
         /\ m.k = "assign_node" => ApplyAt(s, m) = WithLabel(s, m.t.op)
         /\ m.k = "insert_node" =>
              ApplyAt(s, m) = WithArg(m.t, Splice(m.t.arg, Argument(m), 0, <<s>>))
         /\ m.k = "remove_node" => ApplyAt(s, m) = s.arg[Index(m) + 1]
         /\ m.k = "set_cursor" => ApplyAt(s, m) = s
BY DEF ApplyAt, WithArg, WithLabel

LEMMA SplitEffect ==
  ASSUME NEW s, NEW m, m.k = "split", NEW i, i = Index(m), NEW c, c = s.arg[i + 1]
  PROVE  ApplyAt(s, m) =
           WithArg(s, Splice(s.arg, i, 1, << WithArg(c, Prefix(c.arg, Argument(m))),
                                             WithArg(c, Drop(c.arg, Argument(m))) >>))
BY DEF ApplyAt, WithArg

LEMMA JoinEffect ==
  ASSUME NEW s, NEW m, m.k = "join", NEW i, i = Index(m),
         NEW c, c = s.arg[i + 1], NEW d, d = s.arg[i + 2]
  PROVE  ApplyAt(s, m) = WithArg(s, Splice(s.arg, i, 2, <<WithArg(c, c.arg \o d.arg)>>))
BY DEF ApplyAt, WithArg

LEMMA Inverses ==
  ASSUME NEW m, NEW t
  PROVE  /\ m.k = "assign" =>
              InvertMod(m, t) = Mod("assign", Root(m) \o <<>>, SubTree(t, Root(m)))
         /\ m.k = "insert" =>
              InvertMod(m, t) = Mod("remove", Root(m) \o <<Index(m), Arity(m.t)>>, EmptyTree)
         /\ m.k = "split" => InvertMod(m, t) = Mod("join", Root(m) \o <<Index(m)>>, EmptyTree)
         /\ m.k = "assign_node" =>
              InvertMod(m, t) =
                Mod("assign_node", Root(m) \o <<>>, Node(SubTree(t, Root(m)).op, <<>>))
         /\ m.k = "insert_node" =>
              InvertMod(m, t) = Mod("remove_node", Root(m) \o <<Argument(m)>>, EmptyTree)
         /\ m.k = "set_cursor" => InvertMod(m, t) = m
BY DEF InvertMod

LEMMA RemoveInverts ==
  ASSUME NEW m, NEW t, m.k = "remove", NEW s, s = SubTree(t, Root(m))
  PROVE  InvertMod(m, t) =
           Mod("insert", Root(m) \o <<Index(m)>>,
               WithArg(s, SubSeq(s.arg, Index(m) + 1, Index(m) + Argument(m))))
BY DEF InvertMod, WithArg

LEMMA JoinInverts ==
  ASSUME NEW m, NEW t, m.k = "join", NEW s, s = SubTree(t, Root(m))
  PROVE  InvertMod(m, t) =
           Mod("split", Root(m) \o <<Index(m), Arity(s.arg[Index(m) + 1])>>, EmptyTree)
BY DEF InvertMod

LEMMA RemoveNodeInverts ==
  ASSUME NEW m, NEW t, m.k = "remove_node", NEW s, s = SubTree(t, Root(m))
  PROVE  InvertMod(m, t) =
           Mod("insert_node", Root(m) \o <<Index(m)>>,
               WithArg(s, Splice(s.arg, Index(m), 1, <<>>)))
BY DEF InvertMod, WithArg

-----------------------------------------------------------------------------
(* The inverse of each kind of modification *)

(* m turns the node s at its root in t into r, the node there in x.        *)
Setting(T, t, x, m, s, r) ==
  /\ m \in Modification(T)
  /\ s = SubTree(t, Root(m)) /\ s \in T
  /\ r = ApplyAt(s, m) /\ (r \in T => r = SubTree(x, Root(m)))
  /\ CanApply(s, m)

(* The inverse v of m, and the inverse z of v, do what they should.        *)
Restores(T, t, x, m, s, r) ==
  LET v == InvertMod(m, t)
      z == InvertMod(v, x)
  IN  /\ r \in T
      /\ Root(v) = Root(m) /\ CanApply(r, v) /\ ApplyAt(r, v) = s
      /\ Root(z) = Root(m) /\ ApplyAt(s, z) = r
      /\ PossibleInverse(m, v)

LEMMA AssignInverse ==
  ASSUME NEW T, NEW t, NEW x, NEW m, NEW s, NEW r, Setting(T, t, x, m, s, r), m.k = "assign"
  PROVE  Restores(T, t, x, m, s, r)
<1>1. /\ m \in Modification(T) /\ s = SubTree(t, Root(m))
      /\ r = ApplyAt(s, m)
  BY DEF Setting
<1>2. m.t \in T /\ Root(m) \in Seq(Nat) /\ <<>> \in Seq(Nat) /\ Len(<<>>) = 0 /\ Extra("assign") = 0
  BY <1>1, ModFacts DEF Extra
<1> DEFINE v == Mod("assign", Root(m) \o <<>>, s)
           z == Mod("assign", Root(m) \o <<>>, r)
<1>3. v.k = "assign" /\ v.t = s /\ Root(v) = Root(m)
  BY <1>2, Made0
<1>4. z.k = "assign" /\ z.t = r /\ Root(z) = Root(m)
  BY <1>2, Made0
<1>5. InvertMod(m, t) = v
  BY <1>1, Inverses
<1> HIDE DEF v
<1>6. InvertMod(v, x) = z
  <2>1. InvertMod(v, x) = Mod("assign", Root(v) \o <<>>, SubTree(x, Root(v)))
    BY <1>3, Inverses
  <2>2. ApplyAt(s, m) = m.t
    BY Effects
  <2>3. r = SubTree(x, Root(m))
    BY <2>2, <1>1, <1>2 DEF Setting
  <2> QED BY <2>1, <2>3, <1>1, <1>3
<1> HIDE DEF z
<1>7. r = m.t /\ ApplyAt(r, v) = s /\ ApplyAt(s, z) = r
  <2>1. ApplyAt(s, m) = m.t
    BY Effects
  <2>2. ApplyAt(r, v) = v.t
    BY <1>3, Effects
  <2>3. ApplyAt(s, z) = z.t
    BY <1>4, Effects
  <2> QED BY <2>1, <2>2, <2>3, <1>1, <1>3, <1>4
<1>8. CanApply(r, v) /\ PossibleInverse(m, v)
  BY <1>3 DEF CanApply, PossibleInverse
<1> QED BY <1>2, <1>3, <1>4, <1>5, <1>6, <1>7, <1>8 DEF Restores

LEMMA SetCursorInverse ==
  ASSUME NEW T, NEW t, NEW x, NEW m, NEW s, NEW r, Setting(T, t, x, m, s, r),
         m.k = "set_cursor"
  PROVE  Restores(T, t, x, m, s, r)
<1>1. /\ r = ApplyAt(s, m) /\ CanApply(s, m) /\ s \in T
  BY DEF Setting
<1>2. r = s /\ ApplyAt(r, m) = s
  BY <1>1, Effects
<1>3. InvertMod(m, t) = m /\ InvertMod(m, x) = m
  BY Inverses
<1>4. PossibleInverse(m, m)
  BY DEF PossibleInverse
<1> QED BY <1>1, <1>2, <1>3, <1>4 DEF Restores

LEMMA AssignNodeInverse ==
  ASSUME NEW T, IsTrees(T),
         NEW t, NEW x, NEW m, NEW s, NEW r, Setting(T, t, x, m, s, r), m.k = "assign_node"
  PROVE  Restores(T, t, x, m, s, r)
<1>1. /\ m \in Modification(T) /\ s = SubTree(t, Root(m))
      /\ r = ApplyAt(s, m) /\ s \in T
  BY DEF Setting
<1>2. /\ m.t \in T /\ ~IsAtomic(m.t) /\ Root(m) \in Seq(Nat)
      /\ <<>> \in Seq(Nat) /\ Len(<<>>) = 0 /\ Extra("assign_node") = 0
  BY <1>1, ModFacts DEF Extra, Modification
<1>3. /\ s = Node(s.op, s.arg) /\ s.arg \in Seq(T)
      /\ \A as \in Seq(T) : Node(m.t.op, as) \in T
  BY <1>1, <1>2, NodeFacts
<1>4. r = Node(m.t.op, s.arg)
  <2>1. ApplyAt(s, m) = WithLabel(s, m.t.op)
    BY Effects
  <2> QED BY <2>1, <1>1, <1>3, WithLabelNode
<1>5. r \in T /\ r.op = m.t.op /\ r.arg = s.arg /\ ~IsAtomic(r)
  BY <1>2, <1>3, <1>4, NodeParts DEF IsAtomic
<1> DEFINE u == Node(s.op, <<>>)
           w == Node(r.op, <<>>)
           v == Mod("assign_node", Root(m) \o <<>>, u)
           z == Mod("assign_node", Root(m) \o <<>>, w)
<1>6. v.k = "assign_node" /\ v.t = u /\ Root(v) = Root(m)
  BY <1>2, Made0
<1>7. z.k = "assign_node" /\ z.t = w /\ Root(z) = Root(m)
  BY <1>2, Made0
<1>8. u.op = s.op /\ w.op = m.t.op
  BY <1>5, NodeParts
<1>9. InvertMod(m, t) = v
  BY <1>1, Inverses
<1> HIDE DEF v
<1>10. InvertMod(v, x) = z
  <2>1. InvertMod(v, x) = Mod("assign_node", Root(v) \o <<>>, Node(SubTree(x, Root(v)).op, <<>>))
    BY <1>6, Inverses
  <2>2. r = SubTree(x, Root(m))
    BY <1>5 DEF Setting
  <2> QED BY <2>1, <2>2, <1>6
<1> HIDE DEF z, u, w
<1>11. ApplyAt(r, v) = s
  <2>1. ApplyAt(r, v) = WithLabel(r, v.t.op)
    BY <1>6, Effects
  <2> QED BY <2>1, <1>3, <1>4, <1>6, <1>8, WithLabelNode
<1>12. ApplyAt(s, z) = r
  <2>1. ApplyAt(s, z) = WithLabel(s, z.t.op)
    BY <1>7, Effects
  <2> QED BY <2>1, <1>3, <1>4, <1>7, <1>8, WithLabelNode
<1>13. CanApply(r, v) /\ PossibleInverse(m, v)
  BY <1>5, <1>6 DEF CanApply, PossibleInverse
<1> QED BY <1>5, <1>6, <1>7, <1>9, <1>10, <1>11, <1>12, <1>13 DEF Restores

(* A part of the children of s is replaced, and put back.                  *)
Spliced(s, i, n, new) == WithArg(s, Splice(s.arg, i, n, new))

(* What is known of that: r is the new node, old the part replaced.        *)
Exchanged(T, s, i, n, new, r, old) ==
  /\ r \in T /\ r.op = s.op /\ IsAtomic(r) = IsAtomic(s)
  /\ r.arg = Splice(s.arg, i, n, new) /\ Arity(r) = Arity(s) - n + Len(new)
  /\ old \in Seq(T) /\ Len(old) = n
  /\ SubSeq(r.arg, i + 1, i + Len(new)) = new
  /\ Spliced(r, i, Len(new), old) = s

LEMMA SplicedFacts ==
  ASSUME NEW T, IsTrees(T), NEW s \in T, NEW i \in Nat, NEW n \in Nat,
         i + n <= Arity(s), NEW new \in Seq(T)
  PROVE  Exchanged(T, s, i, n, new, Spliced(s, i, n, new), SubSeq(s.arg, i + 1, i + n))
<1> DEFINE r == Spliced(s, i, n, new)
           old == SubSeq(s.arg, i + 1, i + n)
<1>1. /\ s.arg \in Seq(T) /\ s = Node(s.op, s.arg)
      /\ \A as \in Seq(T) : Node(s.op, as) \in T
  BY NodeFacts
<1> DEFINE b == Splice(s.arg, i, n, new)
<1>2. i + n <= Len(s.arg)
  BY DEF Arity
<1>3. b \in Seq(T) /\ Len(b) = Len(s.arg) - n + Len(new)
  <2>1. b \in Seq(T) /\ IsSplice(b, s.arg, i, n, new)
    BY <1>1, <1>2, SpliceFacts
  <2> HIDE DEF b
  <2> QED BY <2>1 DEF IsSplice
<1>4. /\ old \in Seq(T) /\ Len(old) = n
      /\ SubSeq(b, i + 1, i + Len(new)) = new
      /\ Splice(b, i, Len(new), old) = s.arg
  BY <1>1, <1>2, SpliceBack
<1> HIDE DEF b, old
<1>5. r = Node(s.op, b)
  BY <1>1, WithArgNode DEF Spliced, b
<1> HIDE DEF r
<1>6. r \in T /\ r.op = s.op /\ r.arg = b /\ IsAtomic(r) = IsAtomic(s)
  BY <1>1, <1>3, <1>5, NodeParts DEF IsAtomic
<1>7. Spliced(r, i, Len(new), old) = s
  <2>1. WithArg(r, s.arg) = Node(s.op, s.arg)
    BY <1>5, WithArgNode
  <2> QED BY <2>1, <1>1, <1>4, <1>6 DEF Spliced
<1>8. r.arg = Splice(s.arg, i, n, new) /\ Arity(r) = Arity(s) - n + Len(new)
  BY <1>3, <1>6 DEF b, Arity
<1>9. SubSeq(r.arg, i + 1, i + Len(new)) = new
  BY <1>4, <1>6
<1>10. Exchanged(T, s, i, n, new, r, old)
  BY <1>4, <1>6, <1>7, <1>8, <1>9 DEF Exchanged
<1> QED BY <1>10 DEF r, old

LEMMA InsertInverse ==
  ASSUME NEW T, IsTrees(T),
         NEW t, NEW x, NEW m, NEW s, NEW r, Setting(T, t, x, m, s, r), m.k = "insert"
  PROVE  Restores(T, t, x, m, s, r)
<1>1. /\ m \in Modification(T) /\ s = SubTree(t, Root(m))
      /\ r = ApplyAt(s, m) /\ s \in T /\ CanApply(s, m)
  BY DEF Setting
<1> DEFINE i == Index(m)
           new == m.t.arg
           n == Arity(m.t)
<1>2. m.t \in T /\ Root(m) \in Seq(Nat) /\ i \in Nat /\ Extra("insert") = 1 /\ Extra("remove") = 2
  BY <1>1, ModFacts DEF Extra
<1>3. i + 0 <= Arity(s)
  BY <1>1, <1>2 DEF CanApply
<1>4. new \in Seq(T) /\ n \in Nat /\ Len(new) = n /\ s.arg \in Seq(T)
  BY <1>1, <1>2, NodeFacts DEF Arity
<1>5. r = Spliced(s, i, 0, new)
  BY <1>1, Effects DEF Spliced
<1> DEFINE v == Mod("remove", Root(m) \o <<i, n>>, EmptyTree)
           u == WithArg(r, SubSeq(r.arg, i + 1, i + n))
           z == Mod("insert", Root(m) \o <<i>>, u)
<1>6. v.k = "remove" /\ Root(v) = Root(m) /\ Index(v) = i /\ Argument(v) = n
  <2> HIDE DEF i, n
  <2> QED BY <1>2, <1>4, Made2
<1>7. z.k = "insert" /\ z.t = u /\ Root(z) = Root(m) /\ Index(z) = i
  <2> HIDE DEF i, u
  <2> QED BY <1>2, Made1
<1>8. InvertMod(m, t) = v
  BY Inverses
<1> HIDE DEF v, i, new, n
<1> DEFINE old == SubSeq(s.arg, i + 1, i + 0)
<1>9. /\ r \in T /\ Arity(r) = Arity(s) - 0 + n
      /\ SubSeq(r.arg, i + 1, i + n) = new
      /\ Spliced(r, i, n, old) = s
      /\ old \in Seq(T) /\ Len(old) = 0
  <2>1. Exchanged(T, s, i, 0, new, r, old)
    BY <1>1, <1>2, <1>3, <1>4, <1>5, SplicedFacts
  <2> HIDE DEF old
  <2> QED BY <2>1, <1>4 DEF Exchanged
<1>10. InvertMod(v, x) = z
  <2>1. r = SubTree(x, Root(v))
    BY <1>6, <1>9 DEF Setting
  <2>2. InvertMod(v, x) = Mod("insert", Root(v) \o <<Index(v)>>,
                              WithArg(r, SubSeq(r.arg, Index(v) + 1, Index(v) + Argument(v))))
    BY <2>1, <1>6, RemoveInverts
  <2> QED BY <2>2, <1>6
<1> HIDE DEF z
<1>11. old = <<>>
  <2> HIDE DEF old
  <2> QED BY <1>9
<1>12. r = Node(r.op, r.arg) /\ u = Node(r.op, new)
  <2>1. r = Node(r.op, r.arg)
    BY <1>9, NodeFacts
  <2>2. WithArg(r, new) = Node(r.op, new)
    BY <2>1, WithArgNode
  <2> QED BY <2>1, <2>2, <1>9 DEF u
<1>13. u.arg = new
  BY <1>12, NodeParts
<1> HIDE DEF u, old
<1>14. ApplyAt(r, v) = s
  <2>1. ApplyAt(r, v) = Spliced(r, i, n, <<>>)
    BY <1>6, Effects DEF Spliced
  <2> QED BY <2>1, <1>9, <1>11
<1>15. ApplyAt(s, z) = r
  <2>1. ApplyAt(s, z) = Spliced(s, i, 0, u.arg)
    BY <1>7, Effects DEF Spliced
  <2> QED BY <2>1, <1>5, <1>13
<1>16. CanApply(r, v)
  <2>1. i >= 0 /\ i + n <= Arity(r)
    <3>1. Arity(s) \in Nat
      BY <1>1, NodeFacts
    <3> QED BY <3>1, <1>2, <1>3, <1>4, <1>9
  <2> QED BY <2>1, <1>6 DEF CanApply
<1>17. PossibleInverse(m, v)
  BY <1>6 DEF PossibleInverse, n
<1> QED BY <1>6, <1>7, <1>8, <1>10, <1>9, <1>14, <1>15, <1>16, <1>17 DEF Restores

LEMMA RemoveInverse ==
  ASSUME NEW T, IsTrees(T),
         NEW t, NEW x, NEW m, NEW s, NEW r, Setting(T, t, x, m, s, r), m.k = "remove"
  PROVE  Restores(T, t, x, m, s, r)
<1>1. /\ m \in Modification(T) /\ s = SubTree(t, Root(m))
      /\ r = ApplyAt(s, m) /\ s \in T /\ CanApply(s, m)
  BY DEF Setting
<1> DEFINE i == Index(m)
           n == Argument(m)
<1>2. /\ Root(m) \in Seq(Nat) /\ i \in Nat /\ n \in Nat
      /\ Extra("insert") = 1 /\ Extra("remove") = 2
  BY <1>1, ModFacts DEF Extra
<1>3. i + n <= Arity(s) /\ Arity(s) \in Nat /\ s = Node(s.op, s.arg)
  BY <1>1, NodeFacts DEF CanApply
<1>4. r = Spliced(s, i, n, <<>>)
  BY <1>1, Effects DEF Spliced
<1> DEFINE old == SubSeq(s.arg, i + 1, i + n)
           u == WithArg(s, old)
           v == Mod("insert", Root(m) \o <<i>>, u)
           z == Mod("remove", Root(m) \o <<i, n>>, EmptyTree)
<1>5. v.k = "insert" /\ v.t = u /\ Root(v) = Root(m) /\ Index(v) = i
  <2> HIDE DEF i, u
  <2> QED BY <1>2, Made1
<1>6. z.k = "remove" /\ Root(z) = Root(m) /\ Index(z) = i /\ Argument(z) = n
  <2> HIDE DEF i, n
  <2> QED BY <1>2, Made2
<1>7. InvertMod(m, t) = v
  BY <1>1, RemoveInverts
<1> HIDE DEF v, i, n, old
<1>8. Exchanged(T, s, i, n, <<>>, r, old)
  <2>1. <<>> \in Seq(T)
    OBVIOUS
  <2> QED BY <2>1, <1>1, <1>2, <1>3, <1>4, SplicedFacts DEF old
<1>9. u = Node(s.op, old)
  BY <1>3, WithArgNode
<1>10. u.arg = old /\ Arity(u) = n /\ IsAtomic(u) = IsAtomic(s)
  BY <1>8, <1>9, NodeParts DEF Exchanged, IsAtomic
<1> HIDE DEF u
<1>11. InvertMod(v, x) = z
  <2>1. InvertMod(v, x) = Mod("remove", Root(v) \o <<Index(v), Arity(v.t)>>, EmptyTree)
    BY <1>5, Inverses
  <2> QED BY <2>1, <1>5, <1>10
<1> HIDE DEF z
<1>12. ApplyAt(r, v) = s
  <2>1. ApplyAt(r, v) = Spliced(r, i, 0, u.arg)
    <3>1. ApplyAt(r, v) = WithArg(r, Splice(r.arg, Index(v), 0, v.t.arg))
      BY <1>5, Effects
    <3> QED BY <3>1, <1>5, Zenon DEF Spliced
  <2>2. Len(<<>>) = 0
    OBVIOUS
  <2> QED BY <2>1, <2>2, <1>8, <1>10 DEF Exchanged
<1>13. ApplyAt(s, z) = r
  BY <1>4, <1>6, Effects DEF Spliced
<1>14. CanApply(r, v)
  <2>1. i \in 0 .. Arity(r) /\ IsAtomic(r) = IsAtomic(u)
    BY <1>2, <1>3, <1>8, <1>10 DEF Exchanged
  <2> QED BY <2>1, <1>5 DEF CanApply
<1>15. PossibleInverse(m, v)
  BY <1>5, <1>10 DEF PossibleInverse, n
<1> QED BY <1>5, <1>6, <1>7, <1>8, <1>11, <1>12, <1>13, <1>14, <1>15 DEF Restores, Exchanged

LEMMA SubSeqFacts ==
  ASSUME NEW T, NEW a \in Seq(T), NEW i \in Nat
  PROVE  /\ i + 1 <= Len(a) => a[i + 1] \in T /\ SubSeq(a, i + 1, i + 1) = <<a[i + 1]>>
         /\ i + 2 <= Len(a) => /\ a[i + 1] \in T /\ a[i + 2] \in T
                               /\ SubSeq(a, i + 1, i + 2) = <<a[i + 1], a[i + 2]>>
<1>1. ASSUME i + 1 <= Len(a)
      PROVE  a[i + 1] \in T /\ SubSeq(a, i + 1, i + 1) = <<a[i + 1]>>
  <2> DEFINE b == SubSeq(a, i + 1, i + 1)
             c == <<a[i + 1]>>
  <2>1. a[i + 1] \in T
    BY <1>1
  <2>2. b \in Seq(T) /\ Len(b) = 1 /\ b[1] = a[i + 1]
    BY <1>1
  <2>3. c \in Seq(T) /\ Len(c) = 1 /\ c[1] = a[i + 1]
    BY <2>1
  <2> HIDE DEF b, c
  <2>4. Len(b) = Len(c) /\ \A k \in 1 .. Len(b) : b[k] = c[k]
    BY <2>2, <2>3
  <2>5. b = c
    BY <2>2, <2>3, <2>4, SeqEqual
  <2> QED BY <2>1, <2>5 DEF b, c
<1>2. ASSUME i + 2 <= Len(a)
      PROVE  /\ a[i + 1] \in T /\ a[i + 2] \in T
             /\ SubSeq(a, i + 1, i + 2) = <<a[i + 1], a[i + 2]>>
  <2> DEFINE b == SubSeq(a, i + 1, i + 2)
             c == <<a[i + 1], a[i + 2]>>
  <2>1. a[i + 1] \in T /\ a[i + 2] \in T
    BY <1>2
  <2>2. b \in Seq(T) /\ Len(b) = 2 /\ b[1] = a[i + 1] /\ b[2] = a[i + 2]
    BY <1>2
  <2>3. c \in Seq(T) /\ Len(c) = 2 /\ c[1] = a[i + 1] /\ c[2] = a[i + 2]
    BY <2>1
  <2> HIDE DEF b, c
  <2>4. Len(b) = Len(c) /\ \A k \in 1 .. Len(b) : b[k] = c[k]
    BY <2>2, <2>3
  <2>5. b = c
    BY <2>2, <2>3, <2>4, SeqEqual
  <2> QED BY <2>1, <2>5 DEF b, c
<1> QED BY <1>1, <1>2

LEMMA InsertNodeInverse ==
  ASSUME NEW T, IsTrees(T),
         NEW t, NEW x, NEW m, NEW s, NEW r, Setting(T, t, x, m, s, r), m.k = "insert_node"
  PROVE  Restores(T, t, x, m, s, r)
<1>1. /\ m \in Modification(T) /\ s = SubTree(t, Root(m))
      /\ r = ApplyAt(s, m) /\ s \in T /\ CanApply(s, m)
  BY DEF Setting
<1> DEFINE i == Argument(m)
<1>2. /\ Root(m) \in Seq(Nat) /\ i \in Nat /\ m.t \in T
      /\ Extra("insert_node") = 1 /\ Extra("remove_node") = 1
  BY <1>1, ModFacts DEF Extra
<1>3. ~IsAtomic(m.t) /\ i + 0 <= Arity(m.t) /\ Arity(m.t) \in Nat
  BY <1>1, <1>2, NodeFacts DEF CanApply
<1>4. r = Spliced(m.t, i, 0, <<s>>)
  BY <1>1, Effects DEF Spliced
<1> DEFINE v == Mod("remove_node", Root(m) \o <<i>>, EmptyTree)
           u == WithArg(r, Splice(r.arg, i, 1, <<>>))
           z == Mod("insert_node", Root(m) \o <<i>>, u)
<1>5. v.k = "remove_node" /\ Root(v) = Root(m) /\ Index(v) = i
  <2> HIDE DEF i
  <2> QED BY <1>2, Made1
<1>6. z.k = "insert_node" /\ z.t = u /\ Root(z) = Root(m) /\ Argument(z) = i
  <2> HIDE DEF i, u
  <2> QED BY <1>2, Made1
<1>7. InvertMod(m, t) = v
  BY Inverses
<1> HIDE DEF v, i
<1> DEFINE old == SubSeq(m.t.arg, i + 1, i + 0)
<1>8. Exchanged(T, m.t, i, 0, <<s>>, r, old)
  <2>1. <<s>> \in Seq(T)
    BY <1>1
  <2> QED BY <2>1, <1>1, <1>2, <1>3, <1>4, SplicedFacts
<1> HIDE DEF old
<1>9. /\ r \in T /\ IsAtomic(r) = IsAtomic(m.t) /\ Arity(r) = Arity(m.t) + 1 /\ old = <<>>
      /\ SubSeq(r.arg, i + 1, i + 1) = <<s>> /\ Spliced(r, i, 1, old) = m.t
  <2>1. Len(<<s>>) = 1
    OBVIOUS
  <2>2. \A q \in Seq(T) : Len(q) = 0 => q = <<>>
    OBVIOUS
  <2> QED BY <2>1, <2>2, <1>2, <1>3, <1>8 DEF Exchanged
<1>10. r.arg[i + 1] = s
  <2>1. r.arg \in Seq(T) /\ i + 1 <= Len(r.arg)
    BY <1>2, <1>3, <1>9, NodeFacts DEF Arity
  <2>2. SubSeq(r.arg, i + 1, i + 1) = <<r.arg[i + 1]>>
    BY <2>1, <1>2, SubSeqFacts
  <2> QED BY <2>2, <1>9
<1>11. InvertMod(v, x) = z
  <2>1. r = SubTree(x, Root(v))
    BY <1>5, <1>9 DEF Setting
  <2>2. InvertMod(v, x) = Mod("insert_node", Root(v) \o <<Index(v)>>,
                              WithArg(r, Splice(r.arg, Index(v), 1, <<>>)))
    BY <2>1, <1>5, RemoveNodeInverts
  <2> QED BY <2>2, <1>5
<1>12. u = m.t
  BY <1>9 DEF Spliced
<1> HIDE DEF z, u
<1>13. ApplyAt(r, v) = s
  BY <1>5, <1>10, Effects
<1>14. ApplyAt(s, z) = r
  BY <1>4, <1>6, <1>12, Effects DEF Spliced
<1>15. CanApply(r, v)
  <2>1. i \in 0 .. Arity(r) - 1 /\ ~IsAtomic(r)
    BY <1>2, <1>3, <1>9
  <2>2. HasSubTree(r, <<i>>)
    BY <2>1, <1>2, ChildAt
  <2> QED BY <2>2, <1>5 DEF CanApply
<1>16. PossibleInverse(m, v)
  BY <1>5 DEF PossibleInverse, i
<1> QED BY <1>5, <1>6, <1>7, <1>9, <1>11, <1>13, <1>14, <1>15, <1>16 DEF Restores

LEMMA RemoveNodeInverse ==
  ASSUME NEW T, IsTrees(T),
         NEW t, NEW x, NEW m, NEW s, NEW r, Setting(T, t, x, m, s, r), m.k = "remove_node"
  PROVE  Restores(T, t, x, m, s, r)
<1>1. /\ m \in Modification(T) /\ s = SubTree(t, Root(m))
      /\ r = ApplyAt(s, m) /\ s \in T /\ CanApply(s, m)
  BY DEF Setting
<1> DEFINE i == Index(m)
<1>2. /\ Root(m) \in Seq(Nat) /\ i \in Nat
      /\ Extra("insert_node") = 1 /\ Extra("remove_node") = 1
  BY <1>1, ModFacts DEF Extra
<1>3. ~IsAtomic(s) /\ i + 1 <= Arity(s) /\ Arity(s) \in Nat /\ s.arg \in Seq(T)
  <2>1. HasSubTree(s, <<i>>)
    BY <1>1 DEF CanApply
  <2> HIDE DEF i
  <2> QED BY <2>1, <1>1, <1>2, ChildAt, NodeFacts
<1>4. r = s.arg[i + 1]
  BY <1>1, Effects
<1> DEFINE u == WithArg(s, Splice(s.arg, i, 1, <<>>))
           v == Mod("insert_node", Root(m) \o <<i>>, u)
           z == Mod("remove_node", Root(m) \o <<i>>, EmptyTree)
<1>5. v.k = "insert_node" /\ v.t = u /\ Root(v) = Root(m) /\ Argument(v) = i
  <2> HIDE DEF i, u
  <2> QED BY <1>2, Made1
<1>6. z.k = "remove_node" /\ Root(z) = Root(m) /\ Index(z) = i
  <2> HIDE DEF i
  <2> QED BY <1>2, Made1
<1>7. InvertMod(m, t) = v
  BY <1>1, RemoveNodeInverts
<1> HIDE DEF v, i
<1> DEFINE old == SubSeq(s.arg, i + 1, i + 1)
<1>8. Exchanged(T, s, i, 1, <<>>, u, old)
  <2>1. <<>> \in Seq(T) /\ 1 \in Nat
    OBVIOUS
  <2>2. Exchanged(T, s, i, 1, <<>>, Spliced(s, i, 1, <<>>), SubSeq(s.arg, i + 1, i + 1))
    BY <2>1, <1>1, <1>2, <1>3, SplicedFacts
  <2> QED BY <2>2 DEF Spliced
<1>9. old = <<r>> /\ r \in T
  <2>1. i + 1 <= Len(s.arg)
    BY <1>3 DEF Arity
  <2> QED BY <2>1, <1>2, <1>3, <1>4, SubSeqFacts
<1> HIDE DEF old, u
<1>10. /\ u \in T /\ IsAtomic(u) = IsAtomic(s) /\ Arity(u) = Arity(s) - 1
       /\ Spliced(u, i, 0, <<r>>) = s
  <2>1. Len(<<>>) = 0
    OBVIOUS
  <2> QED BY <2>1, <1>3, <1>8, <1>9 DEF Exchanged
<1>11. InvertMod(v, x) = z
  <2>1. InvertMod(v, x) = Mod("remove_node", Root(v) \o <<Argument(v)>>, EmptyTree)
    BY <1>5, Inverses
  <2> QED BY <2>1, <1>5
<1> HIDE DEF z
<1>12. ApplyAt(r, v) = s
  BY <1>5, <1>10, Effects DEF Spliced
<1>13. ApplyAt(s, z) = r
  BY <1>4, <1>6, Effects
<1>14. CanApply(r, v)
  <2>1. i \in 0 .. Arity(u) /\ ~IsAtomic(u)
    BY <1>2, <1>3, <1>10
  <2> QED BY <2>1, <1>5 DEF CanApply
<1>15. PossibleInverse(m, v)
  BY <1>5 DEF PossibleInverse, i
<1> QED BY <1>5, <1>6, <1>7, <1>9, <1>11, <1>12, <1>13, <1>14, <1>15 DEF Restores

(* A sequence cut in two, and two sequences put together.                  *)
LEMMA CutFacts ==
  ASSUME NEW T, NEW a \in Seq(T), NEW j \in 0 .. Len(a)
  PROVE  /\ Prefix(a, j) \in Seq(T) /\ Len(Prefix(a, j)) = j /\ Drop(a, j) \in Seq(T)
         /\ Prefix(a, j) \o Drop(a, j) = a
<1> DEFINE x == SubSeq(a, 1, j)
           y == SubSeq(a, j + 1, Len(a))
           c == x \o y
<1>1. x \in Seq(T) /\ Len(x) = j /\ \A k \in 1 .. j : x[k] = a[k]
  OBVIOUS
<1>2. y \in Seq(T) /\ Len(y) = Len(a) - j /\ \A k \in 1 .. Len(a) - j : y[k] = a[j + k]
  OBVIOUS
<1> HIDE DEF x, y
<1>3. c \in Seq(T) /\ IsConcat(c, x, y)
  BY <1>1, <1>2, ConcatFacts
<1> HIDE DEF c
<1>4. Len(c) = Len(a)
  BY <1>1, <1>2, <1>3 DEF IsConcat
<1>5. ASSUME NEW k \in 1 .. Len(a) PROVE c[k] = a[k]
  <2>1. CASE k \in 1 .. j
    BY <2>1, <1>1, <1>3 DEF IsConcat
  <2>2. CASE k \in j + 1 .. Len(a)
    <3>1. k - j \in 1 .. Len(a) - j /\ j + (k - j) = k
      BY <2>2
    <3>2. c[j + (k - j)] = y[k - j]
      BY <3>1, <1>1, <1>2, <1>3 DEF IsConcat
    <3>3. y[k - j] = a[j + (k - j)]
      BY <3>1, <1>2
    <3> QED BY <3>1, <3>2, <3>3
  <2>3. k \in 1 .. j \/ k \in j + 1 .. Len(a)
    OBVIOUS
  <2> QED BY <2>1, <2>2, <2>3
<1>6. c = a
  BY <1>3, <1>4, <1>5, SeqEqual
<1> QED BY <1>1, <1>2, <1>6 DEF x, y, c, Prefix, Drop

LEMMA GlueFacts ==
  ASSUME NEW T, NEW a \in Seq(T), NEW b \in Seq(T)
  PROVE  /\ a \o b \in Seq(T) /\ Len(a) \in 0 .. Len(a \o b)
         /\ Prefix(a \o b, Len(a)) = a /\ Drop(a \o b, Len(a)) = b
<1> DEFINE c == a \o b
           x == SubSeq(c, 1, Len(a))
           y == SubSeq(c, Len(a) + 1, Len(c))
<1>1. c \in Seq(T) /\ IsConcat(c, a, b)
  BY ConcatFacts
<1> HIDE DEF c
<1>2. Len(c) = Len(a) + Len(b) /\ Len(a) \in Nat /\ Len(b) \in Nat /\ Len(a) \in 0 .. Len(c)
  BY <1>1 DEF IsConcat
<1>3. x \in Seq(T) /\ Len(x) = Len(a) /\ \A k \in 1 .. Len(a) : x[k] = c[k]
  BY <1>1, <1>2
<1>4. y \in Seq(T) /\ Len(y) = Len(b) /\ \A k \in 1 .. Len(b) : y[k] = c[Len(a) + k]
  BY <1>1, <1>2
<1> HIDE DEF x, y
<1>5. x = a
  <2>1. \A k \in 1 .. Len(x) : x[k] = a[k]
    BY <1>1, <1>3 DEF IsConcat
  <2> QED BY <2>1, <1>3, SeqEqual
<1>6. y = b
  <2>1. \A k \in 1 .. Len(y) : y[k] = b[k]
    BY <1>1, <1>4 DEF IsConcat
  <2> QED BY <2>1, <1>4, SeqEqual
<1>7. a \o b = c /\ Prefix(c, Len(a)) = x /\ Drop(c, Len(a)) = y
  BY DEF c, x, y, Prefix, Drop
<1> QED BY <1>1, <1>2, <1>5, <1>6, <1>7

LEMMA SplitInverse ==
  ASSUME NEW T, IsTrees(T),
         NEW t, NEW x, NEW m, NEW s, NEW r, Setting(T, t, x, m, s, r), m.k = "split"
  PROVE  Restores(T, t, x, m, s, r)
<1>1. /\ m \in Modification(T) /\ s = SubTree(t, Root(m))
      /\ r = ApplyAt(s, m) /\ s \in T /\ CanApply(s, m)
  BY DEF Setting
<1> DEFINE i == Index(m)
           j == Argument(m)
           c == s.arg[i + 1]
<1>2. /\ Root(m) \in Seq(Nat) /\ i \in Nat /\ j \in Nat
      /\ Extra("split") = 2 /\ Extra("join") = 1
  BY <1>1, ModFacts DEF Extra
<1>3. /\ ~IsAtomic(s) /\ i + 1 <= Arity(s) /\ Arity(s) \in Nat /\ s.arg \in Seq(T)
      /\ c \in T /\ j \in 0 .. Arity(c)
  <2>1. HasSubTree(s, <<i>>) /\ j \in 0 .. Arity(SubTree(s, <<i>>))
    BY <1>1 DEF CanApply
  <2>2. SubTree(s, <<i>>) = s.arg[i + 1] /\ ~IsAtomic(s) /\ i \in 0 .. Arity(s) - 1
    <3> HIDE DEF i
    <3> QED BY <2>1, <1>2, ChildAt
  <2>3. s.arg \in Seq(T) /\ Arity(s) \in Nat
    BY <1>1, NodeFacts
  <2> QED BY <2>1, <2>2, <2>3 DEF Arity
<1> DEFINE c1 == WithArg(c, Prefix(c.arg, j))
           c2 == WithArg(c, Drop(c.arg, j))
           new == <<c1, c2>>
           old == SubSeq(s.arg, i + 1, i + 1)
           v == Mod("join", Root(m) \o <<i>>, EmptyTree)
           z == Mod("split", Root(m) \o <<i, j>>, EmptyTree)
<1>4. r = Spliced(s, i, 1, new)
  BY <1>1, SplitEffect DEF Spliced
<1>5. v.k = "join" /\ Root(v) = Root(m) /\ Index(v) = i
  <2> HIDE DEF i
  <2> QED BY <1>2, Made1
<1>6. z.k = "split" /\ Root(z) = Root(m) /\ Index(z) = i /\ Argument(z) = j
  <2> HIDE DEF i, j
  <2> QED BY <1>2, Made2
<1>7. InvertMod(m, t) = v
  BY Inverses
<1>8. ApplyAt(s, z) = r
  <2> HIDE DEF z, i, j
  <2>1. ApplyAt(s, z) = WithArg(s, Splice(s.arg, i, 1, << WithArg(c, Prefix(c.arg, Argument(z))),
                                                        WithArg(c, Drop(c.arg, Argument(z))) >>))
    BY <1>6, SplitEffect
  <2> QED BY <2>1, <1>4, <1>6 DEF Spliced
<1> HIDE DEF v, i, j, c
<1>9. /\ c.arg \in Seq(T) /\ c = Node(c.op, c.arg) /\ j \in 0 .. Len(c.arg)
      /\ \A as \in Seq(T) : Node(c.op, as) \in T
  BY <1>3, NodeFacts DEF Arity
<1>10. /\ Prefix(c.arg, j) \in Seq(T) /\ Len(Prefix(c.arg, j)) = j /\ Drop(c.arg, j) \in Seq(T)
       /\ Prefix(c.arg, j) \o Drop(c.arg, j) = c.arg
  BY <1>9, CutFacts
<1>11. c1 = Node(c.op, Prefix(c.arg, j)) /\ c2 = Node(c.op, Drop(c.arg, j))
  BY <1>9, WithArgNode
<1>12. /\ c1 \in T /\ c2 \in T /\ Arity(c1) = j /\ IsAtomic(c1) = IsAtomic(c2)
       /\ c1.arg \o c2.arg = c.arg /\ WithArg(c1, c.arg) = c
  <2>1. WithArg(c1, c.arg) = Node(c.op, c.arg)
    BY <1>11, WithArgNode
  <2> DEFINE a == Prefix(c.arg, j)
             b == Drop(c.arg, j)
  <2>2. /\ c1 = Node(c.op, a) /\ c2 = Node(c.op, b) /\ a \in Seq(T) /\ b \in Seq(T)
        /\ Len(a) = j /\ a \o b = c.arg
    BY <1>10, <1>11
  <2> HIDE DEF c1, c2, a, b
  <2>3. c1 \in T /\ c2 \in T
    BY <2>2, <1>9
  <2>4. Arity(c1) = j /\ IsAtomic(c1) = IsAtomic(c2) /\ c1.arg = a /\ c2.arg = b
    BY <2>2, NodeParts
  <2> QED BY <2>1, <2>2, <2>3, <2>4, <1>9
<1> HIDE DEF c1, c2
<1>13. new \in Seq(T) /\ Len(new) = 2 /\ new[1] = c1 /\ new[2] = c2
  BY <1>12
<1> HIDE DEF new, old
<1>14. Exchanged(T, s, i, 1, new, r, old)
  <2>1. 1 \in Nat
    OBVIOUS
  <2> QED BY <2>1, <1>1, <1>2, <1>3, <1>4, <1>13, SplicedFacts DEF old
<1>15. old = <<c>>
  <2>1. i + 1 <= Len(s.arg)
    BY <1>3 DEF Arity
  <2> QED BY <2>1, <1>2, <1>3, SubSeqFacts DEF c, old
<1>16. /\ r \in T /\ IsAtomic(r) = IsAtomic(s) /\ Arity(r) = Arity(s) + 1
       /\ Spliced(r, i, 2, <<c>>) = s /\ SubSeq(r.arg, i + 1, i + 2) = new
  BY <1>3, <1>13, <1>14, <1>15 DEF Exchanged
<1>17. r.arg[i + 1] = c1 /\ r.arg[i + 2] = c2
  <2>1. r.arg \in Seq(T) /\ i + 2 <= Len(r.arg)
    BY <1>2, <1>3, <1>16, NodeFacts DEF Arity
  <2> DEFINE f == r.arg[i + 1]
             g == r.arg[i + 2]
  <2>2. SubSeq(r.arg, i + 1, i + 2) = <<f, g>>
    BY <2>1, <1>2, SubSeqFacts
  <2> HIDE DEF f, g
  <2>3. new = <<f, g>>
    BY <2>2, <1>16
  <2>4. f = c1 /\ g = c2
    BY <2>3, <1>13
  <2> QED BY <2>4 DEF f, g
<1>18. InvertMod(v, x) = z
  <2>1. r = SubTree(x, Root(v))
    BY <1>5, <1>16 DEF Setting
  <2>2. InvertMod(v, x) = Mod("split", Root(v) \o <<Index(v), Arity(r.arg[Index(v) + 1])>>, EmptyTree)
    BY <2>1, <1>5, JoinInverts
  <2> QED BY <2>2, <1>5, <1>12, <1>17
<1> HIDE DEF z
<1>19. ApplyAt(r, v) = s
  <2>1. ApplyAt(r, v) = WithArg(r, Splice(r.arg, i, 2, <<WithArg(c1, c1.arg \o c2.arg)>>))
    BY <1>5, <1>17, JoinEffect
  <2> QED BY <2>1, <1>12, <1>16 DEF Spliced
<1>20. CanApply(r, v)
  <2>1. i \in 0 .. Arity(r) - 1 /\ i + 1 \in 0 .. Arity(r) - 1 /\ ~IsAtomic(r) /\ i + 1 \in Nat
        /\ (i + 1) + 1 = i + 2
    BY <1>2, <1>3, <1>16
  <2>2. HasSubTree(r, <<i>>) /\ SubTree(r, <<i>>) = c1
    BY <2>1, <1>2, <1>17, ChildAt
  <2>3. HasSubTree(r, <<i + 1>>) /\ SubTree(r, <<i + 1>>) = c2
    <3>1. HasSubTree(r, <<i + 1>>) /\ SubTree(r, <<i + 1>>) = r.arg[(i + 1) + 1]
      BY <2>1, ChildAt
    <3> QED BY <3>1, <2>1, <1>17
  <2> QED BY <2>2, <2>3, <1>5, <1>12 DEF CanApply
<1>21. PossibleInverse(m, v)
  BY <1>5 DEF PossibleInverse, i
<1> QED BY <1>5, <1>6, <1>7, <1>8, <1>16, <1>18, <1>19, <1>20, <1>21 DEF Restores

LEMMA JoinInverse ==
  ASSUME NEW T, IsTrees(T),
         NEW t, NEW x, NEW m, NEW s, NEW r, Setting(T, t, x, m, s, r), m.k = "join",
         s.arg[Index(m) + 1].op = s.arg[Index(m) + 2].op
  PROVE  Restores(T, t, x, m, s, r)
<1>1. /\ m \in Modification(T) /\ s = SubTree(t, Root(m))
      /\ r = ApplyAt(s, m) /\ s \in T /\ CanApply(s, m)
  BY DEF Setting
<1> DEFINE i == Index(m)
           c == s.arg[i + 1]
           d == s.arg[i + 2]
           j == Arity(c)
<1>2. /\ Root(m) \in Seq(Nat) /\ i \in Nat /\ Extra("split") = 2 /\ Extra("join") = 1
  BY <1>1, ModFacts DEF Extra
<1>3. /\ ~IsAtomic(s) /\ i + 2 <= Arity(s) /\ Arity(s) \in Nat /\ s.arg \in Seq(T)
      /\ c \in T /\ d \in T
  <2>1. HasSubTree(s, <<i + 1>>)
    BY <1>1 DEF CanApply
  <2>2. ~IsAtomic(s) /\ i + 1 \in 0 .. Arity(s) - 1
    <3>1. i + 1 \in Nat
      BY <1>2
    <3> HIDE DEF i
    <3> QED BY <2>1, <3>1, ChildAt
  <2>3. s.arg \in Seq(T) /\ Arity(s) \in Nat
    BY <1>1, NodeFacts
  <2> QED BY <2>2, <2>3, <1>2 DEF Arity
<1> DEFINE e == WithArg(c, c.arg \o d.arg)
           new == <<e>>
           old == SubSeq(s.arg, i + 1, i + 2)
           v == Mod("split", Root(m) \o <<i, j>>, EmptyTree)
           z == Mod("join", Root(m) \o <<i>>, EmptyTree)
<1>4. r = Spliced(s, i, 2, new)
  BY <1>1, JoinEffect DEF Spliced
<1>n. j \in Nat
  BY <1>3, NodeFacts
<1>5. v.k = "split" /\ Root(v) = Root(m) /\ Index(v) = i /\ Argument(v) = j
  <2> HIDE DEF i, j
  <2> QED BY <1>2, <1>n, Made2
<1>6. z.k = "join" /\ Root(z) = Root(m) /\ Index(z) = i
  <2> HIDE DEF i
  <2> QED BY <1>2, Made1
<1>7. InvertMod(m, t) = v
  BY <1>1, JoinInverts
<1>8. ApplyAt(s, z) = r
  <2> HIDE DEF z, i
  <2>1. ApplyAt(s, z) = WithArg(s, Splice(s.arg, i, 2, <<WithArg(c, c.arg \o d.arg)>>))
    BY <1>6, JoinEffect
  <2> QED BY <2>1, <1>4 DEF Spliced
<1>o. c.op = d.op
  OBVIOUS
<1> HIDE DEF v, i, c, d
<1>9. /\ c.arg \in Seq(T) /\ c = Node(c.op, c.arg) /\ j = Len(c.arg)
      /\ d.arg \in Seq(T) /\ d = Node(c.op, d.arg)
      /\ \A as \in Seq(T) : Node(c.op, as) \in T
  BY <1>3, <1>o, NodeFacts DEF Arity
<1> HIDE DEF j
<1>10. /\ c.arg \o d.arg \in Seq(T) /\ j \in 0 .. Len(c.arg \o d.arg)
       /\ Prefix(c.arg \o d.arg, j) = c.arg /\ Drop(c.arg \o d.arg, j) = d.arg
  <2> DEFINE a == c.arg
             b == d.arg
  <2>1. a \in Seq(T) /\ b \in Seq(T) /\ j = Len(a)
    BY <1>9
  <2> HIDE DEF a, b
  <2>2. /\ a \o b \in Seq(T) /\ Len(a) \in 0 .. Len(a \o b)
        /\ Prefix(a \o b, Len(a)) = a /\ Drop(a \o b, Len(a)) = b
    BY <2>1, GlueFacts
  <2>3. /\ a \o b \in Seq(T) /\ j \in 0 .. Len(a \o b)
        /\ Prefix(a \o b, j) = a /\ Drop(a \o b, j) = b
    BY <2>1, <2>2
  <2> QED BY <2>3 DEF a, b
<1>11. e = Node(c.op, c.arg \o d.arg)
  BY <1>9, WithArgNode
<1>12. /\ e \in T /\ j \in 0 .. Arity(e) /\ e.arg = c.arg \o d.arg
       /\ WithArg(e, c.arg) = c /\ WithArg(e, d.arg) = d
  <2>1. WithArg(e, c.arg) = Node(c.op, c.arg) /\ WithArg(e, d.arg) = Node(c.op, d.arg)
    BY <1>11, WithArgNode
  <2> DEFINE a == c.arg \o d.arg
  <2>2. e = Node(c.op, a) /\ a \in Seq(T) /\ j \in 0 .. Len(a)
    BY <1>10, <1>11
  <2> HIDE DEF e, a
  <2>3. e \in T /\ e.arg = a /\ Arity(e) = Len(a)
    BY <2>2, <1>9, NodeParts
  <2> QED BY <2>1, <2>2, <2>3, <1>9 DEF a
<1> HIDE DEF e
<1>13. new \in Seq(T) /\ Len(new) = 1 /\ new[1] = e
  BY <1>12
<1> HIDE DEF new, old
<1>14. Exchanged(T, s, i, 2, new, r, old)
  <2>1. 2 \in Nat
    OBVIOUS
  <2> QED BY <2>1, <1>1, <1>2, <1>3, <1>4, <1>13, SplicedFacts DEF old
<1>15. old = <<c, d>>
  <2>1. i + 2 <= Len(s.arg)
    BY <1>3 DEF Arity
  <2> QED BY <2>1, <1>2, <1>3, SubSeqFacts DEF c, d, old
<1>16. /\ r \in T /\ IsAtomic(r) = IsAtomic(s) /\ Arity(r) = Arity(s) - 1
       /\ Spliced(r, i, 1, <<c, d>>) = s /\ SubSeq(r.arg, i + 1, i + 1) = new
  BY <1>3, <1>13, <1>14, <1>15 DEF Exchanged
<1>17. r.arg[i + 1] = e
  <2>1. r.arg \in Seq(T) /\ Arity(r) = Len(r.arg)
    BY <1>16, NodeFacts DEF Arity
  <2>2. i + 1 <= Len(r.arg)
    BY <2>1, <1>2, <1>3, <1>16
  <2> DEFINE f == r.arg[i + 1]
  <2>3. SubSeq(r.arg, i + 1, i + 1) = <<f>>
    BY <2>1, <2>2, <1>2, SubSeqFacts
  <2> HIDE DEF f
  <2>4. new = <<f>>
    BY <2>3, <1>16
  <2>5. f = e
    BY <2>4, <1>13
  <2> QED BY <2>5 DEF f
<1>18. InvertMod(v, x) = z
  <2>1. InvertMod(v, x) = Mod("join", Root(v) \o <<Index(v)>>, EmptyTree)
    BY <1>5, Inverses
  <2> QED BY <2>1, <1>5
<1> HIDE DEF z
<1>19. ApplyAt(r, v) = s
  <2>1. ApplyAt(r, v) =
          WithArg(r, Splice(r.arg, i, 1, << WithArg(e, Prefix(e.arg, Argument(v))),
                                            WithArg(e, Drop(e.arg, Argument(v))) >>))
    BY <1>5, <1>17, SplitEffect
  <2> QED BY <2>1, <1>5, <1>10, <1>12, <1>16 DEF Spliced
<1>20. CanApply(r, v)
  <2>1. i \in 0 .. Arity(r) - 1 /\ ~IsAtomic(r)
    BY <1>2, <1>3, <1>16
  <2>2. HasSubTree(r, <<i>>) /\ SubTree(r, <<i>>) = e
    BY <2>1, <1>2, <1>17, ChildAt
  <2> QED BY <2>2, <1>5, <1>12 DEF CanApply
<1>21. PossibleInverse(m, v)
  BY <1>5 DEF PossibleInverse, i
<1> QED BY <1>5, <1>6, <1>7, <1>8, <1>16, <1>18, <1>19, <1>20, <1>21 DEF Restores

-----------------------------------------------------------------------------
(* The promise of invert, for one modification of one document             *)

LosesLabelAt(m, s) ==
  m.k = "join" /\ s.arg[Index(m) + 1].op # s.arg[Index(m) + 2].op

LEMMA EachKind ==
  ASSUME NEW T, IsTrees(T),
         NEW t, NEW x, NEW m, NEW s, NEW r, Setting(T, t, x, m, s, r), ~LosesLabelAt(m, s)
  PROVE  Restores(T, t, x, m, s, r)
<1>1. m.k \in Kinds
  BY ModFacts DEF Setting
<1> QED BY <1>1, AssignInverse, InsertInverse, RemoveInverse, SplitInverse, JoinInverse,
           AssignNodeInverse, InsertNodeInverse, RemoveNodeInverse, SetCursorInverse
        DEF Kinds, LosesLabelAt

(* Whatever its kind, a modification makes trees of trees.                 *)
LEMMA JoinInTrees ==
  ASSUME NEW T, IsTrees(T), NEW s \in T, NEW m \in Modification(T), m.k = "join",
         CanApply(s, m)
  PROVE  ApplyAt(s, m) \in T
<1> DEFINE i == Index(m)
           c == s.arg[i + 1]
           d == s.arg[i + 2]
           e == WithArg(c, c.arg \o d.arg)
<1>1. i \in Nat
  BY ModFacts DEF Extra
<1>2. s.arg \in Seq(T) /\ Arity(s) \in Nat
  BY NodeFacts
<1>3. i + 1 \in 0 .. Arity(s) - 1
  <2>1. HasSubTree(s, <<i + 1>>) /\ i + 1 \in Nat
    BY <1>1 DEF CanApply
  <2> HIDE DEF i
  <2> QED BY <2>1, ChildAt
<1>4. i + 2 <= Arity(s) /\ c \in T /\ d \in T
  BY <1>1, <1>2, <1>3 DEF Arity
<1>5. ApplyAt(s, m) = Spliced(s, i, 2, <<e>>)
  BY JoinEffect DEF Spliced
<1> HIDE DEF i, c, d
<1>6. e \in T
  <2>1. /\ c.arg \in Seq(T) /\ d.arg \in Seq(T) /\ c = Node(c.op, c.arg)
        /\ \A as \in Seq(T) : Node(c.op, as) \in T
    BY <1>4, NodeFacts
  <2>2. c.arg \o d.arg \in Seq(T)
    BY <2>1, GlueFacts
  <2>3. e = Node(c.op, c.arg \o d.arg)
    BY <2>1, WithArgNode
  <2> QED BY <2>1, <2>2, <2>3
<1> HIDE DEF e
<1>7. <<e>> \in Seq(T) /\ 2 \in Nat
  BY <1>6
<1> DEFINE new == <<e>>
<1> HIDE DEF new
<1>8. Exchanged(T, s, i, 2, new, Spliced(s, i, 2, new), SubSeq(s.arg, i + 1, i + 2))
  BY <1>1, <1>4, <1>7, SplicedFacts DEF new
<1> QED BY <1>5, <1>8 DEF Exchanged, new

(* The inverse of a modification applies to the result of the modification *)
(* and gives back the document; its own inverse has the effect of the      *)
(* modification again (commute.cpp, invert).                               *)
THEOREM InverseUndoes ==
  ASSUME NEW T, IsTrees(T), NEW t \in T, NEW m \in Modification(T), IsApplicable(t, m),
         ~LosesLabelAt(m, SubTree(t, Root(m)))
  PROVE  LET x == CleanApply(t, m)
             v == InvertMod(m, t)
         IN  /\ x \in T
             /\ IsApplicable(x, v) /\ CleanApply(x, v) = t
             /\ CleanApply(t, InvertMod(v, x)) = x
             /\ PossibleInverse(m, v)
<1> DEFINE p == Root(m)
           s == SubTree(t, p)
           r == ApplyAt(s, m)
           x == Put(t, p, r)
           v == InvertMod(m, t)
           z == InvertMod(v, x)
<1>1. p \in Seq(Nat) /\ HasSubTree(t, p) /\ CanApply(s, m)
  BY ModFacts DEF IsApplicable
<1>2. s \in T
  BY <1>1, PutFacts
<1>3. CleanApply(t, m) = x
  BY DEF CleanApply
<1>4. r \in T => SubTree(x, p) = r /\ x \in T /\ HasSubTree(x, p)
                 /\ \A u \in T : Put(x, p, u) = Put(t, p, u)
  BY <1>1, PutFacts
<1>5. Put(t, p, s) = t
  BY <1>1, <1>2, PutFacts
<1> HIDE DEF s, r, x, v, z
<1>6. Setting(T, t, x, m, s, r)
  BY <1>1, <1>2, <1>4 DEF Setting, s, r
<1>7. ~LosesLabelAt(m, s)
  BY DEF s
<1>8. Restores(T, t, x, m, s, r)
  BY <1>6, <1>7, EachKind
<1>9. /\ r \in T /\ Root(v) = p /\ CanApply(r, v) /\ ApplyAt(r, v) = s
      /\ Root(z) = p /\ ApplyAt(s, z) = r /\ PossibleInverse(m, v)
  BY <1>8 DEF Restores, v, z
<1>10. /\ SubTree(x, p) = r /\ x \in T /\ HasSubTree(x, p)
       /\ Put(x, p, s) = t /\ Put(t, p, r) = x
  BY <1>2, <1>4, <1>5, <1>9 DEF x
<1>11. IsApplicable(x, v) /\ CleanApply(x, v) = t
  BY <1>9, <1>10 DEF IsApplicable, CleanApply
<1>12. CleanApply(t, z) = x
  BY <1>9, <1>10 DEF CleanApply, s
<1>13. CleanApply(t, m) = x
  BY <1>3
<1> QED BY <1>9, <1>10, <1>11, <1>12, <1>13 DEF v, z

-----------------------------------------------------------------------------
(* The finite trees with labels in L: those of height at most n, and all.  *)

(* The nodes with labels in L and children in H.                           *)
Over(L, H) == [op : L, arg : Seq(H)]

IsLevels(L, h) == h = [n \in Nat |-> IF n = 0 THEN {} ELSE Over(L, h[n - 1])]

Levels(L) == CHOOSE h : IsLevels(L, h)

Trees(L) == UNION {Levels(L)[n] : n \in Nat}

(* The first levels, up to level k.                                        *)
Begins(L, k, g) == g = [n \in 0 .. k |-> IF n = 0 THEN {} ELSE Over(L, g[n - 1])]

LEMMA SomeBegin ==
  ASSUME NEW L, NEW N \in Nat
  PROVE  \E g : Begins(L, N, g)
<1> DEFINE S == {k \in 0 .. N : \E g : Begins(L, k, g)}
<1>1. 0 \in S
  <2>1. Begins(L, 0, [n \in 0 .. 0 |-> {}])
    BY DEF Begins
  <2>2. 0 \in 0 .. N
    OBVIOUS
  <2> QED BY <2>1, <2>2, Zenon
<1>2. ASSUME NEW k \in 0 .. N - 1, k \in S PROVE k + 1 \in S
  <2>1. PICK g : Begins(L, k, g)
    BY <1>2
  <2> DEFINE At(n, f) == IF n = 0 THEN {} ELSE Over(L, f[n - 1])
             e == [n \in 0 .. k + 1 |-> At(n, g)]
  <2>2. \A n \in 0 .. k : e[n] = g[n]
    <3>1. \A n \in 0 .. k : n \in 0 .. k + 1
      OBVIOUS
    <3>2. g = [n \in 0 .. k |-> At(n, g)]
      BY <2>1 DEF Begins
    <3> HIDE DEF At
    <3>3. \A n \in 0 .. k : g[n] = At(n, g)
      BY <3>2
    <3> QED BY <3>1, <3>3
  <2>3. \A n \in 0 .. k + 1 : At(n, e) = At(n, g)
    <3>1. \A n \in 0 .. k + 1 : n # 0 => n - 1 \in 0 .. k
      OBVIOUS
    <3> HIDE DEF e
    <3> QED BY <3>1, <2>2, Zenon
  <2>4. Begins(L, k + 1, e)
    <3>1. e = [n \in 0 .. k + 1 |-> At(n, e)]
      <4> HIDE DEF At
      <4> QED BY <2>3
    <3> QED BY <3>1, Zenon DEF Begins
  <2>5. k + 1 \in 0 .. N
    OBVIOUS
  <2> HIDE DEF e
  <2> QED BY <2>4, <2>5, Zenon
<1>3. 0 .. N \subseteq S
  <2> HIDE DEF S
  <2> QED BY <1>1, <1>2, Upwards
<1>4. N \in 0 .. N
  OBVIOUS
<1> QED BY <1>3, <1>4

LEMMA BeginZero ==
  ASSUME NEW L, NEW N \in Nat, NEW g, Begins(L, N, g)
  PROVE  g[0] = {}
<1> DEFINE At(n) == IF n = 0 THEN {} ELSE Over(L, g[n - 1])
<1>1. g = [n \in 0 .. N |-> At(n)]
  BY DEF Begins
<1>2. At(0) = {} /\ 0 \in 0 .. N
  OBVIOUS
<1> HIDE DEF At
<1> QED BY <1>1, <1>2

LEMMA BeginNext ==
  ASSUME NEW L, NEW N \in Nat, NEW g, Begins(L, N, g), NEW n \in 0 .. N - 1
  PROVE  g[n + 1] = Over(L, g[n])
<1> DEFINE At(k) == IF k = 0 THEN {} ELSE Over(L, g[k - 1])
<1>1. g = [k \in 0 .. N |-> At(k)]
  BY DEF Begins
<1>2. n + 1 \in 0 .. N /\ n + 1 # 0 /\ (n + 1) - 1 = n
  OBVIOUS
<1>3. At(n + 1) = Over(L, g[n])
  BY <1>2, Zenon
<1> HIDE DEF At
<1> QED BY <1>1, <1>2, <1>3

LEMMA SameBegin ==
  ASSUME NEW L, NEW M \in Nat, NEW N \in Nat, M <= N, NEW f, Begins(L, M, f),
         NEW g, Begins(L, N, g)
  PROVE  f[M] = g[M]
<1> DEFINE S == {k \in 0 .. M : f[k] = g[k]}
<1>1. 0 \in S
  <2>1. f[0] = {} /\ g[0] = {}
    BY BeginZero, Zenon
  <2> QED BY <2>1
<1>2. ASSUME NEW k \in 0 .. M - 1, k \in S PROVE k + 1 \in S
  <2>1. f[k + 1] = Over(L, f[k])
    BY BeginNext, Zenon
  <2>2. k \in 0 .. N - 1 /\ k + 1 \in 0 .. M
    OBVIOUS
  <2>3. g[k + 1] = Over(L, g[k])
    BY <2>2, BeginNext, Zenon
  <2>4. f[k] = g[k]
    BY <1>2
  <2> QED BY <2>1, <2>2, <2>3, <2>4, Zenon
<1>3. 0 .. M \subseteq S
  <2> HIDE DEF S
  <2> QED BY <1>1, <1>2, Upwards
<1>4. M \in 0 .. M
  OBVIOUS
<1> QED BY <1>3, <1>4

LEMMA LevelsExist ==
  ASSUME NEW L
  PROVE  IsLevels(L, Levels(L))
<1> DEFINE G(n) == CHOOSE g : Begins(L, n, g)
           h == [n \in Nat |-> G(n)[n]]
           At(n) == IF n = 0 THEN {} ELSE Over(L, h[n - 1])
<1>1. \A n \in Nat : Begins(L, n, G(n))
  BY SomeBegin, Zenon
<1> HIDE DEF G
<1>2. ASSUME NEW n \in Nat PROVE h[n] = At(n)
  <2>1. CASE n = 0
    BY <2>1, <1>1, BeginZero
  <2>2. CASE n # 0
    <3> DEFINE k == n - 1
    <3>1. k \in Nat /\ k \in 0 .. n - 1 /\ k + 1 = n /\ k <= n
      BY <2>2
    <3> HIDE DEF k
    <3>2. G(n)[k + 1] = Over(L, G(n)[k])
      BY <3>1, <1>1, BeginNext, Zenon
    <3>3. G(k)[k] = G(n)[k]
      BY <3>1, <1>1, SameBegin
    <3>4. h[n] = G(n)[n] /\ h[k] = G(k)[k]
      BY <3>1
    <3>5. h[n] = Over(L, h[k])
      BY <3>1, <3>2, <3>3, <3>4, Zenon
    <3> QED BY <3>5, <2>2 DEF k
  <2> QED BY <2>1, <2>2
<1>3. h = [n \in Nat |-> At(n)]
  <2> HIDE DEF At
  <2> QED BY <1>2
<1>4. IsLevels(L, h)
  BY <1>3, Zenon DEF IsLevels
<1> QED BY <1>4, Zenon DEF Levels

LEMMA LevelFacts ==
  ASSUME NEW L
  PROVE  /\ Levels(L)[0] = {}
         /\ \A n \in Nat : Levels(L)[n + 1] = Over(L, Levels(L)[n])
<1> DEFINE h == Levels(L)
           At(n) == IF n = 0 THEN {} ELSE Over(L, h[n - 1])
<1>1. h = [n \in Nat |-> At(n)]
  BY LevelsExist DEF IsLevels
<1>2. At(0) = {}
  OBVIOUS
<1>3. \A n \in Nat : n + 1 \in Nat /\ At(n + 1) = Over(L, h[n])
  <2> SUFFICES ASSUME NEW n \in Nat
               PROVE  n + 1 \in Nat /\ At(n + 1) = Over(L, h[n])
    OBVIOUS
  <2>1. n + 1 \in Nat /\ n + 1 # 0 /\ (n + 1) - 1 = n
    OBVIOUS
  <2> QED BY <2>1, Zenon
<1> HIDE DEF h, At
<1>4. h[0] = {} /\ \A n \in Nat : h[n + 1] = Over(L, h[n])
  BY <1>1, <1>2, <1>3
<1> QED BY <1>4 DEF h

LEMMA LevelsGrow ==
  ASSUME NEW L, NEW M \in Nat, NEW N \in Nat, M <= N
  PROVE  Levels(L)[M] \subseteq Levels(L)[N]
<1> DEFINE h == Levels(L)
           Up == {n \in 0 .. N : h[n] \subseteq h[n + 1]}
           S == {d \in 0 .. N - M : h[M] \subseteq h[M + d]}
<1>1. h[0] = {} /\ \A n \in Nat : h[n + 1] = Over(L, h[n])
  BY LevelFacts
<1> HIDE DEF h
<1>2. 0 \in Up
  BY <1>1
<1>3. ASSUME NEW n \in 0 .. N - 1, n \in Up PROVE n + 1 \in Up
  <2>1. h[n] \subseteq h[n + 1]
    BY <1>3
  <2>2. h[n + 1] = Over(L, h[n]) /\ h[(n + 1) + 1] = Over(L, h[n + 1])
    BY <1>1
  <2>3. Seq(h[n]) \subseteq Seq(h[n + 1])
    <3> SUFFICES ASSUME NEW a \in Seq(h[n]) PROVE a \in Seq(h[n + 1])
      OBVIOUS
    <3>1. \A k \in 1 .. Len(a) : a[k] \in h[n + 1]
      BY <2>1
    <3>2. a = [k \in 1 .. Len(a) |-> a[k]] /\ Len(a) \in Nat
      OBVIOUS
    <3> QED BY <3>1, <3>2, SMT
  <2>4. Over(L, h[n]) \subseteq Over(L, h[n + 1])
    <3> DEFINE A == Seq(h[n])
               B == Seq(h[n + 1])
    <3>1. A \subseteq B
      BY <2>3
    <3> HIDE DEF A, B
    <3>2. [op : L, arg : A] \subseteq [op : L, arg : B]
      BY <3>1
    <3> QED BY <3>2 DEF A, B, Over
  <2>5. n + 1 \in 0 .. N
    OBVIOUS
  <2> QED BY <2>2, <2>4, <2>5, Zenon
<1>4. 0 .. N \subseteq Up
  <2> HIDE DEF Up
  <2> QED BY <1>2, <1>3, Upwards
<1>5. 0 \in S
  BY M + 0 = M
<1>6. ASSUME NEW d \in 0 .. (N - M) - 1, d \in S PROVE d + 1 \in S
  <2>1. M + d \in 0 .. N /\ (M + d) + 1 = M + (d + 1) /\ d + 1 \in 0 .. N - M
    OBVIOUS
  <2>2. h[M + d] \subseteq h[(M + d) + 1]
    BY <2>1, <1>4
  <2> QED BY <2>1, <2>2, <1>6
<1>7. N - M \in Nat
  OBVIOUS
<1>8. 0 .. N - M \subseteq S
  <2> HIDE DEF S
  <2> QED BY <1>5, <1>6, <1>7, Upwards
<1>9. N - M \in 0 .. N - M /\ M + (N - M) = N
  OBVIOUS
<1> QED BY <1>8, <1>9 DEF h

(* The nodes whose children are finite trees are just the finite trees.    *)
LEMMA TreesAreTrees ==
  ASSUME NEW L
  PROVE  IsTrees(Trees(L))
<1> DEFINE h == Levels(L)
           T == Trees(L)
<1>1. h[0] = {} /\ \A n \in Nat : h[n + 1] = Over(L, h[n])
  BY LevelFacts
<1>2. \A t : t \in T <=> \E n \in Nat : t \in h[n]
  BY DEF Trees
<1>3. \A m, n \in Nat : m <= n => h[m] \subseteq h[n]
  BY LevelsGrow
<1> HIDE DEF h, T
<1>4. ASSUME NEW t \in T PROVE t \in Over(L, T)
  <2>1. PICK n \in Nat : t \in h[n]
    BY <1>2
  <2>2. n # 0
    BY <2>1, <1>1
  <2> DEFINE k == n - 1
  <2>3. k \in Nat /\ k + 1 = n
    BY <2>2
  <2> HIDE DEF k
  <2>4. t \in Over(L, h[k])
    BY <2>1, <2>3, <1>1
  <2>5. h[k] \subseteq T
    BY <2>3, <1>2
  <2>6. Seq(h[k]) \subseteq Seq(T)
    <3> SUFFICES ASSUME NEW a \in Seq(h[k]) PROVE a \in Seq(T)
      OBVIOUS
    <3>1. \A i \in 1 .. Len(a) : a[i] \in T
      BY <2>5
    <3>2. a = [i \in 1 .. Len(a) |-> a[i]] /\ Len(a) \in Nat
      OBVIOUS
    <3> QED BY <3>1, <3>2, SMT
  <2> DEFINE A == Seq(h[k])
             B == Seq(T)
  <2>7. A \subseteq B /\ t \in [op : L, arg : A]
    BY <2>4, <2>6 DEF Over
  <2> HIDE DEF A, B
  <2>8. t \in [op : L, arg : B]
    BY <2>7
  <2> QED BY <2>8 DEF B, Over
<1>5. ASSUME NEW t \in Over(L, T) PROVE t \in T
  <2> DEFINE a == t.arg
             S == {k \in 0 .. Len(a) : \E n \in Nat : \A i \in 1 .. k : a[i] \in h[n]}
  <2>1. a \in Seq(T) /\ Len(a) \in Nat
    BY DEF Over
  <2> HIDE DEF a
  <2>2. 0 \in S
    <3>1. \A i \in 1 .. 0 : a[i] \in h[0]
      OBVIOUS
    <3>2. 0 \in Nat /\ 0 \in 0 .. Len(a)
      BY <2>1
    <3> QED BY <3>1, <3>2, Zenon
  <2>3. ASSUME NEW k \in 0 .. Len(a) - 1, k \in S PROVE k + 1 \in S
    <3>1. PICK n \in Nat : \A i \in 1 .. k : a[i] \in h[n]
      BY <2>3
    <3>2. k + 1 \in 1 .. Len(a) /\ k + 1 \in 0 .. Len(a)
      BY <2>1
    <3>3. PICK m \in Nat : a[k + 1] \in h[m]
      BY <3>2, <2>1, <1>2
    <3> DEFINE N == IF m <= n THEN n ELSE m
    <3>4. N \in Nat /\ m <= N /\ n <= N
      OBVIOUS
    <3> HIDE DEF N
    <3>5. h[m] \subseteq h[N] /\ h[n] \subseteq h[N]
      BY <3>4, <1>3
    <3>6. \A i \in 1 .. k + 1 : i \in 1 .. k \/ i = k + 1
      OBVIOUS
    <3>7. \A i \in 1 .. k + 1 : a[i] \in h[N]
      BY <3>1, <3>3, <3>5, <3>6, Zenon
    <3> QED BY <3>2, <3>4, <3>7, Zenon
  <2>4. 0 .. Len(a) \subseteq S
    <3> HIDE DEF S
    <3> QED BY <2>1, <2>2, <2>3, Upwards
  <2>5. Len(a) \in 0 .. Len(a)
    BY <2>1
  <2>6. PICK n \in Nat : \A i \in 1 .. Len(a) : a[i] \in h[n]
    BY <2>4, <2>5
  <2>7. a \in Seq(h[n])
    <3>1. a = [i \in 1 .. Len(a) |-> a[i]]
      BY <2>1
    <3> QED BY <3>1, <2>1, <2>6, SMT
  <2> DEFINE A == Seq(h[n])
             B == Seq(T)
  <2>8. a \in A /\ t \in [op : L, arg : B]
    BY <2>7 DEF Over
  <2> HIDE DEF A, B
  <2>9. t \in [op : L, arg : A]
    BY <2>8 DEF a
  <2>10. t \in h[n + 1]
    BY <2>9, <1>1 DEF A, Over
  <2>11. n + 1 \in Nat
    OBVIOUS
  <2> QED BY <2>10, <2>11, <1>2
<1>6. T = Over(L, T)
  <2> DEFINE B == Over(L, T)
  <2>1. \A t : t \in T <=> t \in B
    BY <1>4, <1>5
  <2> HIDE DEF B
  <2>2. T = B
    BY <2>1
  <2> QED BY <2>2 DEF B
<1> QED BY <1>6, Zenon DEF IsTrees, T, Over

-----------------------------------------------------------------------------
(* The behaviours of module Pairs *)

(* Every document is a tree, and comes from the one before it by the       *)
(* modification between them.                                              *)
StepsFit(T) ==
  /\ trees \in Seq(T) /\ mods \in Seq(Modification(T)) /\ Len(trees) = Len(mods) + 1
  /\ \A i \in 1 .. Len(mods) :
       IsApplicable(trees[i], mods[i]) /\ trees[i + 1] = CleanApply(trees[i], mods[i])

LEMMA ApplyInTrees ==
  ASSUME NEW T, IsTrees(T), NEW t \in T, NEW m \in Modification(T), IsApplicable(t, m)
  PROVE  CleanApply(t, m) \in T
<1> DEFINE s == SubTree(t, Root(m))
<1>1. CASE ~LosesLabelAt(m, s)
  BY <1>1, InverseUndoes
<1>2. CASE LosesLabelAt(m, s)
  <2>1. Root(m) \in Seq(Nat) /\ HasSubTree(t, Root(m)) /\ CanApply(s, m)
    BY ModFacts DEF IsApplicable
  <2>2. s \in T
    BY <2>1, PutFacts
  <2> HIDE DEF s
  <2>3. ApplyAt(s, m) \in T
    BY <1>2, <2>1, <2>2, JoinInTrees DEF LosesLabelAt
  <2>4. Put(t, Root(m), ApplyAt(s, m)) \in T
    BY <2>1, <2>3, PutFacts
  <2> QED BY <2>4 DEF CleanApply, s
<1> QED BY <1>1, <1>2

LEMMA FitsAtFirst ==
  ASSUME NEW T, Documents \subseteq T
  PROVE  Init => StepsFit(T)
<1> SUFFICES ASSUME Init PROVE StepsFit(T)
  OBVIOUS
<1>1. PICK t \in T : trees = <<t>>
  BY DEF Init
<1>2. mods = <<>>
  BY DEF Init
<1> QED BY <1>1, <1>2 DEF StepsFit

LEMMA FitsNext ==
  ASSUME NEW T, IsTrees(T), \A t \in T : ModsOf(t) \subseteq Modification(T)
  PROVE  StepsFit(T) /\ [Edit]_vars => StepsFit(T)'
<1> SUFFICES ASSUME StepsFit(T), [Edit]_vars PROVE StepsFit(T)'
  OBVIOUS
<1> USE DEF StepsFit
<1>1. CASE UNCHANGED vars
  BY <1>1 DEF vars
<1>2. CASE Edit
  <2> DEFINE n == Len(trees)
             t == trees[n]
  <2>1. /\ n \in Nat /\ n = Len(mods) + 1 /\ Len(mods) \in Nat
        /\ t \in T /\ trees \in Seq(T) /\ mods \in Seq(Modification(T))
    OBVIOUS
  <2>2. PICK m \in ModsOf(t) : /\ IsApplicable(t, m)
                               /\ mods' = Append(mods, m)
                               /\ trees' = Append(trees, CleanApply(t, m))
    BY <1>2 DEF Edit
  <2>3. m \in Modification(T)
    BY <2>1
  <2> DEFINE u == CleanApply(t, m)
  <2>4. u \in T
    <3> HIDE DEF t
    <3> QED BY <2>1, <2>2, <2>3, ApplyInTrees
  <2> HIDE DEF u
  <2>5. /\ trees' = Append(trees, u) /\ trees' \in Seq(T) /\ Len(trees') = n + 1
        /\ mods' \in Seq(Modification(T)) /\ Len(mods') = n
    BY <2>1, <2>2, <2>3, <2>4 DEF u
  <2>6. \A i \in 1 .. n : trees'[i] = trees[i]
    BY <2>1, <2>5
  <2>7. trees'[n + 1] = u
    BY <2>1, <2>5
  <2>8. (\A i \in 1 .. n - 1 : mods'[i] = mods[i]) /\ mods'[n] = m
    BY <2>1, <2>2
  <2>9. ASSUME NEW i \in 1 .. n
        PROVE  IsApplicable(trees'[i], mods'[i]) /\ trees'[i + 1] = CleanApply(trees'[i], mods'[i])
    <3>1. CASE i = n
      BY <3>1, <2>1, <2>2, <2>6, <2>7, <2>8 DEF u
    <3>2. CASE i \in 1 .. n - 1
      <4>1. i \in 1 .. n /\ i + 1 \in 1 .. n /\ i \in 1 .. Len(mods)
        BY <3>2, <2>1
      <4>2. IsApplicable(trees[i], mods[i]) /\ trees[i + 1] = CleanApply(trees[i], mods[i])
        BY <4>1
      <4> QED BY <4>1, <4>2, <3>2, <2>6, <2>8
    <3> QED BY <3>1, <3>2, <2>1
  <2> QED BY <2>1, <2>5, <2>9
<1> QED BY <1>1, <1>2

(* Whatever two modifications are applied to a finite tree, one after the  *)
(* other, the inverse of each restores the document before it.  L is any   *)
(* set of labels, and the modifications any that the constructors make.    *)
THEOREM InversesRestore ==
  ASSUME NEW L, Documents \subseteq Trees(L),
         \A t \in Trees(L) : ModsOf(t) \subseteq Modification(Trees(L))
  PROVE  Spec => []InverseRestores
<1> DEFINE T == Trees(L)
<1>0. IsTrees(T)
  BY TreesAreTrees
<1>m. \A t \in T : ModsOf(t) \subseteq Modification(T)
  OBVIOUS
<1>d. Documents \subseteq T
  OBVIOUS
<1> HIDE DEF T
<1>1. Init => StepsFit(T)
  BY <1>d, FitsAtFirst
<1>2. StepsFit(T) /\ [Edit]_vars => StepsFit(T)'
  BY <1>0, <1>m, FitsNext
<1>3. StepsFit(T) => InverseRestores
  <2> SUFFICES ASSUME StepsFit(T), NEW i \in 1 .. Len(mods), ~LosesLabel(i)
               PROVE  /\ IsApplicable(trees[i + 1], Undoing(i))
                      /\ CleanApply(trees[i + 1], Undoing(i)) = trees[i]
                      /\ CleanApply(trees[i], InvertMod(Undoing(i), trees[i + 1])) = trees[i + 1]
                      /\ PossibleInverse(mods[i], Undoing(i))
    BY DEF InverseRestores
  <2>1. /\ trees[i] \in T /\ mods[i] \in Modification(T)
        /\ IsApplicable(trees[i], mods[i]) /\ trees[i + 1] = CleanApply(trees[i], mods[i])
    BY DEF StepsFit
  <2>2. ~LosesLabelAt(mods[i], SubTree(trees[i], Root(mods[i])))
    BY DEF LosesLabel, LosesLabelAt
  <2> QED BY <1>0, <2>1, <2>2, InverseUndoes DEF Undoing
<1> QED BY <1>1, <1>2, <1>3, PTL DEF Spec
=============================================================================
