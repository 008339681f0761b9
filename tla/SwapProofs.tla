----------------------------- MODULE SwapProofs -----------------------------
(***************************************************************************)
(* The order of two modifications, for every document and every pair of    *)
(* modifications that are applicable to it one after the other.            *)
(***************************************************************************)
EXTENDS ModificationsProofs

-----------------------------------------------------------------------------
(* Paths one after the other *)

LEMMA LongPath ==
  ASSUME NEW h \in Seq(Nat), NEW q \in Seq(Nat)
  PROVE  /\ h \o q \in Seq(Nat) /\ Len(h \o q) = Len(h) + Len(q)
         /\ \A n \in 1 .. Len(h) : (h \o q)[n] = h[n]
         /\ \A n \in 1 .. Len(q) : (h \o q)[Len(h) + n] = q[n]
BY ConcatFacts DEF IsConcat

LEMMA AlongLong ==
  ASSUME NEW t, NEW h \in Seq(Nat), NEW q \in Seq(Nat)
  PROVE  /\ \A n \in 0 .. Len(h) : Along(t, h \o q)[n] = Along(t, h)[n]
         /\ \A n \in 0 .. Len(q) :
              Along(t, h \o q)[Len(h) + n] = Along(SubTree(t, h), q)[n]
<1> DEFINE p == h \o q
           d == Along(t, p)
           s == SubTree(t, h)
           e == [n \in 0 .. Len(q) |-> d[Len(h) + n]]
<1>0. /\ Len(h) \in Nat /\ Len(q) \in Nat /\ p \in Seq(Nat)
      /\ Len(p) = Len(h) + Len(q)
      /\ \A n \in 1 .. Len(h) : p[n] = h[n]
      /\ \A n \in 1 .. Len(q) : p[Len(h) + n] = q[n]
  BY LongPath
<1> HIDE DEF p
<1>1. d[0] = t /\ \A n \in 1 .. Len(p) : d[n] = d[n - 1].arg[p[n] + 1]
  <2>1. p \in Seq(Nat)
    BY <1>0
  <2> QED BY <2>1, AlongFacts
<1> HIDE DEF d
<1>2. ASSUME NEW n \in 0 .. Len(h) PROVE d[n] = Along(t, h)[n]
  <2>1. ASSUME NEW k \in 1 .. n PROVE d[k] = d[k - 1].arg[h[k] + 1]
    <3>1. k \in 1 .. Len(p) /\ k \in 1 .. Len(h)
      BY <1>0
    <3>2. d[k] = d[k - 1].arg[p[k] + 1] /\ p[k] = h[k]
      BY <3>1, <1>0, <1>1
    <3> QED BY <3>2
  <2>2. Leads(t, h, n, d)
    BY <1>1, <2>1 DEF Leads
  <2> QED BY <2>2, AlongUnique
<1>3. e[0] = s
  <2>1. d[Len(h)] = Along(t, h)[Len(h)]
    BY <1>0, <1>2
  <2> QED BY <2>1, <1>0, AlongFacts
<1>4. ASSUME NEW k \in 1 .. Len(q) PROVE e[k] = e[k - 1].arg[q[k] + 1]
  <2>1. /\ Len(h) + k \in 1 .. Len(p) /\ k \in 0 .. Len(q) /\ k - 1 \in 0 .. Len(q)
        /\ (Len(h) + k) - 1 = Len(h) + (k - 1)
    BY <1>0
  <2>2. d[Len(h) + k] = d[(Len(h) + k) - 1].arg[p[Len(h) + k] + 1]
    BY <2>1, <1>1
  <2>3. p[Len(h) + k] = q[k]
    BY <1>0
  <2> QED BY <2>1, <2>2, <2>3
<1>5. ASSUME NEW n \in 0 .. Len(q) PROVE d[Len(h) + n] = Along(s, q)[n]
  <2>1. \A k \in 1 .. n : k \in 1 .. Len(q)
    BY <1>0
  <2>2. Leads(s, q, n, e)
    <3> HIDE DEF e, s
    <3> QED BY <1>3, <1>4, <2>1 DEF Leads
  <2>3. e[n] = Along(s, q)[n]
    <3> HIDE DEF e, s
    <3> QED BY <2>2, AlongUnique
  <2> QED BY <2>3
<1> QED BY <1>2, <1>5 DEF d, p, s

(* What a path leads to, in two parts.                                     *)
LEMMA SubTreeLong ==
  ASSUME NEW t, NEW h \in Seq(Nat), NEW q \in Seq(Nat)
  PROVE  /\ SubTree(t, h \o q) = SubTree(SubTree(t, h), q)
         /\ HasSubTree(t, h \o q) <=> HasSubTree(t, h) /\ HasSubTree(SubTree(t, h), q)
<1> DEFINE p == h \o q
           d == Along(t, p)
           s == SubTree(t, h)
           At(x, r, n) == /\ ~IsAtomic(Along(x, r)[n - 1])
                          /\ r[n] \in 0 .. Arity(Along(x, r)[n - 1]) - 1
<1>0. /\ Len(h) \in Nat /\ Len(q) \in Nat /\ p \in Seq(Nat)
      /\ Len(p) = Len(h) + Len(q)
      /\ \A n \in 1 .. Len(h) : p[n] = h[n]
      /\ \A n \in 1 .. Len(q) : p[Len(h) + n] = q[n]
  BY LongPath
<1>1. /\ \A n \in 0 .. Len(h) : d[n] = Along(t, h)[n]
      /\ \A n \in 0 .. Len(q) : d[Len(h) + n] = Along(s, q)[n]
  BY AlongLong
<1>2. SubTree(t, p) = SubTree(s, q)
  <2>1. Len(q) \in 0 .. Len(q)
    BY <1>0
  <2>2. SubTree(t, p) = d[Len(p)] /\ SubTree(s, q) = Along(s, q)[Len(q)]
    BY <1>0, AlongFacts
  <2> QED BY <2>1, <2>2, <1>0, <1>1
<1>3. ASSUME NEW n \in 1 .. Len(h) PROVE At(t, p, n) <=> At(t, h, n)
  <2>1. n - 1 \in 0 .. Len(h)
    BY <1>0
  <2>2. d[n - 1] = Along(t, h)[n - 1] /\ p[n] = h[n]
    BY <2>1, <1>0, <1>1
  <2> QED BY <2>2
<1>4. ASSUME NEW n \in 1 .. Len(q) PROVE At(t, p, Len(h) + n) <=> At(s, q, n)
  <2>1. n - 1 \in 0 .. Len(q) /\ (Len(h) + n) - 1 = Len(h) + (n - 1)
    BY <1>0
  <2>2. d[(Len(h) + n) - 1] = Along(s, q)[n - 1] /\ p[Len(h) + n] = q[n]
    BY <2>1, <1>0, <1>1
  <2> QED BY <2>2
<1>5. /\ HasSubTree(t, p) <=> \A n \in 1 .. Len(p) : At(t, p, n)
      /\ HasSubTree(t, h) <=> \A n \in 1 .. Len(h) : At(t, h, n)
      /\ HasSubTree(s, q) <=> \A n \in 1 .. Len(q) : At(s, q, n)
  <2>1. HasSubTree(t, p) <=> \A n \in 1 .. Len(p) : At(t, p, n)
    BY <1>0, HasSubTreeAlong
  <2>2. HasSubTree(t, h) <=> \A n \in 1 .. Len(h) : At(t, h, n)
    BY HasSubTreeAlong
  <2>3. HasSubTree(s, q) <=> \A n \in 1 .. Len(q) : At(s, q, n)
    BY HasSubTreeAlong
  <2> QED BY <2>1, <2>2, <2>3
<1> HIDE DEF At, p, s
<1>6. ASSUME HasSubTree(t, p) PROVE HasSubTree(t, h) /\ HasSubTree(s, q)
  <2>1. \A n \in 1 .. Len(h) : n \in 1 .. Len(p)
    BY <1>0
  <2>2. \A n \in 1 .. Len(q) : Len(h) + n \in 1 .. Len(p)
    BY <1>0
  <2> QED BY <2>1, <2>2, <1>3, <1>4, <1>5, <1>6
<1>7. ASSUME HasSubTree(t, h), HasSubTree(s, q) PROVE HasSubTree(t, p)
  <2> SUFFICES ASSUME NEW n \in 1 .. Len(p) PROVE At(t, p, n)
    BY <1>5
  <2>1. CASE n \in 1 .. Len(h)
    BY <2>1, <1>3, <1>5, <1>7
  <2>2. CASE n \notin 1 .. Len(h)
    <3>1. n - Len(h) \in 1 .. Len(q) /\ Len(h) + (n - Len(h)) = n
      BY <2>2, <1>0
    <3>2. At(s, q, n - Len(h))
      BY <3>1, <1>5, <1>7
    <3>3. At(t, p, Len(h) + (n - Len(h)))
      BY <3>1, <3>2, <1>4
    <3> QED BY <3>1, <3>3
  <2> QED BY <2>1, <2>2
<1> QED BY <1>2, <1>6, <1>7 DEF p, s

(* A node put below a node.                                                *)
LEMMA PutLong ==
  ASSUME NEW T, IsTrees(T), NEW t \in T, NEW h \in Seq(Nat), NEW q \in Seq(Nat),
         HasSubTree(t, h \o q), NEW u \in T
  PROVE  Put(t, h \o q, u) = Put(t, h, Put(SubTree(t, h), q, u))
<1> DEFINE p == h \o q
           s == SubTree(t, h)
           x == Put(s, q, u)
           f == Rebuilt(t, p, u)
           g == Rebuilt(s, q, u)
           k == Rebuilt(t, h, x)
           S == {n \in 0 .. Len(q) : f[Len(h) + n] = g[n]}
           R == {n \in 0 .. Len(h) : f[n] = k[n]}
<1>0. /\ Len(h) \in Nat /\ Len(q) \in Nat /\ p \in Seq(Nat)
      /\ Len(p) = Len(h) + Len(q)
      /\ \A n \in 1 .. Len(h) : p[n] = h[n]
      /\ \A n \in 1 .. Len(q) : p[Len(h) + n] = q[n]
  BY LongPath
<1>1. /\ \A n \in 0 .. Len(h) : Along(t, p)[n] = Along(t, h)[n]
      /\ \A n \in 0 .. Len(q) : Along(t, p)[Len(h) + n] = Along(s, q)[n]
  BY AlongLong
<1>2. /\ \A n \in 0 .. Len(p) - 1 : f[n] = WithChild(Along(t, p)[n], p[n + 1], f[n + 1])
      /\ f[Len(p)] = u /\ Put(t, p, u) = f[0]
  <2>0. p \in Seq(Nat)
    BY <1>0
  <2> HIDE DEF p
  <2>1. \A n \in 0 .. Len(p) - 1 : f[n] = WithChild(Along(t, p)[n], p[n + 1], f[n + 1])
    BY <2>0, RebuiltStep
  <2>2. f[Len(p)] = u /\ Put(t, p, u) = f[0]
    BY <2>0, RebuiltEnds
  <2> QED BY <2>1, <2>2
<1>3. /\ \A n \in 0 .. Len(q) - 1 : g[n] = WithChild(Along(s, q)[n], q[n + 1], g[n + 1])
      /\ g[Len(q)] = u /\ x = g[0]
  BY RebuiltStep, RebuiltEnds
<1>4. /\ \A n \in 0 .. Len(h) - 1 : k[n] = WithChild(Along(t, h)[n], h[n + 1], k[n + 1])
      /\ k[Len(h)] = x /\ Put(t, h, x) = k[0]
  BY RebuiltStep, RebuiltEnds
<1> HIDE DEF f, g, k, p, s, x
<1>5. Len(q) \in S
  BY <1>0, <1>2, <1>3
<1>6. ASSUME NEW n \in 0 .. Len(q) - 1, n + 1 \in S PROVE n \in S
  <2>1. /\ Len(h) + n \in 0 .. Len(p) - 1 /\ n \in 0 .. Len(q) /\ n + 1 \in 1 .. Len(q)
        /\ (Len(h) + n) + 1 = Len(h) + (n + 1)
    BY <1>0
  <2>2. f[Len(h) + n] = WithChild(Along(t, p)[Len(h) + n], p[(Len(h) + n) + 1], f[(Len(h) + n) + 1])
    BY <2>1, <1>2
  <2>3. /\ Along(t, p)[Len(h) + n] = Along(s, q)[n]
        /\ p[Len(h) + (n + 1)] = q[n + 1] /\ f[Len(h) + (n + 1)] = g[n + 1]
    BY <2>1, <1>0, <1>1, <1>6
  <2>4. g[n] = WithChild(Along(s, q)[n], q[n + 1], g[n + 1])
    BY <1>3
  <2>5. f[Len(h) + n] = g[n]
    BY <2>1, <2>2, <2>3, <2>4
  <2> QED BY <2>1, <2>5
<1>7. 0 .. Len(q) \subseteq S
  <2> HIDE DEF S
  <2> QED BY <1>0, <1>5, <1>6, Downwards
<1>8. Len(h) \in R
  <2>1. 0 \in S
    <3>1. 0 \in 0 .. Len(q)
      BY <1>0
    <3> HIDE DEF S
    <3> QED BY <3>1, <1>7
  <2> QED BY <2>1, <1>0, <1>3, <1>4
<1>9. ASSUME NEW n \in 0 .. Len(h) - 1, n + 1 \in R PROVE n \in R
  <2>1. n \in 0 .. Len(p) - 1 /\ n \in 0 .. Len(h) /\ n + 1 \in 1 .. Len(h)
    BY <1>0
  <2>2. f[n] = WithChild(Along(t, p)[n], p[n + 1], f[n + 1])
    BY <2>1, <1>2
  <2>3. Along(t, p)[n] = Along(t, h)[n] /\ p[n + 1] = h[n + 1] /\ f[n + 1] = k[n + 1]
    BY <2>1, <1>0, <1>1, <1>9
  <2>4. k[n] = WithChild(Along(t, h)[n], h[n + 1], k[n + 1])
    BY <1>4
  <2>5. f[n] = k[n]
    BY <2>2, <2>3, <2>4
  <2> QED BY <2>1, <2>5
<1>10. 0 .. Len(h) \subseteq R
  <2> HIDE DEF R
  <2> QED BY <1>0, <1>8, <1>9, Downwards
<1>11. f[0] = k[0]
  <2>1. 0 \in 0 .. Len(h)
    BY <1>0
  <2>2. 0 \in R
    <3> HIDE DEF R
    <3> QED BY <2>1, <1>10
  <2> QED BY <2>2
<1> QED BY <1>2, <1>4, <1>11 DEF p, s, x

-----------------------------------------------------------------------------
(* Modifications with another path *)

WithPath(m, q) == [m EXCEPT !.p = q]

LEMMA WithPathFacts ==
  ASSUME NEW T, NEW m \in Modification(T), NEW q \in Seq(Nat), Len(q) >= Extra(m.k)
  PROVE  /\ WithPath(m, q) \in Modification(T)
         /\ WithPath(m, q).k = m.k /\ WithPath(m, q).p = q /\ WithPath(m, q).t = m.t
<1>1. m \in [k : Kinds, p : Seq(Nat), t : T] /\ (m.k = "assign_node" => ~IsAtomic(m.t))
  BY DEF Modification
<1>2. /\ WithPath(m, q) \in [k : Kinds, p : Seq(Nat), t : T]
      /\ WithPath(m, q).k = m.k /\ WithPath(m, q).p = q /\ WithPath(m, q).t = m.t
  BY <1>1 DEF WithPath
<1> QED BY <1>1, <1>2 DEF Modification

LEMMA SameMod ==
  ASSUME NEW T, NEW m \in Modification(T), NEW v \in Modification(T),
         m.k = v.k, m.p = v.p, m.t = v.t
  PROVE  m = v
<1>1. m \in [k : Kinds, p : Seq(Nat), t : T] /\ v \in [k : Kinds, p : Seq(Nat), t : T]
  BY DEF Modification
<1> QED BY <1>1

(* Modifications that differ in their roots do the same there.             *)
LEMMA SameEffect ==
  ASSUME NEW T, NEW m \in Modification(T), NEW v \in Modification(T),
         m.k = v.k, m.t = v.t,
         Extra(m.k) # 0 => Index(m) = Index(v) /\ Argument(m) = Argument(v),
         NEW s
  PROVE  CanApply(s, m) = CanApply(s, v) /\ ApplyAt(s, m) = ApplyAt(s, v)
<1>1. m.k \in Kinds
  BY DEF Modification
<1>2. CASE m.k \in {"assign", "assign_node"}
  BY <1>2 DEF CanApply, ApplyAt
<1>3. CASE m.k \notin {"assign", "assign_node"}
  <2>1. Index(m) = Index(v) /\ Argument(m) = Argument(v)
    BY <1>1, <1>3 DEF Extra, Kinds
  <2>2. CanApply(s, m) = CanApply(s, v)
    BY <2>1 DEF CanApply
  <2> DEFINE i == Index(m)
             j == Argument(m)
             c == s.arg[i + 1]
             d == s.arg[i + 2]
  <2>3. CASE m.k = "split"
    <3> DEFINE x == WithArg(s, Splice(s.arg, i, 1, <<WithArg(c, Prefix(c.arg, j)),
                                                     WithArg(c, Drop(c.arg, j))>>))
    <3>1. ApplyAt(s, m) = x
      BY <2>3, SplitEffect
    <3>2. ApplyAt(s, v) = x
      <4>1. v.k = "split" /\ i = Index(v) /\ j = Argument(v)
        BY <2>1, <2>3
      <4> HIDE DEF i, j
      <4> QED BY <4>1, SplitEffect
    <3> QED BY <3>1, <3>2, <2>2
  <2>4. CASE m.k = "join"
    <3> DEFINE x == WithArg(s, Splice(s.arg, i, 2, <<WithArg(c, c.arg \o d.arg)>>))
    <3>1. ApplyAt(s, m) = x
      BY <2>4, JoinEffect
    <3>2. ApplyAt(s, v) = x
      <4>1. v.k = "join" /\ i = Index(v)
        BY <2>1, <2>4
      <4> HIDE DEF i
      <4> QED BY <4>1, JoinEffect
    <3> QED BY <3>1, <3>2, <2>2
  <2>5. CASE m.k \in {"insert", "remove", "insert_node", "remove_node", "set_cursor"}
    <3>1. i = Index(v) /\ j = Argument(v) /\ m.k = v.k /\ m.t = v.t
      BY <2>1
    <3>2. ApplyAt(s, m) = ApplyAt(s, v)
      <4> DEFINE u == m.t
      <4>1. v.t = u
        BY <3>1
      <4>2. CASE m.k = "insert"
        <5>1. ApplyAt(s, m) = WithArg(s, Splice(s.arg, i, 0, u.arg))
          BY <4>2, Effects
        <5> HIDE DEF i, u
        <5>3. v.k = "insert" /\ Index(v) = i /\ v.t.arg = u.arg
          BY <3>1, <4>1, <4>2
        <5>4. ApplyAt(s, v) = WithArg(s, Splice(s.arg, Index(v), 0, v.t.arg))
          BY <5>3, Effects
        <5>2. ApplyAt(s, v) = WithArg(s, Splice(s.arg, i, 0, u.arg))
          BY <5>3, <5>4
        <5> QED BY <5>1, <5>2
      <4>3. CASE m.k = "remove"
        <5>1. ApplyAt(s, m) = WithArg(s, Splice(s.arg, i, j, <<>>))
          BY <4>3, Effects
        <5> HIDE DEF i, j
        <5>2. ApplyAt(s, v) = WithArg(s, Splice(s.arg, i, j, <<>>))
          BY <3>1, <4>3, Effects, ZenonT(30)
        <5> QED BY <5>1, <5>2
      <4>4. CASE m.k = "insert_node"
        <5>1. ApplyAt(s, m) = WithArg(u, Splice(u.arg, j, 0, <<s>>))
          BY <4>4, Effects
        <5> HIDE DEF j, u
        <5>3. v.k = "insert_node" /\ Argument(v) = j
          BY <3>1, <4>4
        <5>2. ApplyAt(s, v) = WithArg(u, Splice(u.arg, j, 0, <<s>>))
          BY <5>3, <4>1, Effects
        <5> QED BY <5>1, <5>2
      <4>5. CASE m.k \in {"remove_node", "set_cursor"}
        <5>1. ApplyAt(s, m) = IF m.k = "remove_node" THEN s.arg[Index(m) + 1] ELSE s
          BY <4>5, Effects
        <5>2. ApplyAt(s, v) = IF v.k = "remove_node" THEN s.arg[Index(v) + 1] ELSE s
          BY <3>1, <4>5, Effects
        <5> QED BY <5>1, <5>2, <3>1
      <4> QED BY <4>2, <4>3, <4>4, <4>5, <2>5
    <3> QED BY <2>2, <3>2
  <2> QED BY <2>3, <2>4, <2>5, <1>1, <1>3 DEF Kinds
<1> QED BY <1>2, <1>3

(* The modification m, of the document below h.                            *)
Deep(h, m) == WithPath(m, h \o m.p)

LEMMA DeepFacts ==
  ASSUME NEW T, NEW m \in Modification(T), NEW h \in Seq(Nat)
  PROVE  /\ Deep(h, m) \in Modification(T)
         /\ Deep(h, m).k = m.k /\ Deep(h, m).p = h \o m.p /\ Deep(h, m).t = m.t
         /\ Root(Deep(h, m)) = h \o Root(m)
         /\ Extra(m.k) # 0 => /\ Index(Deep(h, m)) = Index(m)
                              /\ Argument(Deep(h, m)) = Argument(m)
<1> DEFINE v == Deep(h, m)
           e == Extra(m.k)
           a == Len(h)
           b == Len(m.p)
           p == h \o m.p
<1>1. m.k \in Kinds /\ m.p \in Seq(Nat) /\ b >= e /\ Root(m) \in Seq(Nat)
  BY ModFacts DEF Modification
<1>2. e \in 0 .. 2
  BY DEF Extra
<1>3. /\ p \in Seq(Nat) /\ Len(p) = a + b
      /\ \A n \in 1 .. a : p[n] = h[n]
      /\ \A n \in 1 .. b : p[a + n] = m.p[n]
  BY <1>1, LongPath
<1>4. a \in Nat /\ b \in Nat
  BY <1>1
<1> DEFINE c == b - e
<1> HIDE DEF a, b, e, p
<1>5. c \in Nat /\ c \in 0 .. b /\ a + c = (a + b) - e /\ a + c \in 0 .. a + b
  BY <1>1, <1>2, <1>4
<1>6. v \in Modification(T) /\ v.k = m.k /\ v.p = p /\ v.t = m.t
  <2>1. Len(p) >= e
    BY <1>1, <1>2, <1>3, <1>4
  <2> QED BY <2>1, <1>3, WithPathFacts, ZenonT(30) DEF Deep, e, p
<1>7. /\ Len(Root(m)) = c /\ \A n \in 1 .. c : Root(m)[n] = m.p[n]
  <2>1. Root(m) = Prefix(m.p, c)
    BY DEF Root, b, e
  <2> HIDE DEF c
  <2> QED BY <2>1, <1>1, <1>5, PrefixFacts DEF b
<1>8. /\ Root(v) \in Seq(Nat) /\ Len(Root(v)) = a + c
      /\ \A n \in 1 .. a + c : Root(v)[n] = p[n]
  <2> DEFINE N == a + c
  <2>1. Root(v) = Prefix(p, N)
    BY <1>3, <1>5, <1>6 DEF Root, e
  <2>2. N \in 0 .. Len(p)
    BY <1>3, <1>5
  <2> HIDE DEF N
  <2>3. /\ Root(v) \in Seq(Nat) /\ Len(Root(v)) = N
        /\ \A n \in 1 .. N : Root(v)[n] = p[n]
    BY <2>1, <2>2, <1>3, PrefixFacts
  <2> QED BY <2>3 DEF N
<1> HIDE DEF c, v
<1>9. Root(v) = h \o Root(m)
  <2> DEFINE q == h \o Root(m)
  <2>1. /\ q \in Seq(Nat) /\ Len(q) = a + c
        /\ \A n \in 1 .. a : q[n] = h[n]
        /\ \A n \in 1 .. c : q[a + n] = Root(m)[n]
    BY <1>1, <1>7, LongPath DEF a
  <2> HIDE DEF q
  <2>2. ASSUME NEW n \in 1 .. a + c PROVE Root(v)[n] = q[n]
    <3>1. CASE n \in 1 .. a
      BY <3>1, <1>3, <1>8, <2>1
    <3>2. CASE n \notin 1 .. a
      <4> DEFINE k == n - a
      <4>1. k \in 1 .. c /\ k \in 1 .. b /\ a + k = n
        BY <3>2, <1>4, <1>5
      <4> HIDE DEF k
      <4>2. p[n] = m.p[k] /\ q[n] = Root(m)[k]
        BY <4>1, <1>3, <2>1
      <4> QED BY <4>1, <4>2, <1>7, <1>8
    <3> QED BY <3>1, <3>2
  <2>3. Root(v) = q
    <3> DEFINE N == a + c
    <3>1. Len(Root(v)) = N /\ Len(q) = N /\ \A n \in 1 .. N : Root(v)[n] = q[n]
      BY <1>8, <2>1, <2>2
    <3> HIDE DEF N
    <3> QED BY <3>1, <1>8, <2>1, SeqEqual
  <2> QED BY <2>3 DEF q
<1>10. ASSUME e # 0
       PROVE  Index(v) = Index(m) /\ Argument(v) = Argument(m)
  <2>1. c + 1 \in 1 .. b /\ b \in 1 .. b /\ (a + c) + 1 = a + (c + 1)
    BY <1>1, <1>2, <1>4, <1>10 DEF c
  <2>2. Index(v) = p[a + (c + 1)] /\ Index(m) = m.p[c + 1]
    BY <2>1, <1>6, <1>7, <1>8 DEF Index
  <2>3. Argument(v) = p[a + b] /\ Argument(m) = m.p[b]
    BY <1>3, <1>6 DEF Argument, b
  <2> QED BY <2>1, <2>2, <2>3, <1>3
<1> QED BY <1>6, <1>9, <1>10 DEF v, e, p

(* m can be applied to s and makes x of it.                                *)
Does(s, m, x) == IsApplicable(s, m) /\ CleanApply(s, m) = x

(* What is put where m acts is a tree.                                     *)
LEMMA NodeInTrees ==
  ASSUME NEW T, IsTrees(T), NEW t \in T, NEW m \in Modification(T), IsApplicable(t, m)
  PROVE  /\ SubTree(t, Root(m)) \in T /\ ApplyAt(SubTree(t, Root(m)), m) \in T
         /\ CleanApply(t, m) \in T
<1> DEFINE p == Root(m)
           s == SubTree(t, p)
           r == ApplyAt(s, m)
           x == Put(t, p, r)
<1>1. p \in Seq(Nat) /\ HasSubTree(t, p) /\ CanApply(s, m)
  BY ModFacts DEF IsApplicable
<1>2. s \in T
  BY <1>1, PutFacts
<1>3. r \in T => SubTree(x, p) = r
  BY <1>1, PutFacts
<1> HIDE DEF s, r, x
<1>4. ASSUME LosesLabelAt(m, s) PROVE r \in T
  <2>1. m.k = "join"
    BY <1>4 DEF LosesLabelAt
  <2>2. CanApply(s, m)
    BY <1>1 DEF s
  <2> QED BY <2>1, <2>2, <1>2, JoinInTrees DEF r
<1>5. ASSUME ~LosesLabelAt(m, s) PROVE r \in T
  <2>1. Setting(T, t, x, m, s, r)
    BY <1>1, <1>2, <1>3 DEF Setting, s, r
  <2> QED BY <2>1, <1>5, EachKind DEF Restores
<1>6. CleanApply(t, m) \in T
  BY ApplyInTrees
<1> QED BY <1>2, <1>4, <1>5, <1>6 DEF s, r

(* What a modification does to the document below h.                       *)
LEMMA DeepDoes ==
  ASSUME NEW T, IsTrees(T), NEW t \in T, NEW m \in Modification(T), NEW h \in Seq(Nat)
  PROVE  /\ IsApplicable(t, Deep(h, m)) <=>
              HasSubTree(t, h) /\ IsApplicable(SubTree(t, h), m)
         /\ IsApplicable(t, Deep(h, m)) =>
              CleanApply(t, Deep(h, m)) = Put(t, h, CleanApply(SubTree(t, h), m))
<1> DEFINE v == Deep(h, m)
           s == SubTree(t, h)
           r == SubTree(s, Root(m))
<1>1. /\ v \in Modification(T) /\ Root(m) \in Seq(Nat)
      /\ v.k = m.k /\ v.t = m.t /\ Root(v) = h \o Root(m)
      /\ Extra(m.k) # 0 => Index(v) = Index(m) /\ Argument(v) = Argument(m)
  BY DeepFacts, ModFacts
<1> HIDE DEF v
<1>2. SubTree(t, Root(v)) = r
  BY <1>1, SubTreeLong
<1>3. HasSubTree(t, Root(v)) <=> HasSubTree(t, h) /\ HasSubTree(s, Root(m))
  BY <1>1, SubTreeLong
<1> HIDE DEF r
<1>4. CanApply(r, m) = CanApply(r, v) /\ ApplyAt(r, m) = ApplyAt(r, v)
  BY <1>1, SameEffect
<1>5. IsApplicable(t, v) <=> HasSubTree(t, h) /\ IsApplicable(s, m)
  BY <1>2, <1>3, <1>4 DEF IsApplicable, r
<1>6. ASSUME IsApplicable(t, v) PROVE CleanApply(t, v) = Put(t, h, CleanApply(s, m))
  <2>1. HasSubTree(t, h \o Root(m)) /\ CanApply(r, m) /\ HasSubTree(t, h) /\ HasSubTree(s, Root(m))
    BY <1>1, <1>3, <1>5, <1>6 DEF IsApplicable, r
  <2>2. CleanApply(s, m) = Put(s, Root(m), ApplyAt(r, m))
    BY DEF CleanApply, r
  <2>3. CleanApply(t, v) = Put(t, h \o Root(m), ApplyAt(r, m))
    BY <1>1, <1>2, <1>4 DEF CleanApply
  <2>4. s \in T /\ r \in T
    BY <1>1, <2>1, PutFacts DEF r
  <2>5. ApplyAt(r, m) \in T
    <3>1. IsApplicable(s, m)
      BY <1>5, <1>6
    <3> HIDE DEF s
    <3> QED BY <2>4, <3>1, NodeInTrees DEF r
  <2> HIDE DEF s
  <2>6. Put(t, h \o Root(m), ApplyAt(r, m)) = Put(t, h, Put(s, Root(m), ApplyAt(r, m)))
    BY <1>1, <2>1, <2>5, PutLong DEF s
  <2> QED BY <2>2, <2>3, <2>6 DEF s
<1> QED BY <1>5, <1>6 DEF v, s

-----------------------------------------------------------------------------
(* At the root of the document, and just below it *)

LEMMA PutEnds ==
  ASSUME NEW s, NEW p \in Seq(Nat), NEW u
  PROVE  /\ Len(p) = 0 => Put(s, p, u) = u
         /\ Len(p) = 1 => Put(s, p, u) = WithChild(s, p[1], u)
<1>1. Put(s, p, u) = Rebuilt(s, p, u)[0] /\ Rebuilt(s, p, u)[Len(p)] = u
  BY RebuiltEnds
<1>2. ASSUME Len(p) = 1 PROVE Put(s, p, u) = WithChild(s, p[1], u)
  <2>1. Along(s, p)[0] = s
    BY AlongFacts
  <2>2. 0 \in 0 .. Len(p) - 1 /\ 0 + 1 = 1
    BY <1>2
  <2>3. Rebuilt(s, p, u)[0] = WithChild(Along(s, p)[0], p[0 + 1], Rebuilt(s, p, u)[0 + 1])
    BY <2>2, RebuiltStep
  <2> QED BY <2>1, <2>2, <2>3, <1>1, <1>2
<1> QED BY <1>1, <1>2

LEMMA EmptyPath ==
  ASSUME NEW s, NEW u
  PROVE  HasSubTree(s, <<>>) /\ SubTree(s, <<>>) = s /\ Put(s, <<>>, u) = u
<1> DEFINE p == <<>>
<1>1. p \in Seq(Nat) /\ Len(p) = 0
  OBVIOUS
<1> HIDE DEF p
<1>2. SubTree(s, p) = s
  BY <1>1, AlongFacts
<1>3. HasSubTree(s, p)
  BY <1>1 DEF HasSubTree
<1>4. Put(s, p, u) = u
  BY <1>1, PutEnds
<1> QED BY <1>2, <1>3, <1>4 DEF p

LEMMA PutChild ==
  ASSUME NEW s, NEW i \in Nat, NEW u
  PROVE  Put(s, <<i>>, u) = WithChild(s, i, u)
<1> DEFINE p == <<i>>
<1>1. p \in Seq(Nat) /\ Len(p) = 1 /\ p[1] = i
  OBVIOUS
<1> HIDE DEF p
<1>2. Put(s, p, u) = WithChild(s, p[1], u)
  BY <1>1, PutEnds
<1> QED BY <1>1, <1>2 DEF p

(* A modification of the whole document.                                   *)
LEMMA RootDoes ==
  ASSUME NEW m, AtRoot(m), NEW s
  PROVE  (IsApplicable(s, m) <=> CanApply(s, m)) /\ CleanApply(s, m) = ApplyAt(s, m)
<1>1. Root(m) = <<>>
  BY DEF AtRoot
<1>2. HasSubTree(s, Root(m)) /\ SubTree(s, Root(m)) = s
  BY <1>1, EmptyPath
<1>3. Put(s, Root(m), ApplyAt(s, m)) = ApplyAt(s, m)
  BY <1>1, EmptyPath
<1> QED BY <1>2, <1>3 DEF IsApplicable, CleanApply

LEMMA RootForm ==
  ASSUME NEW T, NEW m \in Modification(T), AtRoot(m)
  PROVE  /\ m.p \in Seq(Nat) /\ Len(m.p) = Extra(m.k)
         /\ Extra(m.k) # 0 => Index(m) = m.p[1] /\ m.p[1] \in Nat
         /\ Extra(m.k) = 2 => Argument(m) = m.p[2] /\ m.p[2] \in Nat
<1> DEFINE e == Extra(m.k)
           b == Len(m.p)
<1>1. m.p \in Seq(Nat) /\ b >= e
  BY DEF Modification
<1>2. b \in Nat
  BY <1>1
<1>3. e \in 0 .. 2
  BY DEF Extra
<1> HIDE DEF b, e
<1>4. Len(Root(m)) = b - e
  <2>1. b - e \in 0 .. Len(m.p)
    BY <1>1, <1>2, <1>3 DEF b
  <2>2. Root(m) = Prefix(m.p, b - e)
    BY DEF Root, b, e
  <2> QED BY <2>1, <2>2, <1>1, PrefixFacts
<1>5. Len(Root(m)) = 0
  BY DEF AtRoot
<1>6. b = e
  BY <1>2, <1>3, <1>4, <1>5
<1>7. e # 0 => 1 \in 1 .. b
  BY <1>3, <1>6
<1>8. e = 2 => 2 \in 1 .. b /\ b = 2
  BY <1>6
<1>9. e # 0 => m.p[1] \in Nat
  BY <1>1, <1>7 DEF b
<1>10. e = 2 => m.p[2] \in Nat
  BY <1>1, <1>8 DEF b
<1>11. Index(m) = m.p[0 + 1] /\ Argument(m) = m.p[b]
  BY <1>5 DEF Index, Argument, b
<1> QED BY <1>1, <1>6, <1>8, <1>9, <1>10, <1>11 DEF b, e

LEMMA OneAndMore ==
  ASSUME NEW i \in Nat, NEW p \in Seq(Nat)
  PROVE  /\ <<i>> \o p \in Seq(Nat) /\ Len(<<i>> \o p) = 1 + Len(p)
         /\ (<<i>> \o p)[1] = i /\ \A n \in 1 .. Len(p) : (<<i>> \o p)[1 + n] = p[n]
         /\ <<i>> \o p # <<>> /\ Tail(<<i>> \o p) = p
<1> DEFINE h == <<i>>
           q == h \o p
<1>1. h \in Seq(Nat) /\ Len(h) = 1 /\ h[1] = i
  OBVIOUS
<1> HIDE DEF h
<1>2. /\ q \in Seq(Nat) /\ Len(q) = 1 + Len(p)
      /\ \A n \in 1 .. 1 : q[n] = h[n]
      /\ \A n \in 1 .. Len(p) : q[1 + n] = p[n]
  <2>1. /\ q \in Seq(Nat) /\ Len(q) = Len(h) + Len(p)
        /\ \A n \in 1 .. Len(h) : q[n] = h[n]
        /\ \A n \in 1 .. Len(p) : q[Len(h) + n] = p[n]
    BY <1>1, LongPath
  <2> QED BY <2>1, <1>1
<1> HIDE DEF q
<1>3. q[1] = i /\ q # <<>>
  BY <1>1, <1>2
<1>4. Tail(q) = p
  <2>1. Tail(q) \in Seq(Nat) /\ Len(Tail(q)) = Len(p)
    BY <1>2, <1>3
  <2>2. \A n \in 1 .. Len(p) : Tail(q)[n] = p[n]
    BY <1>2, <1>3
  <2> QED BY <2>1, <2>2, SeqEqual
<1> QED BY <1>2, <1>3, <1>4 DEF h, q

LEMMA FirstAndRest ==
  ASSUME NEW p \in Seq(Nat), p # <<>>
  PROVE  /\ p[1] \in Nat /\ Tail(p) \in Seq(Nat) /\ Len(p) = 1 + Len(Tail(p))
         /\ <<p[1]>> \o Tail(p) = p
<1>1. p[1] \in Nat /\ Tail(p) \in Seq(Nat) /\ Len(p) = 1 + Len(Tail(p)) /\ Len(p) \in Nat
  OBVIOUS
<1> DEFINE i == p[1]
           r == Tail(p)
           q == <<i>> \o r
<1>2. \A n \in 1 .. Len(r) : r[n] = p[1 + n]
  BY <1>1
<1> HIDE DEF i, r
<1>3. /\ q \in Seq(Nat) /\ Len(q) = 1 + Len(r)
      /\ q[1] = i /\ \A n \in 1 .. Len(r) : q[1 + n] = r[n]
  BY <1>1, OneAndMore DEF i, r
<1> HIDE DEF q
<1>4. ASSUME NEW n \in 1 .. Len(p) PROVE q[n] = p[n]
  <2>1. CASE n = 1
    BY <2>1, <1>3 DEF i
  <2>2. CASE n # 1
    <3> DEFINE k == n - 1
    <3>1. k \in 1 .. Len(r) /\ 1 + k = n
      BY <2>2, <1>1 DEF r
    <3> HIDE DEF k
    <3> QED BY <3>1, <1>2, <1>3
  <2> QED BY <2>1, <2>2
<1>5. q = p
  BY <1>1, <1>3, <1>4, SeqEqual DEF r
<1> QED BY <1>1, <1>5 DEF q, i, r

(* A modification below child i.                                           *)
LEMMA UnderFacts ==
  ASSUME NEW T, NEW m \in Modification(T), NEW i \in Nat
  PROVE  /\ Under(i, m) \in Modification(T) /\ Under(i, m) = Deep(<<i>>, m)
         /\ Under(i, m).k = m.k /\ Under(i, m).t = m.t
         /\ Under(i, m).p = <<i>> \o m.p /\ Under(i, m).p # <<>>
         /\ Under(i, m).p[1] = i /\ Tail(Under(i, m).p) = m.p
         /\ ~AtRoot(Under(i, m)) /\ Root(Under(i, m)) = <<i>> \o Root(m)
<1>1. <<i>> \in Seq(Nat) /\ m.p \in Seq(Nat) /\ Root(m) \in Seq(Nat)
  BY ModFacts
<1>2. Under(i, m) = Deep(<<i>>, m)
  BY DEF Under, Deep, WithPath
<1> DEFINE h == <<i>>
<1>3. h \in Seq(Nat)
  BY <1>1
<1> HIDE DEF h
<1>4. /\ Deep(h, m) \in Modification(T)
      /\ Deep(h, m).k = m.k /\ Deep(h, m).p = h \o m.p /\ Deep(h, m).t = m.t
      /\ Root(Deep(h, m)) = h \o Root(m)
  BY <1>3, DeepFacts
<1>5. /\ <<i>> \o m.p # <<>> /\ (<<i>> \o m.p)[1] = i /\ Tail(<<i>> \o m.p) = m.p
      /\ <<i>> \o Root(m) # <<>>
  BY <1>1, OneAndMore
<1> QED BY <1>2, <1>4, <1>5 DEF h, AtRoot

LEMMA UnderDoes ==
  ASSUME NEW T, IsTrees(T), NEW s \in T, NEW m \in Modification(T), NEW i \in Nat
  PROVE  /\ IsApplicable(s, Under(i, m)) <=>
              /\ ~IsAtomic(s) /\ i \in 0 .. Arity(s) - 1
              /\ IsApplicable(s.arg[i + 1], m)
         /\ IsApplicable(s, Under(i, m)) =>
              CleanApply(s, Under(i, m)) = WithChild(s, i, CleanApply(s.arg[i + 1], m))
<1> DEFINE h == <<i>>
<1>1. h \in Seq(Nat) /\ Under(i, m) = Deep(h, m)
  BY UnderFacts
<1>2. /\ HasSubTree(s, h) <=> ~IsAtomic(s) /\ i \in 0 .. Arity(s) - 1
      /\ SubTree(s, h) = s.arg[i + 1]
  BY ChildAt
<1>3. \A u : Put(s, h, u) = WithChild(s, i, u)
  BY PutChild
<1> HIDE DEF h
<1>4. /\ IsApplicable(s, Deep(h, m)) <=> HasSubTree(s, h) /\ IsApplicable(SubTree(s, h), m)
      /\ IsApplicable(s, Deep(h, m)) =>
           CleanApply(s, Deep(h, m)) = Put(s, h, CleanApply(SubTree(s, h), m))
  BY <1>1, DeepDoes
<1> QED BY <1>1, <1>2, <1>3, <1>4

(* The modification of a child that v, which is not at the root, is.       *)
Below(v) == WithPath(v, Tail(v.p))

LEMMA BelowFacts ==
  ASSUME NEW T, NEW v \in Modification(T), ~AtRoot(v)
  PROVE  /\ v.p # <<>> /\ v.p[1] \in Nat /\ Below(v) \in Modification(T)
         /\ Below(v).k = v.k /\ v = Under(v.p[1], Below(v))
<1> DEFINE e == Extra(v.k)
           b == Len(v.p)
           i == v.p[1]
           m == Below(v)
<1>1. v.p \in Seq(Nat) /\ b >= e
  BY DEF Modification
<1>2. e \in 0 .. 2
  BY DEF Extra
<1>3. b \in Nat
  BY <1>1
<1> HIDE DEF b, e
<1>4. Len(Root(v)) = b - e /\ Root(v) \in Seq(Nat)
  <2>1. b - e \in 0 .. Len(v.p)
    BY <1>1, <1>2, <1>3 DEF b
  <2>2. Root(v) = Prefix(v.p, b - e)
    BY DEF Root, b, e
  <2> QED BY <2>1, <2>2, <1>1, PrefixFacts
<1>5. b - e # 0
  <2>1. Root(v) # <<>>
    BY DEF AtRoot
  <2>2. Len(Root(v)) # 0
    BY <2>1, <1>4
  <2> QED BY <2>2, <1>4
<1>6. b >= 1 + e
  BY <1>1, <1>2, <1>3, <1>5
<1>7. v.p # <<>>
  BY <1>1, <1>2, <1>6 DEF b
<1>8. i \in Nat /\ Tail(v.p) \in Seq(Nat) /\ b = 1 + Len(Tail(v.p)) /\ <<i>> \o Tail(v.p) = v.p
  BY <1>1, <1>7, FirstAndRest DEF b
<1>9. Len(Tail(v.p)) >= e
  <2> DEFINE l == Len(Tail(v.p))
  <2>1. l \in Nat /\ b = 1 + l
    BY <1>8
  <2> HIDE DEF l
  <2> QED BY <2>1, <1>2, <1>6 DEF l
<1>10. m \in Modification(T) /\ m.k = v.k /\ m.p = Tail(v.p) /\ m.t = v.t
  BY <1>8, <1>9, WithPathFacts DEF Below, e
<1> HIDE DEF i, m
<1>11. /\ Under(i, m) \in Modification(T) /\ Under(i, m).k = v.k /\ Under(i, m).t = v.t
       /\ Under(i, m).p = v.p
  <2>1. i \in Nat /\ m \in Modification(T)
    BY <1>8, <1>10
  <2>2. /\ Under(i, m) \in Modification(T) /\ Under(i, m).k = m.k /\ Under(i, m).t = m.t
        /\ Under(i, m).p = <<i>> \o m.p
    BY <2>1, UnderFacts, ZenonT(30)
  <2> QED BY <2>2, <1>8, <1>10
<1>12. v = Under(i, m)
  BY <1>11, SameMod
<1> QED BY <1>7, <1>8, <1>10, <1>12 DEF i, m

(* v is the same modification as m, e positions further on.                *)
IsShift(T, m, e, v) ==
  /\ v \in Modification(T) /\ v.k = m.k /\ v.t = m.t
  /\ v.p \in Seq(Nat) /\ Len(v.p) = Len(m.p) /\ v.p[1] = m.p[1] + e
  /\ \A n \in 2 .. Len(m.p) : v.p[n] = m.p[n]

LEMMA ShiftFacts ==
  ASSUME NEW T, NEW m \in Modification(T), NEW e \in Int, m.p # <<>>, m.p[1] + e \in Nat
  PROVE  IsShift(T, m, e, Shift(m, e))
<1>1. m \in [k : Kinds, p : Seq(Nat), t : T] /\ Len(m.p) >= Extra(m.k)
  BY DEF Modification
<1> DEFINE q == [m.p EXCEPT ![1] = @ + e]
<1>2. q \in Seq(Nat) /\ Len(q) = Len(m.p) /\ q[1] = m.p[1] + e
  BY <1>1
<1>3. \A n \in 2 .. Len(m.p) : q[n] = m.p[n]
  BY <1>1
<1>4. Shift(m, e) = WithPath(m, q)
  BY <1>1 DEF Shift, WithPath
<1> HIDE DEF q
<1>5. /\ WithPath(m, q) \in Modification(T)
      /\ WithPath(m, q).k = m.k /\ WithPath(m, q).p = q /\ WithPath(m, q).t = m.t
  BY <1>1, <1>2, WithPathFacts
<1>6. Shift(m, e).p = q
  BY <1>4, <1>5
<1> QED BY <1>2, <1>3, <1>4, <1>5, <1>6 DEF IsShift

LEMMA ShiftBack ==
  ASSUME NEW T, NEW m \in Modification(T), NEW e \in Int, m.p # <<>>, m.p[1] + e \in Nat
  PROVE  Shift(Shift(m, e), -e) = m /\ Shift(m, 0) = m
<1> DEFINE v == Shift(m, e)
           z == Shift(v, -e)
           y == Shift(m, 0)
<1>1. m.p \in Seq(Nat)
  BY DEF Modification
<1>2. m.p[1] \in Nat
  BY <1>1
<1>0. IsShift(T, m, e, v)
  BY ShiftFacts
<1> HIDE DEF v
<1>3. /\ v \in Modification(T) /\ v.k = m.k /\ v.t = m.t
      /\ v.p \in Seq(Nat) /\ Len(v.p) = Len(m.p) /\ v.p[1] = m.p[1] + e
      /\ \A n \in 2 .. Len(m.p) : v.p[n] = m.p[n]
  BY <1>0 DEF IsShift
<1>4. v.p # <<>> /\ v.p[1] + (-e) = m.p[1] /\ -e \in Int
  BY <1>1, <1>2, <1>3
<1>5. /\ z \in Modification(T) /\ z.k = v.k /\ z.t = v.t
      /\ z.p \in Seq(Nat) /\ Len(z.p) = Len(v.p) /\ z.p[1] = v.p[1] + (-e)
      /\ \A n \in 2 .. Len(v.p) : z.p[n] = v.p[n]
  <2>1. IsShift(T, v, -e, z)
    <3>1. v.p[1] + (-e) \in Nat
      BY <1>2, <1>4
    <3> QED BY <3>1, <1>3, <1>4, ShiftFacts
  <2> HIDE DEF z
  <2> QED BY <2>1 DEF IsShift
<1>6. m.p[1] + 0 = m.p[1] /\ 0 \in Int
  BY <1>2
<1>7. /\ y \in Modification(T) /\ y.k = m.k /\ y.t = m.t
      /\ y.p \in Seq(Nat) /\ Len(y.p) = Len(m.p) /\ y.p[1] = m.p[1] + 0
      /\ \A n \in 2 .. Len(m.p) : y.p[n] = m.p[n]
  <2>1. IsShift(T, m, 0, y)
    BY <1>2, <1>6, ShiftFacts
  <2> HIDE DEF y
  <2> QED BY <2>1 DEF IsShift
<1> HIDE DEF z, y
<1>8. z.p = m.p /\ y.p = m.p
  <2> DEFINE N == Len(m.p)
  <2>1. N \in Nat /\ \A n \in 1 .. N : n = 1 \/ n \in 2 .. N
    BY <1>1
  <2>2. \A n \in 1 .. N : z.p[n] = m.p[n] /\ y.p[n] = m.p[n]
    BY <2>1, <1>3, <1>4, <1>5, <1>6, <1>7
  <2>3. Len(z.p) = N /\ Len(y.p) = N
    BY <1>3, <1>5, <1>7
  <2>4. z.p = m.p
    BY <2>2, <2>3, <1>1, <1>5, SeqEqual
  <2>5. y.p = m.p
    BY <2>2, <2>3, <1>1, <1>7, SeqEqual
  <2> QED BY <2>4, <2>5
<1>9. z = m
  BY <1>3, <1>5, <1>8, SameMod
<1>10. y = m
  BY <1>7, <1>8, SameMod
<1> QED BY <1>9, <1>10 DEF z, y, v

-----------------------------------------------------------------------------
(* Two parts of a sequence replaced                                        *)

(* x is a with the n elements after i replaced by v, and the m elements    *)
(* after j by w, where the first part ends before the second begins.       *)
IsTwice(x, a, i, n, v, j, m, w) ==
  /\ Len(x) = Len(a) - n - m + Len(v) + Len(w)
  /\ \A k \in 1 .. i : x[k] = a[k]
  /\ \A k \in 1 .. Len(v) : x[i + k] = v[k]
  /\ \A k \in i + n + 1 .. j : x[k - n + Len(v)] = a[k]
  /\ \A k \in 1 .. Len(w) : x[j - n + Len(v) + k] = w[k]
  /\ \A k \in j + m + 1 .. Len(a) : x[k - n + Len(v) - m + Len(w)] = a[k]

(* n elements of x, after i, are those of y after j.                       *)
SamePart(x, i, y, j, n) == \A k \in 1 .. n : x[i + k] = y[j + k]

LEMMA TwiceUnique ==
  ASSUME NEW T, NEW a \in Seq(T), NEW v \in Seq(T), NEW w \in Seq(T),
         NEW i \in Nat, NEW n \in Nat, NEW j \in Nat, NEW m \in Nat,
         i + n <= j, j + m <= Len(a), NEW x \in Seq(T), NEW y \in Seq(T),
         IsTwice(x, a, i, n, v, j, m, w), IsTwice(y, a, i, n, v, j, m, w)
  PROVE  x = y
<1> DEFINE la == Len(a)
           lv == Len(v)
           lw == Len(w)
           N == la - n - m + lv + lw
<1>1. la \in Nat /\ lv \in Nat /\ lw \in Nat /\ i + n <= j /\ j + m <= la
  OBVIOUS
<1>2. IsTwice(x, a, i, n, v, j, m, w) /\ IsTwice(y, a, i, n, v, j, m, w)
  OBVIOUS
<1>3. /\ Len(x) = N /\ Len(y) = N
      /\ \A k \in 1 .. i : x[k] = y[k]
      /\ \A k \in 1 .. lv : x[i + k] = y[i + k]
      /\ \A k \in i + n + 1 .. j : x[k - n + lv] = y[k - n + lv]
      /\ \A k \in 1 .. lw : x[j - n + lv + k] = y[j - n + lv + k]
      /\ \A k \in j + m + 1 .. la : x[k - n + lv - m + lw] = y[k - n + lv - m + lw]
  BY <1>2, ZenonT(30) DEF IsTwice
<1> HIDE DEF la, lv, lw, N
<1>4. ASSUME NEW l \in 1 .. N PROVE x[l] = y[l]
  <2>1. CASE l \in 1 .. i
    BY <2>1, <1>3
  <2>2. CASE l \in i + 1 .. i + lv
    <3> DEFINE k == l - i
    <3>1. k \in 1 .. lv /\ i + k = l
      BY <2>2, <1>1
    <3> HIDE DEF k
    <3> QED BY <3>1, <1>3
  <2>3. CASE l \in i + lv + 1 .. j - n + lv
    <3> DEFINE k == l + n - lv
    <3>1. k \in i + n + 1 .. j /\ k - n + lv = l
      BY <2>3, <1>1
    <3> HIDE DEF k
    <3> QED BY <3>1, <1>3
  <2>4. CASE l \in j - n + lv + 1 .. j - n + lv + lw
    <3> DEFINE k == l - (j - n + lv)
    <3>1. k \in 1 .. lw /\ j - n + lv + k = l
      BY <2>4, <1>1
    <3> HIDE DEF k
    <3> QED BY <3>1, <1>3
  <2>5. CASE l \in j - n + lv + lw + 1 .. N
    <3> DEFINE k == l + n - lv + m - lw
    <3>1. k \in j + m + 1 .. la /\ k - n + lv - m + lw = l
      BY <2>5, <1>1 DEF N
    <3> HIDE DEF k
    <3> QED BY <3>1, <1>3
  <2> QED BY <2>1, <2>2, <2>3, <2>4, <2>5, <1>1
<1> QED BY <1>3, <1>4, SeqEqual

LEMMA TwiceFromRight ==
  ASSUME NEW T, NEW a \in Seq(T), NEW v \in Seq(T), NEW w \in Seq(T),
         NEW i \in Nat, NEW n \in Nat, NEW j \in Nat, NEW m \in Nat,
         i + n <= j, j + m <= Len(a), NEW b \in Seq(T), NEW x \in Seq(T),
         IsSplice(b, a, j, m, w), IsSplice(x, b, i, n, v)
  PROVE  /\ IsTwice(x, a, i, n, v, j, m, w)
         /\ SamePart(b, i, a, i, n)
<1> DEFINE la == Len(a)
           lv == Len(v)
           lw == Len(w)
           lb == Len(b)
<1>1. la \in Nat /\ lv \in Nat /\ lw \in Nat /\ i + n <= j /\ j + m <= la
  OBVIOUS
<1>2. /\ lb = la - m + lw
      /\ \A k \in 1 .. j : b[k] = a[k]
      /\ \A k \in 1 .. lw : b[j + k] = w[k]
      /\ \A k \in j + m + 1 .. la : b[k - m + lw] = a[k]
  BY DEF IsSplice
<1>3. /\ Len(x) = lb - n + lv
      /\ \A k \in 1 .. i : x[k] = b[k]
      /\ \A k \in 1 .. lv : x[i + k] = v[k]
      /\ \A k \in i + n + 1 .. lb : x[k - n + lv] = b[k]
  BY DEF IsSplice
<1> HIDE DEF la, lv, lw, lb
<1>4. Len(x) = la - n - m + lv + lw
  <2>1. lb = la - m + lw /\ Len(x) = lb - n + lv
    BY <1>2, <1>3
  <2> QED BY <2>1, <1>1
<1>5. ASSUME NEW k \in 1 .. i PROVE x[k] = a[k]
  <2>1. k \in 1 .. j
    BY <1>1
  <2> QED BY <2>1, <1>2, <1>3
<1>6. ASSUME NEW k \in i + n + 1 .. j PROVE x[k - n + lv] = a[k]
  <2>1. k \in 1 .. j /\ k \in i + n + 1 .. lb
    BY <1>1, <1>2
  <2> QED BY <2>1, <1>2, <1>3
<1>7. ASSUME NEW k \in 1 .. lw PROVE x[j - n + lv + k] = w[k]
  <2> DEFINE q == j + k
  <2>1. q \in i + n + 1 .. lb /\ q - n + lv = j - n + lv + k
    BY <1>1, <1>2
  <2>2. b[q] = w[k]
    BY <1>2
  <2> HIDE DEF q
  <2> QED BY <2>1, <2>2, <1>3
<1>8. ASSUME NEW k \in j + m + 1 .. la PROVE x[k - n + lv - m + lw] = a[k]
  <2> DEFINE q == k - m + lw
  <2>1. q \in i + n + 1 .. lb /\ q - n + lv = k - n + lv - m + lw
    BY <1>1, <1>2
  <2>2. b[q] = a[k]
    BY <1>2
  <2> HIDE DEF q
  <2> QED BY <2>1, <2>2, <1>3
<1>9. ASSUME NEW k \in 1 .. n PROVE b[i + k] = a[i + k]
  <2> DEFINE q == i + k
  <2>1. q \in 1 .. j
    BY <1>1
  <2> HIDE DEF q
  <2>2. b[q] = a[q]
    BY <2>1, <1>2
  <2> QED BY <2>2 DEF q
<1> QED BY <1>3, <1>4, <1>5, <1>6, <1>7, <1>8, <1>9 DEF IsTwice, SamePart, la, lv, lw

LEMMA TwiceFromLeft ==
  ASSUME NEW T, NEW a \in Seq(T), NEW v \in Seq(T), NEW w \in Seq(T),
         NEW i \in Nat, NEW n \in Nat, NEW j \in Nat, NEW m \in Nat,
         i + n <= j, j + m <= Len(a), NEW c \in Seq(T), NEW x \in Seq(T),
         IsSplice(c, a, i, n, v), IsSplice(x, c, j - n + Len(v), m, w)
  PROVE  /\ IsTwice(x, a, i, n, v, j, m, w)
         /\ SamePart(c, j - n + Len(v), a, j, m)
<1> DEFINE la == Len(a)
           lv == Len(v)
           lw == Len(w)
           lc == Len(c)
           h == j - n + lv
<1>1. la \in Nat /\ lv \in Nat /\ lw \in Nat /\ i + n <= j /\ j + m <= la
  OBVIOUS
<1>2. /\ lc = la - n + lv
      /\ \A k \in 1 .. i : c[k] = a[k]
      /\ \A k \in 1 .. lv : c[i + k] = v[k]
      /\ \A k \in i + n + 1 .. la : c[k - n + lv] = a[k]
  BY DEF IsSplice
<1>3. /\ Len(x) = lc - m + lw
      /\ \A k \in 1 .. h : x[k] = c[k]
      /\ \A k \in 1 .. lw : x[h + k] = w[k]
      /\ \A k \in h + m + 1 .. lc : x[k - m + lw] = c[k]
  BY DEF IsSplice
<1> HIDE DEF la, lv, lw, lc
<1>0. h \in Nat /\ h >= i + lv /\ h + m <= lc
  <2>1. lc = la - n + lv
    BY <1>2
  <2> QED BY <2>1, <1>1
<1>4. Len(x) = la - n - m + lv + lw
  BY <1>1, <1>2, <1>3
<1>5. ASSUME NEW k \in 1 .. i PROVE x[k] = a[k]
  <2>1. k \in 1 .. h
    BY <1>0, <1>1
  <2> HIDE DEF h
  <2> QED BY <2>1, <1>2, <1>3
<1>6. ASSUME NEW k \in 1 .. lv PROVE x[i + k] = v[k]
  <2> DEFINE q == i + k
  <2>1. q \in 1 .. h
    BY <1>0, <1>1
  <2>2. c[q] = v[k]
    BY <1>2
  <2> HIDE DEF q, h
  <2>3. x[q] = v[k]
    BY <2>1, <2>2, <1>3
  <2> QED BY <2>3 DEF q
<1>7. ASSUME NEW k \in i + n + 1 .. j PROVE x[k - n + lv] = a[k]
  <2> DEFINE q == k - n + lv
  <2>1. q \in 1 .. h /\ k \in i + n + 1 .. la
    BY <1>1
  <2>2. c[q] = a[k]
    BY <2>1, <1>2
  <2> HIDE DEF q, h
  <2>3. x[q] = a[k]
    BY <2>1, <2>2, <1>3
  <2> QED BY <2>3 DEF q
<1>8. ASSUME NEW k \in j + m + 1 .. la PROVE x[k - n + lv - m + lw] = a[k]
  <2> DEFINE q == k - n + lv
  <2>1. /\ q \in h + m + 1 .. lc /\ k \in i + n + 1 .. la
        /\ q - m + lw = k - n + lv - m + lw
    BY <1>1, <1>2
  <2>2. c[q] = a[k]
    BY <2>1, <1>2
  <2> HIDE DEF q, h
  <2>3. x[q - m + lw] = a[k]
    BY <2>1, <2>2, <1>3
  <2> QED BY <2>1, <2>3
<1>9. ASSUME NEW k \in 1 .. m PROVE c[h + k] = a[j + k]
  <2> DEFINE q == j + k
  <2>1. q \in i + n + 1 .. la /\ q - n + lv = h + k
    BY <1>1
  <2> HIDE DEF q, h
  <2>2. c[h + k] = a[q]
    BY <2>1, <1>2
  <2> QED BY <2>2 DEF q
<1> QED BY <1>3, <1>4, <1>5, <1>6, <1>7, <1>8, <1>9 DEF IsTwice, SamePart, la, lv, lw

(* The order in which two parts are replaced does not matter: b is a with  *)
(* the second one replaced, c is a with the first one, and h is where the  *)
(* second one is in c.                                                     *)
Apart(T, a, i, n, v, j, m, w, b, c, h) ==
  /\ b \in Seq(T) /\ c \in Seq(T) /\ h \in Nat
  /\ SamePart(b, i, a, i, n) /\ SamePart(c, h, a, j, m)
  /\ Splice(b, i, n, v) = Splice(c, h, m, w)

LEMMA SplicesApart ==
  ASSUME NEW T, NEW a \in Seq(T), NEW v \in Seq(T), NEW w \in Seq(T),
         NEW i \in Nat, NEW n \in Nat, NEW j \in Nat, NEW m \in Nat,
         i + n <= j, j + m <= Len(a)
  PROVE  Apart(T, a, i, n, v, j, m, w, Splice(a, j, m, w), Splice(a, i, n, v), j - n + Len(v))
<1> DEFINE b == Splice(a, j, m, w)
           c == Splice(a, i, n, v)
           h == j - n + Len(v)
           x == Splice(b, i, n, v)
           y == Splice(c, h, m, w)
           la == Len(a)
           lv == Len(v)
           lw == Len(w)
<1>1. la \in Nat /\ lv \in Nat /\ lw \in Nat /\ i + n <= j /\ j + m <= la
  OBVIOUS
<1>2. i + n <= la
  <2> HIDE DEF la
  <2> QED BY <1>1
<1>3. b \in Seq(T) /\ IsSplice(b, a, j, m, w)
  BY SpliceFacts
<1>4. c \in Seq(T) /\ IsSplice(c, a, i, n, v)
  BY <1>2, SpliceFacts
<1> HIDE DEF b, c
<1>5. Len(b) = la - m + lw /\ Len(c) = la - n + lv
  BY <1>3, <1>4 DEF IsSplice
<1> HIDE DEF la, lw, lv
<1>6. i + n <= Len(b) /\ (j - n + lv) \in Nat /\ (j - n + lv) + m <= Len(c)
  BY <1>1, <1>5
<1>7. x \in Seq(T) /\ IsSplice(x, b, i, n, v)
  BY <1>3, <1>6, SpliceFacts
<1>8. h \in Nat /\ h + m <= Len(c)
  BY <1>6 DEF lv
<1>9. y \in Seq(T) /\ IsSplice(y, c, h, m, w)
  <2> HIDE DEF h
  <2> QED BY <1>4, <1>8, SpliceFacts
<1> HIDE DEF x, y
<1>10. IsTwice(x, a, i, n, v, j, m, w) /\ SamePart(b, i, a, i, n)
  BY <1>3, <1>7, TwiceFromRight
<1>11. IsTwice(y, a, i, n, v, j, m, w) /\ SamePart(c, h, a, j, m)
  BY <1>4, <1>9, TwiceFromLeft
<1>12. x = y
  BY <1>7, <1>9, <1>10, <1>11, TwiceUnique
<1> HIDE DEF h
<1>13. Apart(T, a, i, n, v, j, m, w, b, c, h)
  BY <1>3, <1>4, <1>8, <1>10, <1>11, <1>12 DEF x, y, Apart
<1> QED BY <1>13 DEF b, c, h

(* A change of one element is a splice.                                    *)
LEMMA ChangedIsSplice ==
  ASSUME NEW T, NEW a \in Seq(T), NEW j \in Nat, j + 1 <= Len(a), NEW v \in T
  PROVE  Changed(a, j, v) = Splice(a, j, 1, <<v>>)
<1> DEFINE la == Len(a)
           new == <<v>>
           x == Changed(a, j, v)
           y == Splice(a, j, 1, new)
<1>1. la \in Nat /\ new \in Seq(T) /\ Len(new) = 1 /\ new[1] = v
  OBVIOUS
<1>2. x \in Seq(T) /\ Len(x) = la /\ x[j + 1] = v /\ \A k \in 1 .. la : k # j + 1 => x[k] = a[k]
  BY DEF Changed
<1> HIDE DEF x, new
<1>3. y \in Seq(T) /\ IsSplice(y, a, j, 1, new)
  BY <1>1, SpliceFacts
<1> HIDE DEF y
<1>4. /\ Len(y) = la - 1 + Len(new)
      /\ \A k \in 1 .. j : y[k] = a[k]
      /\ \A k \in 1 .. Len(new) : y[j + k] = new[k]
      /\ \A k \in j + 1 + 1 .. la : y[k - 1 + Len(new)] = a[k]
  BY <1>3 DEF IsSplice
<1> HIDE DEF la
<1>5. Len(y) = la
  <2>1. Len(y) = la - 1 + Len(new)
    BY <1>4
  <2> QED BY <2>1, <1>1
<1>6. ASSUME NEW k \in 1 .. la PROVE x[k] = y[k]
  <2>1. CASE k \in 1 .. j
    BY <2>1, <1>2, <1>4
  <2>2. CASE k = j + 1
    <3>1. 1 \in 1 .. Len(new)
      BY <1>1
    <3> QED BY <2>2, <3>1, <1>1, <1>2, <1>4
  <2>3. CASE k \in j + 1 + 1 .. la
    <3>1. y[k - 1 + Len(new)] = a[k] /\ k - 1 + Len(new) = k /\ k # j + 1
      BY <2>3, <1>1, <1>4
    <3> QED BY <3>1, <1>2
  <2> QED BY <2>1, <2>2, <2>3, <1>1
<1>7. x = y
  BY <1>2, <1>3, <1>5, <1>6, SeqEqual
<1> QED BY <1>7 DEF x, y, new

-----------------------------------------------------------------------------
(* The four kinds that change the list of children of a node               *)

ListKinds == {"insert", "remove", "split", "join"}

(* How many children m, at the root of s, replaces, and by which ones.     *)
OldLen(m) == CASE m.k = "insert" -> 0
               [] m.k = "remove" -> m.p[2]
               [] m.k = "split"  -> 1
               [] m.k = "join"   -> 2

NewPart(m, c, d) ==
  CASE m.k = "insert" -> m.t.arg
    [] m.k = "remove" -> <<>>
    [] m.k = "split"  -> <<WithArg(c, Prefix(c.arg, m.p[2])), WithArg(c, Drop(c.arg, m.p[2]))>>
    [] m.k = "join"   -> <<WithArg(c, c.arg \o d.arg)>>

(* By how many children the list grows.                                    *)
Growth(m) == CASE m.k = "insert" -> Arity(m.t)
               [] m.k = "remove" -> -m.p[2]
               [] m.k = "split"  -> 1
               [] m.k = "join"   -> -1

(* m replaces n children of s after position i by those in w.              *)
IsEdit(T, m, s, i, n, w) ==
  /\ m \in Modification(T) /\ m.k \in ListKinds /\ AtRoot(m)
  /\ m.p # <<>> /\ m.p[1] = i /\ i \in Nat /\ n = OldLen(m) /\ n \in Nat
  /\ i + n <= Arity(s) /\ w \in Seq(T) /\ Growth(m) = Len(w) - n
  /\ w = NewPart(m, s.arg[i + 1], s.arg[i + 2])
  /\ CanApply(s, m) /\ ApplyAt(s, m) = Spliced(s, i, n, w)

LEMMA SplitParts ==
  ASSUME NEW T, IsTrees(T), NEW c \in T, NEW j \in 0 .. Arity(c)
  PROVE  WithArg(c, Prefix(c.arg, j)) \in T /\ WithArg(c, Drop(c.arg, j)) \in T
<1>1. c.arg \in Seq(T) /\ c = Node(c.op, c.arg) /\ \A as \in Seq(T) : Node(c.op, as) \in T
  BY NodeFacts
<1>2. Prefix(c.arg, j) \in Seq(T) /\ Drop(c.arg, j) \in Seq(T)
  BY <1>1, CutFacts DEF Arity
<1>3. /\ WithArg(c, Prefix(c.arg, j)) = Node(c.op, Prefix(c.arg, j))
      /\ WithArg(c, Drop(c.arg, j)) = Node(c.op, Drop(c.arg, j))
  BY <1>1, WithArgNode
<1> QED BY <1>1, <1>2, <1>3

LEMMA JoinPart ==
  ASSUME NEW T, IsTrees(T), NEW c \in T, NEW d \in T
  PROVE  WithArg(c, c.arg \o d.arg) \in T
<1>1. /\ c.arg \in Seq(T) /\ d.arg \in Seq(T) /\ c = Node(c.op, c.arg)
      /\ \A as \in Seq(T) : Node(c.op, as) \in T
  BY NodeFacts
<1>2. c.arg \o d.arg \in Seq(T)
  BY <1>1, GlueFacts
<1>3. WithArg(c, c.arg \o d.arg) = Node(c.op, c.arg \o d.arg)
  BY <1>1, WithArgNode
<1> QED BY <1>1, <1>2, <1>3

(* When m can be applied, by its kind, in terms of the list of children.   *)
Fits(m, s, i, c, d) ==
  /\ m.k = "insert" => i <= Arity(s) /\ IsAtomic(s) = IsAtomic(m.t)
  /\ m.k = "remove" => i + m.p[2] <= Arity(s)
  /\ m.k = "split"  => ~IsAtomic(s) /\ i + 1 <= Arity(s) /\ m.p[2] \in 0 .. Arity(c)
  /\ m.k = "join"   => ~IsAtomic(s) /\ i + 2 <= Arity(s) /\ IsAtomic(c) = IsAtomic(d)

LEMMA EditForm ==
  ASSUME NEW T, NEW m \in Modification(T), m.k \in ListKinds, AtRoot(m)
  PROVE  /\ m.p # <<>> /\ Index(m) = m.p[1] /\ m.p[1] \in Nat
         /\ m.k \in {"remove", "split"} => Argument(m) = m.p[2] /\ m.p[2] \in Nat
<1>1. /\ m.p \in Seq(Nat) /\ Len(m.p) = Extra(m.k)
      /\ Extra(m.k) # 0 => Index(m) = m.p[1] /\ m.p[1] \in Nat
      /\ Extra(m.k) = 2 => Argument(m) = m.p[2] /\ m.p[2] \in Nat
  BY RootForm
<1>2. Extra(m.k) # 0 /\ (m.k \in {"remove", "split"} => Extra(m.k) = 2)
  BY DEF Extra, ListKinds
<1>3. m.p # <<>>
  <2>1. Len(m.p) # 0
    BY <1>1, <1>2
  <2> QED BY <2>1
<1> QED BY <1>1, <1>2, <1>3

LEMMA EditFits ==
  ASSUME NEW T, IsTrees(T), NEW s \in T, NEW m \in Modification(T), m.k \in ListKinds, AtRoot(m),
         NEW i, i = m.p[1]
  PROVE  CanApply(s, m) <=> Fits(m, s, i, s.arg[i + 1], s.arg[i + 2])
<1>1. /\ i \in Nat /\ Index(m) = i
      /\ m.k \in {"remove", "split"} => Argument(m) = m.p[2] /\ m.p[2] \in Nat
  BY EditForm
<1>2. Arity(s) \in Nat
  BY NodeFacts
<1>3. /\ HasSubTree(s, <<i>>) <=> ~IsAtomic(s) /\ i \in 0 .. Arity(s) - 1
      /\ SubTree(s, <<i>>) = s.arg[i + 1]
  BY <1>1, ChildAt
<1>4. /\ HasSubTree(s, <<i + 1>>) <=> ~IsAtomic(s) /\ i + 1 \in 0 .. Arity(s) - 1
      /\ SubTree(s, <<i + 1>>) = s.arg[i + 2]
  <2> DEFINE j == i + 1
  <2>1. j \in Nat /\ j + 1 = i + 2
    BY <1>1
  <2> HIDE DEF j
  <2>2. /\ HasSubTree(s, <<j>>) <=> ~IsAtomic(s) /\ j \in 0 .. Arity(s) - 1
        /\ SubTree(s, <<j>>) = s.arg[j + 1]
    BY <2>1, ChildAt
  <2> QED BY <2>1, <2>2 DEF j
<1>5. CASE m.k = "insert"
  <2>1. CanApply(s, m) <=> i \in 0 .. Arity(s) /\ IsAtomic(s) = IsAtomic(m.t)
    BY <1>1, <1>5 DEF CanApply
  <2> QED BY <2>1, <1>1, <1>2, <1>5 DEF Fits
<1>6. CASE m.k = "remove"
  <2>1. CanApply(s, m) <=> i >= 0 /\ i + m.p[2] <= Arity(s)
    BY <1>1, <1>6 DEF CanApply
  <2> QED BY <2>1, <1>1, <1>2, <1>6 DEF Fits
<1>7. CASE m.k = "split"
  <2>1. CanApply(s, m) <=> HasSubTree(s, <<i>>) /\ m.p[2] \in 0 .. Arity(SubTree(s, <<i>>))
    BY <1>1, <1>7 DEF CanApply
  <2>2. i \in 0 .. Arity(s) - 1 <=> i + 1 <= Arity(s)
    BY <1>1, <1>2
  <2> QED BY <2>1, <2>2, <1>3, <1>7 DEF Fits
<1>8. CASE m.k = "join"
  <2>1. CanApply(s, m) <=> /\ HasSubTree(s, <<i>>) /\ HasSubTree(s, <<i + 1>>)
                           /\ IsAtomic(SubTree(s, <<i>>)) = IsAtomic(SubTree(s, <<i + 1>>))
    BY <1>1, <1>8 DEF CanApply
  <2>2. i \in 0 .. Arity(s) - 1 /\ i + 1 \in 0 .. Arity(s) - 1 <=> i + 2 <= Arity(s)
    BY <1>1, <1>2
  <2> QED BY <2>1, <2>2, <1>3, <1>4, <1>8 DEF Fits
<1> QED BY <1>5, <1>6, <1>7, <1>8 DEF ListKinds

LEMMA EditFacts ==
  ASSUME NEW T, IsTrees(T), NEW s \in T, NEW m \in Modification(T), m.k \in ListKinds, AtRoot(m),
         NEW i, i = m.p[1], CanApply(s, m)
  PROVE  IsEdit(T, m, s, i, OldLen(m), NewPart(m, s.arg[i + 1], s.arg[i + 2]))
<1> DEFINE c == s.arg[i + 1]
           d == s.arg[i + 2]
           n == OldLen(m)
           w == NewPart(m, c, d)
<1>1. /\ m.p # <<>> /\ i \in Nat /\ Index(m) = i
      /\ m.k \in {"remove", "split"} => Argument(m) = m.p[2] /\ m.p[2] \in Nat
  BY EditForm
<1>2. s.arg \in Seq(T) /\ Arity(s) \in Nat
  BY NodeFacts
<1>3. Fits(m, s, i, c, d)
  BY EditFits
<1>4. (i + 1 <= Arity(s) => c \in T) /\ (i + 2 <= Arity(s) => c \in T /\ d \in T)
  BY <1>1, <1>2 DEF Arity
<1> HIDE DEF c, d
<1>5. /\ n \in Nat /\ i + n <= Arity(s) /\ w \in Seq(T) /\ Growth(m) = Len(w) - n
      /\ ApplyAt(s, m) = Spliced(s, i, n, w)
  <2>1. CASE m.k = "insert"
    <3>1. n = 0 /\ w = m.t.arg /\ Growth(m) = Arity(m.t)
      BY <2>1 DEF OldLen, NewPart, Growth
    <3>2. m.t \in T
      BY ModFacts
    <3>3. m.t.arg \in Seq(T) /\ Arity(m.t) \in Nat /\ Len(m.t.arg) = Arity(m.t)
      BY <3>2, NodeFacts DEF Arity
    <3>4. i + 0 <= Arity(s)
      BY <1>1, <1>2, <1>3, <2>1 DEF Fits
    <3>5. ApplyAt(s, m) = Spliced(s, i, 0, m.t.arg)
      <4>1. ApplyAt(s, m) = WithArg(s, Splice(s.arg, Index(m), 0, m.t.arg))
        BY <2>1, Effects
      <4> QED BY <4>1, <1>1 DEF Spliced
    <3> HIDE DEF n, w
    <3> QED BY <3>1, <3>3, <3>4, <3>5
  <2>2. CASE m.k = "remove"
    <3>1. n = m.p[2] /\ w = <<>> /\ Growth(m) = -m.p[2] /\ m.p[2] \in Nat
      BY <1>1, <2>2 DEF OldLen, NewPart, Growth
    <3>2. i + m.p[2] <= Arity(s)
      BY <1>3, <2>2 DEF Fits
    <3>3. ApplyAt(s, m) = Spliced(s, i, m.p[2], <<>>)
      <4>1. ApplyAt(s, m) = WithArg(s, Splice(s.arg, Index(m), Argument(m), <<>>))
        BY <2>2, Effects
      <4> QED BY <4>1, <1>1, <2>2 DEF Spliced
    <3> HIDE DEF n, w
    <3> QED BY <3>1, <3>2, <3>3
  <2>3. CASE m.k = "split"
    <3> DEFINE j == m.p[2]
               x == WithArg(c, Prefix(c.arg, j))
               y == WithArg(c, Drop(c.arg, j))
    <3>1. n = 1 /\ w = <<x, y>> /\ Growth(m) = 1
      BY <2>3 DEF OldLen, NewPart, Growth
    <3>2. i + 1 <= Arity(s) /\ j \in 0 .. Arity(c)
      BY <1>3, <2>3 DEF Fits
    <3>3. x \in T /\ y \in T
      BY <3>2, <1>4, SplitParts
    <3>4. ApplyAt(s, m) = Spliced(s, i, 1, <<x, y>>)
      BY <1>1, <2>3, SplitEffect DEF Spliced, c
    <3> HIDE DEF n, w, x, y
    <3>5. <<x, y>> \in Seq(T) /\ Len(<<x, y>>) = 2
      BY <3>3
    <3> QED BY <3>1, <3>2, <3>4, <3>5
  <2>4. CASE m.k = "join"
    <3> DEFINE x == WithArg(c, c.arg \o d.arg)
    <3>1. n = 2 /\ w = <<x>> /\ Growth(m) = -1
      BY <2>4 DEF OldLen, NewPart, Growth
    <3>2. i + 2 <= Arity(s)
      BY <1>3, <2>4 DEF Fits
    <3>3. x \in T
      BY <3>2, <1>4, JoinPart
    <3>4. ApplyAt(s, m) = Spliced(s, i, 2, <<x>>)
      BY <1>1, <2>4, JoinEffect DEF Spliced, c, d
    <3> HIDE DEF n, w, x
    <3>5. <<x>> \in Seq(T) /\ Len(<<x>>) = 1
      BY <3>3
    <3> QED BY <3>1, <3>2, <3>4, <3>5
  <2> QED BY <2>1, <2>2, <2>3, <2>4 DEF ListKinds
<1> HIDE DEF n, w
<1>6. IsEdit(T, m, s, i, n, w)
  BY <1>1, <1>5 DEF IsEdit, n, w, c, d
<1> QED BY <1>6 DEF n, w, c, d

(* On a node with the same children where m acts, e positions further on,  *)
(* m does the same there.                                                  *)
LEMMA EditMoves ==
  ASSUME NEW T, IsTrees(T), NEW s \in T, NEW z \in T, z.op = s.op,
         NEW m, NEW i, NEW n, NEW w, IsEdit(T, m, s, i, n, w),
         NEW e \in Int, i + e \in Nat, (i + e) + n <= Arity(z),
         SamePart(z.arg, i + e, s.arg, i, n)
  PROVE  /\ IsEdit(T, Shift(m, e), z, i + e, n, w)
         /\ Growth(Shift(m, e)) = Growth(m) /\ Shift(m, e).k = m.k
<1> DEFINE v == Shift(m, e)
           j == i + e
<1>1. /\ m \in Modification(T) /\ m.k \in ListKinds /\ AtRoot(m)
      /\ m.p # <<>> /\ m.p[1] = i /\ i \in Nat /\ n = OldLen(m) /\ n \in Nat
      /\ i + n <= Arity(s) /\ w \in Seq(T) /\ Growth(m) = Len(w) - n
      /\ w = NewPart(m, s.arg[i + 1], s.arg[i + 2])
      /\ CanApply(s, m)
  BY DEF IsEdit
<1>2. IsShift(T, m, e, v)
  BY <1>1, ShiftFacts
<1>j. j \in Nat /\ j + n <= Arity(z) /\ SamePart(z.arg, j, s.arg, i, n)
  OBVIOUS
<1> HIDE DEF v
<1>3. /\ v \in Modification(T) /\ v.k = m.k /\ v.t = m.t
      /\ v.p \in Seq(Nat) /\ Len(v.p) = Len(m.p) /\ v.p[1] = j
      /\ m.k \in {"remove", "split"} => v.p[2] = m.p[2]
  <2>1. /\ v \in Modification(T) /\ v.k = m.k /\ v.t = m.t
        /\ v.p \in Seq(Nat) /\ Len(v.p) = Len(m.p) /\ v.p[1] = m.p[1] + e
        /\ \A k \in 2 .. Len(m.p) : v.p[k] = m.p[k]
    BY <1>2 DEF IsShift
  <2>2. ASSUME m.k \in {"remove", "split"} PROVE v.p[2] = m.p[2]
    <3>1. Len(m.p) = Extra(m.k)
      BY <1>1, RootForm
    <3>2. Len(m.p) = 2
      BY <2>2, <3>1 DEF Extra
    <3> QED BY <2>1, <3>2
  <2> QED BY <2>1, <2>2, <1>1
<1>4. AtRoot(v)
  <2>1. Len(m.p) = Extra(m.k)
    BY <1>1, RootForm
  <2>2. Len(v.p) - Extra(v.k) = 0
    <3>1. Extra(m.k) \in 0 .. 2
      BY DEF Extra
    <3> QED BY <3>1, <2>1, <1>3
  <2>3. Root(v) = Prefix(v.p, 0)
    BY <2>2 DEF Root
  <2>4. Prefix(v.p, 0) = <<>>
    BY <1>3 DEF Prefix
  <2> QED BY <2>3, <2>4 DEF AtRoot
<1> HIDE DEF j
<1> DEFINE c == s.arg[i + 1]
           d == s.arg[i + 2]
           x == z.arg[j + 1]
           y == z.arg[j + 2]
<1>5. (1 <= n => x = c) /\ (2 <= n => y = d)
  <2>1. \A k \in 1 .. n : z.arg[j + k] = s.arg[i + k]
    BY <1>j DEF SamePart
  <2>2. (1 <= n => 1 \in 1 .. n) /\ (2 <= n => 2 \in 1 .. n)
    BY <1>1
  <2> QED BY <2>1, <2>2
<1> HIDE DEF c, d, x, y
<1>6. /\ OldLen(v) = n /\ Growth(v) = Growth(m)
      /\ m.k = "split" => n = 1
      /\ m.k = "join" => n = 2
      /\ m.k = "remove" => n = m.p[2]
  BY <1>1, <1>3 DEF OldLen, Growth, ListKinds
<1>7. w = NewPart(v, x, y)
  <2>1. w = NewPart(m, c, d)
    BY <1>1 DEF c, d
  <2> QED BY <2>1, <1>1, <1>3, <1>5, <1>6 DEF NewPart, ListKinds
<1>8. CanApply(z, v)
  <2>1. Fits(m, s, i, c, d)
    BY <1>1, EditFits DEF c, d
  <2>2. IsAtomic(z) = IsAtomic(s)
    BY DEF IsAtomic
  <2>3. Fits(v, z, j, x, y)
    <3>1. CASE m.k = "insert"
      <4>1. n = 0
        BY <1>1, <3>1 DEF OldLen
      <4>2. j <= Arity(z)
        BY <4>1, <1>j
      <4> QED BY <2>1, <2>2, <3>1, <4>2, <1>3 DEF Fits
    <3>2. CASE m.k = "remove"
      BY <2>1, <2>2, <3>2, <1>j, <1>3, <1>6 DEF Fits
    <3>3. CASE m.k = "split"
      BY <2>1, <2>2, <3>3, <1>j, <1>3, <1>5, <1>6 DEF Fits
    <3>4. CASE m.k = "join"
      BY <2>1, <2>2, <3>4, <1>j, <1>3, <1>5, <1>6 DEF Fits
    <3> QED BY <3>1, <3>2, <3>3, <3>4, <1>1 DEF ListKinds
  <2> QED BY <2>3, <1>1, <1>3, <1>4, EditFits DEF x, y
<1>9. IsEdit(T, v, z, j, OldLen(v), NewPart(v, x, y))
  BY <1>1, <1>3, <1>4, <1>8, EditFacts DEF x, y
<1>10. IsEdit(T, v, z, j, n, w)
  BY <1>6, <1>7, <1>9
<1> QED BY <1>3, <1>6, <1>10 DEF v, j

LEMMA EditStays ==
  ASSUME NEW T, IsTrees(T), NEW s \in T, NEW z \in T, z.op = s.op,
         NEW m, NEW i, NEW n, NEW w, IsEdit(T, m, s, i, n, w),
         i + n <= Arity(z), SamePart(z.arg, i, s.arg, i, n)
  PROVE  IsEdit(T, m, z, i, n, w)
<1>1. /\ i \in Nat /\ i + 0 = i /\ 0 \in Int /\ i + 0 \in Nat
      /\ m \in Modification(T) /\ m.p # <<>> /\ m.p[1] = i
  BY DEF IsEdit
<1>2. (i + 0) + n <= Arity(z) /\ SamePart(z.arg, i + 0, s.arg, i, n)
  BY <1>1
<1>3. IsEdit(T, Shift(m, 0), z, i + 0, n, w)
  BY <1>1, <1>2, EditMoves
<1>4. m.p[1] + 0 \in Nat
  BY <1>1
<1>5. Shift(m, 0) = m
  BY <1>1, <1>4, ShiftBack
<1> QED BY <1>1, <1>3, <1>5

(* What is known of a node whose list of children was edited.              *)
LEMMA EditResult ==
  ASSUME NEW T, IsTrees(T), NEW s \in T,
         NEW m, NEW i, NEW n, NEW w, IsEdit(T, m, s, i, n, w)
  PROVE  LET u == ApplyAt(s, m)
         IN  /\ u \in T /\ u.op = s.op /\ IsAtomic(u) = IsAtomic(s)
             /\ u.arg = Splice(s.arg, i, n, w) /\ Arity(u) = Arity(s) + Growth(m)
             /\ u = Node(s.op, Splice(s.arg, i, n, w))
<1>1. /\ i \in Nat /\ n \in Nat /\ i + n <= Arity(s) /\ w \in Seq(T) /\ Growth(m) = Len(w) - n
      /\ ApplyAt(s, m) = Spliced(s, i, n, w)
  BY DEF IsEdit
<1> DEFINE u == Spliced(s, i, n, w)
           old == SubSeq(s.arg, i + 1, i + n)
<1>2. Exchanged(T, s, i, n, w, u, old)
  BY <1>1, SplicedFacts
<1> HIDE DEF u, old
<1>3. /\ u \in T /\ u.op = s.op /\ IsAtomic(u) = IsAtomic(s)
      /\ u.arg = Splice(s.arg, i, n, w) /\ Arity(u) = Arity(s) - n + Len(w)
  BY <1>2 DEF Exchanged
<1>4. Arity(s) \in Nat /\ u = Node(u.op, u.arg)
  BY <1>3, NodeFacts
<1>5. Arity(u) = Arity(s) + Growth(m)
  <2>1. Len(w) \in Nat
    BY <1>1
  <2> QED BY <2>1, <1>1, <1>3, <1>4
<1> QED BY <1>1, <1>3, <1>4, <1>5 DEF u

-----------------------------------------------------------------------------
(* Changes of the list of children in two places                           *)

LEMMA SplicedNode ==
  ASSUME NEW T, IsTrees(T), NEW s \in T, NEW i \in Nat, NEW n \in Nat,
         i + n <= Arity(s), NEW w \in Seq(T)
  PROVE  /\ Spliced(s, i, n, w) \in T /\ Spliced(s, i, n, w).op = s.op
         /\ Spliced(s, i, n, w).arg = Splice(s.arg, i, n, w)
         /\ Arity(Spliced(s, i, n, w)) = Arity(s) - n + Len(w)
<1> DEFINE u == Spliced(s, i, n, w)
           old == SubSeq(s.arg, i + 1, i + n)
<1>1. Exchanged(T, s, i, n, w, u, old)
  BY SplicedFacts
<1> HIDE DEF u, old
<1>2. u \in T /\ u.op = s.op /\ u.arg = Splice(s.arg, i, n, w) /\ Arity(u) = Arity(s) - n + Len(w)
  BY <1>1 DEF Exchanged
<1> QED BY <1>2 DEF u

(* The same for nodes.                                                     *)
NodesAreApart(T, s, i, n, v, j, m, w, u, z, h) ==
  /\ u \in T /\ u.op = s.op /\ Arity(u) = Arity(s) - n + Len(v)
  /\ z \in T /\ z.op = s.op /\ Arity(z) = Arity(s) - m + Len(w)
  /\ h \in Nat /\ h + m <= Arity(u) /\ i + n <= Arity(z)
  /\ SamePart(z.arg, i, s.arg, i, n) /\ SamePart(u.arg, h, s.arg, j, m)
  /\ Spliced(z, i, n, v) = Spliced(u, h, m, w)

LEMMA NodesApart ==
  ASSUME NEW T, IsTrees(T), NEW s \in T, NEW v \in Seq(T), NEW w \in Seq(T),
         NEW i \in Nat, NEW n \in Nat, NEW j \in Nat, NEW m \in Nat,
         i + n <= j, j + m <= Arity(s)
  PROVE  NodesAreApart(T, s, i, n, v, j, m, w,
                       Spliced(s, i, n, v), Spliced(s, j, m, w), j - n + Len(v))
<1> DEFINE a == s.arg
           u == Spliced(s, i, n, v)
           z == Spliced(s, j, m, w)
           h == j - n + Len(v)
           b == Splice(a, j, m, w)
           c == Splice(a, i, n, v)
           N == Arity(s)
           lv == Len(v)
           lw == Len(w)
<1>1. a \in Seq(T) /\ N = Len(a) /\ N \in Nat /\ lv \in Nat /\ lw \in Nat
  BY NodeFacts DEF Arity
<1>2. j + m <= Len(a)
  BY <1>1
<1> HIDE DEF a
<1>3. /\ b \in Seq(T) /\ c \in Seq(T) /\ h \in Nat
      /\ SamePart(b, i, a, i, n) /\ SamePart(c, h, a, j, m)
      /\ Splice(b, i, n, v) = Splice(c, h, m, w)
  <2>1. Apart(T, a, i, n, v, j, m, w, b, c, h)
    BY <1>1, <1>2, SplicesApart
  <2> HIDE DEF b, c, h
  <2> QED BY <2>1 DEF Apart
<1>4. i + n <= N
  <2>1. j + m <= N /\ i + n <= j
    OBVIOUS
  <2> HIDE DEF N
  <2> QED BY <2>1, <1>1
<1>5. u \in T /\ u.op = s.op /\ u.arg = c /\ Arity(u) = N - n + lv
  BY <1>4, SplicedNode DEF a
<1>6. z \in T /\ z.op = s.op /\ z.arg = b /\ Arity(z) = N - m + lw
  BY SplicedNode DEF a
<1>7. h + m <= Arity(u) /\ i + n <= Arity(z)
  <2>1. j + m <= N /\ i + n <= j
    OBVIOUS
  <2>2. h = j - n + lv
    OBVIOUS
  <2> HIDE DEF N, lv, lw, h, u, z
  <2>3. Arity(u) = N - n + lv /\ Arity(z) = N - m + lw
    BY <1>5, <1>6
  <2> QED BY <2>1, <2>2, <2>3, <1>1
<1> HIDE DEF u, z, h, b, c
<1>8. Spliced(z, i, n, v) = Spliced(u, h, m, w)
  <2>1. z = Node(s.op, b) /\ u = Node(s.op, c)
    BY <1>5, <1>6, NodeFacts
  <2>2. WithArg(z, Splice(b, i, n, v)) = Node(s.op, Splice(b, i, n, v))
    BY <2>1, WithArgNode
  <2>3. WithArg(u, Splice(c, h, m, w)) = Node(s.op, Splice(c, h, m, w))
    BY <2>1, WithArgNode
  <2> QED BY <2>2, <2>3, <1>3, <1>5, <1>6 DEF Spliced
<1>9. NodesAreApart(T, s, i, n, v, j, m, w, u, z, h)
  BY <1>3, <1>5, <1>6, <1>7, <1>8 DEF NodesAreApart, a
<1> QED BY <1>9 DEF u, z, h

LEMMA NodesApartAs ==
  ASSUME NEW T, IsTrees(T), NEW s \in T, NEW v \in Seq(T), NEW w \in Seq(T),
         NEW i \in Nat, NEW n \in Nat, NEW j \in Nat, NEW m \in Nat,
         i + n <= j, j + m <= Arity(s),
         NEW u, u = Spliced(s, i, n, v), NEW z, z = Spliced(s, j, m, w),
         NEW h, h = j - n + Len(v)
  PROVE  NodesAreApart(T, s, i, n, v, j, m, w, u, z, h)
<1>1. NodesAreApart(T, s, i, n, v, j, m, w,
                    Spliced(s, i, n, v), Spliced(s, j, m, w), j - n + Len(v))
  BY NodesApart
<1> QED BY <1>1

(* A and then D, which is B where A has moved it, do what B and then A do. *)
Commute(T, A, B, D, u, z) ==
  /\ u \in T /\ z \in T /\ D \in Modification(T) /\ AtRoot(D)
  /\ CanApply(z, A) /\ CanApply(u, D) /\ ApplyAt(z, A) = ApplyAt(u, D)

(* Two edits of the list, of which A acts before B.                        *)
LEMMA EditsApart ==
  ASSUME NEW T, IsTrees(T), NEW s \in T,
         NEW A, NEW i, NEW n, NEW v, IsEdit(T, A, s, i, n, v),
         NEW B, NEW j, NEW m, NEW w, IsEdit(T, B, s, j, m, w), i + n <= j
  PROVE  Commute(T, A, B, Shift(B, Growth(A)), ApplyAt(s, A), ApplyAt(s, B))
<1> DEFINE u == Spliced(s, i, n, v)
           z == Spliced(s, j, m, w)
           h == j - n + Len(v)
           g == Growth(A)
           D == Shift(B, g)
<1>1. /\ A \in Modification(T) /\ A.p # <<>> /\ A.p[1] = i
      /\ i \in Nat /\ n \in Nat /\ v \in Seq(T) /\ g = Len(v) - n /\ ApplyAt(s, A) = u
  BY DEF IsEdit
<1>2. /\ j \in Nat /\ m \in Nat /\ w \in Seq(T) /\ j + m <= Arity(s) /\ ApplyAt(s, B) = z
  BY DEF IsEdit
<1>3. /\ u \in T /\ u.op = s.op /\ z \in T /\ z.op = s.op
      /\ h \in Nat /\ h + m <= Arity(u) /\ i + n <= Arity(z)
      /\ SamePart(z.arg, i, s.arg, i, n) /\ SamePart(u.arg, h, s.arg, j, m)
      /\ Spliced(z, i, n, v) = Spliced(u, h, m, w)
  <2>1. NodesAreApart(T, s, i, n, v, j, m, w, u, z, h)
    BY <1>1, <1>2, NodesApart
  <2> HIDE DEF u, z, h
  <2> QED BY <2>1 DEF NodesAreApart
<1> HIDE DEF u, z
<1>4. g \in Int /\ j + g = h
  <2>1. Len(v) \in Nat
    BY <1>1
  <2> HIDE DEF g
  <2> QED BY <2>1, <1>1, <1>2
<1> HIDE DEF h, g
<1>5. IsEdit(T, D, u, h, m, w)
  <2>1. j + g \in Nat /\ (j + g) + m <= Arity(u) /\ SamePart(u.arg, j + g, s.arg, j, m)
    BY <1>3, <1>4
  <2>2. IsEdit(T, D, u, j + g, m, w)
    BY <2>1, <1>3, <1>4, EditMoves
  <2> QED BY <2>2, <1>4
<1>6. IsEdit(T, A, z, i, n, v)
  BY <1>3, EditStays
<1> HIDE DEF D
<1>7. CanApply(z, A) /\ ApplyAt(z, A) = Spliced(z, i, n, v)
  BY <1>6 DEF IsEdit
<1>8. /\ CanApply(u, D) /\ ApplyAt(u, D) = Spliced(u, h, m, w)
      /\ D \in Modification(T) /\ AtRoot(D)
  BY <1>5 DEF IsEdit
<1> QED BY <1>1, <1>2, <1>3, <1>7, <1>8 DEF D, g, Commute

(* f and then g can be applied to s, and make x of it.                     *)
Same(T, s, x, f, g) ==
  /\ f \in Modification(T) /\ g \in Modification(T)
  /\ IsApplicable(s, f) /\ IsApplicable(CleanApply(s, f), g)
  /\ CleanApply(CleanApply(s, f), g) = x

LEMMA SameAtRoot ==
  ASSUME NEW T, NEW s, NEW f \in Modification(T), NEW g \in Modification(T),
         AtRoot(f), AtRoot(g), CanApply(s, f), CanApply(ApplyAt(s, f), g),
         NEW x, x = ApplyAt(ApplyAt(s, f), g)
  PROVE  Same(T, s, x, f, g)
<1>1. IsApplicable(s, f) /\ CleanApply(s, f) = ApplyAt(s, f)
  BY RootDoes
<1> DEFINE u == ApplyAt(s, f)
<1>2. IsApplicable(u, g) /\ CleanApply(u, g) = ApplyAt(u, g)
  BY RootDoes
<1> QED BY <1>1, <1>2 DEF Same

LEMMA SamePartBack ==
  ASSUME NEW a, NEW i, NEW b, NEW j, NEW n, SamePart(a, i, b, j, n)
  PROVE  SamePart(b, j, a, i, n)
BY DEF SamePart

(* The edit m2 acts before what m1 has replaced: it can be done first.     *)
LEMMA SecondBefore ==
  ASSUME NEW T, IsTrees(T), NEW s \in T,
         NEW m1, NEW i, NEW n, NEW v, IsEdit(T, m1, s, i, n, v),
         NEW u, u = ApplyAt(s, m1),
         NEW m2, NEW b, NEW m, NEW w, IsEdit(T, m2, u, b, m, w), b + m <= i
  PROVE  Same(T, s, ApplyAt(u, m2), m2, Shift(m1, Growth(m2)))
<1> DEFINE h == i - m + Len(w)
           z == Spliced(s, b, m, w)
<1>1. /\ i \in Nat /\ n \in Nat /\ v \in Seq(T) /\ i + n <= Arity(s)
      /\ u = Spliced(s, i, n, v) /\ m1 \in Modification(T)
  BY DEF IsEdit
<1>2. /\ b \in Nat /\ m \in Nat /\ w \in Seq(T) /\ m2 \in Modification(T) /\ AtRoot(m2)
      /\ m2.p # <<>> /\ m2.p[1] = b
  BY DEF IsEdit
<1>3. NodesAreApart(T, s, b, m, w, i, n, v, z, u, h)
  BY <1>1, <1>2, NodesApart
<1> HIDE DEF h, z
<1>4. u \in T /\ u.op = s.op /\ SamePart(u.arg, b, s.arg, b, m)
  BY <1>3 DEF NodesAreApart
<1>5. IsEdit(T, m2, s, b, m, w)
  <2>1. b + m <= Arity(s)
    <3>1. Arity(s) \in Nat
      BY NodeFacts
    <3> QED BY <3>1, <1>1, <1>2
  <2>2. SamePart(s.arg, b, u.arg, b, m)
    BY <1>4, SamePartBack
  <2> QED BY <2>1, <2>2, <1>4, EditStays
<1> DEFINE D == Shift(m1, Growth(m2))
           y == ApplyAt(s, m2)
<1>6. Commute(T, m2, m1, D, y, u)
  BY <1>5, EditsApart
<1>7. CanApply(s, m2)
  BY <1>5 DEF IsEdit
<1> HIDE DEF D, y
<1>8. /\ D \in Modification(T) /\ AtRoot(D) /\ CanApply(y, D)
      /\ ApplyAt(u, m2) = ApplyAt(y, D)
  BY <1>6 DEF Commute
<1>9. Same(T, s, ApplyAt(u, m2), m2, D)
  BY <1>2, <1>7, <1>8, SameAtRoot DEF y
<1> QED BY <1>9 DEF D

(* The edit m2 acts after what m1 has replaced.                            *)
LEMMA SecondAfter ==
  ASSUME NEW T, IsTrees(T), NEW s \in T,
         NEW m1, NEW i, NEW n, NEW v, IsEdit(T, m1, s, i, n, v),
         NEW u, u = ApplyAt(s, m1),
         NEW m2, NEW b, NEW m, NEW w, IsEdit(T, m2, u, b, m, w), i + Len(v) <= b
  PROVE  Same(T, s, ApplyAt(u, m2), Shift(m2, -Growth(m1)), m1)
<1> DEFINE g == Growth(m1)
           j == b - g
           z == Spliced(s, j, m, w)
           h == j - n + Len(v)
           B == Shift(m2, -g)
           y == ApplyAt(s, B)
           lv == Len(v)
<1>1. /\ i \in Nat /\ n \in Nat /\ v \in Seq(T) /\ i + n <= Arity(s) /\ g = lv - n
      /\ u = Spliced(s, i, n, v) /\ m1 \in Modification(T) /\ AtRoot(m1) /\ CanApply(s, m1)
  BY DEF IsEdit
<1>2. /\ b \in Nat /\ m \in Nat /\ w \in Seq(T) /\ m2 \in Modification(T) /\ AtRoot(m2)
      /\ m2.p # <<>> /\ m2.p[1] = b /\ b + m <= Arity(u)
  BY DEF IsEdit
<1>3. lv \in Nat /\ i + lv <= b /\ Arity(s) \in Nat
  BY <1>1, NodeFacts
<1>4. u \in T /\ u.op = s.op /\ Arity(u) = Arity(s) - n + lv
  BY <1>1, SplicedNode
<1> HIDE DEF g, lv
<1>5. /\ g \in Int /\ -g \in Int /\ j \in Nat /\ i + n <= j /\ j + m <= Arity(s)
      /\ j - n + lv = b /\ b + (-g) = j
  BY <1>1, <1>2, <1>3, <1>4
<1>6. h = b
  BY <1>5 DEF lv
<1> HIDE DEF j, h
<1>7. NodesAreApart(T, s, i, n, v, j, m, w, u, z, h)
  <2>1. z = Spliced(s, j, m, w)
    OBVIOUS
  <2>2. h = j - n + Len(v)
    BY DEF h
  <2> HIDE DEF z
  <2>3. v \in Seq(T) /\ w \in Seq(T)
    BY DEF IsEdit
  <2> QED BY <1>1, <1>2, <1>5, <2>1, <2>2, <2>3, NodesApartAs
<1> HIDE DEF z
<1>8. SamePart(s.arg, j, u.arg, b, m)
  BY <1>6, <1>7, SamePartBack DEF NodesAreApart
<1>9. IsEdit(T, B, s, j, m, w)
  <2>1. b + (-g) \in Nat /\ (b + (-g)) + m <= Arity(s) /\ SamePart(s.arg, b + (-g), u.arg, b, m)
    BY <1>5, <1>8
  <2>2. IsEdit(T, B, s, b + (-g), m, w)
    BY <2>1, <1>4, <1>5, EditMoves
  <2> QED BY <2>2, <1>5
<1>10. Shift(B, g) = m2
  <2>1. m2.p[1] + (-g) \in Nat
    BY <1>2, <1>5
  <2>2. Shift(Shift(m2, -g), -(-g)) = m2
    BY <2>1, <1>2, <1>5, ShiftBack
  <2>3. -(-g) = g
    BY <1>5
  <2> QED BY <2>2, <2>3
<1> HIDE DEF B
<1>11. Commute(T, m1, B, Shift(B, g), u, y)
  BY <1>5, <1>9, EditsApart DEF g
<1>12. B \in Modification(T) /\ AtRoot(B) /\ CanApply(s, B)
  BY <1>9 DEF IsEdit
<1> HIDE DEF y
<1>13. CanApply(y, m1) /\ ApplyAt(y, m1) = ApplyAt(u, m2)
  BY <1>10, <1>11 DEF Commute
<1>14. Same(T, s, ApplyAt(u, m2), B, m1)
  BY <1>1, <1>12, <1>13, SameAtRoot DEF y
<1> QED BY <1>14 DEF B, g

-----------------------------------------------------------------------------
(* A change of the list of children and a change within one child          *)

LEMMA ChildSpliced ==
  ASSUME NEW T, IsTrees(T), NEW s \in T, NEW j \in 0 .. Arity(s) - 1, NEW x \in T
  PROVE  WithChild(s, j, x) = Spliced(s, j, 1, <<x>>)
<1>1. s.arg \in Seq(T) /\ Arity(s) = Len(s.arg) /\ s = Node(s.op, s.arg) /\ Arity(s) \in Nat
  BY NodeFacts DEF Arity
<1>2. j \in Nat /\ j + 1 <= Len(s.arg)
  BY <1>1
<1>3. WithChild(s, j, x) = Node(s.op, Changed(s.arg, j, x))
  BY <1>1, WithChildNode
<1>4. Changed(s.arg, j, x) = Splice(s.arg, j, 1, <<x>>)
  BY <1>1, <1>2, ChangedIsSplice
<1>5. Spliced(s, j, 1, <<x>>) = Node(s.op, Splice(s.arg, j, 1, <<x>>))
  BY <1>1, WithArgNode DEF Spliced
<1> QED BY <1>3, <1>4, <1>5

(* A works on z, s with x for its child j, as on s: the child, which A     *)
(* leaves alone, is then child k.                                          *)
Past(T, s, A, j, x, k, u, z) ==
  /\ u \in T /\ z \in T /\ k \in 0 .. Arity(u) - 1 /\ u.arg[k + 1] = s.arg[j + 1]
  /\ u.op = s.op /\ CanApply(z, A) /\ ApplyAt(z, A) = WithChild(u, k, x)

LEMMA EditAfterChild ==
  ASSUME NEW T, IsTrees(T), NEW s \in T,
         NEW A, NEW i, NEW n, NEW v, IsEdit(T, A, s, i, n, v),
         NEW j \in 0 .. Arity(s) - 1, NEW x \in T, j < i,
         NEW u, u = ApplyAt(s, A), NEW z, z = WithChild(s, j, x)
  PROVE  Past(T, s, A, j, x, j, u, z)
<1>1. /\ i \in Nat /\ n \in Nat /\ i + n <= Arity(s) /\ v \in Seq(T) /\ u = Spliced(s, i, n, v)
  BY DEF IsEdit
<1>2. z = Spliced(s, j, 1, <<x>>) /\ << x >> \in Seq(T) /\ Len(<<x>>) = 1
  BY ChildSpliced
<1>3. j \in Nat /\ 1 \in Nat /\ j + 1 <= i /\ i = i - 1 + Len(<<x>>) /\ Arity(s) \in Nat
  BY <1>1, <1>2, NodeFacts
<1>4. NodesAreApart(T, s, j, 1, <<x>>, i, n, v, z, u, i)
  BY <1>1, <1>2, <1>3, NodesApartAs
<1>5. /\ z \in T /\ z.op = s.op /\ u \in T /\ u.op = s.op
      /\ i + n <= Arity(z) /\ j + 1 <= Arity(u)
      /\ SamePart(u.arg, j, s.arg, j, 1) /\ SamePart(z.arg, i, s.arg, i, n)
      /\ Spliced(u, j, 1, <<x>>) = Spliced(z, i, n, v)
  BY <1>4 DEF NodesAreApart
<1>6. IsEdit(T, A, z, i, n, v)
  BY <1>5, EditStays
<1>7. CanApply(z, A) /\ ApplyAt(z, A) = Spliced(z, i, n, v)
  BY <1>6 DEF IsEdit
<1>8. Arity(u) \in Nat
  BY <1>5, NodeFacts
<1>9. j \in 0 .. Arity(u) - 1
  BY <1>3, <1>5, <1>8
<1>10. WithChild(u, j, x) = Spliced(u, j, 1, <<x>>)
  BY <1>5, <1>9, ChildSpliced
<1>11. u.arg[j + 1] = s.arg[j + 1]
  BY <1>5 DEF SamePart
<1> QED BY <1>5, <1>7, <1>9, <1>10, <1>11 DEF Past

LEMMA EditBeforeChild ==
  ASSUME NEW T, IsTrees(T), NEW s \in T,
         NEW A, NEW i, NEW n, NEW v, IsEdit(T, A, s, i, n, v),
         NEW j \in 0 .. Arity(s) - 1, NEW x \in T, i + n <= j,
         NEW u, u = ApplyAt(s, A), NEW z, z = WithChild(s, j, x),
         NEW k, k = j + Growth(A)
  PROVE  Past(T, s, A, j, x, k, u, z)
<1> DEFINE lv == Len(v)
<1>1. /\ i \in Nat /\ n \in Nat /\ i + n <= Arity(s) /\ v \in Seq(T) /\ u = Spliced(s, i, n, v)
      /\ Growth(A) = lv - n
  BY DEF IsEdit
<1>2. z = Spliced(s, j, 1, <<x>>) /\ << x >> \in Seq(T)
  BY ChildSpliced
<1>3. lv \in Nat /\ Arity(s) \in Nat
  BY <1>1, NodeFacts
<1> HIDE DEF lv
<1>4. j \in Nat /\ 1 \in Nat /\ j + 1 <= Arity(s) /\ k = j - n + lv /\ k \in Nat
  BY <1>1, <1>3
<1>5. k = j - n + Len(v)
  BY <1>4 DEF lv
<1>6. NodesAreApart(T, s, i, n, v, j, 1, <<x>>, u, z, k)
  BY <1>1, <1>2, <1>4, <1>5, NodesApartAs
<1>7. /\ z \in T /\ z.op = s.op /\ u \in T /\ u.op = s.op
      /\ i + n <= Arity(z) /\ k + 1 <= Arity(u)
      /\ SamePart(z.arg, i, s.arg, i, n) /\ SamePart(u.arg, k, s.arg, j, 1)
      /\ Spliced(z, i, n, v) = Spliced(u, k, 1, <<x>>)
  BY <1>6 DEF NodesAreApart
<1>8. IsEdit(T, A, z, i, n, v)
  BY <1>7, EditStays
<1>9. CanApply(z, A) /\ ApplyAt(z, A) = Spliced(z, i, n, v)
  BY <1>8 DEF IsEdit
<1>10. Arity(u) \in Nat
  BY <1>7, NodeFacts
<1>11. k \in 0 .. Arity(u) - 1
  BY <1>4, <1>7, <1>10
<1>12. WithChild(u, k, x) = Spliced(u, k, 1, <<x>>)
  BY <1>7, <1>11, ChildSpliced
<1>13. u.arg[k + 1] = s.arg[j + 1]
  BY <1>7 DEF SamePart
<1> QED BY <1>7, <1>9, <1>11, <1>12, <1>13 DEF Past

LEMMA EditAndChild ==
  ASSUME NEW T, IsTrees(T), NEW s \in T,
         NEW A, NEW i, NEW n, NEW v, IsEdit(T, A, s, i, n, v),
         NEW j \in 0 .. Arity(s) - 1, NEW x \in T, NEW k,
         (j < i /\ k = j) \/ (i + n <= j /\ k = j + Growth(A)),
         NEW u, u = ApplyAt(s, A), NEW z, z = WithChild(s, j, x)
  PROVE  Past(T, s, A, j, x, k, u, z)
BY EditAfterChild, EditBeforeChild

(* m1 edits the list, m2 works within child b of the result.               *)
LEMMA WithinFirst ==
  ASSUME NEW T, IsTrees(T), NEW s \in T,
         NEW m1, NEW i, NEW n, NEW v, IsEdit(T, m1, s, i, n, v),
         NEW u, u = ApplyAt(s, m1),
         NEW q \in Modification(T), NEW b \in Nat, IsApplicable(u, Under(b, q)),
         NEW j, (b < i /\ j = b) \/ (i + Len(v) <= b /\ j = b - Growth(m1))
  PROVE  Same(T, s, CleanApply(u, Under(b, q)), Under(j, q), m1)
<1> DEFINE lv == Len(v)
           g == Growth(m1)
           x == CleanApply(u.arg[b + 1], q)
           z == WithChild(s, j, x)
<1>1. /\ i \in Nat /\ n \in Nat /\ i + n <= Arity(s) /\ v \in Seq(T) /\ g = lv - n
      /\ m1 \in Modification(T) /\ AtRoot(m1)
  BY DEF IsEdit
<1>2. /\ u \in T /\ u.op = s.op /\ IsAtomic(u) = IsAtomic(s) /\ Arity(u) = Arity(s) + g
  BY EditResult
<1>3. lv \in Nat /\ Arity(s) \in Nat
  BY <1>1, NodeFacts
<1>4. (b < i /\ j = b) \/ (i + lv <= b /\ j = b - g)
  OBVIOUS
<1>5. /\ ~IsAtomic(u) /\ b \in 0 .. Arity(u) - 1 /\ IsApplicable(u.arg[b + 1], q)
      /\ CleanApply(u, Under(b, q)) = WithChild(u, b, x)
  BY <1>2, UnderDoes
<1> HIDE DEF g, lv
<1>6. /\ j \in 0 .. Arity(s) - 1 /\ j \in Nat
      /\ (j < i /\ b = j) \/ (i + n <= j /\ b = j + g)
  BY <1>1, <1>2, <1>3, <1>4, <1>5, SMTT(20)
<1>7. u.arg[b + 1] \in T
  BY <1>2, <1>5, ChildFacts
<1>8. x \in T
  BY <1>5, <1>7, NodeInTrees
<1> HIDE DEF x
<1>9. Past(T, s, m1, j, x, b, u, z)
  BY <1>6, <1>8, EditAndChild DEF g
<1>10. /\ z \in T /\ u.arg[b + 1] = s.arg[j + 1] /\ CanApply(z, m1)
       /\ ApplyAt(z, m1) = WithChild(u, b, x)
  BY <1>9 DEF Past
<1>11. IsApplicable(s, Under(j, q)) /\ CleanApply(s, Under(j, q)) = z
  <2>1. ~IsAtomic(s) /\ IsApplicable(s.arg[j + 1], q)
    BY <1>2, <1>5, <1>10
  <2>2. IsApplicable(s, Under(j, q))
    BY <2>1, <1>6, UnderDoes
  <2>3. CleanApply(s, Under(j, q)) = WithChild(s, j, CleanApply(s.arg[j + 1], q))
    BY <2>2, <1>6, UnderDoes
  <2> QED BY <2>2, <2>3, <1>10 DEF x
<1> HIDE DEF z
<1>12. IsApplicable(z, m1) /\ CleanApply(z, m1) = WithChild(u, b, x)
  BY <1>1, <1>10, RootDoes
<1>13. Under(j, q) \in Modification(T)
  BY <1>6, UnderFacts
<1> QED BY <1>1, <1>5, <1>11, <1>12, <1>13 DEF Same

(* m1 works within child j, m2 edits the list of the result, where that    *)
(* child becomes child k.                                                  *)
LEMMA WithinSecond ==
  ASSUME NEW T, IsTrees(T), NEW s \in T,
         NEW q \in Modification(T), NEW j \in Nat, IsApplicable(s, Under(j, q)),
         NEW u, u = CleanApply(s, Under(j, q)),
         NEW m2, NEW i, NEW n, NEW v, IsEdit(T, m2, u, i, n, v),
         NEW k, (j < i /\ k = j) \/ (i + n <= j /\ k = j + Growth(m2))
  PROVE  Same(T, s, ApplyAt(u, m2), m2, Under(k, q))
<1> DEFINE c == s.arg[j + 1]
           x == CleanApply(c, q)
           y == ApplyAt(u, m2)
           w == ApplyAt(s, m2)
<1>1. /\ ~IsAtomic(s) /\ j \in 0 .. Arity(s) - 1 /\ IsApplicable(c, q)
      /\ u = WithChild(s, j, x)
  BY UnderDoes
<1>2. c \in T
  BY <1>1, ChildFacts
<1>3. x \in T
  BY <1>1, <1>2, NodeInTrees
<1> HIDE DEF x
<1>4. /\ u \in T /\ u.op = s.op /\ Arity(u) = Arity(s) /\ u.arg[j + 1] = x
      /\ WithChild(u, j, c) = s
  <2>1. /\ WithChild(s, j, x) \in T /\ WithChild(s, j, x).op = s.op
        /\ Arity(WithChild(s, j, x)) = Arity(s) /\ WithChild(s, j, x).arg[j + 1] = x
        /\ WithChild(WithChild(s, j, x), j, c) = WithChild(s, j, c)
    BY <1>1, <1>2, <1>3, ChildFacts
  <2>2. WithChild(s, j, c) = s
    BY <1>1, OwnChild
  <2> QED BY <2>1, <2>2, <1>1
<1> HIDE DEF c
<1>5. Past(T, u, m2, j, c, k, y, s)
  <2>1. j \in 0 .. Arity(u) - 1 /\ s = WithChild(u, j, c)
    BY <1>1, <1>4
  <2> QED BY <2>1, <1>2, <1>4, EditAndChild
<1> HIDE DEF y
<1>6. /\ y \in T /\ k \in 0 .. Arity(y) - 1 /\ y.arg[k + 1] = x /\ y.op = s.op
      /\ CanApply(s, m2) /\ w = WithChild(y, k, c)
  BY <1>4, <1>5 DEF Past
<1>7. m2 \in Modification(T) /\ AtRoot(m2)
  BY DEF IsEdit
<1>8. IsApplicable(s, m2) /\ CleanApply(s, m2) = w
  BY <1>6, <1>7, RootDoes
<1> HIDE DEF w
<1>9. /\ w \in T /\ w.op = s.op /\ Arity(w) = Arity(y) /\ w.arg[k + 1] = c
      /\ WithChild(w, k, x) = y
  <2>1. /\ WithChild(y, k, c) \in T /\ WithChild(y, k, c).op = y.op
        /\ Arity(WithChild(y, k, c)) = Arity(y) /\ WithChild(y, k, c).arg[k + 1] = c
        /\ WithChild(WithChild(y, k, c), k, x) = WithChild(y, k, x)
    BY <1>2, <1>3, <1>6, ChildFacts
  <2>2. WithChild(y, k, x) = y
    BY <1>6, OwnChild
  <2> QED BY <2>1, <2>2, <1>6
<1>10. k \in Nat
  BY <1>6, NodeFacts
<1>11. IsApplicable(w, Under(k, q)) /\ CleanApply(w, Under(k, q)) = y
  <2>1. ~IsAtomic(w) /\ k \in 0 .. Arity(w) - 1 /\ IsApplicable(w.arg[k + 1], q)
    BY <1>1, <1>6, <1>9 DEF IsAtomic
  <2>2. IsApplicable(w, Under(k, q))
    BY <2>1, <1>9, <1>10, UnderDoes
  <2>3. CleanApply(w, Under(k, q)) = WithChild(w, k, CleanApply(w.arg[k + 1], q))
    BY <2>2, <1>9, <1>10, UnderDoes
  <2> QED BY <2>2, <2>3, <1>9 DEF x
<1>12. Under(k, q) \in Modification(T)
  BY <1>10, UnderFacts
<1> QED BY <1>7, <1>8, <1>11, <1>12 DEF Same, y

LEMMA ChangedApart ==
  ASSUME NEW T, NEW a \in Seq(T), NEW i \in 0 .. Len(a) - 1, NEW j \in 0 .. Len(a) - 1, i # j,
         NEW v \in T, NEW w \in T
  PROVE  /\ Changed(a, i, v)[j + 1] = a[j + 1]
         /\ Changed(Changed(a, i, v), j, w) = Changed(Changed(a, j, w), i, v)
<1> DEFINE k == i + 1
           l == j + 1
<1>1. k \in DOMAIN a /\ l \in DOMAIN a /\ k # l /\ k = i + 1 /\ l = j + 1
  OBVIOUS
<1>2. Changed(a, i, v) = [a EXCEPT ![k] = v] /\ Changed(a, j, w) = [a EXCEPT ![l] = w]
  BY DEF Changed
<1>3. /\ Changed(Changed(a, i, v), j, w) = [Changed(a, i, v) EXCEPT ![l] = w]
      /\ Changed(Changed(a, j, w), i, v) = [Changed(a, j, w) EXCEPT ![k] = v]
  BY DEF Changed
<1> HIDE DEF k, l
<1>4. [a EXCEPT ![k] = v][l] = a[l]
  BY <1>1
<1>5. [[a EXCEPT ![k] = v] EXCEPT ![l] = w] = [[a EXCEPT ![l] = w] EXCEPT ![k] = v]
  BY <1>1
<1> QED BY <1>1, <1>2, <1>3, <1>4, <1>5

LEMMA ChangedElsewhere ==
  ASSUME NEW T, NEW a \in Seq(T), NEW i \in 0 .. Len(a) - 1, NEW v \in T,
         NEW k \in 1 .. Len(a), k # i + 1
  PROVE  Changed(a, i, v)[k] = a[k]
BY DEF Changed

(* Two changes within different children.                                  *)
LEMMA WithinBoth ==
  ASSUME NEW T, IsTrees(T), NEW s \in T,
         NEW q \in Modification(T), NEW i \in Nat, IsApplicable(s, Under(i, q)),
         NEW u, u = CleanApply(s, Under(i, q)),
         NEW r \in Modification(T), NEW j \in Nat, IsApplicable(u, Under(j, r)), i # j
  PROVE  Same(T, s, CleanApply(u, Under(j, r)), Under(j, r), Under(i, q))
<1> DEFINE c == s.arg[i + 1]
           d == s.arg[j + 1]
           x == CleanApply(c, q)
           y == CleanApply(d, r)
           z == WithChild(s, j, y)
<1>1. /\ ~IsAtomic(s) /\ i \in 0 .. Arity(s) - 1 /\ IsApplicable(c, q)
      /\ u = WithChild(s, i, x)
  BY UnderDoes
<1>2. c \in T
  BY <1>1, ChildFacts
<1>3. x \in T
  BY <1>1, <1>2, NodeInTrees
<1> HIDE DEF x
<1>4. /\ u \in T /\ u.op = s.op /\ Arity(u) = Arity(s)
  BY <1>1, <1>3, ChildFacts
<1>5. j \in 0 .. Arity(s) - 1 /\ IsApplicable(u.arg[j + 1], r)
  BY <1>4, UnderDoes
<1>6. s.arg \in Seq(T) /\ Arity(s) = Len(s.arg) /\ s = Node(s.op, s.arg)
  BY NodeFacts DEF Arity
<1>7. u.arg[j + 1] = d
  <2>1. u = Node(s.op, Changed(s.arg, i, x))
    BY <1>1, <1>6, WithChildNode
  <2>2. u.arg = Changed(s.arg, i, x)
    BY <2>1, NodeParts
  <2>3. Changed(s.arg, i, x)[j + 1] = s.arg[j + 1]
    <3>1. d \in T
      BY <1>5, ChildFacts
    <3> QED BY <3>1, <1>1, <1>3, <1>5, <1>6, ChangedApart
  <2> QED BY <2>2, <2>3
<1>8. d \in T
  BY <1>5, ChildFacts
<1>9. y \in T
  BY <1>5, <1>7, <1>8, NodeInTrees
<1>10. CleanApply(u, Under(j, r)) = WithChild(u, j, y)
  BY <1>4, <1>7, UnderDoes
<1>11. IsApplicable(s, Under(j, r)) /\ CleanApply(s, Under(j, r)) = z
  BY <1>1, <1>5, <1>7, UnderDoes
<1> HIDE DEF y
<1>12. z = Node(s.op, Changed(s.arg, j, y)) /\ z.arg = Changed(s.arg, j, y)
  BY <1>6, WithChildNode, NodeParts
<1>13. /\ z \in T /\ z.op = s.op /\ Arity(z) = Arity(s)
  BY <1>5, <1>9, ChildFacts
<1>14. z.arg[i + 1] = c
  <2>1. Changed(s.arg, j, y)[i + 1] = s.arg[i + 1]
    BY <1>1, <1>5, <1>6, <1>9, ChangedApart
  <2> HIDE DEF z
  <2> QED BY <2>1, <1>12
<1> HIDE DEF z
<1>15. IsApplicable(z, Under(i, q)) /\ CleanApply(z, Under(i, q)) = WithChild(z, i, x)
  <2>1. ~IsAtomic(z) /\ i \in 0 .. Arity(z) - 1 /\ IsApplicable(z.arg[i + 1], q)
    BY <1>1, <1>13, <1>14 DEF IsAtomic
  <2>2. IsApplicable(z, Under(i, q))
    BY <2>1, <1>13, UnderDoes
  <2>3. CleanApply(z, Under(i, q)) = WithChild(z, i, CleanApply(z.arg[i + 1], q))
    BY <2>2, <1>13, UnderDoes
  <2> QED BY <2>2, <2>3, <1>14 DEF x
<1>16. WithChild(z, i, x) = WithChild(u, j, y)
  <2>1. u = Node(s.op, Changed(s.arg, i, x))
    BY <1>1, <1>6, WithChildNode
  <2>2. WithChild(z, i, x) = Node(s.op, Changed(Changed(s.arg, j, y), i, x))
    BY <1>12, WithChildNode
  <2>3. WithChild(u, j, y) = Node(s.op, Changed(Changed(s.arg, i, x), j, y))
    BY <2>1, WithChildNode
  <2>4. Changed(Changed(s.arg, i, x), j, y) = Changed(Changed(s.arg, j, y), i, x)
    BY <1>1, <1>3, <1>5, <1>6, <1>9, ChangedApart
  <2> QED BY <2>2, <2>3, <2>4
<1>17. Under(i, q) \in Modification(T) /\ Under(j, r) \in Modification(T)
  BY UnderFacts
<1> QED BY <1>10, <1>11, <1>15, <1>16, <1>17 DEF Same

LEMMA ShiftUnder ==
  ASSUME NEW T, NEW q \in Modification(T), NEW j \in Nat, NEW d \in Int, NEW k \in Nat, k = j + d
  PROVE  Shift(Under(j, q), d) = Under(k, q)
<1> DEFINE m == Under(j, q)
           v == Shift(m, d)
           w == Under(k, q)
<1>1. /\ m \in Modification(T) /\ m.k = q.k /\ m.t = q.t /\ m.p = <<j>> \o q.p /\ m.p # <<>>
      /\ m.p[1] = j
  BY UnderFacts, ZenonT(30)
<1>2. /\ w \in Modification(T) /\ w.k = q.k /\ w.t = q.t /\ w.p = <<k>> \o q.p
  BY UnderFacts, ZenonT(30)
<1> HIDE DEF m, w
<1>3. m.p[1] + d \in Nat
  BY <1>1
<1>4. IsShift(T, m, d, v)
  BY <1>1, <1>3, ShiftFacts
<1> HIDE DEF v
<1>5. /\ v \in Modification(T) /\ v.k = m.k /\ v.t = m.t
      /\ v.p \in Seq(Nat) /\ Len(v.p) = Len(m.p) /\ v.p[1] = m.p[1] + d
      /\ \A n \in 2 .. Len(m.p) : v.p[n] = m.p[n]
  BY <1>4 DEF IsShift
<1>6. q.p \in Seq(Nat)
  BY ModFacts
<1>7. /\ Len(m.p) = 1 + Len(q.p) /\ \A n \in 1 .. Len(q.p) : m.p[1 + n] = q.p[n]
      /\ w.p \in Seq(Nat) /\ Len(w.p) = 1 + Len(q.p) /\ w.p[1] = k
      /\ \A n \in 1 .. Len(q.p) : w.p[1 + n] = q.p[n]
  BY <1>1, <1>2, <1>6, OneAndMore
<1>8. v.p = w.p
  <2> DEFINE N == Len(q.p)
             a == v.p
             b == w.p
             e == m.p
  <2>1. /\ a \in Seq(Nat) /\ b \in Seq(Nat) /\ Len(a) = 1 + N /\ Len(b) = 1 + N /\ N \in Nat
    BY <1>5, <1>6, <1>7
  <2>2. a[1] = b[1]
    BY <1>1, <1>5, <1>7
  <2>3. \A n \in 2 .. 1 + N : a[n] = e[n]
    BY <1>5, <1>7
  <2>4. \A n \in 1 .. N : e[1 + n] = b[1 + n]
    BY <1>7
  <2> HIDE DEF N, a, b, e
  <2>5. \A n \in 1 .. Len(a) : a[n] = b[n]
    <3> SUFFICES ASSUME NEW n \in 1 .. 1 + N PROVE a[n] = b[n]
      BY <2>1
    <3>1. CASE n = 1
      BY <3>1, <2>2
    <3>2. CASE n # 1
      <4>1. n \in 2 .. 1 + N /\ n - 1 \in 1 .. N /\ 1 + (n - 1) = n
        BY <3>2, <2>1
      <4> QED BY <4>1, <2>3, <2>4
    <3> QED BY <3>1, <3>2
  <2>6. a = b
    BY <2>1, <2>5
  <2> QED BY <2>6 DEF a, b
<1>9. v = w
  BY <1>1, <1>2, <1>5, <1>8, SameMod
<1> QED BY <1>9 DEF v, w, m

-----------------------------------------------------------------------------
(* Changes that do not concern the list of children                        *)

LEMMA Relabelled ==
  ASSUME NEW T, IsTrees(T), NEW s \in T, NEW t \in T, NEW l, l = t.op,
         NEW w, w = WithLabel(s, l)
  PROVE  /\ w \in T /\ w.op = l /\ w.arg = s.arg /\ Arity(w) = Arity(s)
         /\ \A j \in 0 .. Arity(s) - 1 : \A x \in T :
              WithChild(w, j, x) = WithLabel(WithChild(s, j, x), l)
<1>1. s = Node(s.op, s.arg) /\ s.arg \in Seq(T) /\ \A as \in Seq(T) : Node(l, as) \in T
  BY NodeFacts
<1>2. w = Node(l, s.arg)
  BY <1>1, WithLabelNode
<1>3. w \in T /\ w.op = l /\ w.arg = s.arg /\ Arity(w) = Arity(s)
  BY <1>1, <1>2, NodeParts DEF Arity
<1>4. ASSUME NEW j \in 0 .. Arity(s) - 1, NEW x \in T
      PROVE  WithChild(w, j, x) = WithLabel(WithChild(s, j, x), l)
  <2>1. WithChild(s, j, x) = Node(s.op, Changed(s.arg, j, x))
    BY <1>1, WithChildNode
  <2>2. WithLabel(WithChild(s, j, x), l) = Node(l, Changed(s.arg, j, x))
    BY <2>1, WithLabelNode
  <2>3. WithChild(w, j, x) = Node(l, Changed(s.arg, j, x))
    BY <1>2, WithChildNode
  <2> QED BY <2>2, <2>3
<1> QED BY <1>3, <1>4

(* What it means that m gives the node it is at another label.             *)
LEMMA LabelForm ==
  ASSUME NEW T, IsTrees(T), NEW m \in Modification(T), AtRoot(m), m.k = "assign_node", NEW s \in T
  PROVE  /\ CanApply(s, m) <=> ~IsAtomic(s)
         /\ ApplyAt(s, m) = WithLabel(s, m.t.op) /\ ApplyAt(s, m) \in T
         /\ ~IsAtomic(ApplyAt(s, m)) /\ m.t \in T
<1>1. m.t \in T /\ ~IsAtomic(m.t)
  BY ModFacts DEF Modification
<1>2. CanApply(s, m) <=> ~IsAtomic(s)
  BY DEF CanApply
<1>3. ApplyAt(s, m) = WithLabel(s, m.t.op)
  BY Effects
<1>4. WithLabel(s, m.t.op) \in T /\ WithLabel(s, m.t.op).op = m.t.op
  BY <1>1, Relabelled
<1> QED BY <1>1, <1>2, <1>3, <1>4 DEF IsAtomic

(* The label of a node and a child of it.                                  *)
LEMMA LabelFirst ==
  ASSUME NEW T, IsTrees(T), NEW s \in T,
         NEW q \in Modification(T), NEW j \in Nat, IsApplicable(s, Under(j, q)),
         NEW u, u = CleanApply(s, Under(j, q)),
         NEW m2 \in Modification(T), AtRoot(m2), m2.k = "assign_node"
  PROVE  Same(T, s, ApplyAt(u, m2), m2, Under(j, q))
<1> DEFINE c == s.arg[j + 1]
           x == CleanApply(c, q)
           w == ApplyAt(s, m2)
<1>1. /\ ~IsAtomic(s) /\ j \in 0 .. Arity(s) - 1 /\ IsApplicable(c, q)
      /\ u = WithChild(s, j, x)
  BY UnderDoes
<1>2. c \in T
  BY <1>1, ChildFacts
<1>3. x \in T
  BY <1>1, <1>2, NodeInTrees
<1>4. u \in T
  BY <1>1, <1>3, ChildFacts
<1>5. /\ w \in T /\ w = WithLabel(s, m2.t.op) /\ ~IsAtomic(w) /\ m2.t \in T /\ CanApply(s, m2)
  BY <1>1, LabelForm
<1>6. ApplyAt(u, m2) = WithLabel(u, m2.t.op)
  BY <1>4, LabelForm
<1>7. /\ w.arg = s.arg /\ Arity(w) = Arity(s)
      /\ WithChild(w, j, x) = WithLabel(WithChild(s, j, x), m2.t.op)
  <2> DEFINE l == m2.t.op
  <2>1. l = m2.t.op /\ w = WithLabel(s, l)
    BY <1>5
  <2> HIDE DEF l, w
  <2> QED BY <2>1, <1>1, <1>3, <1>5, Relabelled
<1>8. IsApplicable(s, m2) /\ CleanApply(s, m2) = w
  BY <1>5, RootDoes
<1> HIDE DEF w
<1>9. IsApplicable(w, Under(j, q)) /\ CleanApply(w, Under(j, q)) = WithChild(w, j, x)
  <2>1. ~IsAtomic(w) /\ j \in 0 .. Arity(w) - 1 /\ IsApplicable(w.arg[j + 1], q)
    BY <1>1, <1>5, <1>7
  <2>2. IsApplicable(w, Under(j, q))
    BY <2>1, <1>5, UnderDoes
  <2>3. CleanApply(w, Under(j, q)) = WithChild(w, j, CleanApply(w.arg[j + 1], q))
    BY <2>2, <1>5, UnderDoes
  <2> QED BY <2>2, <2>3, <1>7
<1>10. Under(j, q) \in Modification(T)
  BY UnderFacts
<1> QED BY <1>1, <1>6, <1>7, <1>8, <1>9, <1>10 DEF Same

LEMMA LabelSecond ==
  ASSUME NEW T, IsTrees(T), NEW s \in T,
         NEW m1 \in Modification(T), AtRoot(m1), m1.k = "assign_node", CanApply(s, m1),
         NEW u, u = ApplyAt(s, m1),
         NEW q \in Modification(T), NEW j \in Nat, IsApplicable(u, Under(j, q))
  PROVE  Same(T, s, CleanApply(u, Under(j, q)), Under(j, q), m1)
<1> DEFINE c == s.arg[j + 1]
           x == CleanApply(c, q)
           z == WithChild(s, j, x)
<1>1. ~IsAtomic(s) /\ u \in T /\ u = WithLabel(s, m1.t.op) /\ m1.t \in T
  BY LabelForm
<1>2. u.arg = s.arg /\ Arity(u) = Arity(s)
  <2> DEFINE l == m1.t.op
  <2>1. l = m1.t.op /\ u = WithLabel(s, l)
    BY <1>1
  <2> HIDE DEF l
  <2> QED BY <2>1, <1>1, Relabelled
<1>3. /\ j \in 0 .. Arity(s) - 1 /\ IsApplicable(c, q)
      /\ CleanApply(u, Under(j, q)) = WithChild(u, j, x)
  BY <1>1, <1>2, UnderDoes
<1>4. IsApplicable(s, Under(j, q)) /\ CleanApply(s, Under(j, q)) = z
  BY <1>1, <1>3, UnderDoes
<1>5. c \in T
  BY <1>3, ChildFacts
<1>6. x \in T
  BY <1>3, <1>5, NodeInTrees
<1> HIDE DEF x
<1>7. z \in T /\ z.op = s.op
  BY <1>3, <1>6, ChildFacts
<1>8. WithChild(u, j, x) = WithLabel(z, m1.t.op)
  <2> DEFINE l == m1.t.op
  <2>1. l = m1.t.op /\ u = WithLabel(s, l)
    BY <1>1
  <2> HIDE DEF l
  <2> QED BY <2>1, <1>1, <1>3, <1>6, Relabelled
<1> HIDE DEF z
<1>9. ~IsAtomic(z)
  BY <1>1, <1>7 DEF IsAtomic
<1>10. CanApply(z, m1) /\ ApplyAt(z, m1) = WithLabel(z, m1.t.op)
  BY <1>7, <1>9, LabelForm
<1>11. IsApplicable(z, m1) /\ CleanApply(z, m1) = WithLabel(z, m1.t.op)
  BY <1>10, RootDoes
<1>12. Under(j, q) \in Modification(T)
  BY UnderFacts
<1> QED BY <1>3, <1>4, <1>8, <1>11, <1>12 DEF Same

(* The node W with x for one child more, at position i.                    *)
Wrapped(W, i, x) == WithArg(W, Splice(W.arg, i, 0, <<x>>))

LEMMA WrappedFacts ==
  ASSUME NEW T, IsTrees(T), NEW W \in T, NEW i \in 0 .. Arity(W), NEW x \in T, NEW y \in T
  PROVE  /\ Wrapped(W, i, x) \in T /\ Wrapped(W, i, x).op = W.op
         /\ i \in 0 .. Arity(Wrapped(W, i, x)) - 1 /\ Wrapped(W, i, x).arg[i + 1] = x
         /\ WithChild(Wrapped(W, i, x), i, y) = Wrapped(W, i, y)
<1> DEFINE a == W.arg
           N == Len(a)
           b == Splice(a, i, 0, <<x>>)
           c == Splice(a, i, 0, <<y>>)
           d == Changed(b, i, y)
<1>1. /\ a \in Seq(T) /\ N \in Nat /\ W = Node(W.op, a) /\ i \in Nat /\ i <= N
      /\ \A as \in Seq(T) : Node(W.op, as) \in T
  BY NodeFacts DEF Arity
<1> HIDE DEF a
<1>2. b \in Seq(T) /\ c \in Seq(T) /\ IsSplice(b, a, i, 0, <<x>>) /\ IsSplice(c, a, i, 0, <<y>>)
  <2>1. i + 0 <= Len(a) /\ 0 \in Nat /\ << x >> \in Seq(T) /\ << y >> \in Seq(T)
    BY <1>1
  <2> QED BY <2>1, <1>1, SpliceFacts
<1> HIDE DEF b, c
<1>3. /\ Len(b) = N + 1 /\ b[i + 1] = x
      /\ \A k \in 1 .. i : b[k] = a[k]
      /\ \A k \in i + 1 .. N : b[k + 1] = a[k]
  <2>1. /\ Len(b) = N - 0 + 1
        /\ \A k \in 1 .. i : b[k] = a[k]
        /\ \A k \in 1 .. 1 : b[i + k] = <<x>>[k]
        /\ \A k \in i + 0 + 1 .. N : b[k - 0 + 1] = a[k]
    BY <1>2 DEF IsSplice
  <2> HIDE DEF N
  <2> QED BY <2>1, <1>1
<1>4. /\ Len(c) = N + 1 /\ c[i + 1] = y
      /\ \A k \in 1 .. i : c[k] = a[k]
      /\ \A k \in i + 1 .. N : c[k + 1] = a[k]
  <2>1. /\ Len(c) = N - 0 + 1
        /\ \A k \in 1 .. i : c[k] = a[k]
        /\ \A k \in 1 .. 1 : c[i + k] = <<y>>[k]
        /\ \A k \in i + 0 + 1 .. N : c[k - 0 + 1] = a[k]
    BY <1>2 DEF IsSplice
  <2> HIDE DEF N
  <2> QED BY <2>1, <1>1
<1> HIDE DEF N
<1>5. d = c
  <2>1. i \in 0 .. Len(b) - 1
    BY <1>1, <1>3
  <2>2. d \in Seq(T) /\ Len(d) = Len(b) /\ d[i + 1] = y
    BY <2>1, <1>2, ChangedFacts
  <2>3. \A k \in 1 .. N + 1 : k # i + 1 => d[k] = b[k]
    <3> SUFFICES ASSUME NEW k \in 1 .. N + 1, k # i + 1 PROVE d[k] = b[k]
      OBVIOUS
    <3>1. k \in 1 .. Len(b)
      BY <1>3
    <3> QED BY <2>1, <3>1, <1>2, ChangedElsewhere
  <2> HIDE DEF d
  <2>4. \A k \in 1 .. N + 1 : d[k] = c[k]
    <3> SUFFICES ASSUME NEW k \in 1 .. N + 1 PROVE d[k] = c[k]
      OBVIOUS
    <3>1. CASE k \in 1 .. i
      BY <3>1, <2>3, <1>1, <1>3, <1>4
    <3>2. CASE k = i + 1
      BY <3>2, <2>2, <1>4
    <3>3. CASE k > i + 1
      <4>1. k - 1 \in i + 1 .. N /\ (k - 1) + 1 = k /\ k # i + 1
        BY <3>3, <1>1
      <4>2. b[(k - 1) + 1] = a[k - 1] /\ c[(k - 1) + 1] = a[k - 1]
        BY <4>1, <1>3, <1>4
      <4> QED BY <4>1, <4>2, <2>3
    <3> QED BY <3>1, <3>2, <3>3, <1>1
  <2> QED BY <2>2, <2>4, <1>2, <1>3, <1>4
<1>6. Wrapped(W, i, x) = Node(W.op, b) /\ Wrapped(W, i, y) = Node(W.op, c)
  BY <1>1, WithArgNode DEF Wrapped, a, b, c
<1>7. WithChild(Wrapped(W, i, x), i, y) = Node(W.op, d)
  BY <1>6, WithChildNode
<1>8. Node(W.op, b).op = W.op /\ Node(W.op, b).arg = b /\ Arity(Node(W.op, b)) = Len(b)
  BY NodeParts
<1>9. i \in 0 .. Len(b) - 1
  BY <1>1, <1>3
<1> QED BY <1>1, <1>2, <1>3, <1>5, <1>6, <1>7, <1>8, <1>9

LEMMA WrapForm ==
  ASSUME NEW T, IsTrees(T), NEW m \in Modification(T), AtRoot(m), m.k = "insert_node", NEW s
  PROVE  /\ CanApply(s, m) <=> ~IsAtomic(m.t) /\ m.p[1] \in 0 .. Arity(m.t)
         /\ ApplyAt(s, m) = Wrapped(m.t, m.p[1], s)
         /\ m.t \in T /\ m.p[1] \in Nat
<1>1. Argument(m) = Index(m) /\ Index(m) = m.p[1] /\ m.p[1] \in Nat /\ m.t \in T
  BY ModFacts, RootForm DEF Extra
<1>2. CanApply(s, m) <=> ~IsAtomic(m.t) /\ Argument(m) \in 0 .. Arity(m.t)
  BY DEF CanApply
<1>3. ApplyAt(s, m) = WithArg(m.t, Splice(m.t.arg, Argument(m), 0, <<s>>))
  BY Effects
<1> QED BY <1>1, <1>2, <1>3 DEF Wrapped

(* What is done within a node that is then wrapped can be done afterwards. *)
LEMMA WrapFirst ==
  ASSUME NEW T, IsTrees(T), NEW s \in T,
         NEW m1 \in Modification(T), IsApplicable(s, m1), NEW u, u = CleanApply(s, m1),
         NEW m2 \in Modification(T), AtRoot(m2), m2.k = "insert_node", CanApply(u, m2),
         NEW i, i = m2.p[1]
  PROVE  Same(T, s, ApplyAt(u, m2), m2, Under(i, m1))
<1> DEFINE W == m2.t
           z == Wrapped(W, i, s)
<1>1. /\ W \in T /\ i \in Nat /\ i \in 0 .. Arity(W) /\ ~IsAtomic(W) /\ CanApply(s, m2)
      /\ ApplyAt(s, m2) = z /\ ApplyAt(u, m2) = Wrapped(W, i, u)
  BY WrapForm
<1>2. u \in T
  BY NodeInTrees
<1> HIDE DEF W
<1>3. /\ z \in T /\ z.op = W.op /\ i \in 0 .. Arity(z) - 1 /\ z.arg[i + 1] = s
      /\ WithChild(z, i, u) = Wrapped(W, i, u)
  BY <1>1, <1>2, WrappedFacts
<1> HIDE DEF z
<1>4. IsApplicable(s, m2) /\ CleanApply(s, m2) = z
  BY <1>1, RootDoes
<1>5. IsApplicable(z, Under(i, m1)) /\ CleanApply(z, Under(i, m1)) = WithChild(z, i, u)
  <2>1. ~IsAtomic(z) /\ IsApplicable(z.arg[i + 1], m1)
    BY <1>1, <1>3 DEF IsAtomic
  <2>2. IsApplicable(z, Under(i, m1))
    BY <2>1, <1>1, <1>3, UnderDoes
  <2>3. CleanApply(z, Under(i, m1)) = WithChild(z, i, CleanApply(z.arg[i + 1], m1))
    BY <2>2, <1>1, <1>3, UnderDoes
  <2> QED BY <2>2, <2>3, <1>3
<1>6. Under(i, m1) \in Modification(T)
  BY <1>1, UnderFacts
<1> QED BY <1>1, <1>3, <1>4, <1>5, <1>6 DEF Same

(* What is done within the node that has been wrapped can be done before.  *)
LEMMA WrapSecond ==
  ASSUME NEW T, IsTrees(T), NEW s \in T,
         NEW m1 \in Modification(T), AtRoot(m1), m1.k = "insert_node", CanApply(s, m1),
         NEW u, u = ApplyAt(s, m1), NEW i, i = m1.p[1],
         NEW q \in Modification(T), IsApplicable(u, Under(i, q))
  PROVE  Same(T, s, CleanApply(u, Under(i, q)), q, m1)
<1> DEFINE W == m1.t
           x == CleanApply(s, q)
<1>1. /\ W \in T /\ i \in Nat /\ i \in 0 .. Arity(W) /\ ~IsAtomic(W)
      /\ u = Wrapped(W, i, s) /\ CanApply(x, m1) /\ ApplyAt(x, m1) = Wrapped(W, i, x)
  BY WrapForm
<1> HIDE DEF W
<1>2. u \in T /\ u.arg[i + 1] = s
  BY <1>1, WrappedFacts
<1>3. IsApplicable(s, q) /\ CleanApply(u, Under(i, q)) = WithChild(u, i, x)
  BY <1>1, <1>2, UnderDoes
<1>4. x \in T
  BY <1>3, NodeInTrees
<1>5. WithChild(u, i, x) = Wrapped(W, i, x)
  BY <1>1, <1>4, WrappedFacts
<1>6. IsApplicable(x, m1) /\ CleanApply(x, m1) = ApplyAt(x, m1)
  BY <1>1, RootDoes
<1> QED BY <1>1, <1>3, <1>5, <1>6 DEF Same

LEMMA UnwrapForm ==
  ASSUME NEW T, IsTrees(T), NEW m \in Modification(T), AtRoot(m), m.k = "remove_node",
         NEW s, NEW i, i = m.p[1]
  PROVE  /\ CanApply(s, m) <=> ~IsAtomic(s) /\ i \in 0 .. Arity(s) - 1
         /\ ApplyAt(s, m) = s.arg[i + 1] /\ i \in Nat
<1>1. Index(m) = i /\ i \in Nat
  BY RootForm DEF Extra
<1>2. CanApply(s, m) <=> HasSubTree(s, <<Index(m)>>)
  BY DEF CanApply
<1>3. HasSubTree(s, <<i>>) <=> ~IsAtomic(s) /\ i \in 0 .. Arity(s) - 1
  BY <1>1, ChildAt
<1>4. ApplyAt(s, m) = s.arg[Index(m) + 1]
  BY Effects
<1> QED BY <1>1, <1>2, <1>3, <1>4

(* Work on the child that is to replace the node, before and after.        *)
LEMMA UnwrapFirst ==
  ASSUME NEW T, IsTrees(T), NEW s \in T, NEW m2 \in Modification(T), AtRoot(m2),
         m2.k = "remove_node", NEW i, i = m2.p[1],
         NEW q \in Modification(T), IsApplicable(s, Under(i, q)),
         NEW u, u = CleanApply(s, Under(i, q))
  PROVE  Same(T, s, ApplyAt(u, m2), m2, q)
<1> DEFINE c == s.arg[i + 1]
           x == CleanApply(c, q)
<1>1. i \in Nat /\ ApplyAt(u, m2) = u.arg[i + 1] /\ ApplyAt(s, m2) = c
  BY UnwrapForm
<1>2. /\ ~IsAtomic(s) /\ i \in 0 .. Arity(s) - 1 /\ IsApplicable(c, q)
      /\ u = WithChild(s, i, x)
  BY <1>1, UnderDoes
<1>3. c \in T
  BY <1>2, ChildFacts
<1>4. x \in T
  BY <1>2, <1>3, NodeInTrees
<1> HIDE DEF x
<1>5. u.arg[i + 1] = x
  BY <1>2, <1>4, ChildFacts
<1>6. CanApply(s, m2)
  BY <1>2, UnwrapForm
<1>7. IsApplicable(s, m2) /\ CleanApply(s, m2) = c
  BY <1>1, <1>6, RootDoes
<1> QED BY <1>1, <1>2, <1>5, <1>7 DEF Same, x

LEMMA UnwrapSecond ==
  ASSUME NEW T, IsTrees(T), NEW s \in T, NEW m1 \in Modification(T), AtRoot(m1),
         m1.k = "remove_node", CanApply(s, m1), NEW i, i = m1.p[1], NEW u, u = ApplyAt(s, m1),
         NEW m2 \in Modification(T), IsApplicable(u, m2)
  PROVE  Same(T, s, CleanApply(u, m2), Under(i, m2), m1)
<1> DEFINE y == CleanApply(u, m2)
           z == WithChild(s, i, y)
<1>1. /\ i \in Nat /\ ~IsAtomic(s) /\ i \in 0 .. Arity(s) - 1 /\ u = s.arg[i + 1]
      /\ ApplyAt(z, m1) = z.arg[i + 1]
  BY UnwrapForm
<1>2. u \in T
  BY <1>1, ChildFacts
<1>3. y \in T
  BY <1>2, NodeInTrees
<1>4. IsApplicable(s, Under(i, m2)) /\ CleanApply(s, Under(i, m2)) = z
  BY <1>1, UnderDoes
<1> HIDE DEF y
<1>5. z \in T /\ z.op = s.op /\ Arity(z) = Arity(s) /\ z.arg[i + 1] = y
  BY <1>1, <1>3, ChildFacts
<1> HIDE DEF z
<1>6. CanApply(z, m1)
  BY <1>1, <1>5, UnwrapForm DEF IsAtomic
<1>7. IsApplicable(z, m1) /\ CleanApply(z, m1) = y
  BY <1>1, <1>5, <1>6, RootDoes
<1>8. Under(i, m2) \in Modification(T)
  BY <1>1, UnderFacts
<1> QED BY <1>4, <1>7, <1>8 DEF Same, y

(* A cursor in a compound node.                                            *)
LEMMA CursorForm ==
  ASSUME NEW T, NEW m \in Modification(T), AtRoot(m), m.k = "set_cursor", NEW s
  PROVE  /\ ~IsAtomic(s) => (CanApply(s, m) <=> m.p[1] \in 0 .. 1)
         /\ ApplyAt(s, m) = s
<1>1. Index(m) = m.p[1]
  BY RootForm DEF Extra
<1>2. CanApply(s, m) <=> Index(m) \in 0 .. RightIndex(s)
  BY DEF CanApply
<1>3. ~IsAtomic(s) => RightIndex(s) = 1
  BY DEF RightIndex
<1> QED BY <1>1, <1>2, <1>3, Effects

LEMMA CursorFirst ==
  ASSUME NEW T, IsTrees(T), NEW s \in T,
         NEW q \in Modification(T), NEW j \in Nat, IsApplicable(s, Under(j, q)),
         NEW u, u = CleanApply(s, Under(j, q)),
         NEW m2 \in Modification(T), AtRoot(m2), m2.k = "set_cursor", CanApply(u, m2)
  PROVE  Same(T, s, ApplyAt(u, m2), m2, Under(j, q))
<1>1. /\ ~IsAtomic(s) /\ j \in 0 .. Arity(s) - 1 /\ IsApplicable(s.arg[j + 1], q)
      /\ u = WithChild(s, j, CleanApply(s.arg[j + 1], q))
  BY UnderDoes
<1>2. s.arg[j + 1] \in T
  BY <1>1, ChildFacts
<1>3. CleanApply(s.arg[j + 1], q) \in T
  BY <1>1, <1>2, NodeInTrees
<1>4. u.op = s.op
  BY <1>1, <1>3, ChildFacts
<1>5. CanApply(s, m2) /\ ApplyAt(s, m2) = s /\ ApplyAt(u, m2) = u
  BY <1>1, <1>4, CursorForm DEF IsAtomic
<1>6. IsApplicable(s, m2) /\ CleanApply(s, m2) = s
  BY <1>5, RootDoes
<1>7. Under(j, q) \in Modification(T)
  BY UnderFacts
<1> QED BY <1>5, <1>6, <1>7 DEF Same

LEMMA CursorSecond ==
  ASSUME NEW T, NEW s \in T, NEW m1 \in Modification(T), AtRoot(m1), m1.k = "set_cursor",
         CanApply(s, m1), NEW m2 \in Modification(T), IsApplicable(s, m2),
         NEW z, z = CleanApply(s, m2), ~IsAtomic(s), ~IsAtomic(z)
  PROVE  Same(T, s, z, m2, m1)
<1>1. CanApply(z, m1) /\ ApplyAt(z, m1) = z
  BY CursorForm
<1>2. IsApplicable(z, m1) /\ CleanApply(z, m1) = z
  BY <1>1, RootDoes
<1> QED BY <1>2 DEF Same

-----------------------------------------------------------------------------
(* The first modification is deeper than the second                        *)

LEMMA ToRootKinds ==
  ASSUME NEW m1, NEW m2, NEW i, i = m2.p[1], NEW j, j = m1.p[1],
         NEW r, r = SwapToRoot(m1, m2), r.ok
  PROVE  /\ m2.k # "assign"
         /\ m2.k = "insert" => r = Swap2(m1, m2, i, Arity(m2.t))
         /\ m2.k = "remove" => j \notin i .. i + m2.p[2] - 1 /\ r = Swap2(m1, m2, i, -m2.p[2])
         /\ m2.k = "split"  => j # i /\ r = Swap2(m1, m2, i, 1)
         /\ m2.k = "join"   => j # i /\ j # i + 1 /\ r = Swap2(m1, m2, i, -1)
         /\ m2.k = "assign_node" => r = Swapped(m2, m1)
         /\ m2.k = "insert_node" => r = Swapped(m2, Under(i, m1))
         /\ m2.k = "remove_node" => j = i /\ r = Swapped(m2, Below(m1))
         /\ m2.k = "set_cursor" => r = Swapped(m2, m1)
<1>1. ~NoSwap.ok
  BY DEF NoSwap
<1>2. CASE m2.k = "assign"
  BY <1>1, <1>2 DEF SwapToRoot
<1>3. CASE m2.k = "insert"
  BY <1>1, <1>3 DEF SwapToRoot
<1>4. CASE m2.k = "remove"
  BY <1>1, <1>4 DEF SwapToRoot
<1>5. CASE m2.k = "split"
  BY <1>1, <1>5 DEF SwapToRoot
<1>6. CASE m2.k = "join"
  BY <1>1, <1>6 DEF SwapToRoot
<1>7. CASE m2.k = "assign_node"
  BY <1>1, <1>7 DEF SwapToRoot
<1>8. CASE m2.k = "insert_node"
  BY <1>1, <1>8 DEF SwapToRoot
<1>9. CASE m2.k = "remove_node"
  BY <1>1, <1>9 DEF SwapToRoot, Below, WithPath
<1>10. CASE m2.k = "set_cursor"
  BY <1>1, <1>10 DEF SwapToRoot
<1> QED BY <1>2, <1>3, <1>4, <1>5, <1>6, <1>7, <1>8, <1>9, <1>10

LEMMA ToRootList ==
  ASSUME NEW m1, NEW m2, m2.k \in ListKinds, NEW i \in Nat, i = m2.p[1], NEW j \in Nat, j = m1.p[1],
         OldLen(m2) \in Nat, NEW r, r = SwapToRoot(m1, m2), r.ok
  PROVE  \/ j < i /\ r = Swapped(m2, m1)
         \/ i + OldLen(m2) <= j /\ r = Swapped(m2, Shift(m1, Growth(m2)))
<1> DEFINE g == Growth(m2)
           n == OldLen(m2)
<1>1. r = Swap2(m1, m2, i, g)
  BY ToRootKinds DEF ListKinds, Growth
<1>2. r = Swapped(m2, IF j >= i THEN Shift(m1, g) ELSE m1)
  BY <1>1 DEF Swap2
<1>3. j < i \/ i + n <= j
  <2>1. CASE m2.k = "insert"
    BY <2>1 DEF OldLen
  <2>2. CASE m2.k = "remove"
    <3>1. n = m2.p[2] /\ n \in Nat
      BY <2>2 DEF OldLen
    <3>2. j \notin i .. i + m2.p[2] - 1
      BY <2>2, ToRootKinds
    <3> HIDE DEF n
    <3>3. j \notin i .. i + n - 1
      BY <3>1, <3>2
    <3> QED BY <3>1, <3>3
  <2>3. CASE m2.k = "split"
    <3>1. n = 1 /\ j # i
      BY <2>3, ToRootKinds DEF OldLen
    <3> HIDE DEF n
    <3> QED BY <3>1
  <2>4. CASE m2.k = "join"
    <3>1. n = 2 /\ j # i /\ j # i + 1
      BY <2>4, ToRootKinds DEF OldLen
    <3> HIDE DEF n
    <3> QED BY <3>1
  <2> QED BY <2>1, <2>2, <2>3, <2>4 DEF ListKinds
<1> HIDE DEF n, g
<1>4. CASE j < i
  BY <1>2, <1>4
<1>5. CASE i + n <= j
  <2>1. j >= i
    BY <1>5 DEF n
  <2> QED BY <1>2, <1>5, <2>1 DEF n, g
<1> QED BY <1>3, <1>4, <1>5

(* A pair that SwapToRoot or SwapFromRoot answers with.                    *)
Answered(T, s, x, r) == Same(T, s, x, r.first, r.second)

LEMMA AnswerFacts ==
  ASSUME NEW f, NEW g, NEW T, NEW s, NEW x
  PROVE  /\ Swapped(f, g).ok /\ Swapped(f, g).first = f /\ Swapped(f, g).second = g
         /\ Answered(T, s, x, Swapped(f, g)) <=> Same(T, s, x, f, g)
BY DEF Swapped, Answered

LEMMA ToRoot ==
  ASSUME NEW T, IsTrees(T), NEW s \in T,
         NEW m1 \in Modification(T), ~AtRoot(m1), IsApplicable(s, m1), NEW u, u = CleanApply(s, m1),
         NEW m2 \in Modification(T), AtRoot(m2), CanApply(u, m2),
         NEW r, r = SwapToRoot(m1, m2), r.ok
  PROVE  Answered(T, s, ApplyAt(u, m2), r)
<1> DEFINE j == m1.p[1]
           q == Below(m1)
           i == m2.p[1]
           y == ApplyAt(u, m2)
<1>1. j \in Nat /\ q \in Modification(T) /\ m1 = Under(j, q) /\ u \in T
  BY BelowFacts, NodeInTrees
<1>2. m2.k \in Kinds /\ m2.k # "assign"
  BY ModFacts, ToRootKinds
<1> HIDE DEF q, y
<1>3. CASE m2.k \in ListKinds
  <2> DEFINE n == OldLen(m2)
             v == NewPart(m2, u.arg[i + 1], u.arg[i + 2])
  <2>1. IsEdit(T, m2, u, i, n, v)
    BY <1>1, <1>3, EditFacts
  <2>2. i \in Nat /\ n \in Nat
    BY <2>1 DEF IsEdit
  <2>3. \/ j < i /\ r = Swapped(m2, m1)
        \/ i + n <= j /\ r = Swapped(m2, Shift(m1, Growth(m2)))
    BY <1>1, <1>3, <2>2, ToRootList
  <2> HIDE DEF n, v, j, i
  <2>4. CASE j < i /\ r = Swapped(m2, m1)
    <3>1. Same(T, s, y, m2, Under(j, q))
      BY <1>1, <2>1, <2>4, WithinSecond DEF y
    <3> QED BY <1>1, <2>4, <3>1, AnswerFacts DEF y
  <2>5. CASE i + n <= j /\ r = Swapped(m2, Shift(m1, Growth(m2)))
    <3> DEFINE k == j + Growth(m2)
    <3>1. Growth(m2) \in Int /\ k \in Nat
      <4> DEFINE g == Growth(m2)
                 lv == Len(v)
      <4>1. g = lv - n /\ v \in Seq(T)
        BY <2>1 DEF IsEdit
      <4>2. lv \in Nat
        BY <4>1
      <4> HIDE DEF lv, g
      <4>3. g \in Int /\ j + g \in Nat
        BY <1>1, <2>2, <2>5, <4>1, <4>2
      <4> QED BY <4>3 DEF g
    <3>2. k = j + Growth(m2)
      OBVIOUS
    <3> HIDE DEF k
    <3>3. Same(T, s, y, m2, Under(k, q))
      BY <1>1, <2>1, <2>5, <3>2, WithinSecond DEF y
    <3>4. Shift(Under(j, q), Growth(m2)) = Under(k, q)
      BY <1>1, <3>1, <3>2, ShiftUnder
    <3> QED BY <1>1, <2>5, <3>3, <3>4, AnswerFacts DEF y
  <2> QED BY <2>3, <2>4, <2>5
<1>4. CASE m2.k = "assign_node"
  <2>1. r = Swapped(m2, m1)
    BY <1>4, ToRootKinds
  <2>2. Same(T, s, y, m2, m1)
    BY <1>1, <1>4, LabelFirst DEF y
  <2> QED BY <2>1, <2>2, AnswerFacts DEF y
<1>5. CASE m2.k = "insert_node"
  <2>1. r = Swapped(m2, Under(i, m1))
    BY <1>5, ToRootKinds
  <2>2. Same(T, s, y, m2, Under(i, m1))
    BY <1>5, WrapFirst DEF y
  <2> QED BY <2>1, <2>2, AnswerFacts DEF y
<1>6. CASE m2.k = "remove_node"
  <2>1. j = i /\ r = Swapped(m2, q)
    BY <1>6, ToRootKinds DEF q
  <2>2. Same(T, s, y, m2, q)
    BY <1>1, <1>6, <2>1, UnwrapFirst DEF y
  <2> QED BY <2>1, <2>2, AnswerFacts DEF y
<1>7. CASE m2.k = "set_cursor"
  <2>1. r = Swapped(m2, m1)
    BY <1>7, ToRootKinds
  <2>2. Same(T, s, y, m2, m1)
    BY <1>1, <1>7, CursorFirst DEF y
  <2> QED BY <2>1, <2>2, AnswerFacts DEF y
<1> QED BY <1>2, <1>3, <1>4, <1>5, <1>6, <1>7 DEF Kinds, ListKinds

-----------------------------------------------------------------------------
(* The first modification is at the root of what the two have in common    *)

(* What r, an answer of Swap1, is: after is the answer to an m2 that acts   *)
(* behind what m1 has changed.                                             *)
Swap1Gives(m1, m2, i, b, r, after) ==
  /\ ~AtRoot(m2) => r = IF b < i THEN Swapped(m2, Shift(m1, 0)) ELSE after
  /\ AtRoot(m2) =>
       /\ m2.k = "insert" => r = IF b <= i THEN Swapped(m2, Shift(m1, Arity(m2.t))) ELSE after
       /\ m2.k = "remove" =>
            /\ ~(b <= i /\ i < b + m2.p[2] /\ (b # i \/ m1.k # "remove"))
            /\ r = IF b < i THEN Swapped(m2, Shift(m1, -m2.p[2])) ELSE after
       /\ m2.k = "split" => r = IF b < i THEN Swapped(m2, Shift(m1, 1)) ELSE after
       /\ m2.k = "join" =>
            b # i - 1 /\ r = IF b < i THEN Swapped(m2, Shift(m1, -1)) ELSE after
       /\ m2.k = "insert_node" => r = Swapped(m2, Under(b, m1))
       /\ m2.k # "remove_node" /\ m2.k # "set_cursor"

LEMMA Swap1Kinds ==
  ASSUME NEW m1, NEW m2, NEW i \in Nat, NEW d \in Int, NEW b \in Nat, b = m2.p[1],
         NEW r, r = Swap1(m1, m2, i, d), r.ok
  PROVE  Swap1Gives(m1, m2, i, b, r, Swapped(Shift(m2, -d), Shift(m1, 0)))
<1> DEFINE after == Swapped(Shift(m2, -d), Shift(m1, 0))
<1> SUFFICES Swap1Gives(m1, m2, i, b, r, after)
  OBVIOUS
<1> USE DEF Swap1Gives
<1>1. ~NoSwap.ok
  BY DEF NoSwap
<1>2. CASE ~AtRoot(m2)
  BY <1>1, <1>2 DEF Swap1
<1>3. CASE AtRoot(m2)
  <2>1. CASE m2.k = "insert"
    <3>1. CASE b < i
      BY <1>3, <2>1, <3>1 DEF Swap1
    <3>2. CASE b = i
      BY <1>3, <2>1, <3>2 DEF Swap1
    <3>3. CASE b > i
      BY <1>3, <2>1, <3>3 DEF Swap1
    <3> QED BY <3>1, <3>2, <3>3, <1>3, <2>1
  <2>2. CASE m2.k = "remove"
    BY <1>1, <1>3, <2>2 DEF Swap1
  <2>3. CASE m2.k = "split"
    BY <1>1, <1>3, <2>3 DEF Swap1
  <2>4. CASE m2.k = "join"
    BY <1>1, <1>3, <2>4 DEF Swap1
  <2>5. CASE m2.k = "insert_node"
    BY <1>1, <1>3, <2>5 DEF Swap1
  <2>6. CASE m2.k \in {"remove_node", "set_cursor"}
    BY <1>1, <1>3, <2>6 DEF Swap1
  <2>7. CASE m2.k \notin ListKinds \cup {"insert_node", "remove_node", "set_cursor"}
    BY <1>3, <2>7 DEF ListKinds
  <2> QED BY <2>1, <2>2, <2>3, <2>4, <2>5, <2>6, <2>7 DEF ListKinds
<1> QED BY <1>2, <1>3

(* m2 is not within what m1 put there, unless it inserts something before  *)
(* that or wraps the node.                                                 *)
Meeting(m1, m2, i, b) ==
  CASE m1.k = "insert" -> b \in i .. i + Arity(m1.t) - 1
    [] m1.k = "remove" -> FALSE
    [] m1.k = "split"  -> b \in {i, i + 1}
    [] m1.k = "join"   -> b = i

LEMMA FromRootKinds ==
  ASSUME NEW m1, NEW m2, NEW i, i = m1.p[1], NEW b, b = m2.p[1],
         NEW r, r = SwapFromRoot(m1, m2), r.ok
  PROVE  /\ m1.k \in {"assign", "assign_node"} =>
              \/ m1 = m2 /\ r = Swapped(m1, m2)
              \/ AtRoot(m2) /\ m2.k = "insert_node" /\ r = Swapped(m2, Under(b, m1))
              \/ m1.k = "assign_node" /\ ~AtRoot(m2) /\ r = Swapped(m2, m1)
         /\ m1.k \in ListKinds =>
              /\ m2.p # <<>> /\ r = Swap1(m1, m2, i, Growth(m1))
              /\ Meeting(m1, m2, i, b) =>
                   AtRoot(m2) /\ ((m2.k = "insert" /\ b = i) \/ m2.k = "insert_node")
         /\ m1.k = "insert_node" =>
              /\ ~AtRoot(m2) /\ b = i
              /\ ~(Below(m2).k = "insert_node" /\ AtRoot(Below(m2))) => r = Swapped(Below(m2), m1)
         /\ m1.k = "remove_node" => r = Swapped(Under(i, m2), m1)
         /\ m1.k = "set_cursor" =>
              /\ ~AtRoot(m2) \/ m2.k \in {"join", "split", "assign_node"}
              /\ r = Swapped(m2, m1)
<1>1. ~NoSwap.ok
  BY DEF NoSwap
<1>2. CASE m1.k = "assign"
  BY <1>1, <1>2 DEF SwapFromRoot, ListKinds
<1>3. CASE m1.k \in ListKinds
  <2>1. m2.p # <<>>
    BY <1>1, <1>3 DEF SwapFromRoot, ListKinds
  <2>2. CASE m1.k = "insert"
    BY <1>1, <2>1, <2>2 DEF SwapFromRoot, ListKinds, Growth, Meeting
  <2>3. CASE m1.k = "remove"
    BY <1>1, <2>1, <2>3 DEF SwapFromRoot, ListKinds, Growth, Meeting
  <2>4. CASE m1.k = "split"
    BY <1>1, <2>1, <2>4 DEF SwapFromRoot, ListKinds, Growth, Meeting
  <2>5. CASE m1.k = "join"
    BY <1>1, <2>1, <2>5 DEF SwapFromRoot, ListKinds, Growth, Meeting
  <2> QED BY <1>3, <2>2, <2>3, <2>4, <2>5 DEF ListKinds
<1>4. CASE m1.k = "assign_node"
  BY <1>1, <1>4 DEF SwapFromRoot, ListKinds
<1>5. CASE m1.k = "insert_node"
  BY <1>1, <1>5 DEF SwapFromRoot, ListKinds, Below, WithPath
<1>6. CASE m1.k = "remove_node"
  BY <1>1, <1>6 DEF SwapFromRoot, ListKinds
<1>7. CASE m1.k = "set_cursor"
  BY <1>1, <1>7 DEF SwapFromRoot, ListKinds
<1> QED BY <1>2, <1>3, <1>4, <1>5, <1>6, <1>7

LEMMA Aside ==
  ASSUME NEW T, NEW s, NEW m1, NEW i, NEW n, NEW v, IsEdit(T, m1, s, i, n, v),
         NEW m2, NEW b \in Nat, ~Meeting(m1, m2, i, b)
  PROVE  b < i \/ i + Len(v) <= b
<1> DEFINE lv == Len(v)
           A == Arity(m1.t)
           c == m1.p[2]
<1>1. /\ m1.k \in ListKinds /\ i \in Nat /\ n = OldLen(m1) /\ n \in Nat /\ v \in Seq(T)
      /\ Growth(m1) = lv - n
  BY DEF IsEdit
<1>2. lv \in Nat
  BY <1>1
<1>3. CASE m1.k = "insert"
  <2>1. n = 0 /\ A = lv - n /\ b \notin i .. i + A - 1
    BY <1>1, <1>3 DEF OldLen, Growth, Meeting
  <2> HIDE DEF lv, A
  <2>2. b < i \/ i + lv <= b
    BY <2>1, <1>1, <1>2
  <2> QED BY <2>2 DEF lv
<1>4. CASE m1.k = "remove"
  <2>1. n = c /\ -c = lv - n
    BY <1>1, <1>4 DEF OldLen, Growth
  <2> HIDE DEF lv, c
  <2>2. b < i \/ i + lv <= b
    BY <2>1, <1>1, <1>2
  <2> QED BY <2>2 DEF lv
<1>5. CASE m1.k = "split"
  <2>1. n = 1 /\ 1 = lv - n /\ b \notin {i, i + 1}
    BY <1>1, <1>5 DEF OldLen, Growth, Meeting
  <2> HIDE DEF lv
  <2>2. b < i \/ i + lv <= b
    BY <2>1, <1>1, <1>2
  <2> QED BY <2>2 DEF lv
<1>6. CASE m1.k = "join"
  <2>1. n = 2 /\ -1 = lv - n /\ b # i
    BY <1>1, <1>6 DEF OldLen, Growth, Meeting
  <2> HIDE DEF lv
  <2>2. b < i \/ i + lv <= b
    BY <2>1, <1>1, <1>2
  <2> QED BY <2>2 DEF lv
<1> QED BY <1>1, <1>3, <1>4, <1>5, <1>6 DEF ListKinds

LEMMA EditGrowth ==
  ASSUME NEW T, NEW s, NEW m1, NEW i, NEW n, NEW v, IsEdit(T, m1, s, i, n, v)
  PROVE  Growth(m1) \in Int
<1> DEFINE lv == Len(v)
<1>1. n \in Nat /\ v \in Seq(T) /\ Growth(m1) = lv - n
  BY DEF IsEdit
<1>2. lv \in Nat
  BY <1>1
<1> HIDE DEF lv
<1> QED BY <1>1, <1>2

LEMMA StaysPut ==
  ASSUME NEW T, NEW s, NEW m1, NEW i, NEW n, NEW v, IsEdit(T, m1, s, i, n, v)
  PROVE  Shift(m1, 0) = m1
<1>1. m1 \in Modification(T) /\ m1.p # <<>> /\ m1.p[1] \in Nat
  BY DEF IsEdit
<1>2. m1.p[1] + 0 \in Nat
  BY <1>1
<1> QED BY <1>1, <1>2, ShiftBack

(* After an edit of the list, a change within a child.                     *)
LEMMA EditThenWithin ==
  ASSUME NEW T, IsTrees(T), NEW s \in T,
         NEW m1, NEW i, NEW n, NEW v, IsEdit(T, m1, s, i, n, v),
         NEW u, u = ApplyAt(s, m1),
         NEW m2 \in Modification(T), ~AtRoot(m2), IsApplicable(u, m2),
         NEW r, r = SwapFromRoot(m1, m2), r.ok
  PROVE  Answered(T, s, CleanApply(u, m2), r)
<1> DEFINE b == m2.p[1]
           q == Below(m2)
           g == Growth(m1)
           after == Swapped(Shift(m2, -g), Shift(m1, 0))
           y == CleanApply(u, m2)
<1>1. b \in Nat /\ q \in Modification(T) /\ m2 = Under(b, q)
  BY BelowFacts
<1>2. m1.k \in ListKinds /\ i = m1.p[1] /\ i \in Nat /\ n \in Nat /\ v \in Seq(T) /\ g = Len(v) - n
  BY DEF IsEdit
<1>3. r = Swap1(m1, m2, i, g) /\ ~Meeting(m1, m2, i, b)
  BY <1>2, FromRootKinds
<1>4. r = IF b < i THEN Swapped(m2, Shift(m1, 0)) ELSE after
  <2>1. g \in Int
    BY EditGrowth
  <2>2. b = m2.p[1]
    OBVIOUS
  <2> HIDE DEF b, g
  <2>3. Swap1Gives(m1, m2, i, b, r, after)
    BY <2>1, <2>2, <1>1, <1>2, <1>3, Swap1Kinds
  <2> HIDE DEF after
  <2> QED BY <2>3 DEF Swap1Gives
<1>5. Shift(m1, 0) = m1
  BY StaysPut
<1>6. b < i \/ i + Len(v) <= b
  BY <1>1, <1>3, Aside
<1> HIDE DEF b, q, after, y
<1>7. CASE b < i
  <2>1. Same(T, s, y, Under(b, q), m1)
    BY <1>1, <1>7, WithinFirst DEF y
  <2> QED BY <2>1, <1>1, <1>4, <1>5, <1>7, AnswerFacts DEF y
<1>8. CASE i + Len(v) <= b
  <2> DEFINE j == b - g
             lv == Len(v)
  <2>1. lv \in Nat /\ g = lv - n /\ i + lv <= b
    BY <1>2, <1>8
  <2> HIDE DEF g, lv
  <2>2. j \in Nat /\ -g \in Int /\ j = b + (-g) /\ j = b - g /\ ~(b < i)
    BY <2>1, <1>1, <1>2, SMTT(20)
  <2> HIDE DEF j
  <2>3. Same(T, s, y, Under(j, q), m1)
    <3>1. i + Len(v) <= b /\ j = b - Growth(m1)
      BY <2>1, <2>2 DEF g, lv
    <3> QED BY <3>1, <1>1, WithinFirst DEF y
  <2>4. Shift(m2, -g) = Under(j, q)
    BY <1>1, <2>2, ShiftUnder
  <2>5. r = Swapped(Under(j, q), m1)
    BY <2>2, <2>4, <1>4, <1>5 DEF after
  <2> QED BY <2>3, <2>5, AnswerFacts DEF y
<1> QED BY <1>6, <1>7, <1>8

(* Where the swap of two edits of the same list goes.                      *)
LEMMA EditsGo ==
  ASSUME NEW T, NEW s, NEW m1, NEW i, NEW n, NEW v, IsEdit(T, m1, s, i, n, v),
         NEW u, NEW m2, NEW b, NEW m, NEW w, IsEdit(T, m2, u, b, m, w),
         NEW r, r = SwapFromRoot(m1, m2), r.ok
  PROVE  \/ b + m <= i /\ r = Swapped(m2, Shift(m1, Growth(m2)))
         \/ i + Len(v) <= b /\ r = Swapped(Shift(m2, -Growth(m1)), m1)
<1> DEFINE g == Growth(m1)
           e == Growth(m2)
           lv == Len(v)
           after == Swapped(Shift(m2, -g), m1)
           before == Swapped(m2, Shift(m1, e))
<1>1. m1.k \in ListKinds /\ i = m1.p[1] /\ i \in Nat /\ n \in Nat /\ v \in Seq(T)
  BY DEF IsEdit
<1>2. m2.k \in ListKinds /\ b = m2.p[1] /\ b \in Nat /\ m = OldLen(m2) /\ m \in Nat /\ AtRoot(m2)
  BY DEF IsEdit
<1>3. /\ r = Swap1(m1, m2, i, g)
      /\ Meeting(m1, m2, i, b) => m2.k = "insert" /\ b = i
  BY <1>1, <1>2, FromRootKinds DEF ListKinds
<1>4. Shift(m1, 0) = m1
  BY StaysPut
<1>5. /\ m2.k = "insert" => r = IF b <= i THEN Swapped(m2, Shift(m1, Arity(m2.t))) ELSE after
      /\ m2.k = "remove" =>
           /\ ~(b <= i /\ i < b + m2.p[2] /\ (b # i \/ m1.k # "remove"))
           /\ r = IF b < i THEN Swapped(m2, Shift(m1, -m2.p[2])) ELSE after
      /\ m2.k = "split" => r = IF b < i THEN Swapped(m2, Shift(m1, 1)) ELSE after
      /\ m2.k = "join" => b # i - 1 /\ r = IF b < i THEN Swapped(m2, Shift(m1, -1)) ELSE after
  <2>1. g \in Int
    BY EditGrowth
  <2> HIDE DEF g
  <2>2. Swap1Gives(m1, m2, i, b, r, Swapped(Shift(m2, -g), Shift(m1, 0)))
    BY <2>1, <1>1, <1>2, <1>3, Swap1Kinds
  <2>3. Swap1Gives(m1, m2, i, b, r, after)
    BY <2>2, <1>4
  <2> HIDE DEF after
  <2> QED BY <2>3, <1>2 DEF Swap1Gives
<1>6. Meeting(m1, m2, i, b) \/ b < i \/ i + lv <= b
  BY <1>2, Aside
<1>7. lv \in Nat
  BY <1>1
<1>8. SUFFICES (b + m <= i /\ r = before) \/ (i + lv <= b /\ r = after)
  OBVIOUS
<1> HIDE DEF g, after, lv
<1>9. CASE m2.k = "insert"
  <2>1. m = 0 /\ before = Swapped(m2, Shift(m1, Arity(m2.t)))
    BY <1>2, <1>9 DEF OldLen, Growth
  <2> HIDE DEF before
  <2>2. r = IF b <= i THEN before ELSE after
    BY <1>5, <1>9, <2>1
  <2>3. CASE b <= i
    BY <2>1, <2>2, <2>3, <1>2
  <2>4. CASE b > i
    BY <2>2, <2>4, <1>1, <1>2, <1>3, <1>6
  <2> QED BY <2>3, <2>4, <1>1, <1>2
<1>10. CASE m2.k = "remove"
  <2>1. m = m2.p[2] /\ before = Swapped(m2, Shift(m1, -m2.p[2]))
    BY <1>2, <1>10 DEF OldLen, Growth
  <2> HIDE DEF before
  <2>2. /\ r = IF b < i THEN before ELSE after
        /\ ~(b <= i /\ i < b + m /\ (b # i \/ m1.k # "remove"))
    BY <1>5, <1>10, <2>1
  <2>3. CASE b < i
    BY <2>2, <2>3, <1>1, <1>2
  <2>4. CASE b >= i
    <3>1. i + lv <= b
      BY <2>4, <1>1, <1>2, <1>3, <1>6, <1>10
    <3> QED BY <3>1, <2>2, <2>4, <1>1, <1>2
  <2> QED BY <2>3, <2>4, <1>1, <1>2
<1>11. CASE m2.k = "split"
  <2>1. m = 1 /\ before = Swapped(m2, Shift(m1, 1))
    BY <1>2, <1>11 DEF OldLen, Growth
  <2> HIDE DEF before
  <2>2. r = IF b < i THEN before ELSE after
    BY <1>5, <1>11, <2>1
  <2> QED BY <2>1, <2>2, <1>1, <1>2, <1>3, <1>6, <1>11
<1>12. CASE m2.k = "join"
  <2>1. m = 2 /\ before = Swapped(m2, Shift(m1, -1))
    BY <1>2, <1>12 DEF OldLen, Growth
  <2> HIDE DEF before
  <2>2. b # i - 1 /\ r = IF b < i THEN before ELSE after
    BY <1>5, <1>12, <2>1
  <2> QED BY <2>1, <2>2, <1>1, <1>2, <1>3, <1>6, <1>12
<1> QED BY <1>2, <1>9, <1>10, <1>11, <1>12 DEF ListKinds

LEMMA EditThenEdit ==
  ASSUME NEW T, IsTrees(T), NEW s \in T,
         NEW m1, NEW i, NEW n, NEW v, IsEdit(T, m1, s, i, n, v),
         NEW u, u = ApplyAt(s, m1),
         NEW m2, NEW b, NEW m, NEW w, IsEdit(T, m2, u, b, m, w),
         NEW r, r = SwapFromRoot(m1, m2), r.ok
  PROVE  Answered(T, s, ApplyAt(u, m2), r)
<1> DEFINE y == ApplyAt(u, m2)
<1>1. \/ b + m <= i /\ r = Swapped(m2, Shift(m1, Growth(m2)))
      \/ i + Len(v) <= b /\ r = Swapped(Shift(m2, -Growth(m1)), m1)
  BY EditsGo
<1>2. CASE b + m <= i /\ r = Swapped(m2, Shift(m1, Growth(m2)))
  <2>1. Same(T, s, y, m2, Shift(m1, Growth(m2)))
    BY <1>2, SecondBefore
  <2> QED BY <2>1, <1>2, AnswerFacts
<1>3. CASE i + Len(v) <= b /\ r = Swapped(Shift(m2, -Growth(m1)), m1)
  <2>1. Same(T, s, y, Shift(m2, -Growth(m1)), m1)
    BY <1>3, SecondAfter
  <2> QED BY <2>1, <1>3, AnswerFacts
<1> QED BY <1>1, <1>2, <1>3

LEMMA ListThenAny ==
  ASSUME NEW T, IsTrees(T), NEW s \in T,
         NEW m1 \in Modification(T), AtRoot(m1), m1.k \in ListKinds, CanApply(s, m1),
         NEW u, u = ApplyAt(s, m1), NEW m2 \in Modification(T), IsApplicable(u, m2),
         NEW r, r = SwapFromRoot(m1, m2), r.ok
  PROVE  Answered(T, s, CleanApply(u, m2), r)
<1> DEFINE i == m1.p[1]
           n == OldLen(m1)
           v == NewPart(m1, s.arg[i + 1], s.arg[i + 2])
           b == m2.p[1]
           y == CleanApply(u, m2)
<1>1. IsEdit(T, m1, s, i, n, v)
  BY EditFacts
<1> HIDE DEF n, v
<1>2. u \in T
  BY <1>1, EditResult
<1>3. CASE ~AtRoot(m2)
  BY <1>1, <1>3, EditThenWithin
<1>4. CASE AtRoot(m2)
  <2>1. CanApply(u, m2) /\ y = ApplyAt(u, m2)
    BY <1>4, RootDoes
  <2>2. m2.k \in Kinds /\ m2.p # <<>> /\ r = Swap1(m1, m2, i, Growth(m1))
    BY FromRootKinds, ModFacts
  <2>3. CASE m2.k \in ListKinds
    <3> DEFINE m == OldLen(m2)
               w == NewPart(m2, u.arg[b + 1], u.arg[b + 2])
    <3>1. IsEdit(T, m2, u, b, m, w)
      BY <1>2, <1>4, <2>1, <2>3, EditFacts
    <3> HIDE DEF m, w
    <3> QED BY <3>1, <1>1, <2>1, EditThenEdit
  <2>4. CASE m2.k \notin ListKinds
    <3>1. Extra(m2.k) # 0 /\ Len(m2.p) = Extra(m2.k)
      <4>1. Len(m2.p) = Extra(m2.k) /\ m2.p \in Seq(Nat)
        BY <1>4, RootForm
      <4>2. Len(m2.p) # 0
        BY <4>1, <2>2
      <4> QED BY <4>1, <4>2
    <3>2. b \in Nat /\ i \in Nat
      BY <3>1, <1>1, <1>4, RootForm DEF IsEdit
    <3>3. m2.k # "assign" /\ m2.k # "assign_node"
      BY <3>1 DEF Extra
    <3>4. Growth(m1) \in Int
      BY <1>1, EditGrowth
    <3>5. Swap1Gives(m1, m2, i, b, r, Swapped(Shift(m2, -Growth(m1)), Shift(m1, 0)))
      BY <2>2, <3>2, <3>4, Swap1Kinds
    <3>6. m2.k = "insert_node" /\ r = Swapped(m2, Under(b, m1))
      BY <1>4, <2>2, <2>4, <3>3, <3>5 DEF Swap1Gives, Kinds, ListKinds
    <3>7. IsApplicable(s, m1) /\ CleanApply(s, m1) = u
      BY RootDoes
    <3>8. Same(T, s, ApplyAt(u, m2), m2, Under(b, m1))
      BY <1>4, <2>1, <3>6, <3>7, WrapFirst
    <3> QED BY <2>1, <3>6, <3>8, AnswerFacts
  <2> QED BY <2>3, <2>4
<1> QED BY <1>3, <1>4

LEMMA CursorThenAny ==
  ASSUME NEW T, IsTrees(T), NEW s \in T,
         NEW m1 \in Modification(T), AtRoot(m1), m1.k = "set_cursor", CanApply(s, m1),
         NEW m2 \in Modification(T), IsApplicable(s, m2),
         ~AtRoot(m2) \/ m2.k \in {"join", "split", "assign_node"}
  PROVE  Same(T, s, CleanApply(s, m2), m2, m1)
<1> DEFINE z == CleanApply(s, m2)
<1> SUFFICES ~IsAtomic(s) /\ ~IsAtomic(z)
  BY CursorSecond
<1>1. CASE ~AtRoot(m2)
  <2> DEFINE j == m2.p[1]
             q == Below(m2)
             x == CleanApply(s.arg[j + 1], q)
  <2>1. j \in Nat /\ q \in Modification(T) /\ m2 = Under(j, q)
    BY <1>1, BelowFacts
  <2> HIDE DEF j, q
  <2>2. ~IsAtomic(s) /\ j \in 0 .. Arity(s) - 1 /\ IsApplicable(s.arg[j + 1], q) /\ z = WithChild(s, j, x)
    BY <2>1, UnderDoes
  <2>3. s.arg[j + 1] \in T
    BY <2>2, ChildFacts
  <2>4. x \in T
    BY <2>2, <2>3, <2>1, NodeInTrees
  <2> HIDE DEF x
  <2>5. WithChild(s, j, x).op = s.op
    BY <2>2, <2>4, ChildFacts
  <2> QED BY <2>2, <2>5 DEF IsAtomic
<1>2. CASE AtRoot(m2) /\ m2.k \in {"join", "split"}
  <2> DEFINE i == m2.p[1]
             n == OldLen(m2)
             c == s.arg[i + 1]
             d == s.arg[i + 2]
             w == NewPart(m2, c, d)
  <2>1. CanApply(s, m2) /\ z = ApplyAt(s, m2) /\ m2.k \in ListKinds
    BY <1>2, RootDoes DEF ListKinds
  <2>2. Fits(m2, s, i, c, d)
    BY <1>2, <2>1, EditFits
  <2>3. IsEdit(T, m2, s, i, n, w)
    BY <1>2, <2>1, EditFacts
  <2> HIDE DEF n, w, i, c, d
  <2>4. IsAtomic(ApplyAt(s, m2)) = IsAtomic(s)
    BY <2>3, EditResult
  <2>5. ~IsAtomic(s)
    BY <1>2, <2>2 DEF Fits
  <2> QED BY <2>1, <2>4, <2>5
<1>3. CASE AtRoot(m2) /\ m2.k = "assign_node"
  <2>1. CanApply(s, m2) /\ z = ApplyAt(s, m2)
    BY <1>3, RootDoes
  <2> QED BY <1>3, <2>1, LabelForm
<1> QED BY <1>1, <1>2, <1>3

LEMMA FromRoot ==
  ASSUME NEW T, IsTrees(T), NEW s \in T,
         NEW m1 \in Modification(T), AtRoot(m1), CanApply(s, m1), NEW u, u = ApplyAt(s, m1),
         NEW m2 \in Modification(T), IsApplicable(u, m2),
         ~(m1.k = "insert_node" /\ m2.k = "insert_node" /\ Root(m2) = m1.p),
         NEW r, r = SwapFromRoot(m1, m2), r.ok
  PROVE  Answered(T, s, CleanApply(u, m2), r)
<1> DEFINE i == m1.p[1]
           b == m2.p[1]
           y == CleanApply(u, m2)
<1>1. m1.k \in Kinds
  BY ModFacts
<1>2. IsApplicable(s, m1) /\ CleanApply(s, m1) = u
  BY RootDoes
<1>3. u \in T
  BY <1>2, NodeInTrees
<1>4. CASE m1.k \in ListKinds
  BY <1>4, ListThenAny
<1>5. CASE m1.k \in {"assign", "assign_node"}
  <2>1. \/ m1 = m2 /\ r = Swapped(m1, m2)
        \/ AtRoot(m2) /\ m2.k = "insert_node" /\ r = Swapped(m2, Under(b, m1))
        \/ m1.k = "assign_node" /\ ~AtRoot(m2) /\ r = Swapped(m2, m1)
    BY <1>5, FromRootKinds
  <2>2. CASE m1 = m2 /\ r = Swapped(m1, m2)
    <3>1. Same(T, s, y, m1, m2)
      BY <1>2 DEF Same
    <3> QED BY <2>2, <3>1, AnswerFacts
  <2>3. CASE AtRoot(m2) /\ m2.k = "insert_node" /\ r = Swapped(m2, Under(b, m1))
    <3>1. CanApply(u, m2) /\ y = ApplyAt(u, m2)
      BY <2>3, RootDoes
    <3>2. Same(T, s, ApplyAt(u, m2), m2, Under(b, m1))
      BY <1>2, <2>3, <3>1, WrapFirst
    <3> QED BY <2>3, <3>1, <3>2, AnswerFacts
  <2>4. CASE m1.k = "assign_node" /\ ~AtRoot(m2) /\ r = Swapped(m2, m1)
    <3> DEFINE q == Below(m2)
    <3>1. b \in Nat /\ q \in Modification(T) /\ m2 = Under(b, q)
      BY <2>4, BelowFacts
    <3> HIDE DEF b, q
    <3>2. Same(T, s, CleanApply(u, Under(b, q)), Under(b, q), m1)
      BY <2>4, <3>1, LabelSecond
    <3> QED BY <2>4, <3>1, <3>2, AnswerFacts
  <2> QED BY <2>1, <2>2, <2>3, <2>4
<1>6. CASE m1.k = "insert_node"
  <2> DEFINE q == Below(m2)
  <2>1. ~AtRoot(m2) /\ b = i
    BY <1>6, FromRootKinds
  <2>2. b \in Nat /\ q \in Modification(T) /\ m2 = Under(b, q) /\ q.k = m2.k
    BY <2>1, BelowFacts
  <2>3. ~(q.k = "insert_node" /\ AtRoot(q))
    <3> SUFFICES ASSUME q.k = "insert_node", AtRoot(q) PROVE Root(m2) = m1.p
      BY <1>6, <2>2
    <3>1. Root(m2) = <<b>> \o Root(q)
      <4>1. b \in Nat /\ q \in Modification(T)
        BY <2>2
      <4> HIDE DEF b, q
      <4>2. Root(Under(b, q)) = <<b>> \o Root(q)
        BY <4>1, UnderFacts, ZenonT(30)
      <4> QED BY <2>2, <4>2
    <3>2. Root(q) = <<>>
      BY DEF AtRoot
    <3>3. m1.p \in Seq(Nat) /\ Len(m1.p) = 1 /\ m1.p[1] = b
      BY <1>6, <2>1, RootForm DEF Extra
    <3>4. <<b>> \o <<>> = <<b>>
      OBVIOUS
    <3>5. m1.p = <<b>>
      <4> HIDE DEF b
      <4> QED BY <3>3, <2>2
    <3> QED BY <3>1, <3>2, <3>4, <3>5
  <2>4. r = Swapped(q, m1)
    BY <1>6, <2>3, FromRootKinds
  <2> HIDE DEF q, b
  <2>5. Same(T, s, CleanApply(u, Under(b, q)), q, m1)
    BY <1>6, <2>1, <2>2, WrapSecond
  <2> QED BY <2>2, <2>4, <2>5, AnswerFacts
<1>7. CASE m1.k = "remove_node"
  <2>1. r = Swapped(Under(i, m2), m1)
    BY <1>7, FromRootKinds
  <2>2. Same(T, s, y, Under(i, m2), m1)
    BY <1>7, UnwrapSecond
  <2> QED BY <2>1, <2>2, AnswerFacts
<1>8. CASE m1.k = "set_cursor"
  <2>1. r = Swapped(m2, m1) /\ (~AtRoot(m2) \/ m2.k \in {"join", "split", "assign_node"})
    BY <1>8, FromRootKinds
  <2>2. u = s
    BY <1>8, CursorForm
  <2>3. Same(T, s, CleanApply(s, m2), m2, m1)
    BY <1>8, <2>1, <2>2, CursorThenAny
  <2> QED BY <2>1, <2>2, <2>3, AnswerFacts
<1> QED BY <1>1, <1>4, <1>5, <1>6, <1>7, <1>8 DEF Kinds, ListKinds

-----------------------------------------------------------------------------
(* The depth of what two modifications have in common                      *)

LEMMA GreatestNumber ==
  ASSUME NEW N \in Nat, NEW S, S \subseteq 0 .. N, S # {}
  PROVE  Max(S) \in S /\ \A x \in S : x <= Max(S)
<1> DEFINE R == {N - x : x \in S}
<1>1. R \subseteq Nat /\ R # {}
  <2>1. \A x \in S : x \in 0 .. N /\ N - x \in Nat
    OBVIOUS
  <2>2. PICK x \in S : TRUE
    OBVIOUS
  <2> QED BY <2>1, <2>2
<1>2. PICK n \in R : \A m \in R : n <= m
  BY <1>1, LeastNumber
<1>3. PICK y \in S : n = N - y
  BY <1>2
<1>4. \A x \in S : y >= x
  <2> SUFFICES ASSUME NEW x \in S PROVE y >= x
    OBVIOUS
  <2>1. N - x \in R /\ x \in 0 .. N /\ y \in 0 .. N
    OBVIOUS
  <2>2. N - y <= N - x
    BY <2>1, <1>2, <1>3
  <2> QED BY <2>1, <2>2
<1> HIDE DEF R
<1>5. Max(S) \in S /\ \A x \in S : Max(S) >= x
  BY <1>4 DEF Max
<1> QED BY <1>5

LEMMA LesserOfTwo ==
  ASSUME NEW a \in Nat, NEW b \in Nat, NEW c, c = Min({a, b})
  PROVE  c \in Nat /\ c <= a /\ c <= b /\ (c = a \/ c = b)
<1>1. \E x \in {a, b} : \A y \in {a, b} : x <= y
  OBVIOUS
<1>2. c \in {a, b} /\ \A y \in {a, b} : c <= y
  BY <1>1 DEF Min
<1> QED BY <1>2

LEMMA RootLength ==
  ASSUME NEW T, NEW m \in Modification(T)
  PROVE  /\ Root(m) \in Seq(Nat) /\ m.p \in Seq(Nat) /\ Extra(m.k) \in 0 .. 2
         /\ Len(Root(m)) = Len(m.p) - Extra(m.k) /\ Len(Root(m)) \in 0 .. Len(m.p)
         /\ \A k \in 1 .. Len(Root(m)) : Root(m)[k] = m.p[k]
<1>1. m.p \in Seq(Nat) /\ Len(m.p) >= Extra(m.k) /\ Extra(m.k) \in 0 .. 2
  BY DEF Modification, Extra
<1> DEFINE p == m.p
           e == Extra(m.k)
           n == Len(p) - e
<1>2. Root(m) = Prefix(p, n)
  BY DEF Root
<1>3. p \in Seq(Nat) /\ n \in 0 .. Len(p)
  BY <1>1
<1> HIDE DEF p, n
<1>4. Prefix(p, n) \in Seq(Nat) /\ Len(Prefix(p, n)) = n /\ \A k \in 1 .. n : Prefix(p, n)[k] = p[k]
  BY <1>3, PrefixFacts
<1> QED BY <1>1, <1>2, <1>3, <1>4 DEF p, n

LEMMA LongerPrefix ==
  ASSUME NEW p \in Seq(Nat), NEW q \in Seq(Nat), NEW n \in Nat, n + 1 <= Len(p), n + 1 <= Len(q),
         Prefix(p, n) = Prefix(q, n), p[n + 1] = q[n + 1]
  PROVE  Prefix(p, n + 1) = Prefix(q, n + 1)
<1> DEFINE a == Prefix(p, n + 1)
           b == Prefix(q, n + 1)
<1>1. n \in 0 .. Len(p) /\ n \in 0 .. Len(q) /\ n + 1 \in 0 .. Len(p) /\ n + 1 \in 0 .. Len(q)
  OBVIOUS
<1>2. a \in Seq(Nat) /\ Len(a) = n + 1 /\ \A k \in 1 .. n + 1 : a[k] = p[k]
  BY <1>1, PrefixFacts
<1>3. b \in Seq(Nat) /\ Len(b) = n + 1 /\ \A k \in 1 .. n + 1 : b[k] = q[k]
  BY <1>1, PrefixFacts
<1>4. \A k \in 1 .. n : p[k] = q[k]
  <2>1. /\ \A k \in 1 .. n : Prefix(p, n)[k] = p[k]
        /\ \A k \in 1 .. n : Prefix(q, n)[k] = q[k]
    BY <1>1, PrefixFacts
  <2> QED BY <2>1
<1> HIDE DEF a, b
<1>5. ASSUME NEW k \in 1 .. n + 1 PROVE a[k] = b[k]
  <2>1. a[k] = p[k] /\ b[k] = q[k]
    BY <1>2, <1>3
  <2>2. k \in 1 .. n \/ k = n + 1
    OBVIOUS
  <2> QED BY <2>1, <2>2, <1>4
<1>6. a = b
  BY <1>2, <1>3, <1>5
<1> QED BY <1>6 DEF a, b

LEMMA CommonFacts ==
  ASSUME NEW T, NEW m1 \in Modification(T), NEW m2 \in Modification(T),
         NEW n, n = CommonDepth(m1, m2)
  PROVE  /\ n \in 0 .. Len(Root(m1)) /\ n \in 0 .. Len(Root(m2))
         /\ Prefix(m1.p, n) = Prefix(m2.p, n)
         /\ n < Len(Root(m1)) /\ n < Len(Root(m2)) => m1.p[n + 1] # m2.p[n + 1]
<1> DEFINE a == Len(Root(m1))
           b == Len(Root(m2))
           c == Min({a, b})
           S == {k \in 0 .. c : Prefix(m1.p, k) = Prefix(m2.p, k)}
<1>1. /\ a \in Nat /\ m1.p \in Seq(Nat) /\ a \in 0 .. Len(m1.p)
      /\ b \in Nat /\ m2.p \in Seq(Nat) /\ b \in 0 .. Len(m2.p)
  BY RootLength
<1>2. n = Max(S)
  BY DEF CommonDepth
<1> HIDE DEF a, b
<1>3. c \in Nat /\ c <= a /\ c <= b /\ (c = a \/ c = b)
  BY <1>1, LesserOfTwo
<1> HIDE DEF c
<1>4. 0 \in S
  <2>1. Prefix(m1.p, 0) = <<>> /\ Prefix(m2.p, 0) = <<>>
    BY <1>1 DEF Prefix
  <2> QED BY <2>1, <1>3
<1>5. S \subseteq 0 .. c
  OBVIOUS
<1>6. \A k \in 0 .. c : k \in S <=> Prefix(m1.p, k) = Prefix(m2.p, k)
  OBVIOUS
<1> HIDE DEF S
<1>7. n \in S /\ \A k \in S : k <= n
  BY <1>2, <1>3, <1>4, <1>5, GreatestNumber
<1>8. n \in 0 .. c /\ n \in 0 .. a /\ n \in 0 .. b /\ Prefix(m1.p, n) = Prefix(m2.p, n)
  BY <1>1, <1>3, <1>5, <1>6, <1>7
<1>9. ASSUME n < a, n < b, m1.p[n + 1] = m2.p[n + 1] PROVE FALSE
  <2>1. n \in Nat /\ n + 1 <= Len(m1.p) /\ n + 1 <= Len(m2.p) /\ n + 1 \in 0 .. c
    BY <1>1, <1>3, <1>8, <1>9, SMTT(20)
  <2>2. Prefix(m1.p, n + 1) = Prefix(m2.p, n + 1)
    BY <2>1, <1>1, <1>8, <1>9, LongerPrefix
  <2>3. n + 1 \in S
    BY <2>1, <2>2, <1>6
  <2>4. n + 1 <= n
    BY <2>3, <1>7
  <2> QED BY <2>1, <2>4
<1> QED BY <1>8, <1>9 DEF a, b

(* A modification without the first part of its path.                      *)
LEMMA StripFacts ==
  ASSUME NEW T, NEW m \in Modification(T), NEW n \in 0 .. Len(Root(m)),
         NEW s, s = WithPath(m, Drop(m.p, n))
  PROVE  /\ s \in Modification(T) /\ Prefix(m.p, n) \in Seq(Nat) /\ m = Deep(Prefix(m.p, n), s)
         /\ s.k = m.k /\ (AtRoot(s) <=> n = Len(Root(m)))
         /\ n < Len(Root(m)) => s.p[1] = m.p[n + 1]
<1> DEFINE p == m.p
           h == Prefix(p, n)
           q == Drop(p, n)
           N == Len(p)
           e == Extra(m.k)
<1>1. /\ p \in Seq(Nat) /\ e \in 0 .. 2 /\ Len(Root(m)) = N - e /\ Len(Root(m)) \in 0 .. N
      /\ N \in Nat
  BY RootLength
<1>2. n \in Nat /\ n <= N /\ n \in 0 .. N /\ e <= N - n
  <2>1. n \in 0 .. N - e
    BY <1>1
  <2> HIDE DEF N, e
  <2> QED BY <2>1, <1>1
<1> HIDE DEF e
<1>3. /\ h \in Seq(Nat) /\ q \in Seq(Nat) /\ h \o q = p
  BY <1>1, <1>2, CutFacts
<1>4. Len(q) = N - n /\ \A k \in 1 .. N - n : q[k] = p[n + k]
  <2>1. q = SubSeq(p, n + 1, N)
    BY DEF Drop
  <2> HIDE DEF p, q
  <2> QED BY <2>1, <1>1, <1>2, SMTT(20)
<1> HIDE DEF q, h, N
<1>5. s \in Modification(T) /\ s.k = m.k /\ s.p = q /\ s.t = m.t
  <2>1. Len(q) >= Extra(m.k)
    BY <1>2, <1>4 DEF e
  <2> QED BY <2>1, <1>3, WithPathFacts DEF q
<1>6. m = Deep(h, s)
  <2>1. Deep(h, s) \in Modification(T) /\ Deep(h, s).k = m.k /\ Deep(h, s).t = m.t /\ Deep(h, s).p = p
    BY <1>3, <1>5, DeepFacts, ZenonT(30)
  <2> QED BY <2>1, SameMod
<1>7. /\ Root(s) \in Seq(Nat) /\ Len(Root(s)) = (N - n) - e
  BY <1>4, <1>5, RootLength DEF e
<1>8. AtRoot(s) <=> n = Len(Root(m))
  <2>1. Root(s) = <<>> <=> Len(Root(s)) = 0
    BY <1>7
  <2> QED BY <2>1, <1>1, <1>2, <1>7 DEF AtRoot
<1>9. n < Len(Root(m)) => s.p[1] = m.p[n + 1]
  <2> SUFFICES ASSUME n < Len(Root(m)) PROVE q[1] = p[n + 1]
    BY <1>5
  <2>1. 1 \in 1 .. N - n
    BY <1>1, <1>2
  <2> QED BY <2>1, <1>4
<1> QED BY <1>3, <1>5, <1>6, <1>8, <1>9 DEF h

(* What two modifications do to a node they do to it deep in a tree.       *)
LEMMA SameDeep ==
  ASSUME NEW T, IsTrees(T), NEW t \in T, NEW h \in Seq(Nat), HasSubTree(t, h),
         NEW y, NEW f, NEW g, Same(T, SubTree(t, h), y, f, g)
  PROVE  Same(T, t, Put(t, h, y), Deep(h, f), Deep(h, g))
<1> DEFINE s == SubTree(t, h)
           u == CleanApply(s, f)
           x == Put(t, h, u)
           F == Deep(h, f)
           G == Deep(h, g)
<1>1. /\ f \in Modification(T) /\ g \in Modification(T) /\ IsApplicable(s, f)
      /\ IsApplicable(u, g) /\ CleanApply(u, g) = y
  BY DEF Same
<1>2. s \in T
  BY PutFacts
<1> HIDE DEF s
<1>3. u \in T
  BY <1>1, <1>2, NodeInTrees
<1>4. y \in T
  BY <1>1, <1>3, NodeInTrees
<1>5. F \in Modification(T) /\ G \in Modification(T)
  BY <1>1, DeepFacts
<1>6. IsApplicable(t, F) /\ CleanApply(t, F) = x
  BY <1>1, DeepDoes DEF s
<1> HIDE DEF u
<1>7. x \in T /\ HasSubTree(x, h) /\ SubTree(x, h) = u /\ Put(x, h, y) = Put(t, h, y)
  BY <1>3, <1>4, PutFacts
<1> HIDE DEF x
<1>8. IsApplicable(x, G) /\ CleanApply(x, G) = Put(x, h, y)
  BY <1>1, <1>7, DeepDoes
<1> QED BY <1>5, <1>6, <1>7, <1>8 DEF Same

SwapStripped(s1, s2) ==
  CASE AtRoot(s1)                -> SwapFromRoot(s1, s2)
    [] ~AtRoot(s1) /\ AtRoot(s2) -> SwapToRoot(s1, s2)
    [] OTHER                     -> Swapped(s2, s1)

LEMMA SwapSteps ==
  ASSUME NEW m1, NEW m2
  PROVE  LET n  == CommonDepth(m1, m2)
             h  == Prefix(m1.p, n)
             w  == SwapStripped(WithPath(m1, Drop(m1.p, n)), WithPath(m2, Drop(m2.p, n)))
         IN  SwapMods(m1, m2) =
               IF w.ok THEN Swapped(Deep(h, w.first), Deep(h, w.second)) ELSE NoSwap
BY DEF SwapMods, SwapStripped, Deep, WithPath

LEMMA SwapForm ==
  ASSUME NEW m1, NEW m2, NEW n, n = CommonDepth(m1, m2), NEW h, h = Prefix(m1.p, n),
         NEW s1, s1 = WithPath(m1, Drop(m1.p, n)), NEW s2, s2 = WithPath(m2, Drop(m2.p, n)),
         NEW r, r = SwapMods(m1, m2), r.ok
  PROVE  \E v : /\ v = IF AtRoot(s1) THEN SwapFromRoot(s1, s2)
                       ELSE IF AtRoot(s2) THEN SwapToRoot(s1, s2) ELSE Swapped(s2, s1)
                /\ v.ok /\ r = Swapped(Deep(h, v.first), Deep(h, v.second))
<1> DEFINE v == IF AtRoot(s1) THEN SwapFromRoot(s1, s2)
                ELSE IF AtRoot(s2) THEN SwapToRoot(s1, s2) ELSE Swapped(s2, s1)
           w == SwapStripped(s1, s2)
<1>1. v = w
  BY DEF SwapStripped
<1> HIDE DEF v
<1>2. r = IF w.ok THEN Swapped(Deep(h, w.first), Deep(h, w.second)) ELSE NoSwap
  BY SwapSteps
<1> HIDE DEF w
<1>3. w.ok
  BY <1>2 DEF NoSwap
<1>4. r = Swapped(Deep(h, v.first), Deep(h, v.second))
  BY <1>1, <1>2, <1>3
<1> QED BY <1>1, <1>3, <1>4 DEF v

(* Two modifications that can be swapped have the same effect in the other *)
(* order, in every finite or infinite tree, unless they are nested         *)
(* insertions of a node (commute.cpp, swap).                               *)
THEOREM SwapsAgree ==
  ASSUME NEW T, IsTrees(T), NEW t \in T,
         NEW m1 \in Modification(T), IsApplicable(t, m1), NEW x, x = CleanApply(t, m1),
         NEW m2 \in Modification(T), IsApplicable(x, m2),
         ~(m1.k = "insert_node" /\ m2.k = "insert_node" /\ Root(m2) = m1.p),
         NEW r, r = SwapMods(m1, m2), r.ok
  PROVE  Same(T, t, CleanApply(x, m2), r.first, r.second)
<1> DEFINE n == CommonDepth(m1, m2)
           h == Prefix(m1.p, n)
           s1 == WithPath(m1, Drop(m1.p, n))
           s2 == WithPath(m2, Drop(m2.p, n))
           s == SubTree(t, h)
           u == CleanApply(s, s1)
           y == CleanApply(u, s2)
<1>1. /\ n \in 0 .. Len(Root(m1)) /\ n \in 0 .. Len(Root(m2)) /\ h = Prefix(m2.p, n)
      /\ n < Len(Root(m1)) /\ n < Len(Root(m2)) => m1.p[n + 1] # m2.p[n + 1]
  <2> HIDE DEF n
  <2> QED BY CommonFacts DEF n
<1>2. PICK v : /\ v = IF AtRoot(s1) THEN SwapFromRoot(s1, s2)
                      ELSE IF AtRoot(s2) THEN SwapToRoot(s1, s2) ELSE Swapped(s2, s1)
               /\ v.ok /\ r = Swapped(Deep(h, v.first), Deep(h, v.second))
  BY SwapForm
<1> HIDE DEF n
<1>3. /\ s1 \in Modification(T) /\ h \in Seq(Nat) /\ m1 = Deep(h, s1) /\ s1.k = m1.k
      /\ AtRoot(s1) <=> n = Len(Root(m1))
      /\ n < Len(Root(m1)) => s1.p[1] = m1.p[n + 1]
  <2> HIDE DEF s1, h
  <2>1. s1 = WithPath(m1, Drop(m1.p, n)) /\ h = Prefix(m1.p, n)
    BY DEF s1, h
  <2> QED BY <1>1, <2>1, StripFacts
<1>4. /\ s2 \in Modification(T) /\ m2 = Deep(h, s2) /\ s2.k = m2.k
      /\ AtRoot(s2) <=> n = Len(Root(m2))
      /\ n < Len(Root(m2)) => s2.p[1] = m2.p[n + 1]
  <2> HIDE DEF s2, h
  <2>1. s2 = WithPath(m2, Drop(m2.p, n))
    BY DEF s2
  <2> QED BY <1>1, <2>1, StripFacts
<1> HIDE DEF h, s1, s2, s, u, y
<1>5. /\ HasSubTree(t, h) /\ IsApplicable(s, s1) /\ x = Put(t, h, u)
  BY <1>3, DeepDoes DEF s, u
<1>6. s \in T
  BY <1>3, <1>5, PutFacts DEF s
<1>7. u \in T
  BY <1>3, <1>5, <1>6, NodeInTrees DEF u
<1>8. /\ x \in T /\ SubTree(x, h) = u
      /\ \A w \in T : Put(x, h, w) = Put(t, h, w)
  BY <1>3, <1>5, <1>7, PutFacts
<1>9. IsApplicable(u, s2) /\ CleanApply(x, m2) = Put(x, h, y)
  BY <1>3, <1>4, <1>8, DeepDoes DEF y
<1>10. y \in T
  BY <1>4, <1>7, <1>9, NodeInTrees DEF y
<1>11. CleanApply(x, m2) = Put(t, h, y)
  BY <1>8, <1>9, <1>10
<1>12. Same(T, s, y, v.first, v.second)
  <2>1. CASE AtRoot(s1)
    <3>1. CanApply(s, s1) /\ u = ApplyAt(s, s1)
      BY <1>5, <2>1, RootDoes DEF u
    <3>2. ~(s1.k = "insert_node" /\ s2.k = "insert_node" /\ Root(s2) = s1.p)
      <4> SUFFICES ASSUME Root(s2) = s1.p PROVE Root(m2) = m1.p
        BY <1>3, <1>4
      <4>1. Root(m2) = h \o Root(s2)
        BY <1>3, <1>4, DeepFacts
      <4>2. m1.p = h \o s1.p
        BY <1>3, DeepFacts
      <4> QED BY <4>1, <4>2
    <3>3. v = SwapFromRoot(s1, s2) /\ v.ok
      BY <1>2, <2>1
    <3>4. Answered(T, s, CleanApply(u, s2), v)
      BY <1>3, <1>4, <1>6, <1>9, <2>1, <3>1, <3>2, <3>3, FromRoot
    <3> QED BY <3>4 DEF Answered, y
  <2>2. CASE ~AtRoot(s1) /\ AtRoot(s2)
    <3>1. CanApply(u, s2) /\ y = ApplyAt(u, s2)
      BY <1>9, <2>2, RootDoes DEF y
    <3>2. v = SwapToRoot(s1, s2) /\ v.ok
      BY <1>2, <2>2
    <3>3. Answered(T, s, ApplyAt(u, s2), v)
      BY <1>3, <1>4, <1>5, <1>6, <2>2, <3>1, <3>2, ToRoot DEF u
    <3> QED BY <3>1, <3>3 DEF Answered
  <2>3. CASE ~AtRoot(s1) /\ ~AtRoot(s2)
    <3> DEFINE i == s1.p[1]
               j == s2.p[1]
               q == Below(s1)
               z == Below(s2)
    <3>1. i \in Nat /\ q \in Modification(T) /\ s1 = Under(i, q)
      BY <1>3, <2>3, BelowFacts
    <3>2. j \in Nat /\ z \in Modification(T) /\ s2 = Under(j, z)
      BY <1>4, <2>3, BelowFacts
    <3>3. i # j
      <4>1. n < Len(Root(m1)) /\ n < Len(Root(m2))
        <5>1. Len(Root(m1)) \in Nat /\ Len(Root(m2)) \in Nat
          BY RootLength
        <5> QED BY <5>1, <1>1, <1>3, <1>4, <2>3
      <4> QED BY <4>1, <1>1, <1>3, <1>4
    <3> HIDE DEF i, j, q, z
    <3>4. Same(T, s, CleanApply(u, Under(j, z)), Under(j, z), Under(i, q))
      BY <1>5, <1>6, <1>9, <3>1, <3>2, <3>3, WithinBoth DEF u
    <3>5. v.first = s2 /\ v.second = s1
      BY <1>2, <2>3 DEF Swapped
    <3> QED BY <3>1, <3>2, <3>4, <3>5 DEF y
  <2> QED BY <2>1, <2>2, <2>3
<1>13. Same(T, t, Put(t, h, y), Deep(h, v.first), Deep(h, v.second))
  BY <1>3, <1>5, <1>12, SameDeep DEF s
<1>14. r.first = Deep(h, v.first) /\ r.second = Deep(h, v.second)
  BY <1>2, AnswerFacts
<1> QED BY <1>11, <1>13, <1>14

(* Whatever two modifications are applied to a finite tree, one after the  *)
(* other, the order that swap proposes instead has the same effect.  L is  *)
(* any set of labels, and the modifications any that the constructors make.*)
THEOREM SwapsKeepEffect ==
  ASSUME NEW L, Documents \subseteq Trees(L),
         \A t \in Trees(L) : ModsOf(t) \subseteq Modification(Trees(L))
  PROVE  Spec => []SwapKeepsEffect
<1> DEFINE T == Trees(L)
<1>0. IsTrees(T)
  BY TreesAreTrees
<1>m. \A t \in T : ModsOf(t) \subseteq Modification(T)
  OBVIOUS
<1>d. Documents \subseteq T
  OBVIOUS
<1> HIDE DEF T
<1>1. Init => StepsFit(T)
  BY <1>d, FitsAtFirst
<1>2. StepsFit(T) /\ [Edit]_vars => StepsFit(T)'
  BY <1>0, <1>m, FitsNext
<1>3. StepsFit(T) => SwapKeepsEffect
  <2> DEFINE m1 == mods[1]
             m2 == mods[2]
             t == trees[1]
             x == trees[2]
             r == SwapMods(m1, m2)
  <2> SUFFICES ASSUME StepsFit(T), Two, ~WrapsTwice, r.ok
               PROVE  /\ IsApplicable(t, r.first)
                      /\ IsApplicable(CleanApply(t, r.first), r.second)
                      /\ CleanApply(CleanApply(t, r.first), r.second) = trees[3]
    BY DEF SwapKeepsEffect, SwapSound
  <2>1. Len(mods) = 2 /\ 1 \in 1 .. Len(mods) /\ 2 \in 1 .. Len(mods) /\ 1 \in 1 .. Len(trees)
    BY DEF Two, StepsFit
  <2>2. t \in T /\ m1 \in Modification(T) /\ m2 \in Modification(T)
    <3> DEFINE M == Modification(T)
    <3>1. mods \in Seq(M) /\ trees \in Seq(T)
      BY DEF StepsFit
    <3> HIDE DEF M
    <3>2. mods[1] \in M /\ mods[2] \in M /\ trees[1] \in T
      BY <2>1, <3>1, ElementOfSeq
    <3> QED BY <3>2 DEF M
  <2>3. /\ IsApplicable(t, m1) /\ x = CleanApply(t, m1)
        /\ IsApplicable(x, m2) /\ trees[3] = CleanApply(x, m2)
    <3>1. \A i \in 1 .. Len(mods) :
            IsApplicable(trees[i], mods[i]) /\ trees[i + 1] = CleanApply(trees[i], mods[i])
      BY DEF StepsFit
    <3>2. 1 + 1 = 2 /\ 2 + 1 = 3
      OBVIOUS
    <3> QED BY <3>1, <3>2, <2>1
  <2>4. ~(m1.k = "insert_node" /\ m2.k = "insert_node" /\ Root(m2) = m1.p)
    <3> SUFFICES ASSUME m1.k = "insert_node", m2.k = "insert_node", Root(m2) = m1.p
                 PROVE  WrapsTwice
      OBVIOUS
    <3>1. \A i \in 1 .. 2 : i = 1 \/ i = 2
      OBVIOUS
    <3> QED BY <3>1 DEF WrapsTwice
  <2> HIDE DEF m1, m2, t, x
  <2>5. Same(T, t, CleanApply(x, m2), r.first, r.second)
    BY <1>0, <2>2, <2>3, <2>4, SwapsAgree
  <2> HIDE DEF r
  <2> QED BY <2>3, <2>5 DEF Same
<1> QED BY <1>1, <1>2, <1>3, PTL DEF Spec

-----------------------------------------------------------------------------
(* Swapping back.  Two modifications that are swapped twice are as before, *)
(* but for two pairs that go to and fro between two other orders: an       *)
(* insertion where a removal before it ends, and a node that is wrapped    *)
(* where another one was taken out.                                        *)

(* m changes n children into n + g, where neither is 0 for another reason  *)
(* than the kind of m.                                                     *)
ListAt(T, m, i, n, g) ==
  /\ m \in Modification(T) /\ m.k \in ListKinds /\ AtRoot(m)
  /\ m.p # <<>> /\ m.p[1] = i /\ i \in Nat
  /\ n = OldLen(m) /\ n \in Nat /\ g = Growth(m) /\ g \in Int /\ n + g \in Nat
  /\ n = 0 <=> m.k = "insert"
  /\ n + g = 0 <=> m.k = "remove"

(* m inserts something if it inserts, and removes something if it removes. *)
IsSolid(m) ==
  /\ m.k = "insert" => Arity(m.t) # 0
  /\ m.k = "remove" => Argument(m) # 0

LEMMA ListForm ==
  ASSUME NEW T, IsTrees(T), NEW m \in Modification(T), m.k \in ListKinds, AtRoot(m), IsSolid(m)
  PROVE  ListAt(T, m, m.p[1], OldLen(m), Growth(m))
<1> DEFINE A == Arity(m.t)
           c == m.p[2]
           n == OldLen(m)
           g == Growth(m)
<1>1. /\ m.p # <<>> /\ m.p[1] \in Nat
      /\ m.k \in {"remove", "split"} => Argument(m) = c /\ c \in Nat
  BY EditForm
<1>2. A \in Nat
  <2>1. m.t \in T
    BY ModFacts
  <2> QED BY <2>1, NodeFacts
<1>3. /\ m.k = "insert" => A # 0
      /\ m.k = "remove" => c # 0
  BY <1>1 DEF IsSolid
<1>4. /\ m.k = "insert" => n = 0 /\ g = A
      /\ m.k = "remove" => n = c /\ g = -c
      /\ m.k = "split"  => n = 1 /\ g = 1
      /\ m.k = "join"   => n = 2 /\ g = -1
  BY DEF OldLen, Growth
<1> HIDE DEF A, c, n, g
<1>5. n \in Nat /\ g \in Int /\ n + g \in Nat
  BY <1>1, <1>2, <1>4 DEF ListKinds
<1>6. (n = 0 <=> m.k = "insert") /\ (n + g = 0 <=> m.k = "remove")
  BY <1>1, <1>2, <1>3, <1>4 DEF ListKinds
<1> QED BY <1>1, <1>5, <1>6 DEF ListAt, n, g

LEMMA ListShift ==
  ASSUME NEW T, NEW m, NEW i, NEW n, NEW g, ListAt(T, m, i, n, g), NEW e \in Int, i + e \in Nat
  PROVE  /\ ListAt(T, Shift(m, e), i + e, n, g) /\ Shift(m, e).k = m.k
         /\ Shift(Shift(m, e), -e) = m /\ Shift(m, 0) = m
<1> DEFINE v == Shift(m, e)
<1>1. m \in Modification(T) /\ m.k \in ListKinds /\ AtRoot(m) /\ m.p # <<>> /\ m.p[1] = i
  BY DEF ListAt
<1>2. IsShift(T, m, e, v) /\ Shift(v, -e) = m /\ Shift(m, 0) = m
  BY <1>1, ShiftFacts, ShiftBack
<1> HIDE DEF v
<1>3. /\ v \in Modification(T) /\ v.k = m.k /\ v.t = m.t
      /\ v.p \in Seq(Nat) /\ Len(v.p) = Len(m.p) /\ v.p[1] = i + e
      /\ \A k \in 2 .. Len(m.p) : v.p[k] = m.p[k]
  BY <1>1, <1>2 DEF IsShift
<1>4. m.p \in Seq(Nat) /\ Len(m.p) = Extra(m.k)
  BY <1>1, RootForm
<1>5. AtRoot(v)
  <2>1. Extra(v.k) = Len(v.p)
    BY <1>3, <1>4
  <2>2. Len(Root(v)) = Len(v.p) - Extra(v.k) /\ Root(v) \in Seq(Nat) /\ Extra(v.k) \in 0 .. 2
    BY <1>3, RootLength
  <2>3. Len(Root(v)) = 0
    BY <2>1, <2>2
  <2> QED BY <2>2, <2>3 DEF AtRoot
<1>6. v.p # <<>>
  <2>1. Len(m.p) # 0
    BY <1>1, <1>4
  <2> QED BY <2>1, <1>3
<1>7. m.k = "remove" => v.p[2] = m.p[2]
  <2> SUFFICES ASSUME m.k = "remove" PROVE 2 \in 2 .. Len(m.p)
    BY <1>3
  <2>1. Len(m.p) = 2
    BY <1>4 DEF Extra
  <2> QED BY <2>1
<1>8. OldLen(v) = OldLen(m) /\ Growth(v) = Growth(m)
  BY <1>1, <1>3, <1>7 DEF OldLen, Growth, ListKinds
<1>9. ListAt(T, v, i + e, n, g)
  BY <1>1, <1>3, <1>5, <1>6, <1>8 DEF ListAt
<1> QED BY <1>2, <1>3, <1>9 DEF v

LEMMA MeetingIs ==
  ASSUME NEW T, NEW m1, NEW i, NEW n, NEW g, ListAt(T, m1, i, n, g), NEW m2, NEW b \in Nat
  PROVE  Meeting(m1, m2, i, b) <=> i <= b /\ b < i + (n + g)
<1>1. m1.k \in ListKinds /\ i \in Nat /\ n \in Nat /\ g \in Int /\ n = OldLen(m1) /\ g = Growth(m1)
  BY DEF ListAt
<1>2. CASE m1.k = "insert"
  <2>1. n = 0 /\ (Meeting(m1, m2, i, b) <=> b \in i .. i + g - 1)
    BY <1>1, <1>2 DEF OldLen, Growth, Meeting
  <2> QED BY <2>1, <1>1
<1>3. CASE m1.k = "remove"
  <2> DEFINE c == m1.p[2]
  <2>1. n = c /\ g = -c /\ ~Meeting(m1, m2, i, b)
    BY <1>1, <1>3 DEF OldLen, Growth, Meeting
  <2> HIDE DEF c
  <2> QED BY <2>1, <1>1
<1>4. CASE m1.k = "split"
  <2>1. n = 1 /\ g = 1 /\ (Meeting(m1, m2, i, b) <=> b \in {i, i + 1})
    BY <1>1, <1>4 DEF OldLen, Growth, Meeting
  <2> QED BY <2>1, <1>1
<1>5. CASE m1.k = "join"
  <2>1. n = 2 /\ g = -1 /\ (Meeting(m1, m2, i, b) <=> b = i)
    BY <1>1, <1>5 DEF OldLen, Growth, Meeting
  <2> QED BY <2>1, <1>1
<1> QED BY <1>1, <1>2, <1>3, <1>4, <1>5 DEF ListKinds

(* Where the swap of two edits of the same list goes, whatever the list.   *)
LEMMA ListsGo ==
  ASSUME NEW T, NEW m1, NEW i, NEW n, NEW g, ListAt(T, m1, i, n, g),
         NEW m2, NEW b, NEW m, NEW e, ListAt(T, m2, b, m, e),
         NEW r, r = SwapFromRoot(m1, m2), r.ok
  PROVE  \/ b + m <= i /\ r = Swapped(m2, Shift(m1, e))
         \/ /\ i + (n + g) <= b /\ (m2.k = "insert" => i < b)
            /\ r = Swapped(Shift(m2, -g), m1)
<1> DEFINE after == Swapped(Shift(m2, -g), m1)
           before == Swapped(m2, Shift(m1, e))
<1>1. /\ m1.k \in ListKinds /\ i = m1.p[1] /\ i \in Nat /\ n \in Nat /\ g \in Int /\ n + g \in Nat
      /\ g = Growth(m1)
  BY DEF ListAt
<1>2. /\ m2.k \in ListKinds /\ b = m2.p[1] /\ b \in Nat /\ m = OldLen(m2) /\ m \in Nat
      /\ AtRoot(m2) /\ e = Growth(m2) /\ (m = 0 <=> m2.k = "insert")
  BY DEF ListAt
<1>3. /\ r = Swap1(m1, m2, i, g)
      /\ Meeting(m1, m2, i, b) => m2.k = "insert" /\ b = i
  BY <1>1, <1>2, FromRootKinds DEF ListKinds
<1>4. Shift(m1, 0) = m1
  <2>1. i + 0 \in Nat /\ 0 \in Int
    BY <1>1
  <2> QED BY <2>1, ListShift
<1>5. /\ m2.k = "insert" => r = IF b <= i THEN Swapped(m2, Shift(m1, Arity(m2.t))) ELSE after
      /\ m2.k = "remove" =>
           /\ ~(b <= i /\ i < b + m2.p[2] /\ (b # i \/ m1.k # "remove"))
           /\ r = IF b < i THEN Swapped(m2, Shift(m1, -m2.p[2])) ELSE after
      /\ m2.k = "split" => r = IF b < i THEN Swapped(m2, Shift(m1, 1)) ELSE after
      /\ m2.k = "join" => b # i - 1 /\ r = IF b < i THEN Swapped(m2, Shift(m1, -1)) ELSE after
  <2>1. Swap1Gives(m1, m2, i, b, r, Swapped(Shift(m2, -g), Shift(m1, 0)))
    BY <1>1, <1>2, <1>3, Swap1Kinds
  <2>2. Swap1Gives(m1, m2, i, b, r, after)
    BY <2>1, <1>4
  <2> HIDE DEF after
  <2> QED BY <2>2, <1>2 DEF Swap1Gives
<1>6. (b < i \/ i + (n + g) <= b) \/ (m2.k = "insert" /\ b = i)
  BY <1>1, <1>2, <1>3, MeetingIs
<1> SUFFICES \/ b + m <= i /\ r = before
             \/ i + (n + g) <= b /\ (m2.k = "insert" => i < b) /\ r = after
  OBVIOUS
<1> HIDE DEF after
<1>7. CASE m2.k = "insert"
  <2>1. m = 0 /\ before = Swapped(m2, Shift(m1, Arity(m2.t)))
    BY <1>2, <1>7 DEF OldLen, Growth
  <2> HIDE DEF before
  <2>2. r = IF b <= i THEN before ELSE after
    BY <1>5, <1>7, <2>1
  <2> QED BY <2>1, <2>2, <1>1, <1>2, <1>6
<1>8. CASE m2.k = "remove"
  <2>1. m = m2.p[2] /\ before = Swapped(m2, Shift(m1, -m2.p[2]))
    BY <1>2, <1>8 DEF OldLen, Growth
  <2> HIDE DEF before
  <2>2. /\ r = IF b < i THEN before ELSE after
        /\ ~(b <= i /\ i < b + m /\ (b # i \/ m1.k # "remove"))
    BY <1>5, <1>8, <2>1
  <2>3. CASE b < i
    BY <2>2, <2>3, <1>1, <1>2
  <2>4. CASE b >= i
    BY <2>2, <2>4, <1>1, <1>2, <1>6, <1>8
  <2> QED BY <2>3, <2>4, <1>1, <1>2
<1>9. CASE m2.k = "split"
  <2>1. m = 1 /\ before = Swapped(m2, Shift(m1, 1))
    BY <1>2, <1>9 DEF OldLen, Growth
  <2> HIDE DEF before
  <2>2. r = IF b < i THEN before ELSE after
    BY <1>5, <1>9, <2>1
  <2> QED BY <2>1, <2>2, <1>1, <1>2, <1>6, <1>9
<1>10. CASE m2.k = "join"
  <2>1. m = 2 /\ before = Swapped(m2, Shift(m1, -1))
    BY <1>2, <1>10 DEF OldLen, Growth
  <2> HIDE DEF before
  <2>2. b # i - 1 /\ r = IF b < i THEN before ELSE after
    BY <1>5, <1>10, <2>1
  <2>3. CASE b < i
    <3>1. b + m <= i
      BY <2>1, <2>2, <2>3, <1>1, <1>2
    <3> QED BY <3>1, <2>2, <2>3
  <2>4. CASE b >= i
    <3>1. i + (n + g) <= b
      BY <2>4, <1>1, <1>2, <1>6, <1>10
    <3> QED BY <3>1, <2>2, <2>4, <1>1, <1>2, <1>10
  <2> QED BY <2>3, <2>4, <1>1, <1>2
<1> QED BY <1>2, <1>7, <1>8, <1>9, <1>10 DEF ListKinds

(* An insertion and a removal of what follows it can be swapped.           *)
LEMMA InsertThenRemove ==
  ASSUME NEW T, NEW m1, NEW i, NEW n, NEW g, ListAt(T, m1, i, n, g), m1.k = "insert",
         NEW m2, NEW m, NEW e, ListAt(T, m2, i + g, m, e), m2.k = "remove"
  PROVE  SwapFromRoot(m1, m2) = Swapped(Shift(m2, -g), m1)
<1> DEFINE b == i + g
<1>1. /\ m1.p[1] = i /\ i \in Nat /\ n = 0 /\ g \in Int /\ n + g \in Nat /\ g = Arity(m1.t)
      /\ n + g # 0
  BY DEF ListAt, Growth
<1>2. m2.p # <<>> /\ m2.p[1] = b /\ AtRoot(m2)
  BY DEF ListAt
<1>3. g \in Nat /\ g > 0 /\ b > i /\ b \notin i .. i + g - 1 /\ b \in Nat
  BY <1>1
<1>4. Shift(m1, 0) = m1
  <2>1. i + 0 \in Nat /\ 0 \in Int
    BY <1>1
  <2> QED BY <2>1, ListShift
<1> HIDE DEF b
<1>5. SwapFromRoot(m1, m2) = Swap1(m1, m2, i, g)
  <2>1. m2.p[1] \notin i .. i + Arity(m1.t) - 1
    BY <1>1, <1>2, <1>3
  <2> QED BY <2>1, <1>1, <1>2 DEF SwapFromRoot
<1>6. Swap1(m1, m2, i, g) = Swapped(Shift(m2, -g), Shift(m1, 0))
  BY <1>1, <1>2, <1>3 DEF Swap1
<1> QED BY <1>4, <1>5, <1>6

LEMMA StrippedIs ==
  ASSUME NEW f, NEW g
  PROVE  SwapStripped(f, g) = IF AtRoot(f) THEN SwapFromRoot(f, g)
                              ELSE IF AtRoot(g) THEN SwapToRoot(f, g) ELSE Swapped(g, f)
BY DEF SwapStripped

LEMMA BelowUnder ==
  ASSUME NEW T, NEW m \in Modification(T), NEW i \in Nat
  PROVE  Below(Under(i, m)) = m
<1> DEFINE v == Under(i, m)
<1>1. v \in Modification(T) /\ v.k = m.k /\ v.t = m.t /\ Tail(v.p) = m.p
  BY UnderFacts
<1>2. m.p \in Seq(Nat) /\ Len(m.p) >= Extra(v.k)
  BY <1>1 DEF Modification
<1> HIDE DEF v
<1>3. /\ Below(v) \in Modification(T) /\ Below(v).k = m.k /\ Below(v).p = m.p
      /\ Below(v).t = m.t
  BY <1>1, <1>2, WithPathFacts DEF Below
<1>4. Below(v) = m
  BY <1>3, SameMod
<1> QED BY <1>4 DEF v

LEMMA AnswersEqual ==
  ASSUME NEW f, NEW g, NEW y, NEW z, Swapped(f, g) = Swapped(y, z)
  PROVE  f = y /\ g = z
BY AnswerFacts

(* The two paths have nothing in common that both roots lie below.         *)
IsForked(f, g) == AtRoot(f) \/ AtRoot(g) \/ f.p[1] # g.p[1]

IsPair(T, f, g) == f \in Modification(T) /\ g \in Modification(T) /\ IsForked(f, g)

(* When f and g are swapped, they become s1 and s2, or a pair that becomes *)
(* f and g again.                                                          *)
GoesBack(T, s1, s2, f, g) ==
  \A x : x = SwapStripped(f, g) /\ x.ok =>
    \/ x = Swapped(s1, s2)
    \/ \E y, z : x = Swapped(y, z) /\ IsPair(T, y, z) /\ SwapStripped(y, z) = Swapped(f, g)

(* Swapping back the answer r to s1 and s2, if it is not refused, leads to *)
(* s1 and s2 or to and fro.                                                *)
Returns(T, s1, s2, r) ==
  \E f, g : r = Swapped(f, g) /\ IsPair(T, f, g) /\ GoesBack(T, s1, s2, f, g)

(* In the list of children and within one of them                          *)
LEMMA ListDeepGoes ==
  ASSUME NEW T, NEW m1, NEW i, NEW n, NEW g, ListAt(T, m1, i, n, g),
         NEW q \in Modification(T), NEW j \in Nat,
         NEW r, r = SwapFromRoot(m1, Under(j, q)), r.ok
  PROVE  \/ j < i /\ r = Swapped(Under(j, q), m1)
         \/ i + (n + g) <= j /\ j - g \in Nat /\ r = Swapped(Under(j - g, q), m1)
<1> DEFINE m2 == Under(j, q)
<1>1. m2 \in Modification(T) /\ m2.p[1] = j /\ ~AtRoot(m2)
  BY UnderFacts, ZenonT(30)
<1>2. /\ m1.k \in ListKinds /\ i = m1.p[1] /\ i \in Nat /\ n \in Nat /\ g \in Int /\ n + g \in Nat
      /\ g = Growth(m1)
  BY DEF ListAt
<1>3. \A l \in Nat : l = j - g => Shift(m2, -g) = Under(l, q)
  <2> SUFFICES ASSUME NEW l \in Nat, l = j - g PROVE Shift(m2, -g) = Under(l, q)
    OBVIOUS
  <2>1. -g \in Int /\ l = j + (-g)
    BY <1>2
  <2> QED BY <2>1, ShiftUnder
<1> HIDE DEF m2
<1>4. r = Swap1(m1, m2, i, g) /\ ~Meeting(m1, m2, i, j)
  BY <1>1, <1>2, FromRootKinds DEF m2
<1>5. Shift(m1, 0) = m1
  <2>1. i + 0 \in Nat /\ 0 \in Int
    BY <1>2
  <2> QED BY <2>1, ListShift
<1>6. Swap1Gives(m1, m2, i, j, r, Swapped(Shift(m2, -g), Shift(m1, 0)))
  BY <1>1, <1>2, <1>4, Swap1Kinds DEF m2
<1>7. r = IF j < i THEN Swapped(m2, m1) ELSE Swapped(Shift(m2, -g), m1)
  BY <1>1, <1>5, <1>6 DEF Swap1Gives
<1>8. j < i \/ i + (n + g) <= j
  BY <1>2, <1>4, MeetingIs
<1>9. CASE j < i
  BY <1>7, <1>9 DEF m2
<1>10. CASE i + (n + g) <= j
  <2>1. ~(j < i) /\ j - g \in Nat
    BY <1>2, <1>10
  <2> QED BY <2>1, <1>3, <1>7, <1>10
<1> QED BY <1>8, <1>9, <1>10

LEMMA DeepListGoes ==
  ASSUME NEW T, NEW m1, NEW i, NEW n, NEW g, ListAt(T, m1, i, n, g),
         NEW q \in Modification(T), NEW j \in Nat,
         NEW r, r = SwapToRoot(Under(j, q), m1), r.ok
  PROVE  \/ j < i /\ r = Swapped(m1, Under(j, q))
         \/ i + n <= j /\ j + g \in Nat /\ r = Swapped(m1, Under(j + g, q))
<1> DEFINE m2 == Under(j, q)
<1>1. m2.p[1] = j
  BY UnderFacts, ZenonT(30)
<1>2. /\ m1.k \in ListKinds /\ i = m1.p[1] /\ i \in Nat /\ n \in Nat /\ g \in Int /\ n + g \in Nat
      /\ g = Growth(m1) /\ n = OldLen(m1)
  BY DEF ListAt
<1>3. \A l \in Nat : l = j + g => Shift(m2, g) = Under(l, q)
  BY <1>2, ShiftUnder
<1> HIDE DEF m2
<1>4. \/ j < i /\ r = Swapped(m1, m2)
      \/ i + n <= j /\ r = Swapped(m1, Shift(m2, g))
  BY <1>1, <1>2, ToRootList DEF m2
<1>5. i + n <= j => j + g \in Nat
  BY <1>2
<1> QED BY <1>3, <1>4, <1>5 DEF m2

LEMMA ListDeepReturns ==
  ASSUME NEW T, NEW m1, NEW i, NEW n, NEW g, ListAt(T, m1, i, n, g),
         NEW q \in Modification(T), NEW j \in Nat,
         NEW r, r = SwapFromRoot(m1, Under(j, q)), r.ok
  PROVE  Returns(T, m1, Under(j, q), r)
<1>1. /\ m1 \in Modification(T) /\ AtRoot(m1) /\ i \in Nat /\ n \in Nat /\ g \in Int
      /\ n + g \in Nat
  BY DEF ListAt
<1>2. ASSUME NEW l \in Nat, r = Swapped(Under(l, q), m1), l = j,  j < i
      PROVE  GoesBack(T, m1, Under(j, q), Under(l, q), m1)
  <2> SUFFICES ASSUME NEW x, x = SwapStripped(Under(l, q), m1), x.ok
               PROVE  x = Swapped(m1, Under(j, q))
    BY DEF GoesBack
  <2>1. x = SwapToRoot(Under(l, q), m1)
    BY <1>1, StrippedIs, UnderFacts
  <2>2. x = Swapped(m1, Under(l, q)) \/ i + n <= l
    BY <2>1, DeepListGoes
  <2> QED BY <2>2, <1>1, <1>2
<1>3. ASSUME NEW l \in Nat, r = Swapped(Under(l, q), m1), l = j - g, i + (n + g) <= j
      PROVE  GoesBack(T, m1, Under(j, q), Under(l, q), m1)
  <2> SUFFICES ASSUME NEW x, x = SwapStripped(Under(l, q), m1), x.ok
               PROVE  x = Swapped(m1, Under(j, q))
    BY DEF GoesBack
  <2>1. x = SwapToRoot(Under(l, q), m1)
    BY <1>1, StrippedIs, UnderFacts
  <2>2. l < i \/ x = Swapped(m1, Under(l + g, q))
    BY <2>1, DeepListGoes
  <2>3. ~(l < i) /\ l + g = j
    BY <1>1, <1>3
  <2> QED BY <2>2, <2>3
<1>4. \A l \in Nat : IsPair(T, Under(l, q), m1)
  BY <1>1, UnderFacts DEF IsPair, IsForked
<1>5. \/ j < i /\ r = Swapped(Under(j, q), m1)
      \/ i + (n + g) <= j /\ j - g \in Nat /\ r = Swapped(Under(j - g, q), m1)
  BY ListDeepGoes
<1> QED BY <1>2, <1>3, <1>4, <1>5 DEF Returns

LEMMA DeepListReturns ==
  ASSUME NEW T, NEW m1, NEW i, NEW n, NEW g, ListAt(T, m1, i, n, g),
         NEW q \in Modification(T), NEW j \in Nat,
         NEW r, r = SwapToRoot(Under(j, q), m1), r.ok
  PROVE  Returns(T, Under(j, q), m1, r)
<1>1. /\ m1 \in Modification(T) /\ AtRoot(m1) /\ i \in Nat /\ n \in Nat /\ g \in Int
      /\ n + g \in Nat
  BY DEF ListAt
<1>2. ASSUME r = Swapped(m1, Under(j, q)), j < i
      PROVE  GoesBack(T, Under(j, q), m1, m1, Under(j, q))
  <2> SUFFICES ASSUME NEW x, x = SwapStripped(m1, Under(j, q)), x.ok
               PROVE  x = Swapped(Under(j, q), m1)
    BY DEF GoesBack
  <2>1. x = SwapFromRoot(m1, Under(j, q))
    BY <1>1, StrippedIs
  <2>2. x = Swapped(Under(j, q), m1) \/ i + (n + g) <= j
    BY <2>1, ListDeepGoes
  <2> QED BY <2>2, <1>1, <1>2
<1>3. ASSUME NEW l \in Nat, r = Swapped(m1, Under(l, q)), l = j + g, i + n <= j
      PROVE  GoesBack(T, Under(j, q), m1, m1, Under(l, q))
  <2> SUFFICES ASSUME NEW x, x = SwapStripped(m1, Under(l, q)), x.ok
               PROVE  x = Swapped(Under(j, q), m1)
    BY DEF GoesBack
  <2>1. x = SwapFromRoot(m1, Under(l, q))
    BY <1>1, StrippedIs
  <2>2. l < i \/ x = Swapped(Under(l - g, q), m1)
    BY <2>1, ListDeepGoes
  <2>3. ~(l < i) /\ l - g = j
    BY <1>1, <1>3
  <2> QED BY <2>2, <2>3
<1>4. \A l \in Nat : IsPair(T, m1, Under(l, q))
  BY <1>1, UnderFacts DEF IsPair, IsForked
<1>5. \/ j < i /\ r = Swapped(m1, Under(j, q))
      \/ i + n <= j /\ j + g \in Nat /\ r = Swapped(m1, Under(j + g, q))
  BY DeepListGoes
<1> QED BY <1>2, <1>3, <1>4, <1>5 DEF Returns

(* Twice in the list of children                                           *)
LEMMA ListsReturn ==
  ASSUME NEW T, NEW m1, NEW i, NEW n, NEW g, ListAt(T, m1, i, n, g),
         NEW m2, NEW b, NEW m, NEW e, ListAt(T, m2, b, m, e),
         NEW r, r = SwapFromRoot(m1, m2), r.ok
  PROVE  Returns(T, m1, m2, r)
<1>1. /\ m1 \in Modification(T) /\ AtRoot(m1) /\ i \in Nat /\ n \in Nat /\ g \in Int
      /\ n + g \in Nat /\ (n = 0 <=> m1.k = "insert") /\ (n + g = 0 <=> m1.k = "remove")
  BY DEF ListAt
<1>2. /\ m2 \in Modification(T) /\ AtRoot(m2) /\ b \in Nat /\ m \in Nat /\ e \in Int
      /\ m + e \in Nat /\ (m = 0 <=> m2.k = "insert") /\ (m + e = 0 <=> m2.k = "remove")
  BY DEF ListAt
<1>3. \/ b + m <= i /\ r = Swapped(m2, Shift(m1, e))
      \/ /\ i + (n + g) <= b /\ (m2.k = "insert" => i < b)
         /\ r = Swapped(Shift(m2, -g), m1)
  BY ListsGo
<1>4. CASE b + m <= i /\ r = Swapped(m2, Shift(m1, e))
  <2> DEFINE v == Shift(m1, e)
             l == i + e
  <2>1. l \in Nat /\ b + (m + e) <= l
    BY <1>1, <1>2, <1>4
  <2>2. ListAt(T, v, l, n, g) /\ v.k = m1.k /\ Shift(v, -e) = m1
    BY <1>2, <2>1, ListShift
  <2> HIDE DEF v, l
  <2>3. v \in Modification(T) /\ AtRoot(v)
    BY <2>2 DEF ListAt
  <2>4. GoesBack(T, m1, m2, m2, v)
    <3> SUFFICES ASSUME NEW x, x = SwapStripped(m2, v), x.ok, x # Swapped(m1, m2)
                 PROVE  \E y, z : /\ x = Swapped(y, z) /\ IsPair(T, y, z)
                                  /\ SwapStripped(y, z) = Swapped(m2, v)
      BY DEF GoesBack
    <3>1. x = SwapFromRoot(m2, v)
      BY <1>2, StrippedIs
    <3>2. \/ l + n <= b /\ x = Swapped(v, Shift(m2, g))
          \/ x = Swapped(Shift(v, -e), m2)
      BY <3>1, <2>2, ListsGo
    <3>3. l + n <= b /\ x = Swapped(v, Shift(m2, g))
      BY <3>2, <2>2
    <3>4. n = 0 /\ m + e = 0 /\ l = b
      BY <3>3, <2>1, <1>1, <1>2
    <3>5. v.k = "insert" /\ m2.k = "remove"
      BY <3>4, <1>1, <1>2, <2>2
    <3> DEFINE z == Shift(m2, g)
    <3>6. b + g \in Nat /\ b + g = l + g
      BY <3>4, <1>1, <1>2
    <3>7. ListAt(T, z, l + g, m, e) /\ z.k = "remove" /\ Shift(z, -g) = m2
      BY <3>5, <3>6, <1>1, ListShift
    <3> HIDE DEF z
    <3>8. SwapFromRoot(v, z) = Swapped(m2, v)
      BY <3>5, <3>7, <2>2, InsertThenRemove
    <3>9. SwapStripped(v, z) = Swapped(m2, v)
      BY <3>8, <2>3, StrippedIs
    <3>10. IsPair(T, v, z)
      BY <2>3, <3>7 DEF ListAt, IsPair, IsForked
    <3> QED BY <3>3, <3>9, <3>10 DEF z
  <2>5. IsPair(T, m2, v)
    BY <1>2, <2>3 DEF IsPair, IsForked
  <2> QED BY <1>4, <2>4, <2>5 DEF Returns, v
<1>5. CASE /\ i + (n + g) <= b /\ (m2.k = "insert" => i < b)
           /\ r = Swapped(Shift(m2, -g), m1)
  <2> DEFINE v == Shift(m2, -g)
             l == b - g
  <2>1. l \in Nat /\ i + n <= l /\ b + (-g) = l /\ -g \in Int /\ -(-g) = g /\ l + g = b
    BY <1>1, <1>2, <1>5
  <2>2. ListAt(T, v, l, m, e) /\ v.k = m2.k /\ Shift(v, g) = m2
    <3>1. ListAt(T, v, b + (-g), m, e) /\ v.k = m2.k /\ Shift(v, -(-g)) = m2
      BY <2>1, ListShift
    <3> QED BY <3>1, <2>1
  <2> HIDE DEF v, l
  <2>3. v \in Modification(T) /\ AtRoot(v)
    BY <2>2 DEF ListAt
  <2>4. GoesBack(T, m1, m2, v, m1)
    <3> SUFFICES ASSUME NEW x, x = SwapStripped(v, m1), x.ok
                 PROVE  x = Swapped(m1, m2)
      BY DEF GoesBack
    <3>1. x = SwapFromRoot(v, m1)
      BY <2>3, StrippedIs
    <3>2. \/ x = Swapped(m1, Shift(v, g))
          \/ l + (m + e) <= i /\ (m1.k = "insert" => l < i)
      BY <3>1, <2>2, ListsGo
    <3>3. ~(l + (m + e) <= i /\ (m1.k = "insert" => l < i))
      BY <2>1, <1>1, <1>2
    <3> QED BY <3>2, <3>3, <2>2
  <2>5. IsPair(T, v, m1)
    BY <1>1, <2>3 DEF IsPair, IsForked
  <2> QED BY <1>5, <2>4, <2>5 DEF Returns, v
<1> QED BY <1>3, <1>4, <1>5

(* An answer that is swapped back to s1 and s2, or not at all.             *)
LEMMA Straight ==
  ASSUME NEW T, NEW s1, NEW s2, NEW f, NEW g, IsPair(T, f, g),
         \A x : x = SwapStripped(f, g) /\ x.ok => x = Swapped(s1, s2)
  PROVE  Returns(T, s1, s2, Swapped(f, g))
<1>1. GoesBack(T, s1, s2, f, g)
  BY DEF GoesBack
<1> QED BY <1>1 DEF Returns

(* At the root without a list                                              *)
LEMMA ShortPath ==
  ASSUME NEW T, NEW m \in Modification(T), AtRoot(m)
  PROVE  /\ m.k \in {"assign", "assign_node"} => m.p = <<>>
         /\ m.k \notin {"assign", "assign_node"} => m.p # <<>> /\ m.p[1] \in Nat
<1>1. /\ m.p \in Seq(Nat) /\ Len(m.p) = Extra(m.k)
      /\ Extra(m.k) # 0 => m.p[1] \in Nat
  BY RootForm
<1>2. CASE m.k \in {"assign", "assign_node"}
  <2>1. Len(m.p) = 0
    BY <1>1, <1>2 DEF Extra
  <2> QED BY <2>1, <1>1, <1>2
<1>3. CASE m.k \notin {"assign", "assign_node"}
  <2>1. Extra(m.k) # 0
    BY <1>3 DEF Extra
  <2>2. Len(m.p) # 0
    BY <2>1, <1>1
  <2> QED BY <2>1, <2>2, <1>1, <1>3
<1> QED BY <1>2, <1>3

(* The answers for one kind at the root                                    *)
LabelKinds == {"assign", "assign_node"}

LabelGives(m1, m2, r) ==
  \/ m1 = m2 /\ r = Swapped(m1, m2)
  \/ AtRoot(m2) /\ m2.k = "insert_node" /\ r = Swapped(m2, Under(m2.p[1], m1))
  \/ m1.k = "assign_node" /\ ~AtRoot(m2) /\ r = Swapped(m2, m1)

LEMMA FromLabel ==
  ASSUME NEW m1, NEW m2, m1.k \in LabelKinds, NEW r, r = SwapFromRoot(m1, m2), r.ok
  PROVE  LabelGives(m1, m2, r)
<1> DEFINE i == m1.p[1]
           b == m2.p[1]
<1>1. i = m1.p[1] /\ b = m2.p[1]
  OBVIOUS
<1> HIDE DEF i, b
<1> QED BY <1>1, FromRootKinds DEF LabelGives, LabelKinds

LEMMA FromWrap ==
  ASSUME NEW m1, NEW m2, m1.k = "insert_node", NEW r, r = SwapFromRoot(m1, m2), r.ok
  PROVE  /\ ~AtRoot(m2) /\ m2.p[1] = m1.p[1]
         /\ ~(Below(m2).k = "insert_node" /\ AtRoot(Below(m2))) => r = Swapped(Below(m2), m1)
<1> DEFINE i == m1.p[1]
           b == m2.p[1]
<1>1. i = m1.p[1] /\ b = m2.p[1]
  OBVIOUS
<1> HIDE DEF i, b
<1> QED BY <1>1, FromRootKinds

LEMMA FromUnwrap ==
  ASSUME NEW m1, NEW m2, m1.k = "remove_node", NEW r, r = SwapFromRoot(m1, m2), r.ok
  PROVE  r = Swapped(Under(m1.p[1], m2), m1)
<1> DEFINE i == m1.p[1]
           b == m2.p[1]
<1>1. i = m1.p[1] /\ b = m2.p[1]
  OBVIOUS
<1> HIDE DEF i, b
<1> QED BY <1>1, FromRootKinds

LEMMA FromCursor ==
  ASSUME NEW m1, NEW m2, m1.k = "set_cursor", NEW r, r = SwapFromRoot(m1, m2), r.ok
  PROVE  /\ ~AtRoot(m2) \/ m2.k \in {"join", "split", "assign_node"}
         /\ r = Swapped(m2, m1)
<1> DEFINE i == m1.p[1]
           b == m2.p[1]
<1>1. i = m1.p[1] /\ b = m2.p[1]
  OBVIOUS
<1> HIDE DEF i, b
<1> QED BY <1>1, FromRootKinds

LEMMA FromList ==
  ASSUME NEW T, NEW m1, NEW i, NEW n, NEW g, ListAt(T, m1, i, n, g),
         NEW m2 \in Modification(T), AtRoot(m2), NEW r, r = SwapFromRoot(m1, m2), r.ok
  PROVE  \/ m2.k \in ListKinds
         \/ m2.k = "insert_node" /\ r = Swapped(m2, Under(m2.p[1], m1))
<1> DEFINE b == m2.p[1]
           z == Swapped(Shift(m2, -g), Shift(m1, 0))
<1>1. m1.k \in ListKinds /\ i = m1.p[1] /\ i \in Nat /\ g \in Int /\ g = Growth(m1)
  BY DEF ListAt
<1>2. b = m2.p[1]
  OBVIOUS
<1>3. m2.p # <<>> => m2.k \notin {"assign", "assign_node"} /\ b \in Nat
  BY ShortPath
<1> HIDE DEF b, z
<1>4. m2.p # <<>> /\ r = Swap1(m1, m2, i, g)
  BY <1>1, <1>2, FromRootKinds
<1>5. Swap1Gives(m1, m2, i, b, r, z)
  BY <1>1, <1>2, <1>3, <1>4, Swap1Kinds DEF z
<1>6. /\ m2.k = "insert_node" => r = Swapped(m2, Under(b, m1))
      /\ m2.k # "remove_node" /\ m2.k # "set_cursor"
  BY <1>5 DEF Swap1Gives
<1>7. m2.k \in Kinds
  BY ModFacts
<1> QED BY <1>2, <1>3, <1>4, <1>6, <1>7 DEF Kinds, ListKinds

(* The kinds that leave every node where it is                             *)
StillKinds == {"assign_node", "set_cursor"}

LEMMA ToSame ==
  ASSUME NEW m1, NEW m2, m2.k \in StillKinds,
         NEW r, r = SwapToRoot(m1, m2), r.ok
  PROVE  r = Swapped(m2, m1)
<1> DEFINE i == m2.p[1]
           j == m1.p[1]
<1>1. i = m2.p[1] /\ j = m1.p[1]
  OBVIOUS
<1> HIDE DEF i, j
<1> QED BY <1>1, ToRootKinds DEF StillKinds

LEMMA ToWrap ==
  ASSUME NEW m1, NEW m2, m2.k = "insert_node", NEW r, r = SwapToRoot(m1, m2), r.ok
  PROVE  r = Swapped(m2, Under(m2.p[1], m1))
<1> DEFINE i == m2.p[1]
           j == m1.p[1]
<1>1. i = m2.p[1] /\ j = m1.p[1]
  OBVIOUS
<1> HIDE DEF j, i
<1>2. r = Swapped(m2, Under(i, m1))
  BY <1>1, ToRootKinds
<1> QED BY <1>1, <1>2

LEMMA ToUnwrap ==
  ASSUME NEW m1, NEW m2, m2.k = "remove_node", NEW r, r = SwapToRoot(m1, m2), r.ok
  PROVE  m1.p[1] = m2.p[1] /\ r = Swapped(m2, Below(m1))
<1> DEFINE i == m2.p[1]
           j == m1.p[1]
<1>1. i = m2.p[1] /\ j = m1.p[1]
  OBVIOUS
<1> HIDE DEF i, j
<1>2. j = i /\ r = Swapped(m2, Below(m1))
  BY <1>1, ToRootKinds
<1> QED BY <1>1, <1>2

(* s1 within the node that s2 wraps                                        *)
LEMMA WrapReturns ==
  ASSUME NEW T, NEW s1 \in Modification(T), NEW s2 \in Modification(T), AtRoot(s2),
         s2.k = "insert_node", ~(s1.k = "insert_node" /\ AtRoot(s1)), NEW i, i = s2.p[1]
  PROVE  Returns(T, s1, s2, Swapped(s2, Under(i, s1)))
<1>1. i \in Nat
  BY ShortPath
<1> DEFINE g == Under(i, s1)
<1>2. g \in Modification(T) /\ ~AtRoot(g)
  BY <1>1, UnderFacts
<1>2b. Below(g) = s1
  BY <1>1, BelowUnder
<1> HIDE DEF g
<1>3. IsPair(T, s2, g)
  BY <1>2 DEF IsPair, IsForked
<1>4. ASSUME NEW x, x = SwapStripped(s2, g), x.ok PROVE x = Swapped(s1, s2)
  <2>1. x = SwapFromRoot(s2, g)
    BY <1>4, StrippedIs
  <2>2. x = Swapped(Below(g), s2)
    BY <2>1, <1>2b, <1>4, FromWrap
  <2> QED BY <2>2, <1>2b
<1>5. Returns(T, s1, s2, Swapped(s2, g))
  BY <1>3, <1>4, Straight
<1> QED BY <1>5 DEF g

LEMMA NestedWraps ==
  ASSUME NEW T, NEW m1 \in Modification(T), AtRoot(m1), m1.k = "insert_node", NEW i, i = m1.p[1],
         NEW q \in Modification(T), AtRoot(q), q.k = "insert_node"
  PROVE  SwapFromRoot(m1, Under(i, q)) = Swapped(q, Under(q.p[1], m1))
<1> DEFINE m2 == Under(i, q)
<1>1. i \in Nat
  BY ShortPath
<1>2. m2.p[1] = i /\ ~AtRoot(m2)
  BY <1>1, UnderFacts, ZenonT(30)
<1>2b. Below(m2) = q
  BY <1>1, BelowUnder
<1> HIDE DEF m2
<1>3. [m2 EXCEPT !.p = Tail(@)] = q
  BY <1>2b DEF Below, WithPath
<1>4. SwapFromRoot(m1, m2) = Swapped(q, Under(q.p[1], m1))
  BY <1>2, <1>3 DEF SwapFromRoot
<1> QED BY <1>4 DEF m2

LEMMA TakesOut ==
  ASSUME NEW T, NEW m1 \in Modification(T), NEW m2 \in Modification(T), AtRoot(m2),
         m2.k = "remove_node", NEW i, i = m2.p[1]
  PROVE  SwapToRoot(Under(i, m1), m2) = Swapped(m2, m1)
<1> DEFINE v == Under(i, m1)
<1>1. i \in Nat
  BY ShortPath
<1>2. v.p[1] = i
  BY <1>1, UnderFacts, ZenonT(30)
<1>2b. Below(v) = m1
  BY <1>1, BelowUnder
<1> HIDE DEF v
<1>3. [v EXCEPT !.p = Tail(@)] = m1
  BY <1>2b DEF Below, WithPath
<1>4. SwapToRoot(v, m2) = Swapped(m2, m1)
  BY <1>2, <1>3 DEF SwapToRoot
<1> QED BY <1>4 DEF v

(* s1 wraps the node that s2 is in: twice,                                 *)
LEMMA WrappedTwiceReturns ==
  ASSUME NEW T, NEW s1 \in Modification(T), AtRoot(s1), s1.k = "insert_node", NEW i, i = s1.p[1],
         NEW q \in Modification(T), AtRoot(q), q.k = "insert_node",
         NEW r, r = SwapFromRoot(s1, Under(i, q))
  PROVE  Returns(T, s1, Under(i, q), r)
<1> DEFINE j == q.p[1]
           s2 == Under(i, q)
           f == Under(j, s1)
<1>1. j \in Nat
  BY ShortPath
<1>2. r = Swapped(q, f)
  BY NestedWraps
<1>3. SwapFromRoot(q, f) = Swapped(s1, s2)
  BY NestedWraps
<1>4. f \in Modification(T)
  BY <1>1, UnderFacts
<1> HIDE DEF j, s2, f
<1>5. IsPair(T, q, f)
  BY <1>4 DEF IsPair, IsForked
<1>6. SwapStripped(q, f) = Swapped(s1, s2)
  BY <1>3, StrippedIs
<1>7. Returns(T, s1, s2, Swapped(q, f))
  BY <1>5, <1>6, Straight
<1> QED BY <1>2, <1>7 DEF s2

(* or once                                                                 *)
LEMMA WrappedReturns ==
  ASSUME NEW T, IsTrees(T), NEW s1 \in Modification(T), AtRoot(s1), s1.k = "insert_node",
         NEW q \in Modification(T), IsSolid(q), NEW i, i = s1.p[1], NEW s2, s2 = Under(i, q),
         ~(q.k = "insert_node" /\ AtRoot(q))
  PROVE  Returns(T, s1, s2, Swapped(q, s1))
<1>2. IsPair(T, q, s1)
  BY DEF IsPair, IsForked
<1>3. CASE ~AtRoot(q)
  <2>1. ASSUME NEW x, x = SwapStripped(q, s1), x.ok PROVE x = Swapped(s1, s2)
    <3>1. x = SwapToRoot(q, s1)
      BY <1>3, <2>1, StrippedIs
    <3>2. x = Swapped(s1, Under(s1.p[1], q))
      BY <2>1, <3>1, ToWrap
    <3> QED BY <3>2
  <2> QED BY <2>1, <1>2, Straight
<1>4. CASE AtRoot(q) /\ q.k = "remove_node"
  <2> DEFINE j == q.p[1]
             y == Under(j, s1)
  <2>1. j \in Nat
    BY <1>4, ShortPath
  <2>2. SwapToRoot(y, q) = Swapped(q, s1)
    BY <1>4, TakesOut
  <2>3. y \in Modification(T) /\ ~AtRoot(y)
    BY <2>1, UnderFacts
  <2>6. ASSUME NEW x, x = SwapStripped(q, s1), x.ok PROVE x = Swapped(y, q)
    <3>1. x = SwapFromRoot(q, s1)
      BY <1>4, <2>6, StrippedIs
    <3> QED BY <3>1, <2>6, <1>4, FromUnwrap
  <2> HIDE DEF j, y
  <2>4. SwapStripped(y, q) = Swapped(q, s1)
    BY <2>2, <2>3, <1>4, StrippedIs
  <2>5. IsPair(T, y, q)
    BY <2>3, <1>4 DEF IsPair, IsForked
  <2>7. GoesBack(T, s1, s2, q, s1)
    BY <2>4, <2>5, <2>6 DEF GoesBack
  <2> QED BY <2>7, <1>2 DEF Returns
<1>5. CASE AtRoot(q) /\ q.k # "remove_node"
  <2>1. ASSUME NEW x, x = SwapStripped(q, s1), x.ok PROVE x = Swapped(s1, s2)
    <3>1. x = SwapFromRoot(q, s1)
      BY <1>5, <2>1, StrippedIs
    <3>2. CASE q.k \in ListKinds
      <4>1. ListAt(T, q, q.p[1], OldLen(q), Growth(q))
        BY <1>5, <3>2, ListForm
      <4>2. x = Swapped(s1, Under(s1.p[1], q))
        BY <3>1, <2>1, <4>1, FromList DEF ListKinds
      <4> QED BY <4>2
    <3>3. CASE q.k \in LabelKinds
      <4>1. LabelGives(q, s1, x)
        BY <3>1, <2>1, <3>3, FromLabel
      <4>2. ~(q = s1) /\ ~(~AtRoot(s1))
        BY <3>3 DEF LabelKinds
      <4> QED BY <4>1, <4>2 DEF LabelGives
    <3>4. CASE q.k = "set_cursor"
      BY <3>1, <2>1, <3>4, FromCursor
    <3>5. q.k \in Kinds
      BY ModFacts
    <3> QED BY <3>2, <3>3, <3>4, <3>5, <1>5 DEF Kinds, ListKinds, LabelKinds
  <2> QED BY <2>1, <1>2, Straight
<1> QED BY <1>3, <1>4, <1>5

LEMMA SolidDeep ==
  ASSUME NEW T, NEW m \in Modification(T), NEW h \in Seq(Nat)
  PROVE  IsSolid(Deep(h, m)) <=> IsSolid(m)
<1> DEFINE v == Deep(h, m)
<1>1. /\ v.k = m.k /\ v.t = m.t
      /\ Extra(m.k) # 0 => Argument(v) = Argument(m)
  BY DeepFacts
<1>2. m.k = "remove" => Extra(m.k) # 0
  BY DEF Extra
<1> HIDE DEF v
<1>3. IsSolid(v) <=> IsSolid(m)
  BY <1>1, <1>2 DEF IsSolid
<1> QED BY <1>3 DEF v

LEMMA SolidUnder ==
  ASSUME NEW T, NEW m \in Modification(T), NEW i \in Nat, IsSolid(Under(i, m))
  PROVE  IsSolid(m)
<1>1. Under(i, m) = Deep(<<i>>, m) /\ <<i>> \in Seq(Nat)
  BY UnderFacts
<1> QED BY <1>1, SolidDeep, ZenonT(30)

(* s1 at the root: it changes a label,                                     *)
LEMMA LabelReturns ==
  ASSUME NEW T, NEW s1 \in Modification(T), AtRoot(s1), s1.k \in LabelKinds,
         NEW s2 \in Modification(T), NEW w, w = SwapFromRoot(s1, s2), w.ok
  PROVE  Returns(T, s1, s2, w)
<1>1. LabelGives(s1, s2, w)
  BY FromLabel
<1>2. IsPair(T, s1, s2) /\ IsPair(T, s2, s1)
  BY DEF IsPair, IsForked
<1>3. CASE w = Swapped(s1, s2)
  <2>1. w = SwapStripped(s1, s2)
    BY StrippedIs
  <2> QED BY <1>2, <1>3, <2>1, Straight
<1>4. CASE AtRoot(s2) /\ s2.k = "insert_node" /\ w = Swapped(s2, Under(s2.p[1], s1))
  <2>1. ~(s1.k = "insert_node" /\ AtRoot(s1))
    BY DEF LabelKinds
  <2> QED BY <1>4, <2>1, WrapReturns
<1>5. CASE s1.k = "assign_node" /\ ~AtRoot(s2) /\ w = Swapped(s2, s1)
  <2>1. ASSUME NEW x, x = SwapStripped(s2, s1), x.ok PROVE x = Swapped(s1, s2)
    <3>1. x = SwapToRoot(s2, s1)
      BY <1>5, <2>1, StrippedIs
    <3>2. s1.k \in StillKinds
      BY <1>5 DEF StillKinds
    <3> QED BY <3>1, <3>2, <2>1, ToSame
  <2> QED BY <1>2, <1>5, <2>1, Straight
<1> QED BY <1>1, <1>3, <1>4, <1>5 DEF LabelGives

(* it changes a list of children,                                          *)
LEMMA ListReturns ==
  ASSUME NEW T, IsTrees(T), NEW s1 \in Modification(T), AtRoot(s1), s1.k \in ListKinds, IsSolid(s1),
         NEW s2 \in Modification(T), IsSolid(s2), NEW w, w = SwapFromRoot(s1, s2), w.ok
  PROVE  Returns(T, s1, s2, w)
<1> DEFINE i == s1.p[1]
           n == OldLen(s1)
           g == Growth(s1)
<1>1. ListAt(T, s1, i, n, g)
  BY ListForm
<1> HIDE DEF i, n, g
<1>2. CASE ~AtRoot(s2)
  <2> DEFINE j == s2.p[1]
             q == Below(s2)
  <2>1. j \in Nat /\ q \in Modification(T) /\ s2 = Under(j, q)
    BY <1>2, BelowFacts
  <2> HIDE DEF j, q
  <2> QED BY <1>1, <2>1, ListDeepReturns
<1>3. CASE AtRoot(s2) /\ s2.k \in ListKinds
  <2> DEFINE b == s2.p[1]
             m == OldLen(s2)
             e == Growth(s2)
  <2>1. ListAt(T, s2, b, m, e)
    BY <1>3, ListForm
  <2> HIDE DEF b, m, e
  <2> QED BY <1>1, <2>1, ListsReturn
<1>4. CASE AtRoot(s2) /\ s2.k = "insert_node" /\ w = Swapped(s2, Under(s2.p[1], s1))
  <2>1. ~(s1.k = "insert_node" /\ AtRoot(s1))
    BY DEF ListKinds
  <2> QED BY <1>4, <2>1, WrapReturns
<1>5. \/ ~AtRoot(s2)
      \/ s2.k \in ListKinds
      \/ s2.k = "insert_node" /\ w = Swapped(s2, Under(s2.p[1], s1))
  BY <1>1, FromList
<1> QED BY <1>2, <1>3, <1>4, <1>5

(* it wraps, takes out, or sets the cursor.                                *)
PointKinds == {"insert_node", "remove_node", "set_cursor"}

LEMMA PointReturns ==
  ASSUME NEW T, IsTrees(T), NEW s1 \in Modification(T), AtRoot(s1), s1.k \in PointKinds,
         NEW s2 \in Modification(T), IsSolid(s2), NEW w, w = SwapFromRoot(s1, s2), w.ok
  PROVE  Returns(T, s1, s2, w)
<1> DEFINE i == s1.p[1]
<1>1. i \in Nat
  BY ShortPath DEF PointKinds
<1>2. CASE s1.k = "insert_node"
  <2> DEFINE q == Below(s2)
  <2>1. /\ ~AtRoot(s2) /\ s2.p[1] = i
        /\ ~(Below(s2).k = "insert_node" /\ AtRoot(Below(s2))) => w = Swapped(Below(s2), s1)
    BY <1>2, FromWrap
  <2>2. q \in Modification(T) /\ s2 = Under(i, q)
    BY <2>1, BelowFacts
  <2>3. IsSolid(q)
    <3> HIDE DEF i, q
    <3>1. IsSolid(Under(i, q))
      BY <2>2
    <3> QED BY <1>1, <2>2, <3>1, SolidUnder
  <2>4. CASE q.k = "insert_node" /\ AtRoot(q)
    <3> HIDE DEF q
    <3> QED BY <1>2, <2>2, <2>4, WrappedTwiceReturns
  <2>5. CASE ~(q.k = "insert_node" /\ AtRoot(q))
    <3>1. w = Swapped(q, s1)
      BY <2>1, <2>5
    <3> HIDE DEF q
    <3> QED BY <1>2, <2>2, <2>3, <2>5, <3>1, WrappedReturns
  <2> QED BY <2>4, <2>5
<1>3. CASE s1.k = "remove_node"
  <2> DEFINE f == Under(i, s2)
  <2>1. w = Swapped(f, s1)
    BY <1>3, FromUnwrap
  <2>2. f \in Modification(T) /\ ~AtRoot(f)
    BY <1>1, UnderFacts
  <2>3. SwapToRoot(f, s1) = Swapped(s1, s2)
    BY <1>3, TakesOut
  <2> HIDE DEF i, f
  <2>4. SwapStripped(f, s1) = Swapped(s1, s2)
    BY <2>2, <2>3, StrippedIs
  <2>5. IsPair(T, f, s1)
    BY <2>2 DEF IsPair, IsForked
  <2> QED BY <2>1, <2>4, <2>5, Straight
<1>4. CASE s1.k = "set_cursor"
  <2>1. (~AtRoot(s2) \/ s2.k \in {"join", "split", "assign_node"}) /\ w = Swapped(s2, s1)
    BY <1>4, FromCursor
  <2>2. IsPair(T, s2, s1)
    BY DEF IsPair, IsForked
  <2>3. ASSUME NEW x, x = SwapStripped(s2, s1), x.ok PROVE x = Swapped(s1, s2)
    <3>1. CASE ~AtRoot(s2)
      <4>1. x = SwapToRoot(s2, s1)
        BY <3>1, <2>3, StrippedIs
      <4>2. s1.k \in StillKinds
        BY <1>4 DEF StillKinds
      <4> QED BY <4>1, <4>2, <2>3, ToSame
    <3>2. CASE AtRoot(s2)
      <4>1. x = SwapFromRoot(s2, s1)
        BY <3>2, <2>3, StrippedIs
      <4>2. CASE s2.k \in ListKinds
        <5>1. ListAt(T, s2, s2.p[1], OldLen(s2), Growth(s2))
          BY <3>2, <4>2, ListForm
        <5>2. s1.k \in ListKinds \/ s1.k = "insert_node"
          BY <4>1, <2>3, <5>1, FromList
        <5> QED BY <5>2, <1>4 DEF ListKinds
      <4>3. CASE s2.k = "assign_node"
        <5>1. s2.k \in LabelKinds
          BY <4>3 DEF LabelKinds
        <5>2. LabelGives(s2, s1, x)
          BY <4>1, <5>1, <2>3, FromLabel
        <5> QED BY <5>2, <1>4, <4>3 DEF LabelGives
      <4> QED BY <2>1, <3>2, <4>2, <4>3 DEF ListKinds
    <3> QED BY <3>1, <3>2
  <2> QED BY <2>1, <2>2, <2>3, Straight
<1> QED BY <1>2, <1>3, <1>4 DEF PointKinds

(* s2 at the root and s1 below it                                          *)
LEMMA UpReturns ==
  ASSUME NEW T, IsTrees(T), NEW s1 \in Modification(T), ~AtRoot(s1),
         NEW s2 \in Modification(T), AtRoot(s2), IsSolid(s2), NEW w, w = SwapToRoot(s1, s2), w.ok
  PROVE  Returns(T, s1, s2, w)
<1> DEFINE j == s1.p[1]
           q == Below(s1)
<1>1. j \in Nat /\ q \in Modification(T) /\ s1 = Under(j, q)
  BY BelowFacts
<1>2. s2.k \in Kinds
  BY ModFacts
<1>3. CASE s2.k = "assign"
  BY <1>3 DEF SwapToRoot, NoSwap
<1>4. CASE s2.k \in ListKinds
  <2> DEFINE i == s2.p[1]
             n == OldLen(s2)
             g == Growth(s2)
  <2>1. ListAt(T, s2, i, n, g)
    BY <1>4, ListForm
  <2> HIDE DEF i, n, g, j, q
  <2> QED BY <1>1, <2>1, DeepListReturns
<1>5. CASE s2.k \in StillKinds
  <2>1. w = Swapped(s2, s1)
    BY <1>5, ToSame
  <2>2. IsPair(T, s2, s1)
    BY DEF IsPair, IsForked
  <2>3. ASSUME NEW x, x = SwapStripped(s2, s1), x.ok PROVE x = Swapped(s1, s2)
    <3>1. x = SwapFromRoot(s2, s1)
      BY <2>3, StrippedIs
    <3>2. CASE s2.k = "assign_node"
      <4>1. s2.k \in LabelKinds
        BY <3>2 DEF LabelKinds
      <4>2. LabelGives(s2, s1, x)
        BY <3>1, <4>1, <2>3, FromLabel
      <4> QED BY <4>2 DEF LabelGives
    <3>3. CASE s2.k = "set_cursor"
      BY <3>1, <3>3, <2>3, FromCursor
    <3> QED BY <1>5, <3>2, <3>3 DEF StillKinds
  <2> QED BY <2>1, <2>2, <2>3, Straight
<1>6. CASE s2.k = "insert_node"
  <2>1. w = Swapped(s2, Under(s2.p[1], s1))
    BY <1>6, ToWrap
  <2> QED BY <1>6, <2>1, WrapReturns
<1>7. CASE s2.k = "remove_node"
  <2>1. j = s2.p[1] /\ w = Swapped(s2, q)
    BY <1>7, ToUnwrap
  <2>2. IsPair(T, s2, q)
    BY <1>1 DEF IsPair, IsForked
  <2>3. ASSUME NEW x, x = SwapStripped(s2, q), x.ok PROVE x = Swapped(s1, s2)
    <3>1. x = SwapFromRoot(s2, q)
      BY <2>3, StrippedIs
    <3>2. x = Swapped(Under(s2.p[1], q), s2)
      <4> HIDE DEF q
      <4> QED BY <1>7, <3>1, <2>3, FromUnwrap
    <3> HIDE DEF j, q
    <3> QED BY <3>2, <2>1, <1>1
  <2> HIDE DEF j, q
  <2> QED BY <2>1, <2>2, <2>3, Straight
<1> QED BY <1>2, <1>3, <1>4, <1>5, <1>6, <1>7 DEF Kinds, ListKinds, StillKinds

(* Where swapping back leads, whatever the answer to a pair is.            *)
LEMMA StrippedReturns ==
  ASSUME NEW T, IsTrees(T), NEW s1, NEW s2, IsPair(T, s1, s2), IsSolid(s1), IsSolid(s2),
         NEW w, w = SwapStripped(s1, s2), w.ok
  PROVE  Returns(T, s1, s2, w)
<1>1. s1 \in Modification(T) /\ s2 \in Modification(T)
  BY DEF IsPair
<1>2. CASE AtRoot(s1)
  <2>1. w = SwapFromRoot(s1, s2)
    BY <1>2, StrippedIs
  <2>2. s1.k \in Kinds
    BY <1>1, ModFacts
  <2>3. CASE s1.k \in LabelKinds
    BY <1>1, <1>2, <2>1, <2>3, LabelReturns
  <2>4. CASE s1.k \in ListKinds
    BY <1>1, <1>2, <2>1, <2>4, ListReturns
  <2>5. CASE s1.k \in PointKinds
    BY <1>1, <1>2, <2>1, <2>5, PointReturns
  <2> QED BY <2>2, <2>3, <2>4, <2>5 DEF Kinds, ListKinds, LabelKinds, PointKinds
<1>3. CASE ~AtRoot(s1) /\ AtRoot(s2)
  <2>1. w = SwapToRoot(s1, s2)
    BY <1>3, StrippedIs
  <2> QED BY <1>1, <1>3, <2>1, UpReturns
<1>4. CASE ~AtRoot(s1) /\ ~AtRoot(s2)
  <2>1. w = Swapped(s2, s1) /\ SwapStripped(s2, s1) = Swapped(s1, s2)
    BY <1>4, StrippedIs
  <2>2. IsPair(T, s2, s1)
    BY DEF IsPair, IsForked
  <2> QED BY <2>1, <2>2, Straight
<1> QED BY <1>2, <1>3, <1>4

(* Which answers can be swapped back                                       *)

(* A list edit whose swap is not cut off at once is swapped by Swap1.      *)
LEMMA MeetsFree ==
  ASSUME NEW m1, NEW m2, m1.k \in ListKinds, m2.p # <<>>, NEW i, i = m1.p[1], NEW b, b = m2.p[1],
         Meeting(m1, m2, i, b) => AtRoot(m2) /\ ((m2.k = "insert" /\ b = i) \/ m2.k = "insert_node"),
         m1.k = "join" => ~(AtRoot(m2) /\ m2.k = "insert_node" /\ b = i),
         \A d : Swap1(m1, m2, i, d).ok
  PROVE  SwapFromRoot(m1, m2).ok
<1>1. CASE m1.k = "insert"
  <2> DEFINE S == i .. i + Arity(m1.t) - 1
  <2>1. b \in S => AtRoot(m2) /\ ((m2.k = "insert" /\ b = i) \/ m2.k = "insert_node")
    BY <1>1 DEF Meeting
  <2> QED BY <1>1, <2>1 DEF SwapFromRoot
<1>2. CASE m1.k = "remove"
  BY <1>2 DEF SwapFromRoot
<1>3. CASE m1.k = "split"
  <2>1. b \in {i, i + 1} => AtRoot(m2) /\ ((m2.k = "insert" /\ b = i) \/ m2.k = "insert_node")
    BY <1>3 DEF Meeting
  <2> QED BY <1>3, <2>1 DEF SwapFromRoot
<1>4. CASE m1.k = "join"
  <2>1. b = i => AtRoot(m2) /\ m2.k = "insert"
    BY <1>4 DEF Meeting
  <2> QED BY <1>4, <2>1 DEF SwapFromRoot
<1> QED BY <1>1, <1>2, <1>3, <1>4 DEF ListKinds

(* An edit of a list and an edit deeper pass each other when the place of  *)
(* the deeper one is not among those that the first one changes.           *)
LEMMA ListDeepAccepts ==
  ASSUME NEW T, NEW m1, NEW i, NEW n, NEW g, ListAt(T, m1, i, n, g),
         NEW q \in Modification(T), NEW j \in Nat, j < i \/ i + (n + g) <= j
  PROVE  SwapFromRoot(m1, Under(j, q)).ok
<1> DEFINE m2 == Under(j, q)
<1>1. m2.p # <<>> /\ m2.p[1] = j /\ ~AtRoot(m2)
  BY UnderFacts, ZenonT(30)
<1>2. /\ m1.k \in ListKinds /\ i = m1.p[1] /\ i \in Nat /\ n \in Nat /\ g \in Int /\ n + g \in Nat
      /\ g = Growth(m1)
  BY DEF ListAt
<1>3. ~Meeting(m1, m2, i, j)
  BY <1>2, MeetingIs
<1> HIDE DEF m2
<1>4. \A d : Swap1(m1, m2, i, d).ok
  BY <1>1 DEF Swap1, Swapped
<1>5. SwapFromRoot(m1, m2).ok
  BY <1>1, <1>2, <1>3, <1>4, MeetsFree
<1> QED BY <1>5 DEF m2

LEMMA DeepListAccepts ==
  ASSUME NEW T, NEW m1, NEW i, NEW n, NEW g, ListAt(T, m1, i, n, g),
         NEW q \in Modification(T), NEW j \in Nat, j < i \/ i + n <= j
  PROVE  SwapToRoot(Under(j, q), m1).ok
<1> DEFINE m2 == Under(j, q)
<1>1. m2.p[1] = j
  BY UnderFacts, ZenonT(30)
<1>2. /\ m1.k \in ListKinds /\ i = m1.p[1] /\ i \in Nat /\ n \in Nat /\ n = OldLen(m1)
  BY DEF ListAt
<1> HIDE DEF m2
<1>3. \A d : Swap2(m2, m1, i, d).ok
  BY DEF Swap2, Swapped
<1>4. CASE m1.k = "insert"
  BY <1>2, <1>3, <1>4 DEF SwapToRoot, m2
<1>5. CASE m1.k = "remove"
  <2> DEFINE c == m1.p[2]
  <2>1. n = c
    BY <1>2, <1>5 DEF OldLen
  <2> HIDE DEF c
  <2>2. j \notin i .. i + c - 1
    BY <1>2, <2>1
  <2> QED BY <1>1, <1>2, <1>3, <1>5, <2>2 DEF SwapToRoot, c, m2
<1>6. CASE m1.k = "split"
  <2>1. n = 1
    BY <1>2, <1>6 DEF OldLen
  <2>2. j # i
    BY <1>2, <2>1
  <2> QED BY <1>1, <1>2, <1>3, <1>6, <2>2 DEF SwapToRoot, m2
<1>7. CASE m1.k = "join"
  <2>1. n = 2
    BY <1>2, <1>7 DEF OldLen
  <2>2. j \notin {i, i + 1}
    BY <1>2, <2>1
  <2> QED BY <1>1, <1>2, <1>3, <1>7, <2>2 DEF SwapToRoot, m2
<1> QED BY <1>2, <1>4, <1>5, <1>6, <1>7 DEF ListKinds

LEMMA ListsAccept ==
  ASSUME NEW T, NEW m1, NEW i, NEW n, NEW g, ListAt(T, m1, i, n, g),
         NEW m2, NEW b, NEW m, NEW e, ListAt(T, m2, b, m, e),
         b + m <= i \/ i + (n + g) <= b
  PROVE  SwapFromRoot(m1, m2).ok
<1>1. /\ m1.k \in ListKinds /\ i = m1.p[1] /\ i \in Nat /\ n \in Nat /\ g \in Int /\ n + g \in Nat
      /\ g = Growth(m1) /\ (n + g = 0 <=> m1.k = "remove")
  BY DEF ListAt
<1>2. /\ m2.k \in ListKinds /\ m2.p # <<>> /\ b = m2.p[1] /\ b \in Nat /\ m = OldLen(m2) /\ m \in Nat
      /\ AtRoot(m2) /\ (m = 0 <=> m2.k = "insert")
  BY DEF ListAt
<1>a. /\ i <= b /\ b < i + (n + g) => m = 0 /\ b = i
      /\ \A c : c = m /\ b <= i /\ i < b + c => b = i /\ n + g = 0
      /\ b = i - 1 => m # 2
  <2> DEFINE l == n + g
  <2>1. i \in Nat /\ b \in Nat /\ m \in Nat /\ l \in Nat /\ (b + m <= i \/ i + l <= b)
    BY <1>1, <1>2
  <2> HIDE DEF l
  <2>2. /\ i <= b /\ b < i + l => m = 0 /\ b = i
        /\ b <= i /\ i < b + m => b = i /\ l = 0
        /\ b = i - 1 => m # 2
    BY <2>1
  <2> QED BY <2>2 DEF l
<1>3. Meeting(m1, m2, i, b) => m2.k = "insert" /\ b = i
  BY <1>1, <1>2, <1>a, MeetingIs
<1>4. /\ m2.k = "remove" => m = m2.p[2]
      /\ m2.k = "split"  => m = 1
      /\ m2.k = "join"   => m = 2
  BY <1>2 DEF OldLen
<1>5. \A d : Swap1(m1, m2, i, d).ok
  <2>1. CASE m2.k = "insert"
    BY <1>2, <2>1 DEF Swap1, Swapped
  <2>2. CASE m2.k = "remove"
    <3> DEFINE c == m2.p[2]
    <3>1. ~(b <= i /\ i < b + c /\ (b # i \/ m1.k # "remove"))
      <4>1. c = m
        BY <1>4, <2>2
      <4> HIDE DEF c
      <4> QED BY <4>1, <1>1, <1>a
    <3> QED BY <1>2, <2>2, <3>1 DEF Swap1, Swapped
  <2>3. CASE m2.k = "split"
    BY <1>2, <2>3 DEF Swap1, Swapped
  <2>4. CASE m2.k = "join"
    <3>1. b # i - 1
      BY <1>4, <1>a, <2>4
    <3> QED BY <1>2, <2>4, <3>1 DEF Swap1, Swapped
  <2> QED BY <1>2, <2>1, <2>2, <2>3, <2>4 DEF ListKinds
<1> QED BY <1>1, <1>2, <1>3, <1>5, MeetsFree

LEMMA FewAccept ==
  ASSUME NEW T, NEW m1, NEW m2 \in Modification(T)
  PROVE  /\ m2.k \in StillKinds \cup {"insert_node"} => SwapToRoot(m1, m2).ok
         /\ m1.k \in StillKinds /\ ~AtRoot(m2) => SwapFromRoot(m1, m2).ok
         /\ m1.k = "remove_node" => SwapFromRoot(m1, m2).ok
<1>1. m2.k \in StillKinds \cup {"insert_node"} => SwapToRoot(m1, m2).ok
  <2>1. CASE m2.k = "assign_node"
    BY <2>1 DEF SwapToRoot, Swapped
  <2>2. CASE m2.k = "set_cursor"
    BY <2>2 DEF SwapToRoot, Swapped
  <2>3. CASE m2.k = "insert_node"
    BY <2>3 DEF SwapToRoot, Swapped
  <2> QED BY <2>1, <2>2, <2>3 DEF StillKinds
<1>2. m1.k \in StillKinds /\ ~AtRoot(m2) => SwapFromRoot(m1, m2).ok
  <2> SUFFICES ASSUME ~AtRoot(m2) PROVE m1.k \in StillKinds => SwapFromRoot(m1, m2).ok
    OBVIOUS
  <2>1. CASE m1.k = "assign_node"
    BY <2>1 DEF SwapFromRoot, Swapped
  <2>2. CASE m1.k = "set_cursor"
    BY <2>2 DEF SwapFromRoot, Swapped
  <2> QED BY <2>1, <2>2 DEF StillKinds
<1>3. m1.k = "remove_node" => SwapFromRoot(m1, m2).ok
  BY DEF SwapFromRoot, Swapped
<1> QED BY <1>1, <1>2, <1>3

LEMMA WrapAccepts ==
  ASSUME NEW T, NEW m1, m1.k = "insert_node", NEW i \in Nat, i = m1.p[1], NEW q \in Modification(T)
  PROVE  SwapFromRoot(m1, Under(i, q)).ok
<1> DEFINE m2 == Under(i, q)
<1>1. m2.p[1] = i /\ ~AtRoot(m2)
  BY UnderFacts, ZenonT(30)
<1> HIDE DEF m2
<1>2. SwapFromRoot(m1, m2).ok
  BY <1>1 DEF SwapFromRoot, Swapped
<1> QED BY <1>2 DEF m2

LEMMA BeforeWrapAccepts ==
  ASSUME NEW T, NEW m1, m1.k \in LabelKinds \cup ListKinds,
         NEW m2 \in Modification(T), AtRoot(m2), m2.k = "insert_node",
         m1.k = "join" => m1.p[1] # m2.p[1]
  PROVE  SwapFromRoot(m1, m2).ok
<1>1. m2.p # <<>>
  BY ShortPath
<1>2. CASE m1.k \in LabelKinds
  <2>1. m1 # m2
    BY <1>2 DEF LabelKinds
  <2>2. CASE m1.k = "assign"
    BY <2>1, <2>2 DEF SwapFromRoot, Swapped
  <2>3. CASE m1.k = "assign_node"
    BY <2>1, <2>3 DEF SwapFromRoot, Swapped
  <2> QED BY <1>2, <2>2, <2>3 DEF LabelKinds
<1>3. CASE m1.k \in ListKinds
  <2> DEFINE i == m1.p[1]
             b == m2.p[1]
  <2>1. \A d : Swap1(m1, m2, i, d).ok
    BY DEF Swap1, Swapped
  <2>2. i = m1.p[1] /\ b = m2.p[1]
    OBVIOUS
  <2>3. m1.k = "join" => b # i
    OBVIOUS
  <2> HIDE DEF i, b
  <2>4. Meeting(m1, m2, i, b) => AtRoot(m2) /\ ((m2.k = "insert" /\ b = i) \/ m2.k = "insert_node")
    OBVIOUS
  <2> QED BY <1>1, <1>3, <2>1, <2>2, <2>3, <2>4, MeetsFree
<1> QED BY <1>2, <1>3

(* The answer w can be swapped back.                                       *)
Accepts(w) == SwapStripped(w.first, w.second).ok

LEMMA AcceptsIs ==
  ASSUME NEW f, NEW g
  PROVE  Accepts(Swapped(f, g)) <=> SwapStripped(f, g).ok
BY AnswerFacts DEF Accepts

(* It can when s1 changes a label,                                         *)
LEMMA LabelAccepts ==
  ASSUME NEW T, NEW s1 \in Modification(T), AtRoot(s1), s1.k \in LabelKinds,
         NEW s2 \in Modification(T), NEW w, w = SwapFromRoot(s1, s2), w.ok
  PROVE  Accepts(w)
<1>1. LabelGives(s1, s2, w)
  BY FromLabel
<1>2. CASE w = Swapped(s1, s2)
  <2>1. SwapStripped(s1, s2).ok
    BY StrippedIs
  <2> QED BY <1>2, <2>1, AcceptsIs
<1>3. CASE AtRoot(s2) /\ s2.k = "insert_node" /\ w = Swapped(s2, Under(s2.p[1], s1))
  <2> DEFINE i == s2.p[1]
  <2>1. i \in Nat /\ i = s2.p[1]
    BY <1>3, ShortPath
  <2> HIDE DEF i
  <2>2. SwapFromRoot(s2, Under(i, s1)).ok
    BY <1>3, <2>1, WrapAccepts
  <2>3. SwapStripped(s2, Under(i, s1)).ok
    BY <1>3, <2>2, StrippedIs
  <2> QED BY <1>3, <2>1, <2>3, AcceptsIs
<1>4. CASE s1.k = "assign_node" /\ ~AtRoot(s2) /\ w = Swapped(s2, s1)
  <2>1. SwapToRoot(s2, s1).ok
    BY <1>4, FewAccept DEF StillKinds
  <2>2. SwapStripped(s2, s1).ok
    BY <1>4, <2>1, StrippedIs
  <2> QED BY <1>4, <2>2, AcceptsIs
<1> QED BY <1>1, <1>2, <1>3, <1>4 DEF LabelGives

(* when it changes a list of children,                                     *)
LEMMA ListAccepts ==
  ASSUME NEW T, IsTrees(T), NEW s1 \in Modification(T), AtRoot(s1), s1.k \in ListKinds, IsSolid(s1),
         NEW s2 \in Modification(T), IsSolid(s2), NEW w, w = SwapFromRoot(s1, s2), w.ok
  PROVE  Accepts(w)
<1> DEFINE i == s1.p[1]
           n == OldLen(s1)
           g == Growth(s1)
<1>1. ListAt(T, s1, i, n, g)
  BY ListForm
<1>1b. i \in Nat /\ n \in Nat /\ g \in Int /\ n + g \in Nat
  BY <1>1 DEF ListAt
<1> HIDE DEF i, n, g
<1>2. CASE ~AtRoot(s2)
  <2> DEFINE j == s2.p[1]
             q == Below(s2)
  <2>1. j \in Nat /\ q \in Modification(T) /\ s2 = Under(j, q)
    BY <1>2, BelowFacts
  <2> HIDE DEF j, q
  <2>2. \/ j < i /\ w = Swapped(Under(j, q), s1)
        \/ i + (n + g) <= j /\ j - g \in Nat /\ w = Swapped(Under(j - g, q), s1)
    BY <1>1, <2>1, ListDeepGoes
  <2>3. ASSUME NEW l \in Nat, l < i \/ i + n <= l, w = Swapped(Under(l, q), s1)
        PROVE  Accepts(w)
    <3>1. SwapToRoot(Under(l, q), s1).ok
      BY <1>1, <2>1, <2>3, DeepListAccepts
    <3>2. ~AtRoot(Under(l, q))
      BY <2>1, UnderFacts
    <3>3. SwapStripped(Under(l, q), s1).ok
      BY <3>1, <3>2, StrippedIs
    <3> QED BY <2>3, <3>3, AcceptsIs
  <2>4. i + (n + g) <= j => i + n <= j - g
    BY <1>1b, <2>1
  <2> QED BY <2>1, <2>2, <2>3, <2>4
<1>3. CASE AtRoot(s2) /\ s2.k \in ListKinds
  <2> DEFINE b == s2.p[1]
             m == OldLen(s2)
             e == Growth(s2)
  <2>1. ListAt(T, s2, b, m, e)
    BY <1>3, ListForm
  <2>1b. b \in Nat /\ m \in Nat /\ e \in Int /\ m + e \in Nat
    BY <2>1 DEF ListAt
  <2> HIDE DEF b, m, e
  <2>2. \/ b + m <= i /\ w = Swapped(s2, Shift(s1, e))
        \/ i + (n + g) <= b /\ w = Swapped(Shift(s2, -g), s1)
    BY <1>1, <2>1, ListsGo
  <2>3. CASE b + m <= i /\ w = Swapped(s2, Shift(s1, e))
    <3>1. i + e \in Nat /\ b + (m + e) <= i + e
      BY <1>1b, <2>1b, <2>3
    <3>2. ListAt(T, Shift(s1, e), i + e, n, g)
      BY <1>1, <2>1b, <3>1, ListShift
    <3>3. SwapFromRoot(s2, Shift(s1, e)).ok
      BY <2>1, <3>1, <3>2, ListsAccept
    <3>4. SwapStripped(s2, Shift(s1, e)).ok
      BY <1>3, <3>3, StrippedIs
    <3> QED BY <2>3, <3>4, AcceptsIs
  <2>4. CASE i + (n + g) <= b /\ w = Swapped(Shift(s2, -g), s1)
    <3>1. b + (-g) \in Nat /\ i + n <= b + (-g) /\ -g \in Int
      BY <1>1b, <2>1b, <2>4
    <3>2. ListAt(T, Shift(s2, -g), b + (-g), m, e)
      BY <2>1, <3>1, ListShift
    <3>3. SwapFromRoot(Shift(s2, -g), s1).ok
      BY <1>1, <3>1, <3>2, ListsAccept
    <3>4. SwapStripped(Shift(s2, -g), s1).ok
      <4>1. AtRoot(Shift(s2, -g))
        BY <3>2 DEF ListAt
      <4> QED BY <4>1, <3>3, StrippedIs
    <3> QED BY <2>4, <3>4, AcceptsIs
  <2> QED BY <2>2, <2>3, <2>4
<1>4. CASE AtRoot(s2) /\ s2.k = "insert_node" /\ w = Swapped(s2, Under(s2.p[1], s1))
  <2> DEFINE b == s2.p[1]
  <2>1. b \in Nat /\ b = s2.p[1]
    BY <1>4, ShortPath
  <2> HIDE DEF b
  <2>2. SwapFromRoot(s2, Under(b, s1)).ok
    BY <1>4, <2>1, WrapAccepts
  <2>3. SwapStripped(s2, Under(b, s1)).ok
    BY <1>4, <2>2, StrippedIs
  <2> QED BY <1>4, <2>1, <2>3, AcceptsIs
<1>5. \/ ~AtRoot(s2)
      \/ s2.k \in ListKinds
      \/ s2.k = "insert_node" /\ w = Swapped(s2, Under(s2.p[1], s1))
  BY <1>1, FromList
<1> QED BY <1>2, <1>3, <1>4, <1>5

(* Where an edit of the children of the node that m1 wraps has its root.   *)
LEMMA WrappedRoot ==
  ASSUME NEW T, NEW m1 \in Modification(T), AtRoot(m1), m1.k = "insert_node", NEW i, i = m1.p[1],
         NEW q \in Modification(T), AtRoot(q), NEW m2, m2 = Under(i, q)
  PROVE  Root(m2) = m1.p /\ (q.k = "join" => Index(m2) = q.p[1] /\ Index(m1) = i)
<1>1. /\ m1.p \in Seq(Nat) /\ Len(m1.p) = Extra(m1.k)
      /\ Extra(m1.k) # 0 => Index(m1) = m1.p[1] /\ m1.p[1] \in Nat
  BY RootForm
<1>2. Extra(m1.k) = 1 /\ (q.k = "join" => Extra(q.k) # 0)
  BY DEF Extra
<1>3. i \in Nat /\ Index(m1) = i /\ m1.p = << i >>
  BY <1>1, <1>2
<1>4. Root(m2) = << i >> \o Root(q) /\ m2 = Deep(<< i >>, q) /\ << i >> \in Seq(Nat)
  <2>1. i \in Nat
    BY <1>3
  <2>2. Root(m2) = << i >> \o Root(q) /\ m2 = Deep(<< i >>, q)
    BY <2>1, UnderFacts, ZenonT(30)
  <2> QED BY <2>1, <2>2
<1>5. Root(q) = << >>
  BY DEF AtRoot
<1>6. Root(m2) = << i >>
  BY <1>4, <1>5
<1>7. q.k = "join" => Index(m2) = Index(q) /\ Index(q) = q.p[1]
  <2> DEFINE h == << i >>
  <2>1. h \in Seq(Nat) /\ m2 = Deep(h, q)
    BY <1>4
  <2> HIDE DEF h
  <2>2. q.k = "join" => Index(m2) = Index(q)
    BY <1>2, <2>1, DeepFacts
  <2>3. Extra(q.k) # 0 => Index(q) = q.p[1]
    BY RootForm
  <2> QED BY <1>2, <2>2, <2>3
<1> QED BY <1>3, <1>6, <1>7

(* when it wraps, takes out, or sets the cursor, but for the pairs that    *)
(* are refused,                                                            *)
LEMMA PointAccepts ==
  ASSUME NEW T, NEW s1 \in Modification(T), AtRoot(s1), s1.k \in PointKinds,
         NEW s2 \in Modification(T), ~RefusesBack(s1, s2),
         NEW w, w = SwapFromRoot(s1, s2), w.ok
  PROVE  Accepts(w)
<1> DEFINE i == s1.p[1]
<1>1. i \in Nat /\ i = s1.p[1]
  BY ShortPath DEF PointKinds
<1> HIDE DEF i
<1>2. CASE s1.k = "insert_node"
  <2> DEFINE q == Below(s2)
  <2>1. /\ ~AtRoot(s2) /\ s2.p[1] = i
        /\ ~(q.k = "insert_node" /\ AtRoot(q)) => w = Swapped(q, s1)
    BY <1>1, <1>2, FromWrap
  <2>2. q \in Modification(T) /\ q.k = s2.k /\ s2 = Under(i, q)
    BY <2>1, BelowFacts
  <2> HIDE DEF q
  <2>3. CASE q.k = "insert_node" /\ AtRoot(q)
    <3> DEFINE j == q.p[1]
    <3>1. j \in Nat /\ j = q.p[1]
      BY <2>2, <2>3, ShortPath
    <3>2. w = Swapped(q, Under(j, s1))
      BY <1>1, <1>2, <2>2, <2>3, NestedWraps
    <3> HIDE DEF j
    <3>3. SwapFromRoot(q, Under(j, s1)).ok
      BY <2>3, <3>1, WrapAccepts
    <3>4. SwapStripped(q, Under(j, s1)).ok
      BY <2>3, <3>3, StrippedIs
    <3> QED BY <3>2, <3>4, AcceptsIs
  <2>4. CASE ~AtRoot(q)
    <3>1. w = Swapped(q, s1)
      BY <2>1, <2>4
    <3>2. SwapToRoot(q, s1).ok
      BY <1>2, FewAccept
    <3>3. SwapStripped(q, s1).ok
      BY <2>4, <3>2, StrippedIs
    <3> QED BY <3>1, <3>3, AcceptsIs
  <2>5. CASE AtRoot(q) /\ q.k # "insert_node"
    <3>1. w = Swapped(q, s1)
      BY <2>1, <2>5
    <3>2. Root(s2) = s1.p /\ (q.k = "join" => Index(s2) = q.p[1] /\ Index(s1) = i)
      BY <1>1, <1>2, <2>2, <2>5, WrappedRoot
    <3>3. q.k # "set_cursor" /\ (q.k = "join" => q.p[1] # s1.p[1])
      BY <1>1, <1>2, <2>2, <3>2 DEF RefusesBack
    <3>4. q.k \in Kinds
      BY <2>2, ModFacts
    <3>5. CASE q.k = "remove_node"
      <4>1. SwapFromRoot(q, s1).ok
        BY <3>5, FewAccept
      <4>2. SwapStripped(q, s1).ok
        BY <2>5, <4>1, StrippedIs
      <4> QED BY <3>1, <4>2, AcceptsIs
    <3>6. CASE q.k \in LabelKinds \cup ListKinds
      <4>1. SwapFromRoot(q, s1).ok
        BY <1>2, <3>3, <3>6, BeforeWrapAccepts
      <4>2. SwapStripped(q, s1).ok
        BY <2>5, <4>1, StrippedIs
      <4> QED BY <3>1, <4>2, AcceptsIs
    <3> QED BY <2>5, <3>3, <3>4, <3>5, <3>6 DEF Kinds, LabelKinds, ListKinds
  <2> QED BY <2>3, <2>4, <2>5
<1>3. CASE s1.k = "remove_node"
  <2>1. w = Swapped(Under(i, s2), s1) /\ ~AtRoot(Under(i, s2))
    <3>1. w = Swapped(Under(i, s2), s1)
      BY <1>1, <1>3, FromUnwrap
    <3>2. ~AtRoot(Under(i, s2))
      BY <1>1, UnderFacts
    <3> QED BY <3>1, <3>2
  <2>2. SwapToRoot(Under(i, s2), s1).ok
    BY <1>1, <1>3, TakesOut, AnswerFacts
  <2>3. SwapStripped(Under(i, s2), s1).ok
    BY <2>1, <2>2, StrippedIs
  <2> QED BY <2>1, <2>3, AcceptsIs
<1>4. CASE s1.k = "set_cursor"
  <2>1. (~AtRoot(s2) \/ s2.k \in {"join", "split", "assign_node"}) /\ w = Swapped(s2, s1)
    BY <1>4, FromCursor
  <2>2. ~AtRoot(s2)
    BY <1>4, <2>1 DEF RefusesBack, AtRoot
  <2>3. SwapToRoot(s2, s1).ok
    BY <1>4, FewAccept DEF StillKinds
  <2>4. SwapStripped(s2, s1).ok
    BY <2>2, <2>3, StrippedIs
  <2> QED BY <2>1, <2>4, AcceptsIs
<1> QED BY <1>2, <1>3, <1>4 DEF PointKinds

(* and when s2 is at the root and s1 below it.                             *)
LEMMA UpAccepts ==
  ASSUME NEW T, IsTrees(T), NEW s1 \in Modification(T), ~AtRoot(s1),
         NEW s2 \in Modification(T), AtRoot(s2), IsSolid(s2), NEW w, w = SwapToRoot(s1, s2), w.ok
  PROVE  Accepts(w)
<1> DEFINE j == s1.p[1]
           q == Below(s1)
<1>1. j \in Nat /\ q \in Modification(T) /\ s1 = Under(j, q)
  BY BelowFacts
<1>2. s2.k \in Kinds
  BY ModFacts
<1> HIDE DEF j
<1>3. CASE s2.k = "assign"
  BY <1>3 DEF SwapToRoot, NoSwap
<1>4. CASE s2.k \in ListKinds
  <2> DEFINE i == s2.p[1]
             n == OldLen(s2)
             g == Growth(s2)
  <2>1. ListAt(T, s2, i, n, g)
    BY <1>4, ListForm
  <2>2. i \in Nat /\ n \in Nat /\ g \in Int /\ n + g \in Nat
    BY <2>1 DEF ListAt
  <2> HIDE DEF i, n, g, q
  <2>3. \/ j < i /\ w = Swapped(s2, Under(j, q))
        \/ i + n <= j /\ j + g \in Nat /\ w = Swapped(s2, Under(j + g, q))
    BY <1>1, <2>1, DeepListGoes
  <2>4. ASSUME NEW l \in Nat, l < i \/ i + (n + g) <= l, w = Swapped(s2, Under(l, q))
        PROVE  Accepts(w)
    <3>1. SwapFromRoot(s2, Under(l, q)).ok
      BY <1>1, <2>1, <2>4, ListDeepAccepts
    <3>2. SwapStripped(s2, Under(l, q)).ok
      BY <3>1, StrippedIs
    <3> QED BY <2>4, <3>2, AcceptsIs
  <2>5. i + n <= j => i + (n + g) <= j + g
    BY <1>1, <2>2
  <2> QED BY <1>1, <2>3, <2>4, <2>5
<1>5. CASE s2.k \in StillKinds
  <2>1. w = Swapped(s2, s1)
    BY <1>5, ToSame
  <2>2. SwapFromRoot(s2, s1).ok
    BY <1>5, FewAccept
  <2>3. SwapStripped(s2, s1).ok
    BY <2>2, StrippedIs
  <2> QED BY <2>1, <2>3, AcceptsIs
<1>6. CASE s2.k = "insert_node"
  <2> DEFINE i == s2.p[1]
  <2>1. i \in Nat /\ i = s2.p[1]
    BY <1>6, ShortPath
  <2>2. w = Swapped(s2, Under(i, s1))
    BY <1>6, ToWrap
  <2> HIDE DEF i
  <2>3. SwapFromRoot(s2, Under(i, s1)).ok
    BY <1>6, <2>1, WrapAccepts
  <2>4. SwapStripped(s2, Under(i, s1)).ok
    BY <2>3, StrippedIs
  <2> QED BY <2>2, <2>4, AcceptsIs
<1>7. CASE s2.k = "remove_node"
  <2>1. w = Swapped(s2, q)
    BY <1>7, ToUnwrap
  <2> HIDE DEF q
  <2>2. SwapFromRoot(s2, q).ok
    BY <1>1, <1>7, FewAccept
  <2>3. SwapStripped(s2, q).ok
    BY <2>2, StrippedIs
  <2> QED BY <2>1, <2>3, AcceptsIs
<1> QED BY <1>2, <1>3, <1>4, <1>5, <1>6, <1>7 DEF Kinds, ListKinds, StillKinds

(* Every answer to a pair that is not named can be swapped back.           *)
LEMMA StrippedAccepts ==
  ASSUME NEW T, IsTrees(T), NEW s1, NEW s2, IsPair(T, s1, s2), IsSolid(s1), IsSolid(s2),
         ~RefusesBack(s1, s2), NEW w, w = SwapStripped(s1, s2), w.ok
  PROVE  Accepts(w)
<1>1. s1 \in Modification(T) /\ s2 \in Modification(T)
  BY DEF IsPair
<1>2. CASE AtRoot(s1)
  <2>1. w = SwapFromRoot(s1, s2)
    BY <1>2, StrippedIs
  <2>2. s1.k \in Kinds
    BY <1>1, ModFacts
  <2>3. CASE s1.k \in LabelKinds
    BY <1>1, <1>2, <2>1, <2>3, LabelAccepts
  <2>4. CASE s1.k \in ListKinds
    BY <1>1, <1>2, <2>1, <2>4, ListAccepts
  <2>5. CASE s1.k \in PointKinds
    BY <1>1, <1>2, <2>1, <2>5, PointAccepts
  <2> QED BY <2>2, <2>3, <2>4, <2>5 DEF Kinds, ListKinds, LabelKinds, PointKinds
<1>3. CASE ~AtRoot(s1) /\ AtRoot(s2)
  <2>1. w = SwapToRoot(s1, s2)
    BY <1>3, StrippedIs
  <2> QED BY <1>1, <1>3, <2>1, UpAccepts
<1>4. CASE ~AtRoot(s1) /\ ~AtRoot(s2)
  <2>1. w = Swapped(s2, s1) /\ SwapStripped(s2, s1).ok
    BY <1>4, StrippedIs, AnswerFacts
  <2> QED BY <2>1, AcceptsIs
<1> QED BY <1>2, <1>3, <1>4

(* Swapping deep in a tree is swapping where the paths part.               *)
LEMMA PathParts ==
  ASSUME NEW h \in Seq(Nat), NEW q \in Seq(Nat), NEW l, l = Len(h)
  PROVE  Prefix(h \o q, l) = h /\ Drop(h \o q, l) = q
<1> DEFINE p == h \o q
           a == Prefix(p, l)
           b == Drop(p, l)
           k == Len(q)
<1>1. /\ p \in Seq(Nat) /\ Len(p) = l + k /\ l \in Nat /\ k \in Nat
      /\ \A n \in 1 .. l : p[n] = h[n]
      /\ \A n \in 1 .. k : p[l + n] = q[n]
  BY LongPath
<1>2. a = Prefix(p, l)
  OBVIOUS
<1>3. Len(q) = k
  OBVIOUS
<1> HIDE DEF p, a, b, k
<1>4. a \in Seq(Nat) /\ Len(a) = l /\ \A n \in 1 .. l : a[n] = h[n]
  <2>1. l \in 0 .. Len(p) /\ a = Prefix(p, l)
    BY <1>1, <1>2 DEF Prefix
  <2>2. a \in Seq(Nat) /\ Len(a) = l /\ \A n \in 1 .. l : a[n] = p[n]
    BY <2>1, <1>1, PrefixFacts
  <2> QED BY <2>2, <1>1
<1>5. b \in Seq(Nat) /\ Len(b) = k /\ \A n \in 1 .. k : b[n] = q[n]
  <2>1. b \in Seq(Nat) /\ a \o b = p
    <3>1. l \in 0 .. Len(p)
      BY <1>1
    <3> QED BY <3>1, <1>1, CutFacts DEF a, b
  <2>2. Len(p) = Len(a) + Len(b) /\ \A n \in 1 .. Len(b) : p[Len(a) + n] = b[n]
    BY <1>4, <2>1, LongPath, ZenonT(30)
  <2> DEFINE x == Len(b)
  <2>3. x \in Nat /\ x = Len(b)
    BY <2>1
  <2> HIDE DEF x
  <2>4. x = k
    BY <2>2, <2>3, <1>1, <1>4, SMTT(20)
  <2> QED BY <2>1, <2>2, <2>3, <2>4, <1>1, <1>4
<1>6. a = h
  BY <1>4, SeqEqual
<1>7. b = q
  BY <1>3, <1>5, SeqEqual
<1> QED BY <1>6, <1>7 DEF p, a, b

LEMMA DeepCommon ==
  ASSUME NEW T, NEW f, NEW g, IsPair(T, f, g), NEW h \in Seq(Nat), NEW l, l = Len(h)
  PROVE  CommonDepth(Deep(h, f), Deep(h, g)) = l
<1> DEFINE F == Deep(h, f)
           G == Deep(h, g)
           n == CommonDepth(F, G)
           rf == Len(Root(f))
           rg == Len(Root(g))
<1>1. f \in Modification(T) /\ g \in Modification(T) /\ IsForked(f, g) /\ l \in Nat
  BY DEF IsPair
<1>2. /\ F \in Modification(T) /\ F.p = h \o f.p /\ Root(F) = h \o Root(f)
      /\ G \in Modification(T) /\ G.p = h \o g.p /\ Root(G) = h \o Root(g)
  BY <1>1, DeepFacts
<1>3. /\ f.p \in Seq(Nat) /\ Root(f) \in Seq(Nat) /\ rf \in Nat /\ rf <= Len(f.p)
      /\ g.p \in Seq(Nat) /\ Root(g) \in Seq(Nat) /\ rg \in Nat /\ rg <= Len(g.p)
  <2>1. \A m \in Modification(T) : /\ m.p \in Seq(Nat) /\ Root(m) \in Seq(Nat)
                                   /\ Len(Root(m)) \in Nat /\ Len(Root(m)) <= Len(m.p)
    BY RootLength
  <2> QED BY <1>1, <2>1
<1>4. (rf = 0 => AtRoot(f)) /\ (rg = 0 => AtRoot(g))
  BY <1>3 DEF AtRoot
<1>5. /\ Len(Root(F)) = l + rf /\ Len(Root(G)) = l + rg
      /\ \A k \in 1 .. l : F.p[k] = h[k] /\ G.p[k] = h[k]
      /\ \A k \in 1 .. Len(f.p) : F.p[l + k] = f.p[k]
      /\ \A k \in 1 .. Len(g.p) : G.p[l + k] = g.p[k]
  <2>1. Len(Root(F)) = l + rf /\ Len(Root(G)) = l + rg
    BY <1>2, <1>3, LongPath
  <2>2. /\ \A k \in 1 .. l : F.p[k] = h[k]
        /\ \A k \in 1 .. Len(f.p) : F.p[l + k] = f.p[k]
    <3>1. f.p \in Seq(Nat) /\ F.p = h \o f.p
      BY <1>2, <1>3
    <3> HIDE DEF F
    <3> QED BY <3>1, LongPath
  <2>3. /\ \A k \in 1 .. l : G.p[k] = h[k]
        /\ \A k \in 1 .. Len(g.p) : G.p[l + k] = g.p[k]
    <3>1. g.p \in Seq(Nat) /\ G.p = h \o g.p
      BY <1>2, <1>3
    <3> HIDE DEF G
    <3> QED BY <3>1, LongPath
  <2> QED BY <2>1, <2>2, <2>3
<1> HIDE DEF F, G
<1>6. n = CommonDepth(F, G)
  OBVIOUS
<1> HIDE DEF n
<1>7. /\ n \in 0 .. Len(Root(F)) /\ n \in 0 .. Len(Root(G)) /\ Prefix(F.p, n) = Prefix(G.p, n)
      /\ n < Len(Root(F)) /\ n < Len(Root(G)) => F.p[n + 1] # G.p[n + 1]
  <2>1. F \in Modification(T) /\ G \in Modification(T)
    BY <1>2
  <2> QED BY <2>1, <1>6, CommonFacts
<1>8. n \in 0 .. l + rf /\ n \in 0 .. l + rg
  BY <1>5, <1>7
<1>9. n < l => n + 1 \in 1 .. l
  BY <1>1, <1>8
<1>10. n < l => n < l + rf /\ n < l + rg
  BY <1>1, <1>3, <1>8
<1>11. ~(n < l)
  BY <1>5, <1>7, <1>9, <1>10
<1>12. ASSUME n > l PROVE FALSE
  <2>1. rf > 0 /\ rg > 0 /\ 1 \in 1 .. Len(f.p) /\ 1 \in 1 .. Len(g.p) /\ l + 1 \in 1 .. n
    <3> DEFINE lf == Len(f.p)
               lg == Len(g.p)
    <3>1. lf \in Nat /\ lg \in Nat
      BY <1>3
    <3>2. rf <= lf /\ rg <= lg
      BY <1>3
    <3>4. rf \in Nat /\ rg \in Nat
      BY <1>3
    <3> HIDE DEF lf, lg, rf, rg
    <3>3. rf > 0 /\ rg > 0 /\ 1 \in 1 .. lf /\ 1 \in 1 .. lg /\ l + 1 \in 1 .. n
      BY <3>1, <3>2, <3>4, <1>1, <1>8, <1>12
    <3> QED BY <3>3 DEF lf, lg
  <2>2. F.p[l + 1] = f.p[1] /\ G.p[l + 1] = g.p[1]
    BY <1>5, <2>1
  <2>3. F.p[l + 1] = G.p[l + 1]
    <3>1. \A m \in Modification(T) : \A k \in 0 .. Len(Root(m)) : k \in 0 .. Len(m.p)
      <4> SUFFICES ASSUME NEW m \in Modification(T), NEW k \in 0 .. Len(Root(m))
                   PROVE  k \in 0 .. Len(m.p)
        OBVIOUS
      <4>1. Len(Root(m)) \in 0 .. Len(m.p) /\ Len(m.p) \in Nat
        BY RootLength
      <4> QED BY <4>1
    <3>2. n \in 0 .. Len(F.p) /\ n \in 0 .. Len(G.p) /\ F.p \in Seq(Nat) /\ G.p \in Seq(Nat)
      BY <1>2, <1>7, <3>1, ModFacts
    <3>3. Prefix(F.p, n)[l + 1] = F.p[l + 1] /\ Prefix(G.p, n)[l + 1] = G.p[l + 1]
      BY <3>2, <2>1, PrefixFacts
    <3> QED BY <3>3, <1>7
  <2> QED BY <2>1, <2>2, <2>3, <1>1, <1>4 DEF IsForked, AtRoot
<1>13. n = l
  BY <1>1, <1>8, <1>11, <1>12
<1> QED BY <1>13 DEF n, F, G

LEMMA DeepStrips ==
  ASSUME NEW T, NEW m \in Modification(T), NEW h \in Seq(Nat), NEW l, l = Len(h)
  PROVE  Prefix(Deep(h, m).p, l) = h /\ WithPath(Deep(h, m), Drop(Deep(h, m).p, l)) = m
<1> DEFINE v == Deep(h, m)
<1>1. v \in Modification(T) /\ v.k = m.k /\ v.p = h \o m.p /\ v.t = m.t
  BY DeepFacts
<1>2. m.p \in Seq(Nat) /\ Len(m.p) >= Extra(m.k)
  BY DEF Modification
<1>3. Prefix(v.p, l) = h /\ Drop(v.p, l) = m.p
  BY <1>1, <1>2, PathParts
<1> HIDE DEF v
<1> DEFINE s == WithPath(v, m.p)
<1>4. s \in Modification(T) /\ s.k = m.k /\ s.p = m.p /\ s.t = m.t
  BY <1>1, <1>2, WithPathFacts
<1> HIDE DEF s
<1>5. s = m
  BY <1>4, SameMod
<1> QED BY <1>3, <1>5 DEF s, v

(* What swap answers to f and g deep in a tree, from w, its answer to them.*)
LEMMA SwapDeep ==
  ASSUME NEW T, NEW f, NEW g, IsPair(T, f, g), NEW h \in Seq(Nat),
         NEW w, w = SwapStripped(f, g)
  PROVE  SwapMods(Deep(h, f), Deep(h, g)) =
           IF w.ok THEN Swapped(Deep(h, w.first), Deep(h, w.second)) ELSE NoSwap
<1> DEFINE l == Len(h)
           F == Deep(h, f)
           G == Deep(h, g)
<1>1. f \in Modification(T) /\ g \in Modification(T)
  BY DEF IsPair
<1>2. CommonDepth(F, G) = l
  BY DeepCommon
<1>3. Prefix(F.p, l) = h /\ WithPath(F, Drop(F.p, l)) = f /\ WithPath(G, Drop(G.p, l)) = g
  BY <1>1, DeepStrips
<1> HIDE DEF l, F, G
<1>4. SwapMods(F, G) = IF w.ok THEN Swapped(Deep(h, w.first), Deep(h, w.second)) ELSE NoSwap
  BY <1>2, <1>3, SwapSteps
<1> QED BY <1>4 DEF F, G

LEMMA PairIn ==
  ASSUME NEW T, NEW m1 \in Modification(T), NEW m2 \in Modification(T)
  PROVE  \E h \in Seq(Nat) : \E f, g : IsPair(T, f, g) /\ m1 = Deep(h, f) /\ m2 = Deep(h, g)
<1> DEFINE n == CommonDepth(m1, m2)
           h == Prefix(m1.p, n)
           f == WithPath(m1, Drop(m1.p, n))
           g == WithPath(m2, Drop(m2.p, n))
<1>0. n = CommonDepth(m1, m2)
  OBVIOUS
<1> HIDE DEF n
<1>1. /\ n \in 0 .. Len(Root(m1)) /\ n \in 0 .. Len(Root(m2)) /\ h = Prefix(m2.p, n)
      /\ n < Len(Root(m1)) /\ n < Len(Root(m2)) => m1.p[n + 1] # m2.p[n + 1]
  BY <1>0, CommonFacts
<1>2. h = Prefix(m1.p, n) /\ f = WithPath(m1, Drop(m1.p, n)) /\ g = WithPath(m2, Drop(m2.p, n))
  OBVIOUS
<1> HIDE DEF h, f, g
<1>3. /\ f \in Modification(T) /\ h \in Seq(Nat) /\ m1 = Deep(h, f)
      /\ AtRoot(f) <=> n = Len(Root(m1))
      /\ n < Len(Root(m1)) => f.p[1] = m1.p[n + 1]
  <2>1. f = WithPath(m1, Drop(m1.p, n)) /\ h = Prefix(m1.p, n)
    BY <1>2
  <2> QED BY <1>1, <2>1, StripFacts
<1>4. /\ g \in Modification(T) /\ m2 = Deep(h, g)
      /\ AtRoot(g) <=> n = Len(Root(m2))
      /\ n < Len(Root(m2)) => g.p[1] = m2.p[n + 1]
  <2>1. g = WithPath(m2, Drop(m2.p, n))
    BY <1>2
  <2> QED BY <1>1, <2>1, StripFacts
<1>5. IsForked(f, g)
  <2> SUFFICES ASSUME ~AtRoot(f), ~AtRoot(g) PROVE f.p[1] # g.p[1]
    BY DEF IsForked
  <2>1. n < Len(Root(m1)) /\ n < Len(Root(m2))
    <3>1. Len(Root(m1)) \in Nat /\ Len(Root(m2)) \in Nat
      BY RootLength
    <3> QED BY <3>1, <1>1, <1>3, <1>4
  <2> QED BY <2>1, <1>1, <1>3, <1>4
<1>6. IsPair(T, f, g)
  BY <1>3, <1>4, <1>5 DEF IsPair
<1> QED BY <1>3, <1>4, <1>6

(* A pair that is refused where the paths part is refused deep in a tree.  *)
LEMMA RefusedDeep ==
  ASSUME NEW T, NEW f \in Modification(T), NEW g \in Modification(T), NEW h \in Seq(Nat),
         RefusesBack(f, g)
  PROVE  RefusesBack(Deep(h, f), Deep(h, g))
<1> DEFINE F == Deep(h, f)
           G == Deep(h, g)
<1>1. /\ F.k = f.k /\ F.p = h \o f.p /\ Root(F) = h \o Root(f)
      /\ Extra(f.k) # 0 => Index(F) = Index(f)
  BY DeepFacts
<1>2. /\ G.k = g.k /\ Root(G) = h \o Root(g)
      /\ Extra(g.k) # 0 => Index(G) = Index(g)
  BY DeepFacts
<1>3. (f.k = "insert_node" => Extra(f.k) # 0) /\ (g.k = "join" => Extra(g.k) # 0)
  BY DEF Extra
<1> HIDE DEF F, G
<1>4. RefusesBack(F, G)
  BY <1>1, <1>2, <1>3 DEF RefusesBack
<1> QED BY <1>4 DEF F, G

(* Two modifications that were swapped can be swapped back, but for the    *)
(* named pairs, and are then as before, or from then on the first two      *)
(* orders take turns (commute.cpp:426).                                    *)
LEMMA SwapsReturn ==
  ASSUME NEW T, IsTrees(T), NEW m1 \in Modification(T), NEW m2 \in Modification(T),
         IsSolid(m1), IsSolid(m2), NEW s, s = SwapMods(m1, m2), s.ok,
         NEW b, b = SwapMods(s.first, s.second)
  PROVE  /\ RefusesBack(m1, m2) \/ b.ok
         /\ b.ok => b = Swapped(m1, m2) \/ SwapMods(b.first, b.second) = s
<1>1. PICK h \in Seq(Nat) : \E f, g : IsPair(T, f, g) /\ m1 = Deep(h, f) /\ m2 = Deep(h, g)
  BY PairIn
<1>2. PICK f, g : IsPair(T, f, g) /\ m1 = Deep(h, f) /\ m2 = Deep(h, g)
  BY <1>1
<1>3. IsSolid(f) /\ IsSolid(g)
  BY <1>2, SolidDeep DEF IsPair
<1> DEFINE w == SwapStripped(f, g)
<1>4. w = SwapStripped(f, g)
  OBVIOUS
<1> HIDE DEF w
<1>5. s = IF w.ok THEN Swapped(Deep(h, w.first), Deep(h, w.second)) ELSE NoSwap
  BY <1>2, <1>4, SwapDeep
<1>6. w.ok /\ s = Swapped(Deep(h, w.first), Deep(h, w.second))
  BY <1>5 DEF NoSwap
<1>7. Returns(T, f, g, w)
  BY <1>2, <1>3, <1>4, <1>6, StrippedReturns
<1>8. PICK y, z : w = Swapped(y, z) /\ IsPair(T, y, z) /\ GoesBack(T, f, g, y, z)
  BY <1>7 DEF Returns
<1>9. w.first = y /\ w.second = z
  BY <1>8, AnswerFacts
<1>10. s = Swapped(Deep(h, y), Deep(h, z))
  BY <1>6, <1>9
<1>11. s.first = Deep(h, y) /\ s.second = Deep(h, z)
  BY <1>10, AnswerFacts
<1> DEFINE x == SwapStripped(y, z)
<1>12. x = SwapStripped(y, z)
  OBVIOUS
<1> HIDE DEF x
<1>13. b = IF x.ok THEN Swapped(Deep(h, x.first), Deep(h, x.second)) ELSE NoSwap
  BY <1>8, <1>11, <1>12, SwapDeep
<1>a. RefusesBack(m1, m2) \/ b.ok
  <2> SUFFICES ASSUME ~RefusesBack(m1, m2) PROVE b.ok
    OBVIOUS
  <2>1. ~RefusesBack(f, g)
    BY <1>2, RefusedDeep DEF IsPair
  <2>2. Accepts(w)
    BY <1>2, <1>3, <1>4, <1>6, <2>1, StrippedAccepts
  <2>3. x.ok
    BY <1>8, <1>12, <2>2, AcceptsIs
  <2> QED BY <1>13, <2>3, AnswerFacts
<1>b. SUFFICES ASSUME b.ok PROVE b = Swapped(m1, m2) \/ SwapMods(b.first, b.second) = s
  BY <1>a
<1>14. x.ok /\ b = Swapped(Deep(h, x.first), Deep(h, x.second))
  BY <1>13, <1>b DEF NoSwap
<1>15. \/ x = Swapped(f, g)
       \/ \E u, v : x = Swapped(u, v) /\ IsPair(T, u, v) /\ SwapStripped(u, v) = Swapped(y, z)
  BY <1>8, <1>12, <1>14 DEF GoesBack
<1>16. CASE x = Swapped(f, g)
  <2>1. x.first = f /\ x.second = g
    BY <1>16, AnswerFacts
  <2> QED BY <2>1, <1>2, <1>14
<1>17. ASSUME NEW u, NEW v, x = Swapped(u, v), IsPair(T, u, v),
              SwapStripped(u, v) = Swapped(y, z)
       PROVE  SwapMods(b.first, b.second) = s
  <2>1. x.first = u /\ x.second = v
    BY <1>17, AnswerFacts
  <2>2. b.first = Deep(h, u) /\ b.second = Deep(h, v)
    BY <2>1, <1>14, AnswerFacts
  <2>3. SwapMods(Deep(h, u), Deep(h, v)) =
          IF w.ok THEN Swapped(Deep(h, w.first), Deep(h, w.second)) ELSE NoSwap
    BY <1>8, <1>17, SwapDeep
  <2> QED BY <2>2, <2>3, <1>6
<1> QED BY <1>15, <1>16, <1>17

(* Every modification so far inserts or removes something, if it does.     *)
AllSolid == \A i \in 1 .. Len(mods) : IsSolid(mods[i])

(* Whatever two modifications are applied to a finite tree, one after the  *)
(* other: once swapped they can be swapped back, but for the pairs of      *)
(* RefusesBack, and that leads to where one came from, or to a pair that   *)
(* swaps to and fro.  L is any set of labels, and the modifications any    *)
(* that insert or remove something when they insert or remove: with an     *)
(* insertion of nothing the items of the history do drift.                 *)
THEOREM SwapsBack ==
  ASSUME NEW L, Documents \subseteq Trees(L),
         \A t \in Trees(L) : ModsOf(t) \subseteq {m \in Modification(Trees(L)) : IsSolid(m)}
  PROVE  Spec => []SwapBack
<1> DEFINE T == Trees(L)
           I == StepsFit(T) /\ AllSolid
<1>0. IsTrees(T)
  BY TreesAreTrees
<1>m. \A t \in T : ModsOf(t) \subseteq Modification(T) /\ \A m \in ModsOf(t) : IsSolid(m)
  OBVIOUS
<1>d. Documents \subseteq T
  OBVIOUS
<1> HIDE DEF T
<1>1. Init => I
  <2>1. Init => StepsFit(T)
    BY <1>d, FitsAtFirst
  <2>2. Init => AllSolid
    BY DEF Init, AllSolid
  <2> QED BY <2>1, <2>2
<1>2. I /\ [Edit]_vars => I'
  <2> SUFFICES ASSUME StepsFit(T), AllSolid, [Edit]_vars PROVE StepsFit(T)' /\ AllSolid'
    OBVIOUS
  <2>1. StepsFit(T)'
    BY <1>0, <1>m, FitsNext
  <2>2. CASE UNCHANGED vars
    BY <2>1, <2>2 DEF vars, AllSolid
  <2>3. CASE Edit
    <3> DEFINE n == Len(trees)
               t == trees[n]
    <3>1. t \in T /\ mods \in Seq(Modification(T)) /\ Len(mods) \in Nat
      BY DEF StepsFit
    <3>2. PICK m \in ModsOf(t) : mods' = Append(mods, m)
      BY <2>3 DEF Edit
    <3> HIDE DEF t
    <3>3. IsSolid(m) /\ m \in Modification(T)
      BY <3>1, <3>2, <1>m
    <3>4. /\ Len(mods') = Len(mods) + 1 /\ mods'[Len(mods) + 1] = m
          /\ \A i \in 1 .. Len(mods) : mods'[i] = mods[i]
      BY <3>1, <3>2, <3>3
    <3>5. \A i \in 1 .. Len(mods) + 1 : i \in 1 .. Len(mods) \/ i = Len(mods) + 1
      BY <3>1
    <3>6. AllSolid'
      BY <3>3, <3>4, <3>5 DEF AllSolid
    <3> QED BY <2>1, <3>6
  <2> QED BY <2>2, <2>3
<1>3. I => SwapBack
  <2> DEFINE m1 == mods[1]
             m2 == mods[2]
             s == SwapMods(m1, m2)
             b == SwapAgain(s)
             c == SwapAgain(b)
  <2> SUFFICES ASSUME StepsFit(T), AllSolid, Two, s.ok
               PROVE  /\ RefusesBack(m1, m2) \/ b.ok
                      /\ b.ok => \/ <<b.first, b.second>> = mods
                                 \/ c.ok /\ c.first = s.first /\ c.second = s.second
    BY DEF SwapBack
  <2>1. Len(mods) = 2 /\ mods \in Seq(Modification(T))
    BY DEF Two, StepsFit
  <2>2. /\ m1 \in Modification(T) /\ m2 \in Modification(T) /\ mods = <<m1, m2>>
        /\ IsSolid(m1) /\ IsSolid(m2)
    <3>1. 1 \in 1 .. Len(mods) /\ 2 \in 1 .. Len(mods)
      BY <2>1
    <3>2. IsSolid(m1) /\ IsSolid(m2)
      BY <3>1 DEF AllSolid
    <3>3. m1 \in Modification(T) /\ m2 \in Modification(T)
      <4> DEFINE M == Modification(T)
      <4>1. mods \in Seq(M)
        BY <2>1
      <4> HIDE DEF M
      <4>2. mods[1] \in M /\ mods[2] \in M
        BY <3>1, <4>1, ElementOfSeq
      <4> QED BY <4>2 DEF M
    <3>4. mods = << m1, m2 >>
      BY <2>1
    <3> QED BY <3>2, <3>3, <3>4
  <2>3. b = SwapMods(s.first, s.second) /\ c = SwapMods(b.first, b.second) /\ s = SwapMods(m1, m2)
    BY DEF SwapAgain
  <2> HIDE DEF m1, m2, s, b, c
  <2>4. /\ RefusesBack(m1, m2) \/ b.ok
        /\ b.ok => b = Swapped(m1, m2) \/ SwapMods(b.first, b.second) = s
    BY <1>0, <2>2, <2>3, SwapsReturn
  <2>5. CASE b = Swapped(m1, m2)
    <3>1. b.first = m1 /\ b.second = m2
      BY <2>5, AnswerFacts
    <3> QED BY <3>1, <2>2, <2>4
  <2>6. CASE SwapMods(b.first, b.second) = s
    BY <2>3, <2>4, <2>6
  <2> QED BY <2>4, <2>5, <2>6
<1> QED BY <1>1, <1>2, <1>3, PTL DEF Spec
=============================================================================
