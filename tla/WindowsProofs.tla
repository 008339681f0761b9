--------------------------- MODULE WindowsProofs ---------------------------
(***************************************************************************)
(* For any buffers, any windows and any bound on the views: what is shown  *)
(* and what is in use fit, a change is known to be unsaved, and nothing is *)
(* given up without a question, except where the code hides it.            *)
(***************************************************************************)
EXTENDS Windows, SequenceTheorems, TLAPS

W == INSTANCE WellFoundedInduction

-----------------------------------------------------------------------------
(* Induction over an interval, and least elements *)

LEMMA LeastNumber ==
  ASSUME NEW S \in SUBSET Nat, S # {}
  PROVE  \E n \in S : \A m \in S : n <= m
<1>1. PICK n \in S : \A m \in S : ~(<<m, n>> \in W!OpToRel(<, Nat))
  BY W!NatLessThanWellFounded, W!WFMin, Zenon
<1>2. \A m \in S : ~(m < n)
  BY <1>1 DEF W!OpToRel
<1> QED BY <1>2

LEMMA Upwards ==
  ASSUME NEW N \in Nat, NEW S, 0 \in S, \A k \in 0 .. N - 1 : k \in S => k + 1 \in S
  PROVE  0 .. N \subseteq S
<1> DEFINE Bad == {n \in 0 .. N : n \notin S}
<1>1. SUFFICES ASSUME Bad # {} PROVE FALSE
  BY <1>1
<1>2. Bad \in SUBSET Nat
  OBVIOUS
<1>3. PICK n \in Bad : \A m \in Bad : n <= m
  <2> HIDE DEF Bad
  <2> QED BY <1>1, <1>2, LeastNumber
<1>4. n # 0 /\ n - 1 \in 0 .. N - 1 /\ n - 1 \in 0 .. N /\ (n - 1) + 1 = n /\ ~(n <= n - 1)
  BY <1>3
<1>5. n - 1 \notin Bad
  BY <1>3, <1>4
<1>6. n - 1 \in S
  BY <1>4, <1>5
<1> QED BY <1>3, <1>4, <1>6

-----------------------------------------------------------------------------
(* Sequences as sets *)

(* A sequence has no elements only when it is empty, and then no first one *)
(* either.                                                                 *)
LEMMA Emptiness ==
  ASSUME NEW A, NEW s \in Seq(A)
  PROVE  /\ ToSet(s) \subseteq A
         /\ s = <<>> <=> ToSet(s) = {}
         /\ s # <<>> => s[1] \in ToSet(s)
<1>1. DOMAIN s = 1 .. Len(s) /\ Len(s) \in Nat /\ \A i \in 1 .. Len(s) : s[i] \in A
  OBVIOUS
<1>2. s # <<>> => 1 \in 1 .. Len(s)
  BY <1>1
<1>3. s = <<>> => DOMAIN s = {}
  BY <1>1
<1> QED BY <1>1, <1>2, <1>3, Zenon DEF ToSet

LEMMA ElementsOfConcat ==
  ASSUME NEW A, NEW s \in Seq(A), NEW t \in Seq(A)
  PROVE  ToSet(s \o t) = ToSet(s) \cup ToSet(t)
<1>1. /\ DOMAIN s = 1 .. Len(s) /\ DOMAIN t = 1 .. Len(t)
      /\ DOMAIN (s \o t) = 1 .. Len(s) + Len(t)
      /\ Len(s) \in Nat /\ Len(t) \in Nat
      /\ \A i \in 1 .. Len(s) : (s \o t)[i] = s[i]
      /\ \A i \in 1 .. Len(t) : (s \o t)[i + Len(s)] = t[i]
  OBVIOUS
<1>2. ToSet(s \o t) \subseteq ToSet(s) \cup ToSet(t)
  <2> SUFFICES ASSUME NEW i \in 1 .. Len(s) + Len(t)
               PROVE  (s \o t)[i] \in ToSet(s) \cup ToSet(t)
    BY <1>1 DEF ToSet
  <2>1. CASE i \in 1 .. Len(s)
    BY <2>1, <1>1, Zenon DEF ToSet
  <2>2. CASE i \notin 1 .. Len(s)
    <3>1. i - Len(s) \in 1 .. Len(t) /\ i = (i - Len(s)) + Len(s)
      BY <2>2, <1>1
    <3> QED BY <3>1, <1>1, Zenon DEF ToSet
  <2> QED BY <2>1, <2>2
<1>3. ToSet(s) \subseteq ToSet(s \o t)
  <2>1. 1 .. Len(s) \subseteq 1 .. Len(s) + Len(t)
    BY <1>1
  <2> QED BY <2>1, <1>1, Zenon DEF ToSet
<1>4. ToSet(t) \subseteq ToSet(s \o t)
  <2>1. \A i \in 1 .. Len(t) : i + Len(s) \in 1 .. Len(s) + Len(t)
    BY <1>1
  <2> QED BY <2>1, <1>1, Zenon DEF ToSet
<1> QED BY <1>2, <1>3, <1>4

(* Two sequences without repetitions and without common elements, one      *)
(* after the other, have no repetitions.                                   *)
LEMMA ConcatInjective ==
  ASSUME NEW A, NEW s \in Seq(A), NEW t \in Seq(A), IsInjective(s), IsInjective(t),
         ToSet(s) \cap ToSet(t) = {}
  PROVE  IsInjective(s \o t)
<1>1. /\ DOMAIN s = 1 .. Len(s) /\ DOMAIN t = 1 .. Len(t)
      /\ DOMAIN (s \o t) = 1 .. Len(s) + Len(t)
      /\ Len(s) \in Nat /\ Len(t) \in Nat
  OBVIOUS
<1>2. \A i \in 1 .. Len(s) : s[i] \in ToSet(s)
  BY <1>1, Zenon DEF ToSet
<1>3. \A i \in 1 .. Len(t) : t[i] \in ToSet(t)
  BY <1>1, Zenon DEF ToSet
<1> SUFFICES ASSUME NEW i \in 1 .. Len(s) + Len(t), NEW j \in 1 .. Len(s) + Len(t),
                    (s \o t)[i] = (s \o t)[j]
             PROVE  i = j
  BY <1>1, Zenon DEF IsInjective
<1>4. \A k \in 1 .. Len(s) + Len(t) :
        \/ k \in 1 .. Len(s) /\ (s \o t)[k] = s[k]
        \/ k - Len(s) \in 1 .. Len(t) /\ (s \o t)[k] = t[k - Len(s)]
  BY <1>1
<1>5. CASE i \in 1 .. Len(s) /\ j \in 1 .. Len(s)
  <2>1. s[i] = s[j]
    BY <1>5, <1>1
  <2> QED BY <2>1, <1>5, <1>1, Zenon DEF IsInjective
<1>6. CASE i \notin 1 .. Len(s) /\ j \notin 1 .. Len(s)
  <2>1. t[i - Len(s)] = t[j - Len(s)] /\ i - Len(s) \in DOMAIN t /\ j - Len(s) \in DOMAIN t
    BY <1>6, <1>4, <1>1
  <2>2. i - Len(s) = j - Len(s)
    BY <2>1, Zenon DEF IsInjective
  <2> QED BY <2>2, <1>1
<1>7. CASE i \in 1 .. Len(s) /\ j \notin 1 .. Len(s)
  <2>1. (s \o t)[i] \in ToSet(s)
    BY <1>7, <1>2, <1>1
  <2>2. (s \o t)[j] \in ToSet(t)
    BY <1>7, <1>3, <1>4
  <2> QED BY <2>1, <2>2
<1>8. CASE i \notin 1 .. Len(s) /\ j \in 1 .. Len(s)
  <2>1. (s \o t)[j] \in ToSet(s)
    BY <1>8, <1>2, <1>1
  <2>2. (s \o t)[i] \in ToSet(t)
    BY <1>8, <1>3, <1>4
  <2> QED BY <2>1, <2>2
<1> QED BY <1>5, <1>6, <1>7, <1>8

LEMMA AppendFacts ==
  ASSUME NEW A, NEW s \in Seq(A), NEW e \in A
  PROVE  /\ Append(s, e) \in Seq(A)
         /\ ToSet(Append(s, e)) = ToSet(s) \cup {e}
         /\ IsInjective(s) /\ e \notin ToSet(s) => IsInjective(Append(s, e))
<1> DEFINE t == <<e>>
<1>1. t \in Seq(A) /\ Append(s, e) = s \o t /\ Append(s, e) \in Seq(A)
  OBVIOUS
<1>2. DOMAIN t = {1} /\ t[1] = e
  OBVIOUS
<1> HIDE DEF t
<1>3. ToSet(t) = {e} /\ IsInjective(t)
  BY <1>2, Zenon DEF ToSet, IsInjective
<1>4. ToSet(s \o t) = ToSet(s) \cup ToSet(t)
  BY <1>1, ElementsOfConcat
<1>5. ASSUME IsInjective(s), e \notin ToSet(s) PROVE IsInjective(s \o t)
  <2>1. ToSet(s) \cap ToSet(t) = {}
    BY <1>3, <1>5
  <2> QED BY <1>1, <1>3, <1>5, <2>1, ConcatInjective, Zenon
<1> QED BY <1>1, <1>3, <1>4, <1>5

(* The beginning of a sequence without repetitions.                        *)
LEMMA FrontInjective ==
  ASSUME NEW A, NEW s \in Seq(A), IsInjective(s), NEW n \in Nat, n <= Len(s)
  PROVE  /\ SubSeq(s, 1, n) \in Seq(A) /\ Len(SubSeq(s, 1, n)) = n
         /\ IsInjective(SubSeq(s, 1, n))
         /\ ToSet(SubSeq(s, 1, n)) \subseteq ToSet(s)
<1> DEFINE f == SubSeq(s, 1, n)
<1>1. f \in Seq(A) /\ Len(f) = n /\ DOMAIN f = 1 .. n /\ DOMAIN s = 1 .. Len(s)
  OBVIOUS
<1>2. 1 .. n \subseteq DOMAIN s /\ \A i \in 1 .. n : f[i] = s[i]
  OBVIOUS
<1>3. IsInjective(f)
  <2> HIDE DEF f
  <2> QED BY <1>1, <1>2, Zenon DEF IsInjective
<1>4. ToSet(f) \subseteq ToSet(s)
  <2> HIDE DEF f
  <2> QED BY <1>1, <1>2, Zenon DEF ToSet
<1> QED BY <1>1, <1>3, <1>4

-----------------------------------------------------------------------------
(* The function that Keep defines by recursion *)

Kept(s, S, k) ==
  k = [i \in 0 .. Len(s) |->
         IF i = 0 THEN <<>>
         ELSE IF s[i] \in S THEN Append(k[i - 1], s[i]) ELSE k[i - 1]]

LEMMA KeptExists ==
  ASSUME NEW A, NEW s \in Seq(A), NEW S
  PROVE  \E k : Kept(s, S, k)
<1> DEFINE N == Len(s)
           At(n, k) == IF n = 0 THEN <<>>
                       ELSE IF s[n] \in S THEN Append(k[n - 1], s[n]) ELSE k[n - 1]
           Is(m, k) == k = [n \in 0 .. m |-> At(n, k)]
           T == {m \in 0 .. N : \E k : Is(m, k)}
<1>1. N \in Nat
  OBVIOUS
<1>2. 0 \in T
  <2>1. Is(0, [n \in 0 .. 0 |-> <<>>])
    OBVIOUS
  <2>2. 0 \in 0 .. N
    BY <1>1
  <2> HIDE DEF Is
  <2> QED BY <2>1, <2>2, Zenon
<1>3. ASSUME NEW m \in 0 .. N - 1, m \in T PROVE m + 1 \in T
  <2>1. PICK k : Is(m, k)
    BY <1>3
  <2> DEFINE e == [n \in 0 .. m + 1 |-> At(n, k)]
  <2>2. \A n \in 0 .. m : e[n] = k[n]
    <3>1. \A n \in 0 .. m : n \in 0 .. m + 1
      BY <1>1
    <3>2. \A n \in 0 .. m : k[n] = At(n, k)
      BY <2>1
    <3> HIDE DEF At
    <3> QED BY <3>1, <3>2
  <2>3. \A n \in 0 .. m + 1 : n # 0 => n - 1 \in 0 .. m
    BY <1>1
  <2>4. \A n \in 0 .. m + 1 : At(n, k) = At(n, e)
    <3> HIDE DEF e
    <3> QED BY <2>2, <2>3
  <2>5. Is(m + 1, e)
    <3> HIDE DEF At
    <3> QED BY <2>4
  <2>6. m + 1 \in 0 .. N
    BY <1>1
  <2> HIDE DEF Is, e
  <2> QED BY <2>5, <2>6, Zenon
<1>4. 0 .. N \subseteq T
  <2> HIDE DEF T, N
  <2> QED BY <1>1, <1>2, <1>3, Upwards
<1>5. N \in T
  <2> HIDE DEF T, N
  <2> QED BY <1>1, <1>4
<1> QED BY <1>5 DEF Kept

LEMMA KeepIsKept ==
  ASSUME NEW A, NEW s \in Seq(A), NEW S
  PROVE  \E k : Kept(s, S, k) /\ Keep(s, S) = k[Len(s)]
<1> DEFINE c == CHOOSE k : Kept(s, S, k)
<1>1. Kept(s, S, c)
  BY KeptExists, Zenon
<1>2. Keep(s, S) = c[Len(s)]
  BY Zenon DEF Keep, Kept
<1> QED BY <1>1, <1>2, Zenon

(* What is kept: a sequence of the elements that are in S; what had no     *)
(* repetitions has none.                                                   *)
LEMMA KeepFacts ==
  ASSUME NEW A, NEW s \in Seq(A), NEW S
  PROVE  /\ Keep(s, S) \in Seq(A)
         /\ ToSet(Keep(s, S)) = ToSet(s) \cap S
         /\ IsInjective(s) => IsInjective(Keep(s, S))
<1>1. PICK k : Kept(s, S, k) /\ Keep(s, S) = k[Len(s)]
  BY KeepIsKept, Zenon
<1> DEFINE N == Len(s)
           Firsts(n) == {s[i] : i \in 1 .. n}
           T == {n \in 0 .. N : /\ k[n] \in Seq(A)
                                /\ ToSet(k[n]) = Firsts(n) \cap S
                                /\ IsInjective(s) => IsInjective(k[n])}
<1>2. N \in Nat /\ DOMAIN s = 1 .. N /\ \A i \in 1 .. N : s[i] \in A
  OBVIOUS
<1>3. 0 \in T
  <2>1. k[0] = <<>> /\ 0 \in 0 .. N
    BY <1>1, <1>2 DEF Kept
  <2>2. <<>> \in Seq(A) /\ DOMAIN <<>> = {} /\ 1 .. 0 = {}
    OBVIOUS
  <2>3. ToSet(<<>>) = Firsts(0) \cap S
    BY <2>2, Zenon DEF ToSet
  <2>4. IsInjective(<<>>)
    BY <2>2, Zenon DEF IsInjective
  <2> QED BY <2>1, <2>2, <2>3, <2>4
<1>4. ASSUME NEW n \in 0 .. N - 1, n \in T PROVE n + 1 \in T
  <2>1. n + 1 \in 0 .. N /\ n + 1 \in 1 .. N /\ n + 1 # 0 /\ (n + 1) - 1 = n
        /\ 1 .. n + 1 = 1 .. n \cup {n + 1} /\ n + 1 \notin 1 .. n /\ 1 .. n \subseteq 1 .. N
    BY <1>2
  <2>2. k[n + 1] = IF s[n + 1] \in S THEN Append(k[n], s[n + 1]) ELSE k[n]
    <3>1. \A i \in 0 .. N : k[i] = IF i = 0 THEN <<>>
            ELSE IF s[i] \in S THEN Append(k[i - 1], s[i]) ELSE k[i - 1]
      BY <1>1 DEF Kept
    <3> QED BY <3>1, <2>1
  <2>3. Firsts(n + 1) = Firsts(n) \cup {s[n + 1]}
    BY <2>1, Zenon
  <2>4. IsInjective(s) => s[n + 1] \notin Firsts(n)
    BY <2>1, <1>2, Zenon DEF IsInjective
  <2>5. /\ k[n] \in Seq(A) /\ ToSet(k[n]) = Firsts(n) \cap S
        /\ IsInjective(s) => IsInjective(k[n])
    BY <1>4
  <2>6. s[n + 1] \in A
    BY <2>1, <1>2
  <2> HIDE DEF N, Firsts
  <2>7. CASE s[n + 1] \in S
    <3>1. k[n + 1] = Append(k[n], s[n + 1])
      BY <2>7, <2>2
    <3> DEFINE q == k[n]
               e == s[n + 1]
    <3>2. q \in Seq(A) /\ e \in A
      BY <2>5, <2>6
    <3>3. q = k[n] /\ e = s[n + 1]
      OBVIOUS
    <3> HIDE DEF q, e
    <3>4. /\ Append(q, e) \in Seq(A)
          /\ ToSet(Append(q, e)) = ToSet(q) \cup {e}
          /\ IsInjective(q) /\ e \notin ToSet(q) => IsInjective(Append(q, e))
      BY <3>2, AppendFacts
    <3>5. IsInjective(s) => IsInjective(k[n + 1])
      BY <3>1, <3>3, <3>4, <2>4, <2>5
    <3> QED BY <3>1, <3>3, <3>4, <3>5, <2>1, <2>3, <2>5, <2>7
  <2>8. CASE s[n + 1] \notin S
    <3>1. k[n + 1] = k[n]
      BY <2>8, <2>2
    <3> QED BY <3>1, <2>1, <2>3, <2>5, <2>8
  <2> QED BY <2>7, <2>8
<1>5. 0 .. N \subseteq T
  <2> HIDE DEF T, N
  <2> QED BY <1>2, <1>3, <1>4, Upwards
<1>6. N \in T
  <2> HIDE DEF T, N
  <2> QED BY <1>2, <1>5
<1>7. Firsts(N) = ToSet(s)
  BY <1>2, Zenon DEF ToSet
<1> QED BY <1>1, <1>6, <1>7
-----------------------------------------------------------------------------
(* The views that windows get *)

(* The part of TypeOK about views.                                         *)
ViewsFit ==
  /\ ToSet(bufs) \subseteq Buffers
  /\ vws \in [Buffers -> Seq(Views)]
  /\ \A b \in Buffers : IsInjective(vws[b])
  /\ \A b, c \in Buffers : b # c => ViewsOf(b) \cap ViewsOf(c) = {}
  /\ \A b \in Buffers \ ToSet(bufs) : vws[b] = <<>>
  /\ win \in [Views -> wins \cup {NoWin}]
  /\ style \in [Views -> Styles]
  /\ need \subseteq UNION {ViewsOf(b) : b \in Buffers}

LEMMA ViewsFitDefined == TypeOK => ViewsFit
<1>1. TypeOK => ToSet(bufs) \subseteq Buffers
  BY Emptiness DEF TypeOK
<1> QED BY <1>1, Zenon DEF TypeOK, ViewsFit

Unowned(v) == \A c \in Buffers : v \notin ViewsOf(c)

LEMMA PassiveFacts ==
  ASSUME ViewsFit, NEW b \in Buffers
  PROVE  /\ PassiveViews(b) \in Seq(Views) /\ IsInjective(PassiveViews(b))
         /\ ToSet(PassiveViews(b)) = ViewsOf(b) \cap Passive
         /\ ActiveViews(b) \in Seq(Views) /\ IsInjective(ActiveViews(b))
         /\ ToSet(ActiveViews(b)) = ViewsOf(b) \ Passive
<1>1. vws[b] \in Seq(Views) /\ IsInjective(vws[b])
  BY DEF ViewsFit
<1>2. ViewsOf(b) \subseteq Views
  BY <1>1, Emptiness DEF ViewsOf
<1>3. /\ PassiveViews(b) \in Seq(Views) /\ IsInjective(PassiveViews(b))
      /\ ToSet(PassiveViews(b)) = ViewsOf(b) \cap Passive
  BY <1>1, KeepFacts, Zenon DEF PassiveViews, ViewsOf
<1>4. /\ ActiveViews(b) \in Seq(Views) /\ IsInjective(ActiveViews(b))
      /\ ToSet(ActiveViews(b)) = ViewsOf(b) \cap (Views \ Passive)
  BY <1>1, KeepFacts, Zenon DEF ActiveViews, ViewsOf
<1> QED BY <1>2, <1>3, <1>4

LEMMA FreeFacts ==
  /\ FreeViews \in Seq(Views) /\ IsInjective(FreeViews)
  /\ ToSet(FreeViews) = Views \ UNION {ViewsOf(b) : b \in Buffers}
<1> DEFINE all == [i \in 1 .. NrViews |-> i]
           S == Views \ UNION {ViewsOf(b) : b \in Buffers}
<1>1. all \in Seq(Views) /\ DOMAIN all = Views /\ \A i \in Views : all[i] = i
  BY WindowsAssumption DEF Views
<1>2. FreeViews = Keep(all, S)
  BY DEF FreeViews
<1> HIDE DEF all, S
<1>3. IsInjective(all) /\ ToSet(all) = Views
  BY <1>1, Zenon DEF IsInjective, ToSet
<1>4. /\ Keep(all, S) \in Seq(Views) /\ IsInjective(Keep(all, S))
      /\ ToSet(Keep(all, S)) = Views \cap S
  BY <1>1, <1>3, KeepFacts
<1>5. Views \cap S = S
  BY DEF S
<1> QED BY <1>2, <1>4, <1>5 DEF S

LEMMA GotFacts ==
  ASSUME ViewsFit, WindowsShow, NEW b \in Buffers, NEW n \in Nat,
         n <= Len(PassiveViews(b) \o FreeViews)
  PROVE  LET got == SubSeq(PassiveViews(b) \o FreeViews, 1, n) IN
         /\ got \in Seq(Views) /\ Len(got) = n /\ IsInjective(got)
         /\ \A v \in ToSet(got) : win[v] = NoWin /\ (v \in ViewsOf(b) \/ Unowned(v))
<1> DEFINE p == PassiveViews(b)
           f == FreeViews
           got == SubSeq(p \o f, 1, n)
<1>1. /\ p \in Seq(Views) /\ IsInjective(p) /\ ToSet(p) = ViewsOf(b) \cap Passive
  BY PassiveFacts
<1>2. /\ f \in Seq(Views) /\ IsInjective(f)
      /\ ToSet(f) = Views \ UNION {ViewsOf(c) : c \in Buffers}
  BY FreeFacts
<1>3. n <= Len(p \o f)
  OBVIOUS
<1>4. \A v \in ToSet(p) : v \in ViewsOf(b) /\ win[v] = NoWin
  BY <1>1 DEF Passive
<1>5. \A v \in ToSet(f) : v \in Views /\ Unowned(v)
  BY <1>2, Zenon DEF Unowned
<1>6. \A v \in ToSet(f) : win[v] = NoWin
  <2> SUFFICES ASSUME NEW v \in ToSet(f), win[v] # NoWin PROVE FALSE
    OBVIOUS
  <2>1. PICK c \in ToSet(bufs) : v \in ViewsOf(c)
    BY <1>5, Zenon DEF WindowsShow
  <2>2. c \in Buffers
    BY DEF ViewsFit
  <2> QED BY <1>5, <2>1, <2>2, Zenon DEF Unowned
<1> HIDE DEF p, f
<1>7. p \o f \in Seq(Views) /\ IsInjective(p \o f) /\ ToSet(p \o f) = ToSet(p) \cup ToSet(f)
  <2>1. ToSet(p) \cap ToSet(f) = {}
    BY <1>4, <1>5, Zenon DEF Unowned
  <2>2. p \o f \in Seq(Views)
    BY <1>1, <1>2
  <2>3. IsInjective(p \o f)
    BY <2>1, <1>1, <1>2, ConcatInjective
  <2>4. ToSet(p \o f) = ToSet(p) \cup ToSet(f)
    BY <1>1, <1>2, ElementsOfConcat
  <2> QED BY <2>2, <2>3, <2>4
<1>8. got \in Seq(Views) /\ Len(got) = n /\ IsInjective(got) /\ ToSet(got) \subseteq ToSet(p \o f)
  <2> DEFINE g == p \o f
  <2>1. g \in Seq(Views) /\ IsInjective(g) /\ n <= Len(g) /\ got = SubSeq(g, 1, n)
    BY <1>3, <1>7
  <2> HIDE DEF g, got
  <2>2. /\ SubSeq(g, 1, n) \in Seq(Views) /\ Len(SubSeq(g, 1, n)) = n
        /\ IsInjective(SubSeq(g, 1, n)) /\ ToSet(SubSeq(g, 1, n)) \subseteq ToSet(g)
    BY <2>1, FrontInjective
  <2> QED BY <2>1, <2>2 DEF g
<1>9. \A v \in ToSet(got) : win[v] = NoWin /\ (v \in ViewsOf(b) \/ Unowned(v))
  <2> HIDE DEF got
  <2> QED BY <1>4, <1>5, <1>6, <1>7, <1>8
<1> QED BY <1>8, <1>9 DEF p, f
(* What Attach does, buffer by buffer and view by view.                    *)
Attached(got, b, ws, old, gone) ==
  /\ got \in Seq(Views) /\ Len(got) = Len(ws) /\ IsInjective(got)
  /\ \A v \in ToSet(got) : win[v] = NoWin /\ (v \in ViewsOf(b) \/ Unowned(v))
  /\ vws' \in [Buffers -> Seq(Views)]
  /\ \A c \in Buffers : IsInjective(vws'[c])
  /\ \A c \in Buffers \ {b} : ToSet(vws'[c]) = ViewsOf(c) \ gone
  /\ ToSet(vws'[b]) = ViewsOf(b) \cup ToSet(got)
  /\ win' = [v \in Views |-> win'[v]]
  /\ \A i \in 1 .. Len(ws) : win'[got[i]] = ws[i]
  /\ \A v \in Views \ ToSet(got) :
       win'[v] = IF v \in old \cup gone THEN NoWin ELSE win[v]
  /\ style' \in [Views -> Styles]
  /\ \A c \in Buffers \ {b} : \A v \in ViewsOf(c) \ gone : style'[v] = style[v]
  /\ need' \subseteq need \ gone
  /\ \A c \in Buffers \ {b} : \A v \in (need \cap ViewsOf(c)) \ gone : v \in need'

(* The windows ws get views of their own.                                  *)
LEMMA AttachFacts ==
  ASSUME TypeOK, WindowsShow, NEW b \in Buffers, NEW ws \in Seq(Wins),
         NEW old, NEW gone, gone \cap ViewsOf(b) = {}, Attach(b, ws, old, gone)
  PROVE  Attached(GetViews(b, ws), b, ws, old, gone)
<1> DEFINE got == GetViews(b, ws)
           fresh == ToSet(got) \ ViewsOf(b)
           new == Keep(got, fresh)
<1>1. ViewsFit
  BY ViewsFitDefined
<1>2. Len(ws) \in Nat /\ DOMAIN ws = 1 .. Len(ws)
  OBVIOUS
<1>3. /\ got \in Seq(Views) /\ Len(got) = Len(ws) /\ IsInjective(got)
      /\ \A v \in ToSet(got) : win[v] = NoWin /\ (v \in ViewsOf(b) \/ Unowned(v))
  <2>1. Len(ws) <= Len(PassiveViews(b) \o FreeViews)
    BY DEF Attach
  <2> QED BY <1>1, <1>2, <2>1, GotFacts DEF GetViews
<1>4. /\ vws' = [c \in Buffers |->
                   Keep(vws[c], Views \ gone) \o (IF c = b THEN new ELSE <<>>)]
      /\ win' = [v \in Views |->
                   IF v \in ToSet(got) THEN ws[CHOOSE i \in 1 .. Len(ws) : got[i] = v]
                   ELSE IF v \in old \cup gone THEN NoWin ELSE win[v]]
      /\ style' = [v \in Views |->
                     IF v \in fresh THEN StyleOfNew(b)
                     ELSE IF v \in gone THEN "plain" ELSE style[v]]
      /\ need' = NeedAfterNew(b, fresh) \ gone
  BY Zenon DEF Attach
<1> HIDE DEF got
<1>5. new \in Seq(Views) /\ IsInjective(new) /\ ToSet(new) = fresh
  <2>1. new \in Seq(Views) /\ IsInjective(new) /\ ToSet(new) = ToSet(got) \cap fresh
    BY <1>3, KeepFacts
  <2> QED BY <2>1
<1> HIDE DEF new
<1>6. \A c \in Buffers : ViewsOf(c) \subseteq Views /\ vws[c] \in Seq(Views) /\ IsInjective(vws[c])
  BY <1>1, Emptiness DEF ViewsFit, ViewsOf
<1>7. \A c \in Buffers :
        /\ Keep(vws[c], Views \ gone) \in Seq(Views)
        /\ ToSet(Keep(vws[c], Views \ gone)) = ViewsOf(c) \ gone
        /\ IsInjective(Keep(vws[c], Views \ gone))
  <2> TAKE c \in Buffers
  <2>1. vws[c] \in Seq(Views) /\ IsInjective(vws[c]) /\ ViewsOf(c) \subseteq Views
    BY <1>6
  <2>2. /\ Keep(vws[c], Views \ gone) \in Seq(Views)
        /\ ToSet(Keep(vws[c], Views \ gone)) = ViewsOf(c) \cap (Views \ gone)
        /\ IsInjective(Keep(vws[c], Views \ gone))
    <3> DEFINE s == vws[c]
    <3>1. s \in Seq(Views) /\ IsInjective(s) /\ ViewsOf(c) = ToSet(s)
      BY <2>1 DEF ViewsOf
    <3> HIDE DEF s
    <3>2. /\ Keep(s, Views \ gone) \in Seq(Views)
          /\ ToSet(Keep(s, Views \ gone)) = ToSet(s) \cap (Views \ gone)
          /\ IsInjective(Keep(s, Views \ gone))
      BY <3>1, KeepFacts
    <3> QED BY <3>1, <3>2 DEF s
  <2> QED BY <2>1, <2>2
<1>8. \A c \in Buffers \ {b} : vws'[c] = Keep(vws[c], Views \ gone)
  <2> TAKE c \in Buffers \ {b}
  <2>1. vws'[c] = Keep(vws[c], Views \ gone) \o <<>>
    BY <1>4
  <2> QED BY <2>1, <1>7
<1>9. /\ vws'[b] \in Seq(Views) /\ IsInjective(vws'[b])
      /\ ToSet(vws'[b]) = ViewsOf(b) \cup ToSet(got)
  <2> DEFINE k == Keep(vws[b], Views \ gone)
  <2>1. vws'[b] = k \o new
    BY <1>4
  <2>2. k \in Seq(Views) /\ IsInjective(k) /\ ToSet(k) = ViewsOf(b)
    BY <1>7
  <2> HIDE DEF k
  <2>3. k \o new \in Seq(Views) /\ IsInjective(k \o new) /\ ToSet(k \o new) = ToSet(k) \cup ToSet(new)
    <3>1. ToSet(k) \cap ToSet(new) = {}
      BY <2>2, <1>5
    <3>2. k \o new \in Seq(Views)
      BY <2>2, <1>5
    <3>3. IsInjective(k \o new)
      BY <3>1, <2>2, <1>5, ConcatInjective
    <3>4. ToSet(k \o new) = ToSet(k) \cup ToSet(new)
      BY <2>2, <1>5, ElementsOfConcat
    <3> QED BY <3>2, <3>3, <3>4
  <2> QED BY <2>1, <2>2, <2>3, <1>5
<1>10. /\ vws' \in [Buffers -> Seq(Views)]
       /\ \A c \in Buffers : IsInjective(vws'[c])
       /\ \A c \in Buffers \ {b} : ToSet(vws'[c]) = ViewsOf(c) \ gone
  <2>1. \A c \in Buffers : vws'[c] \in Seq(Views) /\ IsInjective(vws'[c])
    BY <1>7, <1>8, <1>9
  <2>2. vws' = [c \in Buffers |-> vws'[c]]
    BY <1>4
  <2>3. vws' \in [Buffers -> Seq(Views)]
    BY <2>1, <2>2
  <2> QED BY <2>1, <2>3, <1>7, <1>8
<1>11. win' = [v \in Views |-> win'[v]]
  BY <1>4
<1>12. \A i \in 1 .. Len(ws) : win'[got[i]] = ws[i]
  <2> TAKE i \in 1 .. Len(ws)
  <2>1. DOMAIN got = 1 .. Len(ws) /\ got[i] \in Views
    BY <1>3
  <2>2. got[i] \in ToSet(got)
    BY <2>1, Zenon DEF ToSet
  <2> DEFINE j == CHOOSE k \in 1 .. Len(ws) : got[k] = got[i]
  <2>3. j \in 1 .. Len(ws) /\ got[j] = got[i]
    BY Zenon
  <2>4. j = i
    BY <2>1, <2>3, <1>3, Zenon DEF IsInjective
  <2>5. win'[got[i]] = ws[j]
    BY <1>4, <2>1, <2>2, Zenon
  <2> HIDE DEF j
  <2> QED BY <2>4, <2>5
<1>13. \A v \in Views \ ToSet(got) : win'[v] = IF v \in old \cup gone THEN NoWin ELSE win[v]
  BY <1>4
<1>14. \A c \in Buffers \ {b} : \A v \in ViewsOf(c) : v \notin fresh /\ v \notin ViewsOf(b)
  <2> TAKE c \in Buffers \ {b}
  <2> TAKE v \in ViewsOf(c)
  <2>1. v \notin ViewsOf(b)
    BY <1>1 DEF ViewsFit
  <2>2. ~Unowned(v)
    BY DEF Unowned
  <2> QED BY <2>1, <2>2, <1>3
<1> HIDE DEF fresh
<1>15. style' \in [Views -> Styles]
  <2>1. doc[b].loaded \in Styles
    BY DEF TypeOK
  <2>2. StyleOfNew(b) \in Styles /\ "plain" \in Styles
    BY <2>1 DEF StyleOfNew, Styles
  <2>3. style \in [Views -> Styles]
    BY <1>1 DEF ViewsFit
  <2> QED BY <2>2, <2>3, <1>4
<1>16. \A c \in Buffers \ {b} : \A v \in ViewsOf(c) \ gone : style'[v] = style[v]
  BY <1>4, <1>6, <1>14
<1>17. need' \subseteq need \ gone
  BY <1>4 DEF NeedAfterNew
<1>18. \A c \in Buffers \ {b} : \A v \in (need \cap ViewsOf(c)) \ gone : v \in need'
  <2> TAKE c \in Buffers \ {b}
  <2> TAKE v \in (need \cap ViewsOf(c)) \ gone
  <2>1. v \notin fresh /\ v \notin ViewsOf(b)
    BY <1>14
  <2> QED BY <2>1, <1>4 DEF NeedAfterNew
<1> QED BY <1>3, <1>9, <1>10, <1>11, <1>12, <1>13, <1>15, <1>16, <1>17, <1>18, Zenon DEF Attached, got
(* v is the view that w shows when f says which window shows a view.       *)
Shows(f, w, v) == v \in Views /\ f[v] = w /\ \A u \in Views : f[u] = w => u = v

LEMMA ShowsDefined ==
  ASSUME NEW f, NEW w
  PROVE  (\E v \in Views : {u \in Views : f[u] = w} = {v}) <=> \E v : Shows(f, w, v)
<1>1. ASSUME NEW v \in Views, {u \in Views : f[u] = w} = {v} PROVE Shows(f, w, v)
  BY <1>1 DEF Shows
<1>2. ASSUME NEW v, Shows(f, w, v) PROVE v \in Views /\ {u \in Views : f[u] = w} = {v}
  BY <1>2 DEF Shows
<1> QED BY <1>1, <1>2, Zenon

(* The windows show views of listed buffers, in terms of what is shown.    *)
LEMMA ShownBefore ==
  ASSUME WindowsShow
  PROVE  /\ \A w \in wins : \E v : Shows(win, w, v)
         /\ \A v \in Views : win[v] # NoWin => \E b \in ToSet(bufs) : v \in ViewsOf(b)
BY ShowsDefined, Zenon DEF WindowsShow

(* When the windows that show something else show b instead, every window  *)
(* still shows one view of a listed buffer.                                *)
LEMMA AttachKeeps ==
  ASSUME TypeOK, WindowsShow, NEW b \in Buffers, NEW ws \in Seq(Wins), IsInjective(ws),
         NEW old, NEW gone, gone \cap ViewsOf(b) = {}, Attach(b, ws, old, gone),
         \A v \in Views : win[v] \in ToSet(ws) => v \in old \cup gone,
         \A v \in old \cup gone : win[v] \in ToSet(ws) \cup {NoWin},
         \A c \in ToSet(bufs) \ ToSet(bufs') : ViewsOf(c) \subseteq gone,
         ToSet(bufs') \subseteq Buffers, b \in ToSet(bufs'),
         wins' = wins \cup ToSet(ws)
  PROVE  /\ ViewsFit' /\ WindowsShow'
         /\ \A v \in ToSet(GetViews(b, ws)) :
              v \in Views /\ v \in ToSet(vws'[b]) /\ win'[v] \in wins'
<1> DEFINE got == GetViews(b, ws)
<1> HIDE DEF got
<1>0. ViewsFit
  BY ViewsFitDefined
<1>1. /\ got \in Seq(Views) /\ Len(got) = Len(ws) /\ IsInjective(got)
      /\ \A v \in ToSet(got) : win[v] = NoWin /\ (v \in ViewsOf(b) \/ Unowned(v))
      /\ vws' \in [Buffers -> Seq(Views)]
      /\ \A c \in Buffers : IsInjective(vws'[c])
      /\ \A c \in Buffers \ {b} : ToSet(vws'[c]) = ViewsOf(c) \ gone
      /\ ToSet(vws'[b]) = ViewsOf(b) \cup ToSet(got)
      /\ win' = [v \in Views |-> win'[v]]
      /\ \A i \in 1 .. Len(ws) : win'[got[i]] = ws[i]
      /\ \A v \in Views \ ToSet(got) :
           win'[v] = IF v \in old \cup gone THEN NoWin ELSE win[v]
      /\ style' \in [Views -> Styles]
      /\ \A c \in Buffers \ {b} : \A v \in ViewsOf(c) \ gone : style'[v] = style[v]
      /\ need' \subseteq need \ gone
      /\ \A c \in Buffers \ {b} : \A v \in (need \cap ViewsOf(c)) \ gone : v \in need'
  <2>1. Attached(got, b, ws, old, gone)
    BY AttachFacts, Zenon DEF got
  <2> QED BY <2>1, Zenon DEF Attached
<1>2. /\ DOMAIN got = 1 .. Len(ws) /\ DOMAIN ws = 1 .. Len(ws)
      /\ \A i \in 1 .. Len(ws) : got[i] \in Views /\ ws[i] \in Wins
  BY <1>1
<1>3. /\ \A i \in 1 .. Len(ws) : got[i] \in ToSet(got) /\ ws[i] \in ToSet(ws)
      /\ \A v \in ToSet(got) : \E i \in 1 .. Len(ws) : v = got[i]
      /\ \A w \in ToSet(ws) : \E i \in 1 .. Len(ws) : w = ws[i]
  BY <1>2, Zenon DEF ToSet
<1>4. \A w \in Wins : w # NoWin
  BY WindowsAssumption
<1>5. /\ ToSet(ws) \subseteq Wins /\ ToSet(got) \subseteq Views
      /\ wins \subseteq Wins /\ wins' \subseteq Wins
  BY <1>2, <1>3 DEF TypeOK
<1>6. \A v \in ToSet(got) : v \in Views /\ v \in ToSet(vws'[b]) /\ win'[v] \in ToSet(ws)
  BY <1>1, <1>3, <1>5
<1>7. win' \in [Views -> wins' \cup {NoWin}]
  <2>1. \A v \in Views : win[v] \in wins \cup {NoWin}
    BY <1>0 DEF ViewsFit
  <2>2. \A v \in Views : win'[v] \in wins' \cup {NoWin}
    BY <2>1, <1>1, <1>6
  <2> QED BY <2>2, <1>1
<1>8. \A w \in wins' : \E v : Shows(win', w, v)
  <2> TAKE w \in wins'
  <2>1. CASE w \in ToSet(ws)
    <3>1. PICK i \in 1 .. Len(ws) : w = ws[i]
      BY <2>1, <1>3
    <3>2. got[i] \in Views /\ win'[got[i]] = w
      BY <3>1, <1>1, <1>2
    <3>3. ASSUME NEW u \in Views, win'[u] = w PROVE u = got[i]
      <4>1. CASE u \in ToSet(got)
        <5>1. PICK j \in 1 .. Len(ws) : u = got[j]
          BY <4>1, <1>3
        <5>2. ws[j] = ws[i]
          BY <5>1, <3>1, <3>3, <1>1
        <5>3. j = i
          BY <5>2, <1>2, Zenon DEF IsInjective
        <5> QED BY <5>1, <5>3
      <4>2. CASE u \notin ToSet(got)
        <5>1. w # NoWin
          BY <2>1, <1>4, <1>5
        <5>2. u \notin old \cup gone /\ win[u] = w
          BY <4>2, <5>1, <3>3, <1>1
        <5> QED BY <5>2, <2>1
      <4> QED BY <4>1, <4>2
    <3> QED BY <3>2, <3>3, Zenon DEF Shows
  <2>2. CASE w \notin ToSet(ws)
    <3>1. w \in wins /\ w # NoWin
      BY <2>2, <1>4, <1>5
    <3>2. PICK v : Shows(win, w, v)
      BY <3>1, ShownBefore
    <3>3. v \in Views /\ win[v] = w /\ \A u \in Views : win[u] = w => u = v
      BY <3>2, Zenon DEF Shows
    <3>4. v \notin ToSet(got) /\ v \notin old \cup gone
      BY <3>1, <3>3, <2>2, <1>1
    <3>5. win'[v] = w
      BY <3>3, <3>4, <1>1
    <3>6. ASSUME NEW u \in Views, win'[u] = w PROVE u = v
      <4>1. u \notin ToSet(got)
        BY <3>6, <2>2, <1>6
      <4>2. win[u] = w
        BY <4>1, <3>1, <3>6, <1>1
      <4> QED BY <4>2, <3>3
    <3> QED BY <3>3, <3>5, <3>6, Zenon DEF Shows
  <2> QED BY <2>1, <2>2
<1>9. \A v \in Views : win'[v] # NoWin => \E c \in ToSet(bufs') : v \in ToSet(vws'[c])
  <2> SUFFICES ASSUME NEW v \in Views, win'[v] # NoWin
               PROVE  \E c \in ToSet(bufs') : v \in ToSet(vws'[c])
    OBVIOUS
  <2>1. CASE v \in ToSet(got)
    BY <2>1, <1>6
  <2>2. CASE v \notin ToSet(got)
    <3>1. v \notin old \cup gone /\ win[v] # NoWin
      BY <2>2, <1>1
    <3>2. PICK c \in ToSet(bufs) : v \in ViewsOf(c)
      BY <3>1, ShownBefore
    <3>3. c \in ToSet(bufs') /\ c \in Buffers
      BY <3>1, <3>2, <1>0 DEF ViewsFit
    <3>4. v \in ToSet(vws'[c])
      <4>1. CASE c = b
        BY <4>1, <3>2, <1>1
      <4>2. CASE c # b
        BY <4>2, <3>1, <3>2, <3>3, <1>1
      <4> QED BY <4>1, <4>2
    <3> QED BY <3>3, <3>4
  <2> QED BY <2>1, <2>2
<1>10. WindowsShow'
  <2>1. \A w \in wins' : \E v \in Views : {u \in Views : win'[u] = w} = {v}
    <3> TAKE w \in wins'
    <3>1. PICK v : Shows(win', w, v)
      BY <1>8
    <3>2. v \in Views /\ {u \in Views : win'[u] = w} = {v}
      BY <3>1 DEF Shows
    <3> QED BY <3>2, Zenon
  <2> QED BY <2>1, <1>9, Zenon DEF WindowsShow, ViewsOf
<1>11. \A c, d \in Buffers : c # d => ToSet(vws'[c]) \cap ToSet(vws'[d]) = {}
  <2> SUFFICES ASSUME NEW c \in Buffers, NEW d \in Buffers, c # d, NEW v,
                      v \in ToSet(vws'[c]), v \in ToSet(vws'[d])
               PROVE  FALSE
    OBVIOUS
  <2>1. ViewsOf(c) \cap ViewsOf(d) = {}
    BY <1>0 DEF ViewsFit
  <2>2. CASE c # b /\ d # b
    BY <2>1, <2>2, <1>1
  <2>3. CASE c = b
    <3>1. v \in ViewsOf(d) /\ (v \in ViewsOf(b) \/ Unowned(v))
      BY <2>3, <1>1
    <3> QED BY <3>1, <2>1, <2>3, Zenon DEF Unowned
  <2>4. CASE d = b
    <3>1. v \in ViewsOf(c) /\ (v \in ViewsOf(b) \/ Unowned(v))
      BY <2>4, <1>1
    <3> QED BY <3>1, <2>1, <2>4, Zenon DEF Unowned
  <2> QED BY <2>2, <2>3, <2>4
<1>12. \A c \in Buffers \ ToSet(bufs') : vws'[c] = <<>>
  <2> TAKE c \in Buffers \ ToSet(bufs')
  <2>1. vws'[c] \in Seq(Views) /\ ToSet(vws'[c]) = ViewsOf(c) \ gone
    BY <1>1
  <2>2. CASE c \in ToSet(bufs)
    <3>1. ToSet(vws'[c]) = {}
      BY <2>1, <2>2
    <3> QED BY <3>1, <2>1, Emptiness
  <2>3. CASE c \notin ToSet(bufs)
    <3>1. vws[c] = <<>> /\ vws[c] \in Seq(Views)
      BY <2>3, <1>0 DEF ViewsFit
    <3>2. ViewsOf(c) = {}
      BY <3>1, Emptiness DEF ViewsOf
    <3> QED BY <3>2, <2>1, Emptiness
  <2> QED BY <2>2, <2>3
<1>13. need' \subseteq UNION {ToSet(vws'[c]) : c \in Buffers}
  <2> SUFFICES ASSUME NEW v \in need' PROVE \E c \in Buffers : v \in ToSet(vws'[c])
    OBVIOUS
  <2>1. PICK c \in Buffers : v \in ViewsOf(c)
    BY <1>0, <1>1 DEF ViewsFit
  <2>2. v \notin gone
    BY <1>1
  <2>3. v \in ToSet(vws'[c])
    <3>1. CASE c = b
      BY <3>1, <2>1, <1>1
    <3>2. CASE c # b
      <4>1. ToSet(vws'[c]) = ViewsOf(c) \ gone
        BY <3>2, <1>1
      <4> QED BY <4>1, <2>1, <2>2
    <3> QED BY <3>1, <3>2
  <2> QED BY <2>3
<1>14. ViewsFit'
  <2>1. \A c \in Buffers : ViewsOf(c)' = ToSet(vws'[c])
    BY DEF ViewsOf
  <2>2. UNION {ViewsOf(c)' : c \in Buffers} = UNION {ToSet(vws'[c]) : c \in Buffers}
    BY <2>1
  <2> QED BY <1>1, <1>7, <1>11, <1>12, <1>13, Zenon DEF ViewsFit, ViewsOf
<1> QED BY <1>6, <1>10, <1>14 DEF got
-----------------------------------------------------------------------------
(* The view in use, the views of the windows and the menu of the buffers *)

Docs == [scratch : BOOLEAN, changed : BOOLEAN, file : Styles, loaded : Styles]

(* The part of TypeOK that is not about views, nor about what each command *)
(* sets anew.                                                              *)
ServerFits ==
  /\ running \in BOOLEAN
  /\ bufs \in Seq(Buffers) /\ IsInjective(bufs)
  /\ doc \in [Buffers -> Docs]
  /\ wins \subseteq Wins
  /\ cur \in Views
  /\ question \in Questions
  /\ excused \subseteq Buffers

EventsFit == events \in 0 .. MaxEvents

LEMMA TypeParts == TypeOK => ServerFits /\ EventsFit
BY Zenon DEF TypeOK, ServerFits, EventsFit, Docs

LEMMA ServerIsTyped ==
  ASSUME ServerFits
  PROVE  ToSet(bufs) \subseteq Buffers
BY Emptiness DEF ServerFits

LEMMA OwnerFacts ==
  ASSUME ViewsFit, NEW v, NEW c \in ToSet(bufs), v \in ViewsOf(c)
  PROVE  BufferOf(v) = c
<1> DEFINE o == BufferOf(v)
<1>1. o \in ToSet(bufs) /\ v \in ViewsOf(o)
  BY Zenon DEF BufferOf
<1>2. o \in Buffers /\ c \in Buffers
  BY <1>1, Zenon DEF ViewsFit
<1>3. ~(o # c)
  BY <1>1, <1>2 DEF ViewsFit
<1> QED BY <1>3

LEMMA CurFacts ==
  ASSUME TypeOK, ViewsShown
  PROVE  /\ CurBuf \in ToSet(bufs) /\ CurBuf \in Buffers /\ cur \in ViewsOf(CurBuf)
         /\ CurWin \in wins /\ CurWin \in Wins /\ CurWin # NoWin
         /\ cur \in Views /\ \A u \in Views : win[u] = CurWin => u = cur
<1>1. PICK c \in ToSet(bufs) : cur \in ViewsOf(c)
  BY Zenon DEF ViewsShown, CurrentShown
<1>2. CurBuf = c /\ c \in Buffers
  BY <1>1, ViewsFitDefined, OwnerFacts DEF CurBuf, ViewsFit
<1>3. CurWin \in wins /\ CurWin \in Wins /\ cur \in Views
  BY Zenon DEF ViewsShown, CurrentShown, TypeOK
<1>4. CurWin # NoWin
  BY <1>3, WindowsAssumption
<1>5. PICK v : Shows(win, CurWin, v)
  BY <1>3, ShownBefore DEF ViewsShown
<1>6. \A u \in Views : win[u] = CurWin => u = v
  BY <1>5, Zenon DEF Shows
<1>7. v = cur
  BY <1>3, <1>6 DEF CurWin
<1> QED BY <1>1, <1>2, <1>3, <1>4, <1>6, <1>7

LEMMA FindFacts ==
  ASSUME TypeOK, ViewsShown, NEW w \in wins
  PROVE  LET v == WindowFindView(w) IN
         /\ v \in Views /\ win[v] = w /\ w \in Wins /\ w # NoWin
         /\ BufferOf(v) \in ToSet(bufs) /\ BufferOf(v) \in Buffers /\ v \in ViewsOf(BufferOf(v))
         /\ \A u \in Views : win[u] = w => u = v
<1> DEFINE f == WindowFindView(w)
<1>1. PICK v : Shows(win, w, v)
  BY ShownBefore DEF ViewsShown
<1>2. v \in Views /\ win[v] = w /\ \A u \in Views : win[u] = w => u = v
  BY <1>1, Zenon DEF Shows
<1>3. w \in Wins /\ w # NoWin
  BY WindowsAssumption DEF TypeOK
<1>4. PICK c \in ToSet(bufs) : v \in ViewsOf(c)
  BY <1>2, <1>3, ShownBefore DEF ViewsShown
<1>5. ViewsFit
  BY ViewsFitDefined
<1>6. \A d \in ToSet(bufs) : d \in Buffers /\ ViewsOf(d) \subseteq Views
  BY <1>5, Emptiness DEF ViewsFit, ViewsOf
<1>7. v \in UNION {ViewsOf(b) : b \in ToSet(bufs)} /\ win[v] = w
  BY <1>2, <1>4
<1>8. f \in UNION {ViewsOf(b) : b \in ToSet(bufs)} /\ win[f] = w
  BY <1>7, Zenon DEF WindowFindView
<1>9. f = v
  BY <1>2, <1>6, <1>8
<1>10. BufferOf(v) = c
  BY <1>4, <1>5, OwnerFacts
<1> QED BY <1>2, <1>3, <1>4, <1>6, <1>9, <1>10

LEMMA FocusFacts ==
  ASSUME ServerFits, NEW b \in Buffers
  PROVE  /\ FocusMenu(b) \in Seq(Buffers) /\ IsInjective(FocusMenu(b))
         /\ ToSet(FocusMenu(b)) = ToSet(bufs) \cup {b}
<1> DEFINE k == Keep(bufs, Buffers \ {b})
           one == <<b>>
<1>1. bufs \in Seq(Buffers) /\ IsInjective(bufs) /\ ToSet(bufs) \subseteq Buffers
  BY Emptiness DEF ServerFits
<1>2. k \in Seq(Buffers) /\ IsInjective(k) /\ ToSet(k) = ToSet(bufs) \cap (Buffers \ {b})
  BY <1>1, KeepFacts
<1>3. one \in Seq(Buffers) /\ DOMAIN one = {1} /\ one[1] = b
  OBVIOUS
<1>4. FocusMenu(b) = one \o k
  BY DEF FocusMenu
<1> HIDE DEF k, one
<1>5. ToSet(one) = {b} /\ IsInjective(one)
  BY <1>3, Zenon DEF ToSet, IsInjective
<1>6. ToSet(one) \cap ToSet(k) = {}
  BY <1>2, <1>5
<1>7. one \o k \in Seq(Buffers)
  BY <1>2, <1>3
<1>8. IsInjective(one \o k)
  BY <1>2, <1>3, <1>5, <1>6, ConcatInjective
<1>9. ToSet(one \o k) = ToSet(one) \cup ToSet(k)
  BY <1>2, <1>3, ElementsOfConcat
<1> QED BY <1>1, <1>2, <1>4, <1>5, <1>7, <1>8, <1>9

(* The buffers without some of them.                                       *)
LEMMA WithoutFacts ==
  ASSUME NEW s \in Seq(Buffers), IsInjective(s), NEW S
  PROVE  /\ Keep(s, Buffers \ S) \in Seq(Buffers) /\ IsInjective(Keep(s, Buffers \ S))
         /\ ToSet(Keep(s, Buffers \ S)) = ToSet(s) \ S
<1>1. /\ Keep(s, Buffers \ S) \in Seq(Buffers) /\ IsInjective(Keep(s, Buffers \ S))
      /\ ToSet(Keep(s, Buffers \ S)) = ToSet(s) \cap (Buffers \ S)
  BY KeepFacts
<1>2. ToSet(s) \subseteq Buffers
  BY Emptiness
<1> QED BY <1>1, <1>2

LEMMA ResetFacts ==
  ASSUME NEW d \in Docs
  PROVE  Reset(d) \in Docs /\ ~Reset(d).changed
BY DEF Reset, Docs, Styles

-----------------------------------------------------------------------------
(* Every command keeps the types and what is shown *)

Fits == ServerFits /\ ViewsFit /\ ViewsShown

LEMMA SameViews ==
  ASSUME ViewsFit, WindowsShow, UNCHANGED <<vws, win, wins>>, ToSet(bufs') = ToSet(bufs),
         style' \in [Views -> Styles], need' \subseteq UNION {ViewsOf(b) : b \in Buffers}
  PROVE  ViewsFit' /\ WindowsShow'
<1>1. vws' = vws /\ win' = win /\ wins' = wins
  OBVIOUS
<1>2. \A b : ToSet(vws'[b]) = ViewsOf(b)
  BY <1>1 DEF ViewsOf
<1>3. ViewsFit'
  BY <1>1, Zenon DEF ViewsFit, ViewsOf
<1>4. WindowsShow'
  <2>1. \A b : ViewsOf(b)' = ViewsOf(b)
    BY <1>2 DEF ViewsOf
  <2> QED BY <2>1, <1>1 DEF WindowsShow
<1> QED BY <1>3, <1>4

(* The views are the same, and the one in use becomes v, which is shown.   *)
LEMMA GoTo ==
  ASSUME ViewsFit, WindowsShow, UNCHANGED <<vws, win, style, need, wins>>,
         ToSet(bufs') = ToSet(bufs), NEW c \in ToSet(bufs), cur' \in ViewsOf(c),
         win[cur'] # NoWin
  PROVE  ViewsFit' /\ ViewsShown' /\ cur' \in Views
<1>1. ViewsFit' /\ WindowsShow'
  <2>1. style' \in [Views -> Styles] /\ need' \subseteq UNION {ViewsOf(b) : b \in Buffers}
    BY DEF ViewsFit
  <2> QED BY <2>1, SameViews
<1>2. c \in Buffers /\ ViewsOf(c) \subseteq Views
  BY Emptiness DEF ViewsFit, ViewsOf
<1>3. cur' \in Views /\ win'[cur'] \in wins'
  BY <1>2 DEF ViewsFit
<1>4. \E d \in ToSet(bufs') : cur' \in ToSet(vws'[d])
  BY DEF ViewsOf
<1>5. CurrentShown'
  BY <1>3, <1>4, Zenon DEF CurrentShown, CurWin, ViewsOf
<1> QED BY <1>1, <1>3, <1>5 DEF ViewsShown

LEMMA OneView ==
  ASSUME NEW b, NEW w, NEW old, NEW gone, Attached(GetViews(b, <<w>>), b, <<w>>, old, gone)
  PROVE  GetViews(b, <<w>>)[1] \in ToSet(GetViews(b, <<w>>))
<1> DEFINE ws == <<w>>
           got == GetViews(b, ws)
<1>1. got \in Seq(Views) /\ Len(got) = Len(ws)
  BY Zenon DEF Attached
<1>2. Len(ws) = 1
  OBVIOUS
<1> HIDE DEF got, ws
<1>3. got # <<>>
  BY <1>1, <1>2
<1>4. got[1] \in ToSet(got)
  BY <1>1, <1>3, Emptiness
<1> QED BY <1>4 DEF got, ws

(* One window shows b in a view of its own, and this view is in use.       *)
LEMMA ShowIn ==
  ASSUME TypeOK, ViewsShown, NEW b \in Buffers, NEW w \in Wins, NEW old,
         Attach(b, <<w>>, old, {}),
         \A v \in Views : win[v] = w => v \in old,
         \A v \in old : win[v] = w,
         cur' = GetViews(b, <<w>>)[1], bufs' = FocusMenu(b), wins' = wins \cup {w}
  PROVE  /\ ViewsFit' /\ ViewsShown' /\ cur' \in Views
         /\ bufs' \in Seq(Buffers) /\ IsInjective(bufs')
         /\ Attached(GetViews(b, <<w>>), b, <<w>>, old, {})
<1> DEFINE ws == <<w>>
           got == GetViews(b, ws)
<1>1. ws \in Seq(Wins) /\ DOMAIN ws = {1} /\ ws[1] = w
  OBVIOUS
<1>2. bufs' \in Seq(Buffers) /\ IsInjective(bufs') /\ ToSet(bufs') = ToSet(bufs) \cup {b}
  BY TypeParts, FocusFacts
<1>3. ToSet(bufs') \subseteq Buffers
  BY <1>2, Emptiness
<1>4. WindowsShow
  BY DEF ViewsShown
<1>5. cur' = got[1] /\ Attach(b, ws, old, {}) /\ {} \cap ViewsOf(b) = {}
  OBVIOUS
<1> HIDE DEF ws
<1>6. ToSet(ws) = {w} /\ IsInjective(ws)
  BY <1>1, Zenon DEF ToSet, IsInjective
<1>7. Attached(got, b, ws, old, {})
  BY <1>1, <1>4, <1>5, AttachFacts
<1>8. got[1] \in ToSet(got)
  BY <1>7, OneView DEF ws
<1>9. /\ ViewsFit' /\ WindowsShow'
      /\ \A v \in ToSet(got) : v \in Views /\ v \in ToSet(vws'[b]) /\ win'[v] \in wins'
  <2>1. \A v \in Views : win[v] \in ToSet(ws) => v \in old \cup {}
    BY <1>6
  <2>2. \A v \in old \cup {} : win[v] \in ToSet(ws) \cup {NoWin}
    BY <1>6
  <2>3. \A c \in ToSet(bufs) \ ToSet(bufs') : ViewsOf(c) \subseteq {}
    BY <1>2
  <2>4. b \in ToSet(bufs') /\ wins' = wins \cup ToSet(ws)
    BY <1>2, <1>6
  <2> HIDE DEF got
  <2>5. ViewsFit' /\ WindowsShow'
    BY <1>1, <1>3, <1>4, <1>5, <1>6, <2>1, <2>2, <2>3, <2>4, AttachKeeps
  <2>6. \A v \in ToSet(GetViews(b, ws)) : v \in Views /\ v \in ToSet(vws'[b]) /\ win'[v] \in wins'
    BY <1>1, <1>3, <1>4, <1>5, <1>6, <2>1, <2>2, <2>3, <2>4, AttachKeeps
  <2> QED BY <2>5, <2>6 DEF got
<1>10. cur' \in Views /\ cur' \in ToSet(vws'[b]) /\ win'[cur'] \in wins'
  BY <1>5, <1>8, <1>9
<1>11. CurrentShown'
  BY <1>2, <1>10, Zenon DEF CurrentShown, CurWin, ViewsOf
<1> QED BY <1>2, <1>7, <1>9, <1>10, <1>11 DEF ViewsShown, ws

LEMMA SwitchFacts ==
  ASSUME TypeOK, ViewsShown, NEW b \in Buffers, SwitchToBuffer(b)
  PROVE  /\ Fits'
         /\ Attached(GetViews(b, <<CurWin>>), b, <<CurWin>>, {cur}, {})
<1>1. /\ CurWin \in Wins /\ CurWin \in wins
      /\ \A v \in Views : win[v] = CurWin => v \in {cur}
      /\ \A v \in {cur} : win[v] = CurWin
  BY CurFacts DEF CurWin
<1>2. /\ Attach(b, <<CurWin>>, {cur}, {}) /\ cur' = GetViews(b, <<CurWin>>)[1]
      /\ bufs' = FocusMenu(b) /\ wins' = wins \cup {CurWin}
  BY <1>1 DEF SwitchToBuffer
<1>3. /\ ViewsFit' /\ ViewsShown' /\ cur' \in Views
      /\ bufs' \in Seq(Buffers) /\ IsInjective(bufs')
      /\ Attached(GetViews(b, <<CurWin>>), b, <<CurWin>>, {cur}, {})
  <2> DEFINE w == CurWin
             old == {cur}
  <2>1. /\ w \in Wins /\ Attach(b, <<w>>, old, {})
        /\ \A v \in Views : win[v] = w => v \in old
        /\ \A v \in old : win[v] = w
        /\ cur' = GetViews(b, <<w>>)[1] /\ bufs' = FocusMenu(b) /\ wins' = wins \cup {w}
    BY <1>1, <1>2
  <2> HIDE DEF w, old
  <2>2. /\ ViewsFit' /\ ViewsShown' /\ cur' \in Views
        /\ bufs' \in Seq(Buffers) /\ IsInjective(bufs')
        /\ Attached(GetViews(b, <<w>>), b, <<w>>, old, {})
    BY <2>1, ShowIn
  <2> QED BY <2>2 DEF w, old
<1>4. ServerFits'
  BY <1>3, TypeParts DEF ServerFits, SwitchToBuffer, Excuse
<1> QED BY <1>3, <1>4 DEF Fits

LEMMA NewWindowFacts ==
  ASSUME TypeOK, ViewsShown, NEW b \in Buffers, NEW w \in Wins, NewWindow(b, w)
  PROVE  Fits' /\ Attached(GetViews(b, <<w>>), b, <<w>>, {}, {})
<1>1. \A v \in Views : win[v] = w => v \in {}
  BY ViewsFitDefined, WindowsAssumption DEF ViewsFit, NewWindow
<1>2. /\ Attach(b, <<w>>, {}, {}) /\ cur' = GetViews(b, <<w>>)[1]
      /\ bufs' = FocusMenu(b) /\ wins' = wins \cup {w}
  BY DEF NewWindow
<1>3. /\ ViewsFit' /\ ViewsShown' /\ cur' \in Views
      /\ bufs' \in Seq(Buffers) /\ IsInjective(bufs')
      /\ Attached(GetViews(b, <<w>>), b, <<w>>, {}, {})
  BY <1>1, <1>2, ShowIn
<1>4. wins' \subseteq Wins
  BY <1>2 DEF TypeOK
<1>5. ServerFits'
  BY <1>3, <1>4, TypeParts DEF ServerFits, NewWindow, Excuse
<1> QED BY <1>3, <1>5 DEF Fits
LEMMA ToActiveFacts ==
  ASSUME TypeOK, ViewsShown, NEW b \in Buffers, SwitchToActiveBuffer(b)
  PROVE  Fits' /\ ToSet(bufs') = ToSet(bufs)
<1>1. ActiveViews(b) # <<>> /\ cur' = ActiveViews(b)[1] /\ bufs' = FocusMenu(b)
  BY DEF SwitchToActiveBuffer
<1>2. ViewsFit /\ WindowsShow /\ ServerFits
  BY ViewsFitDefined, TypeParts DEF ViewsShown
<1>3. cur' \in ViewsOf(b) \ Passive
  <2>1. ActiveViews(b) \in Seq(Views) /\ ToSet(ActiveViews(b)) = ViewsOf(b) \ Passive
    BY <1>2, PassiveFacts
  <2> QED BY <1>1, <2>1, Emptiness
<1>4. ViewsOf(b) \subseteq Views
  BY <1>2, Emptiness DEF ViewsFit, ViewsOf
<1>5. win[cur'] # NoWin
  BY <1>3, <1>4 DEF Passive
<1>6. b \in ToSet(bufs)
  <2> SUFFICES ASSUME b \notin ToSet(bufs) PROVE FALSE
    OBVIOUS
  <2>1. vws[b] = <<>>
    BY <1>2 DEF ViewsFit
  <2>2. ViewsOf(b) = {}
    BY <2>1, <1>2, Emptiness DEF ViewsOf, ViewsFit
  <2> QED BY <1>3, <2>2
<1>7. bufs' \in Seq(Buffers) /\ IsInjective(bufs') /\ ToSet(bufs') = ToSet(bufs)
  BY <1>1, <1>2, <1>6, FocusFacts
<1>8. UNCHANGED <<vws, win, style, need, wins>>
  BY DEF SwitchToActiveBuffer, views
<1>9. ViewsFit' /\ ViewsShown' /\ cur' \in Views
  BY <1>2, <1>3, <1>5, <1>6, <1>7, <1>8, GoTo
<1>10. ServerFits'
  BY <1>2, <1>7, <1>9 DEF ServerFits, SwitchToActiveBuffer
<1> QED BY <1>7, <1>9, <1>10 DEF Fits

LEMMA SetBufferFacts ==
  ASSUME TypeOK, ViewsShown, NEW b \in Buffers, NEW w \in Wins, WindowSetBuffer(w, b)
  PROVE  Fits' /\ Attached(GetViews(b, <<w>>), b, <<w>>, {WindowFindView(w)}, {})
<1> DEFINE ws == <<w>>
           got == GetViews(b, ws)
           f == WindowFindView(w)
           old == {f}
<1>1. ws \in Seq(Wins) /\ DOMAIN ws = {1} /\ ws[1] = w
  OBVIOUS
<1>2. /\ b \in ToSet(bufs) /\ w \in wins /\ w # CurWin
      /\ Attach(b, ws, old, {}) /\ {} \cap ViewsOf(b) = {}
      /\ bufs' = bufs /\ wins' = wins /\ cur' = cur
  BY DEF WindowSetBuffer
<1>3. /\ f \in Views /\ win[f] = w
      /\ \A u \in Views : win[u] = w => u = f
  BY <1>2, FindFacts
<1>4. WindowsShow /\ ViewsFit
  BY ViewsFitDefined DEF ViewsShown
<1> HIDE DEF ws, f
<1>5. ToSet(ws) = {w} /\ IsInjective(ws)
  BY <1>1, Zenon DEF ToSet, IsInjective
<1>6. Attached(got, b, ws, old, {})
  BY <1>1, <1>2, <1>4, AttachFacts
<1>7. ViewsFit' /\ WindowsShow'
  <2>1. \A v \in Views : win[v] \in ToSet(ws) => v \in old \cup {}
    BY <1>3, <1>5
  <2>2. \A v \in old \cup {} : win[v] \in ToSet(ws) \cup {NoWin}
    BY <1>3, <1>5
  <2>3. \A c \in ToSet(bufs) \ ToSet(bufs') : ViewsOf(c) \subseteq {}
    BY <1>2
  <2>4. ToSet(bufs') \subseteq Buffers /\ b \in ToSet(bufs') /\ wins' = wins \cup ToSet(ws)
    BY <1>2, <1>4, <1>5 DEF ViewsFit
  <2> HIDE DEF old
  <2> QED BY <1>1, <1>2, <1>4, <1>5, <2>1, <2>2, <2>3, <2>4, AttachKeeps
<1>8. /\ CurBuf \in ToSet(bufs) /\ CurBuf \in Buffers /\ cur \in ViewsOf(CurBuf)
      /\ CurWin \in wins /\ CurWin # NoWin /\ cur \in Views
  BY CurFacts
<1>9. cur \notin ToSet(got) /\ cur \notin old
  <2>1. \A v \in ToSet(got) : win[v] = NoWin
    BY <1>6, Zenon DEF Attached
  <2> HIDE DEF got
  <2> QED BY <2>1, <1>2, <1>3, <1>8 DEF CurWin
<1>10. win'[cur] = win[cur]
  <2>1. \A v \in Views \ ToSet(got) : win'[v] = IF v \in old \cup {} THEN NoWin ELSE win[v]
    BY <1>6, Zenon DEF Attached
  <2> HIDE DEF got, old
  <2> QED BY <2>1, <1>8, <1>9
<1>11. cur \in ToSet(vws'[CurBuf])
  <2>1. /\ \A c \in Buffers \ {b} : ToSet(vws'[c]) = ViewsOf(c) \ {}
        /\ ToSet(vws'[b]) = ViewsOf(b) \cup ToSet(got)
    BY <1>6, Zenon DEF Attached
  <2> HIDE DEF got
  <2> QED BY <2>1, <1>8
<1>12. CurrentShown'
  <2>1. win'[cur'] \in wins' /\ CurBuf \in ToSet(bufs') /\ cur' \in ToSet(vws'[CurBuf])
    BY <1>2, <1>8, <1>10, <1>11 DEF CurWin
  <2> QED BY <2>1, Zenon DEF CurrentShown, CurWin, ViewsOf
<1>13. ServerFits'
  BY TypeParts DEF ServerFits, WindowSetBuffer, Excuse
<1> QED BY <1>6, <1>7, <1>12, <1>13 DEF Fits, ViewsShown, ws, f

LEMMA WindowFocusFacts ==
  ASSUME TypeOK, ViewsShown, NEW w \in Wins, WindowFocus(w) \/ FocusOnEditor(w)
  PROVE  Fits' /\ ToSet(bufs') = ToSet(bufs)
<1> DEFINE f == WindowFindView(w)
<1>1. ViewsFit /\ WindowsShow /\ ServerFits
  BY ViewsFitDefined, TypeParts DEF ViewsShown
<1>2. /\ cur' = f /\ w \in wins /\ UNCHANGED <<vws, win, style, need, wins>>
      /\ bufs' = FocusMenu(BufferOf(f)) \/ bufs' = bufs
  BY DEF WindowFocus, FocusOnEditor, views
<1>3. /\ f \in Views /\ win[f] = w /\ w # NoWin
      /\ BufferOf(f) \in ToSet(bufs) /\ BufferOf(f) \in Buffers /\ f \in ViewsOf(BufferOf(f))
  BY <1>2, FindFacts
<1> HIDE DEF f
<1>4. bufs' \in Seq(Buffers) /\ IsInjective(bufs') /\ ToSet(bufs') = ToSet(bufs)
  <2>1. CASE bufs' = bufs
    BY <2>1, <1>1 DEF ServerFits
  <2>2. CASE bufs' = FocusMenu(BufferOf(f))
    <3> DEFINE o == BufferOf(f)
    <3>1. o \in Buffers /\ o \in ToSet(bufs) /\ bufs' = FocusMenu(o)
      BY <2>2, <1>3
    <3> HIDE DEF o
    <3>2. /\ FocusMenu(o) \in Seq(Buffers) /\ IsInjective(FocusMenu(o))
          /\ ToSet(FocusMenu(o)) = ToSet(bufs) \cup {o}
      BY <3>1, <1>1, FocusFacts, Zenon
    <3>3. ToSet(bufs) \cup {o} = ToSet(bufs)
      BY <3>1
    <3> QED BY <3>1, <3>2, <3>3, Zenon
  <2> QED BY <2>1, <2>2, <1>2
<1>5. ViewsFit' /\ ViewsShown' /\ cur' \in Views
  BY <1>1, <1>2, <1>3, <1>4, GoTo
<1>6. ServerFits'
  BY <1>1, <1>4, <1>5 DEF ServerFits, WindowFocus, FocusOnEditor
<1> QED BY <1>4, <1>5, <1>6 DEF Fits
(* What is changed is a mark, a style or a document, never what is shown.  *)
LEMMA SameShown ==
  ASSUME TypeOK, ViewsShown, UNCHANGED <<bufs, vws, win, wins, cur>>,
         style' \in [Views -> Styles], need' \subseteq UNION {ViewsOf(b) : b \in Buffers}
  PROVE  ViewsFit' /\ ViewsShown'
<1>1. ViewsFit' /\ WindowsShow'
  BY SameViews, ViewsFitDefined DEF ViewsShown
<1>2. bufs' = bufs /\ vws' = vws /\ win' = win /\ wins' = wins /\ cur' = cur
  OBVIOUS
<1>3. CurrentShown'
  BY <1>2, Zenon DEF ViewsShown, CurrentShown, CurWin, ViewsOf
<1> QED BY <1>1, <1>3 DEF ViewsShown

LEMMA ChangeFacts ==
  ASSUME TypeOK, ViewsShown,
         \/ ModifyBuffer \/ SaveBuffer \/ RevertBuffer
         \/ \E s \in Styles : InitStyle(s) \/ InitEnv(s)
  PROVE  Fits'
<1>1. ServerFits /\ ViewsFit
  BY TypeParts, ViewsFitDefined
<1>2. /\ CurBuf \in ToSet(bufs) /\ CurBuf \in Buffers /\ cur \in ViewsOf(CurBuf) /\ cur \in Views
  BY CurFacts
<1>3. /\ doc \in [Buffers -> Docs] /\ style \in [Views -> Styles]
      /\ need \subseteq UNION {ViewsOf(b) : b \in Buffers}
  BY <1>1 DEF ServerFits, ViewsFit
<1>4. doc[CurBuf] \in Docs /\ style[cur] \in Styles
  BY <1>2, <1>3
<1>5. CASE ModifyBuffer
  <2>1. ViewsFit' /\ ViewsShown'
    <3>1. UNCHANGED <<bufs, vws, win, wins, cur>> /\ style' \in [Views -> Styles]
      BY <1>5, <1>3 DEF ModifyBuffer
    <3>2. need' \subseteq UNION {ViewsOf(b) : b \in Buffers}
      BY <1>5, <1>2, <1>3 DEF ModifyBuffer
    <3> QED BY <3>1, <3>2, SameShown
  <2>2. doc' \in [Buffers -> Docs]
    <3>1. [doc[CurBuf] EXCEPT !.changed = TRUE] \in Docs
      BY <1>4 DEF Docs
    <3>2. doc' = [doc EXCEPT ![CurBuf] = [doc[CurBuf] EXCEPT !.changed = TRUE]]
      BY <1>5, <1>2, <1>3 DEF ModifyBuffer
    <3> QED BY <3>1, <3>2, <1>3
  <2>3. ServerFits'
    BY <2>2, <1>1, <1>5 DEF ServerFits, ModifyBuffer
  <2> QED BY <2>1, <2>3 DEF Fits
<1>6. ASSUME NEW s \in Styles, InitStyle(s) \/ InitEnv(s) PROVE Fits'
  <2>1. ViewsFit' /\ ViewsShown'
    <3>1. UNCHANGED <<bufs, vws, win, wins, cur>> /\ style' \in [Views -> Styles]
      BY <1>6, <1>3 DEF InitStyle, InitEnv
    <3>2. need' \subseteq UNION {ViewsOf(b) : b \in Buffers}
      BY <1>6, <1>2, <1>3 DEF InitStyle, InitEnv
    <3> QED BY <3>1, <3>2, SameShown
  <2>2. excused' \subseteq Buffers
    BY <1>1, <1>2, <1>6 DEF ServerFits, InitStyle, InitEnv, Excuse
  <2>3. ServerFits'
    BY <2>2, <1>1, <1>6 DEF ServerFits, InitStyle, InitEnv
  <2> QED BY <2>1, <2>3 DEF Fits
<1>7. CASE SaveBuffer
  <2>1. ViewsFit' /\ ViewsShown'
    <3>1. UNCHANGED <<bufs, vws, win, wins, cur>> /\ style' \in [Views -> Styles]
      BY <1>7, <1>3 DEF SaveBuffer
    <3>2. need' \subseteq UNION {ViewsOf(b) : b \in Buffers}
      BY <1>7, <1>3 DEF SaveBuffer
    <3> QED BY <3>1, <3>2, SameShown
  <2>2. doc' \in [Buffers -> Docs]
    <3> DEFINE d == [doc[CurBuf] EXCEPT !.scratch = FALSE, !.changed = FALSE, !.file = style[cur]]
    <3>1. d \in Docs
      BY <1>4 DEF Docs
    <3>2. doc' = [doc EXCEPT ![CurBuf] = d]
      BY <1>7, <1>2, <1>3 DEF SaveBuffer
    <3> QED BY <3>1, <3>2, <1>3
  <2>3. excused' \subseteq Buffers
    BY <1>1, <1>2, <1>7 DEF ServerFits, SaveBuffer, Excuse
  <2>4. ServerFits'
    BY <2>2, <2>3, <1>1, <1>7 DEF ServerFits, SaveBuffer
  <2> QED BY <2>1, <2>4 DEF Fits
<1>8. CASE RevertBuffer
  <2>1. ViewsFit' /\ ViewsShown'
    <3>1. UNCHANGED <<bufs, vws, win, wins, cur>>
      BY <1>8 DEF RevertBuffer
    <3>2. style' \in [Views -> Styles]
      <4>1. doc[CurBuf].file \in Styles
        BY <1>4 DEF Docs
      <4> QED BY <4>1, <1>8, <1>3 DEF RevertBuffer
    <3>3. need' \subseteq UNION {ViewsOf(b) : b \in Buffers}
      BY <1>8, <1>3 DEF RevertBuffer
    <3> QED BY <3>1, <3>2, <3>3, SameShown
  <2>2. doc' \in [Buffers -> Docs]
    <3> DEFINE d == [doc[CurBuf] EXCEPT !.changed = FALSE, !.loaded = doc[CurBuf].file]
    <3>1. d \in Docs
      BY <1>4 DEF Docs
    <3>2. doc' = [doc EXCEPT ![CurBuf] = d]
      BY <1>8, <1>2, <1>3 DEF RevertBuffer
    <3> QED BY <3>1, <3>2, <1>3
  <2>3. excused' \subseteq Buffers
    BY <1>1, <1>8 DEF ServerFits, RevertBuffer, Excuse
  <2>4. ServerFits'
    BY <2>2, <2>3, <1>1, <1>8 DEF ServerFits, RevertBuffer
  <2> QED BY <2>1, <2>4 DEF Fits
<1> QED BY <1>5, <1>6, <1>7, <1>8

LEMMA QuitOrAskFacts ==
  ASSUME TypeOK, ViewsShown, Quit \/ \E q \in Questions : Ask(q)
  PROVE  Fits' /\ UNCHANGED <<bufs, doc, vws, win, style, need, wins, cur, excused>>
<1>1. UNCHANGED <<bufs, doc, vws, win, style, need, wins, cur, excused>>
  BY DEF Quit, Ask, views
<1>2. running' \in BOOLEAN /\ question' \in Questions
  BY DEF Quit, Ask, Questions, TypeOK
<1>3. ServerFits /\ ViewsFit
  BY TypeParts, ViewsFitDefined
<1>4. ViewsFit' /\ ViewsShown'
  <2>1. style' \in [Views -> Styles] /\ need' \subseteq UNION {ViewsOf(b) : b \in Buffers}
    BY <1>1, <1>3 DEF ViewsFit
  <2> QED BY <1>1, <2>1, SameShown
<1>5. ServerFits'
  BY <1>1, <1>2, <1>3 DEF ServerFits
<1> QED BY <1>1, <1>4, <1>5 DEF Fits
(* Another buffer than the one in use is listed.                           *)
NewBuf == Keep(bufs, Buffers \ {CurBuf})[1]

LEMMA NewBufFacts ==
  ASSUME TypeOK, ViewsShown, ~(Len(bufs) <= 1)
  PROVE  NewBuf \in ToSet(bufs) /\ NewBuf \in Buffers /\ NewBuf # CurBuf
<1> DEFINE k == Keep(bufs, Buffers \ {CurBuf})
<1>1. bufs \in Seq(Buffers) /\ IsInjective(bufs) /\ ToSet(bufs) \subseteq Buffers
  BY TypeParts, Emptiness DEF ServerFits
<1>2. k \in Seq(Buffers) /\ ToSet(k) = ToSet(bufs) \ {CurBuf}
  BY <1>1, WithoutFacts
<1>3. DOMAIN bufs = 1 .. Len(bufs) /\ 1 \in 1 .. Len(bufs) /\ 2 \in 1 .. Len(bufs)
  BY <1>1
<1>4. bufs[1] # bufs[2] /\ bufs[1] \in ToSet(bufs) /\ bufs[2] \in ToSet(bufs)
  <2>1. bufs[1] \in ToSet(bufs) /\ bufs[2] \in ToSet(bufs)
    BY <1>3, Zenon DEF ToSet
  <2>2. bufs[1] = bufs[2] => 1 = 2
    BY <1>1, <1>3, Zenon DEF IsInjective
  <2> QED BY <2>1, <2>2
<1> HIDE DEF k
<1>5. k # <<>>
  <2>1. ToSet(k) # {}
    BY <1>2, <1>4
  <2> QED BY <2>1, <1>2, Emptiness
<1>6. k[1] \in ToSet(k)
  BY <1>2, <1>5, Emptiness
<1> QED BY <1>1, <1>2, <1>6 DEF NewBuf, k

(* The windows of the buffer in use.                                       *)
Windows(shown) == [i \in DOMAIN shown |-> win[shown[i]]]

LEMMA WindowsFacts ==
  ASSUME TypeOK, ViewsShown
  PROVE  LET shown == ActiveViews(CurBuf)
             ws    == Windows(shown)
         IN  /\ shown \in Seq(Views) /\ ToSet(shown) = ViewsOf(CurBuf) \ Passive
             /\ ws \in Seq(Wins) /\ Len(ws) = Len(shown) /\ IsInjective(ws)
             /\ ToSet(ws) \subseteq wins
             /\ \A v \in ToSet(shown) : win[v] \in ToSet(ws)
             /\ \A v \in Views : win[v] \in ToSet(ws) => v \in ViewsOf(CurBuf)
             /\ \E i \in DOMAIN shown : shown[i] = cur
<1> DEFINE shown == ActiveViews(CurBuf)
           ws == Windows(shown)
<1>1. /\ CurBuf \in ToSet(bufs) /\ CurBuf \in Buffers /\ cur \in ViewsOf(CurBuf)
      /\ CurWin \in wins /\ CurWin # NoWin /\ cur \in Views
  BY CurFacts
<1>2. ViewsFit
  BY ViewsFitDefined
<1>3. /\ shown \in Seq(Views) /\ IsInjective(shown)
      /\ ToSet(shown) = ViewsOf(CurBuf) \ Passive
  BY <1>1, <1>2, PassiveFacts
<1>4. ViewsOf(CurBuf) \subseteq Views
  BY <1>1, <1>2, Emptiness DEF ViewsFit, ViewsOf
<1>5. \A v \in ToSet(shown) : v \in ViewsOf(CurBuf) /\ v \in Views /\ win[v] # NoWin
  BY <1>3, <1>4 DEF Passive
<1> HIDE DEF shown
<1>6. DOMAIN shown = 1 .. Len(shown) /\ Len(shown) \in Nat
  BY <1>3
<1>7. \A i \in DOMAIN shown : shown[i] \in ToSet(shown)
  BY Zenon DEF ToSet
<1>8. \A v \in ToSet(shown) : \E i \in DOMAIN shown : v = shown[i]
  BY Zenon DEF ToSet
<1>9. ws = [i \in 1 .. Len(shown) |-> win[shown[i]]]
  BY <1>6 DEF Windows
<1>10. \A v \in ToSet(shown) : win[v] \in wins /\ win[v] \in Wins
  BY <1>2, <1>5 DEF ViewsFit, TypeOK
<1>11. ws \in Seq(Wins) /\ Len(ws) = Len(shown) /\ DOMAIN ws = DOMAIN shown
  BY <1>6, <1>7, <1>9, <1>10
<1>12. \A i \in DOMAIN shown : ws[i] = win[shown[i]]
  BY <1>6, <1>9
<1> HIDE DEF ws
<1>13. \A u, v \in Views : win[u] \in wins /\ win[u] = win[v] => u = v
  <2> SUFFICES ASSUME NEW u \in Views, NEW v \in Views, win[u] \in wins, win[u] = win[v]
               PROVE  u = v
    OBVIOUS
  <2>1. PICK x : Shows(win, win[u], x)
    BY ShownBefore DEF ViewsShown
  <2>2. \A y \in Views : win[y] = win[u] => y = x
    BY <2>1, Zenon DEF Shows
  <2> QED BY <2>2
<1>14. IsInjective(ws)
  <2> SUFFICES ASSUME NEW i \in DOMAIN shown, NEW j \in DOMAIN shown, ws[i] = ws[j]
               PROVE  i = j
    BY <1>11, Zenon DEF IsInjective
  <2>1. shown[i] = shown[j]
    BY <1>5, <1>7, <1>10, <1>12, <1>13
  <2> QED BY <2>1, <1>3, Zenon DEF IsInjective
<1>15. \A w \in ToSet(ws) : \E v \in ToSet(shown) : w = win[v]
  <2> TAKE w \in ToSet(ws)
  <2>1. PICK i \in DOMAIN shown : w = ws[i]
    BY <1>11, Zenon DEF ToSet
  <2>2. w = win[shown[i]] /\ shown[i] \in ToSet(shown)
    BY <2>1, <1>7, <1>12
  <2> QED BY <2>2
<1>16. \A v \in ToSet(shown) : win[v] \in ToSet(ws)
  <2> TAKE v \in ToSet(shown)
  <2>1. PICK i \in DOMAIN shown : v = shown[i]
    BY <1>8
  <2>2. ws[i] = win[v] /\ i \in DOMAIN ws
    BY <2>1, <1>11, <1>12
  <2>3. ws[i] \in ToSet(ws)
    BY <2>2, Zenon DEF ToSet
  <2> QED BY <2>2, <2>3
<1>17. ToSet(ws) \subseteq wins
  BY <1>10, <1>15
<1>18. \A v \in Views : win[v] \in ToSet(ws) => v \in ViewsOf(CurBuf)
  BY <1>5, <1>10, <1>13, <1>15
<1>19. cur \in ToSet(shown)
  BY <1>1, <1>3 DEF Passive, CurWin
<1>20. \E i \in DOMAIN shown : shown[i] = cur
  BY <1>8, <1>19
<1> QED BY <1>3, <1>11, <1>14, <1>16, <1>17, <1>18, <1>20 DEF ws, shown

(* Killing the buffer in use: its windows show another one.                *)
LEMMA KillFacts ==
  ASSUME TypeOK, ViewsShown, KillBuffer, ~(Len(bufs) <= 1)
  PROVE  /\ Fits'
         /\ NewBuf \in ToSet(bufs) /\ NewBuf \in Buffers /\ NewBuf # CurBuf
         /\ Windows(ActiveViews(CurBuf)) \in Seq(Wins)
         /\ LET ws == Windows(ActiveViews(CurBuf)) IN
              Attached(GetViews(NewBuf, ws), NewBuf, ws, {}, ViewsOf(CurBuf))
         /\ ToSet(bufs') = ToSet(bufs) \ {CurBuf}
         /\ doc' = [doc EXCEPT ![CurBuf] = Reset(@)]
         /\ LET ws == Windows(ActiveViews(CurBuf)) IN
              Excuse({c \in {NewBuf} : Leaks(c, ws)}, {CurBuf})
<1> DEFINE shown == ActiveViews(CurBuf)
           ws == Windows(shown)
           nb == NewBuf
           got == GetViews(nb, ws)
           i == CHOOSE i \in DOMAIN shown : shown[i] = cur
           gone == ViewsOf(CurBuf)
           old == {}
<1>1. /\ Attach(nb, ws, old, gone) /\ cur' = got[i]
      /\ bufs' = Keep(bufs, Buffers \ {CurBuf})
      /\ doc' = [doc EXCEPT ![CurBuf] = Reset(@)]
      /\ question' = NoQuestion
      /\ running' = running /\ wins' = wins
      /\ Excuse({c \in {nb} : Leaks(c, ws)}, {CurBuf})
  BY DEF KillBuffer, Windows, NewBuf
<1>2. nb \in ToSet(bufs) /\ nb \in Buffers /\ nb # CurBuf
  BY NewBufFacts
<1>3. /\ shown \in Seq(Views) /\ ToSet(shown) = ViewsOf(CurBuf) \ Passive
      /\ ws \in Seq(Wins) /\ Len(ws) = Len(shown) /\ IsInjective(ws)
      /\ ToSet(ws) \subseteq wins
      /\ \A v \in ToSet(shown) : win[v] \in ToSet(ws)
      /\ \A v \in Views : win[v] \in ToSet(ws) => v \in gone
      /\ \E j \in DOMAIN shown : shown[j] = cur
  BY WindowsFacts, Zenon
<1>4. /\ CurBuf \in ToSet(bufs) /\ CurBuf \in Buffers
  BY CurFacts
<1>5. ServerFits /\ ViewsFit /\ WindowsShow
  BY TypeParts, ViewsFitDefined DEF ViewsShown
<1>6. gone \cap ViewsOf(nb) = {} /\ gone \subseteq Views
  BY <1>2, <1>4, <1>5, Emptiness DEF ViewsFit, ViewsOf
<1>7. bufs' \in Seq(Buffers) /\ IsInjective(bufs') /\ ToSet(bufs') = ToSet(bufs) \ {CurBuf}
  BY <1>1, <1>5, WithoutFacts DEF ServerFits
<1>8. i \in DOMAIN shown /\ DOMAIN shown = 1 .. Len(ws)
  <2>1. i \in DOMAIN shown
    BY <1>3, Zenon
  <2> HIDE DEF ws, shown, i
  <2> QED BY <2>1, <1>3
<1>a. \A v : v \notin old
  OBVIOUS
<1> HIDE DEF ws, shown, nb, i, gone, old
<1>9. Attached(got, nb, ws, old, gone)
  BY <1>1, <1>2, <1>3, <1>5, <1>6, AttachFacts
<1>10. got[i] \in ToSet(got)
  <2>1. got \in Seq(Views) /\ Len(got) = Len(ws)
    BY <1>9, Zenon DEF Attached
  <2> HIDE DEF got
  <2>2. i \in DOMAIN got
    BY <2>1, <1>8
  <2> QED BY <2>2, Zenon DEF ToSet
<1>11. /\ ViewsFit' /\ WindowsShow'
       /\ \A v \in ToSet(got) : v \in Views /\ v \in ToSet(vws'[nb]) /\ win'[v] \in wins'
  <2>1. \A v \in Views : win[v] \in ToSet(ws) => v \in old \cup gone
    BY <1>3
  <2>2. \A v \in old \cup gone : win[v] \in ToSet(ws) \cup {NoWin}
    <3> SUFFICES ASSUME NEW v \in gone, win[v] # NoWin PROVE win[v] \in ToSet(ws)
      BY <1>a
    <3>1. v \in ToSet(shown)
      BY <1>3, <1>6 DEF Passive, gone
    <3> QED BY <3>1, <1>3
  <2>3. \A c \in ToSet(bufs) \ ToSet(bufs') : ViewsOf(c) \subseteq gone
    BY <1>7 DEF gone
  <2>4. ToSet(bufs') \subseteq Buffers /\ nb \in ToSet(bufs') /\ wins' = wins \cup ToSet(ws)
    BY <1>1, <1>2, <1>3, <1>5, <1>7 DEF ViewsFit
  <2>5. ws \in Seq(Wins) /\ IsInjective(ws)
    BY <1>3
  <2>6. ViewsFit' /\ WindowsShow'
    BY <1>1, <1>2, <1>5, <1>6, <2>1, <2>2, <2>3, <2>4, <2>5, AttachKeeps
  <2>7. \A v \in ToSet(GetViews(nb, ws)) : v \in Views /\ v \in ToSet(vws'[nb]) /\ win'[v] \in wins'
    BY <1>1, <1>2, <1>5, <1>6, <2>1, <2>2, <2>3, <2>4, <2>5, AttachKeeps
  <2> QED BY <2>6, <2>7
<1>12. cur' \in Views /\ cur' \in ToSet(vws'[nb]) /\ win'[cur'] \in wins'
  BY <1>1, <1>10, <1>11
<1>13. CurrentShown'
  <2>1. nb \in ToSet(bufs')
    BY <1>2, <1>7
  <2> QED BY <2>1, <1>12, Zenon DEF CurrentShown, CurWin, ViewsOf
<1>14. doc' \in [Buffers -> Docs]
  <2>1. doc \in [Buffers -> Docs]
    BY <1>5 DEF ServerFits
  <2>2. Reset(doc[CurBuf]) \in Docs
    BY <2>1, <1>4, ResetFacts
  <2>3. doc' = [doc EXCEPT ![CurBuf] = Reset(doc[CurBuf])]
    BY <1>1
  <2> QED BY <2>1, <2>2, <2>3
<1>15. excused' \subseteq Buffers
  BY <1>1, <1>2, <1>5 DEF ServerFits, Excuse
<1>16. ServerFits'
  <2>1. question' \in Questions
    BY <1>1 DEF Questions
  <2> QED BY <2>1, <1>1, <1>5, <1>7, <1>12, <1>14, <1>15 DEF ServerFits
<1> QED BY <1>1, <1>2, <1>3, <1>7, <1>9, <1>11, <1>13, <1>16 DEF Fits, ViewsShown, nb, ws, shown, gone, old
(* When another window is open, there is a view in it to go to.            *)
LEMMA OtherFacts ==
  ASSUME TypeOK, ViewsShown, wins # {CurWin}
  PROVE  /\ OtherView \in Views /\ win[OtherView] \notin {NoWin, CurWin}
         /\ BufferOf(OtherView) \in ToSet(bufs) /\ BufferOf(OtherView) \in Buffers
         /\ OtherView \in ViewsOf(BufferOf(OtherView))
<1> DEFINE There(i) == OtherViews(bufs[i]) # <<>>
           I == {i \in DOMAIN bufs : There(i)}
           first == CHOOSE i \in DOMAIN bufs : There(i) /\ \A j \in 1 .. i - 1 : ~There(j)
           S == {v \in Views : win[v] \notin {NoWin, CurWin}}
<1>1. ServerFits /\ ViewsFit /\ WindowsShow
  BY TypeParts, ViewsFitDefined DEF ViewsShown
<1>2. CurWin \in wins /\ wins \subseteq Wins
  BY CurFacts DEF TypeOK
<1>3. bufs \in Seq(Buffers) /\ DOMAIN bufs = 1 .. Len(bufs) /\ Len(bufs) \in Nat
  BY <1>1 DEF ServerFits
<1>4. \A c \in Buffers :
        /\ ViewsOf(c) \subseteq Views
        /\ OtherViews(c) \in Seq(Views) /\ ToSet(OtherViews(c)) = ViewsOf(c) \cap S
  <2> TAKE c \in Buffers
  <2> DEFINE s == vws[c]
  <2>1. s \in Seq(Views) /\ ViewsOf(c) = ToSet(s) /\ OtherViews(c) = Keep(s, S)
    BY <1>1 DEF ViewsFit, ViewsOf, OtherViews
  <2> HIDE DEF s, S
  <2>2. Keep(s, S) \in Seq(Views) /\ ToSet(Keep(s, S)) = ToSet(s) \cap S /\ ToSet(s) \subseteq Views
    BY <2>1, KeepFacts, Emptiness
  <2> QED BY <2>1, <2>2
<1>5. \A i \in DOMAIN bufs : bufs[i] \in ToSet(bufs) /\ bufs[i] \in Buffers
  BY <1>1, Zenon DEF ToSet, ViewsFit
<1>6. I # {}
  <2>1. PICK w \in wins : w # CurWin
    BY <1>2
  <2>2. PICK v : Shows(win, w, v)
    BY <1>1, ShownBefore
  <2>3. v \in Views /\ win[v] = w /\ w # NoWin
    BY <2>2, <1>2, WindowsAssumption DEF Shows
  <2>4. PICK c \in ToSet(bufs) : v \in ViewsOf(c)
    BY <2>3, <1>1, ShownBefore
  <2>5. PICK i \in DOMAIN bufs : c = bufs[i]
    BY <2>4, Zenon DEF ToSet
  <2>6. v \in ViewsOf(c) \cap S /\ c \in Buffers
    BY <2>1, <2>3, <2>4, <2>5, <1>5
  <2>7. OtherViews(c) # <<>>
    BY <2>6, <1>4, Emptiness
  <2> QED BY <2>5, <2>7
<1>7. I \in SUBSET Nat
  BY <1>3
<1> HIDE DEF There
<1>8. \E i \in DOMAIN bufs : There(i) /\ \A j \in 1 .. i - 1 : ~There(j)
  <2>1. PICK n \in I : \A m \in I : n <= m
    <3> HIDE DEF I
    <3> QED BY <1>6, <1>7, LeastNumber
  <2>2. ASSUME NEW j \in 1 .. n - 1 PROVE ~There(j)
    <3>1. j \in DOMAIN bufs /\ ~(n <= j)
      BY <1>3, <2>1
    <3> QED BY <3>1, <2>1
  <2> QED BY <2>1, <2>2
<1>9. first \in DOMAIN bufs /\ There(first)
  BY <1>8, Zenon
<1>10. OtherView = OtherViews(bufs[first])[1]
  BY Zenon DEF OtherView, There
<1> DEFINE c == bufs[first]
<1>11. c \in ToSet(bufs) /\ c \in Buffers /\ OtherViews(c) # <<>>
  BY <1>5, <1>9 DEF There
<1> HIDE DEF c
<1>12. OtherViews(c)[1] \in ViewsOf(c) \cap S
  BY <1>4, <1>11, Emptiness
<1>13. BufferOf(OtherViews(c)[1]) = c
  BY <1>1, <1>11, <1>12, OwnerFacts
<1>14. OtherView = OtherViews(c)[1]
  BY <1>10 DEF c
<1>15. OtherView \in ViewsOf(c) /\ OtherView \in S /\ BufferOf(OtherView) = c
  BY <1>12, <1>13, <1>14
<1> QED BY <1>11, <1>15

(* Closing the window in use: the view of the window is deleted, and the   *)
(* buffer as well when it has no other one.                                *)
LEMMA CloseFacts ==
  ASSUME TypeOK, ViewsShown, wins # {CurWin}, NEW dead, CloseWindow(dead),
         \/ dead = {}
         \/ dead = {CurBuf} /\ \A v \in ViewsOf(CurBuf) : win[v] = CurWin
  PROVE  /\ Fits'
         /\ ToSet(bufs') = ToSet(bufs) \ dead /\ dead \subseteq {CurBuf}
         /\ \A c \in Buffers : ToSet(vws'[c]) = ViewsOf(c) \ {cur}
         /\ need' = need \ {cur}
         /\ \A v \in Views \ {cur} : style'[v] = style[v]
<1> DEFINE o == OtherView
           b == BufferOf(o)
<1>1. ServerFits /\ ViewsFit /\ WindowsShow
  BY TypeParts, ViewsFitDefined DEF ViewsShown
<1>2. /\ CurBuf \in ToSet(bufs) /\ CurBuf \in Buffers /\ cur \in ViewsOf(CurBuf)
      /\ CurWin \in wins /\ CurWin # NoWin /\ cur \in Views
      /\ \A u \in Views : win[u] = CurWin => u = cur
  BY CurFacts
<1>3. /\ o \in Views /\ win[o] # NoWin /\ win[o] # CurWin
      /\ b \in ToSet(bufs) /\ b \in Buffers /\ o \in ViewsOf(b)
  BY OtherFacts
<1>4. /\ cur' = o /\ bufs' = Keep(FocusMenu(b), Buffers \ dead) /\ wins' = wins \ {CurWin}
      /\ vws' = [c \in Buffers |-> IF c \in dead THEN <<>> ELSE Keep(vws[c], Views \ {cur})]
      /\ win' = [win EXCEPT ![cur] = NoWin]
      /\ style' = [style EXCEPT ![cur] = "plain"]
      /\ need' = need \ {cur}
      /\ doc' = [c \in Buffers |-> IF c \in dead THEN Reset(doc[c]) ELSE doc[c]]
      /\ running' = running /\ question' = question
      /\ Excuse((IF LastMark THEN {CurBuf} ELSE {}) \ dead, dead)
  BY DEF CloseWindow
<1> HIDE DEF b, o
<1>5. bufs' \in Seq(Buffers) /\ IsInjective(bufs') /\ ToSet(bufs') = ToSet(bufs) \ dead
  <2> DEFINE f == FocusMenu(b)
  <2>1. f \in Seq(Buffers) /\ IsInjective(f) /\ ToSet(f) = ToSet(bufs)
    <3>1. b \in Buffers /\ ServerFits
      BY <1>1, <1>3
    <3>2. /\ FocusMenu(b) \in Seq(Buffers) /\ IsInjective(FocusMenu(b))
          /\ ToSet(FocusMenu(b)) = ToSet(bufs) \cup {b}
      BY <3>1, FocusFacts
    <3> QED BY <3>2, <1>3
  <2>2. bufs' = Keep(f, Buffers \ dead)
    BY <1>4
  <2> HIDE DEF f
  <2> QED BY <2>1, <2>2, WithoutFacts
<1>6. \A c \in Buffers : ViewsOf(c) \subseteq Views
  BY <1>1, Emptiness DEF ViewsFit, ViewsOf
<1>7. dead \subseteq {CurBuf} /\ \A c \in dead : ViewsOf(c) \subseteq {cur}
  BY <1>2, <1>6
<1>8. \A c \in Buffers :
        /\ vws'[c] \in Seq(Views) /\ IsInjective(vws'[c])
        /\ ToSet(vws'[c]) = ViewsOf(c) \ {cur}
  <2> TAKE c \in Buffers
  <2>1. CASE c \in dead
    <3> DEFINE e == <<>>
    <3>1. e \in Seq(Views) /\ DOMAIN e = {}
      OBVIOUS
    <3>2. vws'[c] = e
      BY <2>1, <1>4
    <3> HIDE DEF e
    <3>3. ToSet(e) = {} /\ IsInjective(e)
      BY <3>1, Zenon DEF ToSet, IsInjective
    <3>4. ViewsOf(c) \ {cur} = {}
      BY <2>1, <1>7
    <3> QED BY <3>1, <3>2, <3>3, <3>4
  <2>2. CASE c \notin dead
    <3> DEFINE s == vws[c]
               S == Views \ {cur}
    <3>1. s \in Seq(Views) /\ IsInjective(s) /\ ViewsOf(c) = ToSet(s)
      BY <1>1 DEF ViewsFit, ViewsOf
    <3>2. vws'[c] = Keep(s, S)
      BY <2>2, <1>4
    <3> HIDE DEF s, S
    <3>3. Keep(s, S) \in Seq(Views) /\ IsInjective(Keep(s, S)) /\ ToSet(Keep(s, S)) = ToSet(s) \cap S
      BY <3>1, KeepFacts
    <3>4. ToSet(s) \cap S = ViewsOf(c) \ {cur}
      BY <3>1, <1>6 DEF S
    <3> QED BY <3>1, <3>2, <3>3, <3>4
  <2> QED BY <2>1, <2>2
<1>9. vws' \in [Buffers -> Seq(Views)]
  <2>1. vws' = [c \in Buffers |-> vws'[c]]
    BY <1>4
  <2> QED BY <2>1, <1>8
<1>10. /\ win \in [Views -> wins \cup {NoWin}] /\ style \in [Views -> Styles]
       /\ need \subseteq UNION {ViewsOf(c) : c \in Buffers}
       /\ \A c, d \in Buffers : c # d => ViewsOf(c) \cap ViewsOf(d) = {}
       /\ \A c \in Buffers \ ToSet(bufs) : vws[c] = <<>>
       /\ ToSet(bufs) \subseteq Buffers
  BY <1>1 DEF ViewsFit
<1>11. /\ win'[cur] = NoWin /\ \A v \in Views \ {cur} : win'[v] = win[v] /\ win'[v] # CurWin
       /\ DOMAIN win' = Views
  BY <1>2, <1>4, <1>10 DEF CurWin
<1>12. win' \in [Views -> wins' \cup {NoWin}]
  <2>1. \A v \in Views : win'[v] \in wins' \cup {NoWin}
    BY <1>4, <1>10, <1>11
  <2>2. win' = [v \in Views |-> win'[v]]
    BY <1>4, <1>10
  <2> QED BY <2>1, <2>2
<1>13. style' \in [Views -> Styles] /\ \A v \in Views \ {cur} : style'[v] = style[v]
  BY <1>2, <1>4, <1>10 DEF Styles
<1>14. need' \subseteq UNION {ToSet(vws'[c]) : c \in Buffers}
  <2> SUFFICES ASSUME NEW v \in need' PROVE \E c \in Buffers : v \in ToSet(vws'[c])
    OBVIOUS
  <2>1. v \in need /\ v # cur
    BY <1>4
  <2>2. PICK c \in Buffers : v \in ViewsOf(c)
    BY <2>1, <1>10
  <2> QED BY <2>1, <2>2, <1>8
<1>15. \A c \in Buffers \ ToSet(bufs') : vws'[c] = <<>>
  <2> TAKE c \in Buffers \ ToSet(bufs')
  <2>1. vws'[c] \in Seq(Views) /\ ToSet(vws'[c]) = ViewsOf(c) \ {cur}
    BY <1>8
  <2>2. ToSet(vws'[c]) = {}
    <3>1. CASE c \in dead
      BY <3>1, <2>1, <1>7
    <3>2. CASE c \notin dead
      <4>1. vws[c] = <<>> /\ vws[c] \in Seq(Views)
        BY <3>2, <1>1, <1>5 DEF ViewsFit
      <4>2. ViewsOf(c) = {}
        BY <4>1, Emptiness DEF ViewsOf
      <4> QED BY <4>2, <2>1
    <3> QED BY <3>1, <3>2
  <2> QED BY <2>1, <2>2, Emptiness
<1>16. \A c, d \in Buffers : c # d => ToSet(vws'[c]) \cap ToSet(vws'[d]) = {}
  <2> TAKE c, d \in Buffers
  <2> SUFFICES ASSUME c # d PROVE ToSet(vws'[c]) \cap ToSet(vws'[d]) = {}
    OBVIOUS
  <2>1. ViewsOf(c) \cap ViewsOf(d) = {}
    BY <1>10
  <2>2. ToSet(vws'[c]) = ViewsOf(c) \ {cur} /\ ToSet(vws'[d]) = ViewsOf(d) \ {cur}
    BY <1>8
  <2> QED BY <2>1, <2>2
<1>17. ToSet(bufs') \subseteq Buffers
  BY <1>5, <1>10
<1>18. ViewsFit'
  <2>1. \A c \in Buffers : IsInjective(vws'[c])
    BY <1>8
  <2> QED BY <2>1, <1>9, <1>12, <1>13, <1>14, <1>15, <1>16, <1>17, Zenon DEF ViewsFit, ViewsOf
<1>19. WindowsShow'
  <2>1. \A w \in wins' : \E v \in Views : {u \in Views : win'[u] = w} = {v}
    <3> TAKE w \in wins'
    <3>1. w \in wins /\ w # CurWin
      BY <1>4
    <3>2. PICK v : Shows(win, w, v)
      BY <3>1, <1>1, ShownBefore
    <3>3. v \in Views /\ win[v] = w /\ \A u \in Views : win[u] = w => u = v
      BY <3>2, Zenon DEF Shows
    <3>4. w # NoWin
      BY <3>1, WindowsAssumption DEF TypeOK
    <3>5. v # cur
      BY <3>1, <3>3 DEF CurWin
    <3>6. {u \in Views : win'[u] = w} = {v}
      BY <3>3, <3>4, <3>5, <1>11
    <3> QED BY <3>3, <3>6, Zenon
  <2>2. \A v \in Views : win'[v] # NoWin => \E c \in ToSet(bufs') : v \in ToSet(vws'[c])
    <3> SUFFICES ASSUME NEW v \in Views, win'[v] # NoWin
                 PROVE  \E c \in ToSet(bufs') : v \in ToSet(vws'[c])
      OBVIOUS
    <3>1. v # cur /\ win[v] # NoWin
      BY <1>11
    <3>2. PICK c \in ToSet(bufs) : v \in ViewsOf(c)
      BY <3>1, <1>1, ShownBefore
    <3>3. c \in Buffers /\ c \notin dead
      BY <3>1, <3>2, <1>7, <1>10
    <3> QED BY <3>1, <3>2, <3>3, <1>5, <1>8
  <2> QED BY <2>1, <2>2, Zenon DEF WindowsShow, ViewsOf
<1>20. CurrentShown'
  <2>1. o # cur
    BY <1>3 DEF CurWin
  <2>2. b \notin dead
    BY <2>1, <1>3, <1>7
  <2>3. b \in ToSet(bufs') /\ cur' \in ToSet(vws'[b])
    BY <2>1, <2>2, <1>3, <1>4, <1>5, <1>8
  <2>4. win[o] \in wins
    BY <1>3, <1>10
  <2>5. win'[cur'] \in wins'
    BY <2>1, <2>4, <1>3, <1>4, <1>11
  <2> QED BY <2>3, <2>5, Zenon DEF CurrentShown, CurWin, ViewsOf
<1>21. doc' \in [Buffers -> Docs]
  <2>1. doc \in [Buffers -> Docs]
    BY <1>1 DEF ServerFits
  <2>2. \A c \in Buffers : doc[c] \in Docs /\ Reset(doc[c]) \in Docs
    BY <2>1, ResetFacts
  <2> QED BY <2>2, <1>4
<1>22. excused' \subseteq Buffers
  BY <1>1, <1>2, <1>4 DEF ServerFits, Excuse
<1>23. wins' \subseteq Wins
  BY <1>4 DEF TypeOK
<1>24. ServerFits'
  BY <1>1, <1>3, <1>4, <1>5, <1>21, <1>22, <1>23 DEF ServerFits
<1> QED BY <1>4, <1>5, <1>7, <1>8, <1>13, <1>18, <1>19, <1>20, <1>24 DEF Fits, ViewsShown
(* Every command fits: one lemma of the above for each.                    *)
LEMMA CommandFits ==
  ASSUME TypeOK, ViewsShown, Next
  PROVE  Fits' /\ EventsFit'
<1>1. EventsFit /\ ServerFits
  BY TypeParts
<1>2. CurBuf \in Buffers /\ ToSet(bufs) \subseteq Buffers
  BY <1>1, CurFacts, ServerIsTyped
<1>3. Step => events' \in 0 .. MaxEvents
  BY <1>1, WindowsAssumption DEF EventsFit, Step
<1>4. Step => EventsFit'
  BY <1>3 DEF EventsFit
<1>6. CASE Show
  <2>1. ASSUME NEW b \in Buffers, SwitchToBuffer(b) PROVE Fits' /\ EventsFit'
    BY <2>1, <1>4, SwitchFacts DEF SwitchToBuffer
  <2>2. ASSUME NEW b \in Buffers, SwitchToActiveBuffer(b) PROVE Fits' /\ EventsFit'
    BY <2>2, <1>4, ToActiveFacts DEF SwitchToActiveBuffer
  <2>3. ASSUME NEW b \in Buffers, NEW w \in Wins, Step, NewWindow(b, w) PROVE Fits' /\ EventsFit'
    BY <2>3, <1>4, NewWindowFacts DEF NewWindow
  <2>4. ASSUME NEW b \in Buffers, NEW w \in Wins, WindowSetBuffer(w, b) PROVE Fits' /\ EventsFit'
    BY <2>4, <1>4, SetBufferFacts DEF WindowSetBuffer
  <2>5. ASSUME NEW w \in Wins, WindowFocus(w) \/ FocusOnEditor(w) PROVE Fits' /\ EventsFit'
    BY <2>5, <1>4, WindowFocusFacts DEF WindowFocus, FocusOnEditor
  <2> QED BY <1>2, <1>6, <2>1, <2>2, <2>3, <2>4, <2>5, Zenon DEF Show, OpenWindow, CloneWindow
<1>7. CASE Change
  <2>1. Step
    BY <1>7, Zenon DEF Change, ModifyBuffer, SaveBuffer, RevertBuffer, InitStyle, InitEnv
  <2> QED BY <2>1, <1>4, <1>7, ChangeFacts DEF Change
<1>8. CASE Close
  <2>1. ASSUME NEW q \in Questions, Ask(q), Step PROVE Fits' /\ EventsFit'
    BY <2>1, <1>4, QuitOrAskFacts DEF Ask
  <2>2. ASSUME Quit PROVE Fits'
    BY <2>2, QuitOrAskFacts
  <2>3. ASSUME KillBuffer PROVE Fits'
    <3>1. CASE Len(bufs) <= 1
      BY <2>2, <2>3, <3>1 DEF KillBuffer
    <3>2. CASE ~(Len(bufs) <= 1)
      BY <2>3, <3>2, KillFacts
    <3> QED BY <3>1, <3>2
  <2>4. CASE SafelyKillBuffer
    <3>1. CASE NeedsSave(CurBuf)
      <4>1. [what |-> "buffer", buf |-> CurBuf] \in Questions
        BY <1>2 DEF Questions
      <4> QED BY <4>1, <2>1, <2>4, <3>1, Zenon DEF SafelyKillBuffer
    <3>2. CASE ~NeedsSave(CurBuf)
      <4>1. Step /\ KillBuffer
        BY <2>4, <3>2, Zenon DEF SafelyKillBuffer
      <4> QED BY <4>1, <2>3, <1>4, Zenon
    <3> QED BY <3>1, <3>2
  <2>5. CASE KillWindow
    <3>1. Step /\ wins # {CurWin} /\ CloseWindow({})
      BY <2>5, Zenon DEF KillWindow
    <3>2. Fits'
      BY <3>1, CloseFacts
    <3> QED BY <3>1, <3>2, <1>4
  <2>6. CASE KillWindowAndBuffer
    <3>1. CASE Len(bufs) <= 1 \/ wins = {CurWin}
      BY <2>2, <2>6, <3>1, <1>4 DEF KillWindowAndBuffer
    <3>2. CASE ~(Len(bufs) <= 1 \/ wins = {CurWin})
      <4> DEFINE dead == IF \A v \in ViewsOf(CurBuf) : win[v] = CurWin THEN {CurBuf} ELSE {}
      <4>1. Step /\ wins # {CurWin} /\ CloseWindow(dead)
        BY <2>6, <3>2, Zenon DEF KillWindowAndBuffer
      <4>2. \/ dead = {}
            \/ dead = {CurBuf} /\ \A v \in ViewsOf(CurBuf) : win[v] = CurWin
        BY Zenon
      <4> HIDE DEF dead
      <4>3. Fits'
        BY <4>1, <4>2, CloseFacts
      <4> QED BY <4>1, <4>3, <1>4
    <3> QED BY <3>1, <3>2
  <2>7. CASE SafelyQuit
    <3>1. CASE ExistsUnsaved
      <4>1. [what |-> "quit"] \in Questions
        BY DEF Questions
      <4> QED BY <4>1, <2>1, <2>7, <3>1, Zenon DEF SafelyQuit
    <3>2. CASE ~ExistsUnsaved
      <4>1. Step /\ Quit
        BY <2>7, <3>2, Zenon DEF SafelyQuit
      <4> QED BY <4>1, <2>2, <1>4, Zenon
    <3> QED BY <3>1, <3>2
  <2>8. CASE AnswerYes
    <3>1. Step /\ (Quit \/ KillBuffer)
      BY <2>8, Zenon DEF AnswerYes
    <3> QED BY <3>1, <2>2, <2>3, <1>4, Zenon
  <2>9. CASE AnswerNo
    <3>1. NoQuestion \in Questions
      BY DEF Questions
    <3> QED BY <3>1, <2>1, <2>9, Zenon DEF AnswerNo
  <2> QED BY <1>8, <2>4, <2>5, <2>6, <2>7, <2>8, <2>9, Zenon DEF Close
<1> QED BY <1>6, <1>7, <1>8 DEF Next

-----------------------------------------------------------------------------
(* What is typed and what is shown *)

LEMMA TypeFromParts == Fits /\ EventsFit => TypeOK /\ ViewsShown
BY Zenon DEF Fits, ServerFits, ViewsFit, EventsFit, TypeOK, Docs

LEMMA InitFits == Init => TypeOK /\ ViewsShown
<1> SUFFICES ASSUME NEW b \in Buffers \ Hidden, NEW w \in Wins,
                    /\ running = TRUE
                    /\ bufs = <<b>>
                    /\ doc = [c \in Buffers |->
                                [scratch |-> c \in Scratch, changed |-> FALSE,
                                 file |-> IF c \in Scratch THEN "article" ELSE "plain",
                                 loaded |-> "plain"]]
                    /\ vws = [c \in Buffers |-> IF c = b THEN << 1 >> ELSE <<>>]
                    /\ win = [v \in Views |-> IF v = 1 THEN w ELSE NoWin]
                    /\ style = [v \in Views |-> IF v = 1 /\ b \in Scratch THEN "article" ELSE "plain"]
                    /\ need = {} /\ wins = {w} /\ cur = 1 /\ question = NoQuestion
                    /\ excused = {} /\ events = 0
             PROVE  TypeOK /\ ViewsShown
  BY Zenon DEF Init
<1>1. 1 \in Views /\ 0 \in 0 .. MaxEvents
  BY WindowsAssumption DEF Views
<1>2. w # NoWin
  BY WindowsAssumption
<1> DEFINE one == <<1>>
           none == <<>>
           menu == <<b>>
<1>3. /\ one \in Seq(Views) /\ DOMAIN one = {1} /\ one[1] = 1
      /\ none \in Seq(Views) /\ DOMAIN none = {}
      /\ menu \in Seq(Buffers) /\ DOMAIN menu = {1} /\ menu[1] = b
  BY <1>1
<1>4. bufs = menu /\ vws = [c \in Buffers |-> IF c = b THEN one ELSE none]
  OBVIOUS
<1> HIDE DEF one, none, menu
<1>5. /\ ToSet(one) = {1} /\ IsInjective(one) /\ ToSet(none) = {} /\ IsInjective(none)
      /\ ToSet(menu) = {b} /\ IsInjective(menu)
  BY <1>3, Zenon DEF ToSet, IsInjective
<1>6. \A c \in Buffers : ViewsOf(c) = IF c = b THEN {1} ELSE {}
  BY <1>4, <1>5 DEF ViewsOf
<1>7. ViewsFit
  <2>1. vws \in [Buffers -> Seq(Views)] /\ \A c \in Buffers : IsInjective(vws[c])
    <3>1. \A c \in Buffers : vws[c] = one \/ vws[c] = none
      BY <1>4
    <3>2. vws \in [Buffers -> Seq(Views)]
      BY <1>3, <1>4
    <3> QED BY <3>1, <3>2, <1>5, Zenon
  <2>2. \A c, d \in Buffers : c # d => ViewsOf(c) \cap ViewsOf(d) = {}
    BY <1>6
  <2>3. \A c \in Buffers \ ToSet(bufs) : vws[c] = <<>>
    BY <1>4, <1>5 DEF none
  <2>4. win \in [Views -> wins \cup {NoWin}] /\ style \in [Views -> Styles]
    BY DEF Styles
  <2>5. ToSet(bufs) \subseteq Buffers
    BY <1>4, <1>5
  <2>6. need \subseteq UNION {ViewsOf(c) : c \in Buffers}
    OBVIOUS
  <2> QED BY <2>1, <2>2, <2>3, <2>4, <2>5, <2>6, Zenon DEF ViewsFit
<1>8. ViewsShown
  <2>1. b \in ToSet(bufs) /\ 1 \in ViewsOf(b) /\ ToSet(bufs) = {b}
    BY <1>4, <1>5, <1>6
  <2>2. win[1] = w /\ \A v \in Views : v # 1 => win[v] = NoWin
    BY <1>1
  <2>3. \A x \in wins : \E v \in Views : {u \in Views : win[u] = x} = {v}
    <3> TAKE x \in wins
    <3>1. {u \in Views : win[u] = x} = {1}
      BY <1>1, <1>2, <2>2
    <3> QED BY <3>1, <1>1
  <2>4. \A v \in Views : win[v] # NoWin => \E c \in ToSet(bufs) : v \in ViewsOf(c)
    BY <2>1, <2>2
  <2>5. CurWin \in wins /\ cur \in ViewsOf(b)
    BY <2>1, <2>2 DEF CurWin
  <2> QED BY <2>1, <2>3, <2>4, <2>5, Zenon DEF ViewsShown, WindowsShow, CurrentShown
<1>9. doc \in [Buffers -> Docs]
  <2> SUFFICES ASSUME NEW c \in Buffers PROVE doc[c] \in Docs
    OBVIOUS
  <2> DEFINE h == c \in Scratch
  <2>1. h \in BOOLEAN
    OBVIOUS
  <2>2. doc[c] = [scratch |-> h, changed |-> FALSE,
                  file |-> IF h THEN "article" ELSE "plain", loaded |-> "plain"]
    BY Zenon
  <2> HIDE DEF h
  <2> QED BY <2>1, <2>2 DEF Docs, Styles
<1>10. ServerFits
  <2>1. bufs \in Seq(Buffers) /\ IsInjective(bufs)
    BY <1>3, <1>4, <1>5
  <2>2. running \in BOOLEAN /\ question \in Questions /\ wins \subseteq Wins /\ cur \in Views
    BY <1>1 DEF Questions
  <2> QED BY <2>1, <2>2, <1>9 DEF ServerFits
<1>11. EventsFit
  BY <1>1 DEF EventsFit
<1> QED BY <1>7, <1>8, <1>10, <1>11, TypeFromParts DEF Fits
LEMMA StepFits == TypeOK /\ ViewsShown /\ [Next]_vars => TypeOK' /\ ViewsShown'
<1> SUFFICES ASSUME TypeOK, ViewsShown, [Next]_vars PROVE TypeOK' /\ ViewsShown'
  OBVIOUS
<1>1. CASE Next
  <2>1. Fits' /\ EventsFit'
    BY <1>1, CommandFits
  <2> QED BY <2>1, Zenon DEF Fits, ServerFits, ViewsFit, EventsFit, TypeOK, Docs
<1>2. CASE UNCHANGED vars
  <2>1. /\ running' = running /\ bufs' = bufs /\ doc' = doc /\ vws' = vws /\ win' = win
        /\ style' = style /\ need' = need /\ wins' = wins /\ cur' = cur
        /\ question' = question /\ excused' = excused /\ events' = events
    BY <1>2 DEF vars
  <2>2. ServerFits /\ ViewsFit /\ EventsFit
    BY TypeParts, ViewsFitDefined
  <2>3. ViewsFit' /\ ViewsShown'
    BY <2>1, <2>2, SameShown DEF ViewsFit
  <2>4. ServerFits' /\ EventsFit'
    BY <2>1, <2>2, Zenon DEF ServerFits, EventsFit
  <2> QED BY <2>3, <2>4, Zenon DEF ServerFits, ViewsFit, EventsFit, TypeOK, Docs
<1> QED BY <1>1, <1>2

(* The types of the variables: a buffer is listed once, and every view     *)
(* belongs to one buffer, which is listed.                                 *)
THEOREM WindowsTypeOK == Spec => []TypeOK
<1>1. TypeOK /\ ViewsShown /\ [Next]_vars => (TypeOK /\ ViewsShown)'
  BY StepFits
<1> QED BY <1>1, InitFits, PTL DEF Spec

(* Whatever is closed in whichever order, every open window shows one view *)
(* of a listed buffer, and the view in use is one of them: what get_view,  *)
(* get_window and window_find_view take for granted.                       *)
THEOREM ShownAndInUseFit == Spec => []ViewsShown
<1>1. TypeOK /\ ViewsShown /\ [Next]_vars => (TypeOK /\ ViewsShown)'
  BY StepFits
<1> QED BY <1>1, InitFits, PTL DEF Spec

-----------------------------------------------------------------------------
(* What is known to be unsaved *)

(* A buffer without a name has the default style in its file, and one that *)
(* is not listed has nothing that was typed.                               *)
FilesFit ==
  \A b \in Buffers :
    /\ doc[b].scratch => doc[b].file = "article"
    /\ b \notin ToSet(bufs) => ~doc[b].changed

(* A change of b that nothing marks.                                       *)
Hides(b) == Differs(b) /\ ~NeedsSave(b)

(* Nothing that counts as a change of c or as its mark is touched, except  *)
(* that c may lose views that have no mark and get marks.                  *)
Untouched(c) ==
  /\ doc'[c] = doc[c]
  /\ \A v \in ToSet(vws'[c]) : v \in ViewsOf(c) /\ style'[v] = style[v]
  /\ \A v \in ViewsOf(c) \cap need : v \in ToSet(vws'[c]) /\ v \in need'

LEMMA KnownStep ==
  ASSUME UnsavedIsKnown, ToSet(bufs') \subseteq Buffers,
         \A c \in ToSet(bufs') \ excused' :
           (c \in ToSet(bufs) \ excused /\ Untouched(c)) \/ ~Hides(c)'
  PROVE  UnsavedIsKnown'
<1> SUFFICES ASSUME NEW c \in ToSet(bufs') \ excused', Differs(c)', ~NeedsSave(c)' PROVE FALSE
  BY Zenon DEF UnsavedIsKnown
<1>1. Hides(c)'
  BY Zenon DEF Hides
<1>2. c \in ToSet(bufs) \ excused /\ Untouched(c)
  BY <1>1
<1>3. Differs(c)
  <2>1. c \notin Hidden /\ (doc'[c].changed \/ \E v \in ToSet(vws'[c]) : style'[v] # doc'[c].file)
    BY Zenon DEF Differs, ViewsOf
  <2>2. doc'[c] = doc[c] /\ \A v \in ToSet(vws'[c]) : v \in ViewsOf(c) /\ style'[v] = style[v]
    BY <1>2, Zenon DEF Untouched
  <2> QED BY <2>1, <2>2, Zenon DEF Differs
<1>4. NeedsSave(c)
  BY <1>2, <1>3, Zenon DEF UnsavedIsKnown
<1>5. PICK v \in ViewsOf(c) : v \in need
  BY <1>4 DEF NeedsSave
<1>6. c \notin Hidden /\ v \in ToSet(vws'[c]) \cap need'
  BY <1>2, <1>4, <1>5 DEF Untouched, NeedsSave
<1> QED BY <1>6 DEF NeedsSave, ViewsOf

LEMMA AttachUntouched ==
  ASSUME NEW got, NEW b, NEW ws, NEW old, NEW gone, Attached(got, b, ws, old, gone),
         NEW c \in Buffers \ {b}, doc'[c] = doc[c], ViewsOf(c) \cap gone = {}
  PROVE  Untouched(c)
<1>1. /\ \A d \in Buffers \ {b} : ToSet(vws'[d]) = ViewsOf(d) \ gone
      /\ \A d \in Buffers \ {b} : \A v \in ViewsOf(d) \ gone : style'[v] = style[v]
      /\ \A d \in Buffers \ {b} : \A v \in (need \cap ViewsOf(d)) \ gone : v \in need'
  BY Zenon DEF Attached
<1>2. ToSet(vws'[c]) = ViewsOf(c)
  BY <1>1
<1> QED BY <1>1, <1>2 DEF Untouched

(* The buffer that is shown: its new views have the style of new views,    *)
(* and its marks stay unless a new view is made of a buffer without a name.*)
LEMMA AttachOwn ==
  ASSUME TypeOK, NEW b \in Buffers, NEW ws, NEW old, NEW gone, gone \cap ViewsOf(b) = {},
         Attach(b, ws, old, gone), Attached(GetViews(b, ws), b, ws, old, gone)
  PROVE  LET got == ToSet(GetViews(b, ws)) IN
         /\ ToSet(vws'[b]) = ViewsOf(b) \cup got
         /\ \A v \in ViewsOf(b) : style'[v] = style[v]
         /\ \A v \in got \ ViewsOf(b) : style'[v] = StyleOfNew(b)
         /\ got \subseteq ViewsOf(b) \/ ~doc[b].scratch => \A v \in ViewsOf(b) \cap need : v \in need'
<1> DEFINE got == ToSet(GetViews(b, ws))
           fresh == got \ ViewsOf(b)
<1>1. /\ style' = [v \in Views |->
                     IF v \in fresh THEN StyleOfNew(b)
                     ELSE IF v \in gone THEN "plain" ELSE style[v]]
      /\ need' = NeedAfterNew(b, fresh) \ gone
  BY Zenon DEF Attach
<1>2. ToSet(vws'[b]) = ViewsOf(b) \cup got
  BY Zenon DEF Attached
<1>3. got \subseteq Views /\ ViewsOf(b) \subseteq Views
  <2>1. GetViews(b, ws) \in Seq(Views) /\ vws[b] \in Seq(Views)
    BY ViewsFitDefined DEF Attached, ViewsFit
  <2> QED BY <2>1, Emptiness DEF ViewsOf
<1> HIDE DEF got
<1>4. \A v \in ViewsOf(b) : style'[v] = style[v]
  BY <1>1, <1>3
<1>5. \A v \in got \ ViewsOf(b) : style'[v] = StyleOfNew(b)
  BY <1>1, <1>3
<1>6. ASSUME got \subseteq ViewsOf(b) \/ ~doc[b].scratch, NEW v \in ViewsOf(b) \cap need
      PROVE  v \in need'
  <2>1. ~(fresh # {} /\ doc[b].scratch)
    BY <1>6
  <2>2. need' = (need \ fresh) \ gone
    BY <1>1, <2>1, Zenon DEF NeedAfterNew
  <2> QED BY <2>2, <1>6
<1> QED BY <1>2, <1>4, <1>5, <1>6 DEF got

(* Showing a buffer hides nothing when it has not leaked before and does   *)
(* not leak now.                                                           *)
LEMMA ShownNotHidden ==
  ASSUME TypeOK, FilesFit, UnsavedIsKnown, NEW b \in Buffers \ excused, NEW ws, NEW old, NEW gone,
         gone \cap ViewsOf(b) = {}, Attach(b, ws, old, gone),
         Attached(GetViews(b, ws), b, ws, old, gone), ~Leaks(b, ws), doc'[b] = doc[b]
  PROVE  ~Hides(b)'
<1> DEFINE got == ToSet(GetViews(b, ws))
<1>1. Differs(b) => NeedsSave(b)
  <2>1. CASE b \in ToSet(bufs)
    BY <2>1 DEF UnsavedIsKnown
  <2>2. CASE b \notin ToSet(bufs)
    <3>1. vws[b] = <<>> /\ ~doc[b].changed
      BY <2>2, ViewsFitDefined DEF ViewsFit, FilesFit
    <3>2. ViewsOf(b) = {}
      BY <3>1 DEF ViewsOf, ToSet
    <3> QED BY <3>1, <3>2, Zenon DEF Differs
  <2> QED BY <2>1, <2>2
<1>2. /\ ToSet(vws'[b]) = ViewsOf(b) \cup got
      /\ \A v \in ViewsOf(b) : style'[v] = style[v]
      /\ \A v \in got \ ViewsOf(b) : style'[v] = StyleOfNew(b)
      /\ got \subseteq ViewsOf(b) \/ ~doc[b].scratch => \A v \in ViewsOf(b) \cap need : v \in need'
  BY AttachOwn
<1> HIDE DEF got
<1>3. doc[b].scratch => doc[b].file = "article"
  BY DEF FilesFit
<1>4. CASE got \subseteq ViewsOf(b)
  <2>1. Differs(b)' => Differs(b)
    <3>1. \A v \in ToSet(vws'[b]) : v \in ViewsOf(b) /\ style'[v] = style[v]
      BY <1>2, <1>4
    <3> QED BY <3>1, Zenon DEF Differs, ViewsOf
  <2>2. NeedsSave(b) => NeedsSave(b)'
    <3>1. \A v \in ViewsOf(b) \cap need : v \in ToSet(vws'[b]) /\ v \in need'
      BY <1>2, <1>4
    <3> QED BY <3>1 DEF NeedsSave, ViewsOf
  <2> QED BY <1>1, <2>1, <2>2, Zenon DEF Hides
<1>5. CASE ~(got \subseteq ViewsOf(b))
  <2>1. IF doc[b].scratch THEN ViewsOf(b) \cap need = {} ELSE doc[b].loaded = doc[b].file
    BY <1>5 DEF Leaks, got
  <2>2. StyleOfNew(b) = doc[b].file
    BY <1>3, <2>1, Zenon DEF StyleOfNew
  <2>3. Differs(b)' => Differs(b)
    <3>1. \A v \in ToSet(vws'[b]) :
            (style'[v] = doc[b].file) \/ (v \in ViewsOf(b) /\ style'[v] = style[v])
      BY <1>2, <2>2
    <3> QED BY <3>1, Zenon DEF Differs, ViewsOf
  <2>4. CASE doc[b].scratch
    <3>1. ~NeedsSave(b)
      BY <2>1, <2>4 DEF NeedsSave
    <3> QED BY <1>1, <2>3, <3>1, Zenon DEF Hides
  <2>5. CASE ~doc[b].scratch
    <3>1. \A v \in ViewsOf(b) \cap need : v \in ToSet(vws'[b]) /\ v \in need'
      BY <1>2, <2>5
    <3>2. NeedsSave(b) => NeedsSave(b)'
      BY <3>1 DEF NeedsSave, ViewsOf
    <3> QED BY <1>1, <2>3, <3>2, Zenon DEF Hides
  <2> QED BY <2>4, <2>5
<1> QED BY <1>4, <1>5

(* Nothing but the list of the buffers and the view in use is changed.     *)
LEMMA SameKnown ==
  ASSUME UnsavedIsKnown, UNCHANGED <<doc, vws, style, need, excused>>,
         ToSet(bufs') = ToSet(bufs)
  PROVE  UnsavedIsKnown'
<1>1. doc' = doc /\ vws' = vws /\ style' = style /\ need' = need /\ excused' = excused
  OBVIOUS
<1> QED BY <1>1, Zenon DEF UnsavedIsKnown, Differs, NeedsSave, ViewsOf

(* A window shows b.                                                       *)
LEMMA ShowKnown ==
  ASSUME TypeOK, FilesFit, UnsavedIsKnown, Fits', NEW b \in Buffers, NEW ws, NEW old,
         Attach(b, ws, old, {}), Attached(GetViews(b, ws), b, ws, old, {}),
         ToSet(bufs') \subseteq ToSet(bufs) \cup {b}, doc' = doc,
         Excuse({c \in {b} : Leaks(c, ws)}, {})
  PROVE  UnsavedIsKnown'
<1>1. ToSet(bufs') \subseteq Buffers
  BY DEF Fits, ViewsFit
<1>2. excused' = excused \cup {c \in {b} : Leaks(c, ws)}
  BY DEF Excuse
<1> DEFINE none == {}
<1>3. /\ Attach(b, ws, old, none) /\ Attached(GetViews(b, ws), b, ws, old, none)
      /\ \A c : ViewsOf(c) \cap none = {} /\ none \cap ViewsOf(c) = {}
  OBVIOUS
<1> HIDE DEF none
<1>4. ASSUME NEW c \in ToSet(bufs') \ excused'
      PROVE  (c \in ToSet(bufs) \ excused /\ Untouched(c)) \/ ~Hides(c)'
  <2>1. c \notin excused /\ c \in Buffers /\ doc'[c] = doc[c]
    BY <1>1, <1>2, <1>4
  <2>2. CASE c = b
    <3>1. ~Leaks(b, ws) /\ b \in Buffers \ excused /\ doc'[b] = doc[b]
      BY <2>1, <2>2, <1>2, <1>4
    <3>2. ~Hides(b)'
      BY <3>1, <1>3, ShownNotHidden
    <3> QED BY <2>2, <3>2
  <2>3. CASE c # b
    <3>1. c \in ToSet(bufs) /\ c \in Buffers \ {b}
      BY <2>1, <2>3, <1>4
    <3>2. Untouched(c)
      BY <3>1, <2>1, <1>3, AttachUntouched
    <3> QED BY <2>1, <3>1, <3>2
  <2> QED BY <2>2, <2>3
<1> QED BY <1>1, <1>4, KnownStep

LEMMA ShowCommands ==
  ASSUME TypeOK, ViewsShown, FilesFit, UnsavedIsKnown, Show
  PROVE  UnsavedIsKnown'
<1>0. ServerFits
  BY TypeParts
<1>1. CurBuf \in ToSet(bufs) /\ CurBuf \in Buffers
  BY CurFacts
<1>2. ASSUME NEW b \in Buffers, SwitchToBuffer(b) PROVE UnsavedIsKnown'
  <2> DEFINE ws == <<CurWin>>
             old == {cur}
  <2>1. Fits' /\ Attached(GetViews(b, ws), b, ws, old, {})
    BY <1>2, SwitchFacts
  <2>2. ToSet(bufs') \subseteq ToSet(bufs) \cup {b} /\ doc' = doc
    BY <1>0, <1>2, FocusFacts DEF SwitchToBuffer
  <2>3. Attach(b, ws, old, {}) /\ Excuse({c \in {b} : Leaks(c, ws)}, {})
    BY <1>2, Zenon DEF SwitchToBuffer
  <2> HIDE DEF ws, old
  <2> QED BY <2>1, <2>2, <2>3, ShowKnown
<1>3. ASSUME NEW b \in Buffers, NEW w \in Wins, NewWindow(b, w) PROVE UnsavedIsKnown'
  <2> DEFINE ws == <<w>>
             old == {}
  <2>1. Fits' /\ Attached(GetViews(b, ws), b, ws, old, {})
    BY <1>3, NewWindowFacts
  <2>2. ToSet(bufs') \subseteq ToSet(bufs) \cup {b} /\ doc' = doc
    BY <1>0, <1>3, FocusFacts DEF NewWindow
  <2>3. Attach(b, ws, old, {}) /\ Excuse({c \in {b} : Leaks(c, ws)}, {})
    BY <1>3, Zenon DEF NewWindow
  <2> HIDE DEF ws, old
  <2> QED BY <2>1, <2>2, <2>3, ShowKnown
<1>4. ASSUME NEW b \in Buffers, NEW w \in Wins, WindowSetBuffer(w, b) PROVE UnsavedIsKnown'
  <2> DEFINE ws == <<w>>
             old == {WindowFindView(w)}
  <2>1. Fits' /\ Attached(GetViews(b, ws), b, ws, old, {})
    BY <1>4, SetBufferFacts
  <2>2. ToSet(bufs') \subseteq ToSet(bufs) \cup {b} /\ doc' = doc
    BY <1>4 DEF WindowSetBuffer
  <2>3. Attach(b, ws, old, {}) /\ Excuse({c \in {b} : Leaks(c, ws)}, {})
    BY <1>4, Zenon DEF WindowSetBuffer
  <2> HIDE DEF ws, old
  <2> QED BY <2>1, <2>2, <2>3, ShowKnown
<1>5. ASSUME NEW b \in Buffers, SwitchToActiveBuffer(b) PROVE UnsavedIsKnown'
  <2>1. UNCHANGED <<doc, vws, style, need, excused>> /\ ToSet(bufs') = ToSet(bufs)
    BY <1>5, ToActiveFacts DEF SwitchToActiveBuffer, views
  <2> QED BY <2>1, SameKnown
<1>6. ASSUME NEW w \in Wins, WindowFocus(w) \/ FocusOnEditor(w) PROVE UnsavedIsKnown'
  <2>1. ToSet(bufs') = ToSet(bufs)
    BY <1>6, WindowFocusFacts
  <2>2. UNCHANGED <<doc, vws, style, need, excused>>
    BY <1>6 DEF WindowFocus, FocusOnEditor, views
  <2> QED BY <2>1, <2>2, SameKnown
<1>7. Scratch \cup Hidden \subseteq Buffers
  BY WindowsAssumption
<1> QED BY <1>1, <1>2, <1>3, <1>4, <1>5, <1>6, Zenon DEF Show, OpenWindow, CloneWindow

LEMMA ChangeCommands ==
  ASSUME TypeOK, ViewsShown, UnsavedIsKnown, Change
  PROVE  UnsavedIsKnown'
<1>0. ServerFits /\ ViewsFit
  BY TypeParts, ViewsFitDefined
<1>1. /\ CurBuf \in ToSet(bufs) /\ CurBuf \in Buffers /\ cur \in ViewsOf(CurBuf)
      /\ ToSet(bufs) \subseteq Buffers /\ cur \in Views
  BY <1>0, CurFacts, ServerIsTyped
<1>2. /\ doc \in [Buffers -> Docs] /\ style \in [Views -> Styles]
      /\ \A c \in Buffers : ViewsOf(c) \subseteq Views
      /\ \A c \in Buffers : c # CurBuf => ViewsOf(c) \cap ViewsOf(CurBuf) = {}
  BY <1>0, <1>1, Emptiness DEF ServerFits, ViewsFit, ViewsOf
<1>3. bufs' = bufs /\ vws' = vws
  BY <1>1, Zenon DEF Change, ModifyBuffer, SaveBuffer, RevertBuffer, InitStyle, InitEnv
<1>4. \A c : ToSet(vws'[c]) = ViewsOf(c)
  BY <1>3 DEF ViewsOf
<1>5. ASSUME NEW c \in ToSet(bufs), c # CurBuf
      PROVE  Untouched(c) /\ (c \notin excused' => c \notin excused)
  <2>1. c \in Buffers /\ ViewsOf(c) \cap ViewsOf(CurBuf) = {} /\ cur \notin ViewsOf(c)
    BY <1>1, <1>2, <1>5
  <2>2. CASE ModifyBuffer
    BY <2>1, <2>2, <1>2, <1>4, <1>5 DEF ModifyBuffer, Untouched
  <2>3. CASE SaveBuffer
    BY <2>1, <2>3, <1>2, <1>4, <1>5 DEF SaveBuffer, Untouched, Excuse
  <2>4. CASE RevertBuffer
    BY <2>1, <2>4, <1>2, <1>4, <1>5 DEF RevertBuffer, Untouched, Excuse
  <2>5. ASSUME NEW s \in Styles, InitStyle(s) \/ InitEnv(s)
        PROVE  Untouched(c) /\ (c \notin excused' => c \notin excused)
    BY <2>1, <2>5, <1>2, <1>4, <1>5 DEF InitStyle, InitEnv, Untouched, Excuse
  <2> QED BY <2>2, <2>3, <2>4, <2>5 DEF Change
<1>6. \A b : b = CurBuf /\ b \notin excused' => ~Hides(b)'
  <2> SUFFICES ASSUME NEW b, b = CurBuf, b \notin excused' PROVE ~Hides(b)'
    OBVIOUS
  <2>1. ~\E s \in Styles : InitEnv(s)
    BY DEF InitEnv, Excuse
  <2>2. CASE ModifyBuffer \/ \E s \in Styles : InitStyle(s)
    <3>1. cur \in ToSet(vws'[b]) /\ cur \in need' /\ b \notin Hidden
      BY <2>2, <1>1, <1>4 DEF ModifyBuffer, InitStyle
    <3>2. NeedsSave(b)'
      BY <3>1 DEF NeedsSave, ViewsOf
    <3> QED BY <3>2, Zenon DEF Hides
  <2>3. CASE SaveBuffer
    <3>1. doc'[b].changed = FALSE /\ doc'[b].file = style[cur]
      <4>1. doc' = [doc EXCEPT ![b] = [doc[b] EXCEPT !.scratch = FALSE, !.changed = FALSE,
                                                     !.file = style[cur]]]
        BY <2>3, <1>1, <1>2 DEF SaveBuffer
      <4>2. doc[b] \in Docs /\ doc'[b] = [doc[b] EXCEPT !.scratch = FALSE, !.changed = FALSE,
                                                        !.file = style[cur]]
        BY <4>1, <1>1, <1>2
      <4> QED BY <4>2 DEF Docs
    <3>2. \A v \in ToSet(vws'[b]) : style'[v] = style[cur]
      <4>1. ~OtherStyle
        BY <2>3, Zenon DEF SaveBuffer, Excuse
      <4> QED BY <4>1, <2>3, <1>4, Zenon DEF OtherStyle, SaveBuffer
    <3>3. ~Differs(b)'
      BY <3>1, <3>2, Zenon DEF Differs, ViewsOf
    <3> QED BY <3>3, Zenon DEF Hides
  <2>4. CASE RevertBuffer
    <3>1. doc'[b].changed = FALSE /\ doc'[b].file = doc[b].file
      <4>1. doc' = [doc EXCEPT ![b] = [doc[b] EXCEPT !.changed = FALSE, !.loaded = doc[b].file]]
        BY <2>4, <1>1, <1>2 DEF RevertBuffer
      <4>2. doc[b] \in Docs /\ doc'[b] = [doc[b] EXCEPT !.changed = FALSE, !.loaded = doc[b].file]
        BY <4>1, <1>1, <1>2
      <4> QED BY <4>2 DEF Docs
    <3>2. \A v \in ToSet(vws'[b]) : style'[v] = doc[b].file
      BY <2>4, <1>1, <1>2, <1>4 DEF RevertBuffer
    <3>3. ~Differs(b)'
      BY <3>1, <3>2, Zenon DEF Differs, ViewsOf
    <3> QED BY <3>3, Zenon DEF Hides
  <2> QED BY <2>1, <2>2, <2>3, <2>4, Zenon DEF Change
<1>7. ASSUME NEW c \in ToSet(bufs') \ excused'
      PROVE  (c \in ToSet(bufs) \ excused /\ Untouched(c)) \/ ~Hides(c)'
  <2>1. CASE c = CurBuf
    BY <2>1, <1>6, <1>7, Zenon
  <2>2. CASE c # CurBuf
    BY <2>2, <1>3, <1>5, <1>7
  <2> QED BY <2>1, <2>2
<1>8. ToSet(bufs') \subseteq Buffers
  BY <1>1, <1>3
<1> QED BY <1>7, <1>8, KnownStep

LEMMA KillKnown ==
  ASSUME TypeOK, ViewsShown, FilesFit, UnsavedIsKnown, KillBuffer
  PROVE  UnsavedIsKnown'
<1>1. CASE Len(bufs) <= 1
  <2>1. Quit
    BY <1>1, Zenon DEF KillBuffer
  <2>2. UNCHANGED <<bufs, doc, vws, style, need, excused>>
    BY <2>1, QuitOrAskFacts
  <2> QED BY <2>2, SameKnown
<1>2. CASE ~(Len(bufs) <= 1)
  <2> DEFINE ws == Windows(ActiveViews(CurBuf))
             gone == ViewsOf(CurBuf)
             nb == NewBuf
             old == {}
  <2>1. /\ Fits' /\ nb \in ToSet(bufs) /\ nb \in Buffers /\ nb # CurBuf
        /\ Attached(GetViews(nb, ws), nb, ws, old, gone)
        /\ ToSet(bufs') = ToSet(bufs) \ {CurBuf}
        /\ doc' = [doc EXCEPT ![CurBuf] = Reset(@)]
        /\ Excuse({c \in {nb} : Leaks(c, ws)}, {CurBuf})
    BY <1>2, KillFacts
  <2>2. /\ ServerFits /\ ViewsFit /\ CurBuf \in Buffers
    BY TypeParts, ViewsFitDefined, CurFacts
  <2>3. \A c \in Buffers : c # CurBuf => /\ doc'[c] = doc[c]
                                         /\ ViewsOf(c) \cap gone = {} /\ gone \cap ViewsOf(c) = {}
    BY <2>1, <2>2 DEF ServerFits, ViewsFit
  <2>4. Attach(nb, ws, old, gone)
    BY <1>2, Zenon DEF KillBuffer, Windows, NewBuf
  <2> HIDE DEF ws, nb, old, gone
  <2>5. ToSet(bufs') \subseteq Buffers
    BY <2>1, <2>2 DEF ViewsFit
  <2>6. excused' = (excused \ {CurBuf}) \cup {c \in {nb} : Leaks(c, ws)}
    BY <2>1 DEF Excuse
  <2>7. ASSUME NEW c \in ToSet(bufs') \ excused'
        PROVE  (c \in ToSet(bufs) \ excused /\ Untouched(c)) \/ ~Hides(c)'
    <3>1. c \in ToSet(bufs) \ excused /\ c \in Buffers /\ c # CurBuf /\ doc'[c] = doc[c]
      BY <2>1, <2>3, <2>5, <2>6, <2>7
    <3>2. CASE c = nb
      <4>1. /\ Attach(c, ws, old, gone) /\ Attached(GetViews(c, ws), c, ws, old, gone)
            /\ gone \cap ViewsOf(c) = {} /\ c \in Buffers \ excused
        BY <3>1, <3>2, <2>1, <2>3, <2>4
      <4>2. ~Leaks(c, ws)
        BY <3>2, <2>6, <2>7
      <4> QED BY <4>1, <4>2, <3>1, ShownNotHidden
    <3>3. CASE c # nb
      <4>1. c \in Buffers \ {nb} /\ ViewsOf(c) \cap gone = {}
        BY <3>1, <3>3, <2>3
      <4>2. Untouched(c)
        BY <4>1, <3>1, <2>1, AttachUntouched
      <4> QED BY <3>1, <4>2
    <3> QED BY <3>2, <3>3
  <2> QED BY <2>5, <2>7, KnownStep
<1> QED BY <1>1, <1>2

LEMMA CloseKnown ==
  ASSUME TypeOK, ViewsShown, UnsavedIsKnown, wins # {CurWin}, NEW dead, CloseWindow(dead),
         \/ dead = {}
         \/ dead = {CurBuf} /\ \A v \in ViewsOf(CurBuf) : win[v] = CurWin
  PROVE  UnsavedIsKnown'
<1>1. /\ Fits' /\ ToSet(bufs') = ToSet(bufs) \ dead /\ dead \subseteq {CurBuf}
      /\ \A c \in Buffers : ToSet(vws'[c]) = ViewsOf(c) \ {cur}
      /\ need' = need \ {cur}
      /\ \A v \in Views \ {cur} : style'[v] = style[v]
  BY CloseFacts
<1>2. /\ ServerFits /\ ViewsFit /\ CurBuf \in Buffers /\ cur \in ViewsOf(CurBuf)
  BY TypeParts, ViewsFitDefined, CurFacts
<1>3. /\ doc' = [c \in Buffers |-> IF c \in dead THEN Reset(doc[c]) ELSE doc[c]]
      /\ Excuse((IF LastMark THEN {CurBuf} ELSE {}) \ dead, dead)
  BY DEF CloseWindow
<1>4. \A c \in Buffers : ViewsOf(c) \subseteq Views
  BY <1>2, Emptiness DEF ViewsFit, ViewsOf
<1>5. ToSet(bufs') \subseteq Buffers
  BY <1>1, <1>2 DEF ViewsFit
<1>6. excused' = (excused \ dead) \cup ((IF LastMark THEN {CurBuf} ELSE {}) \ dead)
  BY <1>3 DEF Excuse
<1>7. ASSUME NEW c \in ToSet(bufs') \ excused'
      PROVE  (c \in ToSet(bufs) \ excused /\ Untouched(c)) \/ ~Hides(c)'
  <2>1. c \notin dead /\ c \in ToSet(bufs) \ excused /\ c \in Buffers /\ doc'[c] = doc[c]
    BY <1>1, <1>3, <1>5, <1>6, <1>7
  <2>2. CASE c = CurBuf
    <3>1. ~LastMark
      BY <2>1, <2>2, <1>6, <1>7
    <3>2. Differs(c)' => Differs(c)
      <4>1. \A v \in ToSet(vws'[c]) : v \in ViewsOf(c) /\ style'[v] = style[v]
        BY <1>1, <1>4, <2>1
      <4> QED BY <4>1, <2>1, Zenon DEF Differs, ViewsOf
    <3>3. Differs(c) => NeedsSave(c)
      BY <2>1, Zenon DEF UnsavedIsKnown
    <3>4. NeedsSave(c) => NeedsSave(c)'
      <4> SUFFICES ASSUME NeedsSave(c) PROVE NeedsSave(c)'
        OBVIOUS
      <4>1. c \notin Hidden /\ ViewsOf(c) \cap need # {} /\ ViewsOf(c) \cap need # {cur}
        BY <2>2, <3>1, Zenon DEF NeedsSave, LastMark
      <4>2. PICK v \in ViewsOf(c) \cap need : v # cur
        BY <4>1
      <4>3. v \in ToSet(vws'[c]) \cap need'
        BY <1>1, <2>1, <4>2
      <4> QED BY <4>1, <4>3 DEF NeedsSave, ViewsOf
    <3> QED BY <3>2, <3>3, <3>4, Zenon DEF Hides
  <2>3. CASE c # CurBuf
    <3>1. cur \notin ViewsOf(c)
      BY <2>1, <2>3, <1>2 DEF ViewsFit
    <3>2. Untouched(c)
      BY <3>1, <2>1, <1>1, <1>4 DEF Untouched
    <3> QED BY <3>2, <2>1
  <2> QED BY <2>2, <2>3
<1> QED BY <1>5, <1>7, KnownStep

LEMMA CloseCommands ==
  ASSUME TypeOK, ViewsShown, FilesFit, UnsavedIsKnown, Close
  PROVE  UnsavedIsKnown'
<1>1. ASSUME NEW q, Ask(q) PROVE UnsavedIsKnown'
  BY <1>1, SameKnown DEF Ask, views
<1>2. ASSUME Quit PROVE UnsavedIsKnown'
  BY <1>2, SameKnown DEF Quit, views
<1>3. CASE KillWindow
  <2>1. wins # {CurWin} /\ CloseWindow({})
    BY <1>3, Zenon DEF KillWindow
  <2> QED BY <2>1, CloseKnown
<1>4. CASE KillWindowAndBuffer
  <2>1. CASE Len(bufs) <= 1 \/ wins = {CurWin}
    BY <2>1, <1>2, <1>4, Zenon DEF KillWindowAndBuffer
  <2>2. CASE ~(Len(bufs) <= 1 \/ wins = {CurWin})
    <3> DEFINE dead == IF \A v \in ViewsOf(CurBuf) : win[v] = CurWin THEN {CurBuf} ELSE {}
    <3>1. wins # {CurWin} /\ CloseWindow(dead)
      BY <2>2, <1>4, Zenon DEF KillWindowAndBuffer
    <3>2. \/ dead = {}
          \/ dead = {CurBuf} /\ \A v \in ViewsOf(CurBuf) : win[v] = CurWin
      BY Zenon
    <3> HIDE DEF dead
    <3> QED BY <3>1, <3>2, CloseKnown
  <2> QED BY <2>1, <2>2
<1> QED BY <1>1, <1>2, <1>3, <1>4, KillKnown, Zenon
    DEF Close, SafelyKillBuffer, SafelyQuit, AnswerYes, AnswerNo


-----------------------------------------------------------------------------
(* What a step gives up *)

LEMMA FilesStep ==
  ASSUME TypeOK, ViewsShown, FilesFit, Next
  PROVE  FilesFit'
<1>1. /\ doc \in [Buffers -> Docs] /\ CurBuf \in ToSet(bufs) /\ CurBuf \in Buffers
      /\ ServerFits
  BY TypeParts, CurFacts DEF ServerFits
<1>2. ASSUME doc' = doc, ToSet(bufs) \subseteq ToSet(bufs') PROVE FilesFit'
  BY <1>2, Zenon DEF FilesFit
<1>3. ASSUME NEW gone, gone \subseteq {CurBuf}, ToSet(bufs) \ gone \subseteq ToSet(bufs'),
             \A c \in Buffers : doc'[c] = IF c \in gone THEN Reset(doc[c]) ELSE doc[c]
      PROVE  FilesFit'
  <2> SUFFICES ASSUME NEW b \in Buffers
               PROVE  /\ doc'[b].scratch => doc'[b].file = "article"
                      /\ b \notin ToSet(bufs') => ~doc'[b].changed
    BY Zenon DEF FilesFit
  <2>1. CASE b \in gone
    <3>1. doc'[b] = Reset(doc[b]) /\ doc[b] \in Docs
      BY <1>1, <1>3, <2>1
    <3>2. doc'[b].scratch = doc[b].scratch /\ doc'[b].file = doc[b].file /\ ~doc'[b].changed
      BY <3>1 DEF Reset, Docs
    <3> QED BY <3>2 DEF FilesFit
  <2>2. CASE b \notin gone
    <3>1. doc'[b] = doc[b] /\ (b \notin ToSet(bufs') => b \notin ToSet(bufs))
      BY <1>3, <2>2
    <3> QED BY <3>1, Zenon DEF FilesFit
  <2> QED BY <2>1, <2>2
<1>4. CASE Show
  <2>1. ASSUME NEW b \in Buffers PROVE ToSet(FocusMenu(b)) = ToSet(bufs) \cup {b}
    BY <1>1, FocusFacts
  <2>2. ASSUME NEW w \in wins PROVE BufferOf(WindowFindView(w)) \in Buffers
    BY FindFacts
  <2>3. doc' = doc
    BY <1>4, Zenon DEF Show, SwitchToBuffer, SwitchToActiveBuffer, OpenWindow, CloneWindow,
                       NewWindow, WindowSetBuffer, WindowFocus, FocusOnEditor
  <2>4. bufs' = bufs \/ \E b \in Buffers : bufs' = FocusMenu(b)
    <3>1. Scratch \cup Hidden \subseteq Buffers
      BY WindowsAssumption
    <3>2. ASSUME NEW b \in Buffers, SwitchToBuffer(b) \/ SwitchToActiveBuffer(b)
          PROVE  bufs' = FocusMenu(b)
      BY <3>2, Zenon DEF SwitchToBuffer, SwitchToActiveBuffer
    <3>3. ASSUME NEW b \in Buffers, NEW w \in Wins, NewWindow(b, w) PROVE bufs' = FocusMenu(b)
      BY <3>3, Zenon DEF NewWindow
    <3>4. ASSUME NEW b \in Buffers, NEW w \in Wins, WindowSetBuffer(w, b) PROVE bufs' = bufs
      BY <3>4, Zenon DEF WindowSetBuffer
    <3>5. ASSUME NEW w \in Wins, WindowFocus(w) PROVE \E b \in Buffers : bufs' = FocusMenu(b)
      <4>1. w \in wins /\ bufs' = FocusMenu(BufferOf(WindowFindView(w)))
        BY <3>5 DEF WindowFocus
      <4> QED BY <4>1, <2>2
    <3>6. ASSUME NEW w \in Wins, FocusOnEditor(w) PROVE bufs' = bufs
      BY <3>6, Zenon DEF FocusOnEditor
    <3> QED BY <1>1, <1>4, <3>2, <3>3, <3>4, <3>5, <3>6, Zenon DEF Show, OpenWindow, CloneWindow
  <2>5. ToSet(bufs) \subseteq ToSet(bufs')
    BY <2>1, <2>4
  <2> QED BY <1>2, <2>3, <2>5
<1>5. CASE Change
  <2>1. bufs' = bufs
    BY <1>5, Zenon DEF Change, ModifyBuffer, SaveBuffer, RevertBuffer, InitStyle, InitEnv
  <2>2. CASE \E s \in Styles : InitStyle(s) \/ InitEnv(s)
    BY <1>2, <2>1, <2>2 DEF InitStyle, InitEnv
  <2>3. CASE ModifyBuffer \/ SaveBuffer \/ RevertBuffer
    <3>1. \A c \in Buffers \ {CurBuf} : doc'[c] = doc[c]
      BY <1>1, <2>3 DEF ModifyBuffer, SaveBuffer, RevertBuffer
    <3>2. doc'[CurBuf].scratch => doc[CurBuf].scratch /\ doc'[CurBuf].file = doc[CurBuf].file
      <4>1. doc[CurBuf] \in Docs
        BY <1>1
      <4>2. CASE ModifyBuffer
        BY <4>1, <4>2, <1>1 DEF ModifyBuffer, Docs
      <4>3. CASE SaveBuffer
        BY <4>1, <4>3, <1>1 DEF SaveBuffer, Docs
      <4>4. CASE RevertBuffer
        BY <4>1, <4>4, <1>1 DEF RevertBuffer, Docs
      <4> QED BY <2>3, <4>2, <4>3, <4>4
    <3> SUFFICES ASSUME NEW b \in Buffers
                 PROVE  /\ doc'[b].scratch => doc'[b].file = "article"
                        /\ b \notin ToSet(bufs') => ~doc'[b].changed
      BY Zenon DEF FilesFit
    <3>3. CASE b = CurBuf
      BY <3>2, <3>3, <2>1, <1>1 DEF FilesFit
    <3>4. CASE b # CurBuf
      <4>1. doc'[b] = doc[b]
        BY <3>1, <3>4
      <4> QED BY <4>1, <2>1, Zenon DEF FilesFit
    <3> QED BY <3>3, <3>4
  <2> QED BY <1>5, <2>2, <2>3 DEF Change
<1>6. CASE Close
  <2>1. ASSUME Quit \/ \E q : Ask(q) PROVE FilesFit'
    <3>1. doc' = doc /\ bufs' = bufs
      BY <2>1 DEF Quit, Ask
    <3> QED BY <3>1, <1>2
  <2>2. ASSUME KillBuffer PROVE FilesFit'
    <3>1. CASE Len(bufs) <= 1
      BY <2>1, <2>2, <3>1 DEF KillBuffer
    <3>2. CASE ~(Len(bufs) <= 1)
      <4>1. ToSet(bufs') = ToSet(bufs) \ {CurBuf} /\ doc' = [doc EXCEPT ![CurBuf] = Reset(@)]
        BY <2>2, <3>2, KillFacts
      <4> DEFINE gone == {CurBuf}
      <4>2. \A c \in Buffers : doc'[c] = IF c \in gone THEN Reset(doc[c]) ELSE doc[c]
        BY <4>1, <1>1
      <4>3. ToSet(bufs) \ gone \subseteq ToSet(bufs') /\ gone \subseteq {CurBuf}
        BY <4>1
      <4> HIDE DEF gone
      <4> QED BY <4>2, <4>3, <1>3
    <3> QED BY <3>1, <3>2
  <2>3. ASSUME NEW dead, wins # {CurWin}, CloseWindow(dead),
               \/ dead = {}
               \/ dead = {CurBuf} /\ \A v \in ViewsOf(CurBuf) : win[v] = CurWin
        PROVE  FilesFit'
    <3>1. ToSet(bufs') = ToSet(bufs) \ dead /\ dead \subseteq {CurBuf}
      BY <2>3, CloseFacts
    <3>2. \A c \in Buffers : doc'[c] = IF c \in dead THEN Reset(doc[c]) ELSE doc[c]
      BY <2>3 DEF CloseWindow
    <3>3. ToSet(bufs) \ dead \subseteq ToSet(bufs')
      BY <3>1
    <3> QED BY <3>1, <3>2, <3>3, <1>3
  <2>4. CASE KillWindow
    <3>1. wins # {CurWin} /\ CloseWindow({})
      BY <2>4, Zenon DEF KillWindow
    <3> QED BY <3>1, <2>3
  <2>5. CASE KillWindowAndBuffer
    <3> DEFINE dead == IF \A v \in ViewsOf(CurBuf) : win[v] = CurWin THEN {CurBuf} ELSE {}
    <3>1. Quit \/ (wins # {CurWin} /\ CloseWindow(dead))
      BY <2>5, Zenon DEF KillWindowAndBuffer
    <3>2. \/ dead = {}
          \/ dead = {CurBuf} /\ \A v \in ViewsOf(CurBuf) : win[v] = CurWin
      BY Zenon
    <3> HIDE DEF dead
    <3> QED BY <3>1, <3>2, <2>1, <2>3
  <2> QED BY <1>6, <2>1, <2>2, <2>4, <2>5, Zenon
          DEF Close, SafelyKillBuffer, SafelyQuit, AnswerYes, AnswerNo
<1> QED BY <1>4, <1>5, <1>6 DEF Next

(* The buffer b is still open, and so are all of its views.                *)
StaysOpen(b) == running' /\ b \in ToSet(bufs') /\ ViewsOf(b) \subseteq ToSet(vws'[b])

LEMMA NothingLost ==
  ASSUME NEW b, StaysOpen(b)
  PROVE  ~LosesText(b) /\ ~LosesStyle(b)
BY DEF StaysOpen, LosesText, LosesStyle, ViewsOf

LEMMA AttachStays ==
  ASSUME ViewsFit, NEW b \in Buffers, NEW got, NEW ws, NEW old, NEW gone,
         Attached(got, b, ws, old, gone), running', NEW c \in ToSet(bufs'), c \in Buffers,
         ViewsOf(c) \cap gone = {}
  PROVE  StaysOpen(c)
<1>1. /\ \A d \in Buffers \ {b} : ToSet(vws'[d]) = ViewsOf(d) \ gone
      /\ ToSet(vws'[b]) = ViewsOf(b) \cup ToSet(got)
  BY Zenon DEF Attached
<1>2. ViewsOf(c) \subseteq ToSet(vws'[c])
  BY <1>1
<1> QED BY <1>2 DEF StaysOpen

(* Showing buffers and changing them gives nothing up.                     *)
LEMMA NothingLostOpen ==
  ASSUME TypeOK, ViewsShown, Show \/ Change, NEW c \in ToSet(bufs)
  PROVE  StaysOpen(c)
<1>1. /\ ViewsFit /\ ServerFits /\ ToSet(bufs) \subseteq Buffers
      /\ CurBuf \in ToSet(bufs) /\ CurBuf \in Buffers
  BY TypeParts, ViewsFitDefined, CurFacts, ServerIsTyped
<1>2. ASSUME running', vws' = vws, ToSet(bufs') = ToSet(bufs) PROVE StaysOpen(c)
  BY <1>2 DEF StaysOpen, ViewsOf
<1>3. ASSUME NEW b \in Buffers, NEW got, NEW ws, NEW old,
             Attached(got, b, ws, old, {}), running', ToSet(bufs) \subseteq ToSet(bufs')
      PROVE  StaysOpen(c)
  <2> DEFINE none == {}
  <2>1. Attached(got, b, ws, old, none) /\ ViewsOf(c) \cap none = {}
        /\ c \in ToSet(bufs') /\ c \in Buffers
    BY <1>1, <1>3
  <2> HIDE DEF none
  <2> QED BY <2>1, <1>1, <1>3, AttachStays
<1>4. ASSUME NEW b \in Buffers PROVE ToSet(FocusMenu(b)) = ToSet(bufs) \cup {b}
  BY <1>1, FocusFacts
<1>5. ASSUME NEW b \in Buffers, SwitchToBuffer(b) PROVE StaysOpen(c)
  <2>1. Attached(GetViews(b, <<CurWin>>), b, <<CurWin>>, {cur}, {})
    BY <1>5, SwitchFacts
  <2>2. running' /\ bufs' = FocusMenu(b)
    BY <1>5 DEF SwitchToBuffer, Step
  <2>3. ToSet(bufs) \subseteq ToSet(bufs')
    BY <2>2, <1>4
  <2> QED BY <2>1, <2>2, <2>3, <1>3
<1>6. ASSUME NEW b \in Buffers, NEW w \in Wins, Step, NewWindow(b, w) PROVE StaysOpen(c)
  <2>1. Attached(GetViews(b, <<w>>), b, <<w>>, {}, {})
    BY <1>6, NewWindowFacts
  <2>2. running' /\ bufs' = FocusMenu(b)
    BY <1>6 DEF NewWindow, Step
  <2>3. ToSet(bufs) \subseteq ToSet(bufs')
    BY <2>2, <1>4
  <2> QED BY <2>1, <2>2, <2>3, <1>3
<1>7. ASSUME NEW b \in Buffers, NEW w \in Wins, WindowSetBuffer(w, b) PROVE StaysOpen(c)
  <2>1. Attached(GetViews(b, <<w>>), b, <<w>>, {WindowFindView(w)}, {})
    BY <1>7, SetBufferFacts
  <2>2. running' /\ bufs' = bufs
    BY <1>7 DEF WindowSetBuffer, Step
  <2>3. ToSet(bufs) \subseteq ToSet(bufs')
    BY <2>2
  <2> QED BY <2>1, <2>2, <2>3, <1>3
<1>8. ASSUME NEW b \in Buffers, SwitchToActiveBuffer(b) PROVE StaysOpen(c)
  <2>1. running' /\ vws' = vws /\ ToSet(bufs') = ToSet(bufs)
    BY <1>8, ToActiveFacts DEF SwitchToActiveBuffer, views, Step
  <2> QED BY <2>1, <1>2
<1>9. ASSUME NEW w \in Wins, WindowFocus(w) \/ FocusOnEditor(w) PROVE StaysOpen(c)
  <2>1. ToSet(bufs') = ToSet(bufs)
    BY <1>9, WindowFocusFacts
  <2>2. running' /\ vws' = vws
    BY <1>9 DEF WindowFocus, FocusOnEditor, views, Step
  <2> QED BY <2>1, <2>2, <1>2
<1>10. CASE Change
  <2>1. running' /\ vws' = vws /\ bufs' = bufs
    BY <1>10 DEF Change, ModifyBuffer, SaveBuffer, RevertBuffer, InitStyle, InitEnv, Step
  <2> QED BY <2>1, <1>2
<1>11. Scratch \cup Hidden \subseteq Buffers
  BY WindowsAssumption
<1> QED BY <1>1, <1>5, <1>6, <1>7, <1>8, <1>9, <1>10, Zenon DEF Show, OpenWindow, CloneWindow

(* Closing the buffer in use leaves the others as they are.                *)
LEMMA OthersStay ==
  ASSUME TypeOK, ViewsShown, Step, KillBuffer, NEW c \in ToSet(bufs), c # CurBuf
  PROVE  StaysOpen(c)
<1>1. /\ ViewsFit /\ ToSet(bufs) \subseteq Buffers /\ bufs \in Seq(Buffers)
      /\ CurBuf \in ToSet(bufs) /\ CurBuf \in Buffers
  BY TypeParts, ViewsFitDefined, CurFacts, ServerIsTyped DEF ServerFits
<1>2. ~(Len(bufs) <= 1)
  BY <1>1 DEF ToSet
<1> DEFINE ws == Windows(ActiveViews(CurBuf))
           gone == ViewsOf(CurBuf)
           nb == NewBuf
           old == {}
<1>3. /\ nb \in Buffers /\ Attached(GetViews(nb, ws), nb, ws, old, gone)
      /\ ToSet(bufs') = ToSet(bufs) \ {CurBuf}
  BY <1>2, KillFacts
<1>4. running'
  BY <1>2, Zenon DEF KillBuffer, Step
<1>5. ViewsOf(c) \cap gone = {} /\ c \in ToSet(bufs') /\ c \in Buffers
  BY <1>1, <1>3 DEF ViewsFit
<1> HIDE DEF ws, gone, nb, old
<1> QED BY <1>1, <1>3, <1>4, <1>5, AttachStays

(* Closing a window leaves everything but the view in use.                 *)
LEMMA ClosedWindow ==
  ASSUME TypeOK, ViewsShown, Step, wins # {CurWin}, NEW dead, CloseWindow(dead),
         \/ dead = {}
         \/ dead = {CurBuf} /\ \A v \in ViewsOf(CurBuf) : win[v] = CurWin,
         NEW c \in ToSet(bufs) \ dead
  PROVE  /\ running' /\ c \in ToSet(bufs')
         /\ c # CurBuf => StaysOpen(c)
<1>1. /\ ViewsFit /\ c \in Buffers /\ CurBuf \in Buffers /\ cur \in ViewsOf(CurBuf)
  BY ViewsFitDefined, CurFacts DEF ViewsFit
<1>2. /\ ToSet(bufs') = ToSet(bufs) \ dead
      /\ \A d \in Buffers : ToSet(vws'[d]) = ViewsOf(d) \ {cur}
  BY CloseFacts
<1>3. running' /\ c \in ToSet(bufs')
  BY <1>2 DEF CloseWindow, Step
<1>4. ASSUME c # CurBuf PROVE StaysOpen(c)
  <2>1. cur \notin ViewsOf(c)
    BY <1>1, <1>4 DEF ViewsFit
  <2> QED BY <2>1, <1>1, <1>2, <1>3 DEF StaysOpen
<1> QED BY <1>3, <1>4

(* What a step may give up of b: NothingLostUnasked for one buffer.        *)
Asked(b) ==
  /\ LosesText(b) => Agreed(b) \/ Moved(b) \/ WidgetQuits
  /\ LosesStyle(b) => Agreed(b) \/ Moved(b) \/ WidgetQuits \/ ViewClosed(b)

LEMMA StepAsks ==
  ASSUME TypeOK, ViewsShown, UnsavedIsKnown, Next, NEW b \in ToSet(bufs) \ (Hidden \cup excused)
  PROVE  Asked(b)
<1>1. ASSUME StaysOpen(b) PROVE Asked(b)
  BY <1>1, NothingLost DEF Asked
<1>2. ASSUME ~NeedsSave(b) PROVE Asked(b)
  <2>1. ~Differs(b)
    BY <1>2, Zenon DEF UnsavedIsKnown
  <2>2. ~LosesText(b) /\ ~LosesStyle(b)
    BY <2>1, Zenon DEF Differs, LosesText, LosesStyle
  <2> QED BY <2>2 DEF Asked
<1>3. CASE Show \/ Change
  BY <1>1, <1>3, NothingLostOpen
<1>4. ASSUME Step, NEW q, Ask(q) PROVE Asked(b)
  <2>1. StaysOpen(b)
    BY <1>4 DEF Ask, Step, StaysOpen, views, ViewsOf
  <2> QED BY <2>1, <1>1
<1>5. CASE SafelyKillBuffer
  <2>1. CASE NeedsSave(CurBuf)
    BY <1>4, <1>5, <2>1, Zenon DEF SafelyKillBuffer
  <2>2. CASE ~NeedsSave(CurBuf)
    <3>1. Step /\ KillBuffer
      BY <1>5, <2>2, Zenon DEF SafelyKillBuffer
    <3>2. CASE b = CurBuf
      BY <1>2, <2>2, <3>2
    <3>3. CASE b # CurBuf
      BY <1>1, <3>1, <3>3, OthersStay
    <3> QED BY <3>2, <3>3
  <2> QED BY <2>1, <2>2
<1>6. CASE SafelyQuit
  <2>1. CASE ExistsUnsaved
    BY <1>4, <1>6, <2>1, Zenon DEF SafelyQuit
  <2>2. CASE ~ExistsUnsaved
    BY <1>2, <2>2, Zenon DEF ExistsUnsaved
  <2> QED BY <2>1, <2>2
<1>7. CASE AnswerYes
  <2>1. CASE question.what = "quit"
    <3>1. Agreed(b)
      BY <1>7, <2>1, Zenon DEF Agreed
    <3> QED BY <3>1, Zenon DEF Asked
  <2>2. CASE ~(question.what = "quit")
    <3>1. Step /\ KillBuffer /\ question \in Questions /\ question # NoQuestion
      BY <1>7, <2>2, Zenon DEF AnswerYes, TypeOK
    <3>2. CASE b = CurBuf
      <4>1. question.what = "buffer"
        BY <2>2, <3>1 DEF Questions
      <4>2. Moved(b)
        BY <1>7, <3>2, <4>1, Zenon DEF Moved
      <4> QED BY <4>2, Zenon DEF Asked
    <3>3. CASE b # CurBuf
      BY <1>1, <3>1, <3>3, OthersStay
    <3> QED BY <3>2, <3>3
  <2> QED BY <2>1, <2>2
<1>8. CASE AnswerNo
  BY <1>4, <1>8, Zenon DEF AnswerNo
<1>9. CASE KillWindow
  <2>1. Step /\ wins # {CurWin} /\ CloseWindow({})
    BY <1>9, Zenon DEF KillWindow
  <2>2. running' /\ b \in ToSet(bufs') /\ (b # CurBuf => StaysOpen(b))
    BY <2>1, ClosedWindow
  <2>3. CASE b # CurBuf
    BY <2>2, <2>3, <1>1
  <2>4. CASE b = CurBuf
    <3>1. ViewClosed(b)
      BY <1>9, <2>4, Zenon DEF ViewClosed
    <3>2. ~LosesText(b)
      BY <2>2 DEF LosesText
    <3> QED BY <3>1, <3>2, Zenon DEF Asked
  <2> QED BY <2>3, <2>4
<1>10. CASE KillWindowAndBuffer
  <2> DEFINE dead == IF \A v \in ViewsOf(CurBuf) : win[v] = CurWin THEN {CurBuf} ELSE {}
  <2>1. Quit \/ (Step /\ wins # {CurWin} /\ CloseWindow(dead))
    BY <1>10, Zenon DEF KillWindowAndBuffer
  <2>2. \/ dead = {}
        \/ dead = {CurBuf} /\ \A v \in ViewsOf(CurBuf) : win[v] = CurWin
    BY Zenon
  <2>3. b # CurBuf
    BY <1>10 DEF KillWindowAndBuffer
  <2>4. b \in ToSet(bufs) \ dead
    BY <2>2, <2>3
  <2> HIDE DEF dead
  <2>5. CASE Quit
    <3>1. WidgetQuits
      BY <1>10, <2>5, Zenon DEF WidgetQuits, Quit
    <3> QED BY <3>1, Zenon DEF Asked
  <2>6. CASE Step /\ wins # {CurWin} /\ CloseWindow(dead)
    <3>1. StaysOpen(b)
      BY <2>2, <2>3, <2>4, <2>6, ClosedWindow
    <3> QED BY <3>1, <1>1
  <2> QED BY <2>1, <2>5, <2>6
<1> QED BY <1>3, <1>5, <1>6, <1>7, <1>8, <1>9, <1>10 DEF Next, Close

Known == TypeOK /\ ViewsShown /\ FilesFit /\ UnsavedIsKnown

LEMMA StepKnown == Known /\ [Next]_vars => Known'
<1> SUFFICES ASSUME Known, [Next]_vars PROVE Known'
  OBVIOUS
<1>1. TypeOK /\ ViewsShown /\ FilesFit /\ UnsavedIsKnown
  BY DEF Known
<1>2. TypeOK' /\ ViewsShown'
  BY <1>1, StepFits
<1>3. CASE Next
  <2>1. UnsavedIsKnown'
    BY <1>1, <1>3, ShowCommands, ChangeCommands, CloseCommands DEF Next
  <2>2. FilesFit'
    BY <1>1, <1>3, FilesStep
  <2> QED BY <1>2, <2>1, <2>2 DEF Known
<1>4. CASE UNCHANGED vars
  <2>1. /\ UNCHANGED <<doc, vws, style, need, excused>>
        /\ bufs' = bufs /\ doc' = doc
    BY <1>4 DEF vars
  <2>2. UnsavedIsKnown'
    BY <1>1, <2>1, SameKnown
  <2>3. FilesFit'
    BY <1>1, <2>1, Zenon DEF FilesFit
  <2> QED BY <1>2, <2>2, <2>3 DEF Known
<1> QED BY <1>3, <1>4

LEMMA InitKnown == Init => Known
<1> SUFFICES ASSUME Init PROVE Known
  OBVIOUS
<1>1. TypeOK /\ ViewsShown
  BY InitFits
<1>2. \A b \in Buffers : /\ doc[b].changed = FALSE
                         /\ doc[b].file = IF b \in Scratch THEN "article" ELSE "plain"
  BY DEF Init
<1>3. PICK b \in Buffers \ Hidden :
        /\ bufs = <<b>> /\ vws = [c \in Buffers |-> IF c = b THEN <<1>> ELSE <<>>]
        /\ style = [v \in Views |-> IF v = 1 /\ b \in Scratch THEN "article" ELSE "plain"]
  BY Zenon DEF Init
<1>4. ViewsOf(b) = {1} /\ ToSet(bufs) = {b} /\ 1 \in Views
  BY <1>3, WindowsAssumption DEF ViewsOf, ToSet, Views
<1>5. style[1] = doc[b].file /\ doc[b].changed = FALSE
  BY <1>2, <1>3, <1>4
<1>6. UnsavedIsKnown
  BY <1>4, <1>5 DEF UnsavedIsKnown, Differs
<1>7. FilesFit
  <2> SUFFICES ASSUME NEW c \in Buffers PROVE doc[c].scratch => doc[c].file = "article"
    BY <1>2 DEF FilesFit
  <2> DEFINE h == c \in Scratch
  <2>1. h \in BOOLEAN
    OBVIOUS
  <2>2. doc[c] = [scratch |-> h, changed |-> FALSE,
                  file |-> IF h THEN "article" ELSE "plain", loaded |-> "plain"]
    <3>1. doc = [d \in Buffers |->
                   [scratch |-> d \in Scratch, changed |-> FALSE,
                    file |-> IF d \in Scratch THEN "article" ELSE "plain", loaded |-> "plain"]]
      BY Zenon DEF Init
    <3> QED BY <3>1, Zenon
  <2> HIDE DEF h
  <2> QED BY <2>1, <2>2
<1> QED BY <1>1, <1>6, <1>7 DEF Known

(* A change in a listed buffer is known to be unsaved, whatever views of   *)
(* it are made, shown, hidden and deleted, except where one of the leaks   *)
(* has happened since the buffer was saved.                                *)
THEOREM ChangesAreKnown == Spec => []UnsavedIsKnown
<1>1. Known => UnsavedIsKnown
  BY DEF Known
<1> QED BY <1>1, StepKnown, InitKnown, PTL DEF Spec

(* No command gives a change up that no leak has hidden unless the user    *)
(* has agreed, except in the three ways named.                             *)
THEOREM NothingElseIsLost == Spec => NothingLostUnasked
<1> DEFINE A == \A b \in ToSet(bufs) \ (Hidden \cup excused) : Asked(b)
<1>1. Known /\ [Next]_vars => [A]_vars
  BY StepAsks DEF Known
<1>2. A <=> \A b \in ToSet(bufs) \ (Hidden \cup excused) :
              /\ LosesText(b) => Agreed(b) \/ Moved(b) \/ WidgetQuits
              /\ LosesStyle(b) => Agreed(b) \/ Moved(b) \/ WidgetQuits \/ ViewClosed(b)
  BY Zenon DEF Asked
<1> HIDE DEF A
<1> QED BY <1>1, <1>2, StepKnown, InitKnown, PTL DEF Spec, NothingLostUnasked
=============================================================================
