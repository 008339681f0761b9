--------------------------- MODULE ArchiverProofs ---------------------------
(***************************************************************************)
(* The operations of the archivers keep the shape of every archive.        *)
(***************************************************************************)
EXTENDS Archiver, SequenceTheorems, TLAPS

(* s is a sequence, of whatever elements.                                  *)
IsSeq(s) == s \in Seq({s[i] : i \in DOMAIN s})

(***************************************************************************)
(* Sequences                                                               *)
(***************************************************************************)
(* A sequence over any set is a sequence.                                  *)
LEMMA SeqIsSeq ==
  ASSUME NEW S, NEW s \in Seq(S)
  PROVE  IsSeq(s)
BY DEF IsSeq

(* A function on 1 .. n is a sequence of length n.                         *)
LEMMA FunctionIsSeq ==
  ASSUME NEW n \in Nat, NEW f, f = [i \in 1 .. n |-> f[i]]
  PROVE  IsSeq(f) /\ Len(f) = n
BY DEF IsSeq

(* Appending an element.                                                   *)
LEMMA AppendIsSeq ==
  ASSUME NEW s, IsSeq(s), NEW x
  PROVE  IsSeq(Append(s, x)) /\ Len(Append(s, x)) = Len(s) + 1
<1> DEFINE S == {s[i] : i \in DOMAIN s} \cup {x}
<1>1. s \in Seq(S)
  BY DEF IsSeq
<1>2. Append(s, x) \in Seq(S) /\ Len(Append(s, x)) = Len(s) + 1
  BY <1>1
<1> QED BY <1>2, SeqIsSeq

(* A part of a sequence.                                                   *)
LEMMA SubSeqIsSeq ==
  ASSUME NEW s, IsSeq(s), NEW m \in 1 .. Len(s) + 1, NEW n \in m - 1 .. Len(s)
  PROVE  IsSeq(SubSeq(s, m, n)) /\ Len(SubSeq(s, m, n)) = n - m + 1
<1> DEFINE S == {s[i] : i \in DOMAIN s}
<1>1. s \in Seq(S)
  BY DEF IsSeq
<1>2. SubSeq(s, m, n) \in Seq(S) /\ Len(SubSeq(s, m, n)) = n - m + 1
  BY <1>1
<1> QED BY <1>2, SeqIsSeq

(* One sequence after another.                                             *)
LEMMA ConcatIsSeq ==
  ASSUME NEW s, IsSeq(s), NEW t, IsSeq(t)
  PROVE  IsSeq(s \o t) /\ Len(s \o t) = Len(s) + Len(t)
<1> DEFINE S == {s[i] : i \in DOMAIN s} \cup {t[i] : i \in DOMAIN t}
<1>1. s \in Seq(S) /\ t \in Seq(S)
  BY DEF IsSeq
<1>2. s \o t \in Seq(S) /\ Len(s \o t) = Len(s) + Len(t)
  BY <1>1
<1> QED BY <1>2, SeqIsSeq

(* All but the last element, and the last element replaced.                *)
LEMMA BelowIsSeq ==
  ASSUME NEW s, IsSeq(s), Len(s) # 0
  PROVE  IsSeq(Below(s)) /\ Len(Below(s)) = Len(s) - 1
<1>1. Len(s) \in Nat
  BY DEF IsSeq
<1>2. 1 \in 1 .. Len(s) + 1 /\ Len(s) - 1 \in 1 - 1 .. Len(s)
  BY <1>1
<1>3. /\ IsSeq(SubSeq(s, 1, Len(s) - 1))
      /\ Len(SubSeq(s, 1, Len(s) - 1)) = (Len(s) - 1) - 1 + 1
  BY <1>2, SubSeqIsSeq
<1> QED BY <1>1, <1>3 DEF Below

(* The last element replaced.                                              *)
LEMMA ReplaceIsSeq ==
  ASSUME NEW s, IsSeq(s), Len(s) # 0, NEW x
  PROVE  IsSeq(Replace(s, x)) /\ Len(Replace(s, x)) = Len(s)
<1>1. Len(s) \in Nat
  BY DEF IsSeq
<1> QED BY <1>1, BelowIsSeq, AppendIsSeq DEF Replace

(* A sequence with one element changed.                                    *)
LEMMA ExceptIsSeq ==
  ASSUME NEW s, IsSeq(s), NEW n, NEW x
  PROVE  IsSeq([s EXCEPT ![n] = x]) /\ Len([s EXCEPT ![n] = x]) = Len(s)
<1> DEFINE t == [s EXCEPT ![n] = x]
<1>1. Len(s) \in Nat /\ DOMAIN s = 1 .. Len(s)
  BY DEF IsSeq
<1>2. t = [i \in 1 .. Len(s) |-> t[i]]
  BY <1>1
<1> QED BY <1>1, <1>2, FunctionIsSeq

(***************************************************************************)
(* Archives                                                                *)
(***************************************************************************)
(* a is a record with the fields of an archive.                            *)
IsArchiverRecord(a) ==
  DOMAIN a = {"past", "redo", "current", "owner", "depth", "last_save",
              "last_autosave"}

(* a is a well-formed archive.                                             *)
IsArchiver(a) ==
  /\ IsArchiverRecord(a)
  /\ IsSeq(a.past) /\ IsSeq(a.redo)
  /\ Shape(a)

(* The lengths of an archive are numbers.                                  *)
LEMMA ArchiverLengths ==
  ASSUME NEW a, IsArchiver(a)
  PROVE  /\ Len(a.past) \in Nat /\ Len(a.redo) = Len(a.past) + 1
         /\ a.depth = Len(a.past) /\ Len(a.redo) # 0
         /\ DOMAIN a.past = 1 .. Len(a.past)
         /\ DOMAIN a.redo = 1 .. Len(a.past) + 1
BY DEF IsArchiver, IsSeq, Shape

(* The archive of a new view is well-formed, and so is a cleared one.      *)
LEMMA NewArchiverShape == IsArchiver(NewArchiver) /\ IsArchiver(Cleared)
<1>1. IsSeq(<<>>) /\ Len(<<>>) = 0
  BY DEF IsSeq
<1>2. IsSeq(<< <<>> >>) /\ Len(<< <<>> >>) = 1
  BY DEF IsSeq
<1> QED
  BY <1>1, <1>2 DEF IsArchiver, IsArchiverRecord, Shape, NewArchiver, Cleared

(* Fields other than past, redo and depth do not matter.                   *)
LEMMA OtherFields ==
  ASSUME NEW a, IsArchiver(a), NEW b, IsArchiverRecord(b),
         b.past = a.past, b.redo = a.redo, b.depth = a.depth
  PROVE  IsArchiver(b)
BY DEF IsArchiver, Shape

(* Forgetting the saved states above a depth keeps an archive well-formed. *)
LEMMA ForgetSavesShape ==
  ASSUME NEW a, IsArchiver(a), NEW d
  PROVE  IsArchiver(ForgetSaves(a, d)) /\ ForgetSaves(a, d).past = a.past
<1>1. /\ IsArchiverRecord(ForgetSaves(a, d))
      /\ ForgetSaves(a, d).past = a.past
      /\ ForgetSaves(a, d).redo = a.redo
      /\ ForgetSaves(a, d).depth = a.depth
  BY DEF IsArchiver, IsArchiverRecord, ForgetSaves
<1> QED BY <1>1, OtherFields

(* Forgetting all saved states keeps an archive well-formed.               *)
LEMMA LoseSavesShape ==
  ASSUME NEW a, IsArchiver(a)
  PROVE  /\ IsArchiver(LoseSaves(a)) /\ LoseSaves(a).past = a.past
         /\ LoseSaves(a).redo = a.redo
<1>1. /\ IsArchiverRecord(LoseSaves(a))
      /\ LoseSaves(a).past = a.past
      /\ LoseSaves(a).redo = a.redo
      /\ LoseSaves(a).depth = a.depth
  BY DEF IsArchiver, IsArchiverRecord, LoseSaves
<1> QED BY <1>1, OtherFields

(* Moving futures between the two topmost forests.                         *)
LEMMA NormalizeShape ==
  ASSUME NEW me, NEW a, IsArchiver(a)
  PROVE  IsArchiver(Normalize(me, a)) /\ Normalize(me, a).past = a.past
<1> DEFINE n  == Len(a.past)
           s  == FSplit(me, Top(a), a.redo[n])
           r1 == [a.redo EXCEPT ![n] = s.stay]
           r2 == [r1 EXCEPT ![n + 1] = a.redo[n + 1] \o s.moved]
           b  == LoseSaves(a)
           c  == [b EXCEPT !.redo[n] = s.stay, !.redo[n + 1] = @ \o s.moved]
<1>1. Normalize(me, a) \in {a, c}
  BY DEF Normalize
<1>2. IsArchiver(b) /\ b.past = a.past /\ b.redo = a.redo
  BY LoseSavesShape
<1>3. /\ IsArchiverRecord(c) /\ c.past = a.past /\ c.redo = r2
      /\ c.depth = b.depth
  <2> HIDE DEF b, s, n
  <2> QED BY <1>2 DEF IsArchiver, IsArchiverRecord
<1>4. IsSeq(r1) /\ Len(r1) = Len(a.redo)
  BY ExceptIsSeq DEF IsArchiver
<1>5. IsSeq(r2) /\ Len(r2) = Len(a.redo)
  <2> HIDE DEF r1
  <2> QED BY <1>4, ExceptIsSeq
<1>6. IsArchiver(c)
  <2> HIDE DEF c, b, r2
  <2> QED BY <1>2, <1>3, <1>5 DEF IsArchiver, Shape
<1> QED
  <2> HIDE DEF c
  <2> QED BY <1>1, <1>3, <1>6

(* Confirming adds an item, its forest and one to the depth, or nothing.   *)
LEMMA ConfirmShape ==
  ASSUME NEW me, NEW a, IsArchiver(a)
  PROVE  IsArchiver(Confirm(me, a))
<1> DEFINE p    == Authored(a.owner, PCompactify(a.current))
           push == [a EXCEPT !.past = Append(@, p), !.redo = Append(@, <<>>),
                             !.current = NoPatch, !.owner = NoAuthor,
                             !.depth = @ + 1]
           drop == [a EXCEPT !.current = NoPatch]
<1>1. Confirm(me, a) \in {a, drop, Normalize(me, ForgetSaves(push, push.depth))}
  BY DEF Confirm
<1>2. IsArchiver(drop)
  <2>1. /\ IsArchiverRecord(drop) /\ drop.past = a.past
        /\ drop.redo = a.redo /\ drop.depth = a.depth
    BY DEF IsArchiver, IsArchiverRecord
  <2> QED BY <2>1, OtherFields
<1>3. IsArchiver(push)
  <2>1. /\ IsArchiverRecord(push)
        /\ push.past = Append(a.past, p)
        /\ push.redo = Append(a.redo, <<>>)
        /\ push.depth = a.depth + 1
    BY DEF IsArchiver, IsArchiverRecord
  <2>2. IsSeq(push.past) /\ Len(push.past) = Len(a.past) + 1
    BY <2>1, AppendIsSeq DEF IsArchiver
  <2>3. IsSeq(push.redo) /\ Len(push.redo) = Len(a.redo) + 1
    BY <2>1, AppendIsSeq DEF IsArchiver
  <2> QED BY <2>1, <2>2, <2>3, ArchiverLengths DEF IsArchiver, Shape
<1> HIDE DEF push, drop
<1>4. IsArchiver(Normalize(me, ForgetSaves(push, push.depth)))
  BY <1>3, ForgetSavesShape, NormalizeShape
<1> QED BY <1>1, <1>2, <1>4

(* Recording a modification keeps an archive well-formed, whoever made it. *)
LEMMA AddPatchShape ==
  ASSUME NEW me, NEW author, NEW a, IsArchiver(a), NEW q
  PROVE  IsArchiver(AddPatch(me, author, a, q))
<1> DEFINE o == [a EXCEPT !.owner = author]
<1>1. IsArchiver(o)
  <2>1. /\ IsArchiverRecord(o) /\ o.past = a.past
        /\ o.redo = a.redo /\ o.depth = a.depth
    BY DEF IsArchiver, IsArchiverRecord
  <2> QED BY <2>1, OtherFields
<1> DEFINE b == IF a.owner \notin {NoAuthor, author} THEN Confirm(me, a) ELSE o
           c == [b EXCEPT !.current = Compound(<<q, @>>)]
<1>2. IsArchiver(b)
  BY <1>1, ConfirmShape
<1> HIDE DEF b
<1>3. /\ IsArchiverRecord(c) /\ c.past = b.past
      /\ c.redo = b.redo /\ c.depth = b.depth
  BY <1>2 DEF IsArchiver, IsArchiverRecord
<1>4. IsArchiver(c)
  BY <1>2, <1>3, OtherFields
<1> QED BY <1>4 DEF AddPatch, b

(* Bringing the last own item on top keeps all items.                      *)
LEMMA ExposeShape ==
  ASSUME NEW me, NEW a, IsArchiver(a)
  PROVE  IsArchiver(Expose(me, a)) /\ Len(Expose(me, a).past) = Len(a.past)
<1> DEFINE b   == LoseSaves(a)
           n   == Len(a.past)
           own == {i \in 1 .. n : GetAuthor(a.past[i]) = me}
           j   == Max(own)
           up[i \in j .. n] ==
             IF i = j THEN Swapped(a.past[j], NoPatch)
             ELSE LET c == up[i - 1]
                  IN  IF c.ok THEN PSwap(a.past[i], c.first) ELSE c
           fut[i \in j .. n] ==
             IF i = j THEN a.redo[j + 1]
             ELSE LET f == fut[i - 1]
                  IN  a.redo[i + 1] \o (IF f = <<>> THEN f ELSE FMake(me, a.past[i], f))
           P(i) == CASE i < j -> b.past[i]
                     [] i \in j .. n - 1 -> up[i + 1].second
                     [] i = n -> up[n].first
           R(i) == CASE i <= j -> b.redo[i]
                     [] i \in j + 1 .. n -> <<>>
                     [] i = n + 1 -> fut[n]
           p == [i \in 1 .. n |-> P(i)]
           r == [i \in 1 .. n + 1 |-> R(i)]
           c == [b EXCEPT !.past = p, !.redo = r]
<1>1. IsArchiver(b) /\ b.past = a.past /\ b.redo = a.redo
  BY LoseSavesShape
<1>2. n \in Nat /\ n + 1 \in Nat
  BY ArchiverLengths
<1>3. Expose(me, a) \in {a, b, c}
  BY Zenon DEF Expose
<1> HIDE DEF b, n, up, fut, j, P, R
<1>4. IsSeq(p) /\ Len(p) = n
  <2>1. p = [i \in 1 .. n |-> p[i]]
    OBVIOUS
  <2> HIDE DEF p
  <2> QED BY <1>2, <2>1, FunctionIsSeq
<1>5. IsSeq(r) /\ Len(r) = n + 1
  <2>1. r = [i \in 1 .. n + 1 |-> r[i]]
    OBVIOUS
  <2> HIDE DEF r
  <2> QED BY <1>2, <2>1, FunctionIsSeq
<1> HIDE DEF p, r
<1>6. IsArchiverRecord(c) /\ c.past = p /\ c.redo = r /\ c.depth = b.depth
  BY <1>1 DEF IsArchiver, IsArchiverRecord
<1> HIDE DEF c
<1>7. b.depth = n
  BY <1>1 DEF IsArchiver, Shape, n
<1>8. IsArchiver(c)
  BY <1>4, <1>5, <1>6, <1>7 DEF IsArchiver, Shape
<1> QED BY <1>1, <1>3, <1>4, <1>6, <1>8 DEF n

(* Reopening an item takes it off the archive.                             *)
LEMMA RetractShape ==
  ASSUME NEW me, NEW a, IsArchiver(a)
  PROVE  IsArchiver(Retract(me, a))
<1> DEFINE b == Expose(me, a)
<1>1. IsArchiver(b) /\ Len(b.past) = Len(a.past)
  BY ExposeShape
<1> HIDE DEF b
<1> DEFINE C(cur, re) ==
      [b EXCEPT !.current = cur, !.owner = me, !.past = Below(@),
                !.redo = Replace(Below(@), re), !.depth = @ - 1]
<1>2. ASSUME NEW cur, NEW re, HasHistory(a) PROVE IsArchiver(C(cur, re))
  <2> DEFINE c == C(cur, re)
  <2>1. /\ IsArchiverRecord(c) /\ c.past = Below(b.past)
        /\ c.redo = Replace(Below(b.redo), re) /\ c.depth = b.depth - 1
    BY <1>1 DEF IsArchiver, IsArchiverRecord
  <2>2. Len(b.past) # 0 /\ Len(b.past) \in Nat /\ Len(b.redo) = Len(b.past) + 1
    BY <1>1, <1>2, ArchiverLengths DEF HasHistory
  <2>3. IsSeq(Below(b.past)) /\ Len(Below(b.past)) = Len(b.past) - 1
    BY <1>1, <2>2, BelowIsSeq DEF IsArchiver
  <2>4. IsSeq(Below(b.redo)) /\ Len(Below(b.redo)) = Len(b.past)
    BY <1>1, <2>2, BelowIsSeq DEF IsArchiver
  <2>5. /\ IsSeq(Replace(Below(b.redo), re))
        /\ Len(Replace(Below(b.redo), re)) = Len(b.past)
    BY <2>2, <2>4, ReplaceIsSeq
  <2> HIDE DEF C
  <2> QED BY <1>1, <2>1, <2>2, <2>3, <2>5 DEF IsArchiver, Shape
<1>3. CanRetract(me, a) => \E cur, re : Retract(me, a) = C(cur, re)
  BY DEF Retract, b
<1> HIDE DEF C
<1>4. CanRetract(me, a) => HasHistory(a)
  BY DEF CanRetract
<1>5. ~CanRetract(me, a) => Retract(me, a) \in {a, b}
  BY DEF Retract, b
<1> QED BY <1>1, <1>2, <1>3, <1>4, <1>5

(* Joining the two topmost items.                                          *)
IsSimplified(s) == IsArchiver(s.a) /\ DOMAIN s = {"a", "doc"}

SimplifyProofs ==
  INSTANCE IterationProofs WITH Step <- SimplifyOnce, Inv <- IsSimplified

(* Joining the last two items takes away one item and one forest.         *)
LEMMA SimplifyOnceShape ==
  ASSUME NEW s, IsSimplified(s)
  PROVE  IsSimplified(SimplifyOnce(s))
<1> DEFINE b == s.a
           n == Len(b.past)
           r == PJoin(b.past[n], b.past[n - 1], s.doc)
           c == [b EXCEPT !.past = Replace(Below(@), r.p),
                          !.redo = Replace(Below(@), RedoTop(b)),
                          !.last_autosave = IF b.depth = @ + 1 THEN NotSaved ELSE @,
                          !.depth = @ - 1]
<1>1. IsArchiver(b)
  BY DEF IsSimplified
<1>2. CASE n >= 2 /\ SimplifyOnce(s) = [s EXCEPT !.a = c]
  <2>1. /\ IsArchiverRecord(c) /\ c.past = Replace(Below(b.past), r.p)
        /\ c.redo = Replace(Below(b.redo), RedoTop(b)) /\ c.depth = b.depth - 1
    <3> HIDE DEF b, r
    <3> QED BY <1>1 DEF IsArchiver, IsArchiverRecord
  <2>2. n >= 2 /\ n \in Nat /\ Len(b.redo) = n + 1 /\ b.depth = n
    BY <1>1, <1>2, ArchiverLengths
  <2>3. IsSeq(Below(b.past)) /\ Len(Below(b.past)) = n - 1
    BY <1>1, <2>2, BelowIsSeq DEF IsArchiver
  <2>4. IsSeq(Below(b.redo)) /\ Len(Below(b.redo)) = n
    BY <1>1, <2>2, BelowIsSeq DEF IsArchiver
  <2>5. IsSeq(c.past) /\ Len(c.past) = n - 1
    BY <2>1, <2>2, <2>3, ReplaceIsSeq
  <2>6. IsSeq(c.redo) /\ Len(c.redo) = n
    BY <2>1, <2>2, <2>4, ReplaceIsSeq
  <2>7. IsArchiver(c)
    <3> HIDE DEF c
    <3> QED BY <2>1, <2>2, <2>5, <2>6 DEF IsArchiver, Shape
  <2>8. [s EXCEPT !.a = c].a = c /\ DOMAIN [s EXCEPT !.a = c] = {"a", "doc"}
    <3> HIDE DEF c
    <3> QED BY DEF IsSimplified
  <2> HIDE DEF c
  <2> QED BY <1>2, <2>7, <2>8 DEF IsSimplified
<1>3. CASE SimplifyOnce(s) = s
  BY <1>3
<1>4. SimplifyOnce(s) = s \/ (n >= 2 /\ SimplifyOnce(s) = [s EXCEPT !.a = c])
  BY DEF SimplifyOnce, CanSimplify
<1> HIDE DEF c
<1> QED BY <1>2, <1>3, <1>4

(* Joining for as long as it is possible keeps an archive well-formed.     *)
LEMMA SimplifyShape ==
  ASSUME NEW a, IsArchiver(a), NEW doc
  PROVE  IsArchiver(Simplify(a, doc))
<1> DEFINE x == [a |-> a, doc |-> doc]
<1>1. IsSimplified(x) /\ Len(a.past) \in Nat
  BY ArchiverLengths DEF IsSimplified
<1>2. \A s : IsSimplified(s) => IsSimplified(SimplifyOnce(s))
  BY SimplifyOnceShape
<1> HIDE DEF x
<1>3. IsSimplified(SimplifyProofs!Iterate(x, Len(a.past)))
  BY <1>1, <1>2, SimplifyProofs!IterateKeeps
<1>4. SimplifyProofs!Iterate(x, Len(a.past)) = SimplifyLoop!Iterate(x, Len(a.past))
  BY DEF SimplifyProofs!Iterate, SimplifyLoop!Iterate
<1> QED BY <1>3, <1>4 DEF IsSimplified, Simplify, x

(***************************************************************************)
(* The whole history                                                       *)
(***************************************************************************)
(* The inductive invariant: the archives of all views are well-formed.     *)
IsWorld(w) ==
  /\ DOMAIN w = {"doc", "author", "arch", "pending", "failed"}
  /\ DOMAIN w.arch = View
  /\ \A v \in View : IsArchiver(w.arch[v])

(* Replacing the archive of one view.                                      *)
LEMMA UpdateWorld ==
  ASSUME NEW w, IsWorld(w), NEW v \in View, NEW a, IsArchiver(a)
  PROVE  IsWorld(Update(w, v, a)) /\ Update(w, v, a).arch[v] = a
<1> DEFINE u == Update(w, v, a)
<1>1. /\ DOMAIN u = DOMAIN w /\ DOMAIN u.arch = View
      /\ u.arch[v] = a /\ \A x \in View \ {v} : u.arch[x] = w.arch[x]
  BY DEF IsWorld, Update
<1> HIDE DEF u
<1> QED BY <1>1 DEF IsWorld, u

(* Replacing the archives of all views.                                    *)
LEMMA ArchivesWorld ==
  ASSUME NEW w, IsWorld(w), NEW f, f = [v \in View |-> f[v]],
         \A v \in View : IsArchiver(f[v])
  PROVE  IsWorld([w EXCEPT !.arch = f])
<1>1. /\ DOMAIN [w EXCEPT !.arch = f] = DOMAIN w
      /\ [w EXCEPT !.arch = f].arch = f
  BY DEF IsWorld
<1>2. DOMAIN f = View
  OBVIOUS
<1> QED BY <1>1, <1>2 DEF IsWorld

(* Fields other than the archives do not matter.                           *)
LEMMA SameArchives ==
  ASSUME NEW w, IsWorld(w), NEW u, DOMAIN u = DOMAIN w, u.arch = w.arch
  PROVE  IsWorld(u)
BY DEF IsWorld

(* A failed assertion changes no archive.                                  *)
LEMMA FailWorld ==
  ASSUME NEW w, IsWorld(w), NEW msg
  PROVE  IsWorld(Fail(w, msg)) /\ Fail(w, msg).arch = w.arch
<1> DEFINE u == [w EXCEPT !.failed = msg]
<1>1. DOMAIN u = DOMAIN w /\ u.arch = w.arch
  BY DEF IsWorld
<1>2. IsWorld(u)
  BY <1>1, SameArchives
<1> HIDE DEF u
<1> QED BY <1>1, <1>2 DEF Fail, u

(* A modification of the document is archived.                             *)
LEMMA ModifyWorld ==
  ASSUME NEW w, IsWorld(w), NEW S, NEW m
  PROVE  IsWorld(Modify(w, S, m))
<1> DEFINE q == ModPatch(InvertMod(m, w.doc), m)
           R == IF m.k = "assign" /\ m = q.mod THEN {} ELSE S
           F(v) == IF v \in R THEN AddPatch(v, w.author, w.arch[v], q)
                   ELSE w.arch[v]
           f == [v \in View |-> F(v)]
           u == [w EXCEPT !.arch = f]
           d == CleanApply(w.doc, m)
           x == [w EXCEPT !.doc = d, !.arch = f, !.pending = @ \cup R]
<1>1. Modify(w, S, m) = x
  BY DEF Modify
<1>2. \A v \in View : IsArchiver(F(v))
  BY AddPatchShape DEF IsWorld
<1> HIDE DEF F, R, d
<1>3. f = [v \in View |-> f[v]] /\ \A v \in View : IsArchiver(f[v])
  BY <1>2
<1> HIDE DEF f
<1>4. IsWorld(u)
  BY <1>3, ArchivesWorld
<1>5. DOMAIN x = DOMAIN u /\ x.arch = u.arch
  BY DEF IsWorld
<1> HIDE DEF x, u
<1> QED BY <1>1, <1>4, <1>5, SameArchives

(* A view applies a patch to the document.                                 *)
IsApplying(s) ==
  DOMAIN s = {"w", "v", "ms"} /\ s.v \in View /\ IsWorld(s.w)

ApplyProofs ==
  INSTANCE IterationProofs WITH Step <- ApplyFirst, Inv <- IsApplying

(* What the other views record of it keeps the history well-formed.        *)
LEMMA ApplyWorld ==
  ASSUME NEW w, IsWorld(w), NEW v \in View, NEW p
  PROVE  IsWorld(Apply(w, v, p))
<1> DEFINE ms == PMods(p)
           x  == [w |-> w, v |-> v, ms |-> ms]
<1>1. IsApplying(x)
  BY DEF IsApplying
<1>2. ASSUME NEW s, IsApplying(s) PROVE IsApplying(ApplyFirst(s))
  <2> DEFINE u == Modify(s.w, View \ {s.v}, Head(s.ms))
             y == [s EXCEPT !.w = u, !.ms = Tail(@)]
  <2>1. IsWorld(u)
    BY <1>2, ModifyWorld DEF IsApplying
  <2> HIDE DEF u
  <2>2. DOMAIN y = DOMAIN s /\ y.v = s.v /\ y.w = u
    BY <1>2 DEF IsApplying
  <2>3. IsApplying(y)
    BY <1>2, <2>1, <2>2 DEF IsApplying
  <2> QED BY <2>3 DEF ApplyFirst, u
<1> HIDE DEF x
<1>3. IsApplying(ApplyProofs!Iterate(x, Len(ms)))
  BY <1>1, <1>2, ApplyProofs!IterateKeeps
<1>4. ApplyProofs!Iterate(x, Len(ms)) = ApplyLoop!Iterate(x, Len(ms))
  BY DEF ApplyProofs!Iterate, ApplyLoop!Iterate
<1> QED BY <1>3, <1>4, FailWorld DEF IsApplying, Apply, x

(* The current modifications of a view are undone and forgotten.           *)
LEMMA CurrentWorld ==
  ASSUME NEW w, IsWorld(w), NEW v \in View, NEW cur, NEW o
  PROVE  /\ IsWorld([w EXCEPT !.arch[v].current = cur])
         /\ IsWorld([w EXCEPT !.arch[v].current = cur, !.arch[v].owner = o])
<1> DEFINE a == w.arch[v]
           b == [a EXCEPT !.current = cur]
           c == [a EXCEPT !.current = cur, !.owner = o]
<1>1. IsArchiver(a)
  BY DEF IsWorld
<1>2. IsArchiver(b)
  <2>1. /\ IsArchiverRecord(b) /\ b.past = a.past
        /\ b.redo = a.redo /\ b.depth = a.depth
    BY <1>1 DEF IsArchiver, IsArchiverRecord
  <2> QED BY <1>1, <2>1, OtherFields
<1>3. IsArchiver(c)
  <2>1. /\ IsArchiverRecord(c) /\ c.past = a.past
        /\ c.redo = a.redo /\ c.depth = a.depth
    BY <1>1 DEF IsArchiver, IsArchiverRecord
  <2> QED BY <1>1, <2>1, OtherFields
<1>4. [w EXCEPT !.arch[v].current = cur] = Update(w, v, b)
  BY DEF Update
<1>5. [w EXCEPT !.arch[v].current = cur, !.arch[v].owner = o] = Update(w, v, c)
  BY DEF IsWorld, Update
<1> QED BY <1>2, <1>3, <1>4, <1>5, UpdateWorld

(* Cancelling keeps the history well-formed.                               *)
LEMMA CancelWorld ==
  ASSUME NEW w, IsWorld(w), NEW v \in View
  PROVE  IsWorld(Cancel(w, v))
BY ApplyWorld, CurrentWorld DEF Cancel

(* Dropping the cursor positions keeps the history well-formed.            *)
LEMMA ForgetCursorWorld ==
  ASSUME NEW w, IsWorld(w), NEW v \in View
  PROVE  IsWorld(ForgetCursor(w, v))
BY CurrentWorld DEF ForgetCursor

(* The birth of an author keeps the history well-formed.                   *)
LEMMA StartSlaveWorld ==
  ASSUME NEW w, IsWorld(w), NEW v \in View, NEW s
  PROVE  IsWorld(StartSlave(w, v, s))
<1> DEFINE a == AddPatch(v, w.author, w.arch[v], Birth(s, FALSE))
<1>1. IsArchiver(w.arch[v])
  BY DEF IsWorld
<1>2. IsArchiver(a)
  BY <1>1, AddPatchShape
<1>3. StartSlave(w, v, s) = Update(w, v, a)
  BY DEF StartSlave
<1> HIDE DEF a
<1> QED BY <1>2, <1>3, UpdateWorld

(* Confirming in all views keeps the history well-formed.                  *)
LEMMA GlobalConfirmWorld ==
  ASSUME NEW w, IsWorld(w)
  PROVE  IsWorld(GlobalConfirm(w))
<1> DEFINE F(v) == IF v \in w.pending THEN Simplify(Confirm(v, w.arch[v]), w.doc)
                   ELSE w.arch[v]
           f == [v \in View |-> F(v)]
           u == [w EXCEPT !.arch = f]
           x == [w EXCEPT !.arch = f, !.pending = {}]
<1>1. GlobalConfirm(w) = x
  BY DEF GlobalConfirm
<1>2. \A v \in View : IsArchiver(F(v))
  BY ConfirmShape, SimplifyShape DEF IsWorld
<1> HIDE DEF F
<1>3. f = [v \in View |-> f[v]] /\ \A v \in View : IsArchiver(f[v])
  BY <1>2
<1> HIDE DEF f
<1>4. IsWorld(u)
  BY <1>3, ArchivesWorld
<1>5. DOMAIN x = DOMAIN u /\ x.arch = u.arch
  BY DEF IsWorld
<1> HIDE DEF x, u
<1> QED BY <1>1, <1>4, <1>5, SameArchives

(* Clearing the history of all views leaves well-formed archives.          *)
LEMMA GlobalClearHistoryWorld ==
  ASSUME NEW w, IsWorld(w)
  PROVE  IsWorld(GlobalClearHistory(w))
<1> DEFINE f == [v \in View |-> Cleared]
<1>1. f = [v \in View |-> f[v]] /\ \A v \in View : IsArchiver(f[v])
  <2>1. IsArchiver(Cleared)
    BY NewArchiverShape
  <2> HIDE DEF Cleared
  <2> QED BY <2>1
<1>2. GlobalClearHistory(w) = [w EXCEPT !.arch = f]
  BY DEF GlobalClearHistory
<1> HIDE DEF f
<1> QED BY <1>1, <1>2, ArchivesWorld

(* Saving, which confirms in every view, keeps the history well-formed.    *)
LEMMA NotifySaveWorld ==
  ASSUME NEW w, IsWorld(w), NEW real
  PROVE  IsWorld(NotifySave(w, real))
<1> DEFINE C(v) == Confirm(v, w.arch[v])
           F(v) == [C(v) EXCEPT !.last_autosave = C(v).depth,
                                !.last_save = IF real THEN CorrectedDepth(C(v))
                                              ELSE @]
           f == [v \in View |-> F(v)]
<1>1. NotifySave(w, real) = [w EXCEPT !.arch = f]
  BY DEF NotifySave
<1>2. ASSUME NEW v \in View PROVE IsArchiver(F(v))
  <2>1. IsArchiver(C(v))
    BY ConfirmShape DEF IsWorld
  <2> HIDE DEF C
  <2>2. /\ IsArchiverRecord(F(v)) /\ F(v).past = C(v).past
        /\ F(v).redo = C(v).redo /\ F(v).depth = C(v).depth
    BY <2>1 DEF IsArchiver, IsArchiverRecord
  <2> HIDE DEF F
  <2> QED BY <2>1, <2>2, OtherFields
<1> HIDE DEF F
<1>3. f = [v \in View |-> f[v]] /\ \A v \in View : IsArchiver(f[v])
  BY <1>2
<1> HIDE DEF f
<1> QED BY <1>1, <1>3, ArchivesWorld

(* Undoing an item and forgetting it keeps the history well-formed.        *)
LEMMA ForgetWorld ==
  ASSUME NEW w, IsWorld(w), NEW v \in View
  PROVE  IsWorld(Forget(w, v))
<1> DEFINE u == Cancel(w, v)
           x == Update(u, v, Retract(v, u.arch[v]))
<1>1. IsWorld(u)
  BY CancelWorld
<1> HIDE DEF u
<1>2. IsWorld(x)
  BY <1>1, RetractShape, UpdateWorld DEF IsWorld
<1>3. IsWorld(Cancel(x, v))
  <2> HIDE DEF x
  <2> QED BY <1>2, CancelWorld
<1> QED BY <1>2, <1>3 DEF Forget, u

(***************************************************************************)
(* Undo and redo                                                           *)
(***************************************************************************)
LEMMA UndoOneWorld ==
  ASSUME NEW w, IsWorld(w), NEW v \in View,
         HasHistory(w.arch[v])
  PROVE  IsWorld(UndoOne(w, v))
<1> DEFINE a  == w.arch[v]
           p  == Top(a)
           u  == Apply(w, v, p)
           re == Branches(p, RedoTop(a), a.redo[Len(a.past)])
           c  == [a EXCEPT !.past = Below(@), !.redo = Replace(Below(@), re),
                           !.depth = @ - 1]
<1>1. IsArchiver(a)
  BY DEF IsWorld
<1>2. IsWorld(u)
  BY ApplyWorld
<1>3. UndoOne(w, v) \in {Fail(w, "history corrupted"), Update(u, v, c)}
  BY DEF UndoOne
<1> HIDE DEF u, re
<1>4. IsArchiver(c)
  <2>1. /\ IsArchiverRecord(c) /\ c.past = Below(a.past)
        /\ c.redo = Replace(Below(a.redo), re) /\ c.depth = a.depth - 1
    <3> HIDE DEF a
    <3> QED BY <1>1 DEF IsArchiver, IsArchiverRecord
  <2>2. Len(a.past) # 0 /\ Len(a.past) \in Nat /\ Len(a.redo) = Len(a.past) + 1
    BY <1>1, ArchiverLengths DEF HasHistory
  <2> HIDE DEF a
  <2>3. IsSeq(Below(a.past)) /\ Len(Below(a.past)) = Len(a.past) - 1
    BY <1>1, <2>2, BelowIsSeq DEF IsArchiver
  <2>4. IsSeq(Below(a.redo)) /\ Len(Below(a.redo)) = Len(a.past)
    BY <1>1, <2>2, BelowIsSeq DEF IsArchiver
  <2>5. /\ IsSeq(Replace(Below(a.redo), re))
        /\ Len(Replace(Below(a.redo), re)) = Len(a.past)
    BY <2>2, <2>4, ReplaceIsSeq
  <2> HIDE DEF c
  <2> QED BY <1>1, <2>1, <2>2, <2>3, <2>5 DEF IsArchiver, Shape
<1> HIDE DEF c
<1>5. IsWorld(Update(u, v, c))
  BY <1>2, <1>4, UpdateWorld
<1>6. IsWorld(Fail(w, "history corrupted"))
  BY FailWorld
<1> QED BY <1>3, <1>5, <1>6

(* The state of the loop of undo.                                          *)
IsUndoing(s) ==
  DOMAIN s = {"w", "v", "go"} /\ s.v \in View /\ IsWorld(s.w)

UndoProofs ==
  INSTANCE IterationProofs WITH Step <- UndoRound, Inv <- IsUndoing

(* Undo, all its rounds included, keeps the history well-formed.           *)
LEMMA UndoWorld ==
  ASSUME NEW w, IsWorld(w), NEW v \in View
  PROVE  IsWorld(Undo(w, v))
<1> DEFINE start == [w |-> w, v |-> v, go |-> ~Active(w.arch[v])]
<1>1. IsUndoing(start)
  BY DEF IsUndoing
<1>2. ASSUME NEW s, IsUndoing(s) PROVE IsUndoing(UndoRound(s))
  <2> DEFINE x == Update(s.w, s.v, Expose(s.v, s.w.arch[s.v]))
             u == UndoOne(x, s.v)
             g == u.failed = "" /\ GetAuthor(Top(x.arch[s.v])) # s.v
             y == [s EXCEPT !.w = u, !.go = g]
             z == [s EXCEPT !.go = FALSE]
  <2>1. UndoRound(s) = z \/ (HasHistory(s.w.arch[s.v]) /\ UndoRound(s) = y)
    BY DEF UndoRound
  <2>2. IsUndoing(z)
    <3>1. DOMAIN z = DOMAIN s /\ z.w = s.w /\ z.v = s.v
      BY <1>2 DEF IsUndoing
    <3> QED BY <1>2, <3>1 DEF IsUndoing
  <2>3. ASSUME HasHistory(s.w.arch[s.v]) PROVE IsUndoing(y)
    <3>1. /\ IsArchiver(Expose(s.v, s.w.arch[s.v]))
          /\ HasHistory(Expose(s.v, s.w.arch[s.v]))
      BY <1>2, <2>3, ExposeShape DEF IsUndoing, IsWorld, HasHistory
    <3>2. IsWorld(x) /\ HasHistory(x.arch[s.v])
      BY <1>2, <3>1, UpdateWorld DEF IsUndoing
    <3>3. IsWorld(u)
      <4> HIDE DEF x
      <4> QED BY <1>2, <3>2, UndoOneWorld DEF IsUndoing
    <3> HIDE DEF u, g
    <3>4. DOMAIN y = DOMAIN s /\ y.w = u /\ y.v = s.v
      BY <1>2 DEF IsUndoing
    <3> QED BY <1>2, <3>3, <3>4 DEF IsUndoing
  <2> HIDE DEF y, z
  <2> QED BY <2>1, <2>2, <2>3
<1> HIDE DEF start
<1> DEFINE end == UndoProofs!Iterate(start, MaxRounds)
<1>3. IsUndoing(end)
  BY <1>1, <1>2, UndoProofs!IterateKeeps
<1>4. end = UndoLoop!Iterate(start, MaxRounds)
  BY DEF UndoProofs!Iterate, UndoLoop!Iterate
<1> HIDE DEF end
<1>5. Undo(w, v) \in {end.w, Fail(end.w, "undo does not end")}
  BY <1>4 DEF Undo, Ended, start
<1> QED BY <1>3, <1>5, FailWorld DEF IsUndoing

(* One future goes back to past, and the depth goes with it.               *)
LEMMA RedoOneWorld ==
  ASSUME NEW w, IsWorld(w), NEW v \in View, NEW i
  PROVE  IsWorld(RedoOne(w, v, i))
<1> DEFINE a    == w.arch[v]
           re   == RedoTop(a)
           p    == re[i].p
           q    == PInvert(p)
           f    == re[i].f
           rest == SubSeq(re, 1, i - 1) \o SubSeq(re, i + 1, Len(re))
           u    == Apply(w, v, p)
           b    == [a EXCEPT !.past = Append(@, q),
                             !.redo = Append(Replace(@, rest), f),
                             !.depth = @ + 1]
           c    == Normalize(v, IF i = 1 THEN b ELSE ForgetSaves(b, a.depth))
<1>1. IsArchiver(a)
  BY DEF IsWorld
<1>2. IsWorld(u)
  BY ApplyWorld
<1>3. RedoOne(w, v, i) \in {Fail(w, "future corrupted"), Update(u, v, c)}
  BY DEF RedoOne
<1> HIDE DEF u, q, f, rest, a
<1>4. IsArchiver(b)
  <2>1. /\ IsArchiverRecord(b) /\ b.past = Append(a.past, q)
        /\ b.redo = Append(Replace(a.redo, rest), f) /\ b.depth = a.depth + 1
    BY <1>1 DEF IsArchiver, IsArchiverRecord
  <2>2. Len(a.past) \in Nat /\ Len(a.redo) = Len(a.past) + 1 /\ Len(a.redo) # 0
    BY <1>1, ArchiverLengths
  <2>3. IsSeq(Append(a.past, q)) /\ Len(Append(a.past, q)) = Len(a.past) + 1
    BY <1>1, AppendIsSeq DEF IsArchiver
  <2>4. IsSeq(Replace(a.redo, rest)) /\ Len(Replace(a.redo, rest)) = Len(a.redo)
    BY <1>1, <2>2, ReplaceIsSeq DEF IsArchiver
  <2>5. /\ IsSeq(Append(Replace(a.redo, rest), f))
        /\ Len(Append(Replace(a.redo, rest), f)) = Len(a.redo) + 1
    BY <2>4, AppendIsSeq
  <2> HIDE DEF b
  <2> QED BY <1>1, <2>1, <2>2, <2>3, <2>5 DEF IsArchiver, Shape
<1> HIDE DEF b
<1>5. IsArchiver(c)
  BY <1>4, ForgetSavesShape, NormalizeShape
<1> HIDE DEF c
<1>6. IsWorld(Update(u, v, c))
  BY <1>2, <1>5, UpdateWorld
<1>7. IsWorld(Fail(w, "future corrupted"))
  BY FailWorld
<1> QED BY <1>3, <1>6, <1>7

(* The state of the loop of redo.                                          *)
IsRedoing(s) ==
  /\ DOMAIN s = {"w", "v", "i", "first", "go"}
  /\ s.v \in View /\ IsWorld(s.w)

RedoProofs ==
  INSTANCE IterationProofs WITH Step <- RedoRound, Inv <- IsRedoing

(* Redo, all its rounds included, keeps the history well-formed.           *)
LEMMA RedoWorld ==
  ASSUME NEW w, IsWorld(w), NEW v \in View, NEW i
  PROVE  IsWorld(Redo(w, v, i))
<1> DEFINE start == [w |-> w, v |-> v, i |-> i, first |-> TRUE,
                     go |-> ~Active(w.arch[v])]
<1>1. IsRedoing(start)
  BY DEF IsRedoing
<1>2. ASSUME NEW s, IsRedoing(s) PROVE IsRedoing(RedoRound(s))
  <2> DEFINE x    == RedoOne(s.w, s.v, s.i)
             done == GetAuthor(RedoTop(s.w.arch[s.v])[s.i].p) = s.v
             next == RedoTop(x.arch[s.v])
             who  == GetAuthor(next[1].p)
             g    == /\ x.failed = ""
                     /\ ~(done /\ ~s.first)
                     /\ Len(next) = 1
                     /\ who # s.v
                     /\ ~(done /\ who \in View)
             y    == [s EXCEPT !.w = x, !.i = 1, !.first = FALSE, !.go = g]
             z    == [s EXCEPT !.go = FALSE]
  <2>1. RedoRound(s) \in {y, z}
    BY DEF RedoRound
  <2>2. IsWorld(x)
    BY <1>2, RedoOneWorld DEF IsRedoing
  <2> HIDE DEF x, g
  <2>3. IsRedoing(z)
    <3>1. DOMAIN z = DOMAIN s /\ z.w = s.w /\ z.v = s.v
      BY <1>2 DEF IsRedoing
    <3> QED BY <1>2, <3>1 DEF IsRedoing
  <2>4. IsRedoing(y)
    <3>1. DOMAIN y = DOMAIN s /\ y.w = x /\ y.v = s.v
      BY <1>2 DEF IsRedoing
    <3> QED BY <1>2, <2>2, <3>1 DEF IsRedoing
  <2> HIDE DEF y, z
  <2> QED BY <2>1, <2>3, <2>4
<1> HIDE DEF start
<1> DEFINE end == RedoProofs!Iterate(start, MaxRounds)
<1>3. IsRedoing(end)
  BY <1>1, <1>2, RedoProofs!IterateKeeps
<1>4. end = RedoLoop!Iterate(start, MaxRounds)
  BY DEF RedoProofs!Iterate, RedoLoop!Iterate
<1> HIDE DEF end
<1>5. Redo(w, v, i) \in {end.w, Fail(end.w, "redo does not end")}
  BY <1>4 DEF Redo, Ended, start
<1> QED BY <1>3, <1>5, FailWorld DEF IsRedoing

(***************************************************************************)
(* Markers                                                                 *)
(***************************************************************************)
(* A set of positions has a last one.                                      *)
LEMMA LastPosition ==
  ASSUME NEW n \in Nat, NEW S \in SUBSET (1 .. n), S # {}
  PROVE  Max(S) \in S
<1> DEFINE T == {k \in Nat : n - k \in S}
<1>1. T # {}
  <2>1. PICK i \in S : TRUE
    OBVIOUS
  <2>2. n - i \in Nat /\ n - (n - i) = i
    BY <2>1
  <2> QED BY <2>1, <2>2
<1>2. PICK k \in T : \A l \in T : k <= l
  <2> HIDE DEF T
  <2>1. T \in SUBSET Nat
    BY DEF T
  <2> QED BY <1>1, <2>1, ApplyProofs!LeastNat
<1>3. \A i \in S : n - i \in T
  OBVIOUS
<1>4. n - k \in S /\ \A i \in S : n - k >= i
  BY <1>2, <1>3
<1>5. \E i \in S : \A l \in S : i >= l
  BY <1>4
<1> QED BY <1>5 DEF Max

(* Removing an element of a sequence.                                      *)
LEMMA WithoutIsSeq ==
  ASSUME NEW s, IsSeq(s), NEW i \in 1 .. Len(s)
  PROVE  /\ IsSeq(SubSeq(s, 1, i - 1) \o SubSeq(s, i + 1, Len(s)))
         /\ Len(SubSeq(s, 1, i - 1) \o SubSeq(s, i + 1, Len(s))) = Len(s) - 1
<1>1. Len(s) \in Nat
  BY DEF IsSeq
<1> DEFINE l == SubSeq(s, 1, i - 1)
           r == SubSeq(s, i + 1, Len(s))
<1>2. IsSeq(l) /\ Len(l) = (i - 1) - 1 + 1
  <2>1. 1 \in 1 .. Len(s) + 1 /\ i - 1 \in 1 - 1 .. Len(s)
    BY <1>1
  <2> QED BY <2>1, SubSeqIsSeq
<1>3. IsSeq(r) /\ Len(r) = Len(s) - (i + 1) + 1
  <2>1. i + 1 \in 1 .. Len(s) + 1 /\ Len(s) \in (i + 1) - 1 .. Len(s)
    BY <1>1
  <2> QED BY <2>1, SubSeqIsSeq
<1> HIDE DEF l, r
<1>4. IsSeq(l \o r) /\ Len(l \o r) = Len(l) + Len(r)
  BY <1>2, <1>3, ConcatIsSeq
<1>5. Len(l) + Len(r) = Len(s) - 1
  BY <1>1, <1>2, <1>3
<1> QED BY <1>4, <1>5 DEF l, r

(* A marker is removed with its forest, and the depth follows.             *)
LEMMA RemoveMarkerWorld ==
  ASSUME NEW w, IsWorld(w), NEW v \in View, NEW m
  PROVE  IsWorld(RemoveMarker(w, v, m))
<1> DEFINE a  == w.arch[v]
           at == {i \in DOMAIN a.past : PIsMarker(a.past[i], m, FALSE)}
           j  == Max(at)
           p  == SubSeq(a.past, 1, j - 1) \o SubSeq(a.past, j + 1, Len(a.past))
           r  == SubSeq(a.redo, 1, (j + 1) - 1) \o
                 SubSeq(a.redo, (j + 1) + 1, Len(a.redo))
           c  == [a EXCEPT !.past = p, !.redo = r, !.depth = @ - 1]
<1>1. IsArchiver(a)
  BY DEF IsWorld
<1>2. /\ Len(a.past) \in Nat /\ DOMAIN a.past = 1 .. Len(a.past)
      /\ Len(a.redo) = Len(a.past) + 1
  BY <1>1, ArchiverLengths
<1>3. \/ RemoveMarker(w, v, m) \in {Fail(w, "marker not found"),
                                    Fail(w, "cannot remove marker")}
      \/ at # {} /\ RemoveMarker(w, v, m) = Update(w, v, c)
  BY DEF RemoveMarker
<1>4. ASSUME at # {} PROVE IsArchiver(c)
  <2>1. j \in 1 .. Len(a.past)
    <3>1. at \in SUBSET (1 .. Len(a.past))
      BY <1>2
    <3> HIDE DEF at, a
    <3> QED BY <1>2, <1>4, <3>1, LastPosition
  <2> HIDE DEF j, a
  <2>2. j \in 1 .. Len(a.past) /\ j + 1 \in 1 .. Len(a.redo)
    BY <1>2, <2>1
  <2>3. IsSeq(p) /\ Len(p) = Len(a.past) - 1
    BY <1>1, <2>2, WithoutIsSeq DEF IsArchiver
  <2>4. IsSeq(r) /\ Len(r) = Len(a.redo) - 1
    BY <1>1, <2>2, WithoutIsSeq DEF IsArchiver
  <2> HIDE DEF p, r
  <2>5. /\ IsArchiverRecord(c) /\ c.past = p /\ c.redo = r
        /\ c.depth = a.depth - 1
    BY <1>1 DEF IsArchiver, IsArchiverRecord
  <2> HIDE DEF c
  <2> QED BY <1>1, <1>2, <2>3, <2>4, <2>5 DEF IsArchiver, Shape
<1> HIDE DEF c, at
<1>5. at # {} => IsWorld(Update(w, v, c))
  BY <1>4, UpdateWorld
<1> QED BY <1>3, <1>5, FailWorld

(* Setting a marker keeps the history well-formed.                         *)
LEMMA MarkStartWorld ==
  ASSUME NEW w, IsWorld(w), NEW v \in View, NEW m
  PROVE  IsWorld(MarkStart(w, v, m))
<1> DEFINE y == Update(w, v, Confirm(v, w.arch[v]))
           x == StartSlave(y, v, m)
<1>1. IsWorld(y)
  BY ConfirmShape, UpdateWorld DEF IsWorld
<1> HIDE DEF y
<1>2. IsWorld(x)
  BY <1>1, StartSlaveWorld
<1> HIDE DEF x
<1>3. IsWorld(Update(x, v, Confirm(v, x.arch[v])))
  BY <1>2, ConfirmShape, UpdateWorld DEF IsWorld
<1> QED BY <1>3 DEF MarkStart, x, y

(* Ending a block keeps the history well-formed.                           *)
LEMMA MarkEndWorld ==
  ASSUME NEW w, IsWorld(w), NEW v \in View, NEW m
  PROVE  IsWorld(MarkEnd(w, v, m))
<1> DEFINE x == RemoveMarker(w, v, m)
           a == IF x.failed = "" THEN Simplify(x.arch[v], x.doc) ELSE x.arch[v]
<1>1. IsWorld(x)
  BY RemoveMarkerWorld
<1>2. MarkEnd(w, v, m) = Update(x, v, a)
  BY DEF MarkEnd
<1> HIDE DEF x
<1>3. IsArchiver(a)
  BY <1>1, SimplifyShape DEF IsWorld
<1> HIDE DEF a
<1> QED BY <1>1, <1>2, <1>3, UpdateWorld

(* The state of the loop of mark_cancel.                                   *)
IsCancelling(s) ==
  /\ DOMAIN s = {"w", "v", "m", "ok", "go"}
  /\ s.v \in View /\ IsWorld(s.w)

CancelProofs ==
  INSTANCE IterationProofs WITH Step <- CancelRound, Inv <- IsCancelling

(* A round of cancelling a block keeps the history well-formed.            *)
LEMMA CancelRoundWorld ==
  ASSUME NEW s, IsCancelling(s)
  PROVE  IsCancelling(CancelRound(s))
<1> DEFINE v == s.v
           x == Update(s.w, v, Expose(v, s.w.arch[v]))
           c == Cancel(Update(x, v, Retract(v, x.arch[v])), v)
           Stop(w, ok) == [s EXCEPT !.w = w, !.ok = ok, !.go = FALSE]
           y == [s EXCEPT !.w = c]
<1>1. IsArchiver(Expose(v, s.w.arch[v])) /\ v \in View /\ IsWorld(s.w)
  BY ExposeShape DEF IsCancelling, IsWorld
<1>2. CancelRound(s) \in {s, Stop(s.w, FALSE), Stop(MarkEnd(x, v, s.m), TRUE),
                         Stop(RemoveMarker(x, v, s.m), FALSE), y}
  BY DEF CancelRound
<1> HIDE DEF v
<1>3. IsWorld(x)
  BY <1>1, UpdateWorld
<1> HIDE DEF x
<1>4. IsWorld(c)
  <2>1. IsArchiver(Retract(v, x.arch[v]))
    BY <1>1, <1>3, RetractShape DEF IsWorld
  <2>2. IsWorld(Update(x, v, Retract(v, x.arch[v])))
    BY <1>1, <1>3, <2>1, UpdateWorld
  <2> QED BY <1>1, <2>2, CancelWorld
<1> HIDE DEF c
<1>5. IsCancelling(y)
  <2>1. DOMAIN y = DOMAIN s /\ y.w = c /\ y.v = s.v
    BY DEF IsCancelling
  <2> HIDE DEF y
  <2> QED BY <1>4, <2>1 DEF IsCancelling
<1>6. ASSUME NEW w, IsWorld(w), NEW ok PROVE IsCancelling(Stop(w, ok))
  <2>1. DOMAIN Stop(w, ok) = DOMAIN s /\ Stop(w, ok).w = w /\ Stop(w, ok).v = s.v
    BY DEF IsCancelling
  <2> HIDE DEF Stop
  <2> QED BY <1>6, <2>1 DEF IsCancelling
<1>7. IsWorld(MarkEnd(x, v, s.m)) /\ IsWorld(RemoveMarker(x, v, s.m))
  BY <1>1, <1>3, MarkEndWorld, RemoveMarkerWorld
<1> HIDE DEF Stop, y
<1> QED BY <1>1, <1>2, <1>5, <1>6, <1>7

(* Cancelling a block, all rounds included, keeps the history well-formed. *)
LEMMA MarkCancelWorld ==
  ASSUME NEW w, IsWorld(w), NEW v \in View, NEW m
  PROVE  IsWorld(MarkCancel(w, v, m))
<1> DEFINE start == [w |-> Cancel(w, v), v |-> v, m |-> m, ok |-> FALSE, go |-> TRUE]
           end   == CancelProofs!Iterate(start, MaxRounds)
<1>1. IsCancelling(start)
  BY CancelWorld DEF IsCancelling
<1>2. end = CancelTo(w, v, m)
  BY DEF CancelProofs!Iterate, CancelLoop!Iterate, CancelTo
<1> HIDE DEF start
<1>3. IsCancelling(end)
  BY <1>1, CancelRoundWorld, CancelProofs!IterateKeeps
<1> HIDE DEF end
<1>4. MarkCancel(w, v, m) \in {end.w, Fail(end.w, "mark_cancel does not end")}
  BY <1>2 DEF MarkCancel, Ended
<1> QED BY <1>3, <1>4, FailWorld DEF IsCancelling
=============================================================================
