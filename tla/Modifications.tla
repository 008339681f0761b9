--------------------------- MODULE Modifications ---------------------------
(***************************************************************************)
(* Edit trees and the nine elementary modifications of them.               *)
(*                                                                         *)
(* A tree is a record [op, arg]: a label and the sequence of its children. *)
(* A string is a tree with label "string" whose children stand for its     *)
(* characters, so that inserting, removing, splitting and joining read the *)
(* same on strings and on compound trees, as they do in the source.  A     *)
(* character is not a subtree: no path leads to it.                        *)
(*                                                                         *)
(* A modification is a record [k, p, t]: its kind, its path (the root      *)
(* followed by an index and an argument, as in the source) and its tree.   *)
(* Paths count children from 0.                                            *)
(***************************************************************************)
EXTENDS Integers, Sequences, FiniteSets, FiniteSetsExt

Str(cs)     == [op |-> "string", arg |-> cs]
Node(l, ts) == [op |-> l, arg |-> ts]
IsAtomic(t) == t.op = "string"
Arity(t)    == Len(t.arg)

(* The node of t at path p, and t with the node at p replaced by u.        *)
Prefix(p, n) == SubSeq(p, 1, n)
Drop(p, n)   == SubSeq(p, n + 1, Len(p))

SubTree(t, p) ==
  LET down[n \in 0 .. Len(p)] ==
        IF n = 0 THEN t ELSE down[n - 1].arg[p[n] + 1]
  IN  down[Len(p)]

HasSubTree(t, p) ==
  \A n \in 1 .. Len(p) :
     LET s == SubTree(t, Prefix(p, n - 1))
     IN  ~IsAtomic(s) /\ p[n] \in 0 .. Arity(s) - 1

Put(t, p, u) ==
  LET up[n \in 0 .. Len(p)] ==
        IF n = Len(p) THEN u
        ELSE [SubTree(t, Prefix(p, n)) EXCEPT !.arg[p[n + 1] + 1] = up[n + 1]]
  IN  up[0]

(***************************************************************************)
(* Accessors                                                               *)
(***************************************************************************)
EmptyTree == Str(<<>>)

Mod(k, p, t) == [k |-> k, p |-> p, t |-> t]

(* The number of trailing items of the path that are not part of the root. *)
Extra(k) == CASE k \in {"assign", "assign_node"} -> 0
              [] k \in {"remove", "split"}       -> 2
              [] OTHER                           -> 1

Root(m)     == Prefix(m.p, Len(m.p) - Extra(m.k))
Index(m)    == m.p[Len(Root(m)) + 1]
Argument(m) == m.p[Len(m.p)]

(***************************************************************************)
(* Applicability and application                                           *)
(***************************************************************************)
RightIndex(t) == IF IsAtomic(t) THEN Arity(t) ELSE 1

(* Whether m, whose root is the node s, can be applied to s.               *)
CanApply(s, m) ==
  CASE m.k = "assign"      -> TRUE
    [] m.k = "insert"      -> Index(m) \in 0 .. Arity(s)
                              /\ IsAtomic(s) = IsAtomic(m.t)
    [] m.k = "remove"      -> Index(m) >= 0
                              /\ Index(m) + Argument(m) <= Arity(s)
    [] m.k = "split"       -> HasSubTree(s, <<Index(m)>>)
                              /\ Argument(m) \in
                                   0 .. Arity(SubTree(s, <<Index(m)>>))
    [] m.k = "join"        -> HasSubTree(s, <<Index(m)>>)
                              /\ HasSubTree(s, <<Index(m) + 1>>)
                              /\ IsAtomic(SubTree(s, <<Index(m)>>)) =
                                 IsAtomic(SubTree(s, <<Index(m) + 1>>))
    [] m.k = "assign_node" -> ~IsAtomic(s)
    [] m.k = "insert_node" -> ~IsAtomic(m.t) /\ Argument(m) \in 0 .. Arity(m.t)
    [] m.k = "remove_node" -> HasSubTree(s, <<Index(m)>>)
    [] m.k = "set_cursor"  -> Index(m) \in 0 .. RightIndex(s)

IsApplicable(t, m) ==
  HasSubTree(t, Root(m)) /\ CanApply(SubTree(t, Root(m)), m)

(* Splice gone wrong: one element too many is dropped.                     *)
SpliceOneMore(ks, i, n, new) == Prefix(ks, i) \o new \o Drop(ks, i + n + 1)

(* The sequence ks with the n elements after position i replaced by new.   *)
Splice(ks, i, n, new) == Prefix(ks, i) \o new \o Drop(ks, i + n)

(* The effect of m on the node s that is its root.                         *)
ApplyAt(s, m) ==
  LET ks      == s.arg
      With(as) == [s EXCEPT !.arg = as]
  IN  CASE m.k = "assign"      -> m.t
        [] m.k = "insert"      -> With(Splice(ks, Index(m), 0, m.t.arg))
        [] m.k = "remove"      -> With(Splice(ks, Index(m), Argument(m), <<>>))
        [] m.k = "split"       ->
             LET c == ks[Index(m) + 1]
             IN  With(Splice(ks, Index(m), 1,
                        << [c EXCEPT !.arg = Prefix(@, Argument(m))],
                           [c EXCEPT !.arg = Drop(@, Argument(m))] >>))
        [] m.k = "join"        ->
             LET c == ks[Index(m) + 1]
                 d == ks[Index(m) + 2]
             IN  With(Splice(ks, Index(m), 2, <<[c EXCEPT !.arg = @ \o d.arg]>>))
        [] m.k = "assign_node" -> [s EXCEPT !.op = m.t.op]
        [] m.k = "insert_node" ->
             [m.t EXCEPT !.arg = Splice(@, Argument(m), 0, <<s>>)]
        [] m.k = "remove_node" -> ks[Index(m) + 1]
        [] m.k = "set_cursor"  -> s

CleanApply(t, m) == Put(t, Root(m), ApplyAt(SubTree(t, Root(m)), m))

(***************************************************************************)
(* Inversion: the modification that undoes m when applied after it.        *)
(***************************************************************************)
InvertMod(m, t) ==
  LET rp == Root(m)
      s  == SubTree(t, rp)
      At(k, more, u) == Mod(k, rp \o more, u)
  IN  CASE m.k = "assign"      -> At("assign", <<>>, s)
        [] m.k = "insert"      -> At("remove", <<Index(m), Arity(m.t)>>, EmptyTree)
        [] m.k = "remove"      ->
             At("insert", <<Index(m)>>,
                [s EXCEPT !.arg = SubSeq(@, Index(m) + 1, Index(m) + Argument(m))])
        [] m.k = "split"       -> At("join", <<Index(m)>>, EmptyTree)
        [] m.k = "join"        ->
             At("split", <<Index(m), Arity(s.arg[Index(m) + 1])>>, EmptyTree)
        [] m.k = "assign_node" -> At("assign_node", <<>>, Node(s.op, <<>>))
        [] m.k = "insert_node" -> At("remove_node", <<Argument(m)>>, EmptyTree)
        [] m.k = "remove_node" ->
             At("insert_node", <<Index(m)>>,
                [s EXCEPT !.arg = Splice(@, Index(m), 1, <<>>)])
        [] m.k = "set_cursor"  -> m

(* PossibleInverse gone wrong: the roots are not compared.                 *)
PossibleInverseKinds(m1, m2) ==
  CASE m1.k = "insert" -> m2.k = "remove" /\ Argument(m2) = Arity(m1.t)
    [] m1.k = "remove" -> m2.k = "insert" /\ Arity(m2.t) = Argument(m1)
    [] OTHER           -> TRUE

(* Whether m2 has the shape of an inverse of m1.                           *)
PossibleInverse(m1, m2) ==
  /\ Root(m1) = Root(m2)
  /\ CASE m1.k = "assign"      -> m2.k = "assign"
       [] m1.k = "insert"      -> m2.k = "remove" /\ Argument(m2) = Arity(m1.t)
       [] m1.k = "remove"      -> m2.k = "insert" /\ Arity(m2.t) = Argument(m1)
       [] m1.k = "split"       -> m2.k = "join"  /\ Index(m2) = Index(m1)
       [] m1.k = "join"        -> m2.k = "split" /\ Index(m2) = Index(m1)
       [] m1.k = "assign_node" -> m2.k = "assign_node"
       [] m1.k = "insert_node" -> m2.k = "remove_node" /\ Index(m2) = Argument(m1)
       [] m1.k = "remove_node" -> m2.k = "insert_node" /\ Argument(m2) = Index(m1)
       [] m1.k = "set_cursor"  -> m1 = m2

(***************************************************************************)
(* Commutation.  Swapping m1 (done first) and m2 (done second) either      *)
(* fails or gives m2' to be done first and m1' to be done second.          *)
(***************************************************************************)
Swapped(first, second) == [ok |-> TRUE, first |-> first, second |-> second]
NoSwap == [ok |-> FALSE]

Under(i, m)   == [m EXCEPT !.p = <<i>> \o @]
Shift(m, d)   == [m EXCEPT !.p[1] = @ + d]
AtRoot(m)     == Root(m) = <<>>

(* The two modifications meet in the list of children of one node: m1      *)
(* changed that list from position i on by d, and m2 is there or deeper.   *)
Swap1(m1, m2, i, d) ==
  LET b    == m2.p[1]
      stay == b < i \/ (b = i /\ AtRoot(m2) /\ m2.k = "insert")
      r1   == IF stay THEN m2 ELSE Shift(m2, -d)
      Moved(e) == Swapped(r1, Shift(m1, e))
  IN  IF ~AtRoot(m2) THEN Moved(0)
      ELSE CASE m2.k = "insert" -> Moved(IF b <= i THEN Arity(m2.t) ELSE 0)
             [] m2.k = "remove" ->
                  LET n == m2.p[2]
                  IN  IF b <= i /\ i < b + n /\ (b # i \/ m1.k # "remove")
                      THEN NoSwap
                      ELSE Moved(IF b < i THEN -n ELSE 0)
             [] m2.k = "split" -> Moved(IF b < i THEN 1 ELSE 0)
             [] m2.k = "join"  -> IF b = i - 1 THEN NoSwap
                                  ELSE Moved(IF b < i THEN -1 ELSE 0)
             [] m2.k = "insert_node" -> Swapped(m2, Under(b, m1))
             [] m2.k \in {"remove_node", "set_cursor"} -> NoSwap
             [] OTHER -> Moved(0)

(* Swap2 gone wrong: position i itself does not move.                      *)
Swap2Strict(m1, m2, i, d) ==
  Swapped(m2, IF m1.p[1] > i THEN Shift(m1, d) ELSE m1)

(* m2 changed the list of children from position i on by d, m1 is deeper.  *)
Swap2(m1, m2, i, d) ==
  Swapped(m2, IF m1.p[1] >= i THEN Shift(m1, d) ELSE m1)

(* Cases where m1 is at the root of the tree the two have in common.       *)
SwapFromRoot(m1, m2) ==
  LET Meets(S)   == m2.p[1] \in S
      Here(k)    == AtRoot(m2) /\ m2.k = k
      i          == m1.p[1]
      Wrap       == Swapped(m2, Under(m2.p[1], m1))
  IN  CASE m1.k = "assign" ->
             IF m1 = m2 THEN Swapped(m1, m2)
             ELSE IF Here("insert_node") THEN Wrap ELSE NoSwap
        [] m1.k \in {"insert", "remove", "split", "join"} /\ m2.p = <<>> -> NoSwap
        [] m1.k = "insert" /\ m2.p # <<>> ->
             IF /\ Meets(i .. i + Arity(m1.t) - 1)
                /\ ~(Here("insert") /\ m2.p[1] = i)
                /\ ~Here("insert_node")
             THEN NoSwap ELSE Swap1(m1, m2, i, Arity(m1.t))
        [] m1.k = "remove" /\ m2.p # <<>> -> Swap1(m1, m2, i, -m1.p[2])
        [] m1.k = "split" /\ m2.p # <<>> ->
             IF /\ Meets({i, i + 1})
                /\ ~(Here("insert") /\ m2.p[1] = i)
                /\ ~Here("insert_node")
             THEN NoSwap ELSE Swap1(m1, m2, i, 1)
        [] m1.k = "join" /\ m2.p # <<>> ->
             IF Meets({i}) /\ ~Here("insert") THEN NoSwap
             ELSE Swap1(m1, m2, i, -1)
        [] m1.k = "assign_node" ->
             IF ~AtRoot(m2) THEN Swapped(m2, m1)
             ELSE IF m1 = m2 THEN Swapped(m1, m2)
             ELSE IF Here("insert_node") THEN Wrap ELSE NoSwap
        [] m1.k = "insert_node" ->
             IF AtRoot(m2) \/ ~Meets({i}) THEN NoSwap
             ELSE LET r == [m2 EXCEPT !.p = Tail(@)]
                  IN  Swapped(r, IF r.k = "insert_node" /\ AtRoot(r)
                                 THEN Under(r.p[1], m1) ELSE m1)
        [] m1.k = "remove_node" -> Swapped(Under(i, m2), m1)
        [] m1.k = "set_cursor" ->
             IF ~AtRoot(m2) \/ m2.k \in {"join", "split", "assign_node"}
             THEN Swapped(m2, m1) ELSE NoSwap

(* Cases where m2 is at that root and m1 is deeper.                        *)
SwapToRoot(m1, m2) ==
  LET Meets(S) == m1.p[1] \in S
      i        == m2.p[1]
  IN  CASE m2.k = "assign" -> NoSwap
        [] m2.k = "insert" -> Swap2(m1, m2, i, Arity(m2.t))
        [] m2.k = "remove" -> IF Meets(i .. i + m2.p[2] - 1) THEN NoSwap
                              ELSE Swap2(m1, m2, i, -m2.p[2])
        [] m2.k = "split"  -> IF Meets({i}) THEN NoSwap ELSE Swap2(m1, m2, i, 1)
        [] m2.k = "join"   -> IF Meets({i, i + 1}) THEN NoSwap
                              ELSE Swap2(m1, m2, i, -1)
        [] m2.k = "assign_node" -> Swapped(m2, m1)
        [] m2.k = "insert_node" -> Swapped(m2, Under(i, m1))
        [] m2.k = "remove_node" ->
             IF Meets({i}) THEN Swapped(m2, [m1 EXCEPT !.p = Tail(@)]) ELSE NoSwap
        [] m2.k = "set_cursor" -> Swapped(m2, m1)

(* The length of the path to the deepest node above both roots.            *)
CommonDepth(m1, m2) ==
  Max({n \in 0 .. Min({Len(Root(m1)), Len(Root(m2))}) :
         Prefix(m1.p, n) = Prefix(m2.p, n)})

SwapMods(m1, m2) ==
  LET n  == CommonDepth(m1, m2)
      h  == Prefix(m1.p, n)
      s1 == [m1 EXCEPT !.p = Drop(@, n)]
      s2 == [m2 EXCEPT !.p = Drop(@, n)]
      r  == CASE AtRoot(s1)                -> SwapFromRoot(s1, s2)
              [] ~AtRoot(s1) /\ AtRoot(s2) -> SwapToRoot(s1, s2)
              [] OTHER                     -> Swapped(s2, s1)
      Back(m) == [m EXCEPT !.p = h \o @]
  IN  IF r.ok THEN Swapped(Back(r.first), Back(r.second)) ELSE NoSwap

(***************************************************************************)
(* Joining m1 and m2 into one modification of the string at their root.    *)
(* t is the document before m1.                                            *)
(***************************************************************************)
JoinText(new, old, front) == IF front THEN new \o old ELSE old \o new

JoinMods(m1, m2, t) ==
  LET sameRoot == Root(m1) = Root(m2)
      i1 == Index(m1)
      i2 == Index(m2)
  IN  CASE /\ m1.k = "insert" /\ m2.k = "insert"
           /\ IsAtomic(m1.t) /\ sameRoot
           /\ i2 \in {i1, i1 + Arity(m1.t)} ->
             [ok |-> TRUE,
              m  |-> [m1 EXCEPT !.t.arg = JoinText(m2.t.arg, @, i2 = i1)]]
        [] /\ m1.k = "remove" /\ m2.k = "remove"
           /\ IsAtomic(SubTree(t, Root(m1))) /\ sameRoot
           /\ i1 \in {i2, i2 + Argument(m2)} ->
             [ok |-> TRUE,
              m  |-> Mod("remove", Root(m2) \o <<i2, Argument(m1) + Argument(m2)>>,
                         EmptyTree)]
        [] OTHER -> [ok |-> FALSE]
=============================================================================
