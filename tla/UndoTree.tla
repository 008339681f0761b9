------------------------------ MODULE UndoTree ------------------------------
(***************************************************************************)
(* What an editor promises: its documents form a tree, and the user stands *)
(* at one of them.                                                         *)
(*                                                                         *)
(* An edit grows a branch where the user stands.  Undo goes back one       *)
(* document and leaves the branch behind; redo follows any branch that was *)
(* left.  Nothing is forgotten but documents between two edits that were   *)
(* made into one, and only where no other branch starts.                   *)
(*                                                                         *)
(* A tree has docs, the documents from the root to the current one, and    *)
(* for each of them branches, the futures that start there, the latest     *)
(* first.  The operations are relations between the tree before, t, and    *)
(* the tree after, u.                                                      *)
(***************************************************************************)
EXTENDS Naturals, Sequences

CONSTANT First     \* the document at the root of the tree

VARIABLE tree

Root(doc)      == [docs |-> <<doc>>, branches |-> << <<>> >>]
Future(doc, f) == [doc |-> doc, f |-> f]

Size(t)    == Len(t.docs)
Current(t) == t.docs[Size(t)]
Here(t)    == t.branches[Size(t)]
Shorter(s) == SubSeq(s, 1, Len(s) - 1)

-----------------------------------------------------------------------------
(* The tree t without the k documents before its last one.                 *)
Forget(t, k) ==
  LET n == Size(t) - k - 1
  IN  [docs     |-> Append(SubSeq(t.docs, 1, n), Current(t)),
       branches |-> Append(SubSeq(t.branches, 1, n), Here(t))]

Forgettable(t) ==
  {k \in 0 .. Size(t) : k = 0 \/ /\ k < Size(t) - 1
                                 /\ \A i \in 1 .. k : t.branches[Size(t) - i] = <<>>}

(* The tree t, perhaps with some documents forgotten.                      *)
Joins(t, u) == \E k \in Forgettable(t) : u = Forget(t, k)

Edit(t, u) ==
  Joins([docs     |-> Append(t.docs, Current(u)),
         branches |-> Append(t.branches, <<>>)], u)

Undo(t, u) ==
  /\ Size(t) > 1
  /\ LET before == t.branches[Size(t) - 1]
         left   == Future(Current(t), Here(t))
     IN  Joins([docs     |-> Shorter(t.docs),
                branches |-> Append(Shorter(Shorter(t.branches)),
                                    <<left>> \o before)], u)

Redo(t, u) ==
  \E i \in DOMAIN Here(t) :
    LET next   == Here(t)[i]
        others == SubSeq(Here(t), 1, i - 1) \o SubSeq(Here(t), i + 1, Len(Here(t)))
    IN  Joins([docs     |-> Append(t.docs, next.doc),
               branches |-> Shorter(t.branches) \o <<others, next.f>>], u)

Clear(t, u) == u = Root(Current(t))

-----------------------------------------------------------------------------
Step(t, u) == Edit(t, u) \/ Undo(t, u) \/ Redo(t, u) \/ Clear(t, u)

Init == tree = Root(First)
Next == Step(tree, tree')
Spec == Init /\ [][Next]_tree
=============================================================================
