-------------------------- MODULE MCModifications --------------------------
(***************************************************************************)
(* Some small documents and modifications of them, for module Pairs.       *)
(***************************************************************************)
EXTENDS Pairs

A == Node("a", <<>>)
X == Node("x", <<>>)

(* A document whose shapes meet every case of the commutation rules: an    *)
(* empty string, strings of one and two characters, nodes with equal and   *)
(* with different labels.                                                  *)
SmallDocuments ==
  { Str(<<>>), Str(<<A, X>>),
    Node("tuple", <<Str(<<A>>), Str(<<A, X>>), Str(<<>>)>>),
    Node("tuple", <<Node("tuple", <<Str(<<A>>), Str(<<X>>)>>),
                    Node("concat", <<Str(<<A>>)>>)>>),
    Node("concat", <<Node("tuple", <<Str(<<A>>)>>), Node("tuple", <<>>)>>) }

NewStrings == { Str(<<X>>), Str(<<X, A>>) }
NewNodes   == { Node("concat", <<Str(<<X>>)>>),
                Node("tuple", <<Str(<<>>), Str(<<A>>)>>) }

RECURSIVE Nodes(_)
(* The paths of all nodes of t.                                            *)
Nodes(t) ==
  {<<>>} \cup
  IF IsAtomic(t) THEN {}
  ELSE UNION {{<<i - 1>> \o p : p \in Nodes(t.arg[i])} : i \in 1 .. Arity(t)}

ModsAt(t, p) ==
  LET s == SubTree(t, p)
      n == Arity(s)
      M(k, more, u) == Mod(k, p \o more, u)
  IN  {M("assign", <<>>, u) : u \in NewStrings \cup NewNodes}
      \cup {M("insert", <<i>>, u) : i \in 0 .. n, u \in NewStrings \cup NewNodes}
      \cup {M("remove", <<i, r>>, EmptyTree) : i \in 0 .. n, r \in 1 .. 2}
      \cup {M("split", <<i, j>>, EmptyTree) : i \in 0 .. n, j \in 0 .. 2}
      \cup {M("join", <<i>>, EmptyTree) : i \in 0 .. n}
      \cup {M("assign_node", <<>>, Node("tuple", <<>>))}
      \cup {M("insert_node", <<i>>, u) : i \in 0 .. 1, u \in NewNodes}
      \cup {M("remove_node", <<i>>, EmptyTree) : i \in 0 .. n}
      \cup {M("set_cursor", <<i>>, Node("cursor", <<>>)) : i \in 0 .. n}

SmallModsOf(t) == UNION {ModsAt(t, p) : p \in Nodes(t)}
=============================================================================
