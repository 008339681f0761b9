------------------------------ MODULE Observers ------------------------------
(***************************************************************************)
(* The trees of the documents as objects, and the observers attached to    *)
(* them: inverse paths (ip_observer), pointers to trees and positions in   *)
(* them that follow every modification, and links between pointers that    *)
(* mirror the modifications of one tree in another.                        *)
(*                                                                         *)
(* A node has an identity.  Its inverse path is a chain of cells [item,    *)
(* next], the index in its parent first; a node refers to a cell that it   *)
(* may share with others and that is overwritten in place.                 *)
(*                                                                         *)
(* The modifications themselves are those of module Modifications; here    *)
(* w is the state of all objects, and the functions of observer.cpp and of *)
(* the observers map a w to the one they leave.                            *)
(***************************************************************************)
EXTENDS Modifications, SequencesExt

CONSTANTS
  Starts,      \* the documents to start with, with their links
  NewStrings,  \* what is put in a document: strings
  NewNodes,    \* and compound trees
  MaxMods      \* bound on the number of modifications

VARIABLES
  world,       \* the objects: see Start
  nr           \* the number of modifications so far

vars == <<world, nr>>

Detached == -5
Nil      == 0        \* the path of the root of all documents
NoCell   == -1       \* a node that has never had a path

-----------------------------------------------------------------------------
(* Labels: t with identities from n + 1 on.                                *)
RECURSIVE NrNodes(_)
NrNodes(t) ==
  1 + (IF IsAtomic(t) THEN 0 ELSE FoldLeft(LAMBDA k, s : k + NrNodes(s), 0, t.arg))

RECURSIVE Labelled(_, _)
Labelled(t, n) ==
  LET before(i) == FoldLeft(LAMBDA k, s : k + NrNodes(s), 1, SubSeq(t.arg, 1, i - 1))
  IN  [op |-> t.op, id |-> n + 1,
       arg |-> IF IsAtomic(t) THEN t.arg
               ELSE [i \in DOMAIN t.arg |-> Labelled(t.arg[i], n + before(i))]]

RECURSIVE Ids(_)
Ids(t) ==
  {t.id} \cup (IF IsAtomic(t) THEN {} ELSE UNION {Ids(t.arg[i]) : i \in DOMAIN t.arg})

RECURSIVE NodesOf(_)
(* The paths of the nodes of t.                                            *)
NodesOf(t) ==
  {<<>>} \cup
  (IF IsAtomic(t) THEN {}
   ELSE UNION {{<<i - 1>> \o p : p \in NodesOf(t.arg[i])} : i \in DOMAIN t.arg})

RECURSIVE Content(_)
(* t without the identities.                                               *)
Content(t) ==
  IF IsAtomic(t) THEN Str(t.arg)
  ELSE Node(t.op, [i \in DOMAIN t.arg |-> Content(t.arg[i])])

-----------------------------------------------------------------------------
(* Inverse paths.                                                          *)

(* w with a new cell, which is the last one.                               *)
NewCell(w, item, next) == [w EXCEPT !.cells = Append(@, [item |-> item, next |-> next])]
Newest(w) == Len(w.cells)

RECURSIVE PathFrom(_, _)
PathFrom(w, c) ==
  IF c = Nil THEN <<>> ELSE Append(PathFrom(w, w.cells[c].next), w.cells[c].item)

(* obtain_ip, from the root on.                                            *)
PathOf(w, id) == IF w.own[id] = NoCell THEN <<Detached>> ELSE PathFrom(w, w.own[id])

IpAttached(p) == p = <<>> \/ Head(p) # Detached

(* set_ip and ip_observer: a node that has a cell gets the value of c, one *)
(* that has none gets c itself.                                            *)
SetIp(w, id, c) ==
  IF w.own[id] = NoCell THEN [w EXCEPT !.own[id] = c]
  ELSE [w EXCEPT !.cells[w.own[id]] = w.cells[c]]

(* AttachIp gone wrong: a child in its place is taken to be attached.      *)
RECURSIVE AttachIpByPlace(_, _, _)
AttachIpByPlace(w, t, c) ==
  LET child(v, i) ==
        LET o == v.own[t.arg[i].id]
        IN  IF o \notin {NoCell, Nil} /\ v.cells[o].item = i - 1 THEN v
            ELSE LET n == NewCell(v, i - 1, c) IN AttachIpByPlace(n, t.arg[i], Newest(n))
  IN  FoldLeft(child, SetIp(w, t.id, c), IF IsAtomic(t) THEN <<>> ELSE [i \in DOMAIN t.arg |-> i])

(* A node gets the path in the cell c; its children those below, unless    *)
(* they already have them.                                                 *)
RECURSIVE AttachIp(_, _, _)
AttachIp(w, t, c) ==
  LET child(v, i) ==
        LET o == v.own[t.arg[i].id]
        IN  IF o \notin {NoCell, Nil} /\ v.cells[o] = [item |-> i - 1, next |-> c] THEN v
            ELSE LET n == NewCell(v, i - 1, c) IN AttachIp(n, t.arg[i], Newest(n))
  IN  FoldLeft(child, SetIp(w, t.id, c), IF IsAtomic(t) THEN <<>> ELSE [i \in DOMAIN t.arg |-> i])

(* DetachIp gone wrong: the node leaves its cell instead of marking it.    *)
DetachAlone(w, t) ==
  IF w.own[t.id] = NoCell THEN w
  ELSE LET n == NewCell(w, Detached, Nil) IN [n EXCEPT !.own[t.id] = Newest(n)]

(* The cell is marked: everything below the node is detached with it.      *)
DetachIp(w, t) ==
  IF w.own[t.id] = NoCell THEN w
  ELSE [w EXCEPT !.cells[w.own[t.id]] = [item |-> Detached, next |-> Nil]]

(* The trees ts from the i-th on get their paths, by places further left;  *)
(* ip is the cell of their parent.                                         *)
AttachFrom(w, ts, i, by, ip) ==
  FoldLeft(LAMBDA v, j : LET n == NewCell(v, j - 1 - by, ip) IN AttachIp(n, ts[j], Newest(n)),
           w, [j \in 1 .. Len(ts) - i |-> i + j])

DetachAll(w, ts) == FoldLeft(DetachIp, w, ts)

(* The notifications of the inverse path of s, the root of m, which        *)
(* becomes u.                                                              *)
NotifyIp(w, m, s, u) ==
  LET ip == w.own[s.id]
      i  == Index(m)
  IN  CASE m.k = "assign" ->
             LET n == NewCell(w, w.cells[ip].item, w.cells[ip].next)
             IN  AttachIp(DetachIp(n, s), u, Newest(n))
        [] m.k = "insert" -> IF IsAtomic(s) THEN w ELSE AttachFrom(w, u.arg, i, 0, ip)
        [] m.k = "remove" ->
             IF IsAtomic(s) THEN w
             ELSE AttachFrom(DetachAll(w, SubSeq(s.arg, i + 1, i + Argument(m))),
                             s.arg, i + Argument(m), Argument(m), ip)
        [] m.k = "split" -> AttachFrom(DetachIp(w, s.arg[i + 1]), u.arg, i, 0, ip)
        [] m.k = "join" ->
             LET v == AttachFrom(DetachAll(w, SubSeq(s.arg, i + 1, i + 2)), s.arg, i + 2, 1, ip)
                 n == NewCell(v, i, ip)
             IN  AttachIp(n, u.arg[i + 1], Newest(n))
        [] m.k = "insert_node" ->
             LET n == NewCell(w, Argument(m), ip)
                 v == [n EXCEPT !.own[s.id] = Newest(n)]
             IN  AttachIp(AttachIp(v, s, Newest(n)), u, ip)
        [] m.k = "remove_node" ->
             LET v == DetachAll(w, Splice(s.arg, i, 1, <<>>))
                 n == NewCell(AttachIp(v, u, ip), Detached, Nil)
             IN  [n EXCEPT !.own[s.id] = Newest(n)]
        [] OTHER -> w

-----------------------------------------------------------------------------
(* Pointers and positions.  A place is a node and an index in it.          *)
Left(t)  == [node |-> t.id, index |-> 0]
Right(t) == [node |-> t.id, index |-> RightIndex(t)]

(* The places where positions in the trees go that disappear when m is     *)
(* applied to s (detach): a function from the nodes of these trees.        *)
Closest(m, s, u) ==
  LET i == Index(m)
      n == Arity(s)
      end == i + Argument(m)
      place(j) ==
        CASE m.k = "assign" -> IF j > (n + 1) \div 2 THEN Right(u) ELSE Left(u)
          [] m.k = "remove" ->
               IF j <= (i + end + 1) \div 2
               THEN IF i = 0 THEN Left(s) ELSE Right(s.arg[i])
               ELSE IF end = n THEN Right(s) ELSE Left(s.arg[end + 1])
          [] OTHER -> IF j <= i THEN Left(u) ELSE Right(u)
      gone ==
        CASE IsAtomic(s)           -> {}
          [] m.k = "assign"        -> 1 .. n
          [] m.k = "remove"        -> i + 1 .. end
          [] m.k = "remove_node"   -> (1 .. n) \ {i + 1}
          [] OTHER                 -> {}
  IN  [id \in UNION {Ids(s.arg[j]) : j \in gone} |->
         place(CHOOSE j \in gone : id \in Ids(s.arg[j]))]

At(t, j) == [node |-> t.id, index |-> j]

(* Where by characters from i on are removed.                              *)
AfterRemove(i, by, index) == IF index < i THEN index ELSE Max({i, index - by})

(* AfterSplit gone wrong: the end of the tree is the end of its first half. *)
AfterSplitFirst(t1, t2, index) ==
  IF ~IsAtomic(t1) THEN IF index = 0 THEN Left(t1) ELSE Right(t1)
  ELSE IF index <= Arity(t1) THEN At(t1, index) ELSE At(t2, index - Arity(t1))

(* Where a tree is split into t1 and t2.                                   *)
AfterSplit(t1, t2, index) ==
  IF ~IsAtomic(t1) THEN IF index = 0 THEN Left(t1) ELSE Right(t2)
  ELSE IF index <= Arity(t1) THEN At(t1, index) ELSE At(t2, index - Arity(t1))

(* Where the tree id, one of t1 and t2, starts in the tree that they make: *)
(* the length of t1, string or not.  The code asks whether the parent is a *)
(* string and always calls N(t1) (observer.cpp:239), which for a string    *)
(* gives its length because strings and arrays have the same layout; a     *)
(* build with debug_trees would stop there.                                *)
JoinOffset(t1, t2, id) == IF id = t2.id THEN Arity(t1) ELSE 0

(* tree_position: where m moves the place q, other than by Closest.        *)
NotifyPosition(m, s, u, q) ==
  LET i == Index(m)
  IN  CASE m.k = "assign" /\ q.node = s.id ->
             IF q.index = 0 \/ (IsAtomic(s) /\ q.index <= Arity(s) \div 2) THEN Left(u) ELSE Right(u)
        [] m.k = "insert" /\ q.node = s.id /\ IsAtomic(s) /\ q.index >= i ->
             At(s, q.index + Arity(m.t))
        [] m.k = "remove" /\ q.node = s.id /\ IsAtomic(s) -> At(s, AfterRemove(i, Argument(m), q.index))
        [] m.k = "remove_node" /\ q.node = s.id -> IF q.index = 0 THEN Left(u) ELSE Right(u)
        [] m.k = "split" /\ q.node = s.arg[i + 1].id -> AfterSplit(u.arg[i + 1], u.arg[i + 2], q.index)
        [] m.k = "join" /\ q.node \in {s.arg[i + 1].id, s.arg[i + 2].id} ->
             LET t      == u.arg[i + 1]
                 offset == JoinOffset(s.arg[i + 1], s.arg[i + 2], q.node)
             IN  IF IsAtomic(t) THEN At(t, q.index + offset)
                 ELSE IF q.index # 0 THEN Right(t)
                 ELSE IF offset > 0 THEN Right(t.arg[offset])
                 ELSE IF Arity(t) # 0 THEN Left(t.arg[1])
                 ELSE Left(t)
        [] OTHER -> q

(* tree_pointer: the node that a pointer to id points to afterwards; the   *)
(* pointers of links follow a node that is wrapped around theirs.          *)
NotifyPointer(m, s, u, id) ==
  LET i == Index(m)
  IN  CASE m.k \in {"assign", "insert_node", "remove_node"} /\ id = s.id -> u.id
        [] m.k = "split" /\ id = s.arg[i + 1].id -> u.arg[i + 1].id
        [] m.k = "join" /\ id \in {s.arg[i + 1].id, s.arg[i + 2].id} -> u.arg[i + 1].id
        [] OTHER -> id

-----------------------------------------------------------------------------
(* The node that m makes of s, with identities for the nodes that are new. *)
Result(m, s, n) ==
  CASE m.k = "split" -> [ApplyAt(s, m) EXCEPT !.arg[Index(m) + 1].id = n + 1,
                                              !.arg[Index(m) + 2].id = n + 2]
    [] m.k = "join"  -> [ApplyAt(s, m) EXCEPT !.arg[Index(m) + 1].id = n + 1]
    [] OTHER         -> ApplyAt(s, [m EXCEPT !.t = Labelled(@, n)])

NrNew(m) ==
  CASE m.k \in {"assign", "insert", "insert_node"} -> NrNodes(m.t)
    [] m.k = "split" -> 2
    [] m.k = "join"  -> 1
    [] OTHER         -> 0

(* raw_apply: w after m, with its observers notified.                      *)
RawApply(w, m) ==
  LET s    == SubTree(w.doc, Root(m))
      n    == Len(w.own)
      u    == Result(m, s, n)
      gone == Closest(m, s, u)
      v    == [w EXCEPT !.own = @ \o [i \in 1 .. NrNew(m) |-> NoCell]]
      x    == NotifyIp(v, m, s, u)
  IN  [x EXCEPT
        !.doc = Put(@, Root(m), u),
        !.pos = [q \in DOMAIN @ |-> IF @[q].node \in DOMAIN gone THEN gone[@[q].node]
                                    ELSE NotifyPosition(m, s, u, @[q])],
        !.ptr = [a \in DOMAIN @ |-> IF @[a] \in DOMAIN gone THEN gone[@[a]].node
                                    ELSE NotifyPointer(m, s, u, @[a])]]

-----------------------------------------------------------------------------
(* Modifications that are asked for while another one is made.             *)

BusyPath(w, p) == \E i \in DOMAIN w.busy : IsPrefix(w.busy[i], p)

(* Mirrors gone wrong: a link works in one direction.                      *)
MirrorsForward(w, a) ==
  FlattenSeq([i \in DOMAIN w.links |-> IF w.links[i][1] = a THEN <<w.links[i][2]>> ELSE <<>>])

(* The trees that mirror the one a points to (get_mirrors).                *)
Mirrors(w, a) ==
  FlattenSeq([i \in DOMAIN w.links |->
                LET l == w.links[i]
                IN  IF l[1] = a THEN <<l[2]>> ELSE IF l[2] = a THEN <<l[1]>> ELSE <<>>])

(* link_announce and apply: m, told of a tree that b mirrors, is postponed *)
(* for b; not when b is being modified already.                            *)
Postpone(w, m, b) ==
  LET p == PathOf(w, w.ptr[b])
  IN  IF IpAttached(p) /\ ~BusyPath(w, p) /\ IsApplicable(SubTree(w.doc, p), m)
           /\ ~BusyPath(w, p \o Root(m))
      THEN [w EXCEPT !.busy = Append(@, p \o Root(m)),
                     !.upcoming = Append(@, Mod(m.k, p \o m.p, m.t))]
      ELSE w

(* The announcement of m goes up to the root; the observers of a node are  *)
(* told after those of its parent.                                         *)
Announce(w, m) ==
  LET above(v, n) ==
        LET id == SubTree(w.doc, Prefix(Root(m), n)).id
            here == SetToSeq({a \in DOMAIN w.ptr : w.ptr[a] = id})
            told == FlattenSeq([i \in DOMAIN here |-> Mirrors(w, here[i])])
        IN  FoldLeft(LAMBDA x, b : Postpone(x, Mod(m.k, Drop(m.p, n), m.t), b), v, told)
  IN  FoldLeft(above, w, [n \in 1 .. Len(Root(m)) + 1 |-> n - 1])

(* The loop of apply: the announcements of a modification may postpone     *)
(* others, which are made after it.                                        *)
RECURSIVE Handle(_)
Handle(w) ==
  IF w.upcoming = <<>> THEN [w EXCEPT !.busy = <<>>]
  ELSE LET m == Head(w.upcoming)
       IN  IF ~IsApplicable(w.doc, m)
           THEN [w EXCEPT !.failed = "invalid modification"]
           ELSE LET v == RawApply(Announce(w, m), m)
                IN  Handle([v EXCEPT !.upcoming = Tail(@)])

Apply(m) ==
  /\ nr < MaxMods /\ nr' = nr + 1
  /\ world.failed = "" /\ IsApplicable(world.doc, m)
  /\ world' = Handle([world EXCEPT !.busy = <<Root(m)>>, !.upcoming = <<m>>, !.last = m])

(* The places of t.                                                        *)
Places(t) ==
  UNION {LET s == SubTree(t, p)
         IN  {[node |-> s.id, index |-> i] : i \in {0, RightIndex(s)} \cup 0 .. RightIndex(s)}
           : p \in NodesOf(t)}

(* The fields of world: the document, the cells of inverse paths and the   *)
(* one of each node; where each position and pointer is; the links; the    *)
(* busy paths and postponed modifications of apply; whether it failed, and *)
(* the last modification.  A position is put at every place of the start.  *)
Start(st) ==
  LET doc == Labelled(st.doc, 0)
      w == [doc |-> doc, cells |-> <<>>, own |-> <<>> \o [i \in 1 .. NrNodes(doc) |-> NoCell],
            pos |-> [q \in Places(doc) |-> q],
            ptr |-> [a \in DOMAIN st.ptr |-> SubTree(doc, st.ptr[a]).id], links |-> st.links,
            busy |-> <<>>, upcoming |-> <<>>, failed |-> "", last |-> Mod("none", <<>>, EmptyTree)]
  IN  AttachIp(w, doc, Nil)

Init == world \in {Start(st) : st \in Starts} /\ nr = 0

(* The modifications of the node p of a document of t; the root of all     *)
(* documents is left alone.                                                *)
ModsAt(t, p) ==
  LET n == Arity(SubTree(t, p))
      M(k, more, u) == Mod(k, p \o more, u)
  IN  {M("assign", <<>>, u) : u \in NewStrings \cup NewNodes}
      \cup {M("insert", <<i>>, u) : i \in 0 .. n, u \in NewStrings \cup NewNodes}
      \cup {M("remove", <<i, r>>, EmptyTree) : i \in 0 .. n, r \in 1 .. 2}
      \cup {M("split", <<i, j>>, EmptyTree) : i \in 0 .. n, j \in 0 .. 2}
      \cup {M("join", <<i>>, EmptyTree) : i \in 0 .. n}
      \cup {M("assign_node", <<>>, u) : u \in NewNodes}
      \cup {M("insert_node", <<i>>, u) : i \in 0 .. 1, u \in NewNodes}
      \cup {M("remove_node", <<i>>, EmptyTree) : i \in 0 .. n}

Next ==
  \E p \in NodesOf(world.doc) \ {<<>>} : \E m \in ModsAt(world.doc, p) : Apply(m)

Spec == Init /\ [][Next]_vars

-----------------------------------------------------------------------------
IdAt(w, p) == SubTree(w.doc, p).id

(* The inverse path of every node of a document is its path, whatever was  *)
(* shifted, split, wrapped or shared before (consistency_check): the       *)
(* editor finds trees by it.                                               *)
Located == \A p \in NodesOf(world.doc) : PathOf(world, IdAt(world, p)) = p

PlaceOf(w, q) == PathOf(w, w.pos[q].node)

(* Positions and pointers stay in the document, whatever is removed around *)
(* them, and a position is at a place that its node has: the cursors and   *)
(* selections that are positions can be used after every modification.     *)
Inside ==
  /\ \A q \in DOMAIN world.pos :
       /\ world.pos[q].node \in Ids(world.doc)
       /\ world.pos[q].index \in 0 .. RightIndex(SubTree(world.doc, PlaceOf(world, q)))
  /\ \A a \in DOMAIN world.ptr : world.ptr[a] \in Ids(world.doc)

(* Every observer is where it says, after any modification.                *)
ObserversFit == Located /\ Inside

(* The place q of w is not behind the place r.                             *)
NotBehind(w, q, r) ==
  LET p == PlaceOf(w, q)
      o == PlaceOf(w, r)
      k == CHOOSE n \in 0 .. Len(p) :
             /\ n <= Len(o) /\ Prefix(p, n) = Prefix(o, n)
             /\ (n < Len(p) /\ n < Len(o) => p[n + 1] # o[n + 1])
  IN  CASE k < Len(p) /\ k < Len(o) -> p[k + 1] < o[k + 1]
        [] k = Len(p) /\ k < Len(o) -> w.pos[q].index = 0
        [] k < Len(p) /\ k = Len(o) -> w.pos[r].index # 0
        [] OTHER                    -> w.pos[q].index <= w.pos[r].index

(* A position behind the first of two compound trees goes behind both when *)
(* they are joined.                                                        *)
Jumps(w, m, q) ==
  /\ m.k = "join"
  /\ LET t1 == SubTree(w.doc, Root(m) \o <<Index(m)>>)
     IN  ~IsAtomic(t1) /\ w.pos[q] = Right(t1)

(* Two positions never pass each other: the one that was not behind the    *)
(* other is not behind it after any modification, so that a selection      *)
(* keeps its start before its end.                                         *)
InOrder ==
  [][\A q, r \in {q \in DOMAIN world.pos : ~Jumps(world, world'.last, q)} :
       NotBehind(world, q, r) => NotBehind(world', q, r)]_vars

NodeOf(w, id) == SubTree(w.doc, CHOOSE p \in NodesOf(w.doc) : IdAt(w, p) = id)

(* The characters beside a position in a string.                           *)
Beside(w, q) ==
  LET s == NodeOf(w, w.pos[q].node)
      i == w.pos[q].index
  IN  IF ~IsAtomic(s) THEN {}
      ELSE {<<"left", s.arg[j].op>> : j \in {i} \ {0}}
           \cup {<<"right", s.arg[j].op>> : j \in {i + 1} \cap DOMAIN s.arg}

(* The places of the character c in t.                                     *)
Occurrences(t, c) ==
  LET strings == {p \in NodesOf(t) : IsAtomic(SubTree(t, p))}
  IN  UNION {{<<p, i>> : i \in {i \in 1 .. Arity(SubTree(t, p)) : SubTree(t, p).arg[i].op = c}}
               : p \in strings}

(* c is one character that m leaves in the document.                       *)
Stays(w, v, c) ==
  /\ Cardinality(Occurrences(w.doc, c)) = 1 /\ Cardinality(Occurrences(v.doc, c)) = 1
  /\ Occurrences(v.last.t, c) = {}

(* m puts something at the place q itself: a text, or the end of a string. *)
AtSeam(w, m, q) ==
  CASE m.k = "insert" -> w.pos[q] = [node |-> IdAt(w, Root(m)), index |-> Index(m)]
    [] m.k = "split"  -> w.pos[q] = [node |-> IdAt(w, Root(m) \o <<Index(m)>>), index |-> Argument(m)]
    [] OTHER          -> FALSE

(* A position in a text stays beside one of its two characters as long as  *)
(* one is left, through edits, splits, joins and moves to other nodes.     *)
KeepsPlace ==
  [][\A q \in DOMAIN world.pos :
       LET stay == {x \in Beside(world, q) : Stays(world, world', x[2])}
       IN  stay # {} /\ ~AtSeam(world, world'.last, q) => Beside(world', q) \cap stay # {}]_vars

(* Positions move with their text and never past each other.               *)
PositionsFollow == InOrder /\ KeepsPlace

(* The cells of the nodes on p are linked to each other.                   *)
Shared(w, p) ==
  \A n \in 1 .. Len(p) :
    w.cells[w.own[IdAt(w, Prefix(p, n))]].next = w.own[IdAt(w, Prefix(p, n - 1))]

(* A node that a modification takes out of the document has no path in it  *)
(* any more, nor has any node below, so that assignments to trees that     *)
(* scripts kept cannot alter the document elsewhere.  This holds where the *)
(* cells form a chain; attach_ip breaks it below a node that it shifts.    *)
LeavesPassive ==
  [][\A p \in NodesOf(world.doc) :
       /\ IdAt(world, p) \notin Ids(world'.doc) /\ Shared(world, p)
       => ~IpAttached(PathOf(world', IdAt(world, p)))]_vars

TreeAt(w, a) == NodeOf(w, w.ptr[a])
PtrPath(w, a) == PathOf(w, w.ptr[a])
Apart(w) ==
  \A a, b \in DOMAIN w.ptr : a # b => ~IsPrefix(PtrPath(w, a), PtrPath(w, b))

(* Linked trees that are equal and apart are equal after a modification of *)
(* one of them and all those that its announcement asks for.               *)
MirrorsAgree ==
  [][Apart(world) =>
     \A i \in DOMAIN world.links :
       LET a == world.links[i][1]
           b == world.links[i][2]
       IN  /\ Content(TreeAt(world, a)) = Content(TreeAt(world, b))
           /\ \E c \in {a, b} : IsPrefix(PtrPath(world, c), Root(world'.last))
           => Content(TreeAt(world', a)) = Content(TreeAt(world', b))]_vars

(* The modifications that were postponed while others were made can be     *)
(* applied when their turn comes: apply has no way out when one cannot.    *)
NoFailure == world.failed = ""

(* Links do what they promise, and what is postponed for them succeeds.    *)
LinksHold == []NoFailure /\ MirrorsAgree
=============================================================================
