------------------------------ MODULE Futures ------------------------------
(***************************************************************************)
(* The branches that can be redone.  A forest is a sequence of futures     *)
(* [p, f]: a patch that can be applied now and the forest that can be      *)
(* applied after it.                                                       *)
(***************************************************************************)
EXTENDS Patches

LOCAL INSTANCE SequencesExt

Future(p, f) == [p |-> p, f |-> f]

RECURSIVE SplitFutures(_, _, _), MakeFuture(_, _, _)

(* The futures fs apply after p1.  Those of author me that can be done     *)
(* before p1 move in front of it, the others stay.                         *)
SplitFutures(me, p1, fs) ==
  LET s(fu)     == PatchSwap(p1, fu.p)
      Moves(fu) == GetAuthor(fu.p) = me /\ s(fu).ok
      Stays(fu) == ~Moves(fu)
      go        == SelectSeq(fs, Moves)
  IN  [stay  |-> SelectSeq(fs, Stays),
       moved |-> [i \in DOMAIN go |->
                    Future(s(go[i]).first,
                           MakeFuture(me, s(go[i]).second, go[i].f))]]

(* The forest of p1 followed by fs, with the futures of me in front.       *)
MakeFuture(me, p1, fs) ==
  IF fs = <<>> \/ GetAuthor(p1) = me THEN <<Future(p1, fs)>>
  ELSE LET s == SplitFutures(me, p1, fs)
       IN  (IF s.stay = <<>> THEN <<>> ELSE <<Future(p1, s.stay)>>) \o s.moved
=============================================================================
