----------------------------- MODULE PatchTypes -----------------------------
(***************************************************************************)
(* Patches: a modification with its inverse, a sequence of patches, the    *)
(* birth or death of an author or marker, and a patch with its author.     *)
(* The branches of the history are kept apart from the patches, in forests *)
(* of futures (module Futures).                                            *)
(***************************************************************************)
EXTENDS Sequences

ModPatch(m, i)   == [ty |-> "modification", mod |-> m, inv |-> i]
Compound(ps)     == [ty |-> "compound", ch |-> ps]
Birth(a, b)      == [ty |-> "birth", author |-> a, birth |-> b]
Authored(a, p)   == [ty |-> "author", author |-> a, ch |-> <<p>>]

(* Patches without an author count as written by NoOne (author -1).        *)
NoOne == "noone"
GetAuthor(p) == IF p.ty \in {"birth", "author"} THEN p.author ELSE NoOne

(* The author 0: no modification is owned by anyone yet.                   *)
NoAuthor == "none"

NoPatch     == Compound(<<>>)
Children(p) == IF p.ty = "compound" THEN p.ch ELSE <<p>>
IsEmpty(p)  == Children(p) = <<>>
=============================================================================
