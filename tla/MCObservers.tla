---------------------------- MODULE MCObservers ----------------------------
(* Small instances of module Observers.                                    *)
EXTENDS Observers

Text(cs) == Str([i \in DOMAIN cs |-> Node(cs[i], <<>>)])

MCNewStrings == {Text(<<"x">>)}
MCNewNodes   == {Node("concat", <<Text(<<"x">>)>>)}

(* Documents without links: texts with and without structure, and two      *)
(* paragraphs that can be joined.                                          *)
Doc(ts) == Node("root", <<Node("document", ts)>>)

Alone ==
  [doc |-> Doc(<<Node("concat", <<Text(<<"a", "b">>), Node("concat", <<>>)>>), Text(<<"c">>)>>),
   ptr |-> <<>>, links |-> <<>>]
Joinable ==
  [doc |-> Doc(<<Node("concat", <<Text(<<"a">>), Text(<<"b">>)>>), Node("concat", <<Text(<<"c">>)>>)>>),
   ptr |-> <<>>, links |-> <<>>]

(* Two trees that mirror each other, and three strings in a row of links.  *)
Pair ==
  [doc |-> Doc([i \in 1 .. 2 |-> Node("concat", <<Text(<<"a">>)>>)]),
   ptr |-> [i \in 1 .. 2 |-> <<0, i - 1>>], links |-> << <<1, 2>> >>]
Chain ==
  [doc |-> Doc([i \in 1 .. 3 |-> Text(<<"a">>)]),
   ptr |-> [i \in 1 .. 3 |-> <<0, i - 1>>], links |-> << <<1, 2>>, <<2, 3>> >>]

MCStarts == {Alone, Joinable, Pair, Chain}
=============================================================================
