------------------------------ MODULE MCRelay ------------------------------
(* Values for Relay's constants: pieces of bodies, headers, submissions.    *)
EXTENDS Relay

CONSTANTS c1, c2, open, other, hidden

(* "b" is tidy, "b " another text of its value; "a" is the text of a string *)
(* with escapes, several times as long as "<a>", which has none.            *)
MCTexts == {"a", "<a>", "b", "b "}
MCTidy(t) == CASE t = "<a>" -> "a" [] t = "b " -> "b" [] OTHER -> t
MCWidth(t) == CASE t = "a" -> 11 [] t \in {"<a>", "b "} -> 2 [] OTHER -> 1
MCDecimal(n) == ToString(n)
MCNames == <<"Content-Type", "Host", "X", "x">>
MCCanonical(n) == IF n = "x" THEN "X" ELSE n

None == <<>>
X(value) == [n \in {"X"} |-> value]
Asks(way, body, headers, attempts) ==
  [way |-> way, body |-> body, headers |-> headers, attempts |-> attempts]

MCSubmissions ==
  {Asks("data", <<"b ">>, None, 0),
   Asks("data", <<"b">>, None, 2),
   Asks("data", <<"<a>">>, None, 0),
   Asks("data", <<"X">>, None, 0),
   Asks("data-binary", <<"<a>">>, None, 0),
   Asks("data-binary", <<"X", ":", "b", "\n", "b">>, None, 3),
   Asks("body", <<"b">>, X(<<"b">>), 3),
   Asks("body", <<"b ", "\n">>, [n \in {"x"} |-> <<"b">>], 3),
   Asks("body", <<>>, X(<<"b", "\n">>), 0),
   Asks("bodyBase64", <<"b", "X">>, [n \in {"Content-Type"} |-> <<"b">>], 1),
   Asks("both", <<"b">>, None, 0)}

MCResolutions == {<<open, hidden, other>>}
ClientSymmetry == Permutations(Clients)

MCDelays == {[base |-> 70, max |-> 100], [base |-> 30, max |-> 100]}
=============================================================================
