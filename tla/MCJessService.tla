--------------------------- MODULE MCJessService ---------------------------
(* Values for JessService: one directory with one archive at the start,    *)
(* keys two scopes deep, an array of values and an array of objects.       *)
EXTENDS JessService

\* "5" is the only number text; any other text is the number 0.
MCAtof(text) == IF text \in {<<"5">>, <<"5.000">>} THEN <<"five">> ELSE <<"zero">>
MCFmt3(num) == IF num = <<"five">> THEN <<"5.000">> ELSE <<"0.000">>

D == <<"d", ".">>
A == <<"d", ".", "a", ".">>
Sub(k) == A \o <<"s", ".", k>>

\* The archive d.a: {"n": 5, "l": ["v"]}.
BootDoc == (1 :> [Item("obj", <<>>, <<>>) EXCEPT !.kids = <<2, 3>>])
        @@ (2 :> Item("num", <<"n">>, <<"five">>))
        @@ (3 :> [Item("arr", <<"l">>, <<>>) EXCEPT !.kids = <<4>>])
        @@ (4 :> Item("str", <<>>, <<"v">>))
MCBootFiles == <<"d">> :> (<<"a">> :> BootDoc)

\* One archive to import; a file with another extension, one that is no JSON
\* and a directory with a dot in its name are passed over.
MCConfigDirs ==
  (<<"d">> :> {[name |-> <<"a">>, ext |-> ".json", doc |-> NewDoc],
               [name |-> <<"b">>, ext |-> ".xml", doc |-> NewDoc],
               [name |-> <<"c">>, ext |-> ".json", doc |-> <<>>]})
  @@ (<<"e", ".", "f">> :> {})

MCTexts ==
  { A \o <<"n", "=", "x">>,
    Sub("k") \o <<"=", "v">>,
    A \o <<"s", "=", "deleted">>,
    A \o <<"l", "[", "0", "]", "=", "x">>,
    A \o <<"l", "[", "0", "]", "=", "deleted">>,
    A \o <<"l", "[", "+", "]", "=", "v">>,
    A \o <<"l", "[", "*", "]", "=", "deleted">>,
    A \o <<"o", "[", "+", "]", ".", "k", "=", "v", "CRLF">> \o A \o <<"n", "=", "deleted">>,
    A \o <<"o", "[", "$", "]", "=", "deleted">>,
    A \o <<"o", "[", "1", "]", ".", "b", "[", "3", "]", "=", "v">>,
    D \o <<"b", ".", "k", "=", "v">>,
    D \o <<"b", "=", "deleted">>,
    <<"proc", ".", "jess", ".", "checkpoint", "[", "0", "]", "=", "deleted">> }

MCDirs == {<<"d">>}
MCCheckpoints == {<<"c1">>}
=============================================================================
