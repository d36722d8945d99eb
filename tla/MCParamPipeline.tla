-------------------------- MODULE MCParamPipeline --------------------------
(***************************************************************************)
(* Two workers.  The definitions take two of the items of a file, so three *)
(* more items give events that overtake each other and items that are      *)
(* passed on between them; a buffer of five items holds such a file whole. *)
(***************************************************************************)
EXTENDS ParamPipeline

SeqsUpTo(S, n) == UNION {[1 .. k -> S] : k \in 0 .. n}

MCEvents == 1 .. 5

Described(bodies) == {<<"defs", "vars">> \o b : b \in bodies}

\* Definitions and up to two items, or three events in a row.
GoodFiles == Described(SeqsUpTo({"data", "other"}, 2) \union {<<"data", "data", "data">>})

\* Every way the first three items can be, a file cut off among them.
BadFiles ==
    (SeqsUpTo({"defs", "vars", "data"}, 3) \ {<<>>})
      \union Described({<<"torn">>, <<"data", "torn">>}) \union {<<"defs", "torn">>}

AllFiles == GoodFiles \union BadFiles

TwoEvents == Described({<<"data", "data">>})

\* Both definition items list something.
BothDefined == {{"params", "vars"}}

NoVariables == {{"params"}}
=============================================================================
