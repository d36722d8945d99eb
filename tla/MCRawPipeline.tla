--------------------------- MODULE MCRawPipeline ---------------------------
(***************************************************************************)
(* Two workers and short files: two events are enough to reach the farmer  *)
(* out of order, three to make one wait behind a gap, and a block limit of *)
(* two makes blocks of several items as well as several blocks.            *)
(***************************************************************************)
EXTENDS RawPipeline

SeqsUpTo(S, n) == UNION {[1 .. k -> S] : k \in 0 .. n}

MCEvents == 1 .. 4

\* Every file of up to two whole items, and three events in a row.
TinyFiles == SeqsUpTo({"physics", "other"}, 2) \union {<<"physics", "physics", "physics">>}

\* Files that break off within an item.
TornFiles == {Append(f, "torn") : f \in SeqsUpTo({"physics", "other"}, 2)}

AllFiles == TinyFiles \union TornFiles
=============================================================================
