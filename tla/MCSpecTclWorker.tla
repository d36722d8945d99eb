-------------------------- MODULE MCSpecTclWorker --------------------------
(***************************************************************************)
(* Two objects, so that they can share a parameter or not, two names and   *)
(* the empty one, and two processors in a pipeline of up to two.           *)
(***************************************************************************)
EXTENDS SpecTclWorker, FiniteSets, TLC

MCUserNames == {"x", "y"}

MCAnonymousName ==
    [k \in 0 .. MaxId - 1 |->
       <<"_unnamed.0", "_unnamed.1", "_unnamed.2", "_unnamed.3">>[k + 1]]

MCNames == MCUserNames \union {""} \union {MCAnonymousName[k] : k \in 0 .. MaxId - 1}

\* As the manual asks for, and user code that knows the CEvent only.
ObjectsOrIndices ==
    {{"object", "bind late", "clear"}, {"write index", "clear"}, {"read index"}}

Symmetric == Permutations(Objects) \union Permutations(Processors)
=============================================================================
