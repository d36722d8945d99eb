--------------------------- MODULE MCDefinitions ---------------------------
(***************************************************************************)
(* Definition files that define and redefine, in different orders, and one *)
(* that is wrong.  The input file has numbers with gaps, events with       *)
(* numbers it does not define, a parameter and a variable no definition    *)
(* file has, and another value of one they have; user code makes a         *)
(* parameter, too.                                                         *)
(***************************************************************************)
EXTENDS Definitions, TLC

parameter(n) == [what |-> "treeparameter", name |-> n]
array(names) == [what |-> "treeparameterarray", names |-> names]
variable(n, v) == [what |-> "treevariable", name |-> n, value |-> v]

MCDefinitionFiles ==
    {<<parameter("a"), variable("u", 1), array(<<"b", "a">>)>>,
     <<parameter("b"), variable("u", 0), variable("u", 1), parameter("b"), parameter("a")>>,
     <<parameter("a"), [what |-> "error"]>>}

MCInputParameters ==
    {<<[s_name |-> "b", s_parameterId |-> 3], [s_name |-> "raw", s_parameterId |-> 1]>>}

MCInputVariables == {"u" :> 0 @@ "v" :> 1}

MCInputEvents == {1 :> 1 @@ 3 :> 0, 1 :> 0 @@ 2 :> 1 @@ 4 :> 1}

Symmetric == Permutations(Workers)
=============================================================================
