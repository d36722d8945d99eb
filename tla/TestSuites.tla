----------------------------- MODULE TestSuites -----------------------------
(***************************************************************************)
(* The unit tests of base/: what each of them does and what it expects, as *)
(* sequences of steps for UnitTests.  Objects that a test has not made are *)
(* made by their default constructors.  Numbers are integers: a decimal    *)
(* point is left out.                                                      *)
(***************************************************************************)
EXTENDS Integers, SequencesExt

Call(who, what, with) == [do |-> "call", who |-> who, what |-> what, with |-> with]

\* CPPUNIT_ASSERT_THROW, with an argument or without.
Throws(who, what, with) == [do |-> "throws", who |-> who, what |-> what, with |-> with]

\* EQ and ASSERT.
Gives(who, what, value) == [do |-> "expect", who |-> who, what |-> what, value |-> value]

None == <<>>

Named(base) == [base |-> base, width |-> 0, index |-> 0]

\* What the tests put together with setw(2) and setfill('0').
ElementNamed(base, index) == [base |-> base, width |-> 2, index |-> index]

NamesFrom(base, first, size) == [k \in 1 .. size |-> ElementNamed(base, first + k - 1)]

All(value, size) == [k \in 1 .. size |-> value]

Spec(low, high, chans, units) ==
    [s_low |-> low, s_high |-> high, s_chans |-> chans, s_units |-> units]

Defaults == Spec(0, 100, 100, "Chans")
-----------------------------------------------------------------------------
(***************************************************************************)
(* treeparamtests.  New makes the object with a constructor or Initialize; *)
(* how says with what besides a name.                                      *)
(***************************************************************************)
P == "CTreeParameter"

New(who, name, how) == Call(who, "new", [name |-> name, how |-> how])

ByName == <<"name">>

InitialTest ==
    << <<Gives(P, "m_generation", 1), Gives(P, "definitions", {}), Gives(P, "m_nextId", 1),
         Gives(P, "m_event", <<>>), Gives(P, "m_scoreboard", <<>>),
         Gives(P, "m_defaultSpecification", Defaults)>> >>

Primes == <<2, 3, 5>>

StaticTests ==
    << <<Call(P, "nextEvent", None), Gives(P, "m_generation", 2)>>,
       <<Call(P, "define", "test"), Call(P, "nextEvent", None), Gives(P, "size", 1)>>,
       <<Gives(P, "m_nextId", 1), Call(P, "nextEvent", None), Gives(P, "m_nextId", 1)>>,
       <<Call(P, "m_scoreboard", <<1, 2>>), Call(P, "m_event", <<12345, 31416>>),
         Call(P, "nextEvent", None), Gives(P, "m_scoreboard", <<>>),
         Gives(P, "m_event", <<12345, 31416>>)>>,
       <<Gives(P, "collectEvent", <<>>)>>,
       <<Call(P, "m_event", <<10, 21, 32, 53, 75, 137>>), Call(P, "m_scoreboard", Primes),
         Gives(P, "collectEvent", << <<2, 32>>, <<3, 53>>, <<5, 137>> >>)>>,
       <<Call(P, "setDefaultLimits", <<-1, 1>>),
         Gives(P, "m_defaultSpecification", Spec(-1, 1, 100, "Chans"))>>,
       <<Call(P, "setDefaultBins", 1024),
         Gives(P, "m_defaultSpecification", Spec(0, 100, 1024, "Chans"))>>,
       <<Call(P, "setDefaultUnits", "furlong/fortnight"),
         Gives(P, "m_defaultSpecification", Spec(0, 100, 100, "furlong/fortnight"))>>,
       <<Call(P, "m_event", [k \in 1 .. 100 |-> k - 1]),
         Gives(P, "m_event", [k \in 1 .. 100 |-> k - 1])>>,
       <<Call(P, "m_scoreboard", Primes), Gives(P, "m_scoreboard", Primes)>> >>

Constructed(who, name, number, spec) ==
    <<Gives(who, "name", name), Gives(who, "bound", TRUE), Gives(who, "id", number),
      Gives(who, "spec", spec), Gives(who, "changed", FALSE), Gives(who, "generation", 0)>>

Constructs(how, spec) == <<New("p", "Test", how)>> \o Constructed("p", "Test", 1, spec)

ParameterConstructTests ==
    << <<Gives("p", "name", ""), Gives("p", "bound", FALSE)>>,
       Constructs(ByName, Defaults),
       Constructs(<<"units", "mm">>, Spec(0, 100, 100, "mm")),
       Constructs(<<"limits", -1, 1, "mm">>, Spec(-1, 1, 100, "mm")),
       Constructs(<<"all", 1024, -1, 1, "mm">>, Spec(-1, 1, 1024, "mm")),
       Constructs(<<"resolution", 10>>, Spec(0, 1024, 1024, "Chans")),
       <<Throws("p", "new", [name |-> "Test", how |-> <<"width", 12, 0, 1024, "mm">>])>>,
       <<New("p", "Test", <<"all", 1024, -1, 1, "mm">>),
         New("q", "Test-copy", <<"like", "p">>)>> \o Constructed("q", "Test-copy", 2, Spec(-1, 1, 1024, "mm")),
       <<New("p", "Test", <<"all", 1024, -1, 1, "mm">>), Call("q", "copy", "p"),
         Gives("q", "name", "Test"), Gives("q", "bound", TRUE), Gives("q", "id", 1),
         Call("q", "copy", "r"), Gives("q", "bound", FALSE)>> >>

Initializes(how, spec) ==
    <<New("p", "test", how), Gives("p", "name", "test"), Gives("p", "bound", TRUE),
      Gives("p", "spec", spec)>>

InitializeTests ==
    << Initializes(<<"resolution", 12>>, Spec(0, 4096, 4096, "Chans")),
       <<Throws("p", "new", [name |-> "test", how |-> <<"width", 12, -1, 1, "junk">>])>>,
       Initializes(ByName, Defaults),
       Initializes(<<"units", "mm/sec">>, Spec(0, 100, 100, "mm/sec")),
       Initializes(<<"all", 100, -1, 1, "mm/sec">>, Spec(-1, 1, 100, "mm/sec")),
       <<New("p", "test", ByName), New("q", "test", <<"units", "mm/sec">>),
         Gives("p", "id", 1), Gives("q", "id", 1), Gives("p", "spec", Spec(0, 100, 100, "mm/sec"))>>,
       <<New("p", "test", ByName), New("q", "test", <<"all", 100, -1, 1, "mm/sec">>),
         Gives("p", "id", 1), Gives("q", "id", 1), Gives("p", "spec", Spec(-1, 1, 100, "mm/sec"))>> >>

AssignTests ==
    << <<New("p", "test", ByName), Call("p", "makeValid", 12345), Gives("p", "value", 12345)>>,
       <<New("p", "test", ByName), Throws("p", "value", None)>>,
       <<Throws("p", "value", None)>>,
       <<New("p", "test", ByName), Call("p", "=", 1234), Gives("p", "value", 1234),
         Gives("p", "generation", 1), Gives(P, "m_scoreboard", <<1>>),
         Call("p", "=", 31416), Gives("p", "value", 31416),
         Gives("p", "generation", 1), Gives(P, "m_scoreboard", <<1>>)>>,
       <<New("p", "test", ByName), Call("p", "=", 31416), Gives("p", "value", 31416)>>,
       <<Throws("p", "=", 31416)>>,
       <<New("p", "test", ByName), Call("p", "=", 31416), New("q", "other", ByName),
         Call("q", "=of", "p"), Gives("q", "generation", 1), Gives("q", "value", 31416),
         Gives(P, "m_scoreboard", <<1, 2>>)>>,
       <<New("p", "lhs", ByName), New("q", "rhs", ByName), Throws("p", "=of", "q")>>,
       <<New("p", "rhs", ByName), Call("p", "=", 31416), Throws("q", "=of", "p")>>,
       <<New("q", "lhs", ByName), Throws("q", "=of", "p")>> >>

\* What an operator that computes does to a value, to none and unbound.
Computes(op, from, with, to) ==
    << <<New("p", "lhs", ByName), Call("p", "=", from), Gives("p", "value", from),
         Call("p", op, with), Gives("p", "value", to)>>,
       <<New("p", "lhs", ByName), Throws("p", op, with)>>,
       <<Throws("p", op, with)>> >>

ComputeTests ==
    Computes("+=", 1, 2, 3) \o Computes("-=", 10, 5, 5) \o Computes("*=", 2, 2, 4)
       \o Computes("/=", 4, 2, 2)

\* Before and behind its object: they return the value from after or before.
StepTests ==
    Computes("+=", 0, 1, 1) \o Computes("+=", 0, 1, 1)
       \o Computes("-=", 0, 1, -1) \o Computes("-=", 0, 1, -1)

\* A getter, bound and unbound.
GetTests(how, what, value) ==
    << <<New("p", "test", how), Gives("p", what, value)>>, <<Throws("p", what, None)>> >>

\* A setter, bound and unbound.
SetTests(setter, getter, value) ==
    << <<New("p", "test", ByName), Call("p", setter, value), Gives("p", getter, value)>>,
       <<Throws("p", setter, value)>> >>

RangeOf4096 == <<New("p", "test", ByName), Call("p", "setStart", 0), Call("p", "setStop", 4096)>>

SpecificationTests ==
    << <<New("p", "param", ByName), Gives("p", "name", "param")>>, <<Gives("p", "name", "")>> >>
       \o GetTests(ByName, "id", 1)
       \o GetTests(ByName, "s_chans", 100) \o SetTests("setBins", "s_chans", 100)
       \o GetTests(ByName, "s_low", 0) \o SetTests("setStart", "s_low", -1)
       \o GetTests(ByName, "s_high", 100) \o SetTests("setStop", "s_high", 1)

IncrementTests ==
    << RangeOf4096 \o <<Call("p", "setBins", 1024), Gives("p", "inc", 4)>>,
       <<Throws("p", "inc", None)>>,
       RangeOf4096 \o <<Call("p", "setInc", 4), Gives("p", "s_chans", 1024)>>,
       <<New("p", "test", ByName), Throws("p", "setInc", 0)>>,
       <<Throws("p", "setInc", 1)>> >>
       \o GetTests(<<"units", "mm">>, "s_units", "mm") \o SetTests("setUnit", "s_units", "mm")

\* After one of these calls the parameter has changed.
Changes(what, with) ==
    <<New("p", "test", ByName), Call("p", what, with), Gives("p", "changed", TRUE)>>

FlagTests ==
    GetTests(ByName, "valid", FALSE)
       \o << <<New("p", "test", ByName), Call("p", "=", 123), Gives("p", "valid", TRUE)>>,
             <<New("p", "test", ByName), Call("p", "=", 123), Call("p", "setInvalid", None),
               Gives("p", "valid", FALSE)>>,
             <<Throws("p", "setInvalid", None)>> >>
       \o GetTests(ByName, "changed", FALSE)
       \o << Changes("setBins", 100), Changes("setStart", -1), Changes("setStop", 1024),
             Changes("setUnit", "mm"), Changes("setChanged", None),
             <<Throws("p", "setChanged", None)>>,
             Changes("setUnit", "mm") \o <<Call("p", "resetChanged", None),
                                           Gives("p", "changed", FALSE)>>,
             <<Throws("p", "resetChanged", None)>>,
             <<New("p", "p1", ByName), New("q", "p2", ByName), New("r", "p3", ByName),
               Call("p", "=", 1), Call("r", "=", 2), Call(P, "nextEvent", None),
               Gives("p", "valid", FALSE), Gives("q", "valid", FALSE), Gives("r", "valid", FALSE)>> >>

DefinitionTests ==
    << <<Gives(P, "definitions", {})>>,
       <<Call(P, "SharedData", 3), New("p", "a", <<"all", 100, -1, 1, "mm">>),
         New("p", "b", <<"all", 360, 0, 360, "degrees">>),
         New("p", "c", <<"all", 100, -1, 1, "radians">>),
         Gives(P, "definitions", {<<Named("a"), Spec(-1, 1, 100, "mm")>>,
                                  <<Named("b"), Spec(0, 360, 360, "degrees")>>,
                                  <<Named("c"), Spec(-1, 1, 100, "radians")>>})>> >>
-----------------------------------------------------------------------------
NewArray(how) == Call("a", "new", [base |-> "test", shape |-> [first |-> -1, size |-> 16],
                                   how |-> how])

ConstructsArray(how, spec) ==
    <<NewArray(how), Gives("a", "lowIndex", -1), Gives("a", "size", 16),
      Gives("a", "specs", All(spec, 16)), Gives("a", "names", NamesFrom("test", -1, 16))>>

ArrayConstructTests ==
    << <<Gives("a", "lowIndex", 0), Gives("a", "size", 0)>>,
       ConstructsArray(<<"resolution", 12>>, Spec(0, 4096, 4096, "Chans")),
       ConstructsArray(ByName, Defaults),
       ConstructsArray(<<"units", "mm">>, Spec(0, 100, 100, "mm")),
       ConstructsArray(<<"limits", -1, 1, "mm">>, Spec(-1, 1, 100, "mm")),
       ConstructsArray(<<"all", 1024, -1, 1, "mm">>, Spec(-1, 1, 1024, "mm")) >>

TestArray == NewArray(<<"all", 1024, -1, 1, "mm">>)

Binds(base, how) ==
    <<Call("a", "new", [base |-> base, shape |-> [first |-> 0, size |-> 16], how |-> how]),
      Gives("a", "bound", TRUE), Call("a", "delete", None)>>

ArrayTests ==
    << <<TestArray, Gives("a", "at", NamesFrom("test", -1, 16))>>,
       <<TestArray, Throws("a", "[]", -2), Throws("a", "[]", 15)>>,
       <<TestArray>> \o [k \in 1 .. 16 |-> Call("a", "setAt", k - 2)]
          \o <<Call("a", "Reset", None), Gives("a", "valid", All(FALSE, 16))>>,
       <<TestArray, Gives("a", "size", 16), Gives("a", "lowIndex", -1)>>,
       <<Gives("a", "bound", FALSE)>>,
       Binds("test", <<"resolution", 12>>),
       Binds("test1", <<"resolution", 12>>) \o Binds("test2", ByName) \o Binds("test3", <<"units", "mm">>)
          \o Binds("test4", <<"limits", -1, 1, "mm">>) \o Binds("test5", <<"all", 1024, -1, 1, "mm">>) >>
-----------------------------------------------------------------------------
(***************************************************************************)
(* treevartests.  Variable makes the object with a constructor.            *)
(***************************************************************************)
V == "CTreeVariable"

Variable(who, name, how) == Call(who, "new", [name |-> name, how |-> how])

Create(name, value, units) ==
    [do |-> "call", who |-> V, what |-> "createDefinition",
     with |-> [name |-> name, value |-> value, units |-> units]]

FourVariables == <<Create("test4", 4, ""), Create("test1", 1, ""), Create("test3", 3, ""),
                   Create("test2", 2, "")>>

ValuesOfFour == {<<Named("test1"), 1>>, <<Named("test2"), 2>>, <<Named("test3"), 3>>,
                 <<Named("test4"), 4>>}

Contents(value, units, changed) ==
    [s_value |-> value, s_units |-> units, s_definitionChanged |-> changed,
     s_valueChanged |-> changed]

CreateTests ==
    << <<Create("test", 1234, "furlongs"),
         Gives(V, "definition of test", Contents(1234, "furlongs", FALSE))>>,
       <<Create("test", 1234, "furlongs"), Gives(V, "values", {<<Named("test"), 1234>>})>>,
       <<Create("test", 1234, "furlongs"),
         [Create("test", 1234, "furlongs") EXCEPT !.do = "throws"]>>,
       <<Gives(V, "values", {})>>,
       <<Create("test", 1234, "furlong"), Create("junk", 31416, "radians"),
         Gives(V, "definition of test", Contents(1234, "furlong", FALSE))>>,
       <<Gives(V, "size", 0)>>,
       FourVariables \o <<Gives(V, "values", ValuesOfFour), Gives(V, "size", 4)>> >>

ConstructsVariable(how, contents) ==
    <<Variable("v", "test", how), Gives(V, "size", 1), Gives("v", "name", "test"),
      Gives("v", "bound", TRUE), Gives(V, "definition of test", contents)>>

VariableConstructTests ==
    << <<Gives(V, "size", 0), Gives("v", "name", ""), Gives("v", "bound", FALSE)>>,
       ConstructsVariable(ByName, Contents(0, "", FALSE)),
       ConstructsVariable(<<"units", "mm">>, Contents(0, "mm", FALSE)),
       ConstructsVariable(<<"value", 31416, "mm">>, Contents(31416, "mm", FALSE)),
       <<Variable("v", "test", <<"value", 31416, "mm">>), Call("w", "copy", "v"),
         Gives("w", "name", "test"), Gives("w", "bound", TRUE), Gives(V, "size", 1)>> >>

VariableAssignTests ==
    << <<Throws("v", "value", None)>>,
       <<Variable("v", "test", <<"value", 12345, "mm">>), Gives("v", "value", 12345)>>,
       <<Throws("v", "=", 314159)>>,
       <<Variable("v", "test", ByName), Call("v", "=", 31416), Gives("v", "value", 31416)>>,
       <<Variable("w", "test1", <<"value", 31416, "rad">>), Throws("v", "=of", "w"),
         Throws("w", "=of", "v")>>,
       <<Variable("v", "test1", ByName), Variable("w", "test2", <<"value", 31416, "rad">>),
         Variable("x", "test3", ByName), Call("v", "=of", "w"), Call("x", "=of", "v"),
         Gives("v", "value", 31416), Gives("x", "value", 31416),
         Call("w", "=", 1234), Call("v", "=of", "w"),
         Gives("w", "value", 1234), Gives("v", "value", 1234)>> >>

Variables(v, w, x) ==
    <<Variable("v", "v1", <<"value", v, "">>), Variable("w", "v2", <<"value", w, "">>),
      Variable("x", "v3", <<"value", x, "">>)>>

\* The value of an operator that computes is that of its left side: chains.
VariableComputeTests ==
    << <<Throws("v", "+=", 12)>>,
       Variables(1000, 2000, 0) \o <<Call("w", "+=", 1234), Call("v", "+=of", "w"),
                                    Gives("w", "value", 3234), Gives("v", "value", 4234)>>,
       <<Throws("v", "-=", 1)>>,
       Variables(10, 20, 40) \o <<Call("x", "-=", 10), Gives("x", "value", 30),
                                 Call("w", "-=", 15), Call("x", "-=of", "w"),
                                 Gives("w", "value", 5), Gives("x", "value", 25)>>,
       <<Throws("v", "*=", 2)>>,
       Variables(1, 2, 4) \o <<Call("v", "*=", 2), Gives("v", "value", 2),
                              Call("w", "*=", 2), Call("x", "*=of", "w"),
                              Gives("w", "value", 4), Gives("x", "value", 16)>>,
       <<Throws("v", "/=", 2)>>,
       Variables(2, 4, 16) \o <<Call("v", "/=", 2), Gives("v", "value", 1),
                               Call("w", "/=", 2), Call("x", "/=of", "w"),
                               Gives("w", "value", 2), Gives("x", "value", 8)>> >>

\* Each of the four before and behind its object.
VariableStepTests ==
    LET Steps(op, from, to) ==
            << <<Throws("v", op, 1)>>,
               <<Variable("v", "v", <<"value", from, "mm">>), Gives("v", "value", from),
                 Call("v", op, 1), Gives("v", "value", to)>> >>
    IN Steps("+=", 0, 1) \o Steps("+=", 0, 1) \o Steps("-=", 2, 1) \o Steps("-=", 2, 1)

ChangesBoth ==
    <<Variable("v", "test", ByName), Gives("v", "hasChanged", FALSE),
      Call("v", "setUnit", "mm"), Gives("v", "hasChanged", TRUE),
      Gives("v", "valueChanged", FALSE), Call("v", "=", 1234), Gives("v", "valueChanged", TRUE)>>

VariableGetTests ==
    << <<Gives("v", "name", "")>>,
       <<Variable("v", "name", ByName), Gives("v", "name", "name")>>,
       <<Throws("v", "value", None)>>,
       <<Variable("v", "v", <<"value", 1234, "mm">>), Gives("v", "value", 1234)>>,
       <<Throws("v", "=", 12)>>,
       <<Variable("v", "v", ByName), Call("v", "=", 314), Gives("v", "value", 314)>>,
       <<Throws("v", "units", None)>>,
       <<Variable("v", "v", <<"units", "mm">>), Gives("v", "units", "mm")>>,
       <<Throws("v", "setUnit", "mm")>>,
       <<Variable("v", "test", ByName), Call("v", "setUnit", "furlongs/fortnight"),
         Gives("v", "units", "furlongs/fortnight")>>,
       <<Throws("v", "hasChanged", None), Throws("v", "valueChanged", None)>>,
       ChangesBoth,
       <<Throws("v", "resetChanged", None)>>,
       ChangesBoth \o <<Call("v", "resetChanged", None), Gives("v", "hasChanged", FALSE),
                        Gives("v", "valueChanged", FALSE)>> >>

VariableArray(who, base, value, first, size) ==
    Call(who, "new", [base |-> base, shape |-> [first |-> first, size |-> size], value |-> value,
                      units |-> "mm"])

TestVariables == VariableArray("b", "test", 1234, -1, 16)

IsTestVariables(who) ==
    <<Gives(who, "firstIndex", -1), Gives(who, "size", 16), Gives(who, "values", All(1234, 16)),
      Gives(who, "units", All("mm", 16)), Gives(who, "names", NamesFrom("test", -1, 16))>>

VariableArrayTests ==
    << <<Gives("b", "firstIndex", 0), Gives("b", "size", 0)>>,
       <<TestVariables>> \o IsTestVariables("b"),
       <<TestVariables, Call("c", "copy", "b")>> \o IsTestVariables("c"),
       <<TestVariables, Throws("b", "[]", -2), Throws("b", "[]", 15)>>,
       <<TestVariables, VariableArray("c", "other", 31416, -1, 16), Call("c", "=", "b"),
         Gives("c", "values", All(1234, 16))>>,
       <<TestVariables, VariableArray("c", "other1", 1111, -1, 15), Throws("c", "=", "b"),
         VariableArray("d", "other2", 1555, 0, 16), Throws("d", "=", "b")>> >>
-----------------------------------------------------------------------------
(***************************************************************************)
(* configtests: what the commands of the script are.                       *)
(***************************************************************************)
Reads(script) == <<Call("config", "read", script), Gives("config", "pc", "user")>>

ReadThrows == <<Call("config", "read", <<[what |-> "error"]>>), Gives("config", "pc", "thrown")>>

TreeParameterLine(name, spec) == [what |-> "treeparameter", name |-> Named(name), spec |-> spec]

TestElements == NamesFrom("test", 0, 16)

ConfigParameterTests ==
    << Reads(<<>>) \o <<Gives(P, "definitions", {}), Gives(V, "values", {})>>,
       Reads(<<TreeParameterLine("test", Spec(0, 1024, 512, "none"))>>)
          \o <<Gives(P, "definitions", {<<Named("test"), Spec(0, 1024, 512, "none")>>})>>,
       ReadThrows,
       Reads(<<TreeParameterLine("a", Spec(0, 1024, 512, "none")),
               TreeParameterLine("b", Spec(-15, 15, 1024, "mm"))>>)
          \o <<Gives(P, "definitions", {<<Named("a"), Spec(0, 1024, 512, "none")>>,
                                        <<Named("b"), Spec(-15, 15, 1024, "mm")>>})>>,
       Reads(<<[what |-> "treeparameterarray", base |-> "test", spec |-> Spec(-1, 1, 100, "mm"),
                elements |-> 16, firstindex |-> 0]>>)
          \o <<Gives(P, "definitions", {<<TestElements[k], Spec(-1, 1, 100, "mm")>> :
                                           k \in 1 .. 16})>>,
       ReadThrows >>

ConfigVariableTests ==
    << Reads(<<[what |-> "treevariable", name |-> Named("test"), value |-> 31416,
                units |-> "radians"]>>)
          \o <<Gives(V, "definition of test", Contents(31416, "radians", FALSE)),
               Gives(V, "size", 1)>>,
       ReadThrows,
       Reads(<<[what |-> "treevariablearray", base |-> "test", value |-> 31416,
                units |-> "radians", elements |-> 16, firstindex |-> 0]>>)
          \o <<Gives(V, "values", {<<TestElements[k], 31416>> : k \in 1 .. 16})>>,
       ReadThrows >>
-----------------------------------------------------------------------------
(***************************************************************************)
(* sorttests: items with these triggers.                                   *)
(***************************************************************************)
Adds(triggers) == [k \in DOMAIN triggers |-> Call("sorter", "addItem", triggers[k])]

Emitted(triggers) == <<Gives("sorter", "m_triggers", triggers)>>

SorterTests ==
    << <<Gives("sorter", "m_lastEmittedTrigger", -1), Gives("sorter", "m_items", {})>>
          \o Emitted(<<>>),
       <<Call("sorter", "flush", None)>> \o Emitted(<<>>),
       Adds(<<0>>) \o Emitted(<<0>>),
       Adds(<<1, 0>>) \o Emitted(<<0, 1>>),
       Adds(<<5, 4, 3, 2, 1, 0>>) \o Emitted(<<0, 1, 2, 3, 4, 5>>),
       Adds(<<2, 0, 5, 4, 3, 1>>) \o Emitted(<<0, 1, 2, 3, 4, 5>>),
       Adds(<<5, 4, 3, 2, 1>>) \o <<Call("sorter", "flush", None)>> \o Emitted(<<1, 2, 3, 4, 5>>),
       Adds(<<5, 4, 3, 2, 1>>) >>
-----------------------------------------------------------------------------
(***************************************************************************)
(* iotests, those of CDataReader: items of these sizes are in the file.    *)
(***************************************************************************)
Opens(sizes, buffer) == <<Call("reader", "CDataReader", [sizes |-> sizes, buffer |-> buffer])>>

Gets(bytes, items) == <<Gives("reader", "s_nbytes", bytes), Gives("reader", "s_nItems", items)>>

getBlock(bytes) == <<Call("reader", "getBlock", bytes)>>

ConstructsReader ==
    Opens(<<>>, 100) \o <<Gives("reader", "m_nBytes", 0), Gives("reader", "m_nBufferSize", 100),
                          Gives("reader", "m_eof", TRUE), Gives("reader", "m_fReleased", TRUE)>>

ReaderOneItemTests ==
    << ConstructsReader, ConstructsReader,
       Opens(<<>>, 1024) \o getBlock(1024) \o Gets(0, 0),
       Opens(<<100>>, 1024) \o <<Gives("reader", "m_nBytes", 100)>> \o getBlock(1024) \o Gets(100, 1)
          \o <<Gives("reader", "items", <<1>>)>>,
       Opens(<<100>>, 1024) \o <<Gives("reader", "m_nBytes", 100)>> \o getBlock(1024)
          \o <<Throws("reader", "getBlock", 1024)>>,
       Opens(<<100>>, 1024) \o <<Gives("reader", "m_nBytes", 100)>> \o getBlock(1024)
          \o <<Call("reader", "done", None)>> \o getBlock(1024) \o Gets(0, 0) >>

\* Two blocks of one item each.
OneByOne(buffer) ==
    Opens(<<100, 50>>, buffer) \o getBlock(110) \o Gets(100, 1)
       \o <<Call("reader", "done", None)>> \o getBlock(110) \o Gets(50, 1)
       \o <<Gives("reader", "items", <<2>>)>>

ReaderTwoItemsTests ==
    << Opens(<<100, 50>>, 1024) \o getBlock(1024) \o Gets(150, 2)
          \o <<Gives("reader", "items", <<1, 2>>)>>,
       OneByOne(1024), OneByOne(100), OneByOne(110),
       Opens(<<100, 50>>, 100) \o getBlock(50) \o <<Gives("reader", "pc", "thrown")>>,
       Opens(<<100, 50>>, 50) \o getBlock(50) \o <<Gives("reader", "pc", "thrown")>>,
       Opens(<<>>, 100) \o <<Throws("reader", "done", None)>> >>
-----------------------------------------------------------------------------
\* The programs that base/Makefile.am makes of them, and what each one tests.
Suites ==
    [treeparamtests |-> InitialTest \o StaticTests \o ParameterConstructTests \o InitializeTests
                           \o AssignTests \o ComputeTests \o StepTests \o SpecificationTests
                           \o IncrementTests \o FlagTests \o DefinitionTests
                           \o ArrayConstructTests \o ArrayTests,
     treevartests   |-> CreateTests \o VariableConstructTests \o VariableAssignTests
                           \o VariableComputeTests \o VariableStepTests \o VariableGetTests
                           \o VariableArrayTests,
     configtests    |-> ConfigParameterTests \o ConfigVariableTests,
     sorttests      |-> SorterTests,
     iotests        |-> ReaderOneItemTests \o ReaderTwoItemsTests]
=============================================================================
