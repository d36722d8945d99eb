--------------------------- MODULE SpecTclWorker ---------------------------
(***************************************************************************)
(* CSpecTclWorker (spectcl/SpecTclWorker.cpp), a raw worker that hands its *)
(* events to a pipeline of SpecTcl event processors, and CEvent            *)
(* (spectcl/Event.cpp), which lets them treat the parameters of the        *)
(* process as an array.  What the worker does with the event it gets is in *)
(* RawPipeline; here an event ends with collectEvent, which is sent.       *)
(***************************************************************************)
EXTENDS TreeParameter

CONSTANTS Processors,    \* the CEventProcessor objects
          MaxPipeline,   \* bound: processors in the pipeline
          UserCode,      \* the sets of ways in which user code may go at
                         \* parameters, of which a run of it has one:
                         \* "object", "bind late", "clear", "write index",
                         \* "read index"
          AnonymousName  \* "_unnamed.n", the name made for the index n

ASSUME PipelineAssumption ==
    /\ MaxPipeline \in Nat
    /\ UserCode \subseteq SUBSET {"object", "bind late", "clear", "write index",
                                 "read index"}
    /\ AnonymousName \in [0 .. MaxId - 1 -> Names \ UserNames]
    /\ \A j, k \in 0 .. MaxId - 1 : AnonymousName[j] = AnonymousName[k] => j = k

VARIABLES pc,             \* "configure", "initialize", "open", "idle",
                          \* "unpack", "collect" or "thrown"
          uses,           \* how the user code goes at parameters
          m_pipeline,     \* the processors, without their names
          next,           \* the place in m_pipeline of the next to be called
          rejected        \* history: whether a processor failed at this event

workerVars == <<pc, uses, m_pipeline, next, rejected>>

vars == <<treeVars, workerVars>>

TypeOK ==
    /\ TreeTypeOK
    /\ pc \in {"configure", "initialize", "open", "idle", "unpack", "collect", "thrown"}
    /\ uses \in UserCode
    /\ m_pipeline \in Seq(Processors)
    /\ next \in Nat
    /\ rejected \in BOOLEAN

Init ==
    /\ TreeInit
    /\ pc = "configure" /\ uses \in UserCode
    /\ m_pipeline = <<>> /\ next = 1
    /\ rejected = FALSE
-----------------------------------------------------------------------------
addProcessor(p) ==
    /\ pc = "configure" /\ Len(m_pipeline) < MaxPipeline
    /\ m_pipeline' = Append(m_pipeline, p)
    /\ UNCHANGED <<treeVars, pc, uses, next, rejected>>

\* By pointer the first entry that has it, by name any; without one it throws.
removeEventProcessor(k) ==
    /\ pc = "configure"
    /\ m_pipeline' = WithoutAt(m_pipeline, k)
    /\ UNCHANGED <<treeVars, pc, uses, next, rejected>>

StartRun ==
    /\ pc = "configure"
    /\ pc' = "initialize"
    /\ UNCHANGED <<treeVars, uses, m_pipeline, next, rejected>>

Called == m_pipeline[next]

\* Each of the two loops of initializeUserCode: one call after the other.
AfterLoop(here, there) ==
    IF next <= Len(m_pipeline)
    THEN pc' = here /\ next' = next + 1
    ELSE pc' = there /\ next' = 1

OnInitialize ==
    /\ pc = "initialize"
    /\ AfterLoop("initialize", "open")
    /\ UNCHANGED <<treeVars, uses, m_pipeline, rejected>>

OnEventSourceOpen ==
    /\ pc = "open"
    /\ AfterLoop("open", "idle")
    /\ UNCHANGED <<treeVars, uses, m_pipeline, rejected>>

\* A processor that is not ready, or an exception of any of them.
Throw ==
    /\ pc \in {"initialize", "open", "unpack"} /\ next <= Len(m_pipeline)
    /\ pc' = "thrown"
    /\ UNCHANGED <<treeVars, uses, m_pipeline, next, rejected>>
-----------------------------------------------------------------------------
\* What user code does while one of its functions is called.
Uses(how) == how \in uses /\ pc \in {"initialize", "open", "unpack"}

\* A CEvent is passed with the event only.
UsesEvent(how) == how \in uses /\ pc = "unpack"

InUserCode == next <= Len(m_pipeline) /\ UNCHANGED workerVars

UseObjects == Uses("object") /\ InUserCode /\ UseObject

BindLate == Uses("bind late") /\ InUserCode /\ BindObject

(***************************************************************************)
(* makeParameter: indices from the size of m_event to n get a parameter.   *)
(* No user code takes names that begin with "_unnamed.".                   *)
(***************************************************************************)
makeParameter(n) ==
    LET size == Len(m_event)
        last == m_nextId + n - size IN
       /\ last < MaxId
       /\ m_parameterDictionary' =
             [name \in DOMAIN m_parameterDictionary
                         \union {AnonymousName[k] : k \in size .. n} |->
                 IF Known(name) THEN m_parameterDictionary[name]
                 ELSE LET k == CHOOSE k \in size .. n : AnonymousName[k] = name IN
                         [s_parameterNumber |-> m_nextId + k - size,
                          s_generation |-> m_generation - 1]]
       /\ m_nextId' = last + 1

\* The array as it is once the index n is in it.
Indexed(n) == IF n < Len(m_event) THEN m_event
              ELSE Resized(m_event, m_nextId + n + 1 - Len(m_event))

Grow(n) == IF n < Len(m_event) THEN UNCHANGED <<m_parameterDictionary, m_nextId>>
           ELSE makeParameter(n)

\* Mutant: an index is added although it is on the scoreboard.
AddedEachTime(n) == Append(m_scoreboard, n)

Added(n) == IF \E k \in DOMAIN m_scoreboard : m_scoreboard[k] = n
            THEN m_scoreboard ELSE Append(m_scoreboard, n)

\* CEvent::operator[], and then what the caller does with the reference.
WriteIndex(n, v) ==
    /\ UsesEvent("write index") /\ InUserCode
    /\ Grow(n)
    /\ m_event' = [Indexed(n) EXCEPT ![n + 1] = v]
    /\ m_scoreboard' = Added(n)
    /\ assigned' = {a \in assigned : Number(a[1])' # n}
                     \union {<<name, v>> : name \in {d \in DOMAIN m_parameterDictionary' :
                                                        Number(d)' = n}}
    /\ UNCHANGED <<m_generation, objects>>

ReadIndex(n) ==
    /\ UsesEvent("read index") /\ InUserCode
    /\ Grow(n)
    /\ m_event' = Indexed(n)
    /\ m_scoreboard' = Added(n)
    /\ UNCHANGED <<m_generation, objects, assigned>>

\* CEvent::clear: what the event has so far is dropped.
clear == UsesEvent("clear") /\ InUserCode /\ nextEvent
-----------------------------------------------------------------------------
StartUnpack ==
    /\ pc = "idle"
    /\ pc' = "unpack"
    /\ UNCHANGED <<treeVars, uses, m_pipeline, next, rejected>>

\* The processor that has been called returns true, or there is none left.
ProcessorReturns ==
    /\ pc = "unpack"
    /\ AfterLoop("unpack", "collect")
    /\ UNCHANGED <<treeVars, uses, m_pipeline, rejected>>

\* Mutant: the event of a processor that fails is kept.
ProcessorFailsKeeps ==
    /\ pc = "unpack" /\ next <= Len(m_pipeline)
    /\ pc' = "collect" /\ next' = 1 /\ rejected' = TRUE
    /\ UNCHANGED <<treeVars, uses, m_pipeline>>

\* It returns false: what there is of the event is dropped.
ProcessorFails ==
    /\ pc = "unpack" /\ next <= Len(m_pipeline)
    /\ nextEvent
    /\ pc' = "collect" /\ next' = 1 /\ rejected' = TRUE
    /\ UNCHANGED <<uses, m_pipeline>>

\* Mutant: the next event starts with what there is of this one.
SendEventKeeps ==
    /\ pc = "collect"
    /\ pc' = "idle" /\ rejected' = FALSE
    /\ UNCHANGED <<treeVars, uses, m_pipeline, next>>

SendEvent ==
    /\ pc = "collect"
    /\ nextEvent
    /\ pc' = "idle" /\ rejected' = FALSE
    /\ UNCHANGED <<uses, m_pipeline, next>>

Next ==
    \/ \E p \in Processors : addProcessor(p)
    \/ \E k \in DOMAIN m_pipeline : removeEventProcessor(k)
    \/ StartRun \/ OnInitialize \/ OnEventSourceOpen \/ Throw
    \/ UseObjects \/ BindLate \/ clear
    \/ \E n \in 0 .. MaxId - 1, v \in Values : WriteIndex(n, v)
    \/ \E n \in 0 .. MaxId - 1 : ReadIndex(n)
    \/ StartUnpack \/ ProcessorReturns \/ ProcessorFails \/ SendEvent

Spec == Init /\ [][Next]_vars
-----------------------------------------------------------------------------
(***************************************************************************)
(* Processors that unpack to tree parameters send exactly what they        *)
(* unpacked (EventIsWhatWasAssigned), whatever they do with their objects. *)
(***************************************************************************)
UnpackedToParameters == uses \subseteq {"object", "bind late", "clear"} => EventIsWhatWasAssigned

(***************************************************************************)
(* So do processors that assign to elements of the CEvent only, which      *)
(* knows nothing of generations and makes parameters as it needs them; but *)
(* for the elements that no parameter has the number of.                   *)
(***************************************************************************)
Numbered == {Number(n) : n \in DOMAIN m_parameterDictionary}

UnpackedToIndices ==
    uses \subseteq {"write index", "clear"} =>
       /\ \A j, k \in DOMAIN m_scoreboard : m_scoreboard[j] = m_scoreboard[k] => j = k
       /\ {collectEvent[k] : k \in {j \in DOMAIN m_scoreboard : m_scoreboard[j] \in Numbered}}
            = {<<Number(a[1]), a[2]>> : a \in assigned}

(***************************************************************************)
(* An event that one of the processors fails at goes out without any       *)
(* parameter, whatever the ones before it unpacked ("On a failure, the     *)
(* event is reset to empty", SpecTclWorker.cpp:158-160).                   *)
(***************************************************************************)
RejectedEventIsEmpty == pc = "collect" /\ rejected => collectEvent = <<>>

(***************************************************************************)
(* Nothing is left of an event when the worker turns to the next item.     *)
(* (What OnInitialize sets is sent with the first event.)                  *)
(***************************************************************************)
EventsStartEmpty == pc = "idle" /\ m_generation > 1 => collectEvent = <<>>
=============================================================================
