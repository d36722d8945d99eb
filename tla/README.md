# Verification of the FRIB analysis pipeline

TLA+ models of the MPI analysis pipeline (`src/base`), model-checked with TLC and, where it says
so, proved with TLAPS. Line numbers are those of the repository.

## The system

An application is one MPI program. Each rank has a role (`AbstractApplication.cpp:90-106`): 0 is
the dealer, 1 the farmer, 2 the outputter, 3 and up are workers.

| Component | State it keeps | Operations | Talks to |
|---|---|---|---|
| Raw dealer (`MPIRawReader.cpp`) | reader, number of the next event | answer a request with a block of ring items; send ends | workers |
| Parameter dealer (`MPIParameterDealer.cpp`) | reader, pointer into its buffer, items left | push definitions; answer a request with one event; pass other items on; send ends | workers, outputter |
| Raw worker (`MPIRawToParametersWorker.cpp`) | its block, the trigger number | request, unpack events for the farmer, pass other items on, end | dealer, farmer, outputter |
| Parameter worker (`MPIParametersToParametersWorker.cpp`) | definitions, the current event | receive definitions, request, process, send the event, end | dealer, farmer |
| Farmer (`MPIParameterFarmer.cpp`) | ends still awaited, sorter | receive events, sort, flush, end | workers, outputter |
| Sorter (`TriggerSorter.cpp`, `MPITriggerSorter.cpp`) | items held back, last emitted trigger | `addItem`, `flush`, `emitItem` | called by the farmer |
| Outputter (`MPIParameterOutput.cpp`) | the file | write events and passed on items, stop at the end | all |
| Data reader (`DataReader.cpp`) | a buffer, what is in it, what the client holds | `getBlock`, `done` | called by dealers |
| Data writer (`DataWriter.cpp`) | file descriptor | lay out ring items | called by the outputter |
| Tree parameters (`TreeParameter.cpp`, `TreeParameterArray.cpp`) | a dictionary per process, the event, generation, defaults | assign, read, bind, set metadata, build arrays, collect an event | called by workers |
| Tree variables (`TreeVariable.cpp`, `TreeVariableArray.cpp`) | a dictionary per process | assign, set units, watch the flags, build arrays | called by workers and the outputter |
| Tcl definition file reader (`TCLParameterReader.cpp`) | the file | evaluate its four commands | every rank, before `MPI_Init` |
| Application (`AbstractApplication.cpp`) | role, MPI data types | start, describe messages, take a role, leave | all of the above |
| SpecTcl worker (`src/spectcl`) | pipeline of event processors, scoreboard | run the processors | called by the raw worker |
| Unit tests (`*tests.cpp`) | the static members of the classes they test | call and compare | all classes |

What is hard here:

- **Interleaving.** All workers send to the farmer and the outputter at once, an event is two
  messages, and receives take messages from any source.
- **Ordering.** MPI orders the messages of one sender only. The events must leave in input order,
  whatever worker is faster.
- **Blocking sends.** `MPI_Send` may return at once or wait for the receive. Correctness must not
  depend on which.
- **Ending.** Every worker must get one end, the farmer one from each worker, the outputter one
  from the farmer, and only when nothing else is on its way.
- **Exceptions.** A rank that throws calls the collective `MPI_Finalize` while the others wait.
- **Processes that agree without talking.** Every rank numbers parameters for itself; the file is
  described by one of them.
- **Shared metadata.** All objects of a name share one entry, with one flag that says it changed.
- **Layout.** Sizes are computed apart from the writes, names have no padding, fields may lack
  their terminator.
- **Buffers.** Items straddle the end of the reader's buffer; the parameter dealer keeps a pointer
  into it across a refill.

What makes each part correct: the sorter loses nothing and emits without gaps; the farmer hands
every trigger to it once; the dealer numbers events as they are in the input; every event reaches
the file once, in order; the run ends; the reader returns the file in whole items, and what the
dealer sends of it is what was written; names, numbers and flags tell the truth about the entries
behind them. `PROJECT.json` lists the hazards one by one with the properties aimed at them.

## The modules

| Module | Models |
|---|---|
| `TriggerSorter` | `CTriggerSorter` with a client that adds each trigger at most once |
| `MPI` | what the programs use of MPI (external): a FIFO per pair of ranks; a send that may wait |
| `Farmer` | the farmer, around the actions of `TriggerSorter` |
| `Outputter` | the outputter; the file is a sequence of records |
| `Pipeline` | farmer and outputter together, the messages they are sent, the events in the output file |
| `RawPipeline` | dealer and workers of a raw run, composed with `Pipeline` |
| `ParamPipeline` | the same for a parameter to parameter run |
| `PipelineProofs` | the theorems of `TriggerSorter`; lemmas about `MPI`, `Farmer` and `Outputter`, for either kind of run |
| `RawPipelineProofs` | the theorems of a raw run |
| `ParamPipelineProofs` | the theorems of a parameter run |
| `EventStream` | the abstract specification of both: events copied in order, then closed |
| `DataReader` | `CDataReader` over memory cells |
| `DataReaderProofs` | its theorems |
| `DataWriter` | the bytes of what `CDataWriter` writes (operators) |
| `ResultFile` | a file written by `DataWriter`, read through `DataReader` and taken apart by the dealer's `sendDefinitions` and `sendWorkItem` |
| `TreeParameter` | `CTreeParameter`: the values of the parameters of one process |
| `SpecTclWorker` | `CSpecTclWorker`'s pipeline and `CEvent`, over `TreeParameter` |
| `TreeParameterProofs` | the theorems of both |
| `ElementNames` | names of array elements (operators) |
| `ParameterArrays` | metadata of parameters, the flag, defaults, `CTreeParameterArray` |
| `TreeVariables` | `CTreeVariable` and `CTreeVariableArray` |
| `Dictionaries` | one process: the Tcl commands, then any calls on the two above |
| `DictionariesProofs` | its theorems |
| `Definitions` | several processes: what they make of names and numbers, the head of the output file, the maps of the parameter worker |
| `DefinitionsProofs` | its theorems |
| `Application` | start and end of every rank, MPI data types |
| `ApplicationProofs` | its theorems |
| `TestSuites`, `UnitTests` | the repository's unit tests as data, and their replay on the models |
| `MC...` | values of the constants for TLC |

**How state and actions correspond to the code.** A variable named like a member is that member
(`m_items`, `m_lastEmittedTrigger`, `m_nEndsLeft`, `m_nBytes`, ...). Each rank has a program
counter (`dpc`, `fpc`, `opc`, `wpc`) and one action per send or receive, since that is where ranks
interleave; what a rank computes between two of them belongs to the action. A rank inside an
`MPI_Send` that waits does nothing else (`Sending`). `addItem` is one action that includes its
loop: `EmitRun` emits the item and the *n* that follow it. `EmitRun` and `Drains` also describe
what the loop does with a key that sorts at or below the current one. In the sorter `given` and
`flushed` are history variables, in `DataReader` `handed` and `handedItems` are.

Data are abstracted to what the properties tell apart: a ring item is its kind and its position in
the file; an event is the position of the item it was made from (user code in `unpackData` and
`process` is a function of the item); definitions are "some" or "none". An item cut off by the end
of the file is `"torn"`: `getBlock` throws at it, possibly before it has returned the whole items
in front of it (`DataReader.cpp:192`, the first test looks at the whole buffer), which is why
`DealerThrow` and `MayThrow` look ahead.

MPI matches receives by tag. The models receive the first message of a pair and require that it
has the tag asked for. `ReceivedInOrder` shows for the worker of a parameter run, where several
tags come from one sender, that the first message is always the one it asks for, so matching by
tag never skips one; elsewhere a message of another tag would block its receiver for ever, which
`Termination` excludes.

`ParamPipeline` has slots of equal size in the reader's buffer. `cur` is the slot `pItem` points
to: it is not set back when the buffer is refilled (`MPIParameterDealer.cpp:272-276`), and beyond
the block it may show any item the file has (`ItemsAt`), which stands for whatever the memory
holds.

**Tree parameters.** A `CTreeParameter` object is a name and a pointer to what the dictionary has
under it; in `objects` the pointer is the name of the entry (`m_pDefinition`), entries are never
erased. `assigned` is a history variable, keyed by name: the values given in the present event and
not taken away. The number *k* has the place *k + 1* of `m_event`. Limits, bins, units and the
changed flag play no part in the values and are in `ParameterArrays`, which leaves out values in
turn; `UnitTests` runs both side by side and compares what they have in common (`ModelsAgree`).
Names of event processors are left out. User code is whatever calls the public functions, in any
order: `uses` says which ones it keeps to in a run. A `CEvent` reaches it with an event only, so
`UsesEvent` asks for `"unpack"`, while objects can be used in `OnInitialize` too, and what is set
there goes out with the first event. User code is taken not to make objects with names that begin
with `_unnamed.`, which `CEvent` makes for itself.

**Names and numbers.** `Definitions` is a parameter run seen from the names: every process has a
`dictionary` (name to number) and `variables` of its own, filled by the definition file before
anything else (`AbstractApplication.cpp:55`), then by the constructor of its role. `head` is what
the constructor of `CDataWriter` writes. An event is a function of names; `TreeParameter` has the
generation and the scoreboard that this stands for. `written` is a set, since the order of events
is `RawPipeline`'s and `ParamPipeline`'s subject; each member has the pairs of number and value
that go out (`sent`) and what the worker meant by them (`meant`, history). A `treeparameterarray`
or `treevariablearray` is several lines. `AllDefined` and `MapOf` are the loop of
`loadTreeParameterMap` without the loop: that a name gets the size of the dictionary plus the
number of new names before it is what counting `m_nextId` comes to. User code runs in the
constructor of the worker and in `process`; objects that a program makes before `main` get the
same numbers in all its processes and are left out. Without definitions in the input the worker
waits, as `param_no_variables` shows.

**Metadata and arrays.** A name is its base, its width and its index, so that `a.09` and `a.9`
differ as they do in the code; a scalar has width 0. `InitializeAll` is the loop of
`CreateParameters`: every element that is new gets the next number, the others only new metadata.
An array that is given limits or a number of bins first makes a `SharedData` as a template, which
takes a number itself (`AfterTemplate`). `asMade` and `seen` are history variables: what a parameter
or a variable was when it was made or its flags were last reset, which no initialization of an
existing one touches. `overwritten`, `newValues` and `newUnits` are apart from them: what such
initializations have changed since, with no flag set. `declared` is what an array was last built
as. `setInc` divides doubles and converts to unsigned; a negative result may become anything
(`BinsOfWidth`).

**Result files.** A byte is the value that it belongs to and its place in it, so that bytes read
from a wrong offset never look right. `Close` cuts the file where the disk is full.
`sendParameterDefs` and `sendVariableValues` walk an item by the lengths of the names, like the
pointers in the dealer; `strlen` may run on through memory.

**Unit tests.** `TestSuites` has each test as steps: a call, a call that must throw, an
expectation. `UnitTests` maps them to actions of the models and runs each test program with its
tests in any order, over and over, until `MaxId` numbers are taken, with only what its `tearDown`
resets reset. `TestsPass` compares at every step. This checks the models against statements about
the code that were not made for them, and asks whether a test depends on the one before: none
does. It also shows how far the tests reach. Two of the mutants are not noticed by any test,
`PlaceOf` (numbers of array elements of which some exist already) and `InitializeNew` (a variable
that is defined twice); `dictionaries` finds both.

## The runs

| Run | Shows |
|---|---|
| `unit_tests` | All replayed tests pass on the models in every order. The sorter with any of six triggers in every order, with any of them missing, flushed at any point: the emitted triggers are 0, 1, 2, ... until the flush, ascending after it, nothing is lost, and nothing waits that could go out. |
| `raw` | Two workers. Files of up to two items and one of three events, and the same files cut off. Each message may be sent buffered or synchronously. Every item read is in exactly one place; the farmer uses the sorter as `SorterSpec` requires; whole files end; of a cut off file all that was dealt is written; the run implements `EventStream`. |
| `param` | The same for parameter runs, on files that fit the buffer, well described or not. Also: workers get definitions and events in the order in which they receive; nothing is dealt of a file that is not described. |
| `reader` | Items of two and four cells, a buffer of eight, blocks of six or eight; and result files in a buffer of 56, or of 8, which is too small for their definitions. The blocks are the file, the counts of items are right, what the dealer sends is what was written up to `MAX_IDENT` and `MAX_UNITS_LENGTH`, it throws at broken files only, and always gets to the end. |
| `spectcl` | A pipeline of event processors makes, copies, assigns, binds and unsets objects in every order, or works with the `CEvent`: the scoreboard holds what was assigned, each parameter once and nothing of an earlier event; a rejected event goes out empty; numbers stay and are not shared. |
| `definitions` | Two workers and the outputter; definition files in two orders, with redefinitions, and a wrong one; input numbers with gaps and without definition; user code that makes, sets, unsets and steers. The numbers of an event mean at the head of the output file what the worker meant; events are loaded under the names of the input file; variables are what the definition file says unless user code asks for something else. |
| `dictionaries` | A definition file with arrays, an empty one, and elements that are defined once more before or after, then three calls of any kind. Once the file is read every name has what the last command says; every index of an array finds its parameter and no other does, under names of one width that holds them all; numbers are not shared; what objects share changes without a flag only where one of them is initialized again. |
| `application` | Three or four processes. Every data type covers exactly the members of its structure, although all are made with the same arrays; every rank ends when nothing is missing, when there are too few processes, and when no process can read the definition file. |
| `raw_lost` | Finding: an item that a worker passes on with a buffered send can arrive after the farmer's end and is not written. |
| `param_no_variables` | Finding: without variable definitions (or, the same way, parameter definitions) every rank waits for ever. |
| `param_stale` | Finding: the second and later blocks of a parameter file are dealt from a stale pointer. Any file larger than the 16 MB block is affected. |
| `reader_split` | Finding: names make the sizes of items odd, and when a buffer ends within the size of an item, `probeData` reads it all the same: it throws at a whole file, or reads 0 and never returns. |

**Bounds.** Two workers are enough for overtaking: a third worker adds no new kind of order. Three
events let one wait behind a gap while another arrives. `MaxBlock = 2` gives both blocks of
several items and several blocks. `MaxTrigger`, the largest trigger, is 3, 4 or 5: the sorter
starts at the largest unsigned number and wraps to 0 at once, so the wrap is always exercised.
`CounterMod` is the 2^32 of the dealer's counter; with it at most the number of events, numbers
repeat. The buffer of eight cells with items of two and four has every remainder an aligned item
can leave. `BlockCaps` is how many items fit the parameter dealer's buffer; the passing run has
files that fit, the violating one does not. In `spectcl` two objects can share a parameter or not;
two names and the empty one use up the three numbers of `MaxId`; `MaxGeneration = 3` is two
events, so that there are values of an earlier one to mistake; a pipeline of two has one processor
that fails after another. `MaxId` and `MaxGeneration` stand for counters of 32 and 64 bits that no
run gets to the end of. In `definitions` `a` and `b` are defined, `raw` is only in the input and
`late` is only made by user code, so each way to get a number meets the others. One event is
dealt, to either worker: what carries over from one event to the next is `spectcl`'s subject, and
with one worker and two events the run passes as well. In `dictionaries` three calls (`MaxCalls`)
make, change and look, or build, build again and destroy; the arrays begin below zero, end above
it, or need a digit more at their end; `UintMod` is where `first + size` wraps. In
`reader` result files have up to two definitions of each kind, names shorter and longer than
`MAX_IDENT`, units that fill their field or not, and up to three more items; `MCCapacities` fill
the disk within the definitions, behind them, or not at all. `SizeField` is two cells: the fewest
that can be split. In `application` the sizes are the smallest that is allowed and one less; ranks
meet in MPI's calls only, so more workers add nothing. In `unit_tests` `MaxId = 20` lets several
tests follow each other that do not reset `m_nextId`.

**Fairness.** Weak fairness for each rank: each is an operating system process that runs, and MPI
delivers. Nothing is assumed about which message a rank takes first or how fast a worker is.
`Termination` is stated for whole files; after an exception the ranks really wait forever, so
`raw` and `param` do not check for deadlock, and `Termination` does that for the others. `spectcl`
does not check for it either: a worker that threw stops, and so does one at `MaxGeneration`.
`definitions` stops at `MaxEvents` and after a wrong definition file, `dictionaries` at
`MaxCalls`, and `application` when all ranks have left. `application` has weak fairness for each
rank, and `reader` for its one process. `EveryRankEnds` is stated for a definition file that none
can read, and for one that all can if they are too few or have their arguments; it leaves out the
cases in which ranks differ, see below.

**More the models show, without a run of their own.**

- *Exceptions hang the application.* "So MPI App does not hang" (`AbstractApplication.cpp:113`) is
  why a rank that throws calls `MPI_Finalize`. That call is collective: if only some ranks throw,
  it waits for the others, which wait for messages. A truncated input file does that to the dealer
  alone, a missing output argument to the outputter alone (`EveryRankEnds` requires `argc >= 3`
  for that reason), and a definition file that only some nodes can read to those, before
  `MPI_Init`.
- With an empty file the parameter dealer waits for requests and the workers for definitions. With
  a buffer that holds just the two definition items, `nItems` is 0 and no event is dealt
  (`MPIParameterDealer.cpp:85, 263`).
- *`done()` moves as many bytes as it handed out, not as many as are left* (`DataReader.cpp:121`).
  After a block of more than half the buffer it reads up to `2*m_nUserBytes` bytes, behind the
  buffer; both dealers ask for whole buffers. After a block of less than half it leaves the end of
  the data behind, which a single item larger than the rest of the block brings about.
- A result file that was cut off within the size of an item can make the reader read 0 for ever.
- *Reading an element of a `CEvent` sends it.* "m_scoreboard contains the indices of m_event that
  have been given values this event" (`TreeParameter.cpp:67-68`), but `operator[]` adds every
  index it is called with (`Event.cpp:68-73`), and a processor that only looks gets, and sends,
  the value of an earlier event.
- The first element of a `CEvent` that is used in a program without parameters makes `_unnamed.0`
  with the number 1, as the defaults took 0: index 0 has no parameter, against "If the index does
  not exist a new tree parameter is created" (`Event.cpp:49`).
- `hasChanged` tells "if it any metadata has been modified in the course of running the program"
  (`TreeParameter.cpp:895-898`), but a second object of the name overwrites limits, bins and units
  for all and sets no flag (`476-481`). `CTreeParameter(name)` does so with the defaults to a
  parameter of the definition file; `CTreeVariable(name)` leaves what the file says.
  `OnlyInitializationsAreSilent` says that this is the only way: drop its `overwritten`, and TLC
  shows a parameter that a second line of the definition file has changed unnoticed.
- Names of elements have "as many zero filled digits as required to be the largest index", and with
  a negative first index "these will look like: baseName.-005" (`TreeParameterArray.cpp:197-200`),
  but an unsigned `first + size` that is negative has ten digits. Digits are counted to the index
  behind the last: an array that ends at 9 is named `.00` to `.09`. `ArraysAsDeclared` asks for room
  for the digits of every index and one width for all, and leaves the excess open: with `=` instead
  of `>=` for the largest, TLC shows the array that begins at -2 (with four digits, for a
  `UintMod` of 10000).
- Names of `MAX_IDENT` characters and more are cut in the messages and have no terminator there.
- A resolution of 32 and more shifts an `int` out of its width (`TreeParameter.cpp:412`); a
  negative number of elements in a definition file becomes an unsigned
  (`TCLParameterReader.cpp:97`). The models take sizes from `Nat`.

User code that works with the `CEvent` and with objects of the same parameters sends some of them
twice, since `operator[]` leaves the generation alone: `UserCode` with `{"object", "write index"}`
shows it. A `Bind` that throws uses up a number (`TreeParameter.cpp:270`); the next parameter's
place leaves a hole in `m_event` that a `CEvent` can write to and that no definition describes.

A parameter worker makes a parameter of every definition of the input file
(`MPIParametersToParametersWorker.cpp:286`). One that the application did not define is sent with
the event under a number that the head of the output file does not have (`raw` in `definitions`),
although `paramparamworker.md:15-18` has applications reduce the set of parameters by not defining
them. Readers of the file cannot tell what such a value is. `ReadsBack` is stated for the
parameters that the head does have.

## What is proved

`PipelineProofs`, for every `MaxTrigger` in `Nat` and every set `Events`:

| Theorem | States |
|---|---|
| `SorterTypeCorrect` | `SorterTypeOK` always holds |
| `SorterContiguous` | `ContiguousUntilFlush` |
| `SorterAscending` | `Ascending` |
| `SorterLosesNothing` | `NothingLost` |
| `SorterNeedsNoFlush` | `NoNeedToFlush` |

They follow from one invariant, `SorterInv`. The properties are not inductive on their own:
that the next emission is contiguous needs to know that `m_lastEmittedTrigger` is the number of
items emitted less one, that everything held back lies above it with a gap, and that no trigger
comes twice. The invariant states that, `HoldBack`, `EmitRun` and `Flush` are shown to keep it one
conjunct at a time, and PTL closes the temporal step. The only assumption is
`MaxTriggerAssumption`. The client assumption is part of `SorterNext`; that the farmer satisfies
it is `UsesSorterProperly`, which is model-checked in `raw` and proved of both kinds of run
(`RawUsesSorterProperly`, `ParamUsesSorterProperly`). `unit_tests` checks the same
properties on the client `SorterNext`. The rest of the module are lemmas about `MPI`, `Farmer` and
`Outputter` that do not depend on the kind of run.

`RawPipelineProofs`, for any number of workers, any files, any cut into blocks, and sends of which
each may wait or not (`MPIAssumption`, `RawAssumption`, `MaxTriggerAssumption`):

| Theorem | States |
|---|---|
| `RawTypeCorrect` | `TypeOK` always holds |
| `RawUsesSorterProperly` | `UsesSorterProperly`, with few events |
| `RawImplementsStream` | `ImplementsStream`, the refinement of `EventStream`, with few events |
| `RawExactlyOnce` | `ExactlyOnce`, with few events |

Even the types need an invariant of the whole run: that the end count does not go below zero, that
the dealer answers workers only, that a header is not taken for data. `RawInv` is that invariant.
`Protocol` lists, for every place a worker can be in, which requests and answers are on their way
and what the dealer is doing for it (`Asked`, `HeaderDue`, `HeaderSent`, ...): there is never a
second request. `InPairs` and `LastSentOK` say that the farmer's streams are headers and data in
turn, and nothing behind an end; `EndsLeftOK` that the count of ends is the number of workers
whose end is not in; `RightFor` that the number of an event is the number of events before it, as
long as the dealer's counter holds that; `Delivery` numbers the messages from the farmer to the
outputter, so that the file holds what the sorter emitted, in that order, and the end comes last.

`CountedInv` adds what a run with few events keeps: every item the dealer has read is in one place
(`Somewhere`, `NowhereElse`: a rank's hands, a message, the map of the sorter, the file) and the
sorter has each under the number of events before it (`GivenAsNumbered`). From this the farmer
never hands in a number twice, the last end finds nothing waiting, and the emitted items are 0, 1,
2, ... without a gap (`InSequence`, by the sorter's own invariant `SorterInv`), so that each
write appends the next event of the input and the outputter closes after the last: one lemma per
action, then the steps of `EventStream`. `FewEvents`, the hypothesis, says that no file has more
events than the dealer's counter has values. The code needs it: after 2^32 events numbers repeat
(`MPIRawReader.cpp:114`), the sorter's map keeps one of two items with one key, and the three
properties fail. `RawTypeCorrect` holds without it.

`ParamPipelineProofs`, for any number of workers, any files, any definitions in them, any sizes of
blocks, and sends of which each may wait or not (`MPIAssumption`, `ParamAssumption`,
`MaxTriggerAssumption`):

| Theorem | States |
|---|---|
| `ParamTypeCorrect` | `TypeOK` always holds |
| `ParamReceivesInOrder` | `ReceivedInOrder`, if no file has an empty list of parameters |
| `ParamUsesSorterProperly` | every step of the run is a step of `SorterSpec`, under `StreamAssumed` |
| `ParamImplementsStream` | `ImplementsStream`, the refinement of `EventStream`, under `StreamAssumed` |

`ParamInv` is the invariant behind the types. The farmer's half is that of a raw run (`InPairs`,
`EndsLeftOK`, `FarmerControl`, `Delivery`); `DealerOK` says that the dealer has an item of the
file in hand while it deals, also where the stale `pItem` has it deal the wrong one; `WorkerOK`
relates what a worker sent last to where it is. `ParamAssumption` lets a file hold no more data
items than a trigger number, as stored in them, has values. `OrderInv` adds, for each worker, that
the pushes on their way are the next of the four in order (`DefinitionsDue`) or, when it has all
of them, the place of its one request and its answer (`Protocol`). `ParamsDefined`, the
hypothesis, is needed by the code: an empty list is not sent (`MPIParameterDealer.cpp:169`), and
the worker that waits for it would find the count of the variables first. That no list of
variables is empty is not needed for the order, only for the end of the run.

`NumberedInv` is the invariant behind the stream. It adds to `OrderInv` the sorter's own
`SorterInv` and:

- `InOneBlock`: the dealer goes through its one block item by item and counts right, so `Dealt`,
  the events it has been through, are all of the file when the ends go out;
- `AtWorkers`: no event is twice with a worker, in its hands or on its way to the farmer
  (`OnceFrom`), the number sent ahead of an event is the one stored in it (`RightNumbers`), and the
  end is the last a worker hears (`EndIsLast`);
- `EventsOK`: every event that was dealt is with one worker or given to the sorter, under its number
  (`Apart`, `NothingElse`, `NothingMissed`, `GivenAsNumbered`);
- `InSequence` and `AllEmitted`: the sorter has emitted 0, 1, 2, ... without a gap, and all of them
  once it is flushed.

`Apart` gives that a number never comes to the farmer twice. When the last end comes every worker
has ended, so no event is on its way (`NothingMissed` then says that all are given), and since their
numbers have no gap the flush finds nothing held back. A write appends the next event of the input,
which is `Deliver`, and the outputter's last receive is `Close`; every other step is a stutter.

`StreamAssumed` is what this needs of the files, and the code needs it too: `ParamsDefined`;
`OneBlock`, that a file fits the buffer, since after the first block `pItem` is stale and other
items are dealt than those of the file (`param_stale` shows the property violated); and
`CutAtTheEnd`, that only the last item can be cut off by the end of the file. The files and the
buffer of `param`, where TLC checks the same property, satisfy it.

`TreeParameterProofs`, for any names, objects, processors, values, bounds and user code:

| Theorem | States |
|---|---|
| `PipelineTypeCorrect` | `TypeOK` always holds |
| `NamesAreParameters` | `SameNameSameParameter` |
| `SendsWhatWasUnpacked` | `UnpackedToParameters` |
| `SendsWhatWasIndexed` | `UnpackedToIndices` |
| `ObjectsReadThisEvent` | `ReadsThisEvent`, with `ObjectsOrEvent` |
| `NumbersNeverChange` | `NumbersAreForGood` |
| `RejectedIsDropped` | `RejectedEventIsEmpty` |
| `EventsAreSeparate` | `EventsStartEmpty` |

The invariant, `PipelineInvariant`, has two layers. `Base` holds whatever user code does: the
types, that the numbers in the dictionary are different and below `m_nextId`, that `m_event` has a
place for each of them, that objects are bound to their names. `Current` relates generation,
scoreboard and `assigned`: the valid parameters are those on the scoreboard, each once, and their
values are the assigned ones. It is kept only by user code that leaves the elements of `CEvent`
alone, which is why it appears under a condition on `uses`; code that uses both sends some
parameters twice. For user code that does nothing but assign to elements `IndexScoring` takes its
place: what was assigned to an index that has a parameter is on the scoreboard, once, also when
the parameter was only made by that assignment. `ObjectsOrEvent`, the hypothesis of
`ObjectsReadThisEvent`, keeps the two kinds of user code apart. Every action is first reduced to
one of a few steps of the tree parameters (`TreeSteps`), and each of these is shown to keep each
part. The assumptions are `TreeAssumption` and `PipelineAssumption`.

`ApplicationProofs`, for any numbers of processes and arguments and any lengths of names and units:

| Theorem | States |
|---|---|
| `ApplicationTypeCorrect` | `TypeOK` always holds |
| `TypesAreStructures` | `MessagesFitTheirTypes` |

`makeDataTypes` describes six structures with one set of arrays, and three of its six steps rely on
lengths or types that an earlier one has left there. `ApplicationInv` says which: the types are
made in the order of `Steps` (`MadeInOrder`), and `LeftBy` keeps, for each number of types made,
what the next steps take over. `StepFits` then shows for each step that the arrays hold its
structure's members, and `CreatedFits` that the offsets and the padding follow. Offsets are a
recursive function, but structures have two or three members, so it is unfolded (`OffsetsAreNat`)
and no induction is needed. That a rank with a role counts a worker needs the assumption that
`MINIMUM_SIZE`, which is 4 (`AbstractApplication.cpp:29`), is above 3.

`DefinitionsProofs`, for any number of workers, any definition files, any input files in which a
name has one number, any values, and user code that makes and assigns any parameters and variables
whenever it runs (`DefinitionsAssumption`; `MaxId` and `MaxEvents`, any numbers, bound what user code
makes and the events dealt):

| Theorem | States |
|---|---|
| `DefinitionsTypeCorrect` | `TypeOK` always holds |
| `NumbersAlwaysAgree` | `NumbersAgree` |
| `OutputReadsBack` | `ReadsBack` |
| `VariablesAsDefined` | `SteeredAsDefined` |
| `EventsLoadByName` | `LoadsByName`, an action property |

The processes never talk about numbers: they agree because each reads the same file, and before it
makes anything of its own. The invariant, `DefinitionsInv`, therefore has to speak of what a process
has after *k* lines, which a recursive definition would say and the provers could not use.
`ReadInCommon` says it with a witness: there are `numbers` and `nexts`, such that each entry follows
from the one before by a line of the file (`AfterLine`), and everyone still reading has the entry of
the line it is at; when the process that is furthest reads a line, one entry is added
(`ReadLineCommon`). Who has read all keeps an extension of the last entry. `Numbering` says that the
numbers are different and below the next; `DefinedNumbers` shows that one line keeps it, arrays with
several new elements included. That does not suffice for `ReadsBack`: a number that the head of the
output file does not have may be that of another worker's parameter. `SentAs` keeps for each event
written that whoever sent it had different numbers that extended the common ones, so that a number
of the head stands for the name it has there. `VariablesFollow` relates the variables of a process
to the lines it has read; `MapFacts` and `LoadedValues` say what the map from the input file's
numbers to parameters holds and what is loaded with it. `NatMinimum` is an induction by least
counterexample, from the well-foundedness of strict subsets of finite sets; `Largest` follows, which
the size of the map needs. Every action of user code is reduced to `OnlyOf`, that it changes what
one worker has.

`DictionariesProofs`, for any commands, arguments, names, any numbers of elements and any user code
(`NamesAssumption`, `ParametersAssumption`, `DictionariesAssumption`, which say of a definition file
only that it is a sequence of commands):

| Theorem | States |
|---|---|
| `DictionariesTypeCorrect` | `TypeOK` always holds |
| `ArraysStayAsDeclared` | `ArraysAsDeclared` |
| `SilentChangesAreInitializations` | `OnlyInitializationsAreSilent` |
| `FileIsFollowed` | `DefinedAsInFile` |

`DictionariesInv` adds that the numbers of parameters differ and are below `m_nextId`, that an array
holds the entries of its elements' names in order, and, until user code makes its first call, that
every name is as the last line of those read that names it left it. That a width has room for every
index (`WidthHoldsIndices`) does not depend on where `first + size` wraps: then it is negative, and
every index is nearer to zero than the first, whose digits count as well. A later line may define a name
again, so this speaks of the lines read so far (`LastUpTo`) and strengthens `DefinedAsInFile`, which
speaks of the whole file. Arrays need that their elements have different names
(`ElementsAreDifferent`).

`DataReaderProofs`, for any files and any sizes of buffers and blocks (`ReaderAssumption`):

| Theorem | States |
|---|---|
| `ReaderTypeCorrect` | `TypeOK` always holds, if shortfalls fit the buffer |
| `ReaderReturnsTheFile` | `BlocksAreTheFile`, if `FilesAreReadable` |

`ReaderInv` says where the cells of the file are: what was handed out (`Handed`), what the buffer
holds from `m_pCurrent` on and what the file has left make up the file again (`Contents`), and the
pointer is at the start of an item whenever a block is asked for. `FilesAreReadable` is what the
code relies on, and each part is needed: items follow each other without gaps and within the file;
the end of the buffer never splits the size of an item (`SizesAligned`; `reader_split` shows what
happens otherwise); and no item is larger than what a block leaves room for (`ItemsSmall`),
because `done()` moves as many bytes as it handed out (`DataReader.cpp:121`): with a buffer of 8 and
items of 2 and 8 cells, TLC finds `BlocksAreTheFile` violated. The dealers ask for whole buffers, so
items of up to about half a block are safe. TLC evaluates the hypothesis for the files of the runs
(`MCFilesAreReadable`), the files of `reader` that are cut off included. The theorem is about what
is in a file, whoever wrote it; that files made by `CDataWriter` satisfy the hypotheses stays with
TLC, since `FileSpec` puts them together by recursion over data.

Only model-checked: the stream of a parameter run whose file takes several blocks, which is
violated (`param_stale`); the bytes of the writer and what a result file says of itself
(`TestsPass`, `FileTypeOK`, `DescribesItself`), which recursive definitions compute over data of any
length, and the prover has no induction over data; `ReadIsWritten`, `Termination`, `ReachesTheEnd`
and `EveryRankEnds`, which are liveness and out of the prover's reach.

## What is not modelled

- The names of event processors, `CEvent`'s iterators, `CBufferDecoder` and `CAnalyzer`: they hand
  on names, references and parts of a ring item and keep no state that the others depend on.
- The Tcl interpreter and its C++ wrappers: only what the commands do to the dictionaries matters
  here.
- `writertests.cpp` and the parallel drivers (`testParinput.cpp`, `testWorker2.cpp`,
  `worker2tests.cpp` and the like): they compare output with values of their own; `ResultFile` and
  the pipelines check the same round trips for all inputs. One reader test needs a buffer of a
  petabyte and is left out.
- `read()` returning less than asked for: the programs open regular files.
- Numbers of 2^32 events, parameters or elements: counters are bounded, see above.
- The build, the documentation and the example programs.

## Plan

1. *Done.* Sorter and its theorems; farmer, outputter, both pipelines, the abstract stream; the
   reader.
2. *Done.* Tree parameters and the SpecTcl worker, with their theorems.
3. *Done.* Numbers and names over processes; metadata, variables and arrays in one process; result
   files from writer to dealer; the application; the unit tests.
4. *Done.* Proofs: a raw run is type correct, uses the sorter properly, loses nothing and
   implements `EventStream`; a parameter run is type correct, receives in order and, with a file
   that fits the buffer, uses the sorter properly and implements `EventStream`; the tree parameters'
   properties; the MPI data types of the application; names, numbers and arrays in one process and
   over processes; the reader returns the file for any sizes of buffers and blocks.
5. Left: what `CDataWriter` writes is described by its first items and readable (`DescribesItself`,
   `FilesAreReadable`), for data of any length, needs induction over data; the hazards without a
   property in `PROJECT.json`, each with its reason.
