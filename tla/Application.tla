---------------------------- MODULE Application ----------------------------
(***************************************************************************)
(* AbstractApplication::operator() (base/AbstractApplication.cpp): how     *)
(* each process of a run reads the definition file, joins MPI, describes   *)
(* the messages to it, takes its role and leaves.  What the roles do in    *)
(* between is in RawPipeline and ParamPipeline; here a role ends when all  *)
(* others are in theirs.  MPI is external: MPI_Init and MPI_Finalize wait  *)
(* for all processes.                                                      *)
(***************************************************************************)
EXTENDS Integers, FiniteSets, Sequences, FiniteSetsExt

CONSTANTS Sizes,            \* the numbers of processes that may be started
          Arguments,        \* the values argc may have
          MAX_IDENT, MAX_UNITS_LENGTH,
          MINIMUM_SIZE

ASSUME ApplicationAssumption ==
    /\ Sizes \subseteq Nat \ {0} /\ Arguments \subseteq Nat
    /\ MAX_IDENT \in Nat \ {0} /\ MAX_UNITS_LENGTH \in Nat \ {0}
    /\ MINIMUM_SIZE \in Nat /\ MINIMUM_SIZE > 3   \* there is a worker

VARIABLES size, argc,
          readable,   \* whether the reader of a process throws
          pc,         \* "read", "init", "types", "roles", "role", "finalize",
                      \* "ended", or "thrown" without having called MPI_Init
          lengths, types, offsets,  \* the arrays of makeDataTypes
          datatypes,  \* what it has described
          m_nWorkers,
          role

vars == <<size, argc, readable, pc, lengths, types, offsets, datatypes, m_nWorkers, role>>

Ranks == 0 .. size - 1
-----------------------------------------------------------------------------
(***************************************************************************)
(* The structures of AnalysisRingItems.h, which are not packed: of each    *)
(* member the type and how many of it there are.                           *)
(***************************************************************************)
BytesOf == [int |-> 4, unsigned |-> 4, bool |-> 1, uint64 |-> 8, uint32 |-> 4,
            double |-> 8, char |-> 1, long |-> 8]

Structures ==
    [messageHeader   |-> <<<<"unsigned", 1>>, <<"unsigned", 1>>, <<"bool", 1>>>>,
     requestData     |-> <<<<"int", 1>>, <<"int", 1>>>>,
     parameterHeader |-> <<<<"uint64", 1>>, <<"uint32", 1>>, <<"bool", 1>>>>,
     parameterValue  |-> <<<<"uint32", 1>>, <<"double", 1>>>>,
     parameterDef    |-> <<<<"char", MAX_IDENT>>, <<"long", 1>>>>,
     variableDef     |-> <<<<"char", MAX_IDENT>>, <<"char", MAX_UNITS_LENGTH>>, <<"double", 1>>>>]

RoundedUp(n, unit) == ((n + unit - 1) \div unit) * unit

\* offsetof: members are at multiples of the size of their type.
OffsetOf(members) ==
    LET at[k \in 1 .. Len(members)] ==
           IF k = 1 THEN 0
           ELSE RoundedUp(at[k - 1] + members[k - 1][2] * BytesOf[members[k - 1][1]],
                          BytesOf[members[k][1]])
    IN at

MembersAt(members) ==
    {<<OffsetOf(members)[k], members[k][2] * BytesOf[members[k][1]]>> : k \in DOMAIN members}

\* The bytes that a value takes in an array of them.
SizeOf(members) ==
    RoundedUp(Max({m[1] + m[2] : m \in MembersAt(members)}),
              Max({BytesOf[members[k][1]] : k \in DOMAIN members}))
-----------------------------------------------------------------------------
MPIBytes == [MPI_INT |-> 4, MPI_CXX_BOOL |-> 1, MPI_INT64_T |-> 8, MPI_INT32_T |-> 4,
             MPI_DOUBLE |-> 8, MPI_CHAR |-> 1, MPI_UNSIGNED_LONG |-> 8]

\* Mutant: a length is left as the type before needed it.
StepsOneLength ==
    <<[of |-> "messageHeader", count |-> 3, lengths |-> <<1, 1, 1>>,
       types |-> <<"MPI_INT", "MPI_INT", "MPI_CXX_BOOL">>],
      [of |-> "requestData", count |-> 2, lengths |-> <<>>, types |-> <<>>],
      [of |-> "parameterHeader", count |-> 3, lengths |-> <<>>,
       types |-> <<"MPI_INT64_T", "MPI_INT32_T">>],
      [of |-> "parameterValue", count |-> 2, lengths |-> <<>>,
       types |-> <<"MPI_INT32_T", "MPI_DOUBLE">>],
      [of |-> "parameterDef", count |-> 2, lengths |-> <<MAX_IDENT>>,
       types |-> <<"MPI_CHAR", "MPI_UNSIGNED_LONG">>],
      [of |-> "variableDef", count |-> 3, lengths |-> <<MAX_IDENT>>,
       types |-> <<"MPI_CHAR", "MPI_CHAR", "MPI_DOUBLE">>]>>

(***************************************************************************)
(* makeDataTypes: one set of arrays is used for all types in turn.  What a *)
(* step does not set at their front is left from the steps before.         *)
(***************************************************************************)
Steps ==
    <<[of |-> "messageHeader", count |-> 3, lengths |-> <<1, 1, 1>>,
       types |-> <<"MPI_INT", "MPI_INT", "MPI_CXX_BOOL">>],
      [of |-> "requestData", count |-> 2, lengths |-> <<>>, types |-> <<>>],
      [of |-> "parameterHeader", count |-> 3, lengths |-> <<>>,
       types |-> <<"MPI_INT64_T", "MPI_INT32_T">>],
      [of |-> "parameterValue", count |-> 2, lengths |-> <<>>,
       types |-> <<"MPI_INT32_T", "MPI_DOUBLE">>],
      [of |-> "parameterDef", count |-> 2, lengths |-> <<MAX_IDENT, 1>>,
       types |-> <<"MPI_CHAR", "MPI_UNSIGNED_LONG">>],
      [of |-> "variableDef", count |-> 3, lengths |-> <<MAX_IDENT, MAX_UNITS_LENGTH, 1>>,
       types |-> <<"MPI_CHAR", "MPI_CHAR", "MPI_DOUBLE">>]>>

\* The front of an array is set.
Over(array, front) ==
    [k \in 1 .. 3 |-> IF k \in DOMAIN front THEN front[k] ELSE array[k]]

\* MPI_Type_create_struct, as the set of where the bytes of a value are.
CreateStruct(count, lens, offs, mpitypes) ==
    {<<offs[k], lens[k] * MPIBytes[mpitypes[k]]>> : k \in 1 .. count}

\* Its extent, with the padding that MPI adds.
Extent(step, mpitypes, at) ==
    RoundedUp(Max({m[1] + m[2] : m \in at}),
              Max({MPIBytes[mpitypes[k]] : k \in 1 .. step.count}))

Making(r) == Steps[Cardinality(DOMAIN datatypes[r]) + 1]

makeDataType(r) ==
    /\ pc[r] = "types" /\ Cardinality(DOMAIN datatypes[r]) < Len(Steps)
    /\ LET step == Making(r) IN
          /\ lengths' = [lengths EXCEPT ![r] = Over(@, step.lengths)]
          /\ types' = [types EXCEPT ![r] = Over(@, step.types)]
          /\ offsets' = [offsets EXCEPT ![r] = Over(@, OffsetOf(Structures[step.of]))]
          /\ LET at == CreateStruct(step.count, lengths'[r], offsets'[r], types'[r]) IN
                datatypes' = [datatypes EXCEPT
                                 ![r] = [t \in DOMAIN @ \union {step.of} |->
                                            IF t = step.of
                                            THEN [at |-> at, extent |-> Extent(step, types'[r], at)]
                                            ELSE @[t]]]
    /\ UNCHANGED <<size, argc, readable, pc, m_nWorkers, role>>
-----------------------------------------------------------------------------
Roles == {"none", "dealer", "farmer", "outputter", "worker"}

TypeOK ==
    /\ size \in Sizes /\ argc \in Arguments
    /\ readable \in [Ranks -> BOOLEAN]
    /\ pc \in [Ranks -> {"read", "init", "types", "roles", "role", "finalize", "ended", "thrown"}]
    /\ \A r \in Ranks :
          /\ lengths[r] \in [1 .. 3 -> Nat] /\ offsets[r] \in [1 .. 3 -> Nat]
          /\ types[r] \in [1 .. 3 -> DOMAIN MPIBytes]
          /\ DOMAIN datatypes[r] \subseteq DOMAIN Structures
    /\ role \in [Ranks -> Roles] /\ DOMAIN m_nWorkers = Ranks
    /\ \A r \in Ranks : m_nWorkers[r] \in IF role[r] = "none" THEN {0} ELSE 1 .. size

Init ==
    /\ size \in Sizes /\ argc \in Arguments
    /\ \E bad \in {{}, {0}, Ranks} : readable = [r \in Ranks |-> r \notin bad]
    /\ pc = [r \in Ranks |-> "read"]
    /\ lengths = [r \in Ranks |-> [k \in 1 .. 3 |-> 1]]
    /\ types = [r \in Ranks |-> [k \in 1 .. 3 |-> "MPI_INT"]]
    /\ offsets = [r \in Ranks |-> [k \in 1 .. 3 |-> 0]]
    /\ datatypes = [r \in Ranks |-> [t \in {} |-> 0]]
    /\ m_nWorkers = [r \in Ranks |-> 0]
    /\ role = [r \in Ranks |-> "none"]

Goes(r, from, to) ==
    /\ pc[r] = from
    /\ pc' = [pc EXCEPT ![r] = to]
    /\ UNCHANGED <<size, argc, readable, lengths, types, offsets, datatypes>>

\* reader.read(), which is not in the try block.
Read(r) ==
    /\ Goes(r, "read", IF readable[r] THEN "init" ELSE "thrown")
    /\ UNCHANGED <<m_nWorkers, role>>

\* MPI_Init returns when all processes have called it.
MPI_Init(r) ==
    /\ \A q \in Ranks : pc[q] \notin {"read", "thrown"}
    /\ Goes(r, "init", "types")
    /\ UNCHANGED <<m_nWorkers, role>>

MPI_Comm_rank(r) ==
    /\ Cardinality(DOMAIN datatypes[r]) = Len(Steps)
    /\ Goes(r, "types", "roles")
    /\ UNCHANGED <<m_nWorkers, role>>

RoleOf(r) == IF r < 3 THEN <<"dealer", "farmer", "outputter">>[r + 1] ELSE "worker"

WorkersOf(n) == n - 3

\* Mutant: only rank 0, which says so, throws.
TooSmallForFirst(r) == size < MINIMUM_SIZE /\ r = 0

\* Mutant: a worker is not asked for.
TooSmallForRoles(r) == size < MINIMUM_SIZE - 1

TooSmall(r) == size < MINIMUM_SIZE

\* The exception goes through the catch block, which calls MPI_Finalize.
ThrowTooSmall(r) ==
    /\ TooSmall(r)
    /\ Goes(r, "roles", "finalize")
    /\ UNCHANGED <<m_nWorkers, role>>

TakeRole(r) ==
    /\ ~ TooSmall(r)
    /\ Goes(r, "roles", "role")
    /\ m_nWorkers' = [m_nWorkers EXCEPT ![r] = WorkersOf(size)]
    /\ role' = [role EXCEPT ![r] = RoleOf(r)]

\* getInputFile of either dealer and getOutputFile.
NoInputFile(r) == role[r] = "dealer" /\ argc < 2

NoOutputFile(r) == role[r] = "outputter" /\ argc < 3

Misses(r) == NoInputFile(r) \/ NoOutputFile(r)

ThrowArguments(r) ==
    /\ Misses(r)
    /\ Goes(r, "role", "finalize")
    /\ UNCHANGED <<m_nWorkers, role>>

\* Without the others there are no messages to wait for.
RoleEnds(r) ==
    /\ \A q \in Ranks : role[q] # "none" /\ ~ Misses(q)
    /\ Goes(r, "role", "finalize")
    /\ UNCHANGED <<m_nWorkers, role>>

\* It returns when all processes have called it, too.
MPI_Finalize(r) ==
    /\ \A q \in Ranks : pc[q] \in {"finalize", "ended"}
    /\ Goes(r, "finalize", "ended")
    /\ UNCHANGED <<m_nWorkers, role>>

Step(r) ==
    \/ Read(r) \/ MPI_Init(r) \/ makeDataType(r) \/ MPI_Comm_rank(r)
    \/ ThrowTooSmall(r) \/ TakeRole(r)
    \/ ThrowArguments(r) \/ RoleEnds(r) \/ MPI_Finalize(r)

Next == \E r \in Ranks : Step(r)

Spec == Init /\ [][Next]_vars

\* Each process runs on.
FairSpec == Spec /\ \A r \in 0 .. Max(Sizes) - 1 : WF_vars(r \in Ranks /\ Step(r))
-----------------------------------------------------------------------------
(***************************************************************************)
(* "must not be packed or MPI will pad them out" (AnalysisRingItems.h:     *)
(* 120-122): each type that a process has made describes exactly the       *)
(* members of its structure, and an array of values in memory is an array  *)
(* of values to MPI, whatever was made with the arrays before.             *)
(***************************************************************************)
MessagesFitTheirTypes ==
    \A r \in Ranks : \A t \in DOMAIN datatypes[r] :
       /\ datatypes[r][t].at = MembersAt(Structures[t])
       /\ datatypes[r][t].extent = SizeOf(Structures[t])

(***************************************************************************)
(* "So MPI App does not hang" (AbstractApplication.cpp:113): every process *)
(* ends when none can read the definition file and, when all can, if they  *)
(* are too few or have their arguments.  It is silent on the cases that do *)
(* hang: some can read the file only, or one throws for its arguments.     *)
(***************************************************************************)
EveryRankEnds ==
    (\/ \A r \in Ranks : ~ readable[r]
     \/ (\A r \in Ranks : readable[r]) /\ (size < MINIMUM_SIZE \/ argc >= 3))
      ~> (\A r \in Ranks : pc[r] \in {"ended", "thrown"})
=============================================================================
