-------------------------------- MODULE MPI --------------------------------
(***************************************************************************)
(* What the processes use of MPI, which is outside the repository.         *)
(* Messages between two ranks do not overtake each other; nothing orders   *)
(* messages from different ranks.  MPI_Send (standard mode) may buffer the *)
(* message and return, or return only once the receive has matched it:     *)
(* the MPI library chooses for each message, and a rank that waits for the *)
(* match does nothing else meanwhile.                                      *)
(***************************************************************************)
EXTENDS Naturals, Sequences

CONSTANTS Size,        \* MPI_Comm_size
          WaitChoices  \* may MPI_Send wait for the receiver?  {FALSE}: it
                       \* buffers, {TRUE}: it waits, {FALSE, TRUE}: it does either

ASSUME MPIAssumption == Size \in Nat /\ Size >= 4 /\ WaitChoices \subseteq BOOLEAN

Ranks == 0 .. Size - 1

VARIABLE chan          \* chan[from][to] holds the messages not yet received

MPIInit == chan = [from \in Ranks |-> [to \in Ranks |-> <<>>]]

\* Is rank p still inside an MPI_Send?
Sending(p) == \E to \in Ranks : \E i \in DOMAIN chan[p][to] : chan[p][to][i].wait

Send(from, to, tag, body) ==
    \E wait \in WaitChoices :
        chan' = [chan EXCEPT ![from][to] =
                    Append(@, [tag |-> tag, body |-> body, wait |-> wait])]

\* The first message of a pair is there and has one of the tags expected of it.
Arrived(from, to, tags) == chan[from][to] # <<>> /\ Head(chan[from][to]).tag \in tags

\* Messages with one tag.
Message(tag, Bodies) == [tag : {tag}, body : Bodies, wait : BOOLEAN]

FirstBody(from, to) == Head(chan[from][to]).body

Received(from, to) == [chan EXCEPT ![from][to] = Tail(@)]
=============================================================================
