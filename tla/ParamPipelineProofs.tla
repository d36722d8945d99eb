------------------------ MODULE ParamPipelineProofs ------------------------
(***************************************************************************)
(* The safety of a parameter run, for any number of workers, any files,    *)
(* any sizes of buffers, and sends that wait or not; and, where a buffer   *)
(* holds a whole file, that the run implements the plain stream of events. *)
(***************************************************************************)
EXTENDS ParamPipeline, PipelineProofs

\* What each rank sends to each other rank.
Kinds ==
    [a \in Ranks |-> [b \in Ranks |->
        IF a = DealerRank /\ b \in Workers THEN ToWorker
        ELSE IF a = DealerRank /\ b = OutputRank THEN PassedOn
        ELSE IF a \in Workers /\ b = DealerRank THEN Message("REQUEST", {a})
        ELSE IF b = FarmerRank /\ a \in Workers THEN EventMessages
        ELSE IF a = FarmerRank /\ b = OutputRank THEN EventMessages
        ELSE {}]]

(***************************************************************************)
(* The dealer: it is at an item of the file while it deals.                *)
(***************************************************************************)
AtItem == dpc \in {"request", "sendHeader", "sendData", "passHeader", "passData"}

DealerOK ==
    /\ dpc = "read" => first = 0 /\ pushed = 0 /\ dest = 3
    /\ dpc = "push" => pushed < Len(Pushes)
    /\ dpc = "take" \/ AtItem => nItems > 0
    /\ AtItem => item > 0
    /\ dpc \in {"request", "sendHeader", "sendData"} => file[item] = "data"
    /\ dpc # "finalize" => eofsLeft > 0
    /\ cur > 0

WorkerOK(w) ==
    /\ wpc[w] \in {"sendHeader", "sendData"} => wevent[w] \in Events
    /\ LastSent(w).tag = "HEADER" <=> wpc[w] = "sendData"
    /\ LastSent(w).tag = "HEADER" => LastSent(w).body = wtrigger[w]
    /\ LastSent(w).tag = "END" => wpc[w] = "finalize"
    /\ wpc[w] = "finalize" /\ chan[w][FarmerRank] # <<>> => LastSent(w).tag = "END"

Ended(w) == wpc[w] = "finalize" /\ chan[w][FarmerRank] = <<>>

EndsLeftOK == m_nEndsLeft = Cardinality({w \in Workers : ~ Ended(w)})

(***************************************************************************)
(* The invariant of every run, whatever the file describes.                *)
(***************************************************************************)
ParamInv ==
    /\ TypedBy(Kinds)
    /\ DealerTypeOK /\ WorkersTypeOK /\ FarmerTypeOK /\ OutputTypeOK
    /\ DealerOK
    /\ \A w \in Workers : WorkerOK(w)
    /\ InPairs
    /\ EndsLeftOK
    /\ FarmerControl
    /\ Delivery
-----------------------------------------------------------------------------
(***************************************************************************)
(* What a worker has received of the definitions, and what was sent to it. *)
(***************************************************************************)
Receives == [paramCount |-> 0, params |-> 1, varCount |-> 2, vars |-> 3]

Got(w) == IF wpc[w] \in DOMAIN Receives THEN Receives[wpc[w]] ELSE 4

PushedTo(w) == IF dpc = "push" /\ w < dest THEN pushed + 1 ELSE pushed

Served(w) == dest = w /\ dpc \in {"sendHeader", "sendData", "sendEof"}

DefinitionsDue(w) ==
    /\ chan[w][DealerRank] = <<>> /\ ~ Served(w)
    /\ Len(chan[DealerRank][w]) = PushedTo(w) - Got(w)
    /\ \A k \in DOMAIN chan[DealerRank][w] :
          /\ chan[DealerRank][w][k].body = Expected[Got(w) + k]
          /\ chan[DealerRank][w][k].tag = TagOf(Expected[Got(w) + k])

(***************************************************************************)
(* Request and answer.  Whatever a worker asks for, one of these holds.    *)
(***************************************************************************)
Silent(w) == chan[w][DealerRank] = <<>> /\ chan[DealerRank][w] = <<>> /\ ~ Served(w)

Asked(w) == Len(chan[w][DealerRank]) = 1 /\ chan[DealerRank][w] = <<>> /\ ~ Served(w)

HeaderDue(w) ==
    /\ chan[w][DealerRank] = <<>> /\ chan[DealerRank][w] = <<>>
    /\ Served(w) /\ dpc \in {"sendHeader", "sendEof"}

HeaderSent(w) ==
    /\ chan[w][DealerRank] = <<>>
    /\ Len(chan[DealerRank][w]) = 1
    /\ chan[DealerRank][w][1].tag = "HEADER"
    /\ ~ chan[DealerRank][w][1].body.end
    /\ Served(w) /\ dpc = "sendData"

BothSent(w) ==
    /\ chan[w][DealerRank] = <<>>
    /\ Len(chan[DealerRank][w]) = 2
    /\ chan[DealerRank][w][1].tag = "HEADER"
    /\ ~ chan[DealerRank][w][1].body.end
    /\ chan[DealerRank][w][2].tag = "DATA"
    /\ ~ Served(w)

EndSent(w) ==
    /\ chan[w][DealerRank] = <<>>
    /\ Len(chan[DealerRank][w]) = 1
    /\ chan[DealerRank][w][1].tag = "HEADER"
    /\ chan[DealerRank][w][1].body.end
    /\ ~ Served(w)

DataDue(w) ==
    /\ chan[w][DealerRank] = <<>> /\ chan[DealerRank][w] = <<>>
    /\ Served(w) /\ dpc = "sendData"

DataSent(w) ==
    /\ chan[w][DealerRank] = <<>>
    /\ Len(chan[DealerRank][w]) = 1
    /\ chan[DealerRank][w][1].tag = "DATA"
    /\ ~ Served(w)

Protocol(w) ==
    /\ wpc[w] = "header" =>
          Asked(w) \/ HeaderDue(w) \/ HeaderSent(w) \/ BothSent(w) \/ EndSent(w)
    /\ wpc[w] = "data" => DataDue(w) \/ DataSent(w)
    /\ wpc[w] \notin {"header", "data"} => Silent(w)

Ordered(w) ==
    /\ Got(w) <= PushedTo(w)
    /\ IF Got(w) < 4 THEN DefinitionsDue(w) ELSE Protocol(w)

OrderInv == ParamInv /\ \A w \in Workers : Ordered(w)
-----------------------------------------------------------------------------
(***************************************************************************)
(* The messages.                                                           *)
(***************************************************************************)
LEMMA KindFacts ==
    /\ \A w \in Workers : /\ Kinds[DealerRank][w] = ToWorker
                          /\ Kinds[w][DealerRank] = Message("REQUEST", {w})
                          /\ Kinds[w][FarmerRank] = EventMessages
                          /\ Kinds[w][OutputRank] = {}
    /\ Kinds[FarmerRank][OutputRank] = EventMessages
    /\ Kinds[DealerRank][OutputRank] = PassedOn
BY RankFacts DEF Kinds

LEMMA NoMessages == \A s : s \in Seq({}) <=> s = <<>>
<1>1. ASSUME NEW s \in Seq({}) PROVE s = <<>>
  <2>1. Len(s) \in Nat /\ (Len(s) > 0 => s[1] \in {})
    OBVIOUS
  <2>2. Len(s) = 0
    BY <2>1
  <2> QED
    BY <2>2
<1>2. <<>> \in Seq({})
  OBVIOUS
<1> QED
  BY <1>1, <1>2

LEMMA TypedIsMessagesOK == TypedBy(Kinds) => MessagesOK /\ Channels
<1> SUFFICES ASSUME TypedBy(Kinds) PROVE MessagesOK
  BY DEF TypedBy
<1>1. ASSUME NEW w \in Workers
      PROVE  /\ chan[DealerRank][w] \in Seq(ToWorker)
             /\ chan[w][DealerRank] \in Seq(Message("REQUEST", {w}))
             /\ chan[w][FarmerRank] \in Seq(EventMessages)
             /\ chan[w][OutputRank] \in Seq({})
  BY RankFacts, KindFacts DEF TypedBy
<1>2. \A w \in Workers : chan[w][OutputRank] = <<>>
  BY <1>1, NoMessages
<1>3. chan[FarmerRank][OutputRank] \in Seq(EventMessages)
  BY RankFacts, KindFacts DEF TypedBy
<1>4. ASSUME NEW r \in Sources \ {FarmerRank} PROVE chan[r][OutputRank] \in Seq(PassedOn)
  <2>1. CASE r = DealerRank
    BY <2>1, RankFacts, KindFacts DEF TypedBy
  <2>2. CASE r \in Workers
    <3>1. chan[r][OutputRank] = <<>> /\ <<>> \in Seq(PassedOn)
      BY <1>2, <2>2
    <3> QED
      BY <3>1
  <2> QED
    BY <2>1, <2>2, RankFacts
<1> QED
  BY <1>1, <1>2, <1>3, <1>4 DEF MessagesOK, StreamsOK

LEMMA ParamParts ==
    ASSUME ParamInv
    PROVE  /\ Channels /\ MessagesOK /\ TypedBy(Kinds) /\ FarmerOK /\ Delivery
           /\ DealerTypeOK /\ WorkersTypeOK /\ DealerOK /\ InPairs
           /\ file \in Seq(ItemKinds) /\ Len(file) \in Nat /\ first \in Nat /\ len \in Nat
<1>1. Channels /\ MessagesOK /\ TypedBy(Kinds)
  BY TypedIsMessagesOK DEF ParamInv
<1>2. FarmerOK /\ Delivery
  BY <1>1 DEF ParamInv, MessagesOK, FarmerOK, EndsTypeOK
<1>3. DealerTypeOK /\ WorkersTypeOK /\ DealerOK /\ InPairs
  BY DEF ParamInv
<1>4. file \in Seq(ItemKinds)
  BY <1>3, ParamAssumption DEF DealerTypeOK
<1>5. Len(file) \in Nat /\ first \in Nat /\ len \in Nat
  BY <1>3, <1>4 DEF DealerTypeOK
<1> QED
  BY <1>1, <1>2, <1>3, <1>4, <1>5

\* The invariant of the farmer and the outputter is kept by everyone else.
LEMMA QuietInv ==
    ASSUME ParamInv, UNCHANGED farmerVars, UNCHANGED outputVars, TypedBy(Kinds)',
           chan'[FarmerRank][OutputRank] = chan[FarmerRank][OutputRank]
    PROVE  FarmerOK' /\ Delivery'
<1>1. MessagesOK' /\ Channels'
  BY TypedIsMessagesOK, PTL
<1>2. StreamsOK'
  BY <1>1 DEF MessagesOK
<1> QED
  BY <1>1, <1>2, ParamParts, OthersDeliver

\* The streams of the workers to the farmer are kept by the dealer and the outputter.
LEMMA WorkersKept ==
    ASSUME ParamInv, UNCHANGED workerVars, UNCHANGED <<fpc, fheader, m_nEndsLeft>>,
           \A w \in Workers : chan'[w][FarmerRank] = chan[w][FarmerRank]
    PROVE  /\ WorkersTypeOK' /\ InPairs' /\ EndsLeftOK'
           /\ \A w \in Workers : WorkerOK(w)'
<1>1. InPairs' /\ \A w \in Workers : \A k \in Nat : Before(w, k)' = Before(w, k)
  BY StreamsKept DEF ParamInv
<1>2. WorkersTypeOK' /\ UNCHANGED <<wpc, wtrigger, wevent>>
  BY DEF ParamInv, WorkersTypeOK, workerVars
<1>3. ASSUME NEW w \in Workers PROVE WorkerOK(w)' /\ (Ended(w)' <=> Ended(w))
  <2>1. LastSent(w)' = LastSent(w)
    BY <1>1, ParamParts, LastKept DEF MessagesOK, StreamsOK
  <2> QED
    BY <1>2, <2>1 DEF ParamInv, WorkerOK, Ended
<1>4. EndsLeftOK'
  BY <1>3 DEF ParamInv, EndsLeftOK
<1> QED
  BY <1>1, <1>2, <1>3, <1>4
-----------------------------------------------------------------------------
(***************************************************************************)
(* What the dealer reads of the file and what it pushes.                   *)
(***************************************************************************)
\* z is x, then y.
Join(S, x, y, z) ==
    /\ z \in Seq(S) /\ Len(z) = Len(x) + Len(y)
    /\ \A k \in 1 .. Len(x) : z[k] = x[k]
    /\ \A k \in 1 .. Len(y) : z[Len(x) + k] = y[k]

LEMMA Joined ==
    ASSUME NEW S, NEW x \in Seq(S), NEW y \in Seq(S)
    PROVE  Join(S, x, y, x \o y)
BY DEF Join

LEMMA PushFacts ==
    /\ Len(Pushes) \in 2 .. 4
    /\ \A k \in 1 .. Len(Pushes) : Pushes[k] \in {"paramCount", "params", "varCount", "vars"}
    /\ "params" \in defined => \A k \in 1 .. Len(Pushes) : Pushes[k] = Expected[k]
<1>1. PICK N : N = {"paramCount", "params", "varCount", "vars"}
  OBVIOUS
<1>2. PICK b \in Seq(N) : /\ b = IF "params" \in defined THEN <<"params">> ELSE <<>>
                          /\ IF "params" \in defined THEN Len(b) = 1 /\ b[1] = "params"
                                                     ELSE Len(b) = 0
  <2>1. <<"params">> \in Seq(N) /\ <<>> \in Seq(N)
    BY <1>1
  <2> QED
    BY <2>1
<1>3. PICK d \in Seq(N) : /\ d = IF "vars" \in defined THEN <<"vars">> ELSE <<>>
                          /\ IF "vars" \in defined THEN Len(d) = 1 /\ d[1] = "vars"
                                                   ELSE Len(d) = 0
  <2>1. <<"vars">> \in Seq(N) /\ <<>> \in Seq(N)
    BY <1>1
  <2> QED
    BY <2>1
<1>4. PICK a \in Seq(N), c \in Seq(N) : /\ a = <<"paramCount">> /\ c = <<"varCount">>
                                        /\ Len(a) = 1 /\ a[1] = "paramCount"
                                        /\ Len(c) = 1 /\ c[1] = "varCount"
  <2>1. <<"paramCount">> \in Seq(N) /\ <<"varCount">> \in Seq(N)
    BY <1>1
  <2> QED
    BY <2>1
<1>5. PICK r : r = Pushes
  OBVIOUS
<1>6. r = a \o b \o c \o d
  BY <1>2, <1>3, <1>4, <1>5 DEF Pushes
<1>7. PICK m \in Nat, n \in Nat : /\ Len(b) = m /\ Len(d) = n /\ m <= 1 /\ n <= 1
                                 /\ ("params" \in defined => m = 1 /\ b[1] = "params")
                                 /\ (n = 1 => d[1] = "vars")
  BY <1>2, <1>3
<1>8. /\ r \in Seq(N) /\ Len(r) = 2 + m + n
      /\ m = 1 => /\ r[1] = a[1] /\ r[2] = b[1] /\ r[3] = c[1]
                  /\ n = 1 => r[4] = d[1]
  <2>1. PICK two : two = a \o b /\ Join(N, a, b, two)
    BY Joined, Zenon
  <2>2. two \in Seq(N)
    BY <2>1 DEF Join
  <2>3. PICK three : three = two \o c /\ Join(N, two, c, three)
    BY <2>2, Joined, Zenon
  <2>4. three \in Seq(N)
    BY <2>3 DEF Join
  <2>5. r = three \o d /\ Join(N, three, d, r)
    BY <1>6, <2>1, <2>3, <2>4, Joined, Zenon
  <2>6. Len(two) = 1 + m /\ two[1] = a[1] /\ (m = 1 => two[2] = b[1])
    BY <1>4, <1>7, <2>1 DEF Join
  <2>7. /\ Len(three) = 2 + m
        /\ m = 1 => three[1] = a[1] /\ three[2] = b[1] /\ three[3] = c[1]
    BY <1>4, <2>3, <2>6 DEF Join
  <2>8. r \in Seq(N) /\ Len(r) = 2 + m + n
    BY <1>7, <2>5, <2>7 DEF Join
  <2>9. ASSUME m = 1 PROVE r[1] = a[1] /\ r[2] = b[1] /\ r[3] = c[1]
    <3>1. \A k \in 1 .. 3 : r[k] = three[k]
      BY <2>5, <2>7, <2>9 DEF Join
    <3>2. r[1] = three[1] /\ r[2] = three[2] /\ r[3] = three[3]
      BY <3>1
    <3> QED
      BY <2>7, <2>9, <3>2
  <2>10. ASSUME m = 1, n = 1 PROVE r[4] = d[1]
    BY <1>7, <2>5, <2>7, <2>10 DEF Join
  <2> QED
    BY <2>8, <2>9, <2>10
<1>9. Len(r) \in 2 .. 4 /\ \A k \in 1 .. Len(r) : r[k] \in N
  <2>1. Len(r) \in 2 .. 4
    BY <1>7, <1>8
  <2> QED
    BY <1>8, <2>1
<1>10. ASSUME "params" \in defined PROVE \A k \in 1 .. Len(r) : r[k] = Expected[k]
  <2>1. r[1] = "paramCount" /\ r[2] = "params" /\ r[3] = "varCount" /\ Len(r) = 3 + n
    BY <1>4, <1>7, <1>8, <1>10
  <2>2. n = 1 => r[4] = "vars"
    BY <1>7, <1>8, <1>10
  <2>3. n = 0 \/ n = 1
    BY <1>7
  <2>4. Len(r) = 3 \/ (Len(r) = 4 /\ n = 1)
    BY <2>1, <2>3
  <2> QED
    BY <2>1, <2>2, <2>4 DEF Expected
<1> QED
  BY <1>1, <1>5, <1>9, <1>10

LEMMA WholeBound ==
    ASSUME file \in Seq(ItemKinds), NEW n \in 0 .. Len(file)
    PROVE  WholeFrom(n) \in 0 .. Len(file) - n
<1> DEFINE W == {i \in n + 1 .. Len(file) : \A j \in n + 1 .. i : file[j] # "torn"}
<1>1. n \in Nat /\ Len(file) \in Nat /\ n <= Len(file)
  OBVIOUS
<1>2. IsFiniteSet(n + 1 .. Len(file)) /\ Cardinality(n + 1 .. Len(file)) = Len(file) - n
  <2>1. PICK a \in Int, b \in Int : a = n + 1 /\ b = Len(file)
    BY <1>1
  <2>2. IsFiniteSet(a .. b) /\ Cardinality(a .. b) = IF a > b THEN 0 ELSE b - a + 1
    BY FS_Interval
  <2> QED
    BY <1>1, <2>1, <2>2
<1>3. W \in SUBSET (n + 1 .. Len(file))
  OBVIOUS
<1>4. IsFiniteSet(W) /\ Cardinality(W) <= Len(file) - n
  BY <1>2, <1>3, FS_Subset
<1>5. Cardinality(W) \in Nat
  BY <1>4, FS_CardinalityType
<1> QED
  BY <1>1, <1>4, <1>5 DEF WholeFrom

LEMMA BlockBound ==
    ASSUME file \in Seq(ItemKinds), NEW n \in 0 .. Len(file), NEW k \in BlockLens(n)
    PROVE  k \in 0 .. Len(file) - n
<1>1. PICK cap \in BlockCaps : k = IF WholeFrom(n) <= cap THEN WholeFrom(n) ELSE cap
  BY DEF BlockLens
<1>2. cap \in Nat
  BY ParamAssumption
<1>3. WholeFrom(n) \in 0 .. Len(file) - n
  BY WholeBound
<1> QED
  BY <1>1, <1>2, <1>3

\* The trigger numbers that are stored in the file.
LEMMA StoredTrigger ==
    ASSUME file \in Files, NEW i \in 1 .. Len(file), file[i] = "data"
    PROVE  TriggerOf(i) \in Triggers
<1> DEFINE B == {j \in 1 .. i - 1 : file[j] = "data"}
           D == {j \in DOMAIN file : file[j] = "data"}
<1>1. file \in Seq(ItemKinds) /\ Cardinality(D) <= MaxTrigger + 1
  BY ParamAssumption
<1>2. IsFiniteSet(1 .. Len(file)) /\ D \in SUBSET (1 .. Len(file))
  <2>1. 1 \in Int /\ Len(file) \in Int /\ D \in SUBSET (1 .. Len(file))
    BY <1>1
  <2> QED
    BY <2>1, FS_Interval
<1>3. IsFiniteSet(D)
  BY <1>2, FS_Subset
<1>4. B \in SUBSET D /\ i \in D /\ i \notin B
  BY <1>1
<1>5. IsFiniteSet(B) /\ Cardinality(B) <= Cardinality(D) /\ Cardinality(B) # Cardinality(D)
  BY <1>3, <1>4, FS_Subset
<1>6. Cardinality(B) \in Nat /\ Cardinality(D) \in Nat
  BY <1>3, <1>5, FS_CardinalityType
<1>7. Cardinality(B) <= MaxTrigger
  BY <1>1, <1>5, <1>6, MaxTriggerAssumption
<1> QED
  BY <1>6, <1>7, MaxTriggerAssumption DEF TriggerOf, Triggers
-----------------------------------------------------------------------------
(***************************************************************************)
(* The steps of the dealer.                                                *)
(***************************************************************************)
LEMMA DealerFrame ==
    ASSUME ParamInv, UNCHANGED <<workerVars, farmerVars, outputVars>>, TypedBy(Kinds)',
           \A w \in Workers : chan'[w][FarmerRank] = chan[w][FarmerRank],
           chan'[FarmerRank][OutputRank] = chan[FarmerRank][OutputRank],
           DealerTypeOK', DealerOK'
    PROVE  ParamInv'
<1>1. FarmerOK' /\ Delivery'
  BY QuietInv
<1>2. /\ WorkersTypeOK' /\ InPairs' /\ EndsLeftOK'
      /\ \A w \in Workers : WorkerOK(w)'
  <2>1. UNCHANGED <<fpc, fheader, m_nEndsLeft>>
    BY DEF farmerVars
  <2> QED
    BY <2>1, WorkersKept
<1> QED
  BY <1>1, <1>2 DEF ParamInv, FarmerOK, EndsTypeOK

\* The dealer's own steps, in which no message moves.
LEMMA DealerAlone ==
    ASSUME ParamInv, UNCHANGED <<workerVars, farmerVars, outputVars>>, chan' = chan,
           DealerTypeOK', DealerOK'
    PROVE  ParamInv'
<1>1. TypedBy(Kinds)'
  BY DEF ParamInv, TypedBy, Channels
<1> QED
  BY <1>1, DealerFrame

\* What it sends a worker or the outputter.
LEMMA DealerSends ==
    ASSUME ParamInv, UNCHANGED <<workerVars, farmerVars, outputVars>>,
           NEW to \in Workers \union {OutputRank}, NEW tag, NEW body,
           Send(DealerRank, to, tag, body), Message(tag, {body}) \subseteq Kinds[DealerRank][to],
           DealerTypeOK', DealerOK'
    PROVE  ParamInv'
<1>1. to \in Ranks /\ DealerRank \in Ranks
  BY RankFacts
<1>2. TypedBy(Kinds)' /\ OthersKept(DealerRank, to)
  BY <1>1, ParamParts, TypedSent
<1>3. /\ \A w \in Workers : chan'[w][FarmerRank] = chan[w][FarmerRank]
      /\ chan'[FarmerRank][OutputRank] = chan[FarmerRank][OutputRank]
  BY <1>2, RankFacts DEF OthersKept
<1> QED
  BY <1>2, <1>3, DealerFrame

LEMMA DealerReadInv ==
    ASSUME ParamInv, DealerRead, UNCHANGED <<workerVars, farmerVars, outputVars>>
    PROVE  ParamInv'
<1>1. PICK n \in BlockLens(0) :
         /\ len' = n
         /\ nItems' = IF n < 2 THEN 0 ELSE n - 2
         /\ dpc' = IF file = <<>> THEN "eofRequest"
                   ELSE IF n >= 2 /\ file[1] = "defs" THEN "push" ELSE "finalize"
  BY DEF DealerRead
<1>2. /\ dpc = "read" /\ chan' = chan
      /\ UNCHANGED <<file, defined, first, cur, item, pushed, dest, eofsLeft>>
  BY DEF DealerRead
<1>3. n \in 0 .. Len(file)
  <2>1. 0 \in 0 .. Len(file)
    BY ParamParts
  <2>2. n \in 0 .. Len(file) - 0
    BY <2>1, ParamParts, BlockBound
  <2> QED
    BY <2>2, ParamParts
<1>4. first = 0 /\ pushed = 0 /\ dest = 3 /\ eofsLeft > 0 /\ cur > 0
  BY <1>2, ParamParts DEF DealerOK
<1>5. Pushes' = Pushes /\ pushed' < Len(Pushes)
  BY <1>2, <1>4, PushFacts DEF Pushes
<1>6. nItems' \in 0 .. len' /\ len' \in 0 .. Len(file) - first
  BY <1>1, <1>3, <1>4, ParamParts
<1>7. dpc' \in {"eofRequest", "push", "finalize"}
  BY <1>1
<1>8. DealerTypeOK'
  BY <1>2, <1>5, <1>6, <1>7, ParamParts DEF DealerTypeOK
<1>9. DealerOK'
  BY <1>2, <1>4, <1>5, <1>7 DEF DealerOK, AtItem
<1> QED
  BY <1>2, <1>8, <1>9, DealerAlone

LEMMA DealerThrowInv ==
    ASSUME ParamInv, DealerThrow, UNCHANGED <<workerVars, farmerVars, outputVars>>
    PROVE  ParamInv'
<1>1. /\ dpc' = "finalize" /\ chan' = chan
      /\ UNCHANGED <<file, defined, first, len, cur, nItems, item, pushed, dest, eofsLeft>>
  BY DEF DealerThrow
<1>2. DealerTypeOK'
  BY <1>1, ParamParts DEF DealerTypeOK, Pushes
<1>3. DealerOK'
  BY <1>1, ParamParts DEF DealerOK, AtItem
<1> QED
  BY <1>1, <1>2, <1>3, DealerAlone

LEMMA PushIsToWorker ==
    ASSUME NEW p \in {"paramCount", "params", "varCount", "vars"}
    PROVE  Message(TagOf(p), {p}) \subseteq ToWorker
BY DEF Message, TagOf, ToWorker

\* How far the dealer is with its pushes after the next one.
LEMMA PushMoves ==
    ASSUME ParamInv, DealerPush
    PROVE  /\ dest \in Workers /\ pushed + 1 \in 1 .. Len(Pushes) /\ pushed \in Nat
           /\ Pushes' = Pushes
           /\ \/ /\ dest < Size - 1 /\ dest' = dest + 1 /\ dpc' = "push" /\ pushed' = pushed
              \/ /\ dest = Size - 1 /\ dest' = 3 /\ pushed' = pushed + 1
                 /\ dpc' \in {"push", "take", "eofRequest", "finalize"}
                 /\ dpc' = "push" => pushed' < Len(Pushes)
                 /\ dpc' = "take" => nItems > 0
<1>1. /\ dest \in Workers /\ pushed < Len(Pushes) /\ pushed \in 0 .. Len(Pushes)
      /\ nItems \in Nat
  BY ParamParts DEF DealerPush, DealerOK, DealerTypeOK
<1>2. PICK n \in Nat : n = Len(Pushes)
  BY PushFacts
<1>3. pushed + 1 \in 1 .. Len(Pushes) /\ pushed \in Nat
  BY <1>1, <1>2
<1>4. Pushes' = Pushes
  BY DEF DealerPush, Pushes
<1>5. CASE dest < Size - 1
  BY <1>1, <1>3, <1>4, <1>5 DEF DealerPush
<1>6. CASE ~ (dest < Size - 1)
  <2>1. dest = Size - 1
    BY <1>1, <1>6, MPIAssumption DEF Workers
  <2>2. /\ dest' = 3 /\ pushed' = pushed + 1
        /\ dpc' = IF pushed' = Len(Pushes)
                  THEN IF nItems = 0 THEN "eofRequest" ELSE "take"
                  ELSE IF Pushes[pushed' + 1] = "varCount" /\ file[2] # "vars"
                       THEN "finalize" ELSE "push"
    BY <1>6 DEF DealerPush
  <2>3. dpc' = "push" => pushed' < Len(Pushes)
    <3>1. pushed' <= n /\ (dpc' = "push" => pushed' # n)
      BY <1>2, <1>3, <2>2
    <3> QED
      BY <1>2, <1>3, <2>2, <3>1
  <2>4. dpc' \in {"push", "take", "eofRequest", "finalize"}
    BY <2>2
  <2>5. dpc' = "take" => nItems > 0
    BY <1>1, <2>2
  <2> QED
    BY <1>1, <1>3, <1>4, <2>1, <2>2, <2>3, <2>4, <2>5
<1> QED
  BY <1>5, <1>6

LEMMA DealerPushInv ==
    ASSUME ParamInv, DealerPush, UNCHANGED <<workerVars, farmerVars, outputVars>>
    PROVE  ParamInv'
<1>1. /\ dpc = "push" /\ UNCHANGED <<file, defined, first, len, cur, nItems, item, eofsLeft>>
      /\ Send(DealerRank, dest, TagOf(Pushes[pushed + 1]), Pushes[pushed + 1])
  BY DEF DealerPush
<1>2. /\ dest \in Workers /\ pushed + 1 \in 1 .. Len(Pushes) /\ pushed \in Nat
      /\ Pushes' = Pushes
      /\ \/ /\ dest < Size - 1 /\ dest' = dest + 1 /\ dpc' = "push" /\ pushed' = pushed
         \/ /\ dest = Size - 1 /\ dest' = 3 /\ pushed' = pushed + 1
            /\ dpc' \in {"push", "take", "eofRequest", "finalize"}
            /\ dpc' = "push" => pushed' < Len(Pushes)
            /\ dpc' = "take" => nItems > 0
  BY PushMoves
<1>3. Message(TagOf(Pushes[pushed + 1]), {Pushes[pushed + 1]}) \subseteq Kinds[DealerRank][dest]
  BY <1>2, PushFacts, PushIsToWorker, KindFacts
<1>4. dest' \in Workers
  BY <1>2, MPIAssumption DEF Workers
<1>5. pushed' \in 0 .. Len(Pushes) /\ (dpc' = "push" => pushed' < Len(Pushes))
  BY <1>2, PushFacts
<1>6. DealerTypeOK'
  BY <1>1, <1>2, <1>4, <1>5, ParamParts DEF DealerTypeOK
<1>7. DealerOK'
  BY <1>1, <1>2, <1>5, ParamParts DEF DealerOK, AtItem
<1> QED
  BY <1>1, <1>2, <1>3, <1>6, <1>7, DealerSends

\* What the dealer takes from the file is an item of it.
LEMMA DealerTakeInv ==
    ASSUME ParamInv, DealerTake, UNCHANGED <<workerVars, farmerVars, outputVars>>
    PROVE  ParamInv'
<1>1. /\ dpc = "take" /\ chan' = chan /\ item' \in ItemsAt(cur)
      /\ dpc' = IF file[item'] = "data" THEN "request" ELSE "passHeader"
      /\ UNCHANGED <<file, defined, first, len, cur, nItems, pushed, dest, eofsLeft>>
  BY DEF DealerTake
<1>2. item' \in 1 .. Len(file)
  <2>1. /\ first \in Nat /\ len \in 0 .. Len(file) - first /\ cur \in Nat /\ cur > 0
        /\ Len(file) \in Nat
    BY ParamParts DEF DealerTypeOK, DealerOK
  <2> QED
    BY <1>1, <2>1 DEF ItemsAt
<1>3. DealerTypeOK'
  BY <1>1, <1>2, ParamParts DEF DealerTypeOK, Pushes
<1>4. DealerOK'
  BY <1>1, <1>2, ParamParts DEF DealerOK, AtItem
<1> QED
  BY <1>1, <1>3, <1>4, DealerAlone

LEMMA NextItemOK ==
    ASSUME ParamInv, AtItem, NextItem,
           UNCHANGED <<file, defined, item, pushed, dest, eofsLeft>>
    PROVE  DealerTypeOK' /\ DealerOK' /\ dpc' \in {"take", "eofRequest", "finalize"}
<1>1. /\ first \in Nat /\ len \in 0 .. Len(file) - first /\ cur \in Nat /\ cur > 0
      /\ nItems \in 0 .. len /\ eofsLeft > 0 /\ Len(file) \in Nat
  BY ParamParts DEF DealerTypeOK, DealerOK, AtItem
<1>2. Pushes' = Pushes
  BY DEF Pushes
<1>3. CASE /\ nItems > 1 /\ nItems' = nItems - 1 /\ cur' = cur + 1 /\ dpc' = "take"
           /\ UNCHANGED <<first, len>>
  <2>1. nItems' \in 0 .. len /\ nItems' > 0 /\ cur' \in Nat /\ cur' > 0
    BY <1>1, <1>3
  <2>2. DealerTypeOK'
    BY <1>2, <1>3, <2>1, ParamParts DEF DealerTypeOK
  <2> QED
    BY <1>1, <1>3, <2>1, <2>2 DEF DealerOK, AtItem
<1>4. CASE /\ nItems = 1 /\ first' = first + len /\ cur' = cur
           /\ \E n \in BlockLens(first') :
                 /\ len' = n /\ nItems' = n
                 /\ dpc' = IF n > 0 THEN "take" ELSE "eofRequest"
  <2>1. PICK f \in 0 .. Len(file) : f = first'
    BY <1>1, <1>4
  <2>2. PICK n \in BlockLens(f) : /\ len' = n /\ nItems' = n
                                  /\ dpc' = IF n > 0 THEN "take" ELSE "eofRequest"
    BY <1>4, <2>1
  <2>3. n \in 0 .. Len(file) - f
    BY ParamParts, BlockBound
  <2>4. DealerTypeOK'
    BY <1>2, <1>4, <2>1, <2>2, <2>3, ParamParts DEF DealerTypeOK
  <2>5. DealerOK'
    BY <1>1, <1>4, <2>1, <2>2, <2>3 DEF DealerOK, AtItem
  <2> QED
    BY <2>2, <2>4, <2>5
<1>5. CASE dpc' = "finalize" /\ UNCHANGED <<first, len, cur, nItems>>
  <2>1. DealerTypeOK'
    BY <1>2, <1>5, ParamParts DEF DealerTypeOK
  <2> QED
    BY <1>1, <1>5, <2>1 DEF DealerOK, AtItem
<1> QED
  BY <1>3, <1>4, <1>5 DEF NextItem

\* A request is taken.
LEMMA DealerTakes ==
    ASSUME ParamInv, NEW w \in Workers, Arrived(w, DealerRank, {"REQUEST"}),
           chan' = Received(w, DealerRank)
    PROVE  /\ TypedBy(Kinds)' /\ Shorter(w, DealerRank) /\ OthersKept(w, DealerRank)
           /\ FirstBody(w, DealerRank) = w
<1>1. w \in Ranks /\ DealerRank \in Ranks
  BY RankFacts
<1>2. Takes(w, DealerRank)
  BY <1>1, ParamParts, ReceiveEffect
<1>3. /\ TypedBy(Kinds)' /\ Shorter(w, DealerRank) /\ OthersKept(w, DealerRank)
      /\ chan[w][DealerRank][1] \in Kinds[w][DealerRank]
  BY <1>1, <1>2, ParamParts, TypedTaken
<1>4. chan[w][DealerRank][1] \in Message("REQUEST", {w})
  BY <1>3, KindFacts
<1>5. chan[w][DealerRank][1].body = w
  BY <1>4 DEF Message
<1> QED
  BY <1>3, <1>5 DEF FirstBody, Shorter

LEMMA DealerGetRequestInv ==
    ASSUME ParamInv, DealerGetRequest, UNCHANGED <<workerVars, farmerVars, outputVars>>
    PROVE  ParamInv'
<1>1. PICK w \in Workers : /\ Arrived(w, DealerRank, {"REQUEST"})
                           /\ dest' = FirstBody(w, DealerRank)
                           /\ chan' = Received(w, DealerRank)
  BY DEF DealerGetRequest
<1>2. /\ dpc \in {"request", "eofRequest"}
      /\ dpc' = IF dpc = "request" THEN "sendHeader" ELSE "sendEof"
      /\ UNCHANGED <<file, defined, first, len, cur, nItems, item, pushed, eofsLeft>>
  BY DEF DealerGetRequest
<1>3. TypedBy(Kinds)' /\ OthersKept(w, DealerRank) /\ dest' = w
  BY <1>1, DealerTakes
<1>4. /\ \A v \in Workers : chan'[v][FarmerRank] = chan[v][FarmerRank]
      /\ chan'[FarmerRank][OutputRank] = chan[FarmerRank][OutputRank]
  BY <1>3, RankFacts DEF OthersKept
<1>5. DealerTypeOK'
  BY <1>2, <1>3, ParamParts DEF DealerTypeOK, Pushes
<1>6. DealerOK'
  BY <1>2, ParamParts DEF DealerOK, AtItem
<1> QED
  BY <1>3, <1>4, <1>5, <1>6, DealerFrame

\* The item being dealt is an item of the file.
LEMMA DealtItem ==
    ASSUME ParamInv, AtItem
    PROVE  item \in 1 .. Len(file) /\ item \in Events
<1>1. item \in 1 .. Len(file)
  BY ParamParts DEF DealerTypeOK, DealerOK
<1>2. 1 .. Len(file) \subseteq Events
  BY ParamParts, ParamAssumption DEF DealerTypeOK
<1> QED
  BY <1>1, <1>2

LEMMA DealerSendHeaderInv ==
    ASSUME ParamInv, DealerSendHeader, UNCHANGED <<workerVars, farmerVars, outputVars>>
    PROVE  ParamInv'
<1>1. PICK header : header = [end |-> FALSE, trigger |-> TriggerOf(item)]
  OBVIOUS
<1>2. /\ dpc = "sendHeader" /\ dpc' = "sendData"
      /\ Send(DealerRank, dest, "HEADER", header)
      /\ UNCHANGED <<file, defined, first, len, cur, nItems, item, pushed, dest, eofsLeft>>
  BY <1>1 DEF DealerSendHeader
<1>3. header \in [end : BOOLEAN, trigger : Triggers]
  <2>1. item \in 1 .. Len(file) /\ file[item] = "data" /\ file \in Files
    BY <1>2, ParamParts, DealtItem DEF AtItem, DealerOK, DealerTypeOK
  <2>2. TriggerOf(item) \in Triggers
    BY <2>1, StoredTrigger
  <2> QED
    BY <1>1, <2>2
<1>4. dest \in Workers /\ Message("HEADER", {header}) \subseteq Kinds[DealerRank][dest]
  <2>1. dest \in Workers
    BY ParamParts DEF DealerTypeOK
  <2>2. Message("HEADER", {header}) \subseteq ToWorker
    BY <1>3 DEF Message, ToWorker
  <2> QED
    BY <2>1, <2>2, KindFacts
<1>5. DealerTypeOK'
  BY <1>2, ParamParts DEF DealerTypeOK, Pushes
<1>6. DealerOK'
  BY <1>2, ParamParts DEF DealerOK, AtItem
<1> QED
  BY <1>2, <1>4, <1>5, <1>6, DealerSends

LEMMA DealerSendDataInv ==
    ASSUME ParamInv, DealerSendData, UNCHANGED <<workerVars, farmerVars, outputVars>>
    PROVE  ParamInv'
<1>1. /\ dpc = "sendData" /\ Send(DealerRank, dest, "DATA", item) /\ NextItem
      /\ UNCHANGED <<file, defined, item, pushed, dest, eofsLeft>>
  BY DEF DealerSendData
<1>2. DealerTypeOK' /\ DealerOK'
  BY <1>1, NextItemOK DEF AtItem
<1>3. dest \in Workers /\ Message("DATA", {item}) \subseteq Kinds[DealerRank][dest]
  <2>1. dest \in Workers /\ item \in Events
    BY <1>1, ParamParts, DealtItem DEF DealerTypeOK, AtItem
  <2>2. Message("DATA", {item}) \subseteq ToWorker
    BY <2>1 DEF Message, ToWorker
  <2> QED
    BY <2>1, <2>2, KindFacts
<1> QED
  BY <1>1, <1>2, <1>3, DealerSends

LEMMA DealerPassHeaderInv ==
    ASSUME ParamInv, DealerPassHeader, UNCHANGED <<workerVars, farmerVars, outputVars>>
    PROVE  ParamInv'
<1>1. /\ dpc = "passHeader" /\ dpc' = "passData"
      /\ Send(DealerRank, OutputRank, "PASSTHROUGH", 0)
      /\ UNCHANGED <<file, defined, first, len, cur, nItems, item, pushed, dest, eofsLeft>>
  BY DEF DealerPassHeader
<1>2. DealerTypeOK'
  BY <1>1, ParamParts DEF DealerTypeOK, Pushes
<1>3. DealerOK'
  BY <1>1, ParamParts DEF DealerOK, AtItem
<1>4. Message("PASSTHROUGH", {0}) \subseteq Kinds[DealerRank][OutputRank]
  BY KindFacts DEF PassedOn
<1> QED
  BY <1>1, <1>2, <1>3, <1>4, DealerSends

LEMMA DealerPassDataInv ==
    ASSUME ParamInv, DealerPassData, UNCHANGED <<workerVars, farmerVars, outputVars>>
    PROVE  ParamInv'
<1>1. /\ dpc = "passData" /\ Send(DealerRank, OutputRank, "DATA", item) /\ NextItem
      /\ UNCHANGED <<file, defined, item, pushed, dest, eofsLeft>>
  BY DEF DealerPassData
<1>2. DealerTypeOK' /\ DealerOK'
  BY <1>1, NextItemOK DEF AtItem
<1>3. Message("DATA", {item}) \subseteq Kinds[DealerRank][OutputRank]
  <2>1. item \in Events
    BY <1>1, DealtItem DEF AtItem
  <2>2. Message("DATA", {item}) \subseteq PassedOn
    BY <2>1 DEF Message, PassedOn
  <2> QED
    BY <2>2, KindFacts
<1> QED
  BY <1>1, <1>2, <1>3, DealerSends

LEMMA DealerSendEofInv ==
    ASSUME ParamInv, DealerSendEof, UNCHANGED <<workerVars, farmerVars, outputVars>>
    PROVE  ParamInv'
<1>1. PICK header : header = [end |-> TRUE, trigger |-> 0]
  OBVIOUS
<1>2. /\ dpc = "sendEof" /\ Send(DealerRank, dest, "HEADER", header)
      /\ eofsLeft' = eofsLeft - 1
      /\ dpc' = IF eofsLeft' = 0 THEN "finalize" ELSE "eofRequest"
      /\ UNCHANGED <<file, defined, first, len, cur, nItems, item, pushed, dest>>
  BY <1>1 DEF DealerSendEof
<1>3. eofsLeft \in 0 .. Size - 3 /\ eofsLeft > 0 /\ Size \in Nat
  BY <1>2, ParamParts, MPIAssumption DEF DealerTypeOK, DealerOK
<1>4. DealerTypeOK'
  BY <1>2, <1>3, ParamParts DEF DealerTypeOK, Pushes
<1>5. DealerOK'
  BY <1>2, <1>3, ParamParts DEF DealerOK, AtItem
<1>6. dest \in Workers /\ Message("HEADER", {header}) \subseteq Kinds[DealerRank][dest]
  <2>1. dest \in Workers /\ 0 \in Triggers
    BY ParamParts, MaxTriggerAssumption DEF DealerTypeOK, Triggers
  <2>2. header \in [end : BOOLEAN, trigger : Triggers]
    BY <1>1, <2>1
  <2>3. Message("HEADER", {header}) \subseteq ToWorker
    BY <2>2 DEF Message, ToWorker
  <2> QED
    BY <2>1, <2>3, KindFacts
<1> QED
  BY <1>2, <1>4, <1>5, <1>6, DealerSends

LEMMA DealerInv ==
    ASSUME ParamInv, DealerStep
    PROVE  ParamInv'
<1>1. DealerNext /\ UNCHANGED <<workerVars, farmerVars, outputVars>>
  BY DEF DealerStep
<1> QED
  BY <1>1, DealerReadInv, DealerThrowInv, DealerPushInv, DealerTakeInv, DealerGetRequestInv,
     DealerSendHeaderInv, DealerSendDataInv, DealerPassHeaderInv, DealerPassDataInv,
     DealerSendEofInv
  DEF DealerNext
-----------------------------------------------------------------------------
(***************************************************************************)
(* The steps of worker w.                                                  *)
(***************************************************************************)
OthersWait(w) ==
    \A v \in Workers \ {w} : UNCHANGED <<wpc[v], wtrigger[v], wevent[v]>>

LEMMA WorkerFrame ==
    ASSUME ParamInv, NEW w \in Workers, UNCHANGED <<dealerVars, farmerVars, outputVars>>,
           OthersWait(w), TypedBy(Kinds)', WorkersTypeOK', InPairs', WorkerOK(w)',
           \A v \in Workers \ {w} : chan'[v][FarmerRank] = chan[v][FarmerRank],
           chan'[FarmerRank][OutputRank] = chan[FarmerRank][OutputRank],
           Ended(w)' <=> Ended(w)
    PROVE  ParamInv'
<1>1. FarmerOK' /\ Delivery'
  BY QuietInv
<1>2. UNCHANGED <<fpc, fheader, m_nEndsLeft>>
  BY DEF farmerVars
<1>3. ASSUME NEW v \in Workers \ {w} PROVE WorkerOK(v)' /\ (Ended(v)' <=> Ended(v))
  <2>1. LastSent(v)' = LastSent(v)
    <3>1. \A k \in Nat \ {0} : Before(v, k)' = Before(v, k)
      BY <1>2 DEF Before
    <3> QED
      BY <3>1, ParamParts, LastKept DEF MessagesOK, StreamsOK
  <2>2. UNCHANGED <<wpc[v], wtrigger[v], wevent[v]>>
    BY DEF OthersWait
  <2> QED
    BY <2>1, <2>2 DEF ParamInv, WorkerOK, Ended
<1>4. EndsLeftOK'
  <2>1. {v \in Workers : ~ Ended(v)}' = {v \in Workers : ~ Ended(v)}
    BY <1>3
  <2> QED
    BY <1>2, <2>1 DEF ParamInv, EndsLeftOK
<1>5. \A v \in Workers : WorkerOK(v)'
  BY <1>3
<1>6. DealerTypeOK' /\ DealerOK'
  BY ParamParts DEF dealerVars, DealerTypeOK, Pushes, DealerOK, AtItem
<1> QED
  BY <1>1, <1>4, <1>5, <1>6 DEF ParamInv, FarmerOK, EndsTypeOK

\* A step in which the worker sends the farmer nothing.
LEMMA WorkerQuiet ==
    ASSUME ParamInv, NEW w \in Workers, UNCHANGED <<dealerVars, farmerVars, outputVars>>,
           OthersWait(w), TypedBy(Kinds)', WorkersTypeOK',
           \A v \in Workers : chan'[v][FarmerRank] = chan[v][FarmerRank],
           chan'[FarmerRank][OutputRank] = chan[FarmerRank][OutputRank],
           wpc[w] \notin {"sendData", "finalize"}, wpc'[w] \notin {"sendData", "finalize"},
           wpc'[w] = "sendHeader" => wevent'[w] \in Events
    PROVE  ParamInv'
<1>1. UNCHANGED <<fpc, fheader>>
  BY DEF farmerVars
<1>2. InPairs' /\ \A k \in Nat : Before(w, k)' = Before(w, k)
  BY <1>1, StreamsKept DEF ParamInv
<1>3. LastSent(w)' = LastSent(w)
  BY <1>2, ParamParts, LastKept DEF MessagesOK, StreamsOK
<1>4. WorkerOK(w)'
  BY <1>3 DEF ParamInv, WorkerOK
<1>5. Ended(w)' <=> Ended(w)
  BY DEF Ended
<1> QED
  BY <1>2, <1>4, <1>5, WorkerFrame

\* A step in which it sends the farmer a message.
LEMMA WorkerSpeaks ==
    ASSUME ParamInv, NEW w \in Workers, UNCHANGED <<dealerVars, farmerVars, outputVars>>,
           NEW tag \in {"HEADER", "DATA", "END"}, NEW body,
           Send(w, FarmerRank, tag, body), Message(tag, {body}) \subseteq EventMessages,
           tag = "DATA" <=> wpc[w] = "sendData", wpc[w] # "finalize",
           NEW next \in {"sendData", "request", "finalize"}, wpc' = [wpc EXCEPT ![w] = next],
           UNCHANGED <<wtrigger, wevent>>,
           next = "sendData" => tag = "HEADER" /\ body = wtrigger[w] /\ wevent[w] \in Events,
           next = "request" => tag = "DATA",
           next = "finalize" => tag = "END"
    PROVE  ParamInv'
<1>1. w \in Ranks /\ FarmerRank \in Ranks /\ UNCHANGED <<fpc, fheader>>
  BY RankFacts DEF farmerVars
<1>2. TypedBy(Kinds)' /\ Longer(w, FarmerRank, tag, body) /\ OthersKept(w, FarmerRank)
  <2>1. Message(tag, {body}) \subseteq Kinds[w][FarmerRank]
    BY KindFacts
  <2> QED
    BY <1>1, <2>1, ParamParts, TypedSent
<1>3. /\ OthersWait(w) /\ wpc'[w] = next /\ wtrigger'[w] = wtrigger[w] /\ wevent'[w] = wevent[w]
      /\ WorkersTypeOK'
  BY ParamParts DEF OthersWait, WorkersTypeOK
<1>4. /\ \A v \in Workers \ {w} : chan'[v][FarmerRank] = chan[v][FarmerRank]
      /\ chan'[FarmerRank][OutputRank] = chan[FarmerRank][OutputRank]
  BY <1>2, RankFacts DEF OthersKept
<1>5. WorkerOK(w)
  BY DEF ParamInv
<1>6. (tag = "DATA" <=> LastSent(w).tag = "HEADER") /\ LastSent(w).tag # "END"
  BY <1>5 DEF WorkerOK
<1>7. /\ InPairs' /\ chan'[w][FarmerRank] # <<>>
      /\ LastSent(w)' = [tag |-> tag, body |-> body]
  BY <1>1, <1>2, <1>6, StreamSent, ParamParts
<1>8. WorkerOK(w)'
  <2>1. LastSent(w)'.tag = tag /\ LastSent(w)'.body = body
    BY <1>7
  <2>2. tag = "HEADER" <=> next = "sendData"
    OBVIOUS
  <2> QED
    BY <1>3, <2>1, <2>2 DEF WorkerOK
<1>9. Ended(w)' <=> Ended(w)
  BY <1>7 DEF Ended
<1> QED
  BY <1>2, <1>3, <1>4, <1>7, <1>8, <1>9, WorkerFrame

\* What it takes from the dealer.
LEMMA WorkerTakes ==
    ASSUME ParamInv, NEW w \in Workers, NEW tags, Arrived(DealerRank, w, tags),
           chan' = Received(DealerRank, w)
    PROVE  /\ TypedBy(Kinds)' /\ Shorter(DealerRank, w) /\ OthersKept(DealerRank, w)
           /\ \A v \in Workers : chan'[v][FarmerRank] = chan[v][FarmerRank]
           /\ chan'[FarmerRank][OutputRank] = chan[FarmerRank][OutputRank]
           /\ FirstBody(DealerRank, w) = chan[DealerRank][w][1].body
           /\ chan[DealerRank][w][1] \in ToWorker /\ chan[DealerRank][w][1].tag \in tags
<1>1. w \in Ranks /\ DealerRank \in Ranks
  BY RankFacts
<1>2. Takes(DealerRank, w)
  BY <1>1, ParamParts, ReceiveEffect
<1>3. /\ TypedBy(Kinds)' /\ Shorter(DealerRank, w) /\ OthersKept(DealerRank, w)
      /\ chan[DealerRank][w][1] \in Kinds[DealerRank][w]
  BY <1>1, <1>2, ParamParts, TypedTaken
<1>4. /\ \A v \in Workers : chan'[v][FarmerRank] = chan[v][FarmerRank]
      /\ chan'[FarmerRank][OutputRank] = chan[FarmerRank][OutputRank]
  BY <1>3, RankFacts DEF OthersKept
<1> QED
  BY <1>3, <1>4, KindFacts DEF Shorter, FirstBody, Arrived

LEMMA ToWorkerFacts ==
    ASSUME NEW m \in ToWorker
    PROVE  /\ m.tag = "HEADER" => m.body.end \in BOOLEAN /\ m.body.trigger \in Triggers
           /\ m.tag = "DATA" => m.body \in Events
BY DEF ToWorker, Message

LEMMA WorkerGetPushInv ==
    ASSUME ParamInv, NEW w \in Workers, WorkerGetPush(w),
           UNCHANGED <<dealerVars, farmerVars, outputVars>>
    PROVE  ParamInv'
<1>1. PICK k \in DOMAIN Expected :
         /\ wpc[w] = Expected[k]
         /\ Arrived(DealerRank, w, {TagOf(Expected[k])})
         /\ wpc' = [wpc EXCEPT ![w] = IF k = Len(Expected) THEN "request" ELSE Expected[k + 1]]
  BY DEF WorkerGetPush
<1>2. chan' = Received(DealerRank, w) /\ UNCHANGED <<wtrigger, wevent>>
  BY DEF WorkerGetPush
<1>3. k \in 1 .. 4 /\ Len(Expected) = 4
  BY DEF Expected
<1>4. PICK next : next = IF k = Len(Expected) THEN "request" ELSE Expected[k + 1]
  OBVIOUS
<1>5. next \in {"params", "varCount", "vars", "request"}
      /\ Expected[k] \in {"paramCount", "params", "varCount", "vars"}
  <2>1. k = 1 \/ k = 2 \/ k = 3 \/ k = 4
    BY <1>3
  <2> QED
    BY <1>3, <1>4, <2>1 DEF Expected
<1>6. /\ TypedBy(Kinds)'
      /\ \A v \in Workers : chan'[v][FarmerRank] = chan[v][FarmerRank]
      /\ chan'[FarmerRank][OutputRank] = chan[FarmerRank][OutputRank]
  BY <1>1, <1>2, WorkerTakes
<1>7. /\ wpc'[w] = next /\ OthersWait(w) /\ WorkersTypeOK'
  BY <1>1, <1>2, <1>4, <1>5, ParamParts DEF OthersWait, WorkersTypeOK
<1> QED
  BY <1>1, <1>5, <1>6, <1>7, WorkerQuiet

LEMMA WorkerRequestInv ==
    ASSUME ParamInv, NEW w \in Workers, WorkerRequest(w),
           UNCHANGED <<dealerVars, farmerVars, outputVars>>
    PROVE  ParamInv'
<1>1. /\ wpc[w] = "request" /\ Send(w, DealerRank, "REQUEST", w)
      /\ wpc' = [wpc EXCEPT ![w] = "header"] /\ UNCHANGED <<wtrigger, wevent>>
  BY DEF WorkerRequest
<1>2. TypedBy(Kinds)' /\ OthersKept(w, DealerRank)
  <2>1. w \in Ranks /\ DealerRank \in Ranks
    BY RankFacts
  <2>2. Message("REQUEST", {w}) \subseteq Kinds[w][DealerRank]
    BY KindFacts
  <2> QED
    BY <1>1, <2>1, <2>2, ParamParts, TypedSent
<1>3. /\ \A v \in Workers : chan'[v][FarmerRank] = chan[v][FarmerRank]
      /\ chan'[FarmerRank][OutputRank] = chan[FarmerRank][OutputRank]
  BY <1>2, RankFacts DEF OthersKept
<1>4. wpc'[w] = "header" /\ OthersWait(w) /\ WorkersTypeOK'
  BY <1>1, ParamParts DEF OthersWait, WorkersTypeOK
<1> QED
  BY <1>1, <1>2, <1>3, <1>4, WorkerQuiet

LEMMA WorkerGetHeaderInv ==
    ASSUME ParamInv, NEW w \in Workers, WorkerGetHeader(w),
           UNCHANGED <<dealerVars, farmerVars, outputVars>>
    PROVE  ParamInv'
<1>1. /\ wpc[w] = "header" /\ Arrived(DealerRank, w, {"HEADER"})
      /\ chan' = Received(DealerRank, w) /\ UNCHANGED wevent
  BY DEF WorkerGetHeader
<1>2. PICK header : header = chan[DealerRank][w][1].body
  OBVIOUS
<1>3. /\ TypedBy(Kinds)'
      /\ \A v \in Workers : chan'[v][FarmerRank] = chan[v][FarmerRank]
      /\ chan'[FarmerRank][OutputRank] = chan[FarmerRank][OutputRank]
      /\ FirstBody(DealerRank, w) = header
      /\ chan[DealerRank][w][1] \in ToWorker /\ chan[DealerRank][w][1].tag \in {"HEADER"}
  BY <1>1, <1>2, WorkerTakes
<1>4. header.trigger \in Triggers
  BY <1>2, <1>3, ToWorkerFacts
<1>5. PICK next \in {"end", "data"} :
         /\ wpc' = [wpc EXCEPT ![w] = next]
         /\ wtrigger' = [wtrigger EXCEPT ![w] = header.trigger]
  <2>1. PICK next : next = IF header.end THEN "end" ELSE "data"
    OBVIOUS
  <2> QED
    BY <1>3, <2>1 DEF WorkerGetHeader
<1>6. wpc'[w] = next /\ OthersWait(w) /\ WorkersTypeOK'
  BY <1>1, <1>4, <1>5, ParamParts DEF OthersWait, WorkersTypeOK
<1> QED
  BY <1>1, <1>3, <1>6, WorkerQuiet

LEMMA WorkerGetDataInv ==
    ASSUME ParamInv, NEW w \in Workers, WorkerGetData(w),
           UNCHANGED <<dealerVars, farmerVars, outputVars>>
    PROVE  ParamInv'
<1>1. /\ wpc[w] = "data" /\ Arrived(DealerRank, w, {"DATA"})
      /\ chan' = Received(DealerRank, w) /\ UNCHANGED wtrigger
      /\ wpc' = [wpc EXCEPT ![w] = "sendHeader"]
      /\ wevent' = [wevent EXCEPT ![w] = FirstBody(DealerRank, w)]
  BY DEF WorkerGetData
<1>2. /\ TypedBy(Kinds)'
      /\ \A v \in Workers : chan'[v][FarmerRank] = chan[v][FarmerRank]
      /\ chan'[FarmerRank][OutputRank] = chan[FarmerRank][OutputRank]
      /\ FirstBody(DealerRank, w) = chan[DealerRank][w][1].body
      /\ chan[DealerRank][w][1] \in ToWorker /\ chan[DealerRank][w][1].tag \in {"DATA"}
  BY <1>1, WorkerTakes
<1>3. FirstBody(DealerRank, w) \in Events
  BY <1>2, ToWorkerFacts
<1>4. wpc'[w] = "sendHeader" /\ OthersWait(w) /\ WorkersTypeOK' /\ wevent'[w] \in Events
  BY <1>1, <1>3, ParamParts DEF OthersWait, WorkersTypeOK
<1> QED
  BY <1>1, <1>2, <1>4, WorkerQuiet

LEMMA WorkerInv ==
    ASSUME ParamInv, NEW w \in Workers, WorkerStep(w)
    PROVE  ParamInv'
<1>1. WorkerNext(w) /\ UNCHANGED <<dealerVars, farmerVars, outputVars>>
  BY DEF WorkerStep
<1>2. wtrigger[w] \in Triggers /\ WorkerOK(w)
  BY DEF ParamInv, WorkersTypeOK
<1>3. CASE WorkerSendHeader(w)
  <2>1. PICK t \in Triggers : t = wtrigger[w]
    BY <1>2
  <2>2. Message("HEADER", {t}) \subseteq EventMessages
    BY DEF Message, EventMessages
  <2>3. /\ Send(w, FarmerRank, "HEADER", t) /\ wpc[w] = "sendHeader"
        /\ wpc' = [wpc EXCEPT ![w] = "sendData"] /\ UNCHANGED <<wtrigger, wevent>>
    BY <1>3, <2>1 DEF WorkerSendHeader
  <2>4. wevent[w] \in Events
    BY <1>2, <2>3 DEF WorkerOK
  <2> QED
    BY <1>1, <2>1, <2>2, <2>3, <2>4, WorkerSpeaks
<1>4. CASE WorkerSendData(w)
  <2>1. /\ Send(w, FarmerRank, "DATA", wevent[w]) /\ wpc[w] = "sendData"
        /\ wpc' = [wpc EXCEPT ![w] = "request"] /\ UNCHANGED <<wtrigger, wevent>>
    BY <1>4 DEF WorkerSendData
  <2>2. PICK e \in Events : e = wevent[w]
    BY <1>2, <2>1 DEF WorkerOK
  <2>3. Message("DATA", {e}) \subseteq EventMessages /\ Send(w, FarmerRank, "DATA", e)
    BY <2>1, <2>2 DEF Message, EventMessages
  <2> QED
    BY <1>1, <2>1, <2>3, WorkerSpeaks
<1>5. CASE WorkerSendEnd(w)
  <2>1. /\ Send(w, FarmerRank, "END", 0) /\ wpc[w] = "end"
        /\ wpc' = [wpc EXCEPT ![w] = "finalize"] /\ UNCHANGED <<wtrigger, wevent>>
    BY <1>5 DEF WorkerSendEnd
  <2>2. Message("END", {0}) \subseteq EventMessages
    BY DEF EventMessages
  <2> QED
    BY <1>1, <2>1, <2>2, WorkerSpeaks
<1> QED
  BY <1>1, <1>3, <1>4, <1>5, WorkerGetPushInv, WorkerRequestInv, WorkerGetHeaderInv,
     WorkerGetDataInv
  DEF WorkerNext
-----------------------------------------------------------------------------
(***************************************************************************)
(* The steps of the farmer.                                                *)
(***************************************************************************)
\* The parts of the invariant that are not about the farmer and its streams.
LEMMA RestKept ==
    ASSUME ParamInv, UNCHANGED <<dealerVars, workerVars>>
    PROVE  /\ DealerTypeOK' /\ WorkersTypeOK' /\ DealerOK'
           /\ UNCHANGED <<wpc, wtrigger, wevent>>
BY ParamParts
DEF dealerVars, workerVars, DealerTypeOK, WorkersTypeOK, DealerOK, AtItem, Pushes

\* The farmer takes a message from worker w.
LEMMA FarmerTakes ==
    ASSUME ParamInv, UNCHANGED <<dealerVars, workerVars>>,
           NEW w \in Workers, NEW tag \in {"HEADER", "DATA", "END"}, StreamTaken(w, tag)
    PROVE  /\ TypedBy(Kinds)' /\ InPairs'
           /\ \A v \in Workers : WorkerOK(v)'
           /\ \A v \in Workers \ {w} : Ended(v)' <=> Ended(v)
           /\ Ended(w)' <=> tag = "END"
           /\ ~ Ended(w)
<1>1. w \in Ranks /\ FarmerRank \in Ranks /\ UNCHANGED <<wpc, wtrigger, wevent>>
  BY RankFacts, RestKept
<1>2. TypedBy(Kinds)'
  <2>1. Takes(w, FarmerRank)
    BY DEF StreamTaken
  <2> QED
    BY <1>1, <2>1, ParamParts, TypedTaken
<1>3. InPairs'
  BY ParamParts, TakenInPairs
<1>4. /\ chan[w][FarmerRank] # <<>>
      /\ \/ LastSent(w)' = LastSent(w)
         \/ /\ chan'[w][FarmerRank] = <<>> /\ tag # "HEADER"
            /\ LastSent(w)'.tag = "none" /\ LastSent(w).tag = tag
      /\ chan'[w][FarmerRank] = <<>> => LastSent(w).tag = tag
      /\ tag = "END" => chan'[w][FarmerRank] = <<>>
      /\ \A v \in Workers \ {w} : /\ chan'[v][FarmerRank] = chan[v][FarmerRank]
                                  /\ LastSent(v)' = LastSent(v)
  BY ParamParts, StreamReceived
<1>5. WorkerOK(w)
  BY DEF ParamInv
<1>6. WorkerOK(w)'
  BY <1>1, <1>4, <1>5 DEF WorkerOK
<1>7. ASSUME NEW v \in Workers \ {w} PROVE WorkerOK(v)' /\ (Ended(v)' <=> Ended(v))
  BY <1>1, <1>4 DEF ParamInv, WorkerOK, Ended
<1>8. ~ Ended(w)
  BY <1>4 DEF Ended
<1>9. Ended(w)' <=> tag = "END"
  BY <1>1, <1>4, <1>5 DEF WorkerOK, Ended
<1> QED
  BY <1>2, <1>3, <1>6, <1>7, <1>8, <1>9

\* One end less is expected when a worker has ended.
LEMMA EndsCounted ==
    ASSUME EndsLeftOK, NEW w \in Workers, ~ Ended(w), Ended(w)',
           \A v \in Workers \ {w} : Ended(v)' <=> Ended(v),
           m_nEndsLeft' = m_nEndsLeft - 1
    PROVE  EndsLeftOK'
<1> DEFINE Left == {v \in Workers : ~ Ended(v)}
<1>1. Left' = Left \ {w} /\ w \in Left
  OBVIOUS
<1>2. IsFiniteSet(Left)
  <2>1. IsFiniteSet(Workers)
    BY FS_Interval, MPIAssumption DEF Workers
  <2>2. Left \in SUBSET Workers
    OBVIOUS
  <2> QED
    BY <2>1, <2>2, FS_Subset
<1>3. m_nEndsLeft = Cardinality(Left)
  BY DEF EndsLeftOK
<1> HIDE DEF Left
<1>4. Cardinality(Left') = m_nEndsLeft'
  BY <1>1, <1>2, <1>3, FS_RemoveElement
<1> QED
  BY <1>4 DEF Left, EndsLeftOK

LEMMA FarmerFrame ==
    ASSUME ParamInv, FarmerNext, UNCHANGED <<dealerVars, workerVars, outputVars>>,
           TypedBy(Kinds)', InPairs', \A w \in Workers : WorkerOK(w)', EndsLeftOK'
    PROVE  ParamInv'
<1>1. FarmerOK' /\ Delivery'
  BY ParamParts, FarmerDelivers
<1>2. DealerTypeOK' /\ WorkersTypeOK' /\ DealerOK'
  BY RestKept
<1> QED
  BY <1>1, <1>2 DEF ParamInv, FarmerOK, EndsTypeOK

\* A step in which the farmer sends the outputter a message.
LEMMA FarmerSends ==
    ASSUME ParamInv, FarmerNext, UNCHANGED <<dealerVars, workerVars, outputVars>>,
           NEW tag, NEW body, Send(FarmerRank, OutputRank, tag, body),
           Message(tag, {body}) \subseteq EventMessages,
           m_nEndsLeft' = m_nEndsLeft, fpc' # "data", fpc # "data", fheader' = fheader
    PROVE  ParamInv'
<1>1. TypedBy(Kinds)' /\ OthersKept(FarmerRank, OutputRank)
  BY ParamParts, KindFacts, RankFacts, TypedSent
<1>2. \A w \in Workers : chan'[w][FarmerRank] = chan[w][FarmerRank]
  BY <1>1, RankFacts DEF OthersKept
<1>3. InPairs' /\ \A w \in Workers : \A k \in Nat : Before(w, k)' = Before(w, k)
  BY <1>2, StreamsKept, ParamParts
<1>4. ASSUME NEW w \in Workers PROVE WorkerOK(w)' /\ (Ended(w)' <=> Ended(w))
  <2>1. LastSent(w)' = LastSent(w)
    BY <1>2, <1>3, ParamParts, LastKept DEF MessagesOK, StreamsOK
  <2> QED
    BY <1>2, <2>1, RestKept DEF ParamInv, WorkerOK, Ended
<1>5. EndsLeftOK'
  BY <1>4 DEF ParamInv, EndsLeftOK
<1> QED
  BY <1>1, <1>3, <1>4, <1>5, FarmerFrame

LEMMA FarmerInv ==
    ASSUME ParamInv, FarmerStep
    PROVE  ParamInv'
<1>1. FarmerNext /\ UNCHANGED <<dealerVars, workerVars, outputVars>> /\ UNCHANGED outputVars
  BY DEF FarmerStep
<1>2. FarmerOK /\ EndsLeftOK
  BY ParamParts DEF ParamInv
<1>3. ASSUME NEW w \in Workers, NEW tag \in {"HEADER", "DATA"}, StreamTaken(w, tag),
             m_nEndsLeft' = m_nEndsLeft
      PROVE  ParamInv'
  <2>1. /\ TypedBy(Kinds)' /\ InPairs' /\ \A v \in Workers : WorkerOK(v)'
        /\ \A v \in Workers : Ended(v)' <=> Ended(v)
    BY <1>1, <1>3, FarmerTakes
  <2>2. EndsLeftOK'
    BY <1>2, <1>3, <2>1 DEF EndsLeftOK
  <2> QED
    BY <1>1, <2>1, <2>2, FarmerFrame
<1>4. CASE FarmerGetHeader
  <2>1. PICK w \in Workers : StreamTaken(w, "HEADER")
    BY <1>2, <1>4, FarmerTakesHeader
  <2>2. m_nEndsLeft' = m_nEndsLeft
    BY <1>4 DEF FarmerGetHeader
  <2> QED
    BY <1>3, <2>1, <2>2
<1>5. CASE FarmerGetData
  <2>1. PICK w \in Workers : StreamTaken(w, "DATA")
    BY <1>1, <1>2, <1>5, FarmerTakesData
  <2>2. m_nEndsLeft' = m_nEndsLeft
    BY <1>5 DEF FarmerGetData
  <2> QED
    BY <1>3, <2>1, <2>2
<1>6. CASE FarmerGetEnd
  <2>1. PICK w \in Workers : StreamTaken(w, "END")
    BY <1>2, <1>6, FarmerTakesEnd
  <2>2. /\ TypedBy(Kinds)' /\ InPairs' /\ \A v \in Workers : WorkerOK(v)'
        /\ \A v \in Workers \ {w} : Ended(v)' <=> Ended(v)
        /\ Ended(w)' /\ ~ Ended(w)
    BY <1>1, <2>1, FarmerTakes
  <2>3. m_nEndsLeft' = m_nEndsLeft - 1
    BY <1>6 DEF FarmerGetEnd
  <2>4. EndsLeftOK'
    BY <1>2, <2>2, <2>3, EndsCounted
  <2> QED
    BY <1>1, <2>2, <2>4, FarmerFrame
<1>7. CASE FarmerEmitHeader
  <2>1. PICK body : body = emitted[fsent + 1].trigger
    OBVIOUS
  <2>2. Message("HEADER", {body}) \subseteq EventMessages
    BY <1>1, <1>2, <1>7, <2>1, FarmerEmitHeaderOK
  <2>3. /\ Send(FarmerRank, OutputRank, "HEADER", body)
        /\ m_nEndsLeft' = m_nEndsLeft /\ fpc' # "data" /\ fpc # "data" /\ fheader' = fheader
    BY <1>7, <2>1 DEF FarmerEmitHeader
  <2> QED
    BY <1>1, <2>2, <2>3, FarmerSends
<1>8. CASE FarmerEmitData
  <2>1. PICK body : body = emitted[fsent + 1].event
    OBVIOUS
  <2>2. Message("DATA", {body}) \subseteq EventMessages
    BY <1>1, <1>2, <1>8, <2>1, FarmerEmitDataOK
  <2>3. /\ Send(FarmerRank, OutputRank, "DATA", body)
        /\ m_nEndsLeft' = m_nEndsLeft /\ fpc' # "data" /\ fpc # "data" /\ fheader' = fheader
    BY <1>8, <2>1 DEF FarmerEmitData, AfterEmitting
  <2> QED
    BY <1>1, <2>2, <2>3, FarmerSends
<1>9. CASE FarmerSendEnd
  <2>1. Message("END", {0}) \subseteq EventMessages
    BY <1>1, <1>2, <1>9, FarmerSendEndOK
  <2>2. /\ Send(FarmerRank, OutputRank, "END", 0)
        /\ m_nEndsLeft' = m_nEndsLeft /\ fpc' # "data" /\ fpc # "data" /\ fheader' = fheader
    BY <1>9 DEF FarmerSendEnd
  <2> QED
    BY <1>1, <2>1, <2>2, FarmerSends
<1> QED
  BY <1>1, <1>4, <1>5, <1>6, <1>7, <1>8, <1>9 DEF FarmerNext
-----------------------------------------------------------------------------
(***************************************************************************)
(* The steps of the outputter, the start, and the type theorem.            *)
(***************************************************************************)
\* What the outputter takes it takes from one rank.
LEMMA OutputTakesFrom ==
    ASSUME ParamInv, OutputNext, UNCHANGED farmerVars
    PROVE  \E r \in Sources : Takes(r, OutputRank)
<1>1. FarmerOK /\ Delivery /\ Channels
  BY ParamParts
<1>2. CASE OutputGetHeader
  <2>1. PICK r \in Sources : /\ Arrived(r, OutputRank, {"HEADER", "PASSTHROUGH"})
                             /\ chan' = Received(r, OutputRank)
    BY <1>2 DEF OutputGetHeader, OutputRank
  <2>2. Takes(r, OutputRank)
    BY <1>1, <2>1, RankFacts, ReceiveEffect
  <2> QED
    BY <2>2
<1>3. CASE OutputGetEnd
  BY <1>1, <1>3, OutputGetEndOK, RankFacts
<1>4. CASE OutputEvent
  BY <1>1, <1>4, OutputEventOK, RankFacts
<1>5. CASE OutputItem
  <2>1. oheader.source \in Sources /\ Takes(oheader.source, OutputRank)
    BY <1>1, <1>5, OutputItemOK
  <2>2. PICK r \in Sources : r = oheader.source
    BY <2>1
  <2>3. Takes(r, OutputRank)
    BY <2>1, <2>2 DEF Takes
  <2> QED
    BY <2>3
<1> QED
  BY <1>2, <1>3, <1>4, <1>5 DEF OutputNext

LEMMA OutputInv ==
    ASSUME ParamInv, OutputStep
    PROVE  ParamInv'
<1>1. /\ OutputNext /\ UNCHANGED <<dealerVars, workerVars>> /\ UNCHANGED farmerVars
      /\ UNCHANGED workerVars /\ UNCHANGED <<fpc, fheader, m_nEndsLeft>>
  BY DEF OutputStep, farmerVars
<1>2. FarmerOK' /\ Delivery'
  BY <1>1, ParamParts, OutputDelivers
<1>3. PICK r \in Sources : Takes(r, OutputRank)
  BY <1>1, OutputTakesFrom
<1>4. TypedBy(Kinds)' /\ OthersKept(r, OutputRank)
  BY <1>3, RankFacts, ParamParts, TypedTaken
<1>5. \A w \in Workers : chan'[w][FarmerRank] = chan[w][FarmerRank]
  BY <1>4, RankFacts DEF OthersKept
<1>6. /\ WorkersTypeOK' /\ InPairs' /\ EndsLeftOK'
      /\ \A w \in Workers : WorkerOK(w)'
  BY <1>1, <1>5, WorkersKept
<1>7. DealerTypeOK' /\ DealerOK'
  BY <1>1, RestKept
<1> QED
  BY <1>2, <1>4, <1>6, <1>7 DEF ParamInv, FarmerOK, EndsTypeOK

LEMMA ParamInvInit == Init => ParamInv
<1> SUFFICES ASSUME Init PROVE ParamInv
  OBVIOUS
<1>1. /\ \A a, b \in Ranks : chan[a][b] = <<>>
      /\ Channels
  BY DEF Init, MPIInit, Channels
<1>2. /\ file \in Files /\ file \in Seq(ItemKinds) /\ defined \in Definitions
      /\ dpc = "read" /\ first = 0 /\ len = 0 /\ cur = 3 /\ nItems = 0 /\ item = 0
      /\ pushed = 0 /\ dest = 3 /\ eofsLeft = Size - 3
  BY ParamAssumption DEF Init
<1>3. \A w \in Workers : wpc[w] = "paramCount" /\ wtrigger[w] = 0 /\ wevent[w] = 0
  BY DEF Init
<1>4. /\ m_nEndsLeft = Size - 3 /\ fpc = "header" /\ fsent = 0 /\ emitted = <<>>
      /\ flushed = FALSE /\ fheader = [source |-> 3, trigger |-> 0]
  BY DEF Init, FarmerInit, SorterInit
<1>5. opc = "header" /\ oheader = [source |-> 1, trigger |-> 0] /\ written = <<>>
  BY DEF Init, OutputInit
<1>6. 3 \in Workers /\ 0 \in Triggers /\ Size - 3 \in Nat /\ Size - 3 > 0
  BY MPIAssumption, MaxTriggerAssumption DEF Workers, Triggers
<1>7. TypedBy(Kinds)
  <2>1. \A S : <<>> \in Seq(S)
    OBVIOUS
  <2> QED
    BY <1>1, <2>1, Zenon DEF TypedBy
<1>8. DealerTypeOK
  BY <1>2, <1>6, PushFacts DEF DealerTypeOK
<1>9. WorkersTypeOK
  BY <1>6 DEF Init, WorkersTypeOK
<1>10. FarmerTypeOK
  <2>1. SorterTypeOK
    BY SorterInvInit DEF Init, FarmerInit, SorterInv
  <2>2. m_nEndsLeft \in 0 .. Size - 3 /\ fsent \in Nat
    BY <1>4, <1>6
  <2>3. fheader \in [source : Workers, trigger : Triggers]
    BY <1>4, <1>6
  <2> QED
    BY <1>4, <2>1, <2>2, <2>3 DEF FarmerTypeOK
<1>11. OutputTypeOK
  BY <1>5, <1>6, RankFacts DEF OutputTypeOK, FarmerRank
<1>12. DealerOK
  BY <1>2, <1>6 DEF DealerOK, AtItem
<1>13. ASSUME NEW w \in Workers PROVE WorkerOK(w) /\ ~ Ended(w)
  BY <1>1, <1>3, <1>4, RankFacts DEF WorkerOK, LastSent, Before, Ended
<1>14. InPairs
  BY <1>1, RankFacts DEF InPairs
<1>15. EndsLeftOK
  <2>1. {w \in Workers : ~ Ended(w)} = 3 .. Size - 1
    BY <1>13 DEF Workers
  <2>2. Cardinality(3 .. Size - 1) = Size - 3
    BY MPIAssumption, FS_Interval
  <2> QED
    BY <1>4, <2>1, <2>2 DEF EndsLeftOK
<1>16. FarmerControl
  BY <1>4, <1>6 DEF FarmerControl
<1>17. Delivery
  <2>1. EventPlaces = {} /\ Cardinality(EventPlaces) = 0
    BY <1>5, FS_EmptySet DEF EventPlaces
  <2>2. SentOut = 0 /\ TakenIn = 0 /\ chan[FarmerRank][OutputRank] = <<>>
    BY <1>1, <1>4, <1>5, <2>1, RankFacts DEF SentOut, TakenIn
  <2>3. OutputControl /\ WrittenAsEmitted
    BY <1>5, <2>1 DEF OutputControl, WrittenAsEmitted
  <2> QED
    BY <2>2, <2>3 DEF Delivery
<1> QED
  BY <1>7, <1>8, <1>9, <1>10, <1>11, <1>12, <1>13, <1>14, <1>15, <1>16, <1>17 DEF ParamInv

LEMMA ParamInvNext == ParamInv /\ [Next]_vars => ParamInv'
<1> SUFFICES ASSUME ParamInv, [Next]_vars PROVE ParamInv'
  OBVIOUS
<1>1. CASE DealerStep
  BY <1>1, DealerInv
<1>2. CASE FarmerStep
  BY <1>2, FarmerInv
<1>3. CASE OutputStep
  BY <1>3, OutputInv
<1>4. CASE \E w \in Workers : WorkerStep(w)
  BY <1>4, WorkerInv
<1>5. CASE UNCHANGED vars
  <2>1. UNCHANGED <<chan, dealerVars, workerVars, farmerVars, outputVars>>
    BY <1>5 DEF vars
  <2>2. DealerTypeOK' /\ DealerOK'
    BY <2>1, RestKept
  <2> QED
    BY <2>1, <2>2, DealerAlone
<1> QED
  BY <1>1, <1>2, <1>3, <1>4, <1>5 DEF Next, Finished

(***************************************************************************)
(* Whatever the file, the definitions that are not empty, the sizes of the *)
(* blocks and the sends that wait, every variable and every message of a   *)
(* parameter run keeps its type: the trigger of a dealt event is one of    *)
(* those the file stores, even where the stale pItem of the dealer makes   *)
(* it deal the wrong item, and the counts of blocks, pushes and ends do    *)
(* not go below zero.                                                      *)
(***************************************************************************)
THEOREM ParamTypeCorrect == Spec => []TypeOK
<1>1. ParamInv => TypeOK
  BY ParamParts DEF ParamInv, TypeOK
<1> QED
  BY <1>1, ParamInvInit, ParamInvNext, PTL DEF Spec
-----------------------------------------------------------------------------
(***************************************************************************)
(* Pushes and answers in order.  A list of parameters that is empty is not *)
(* pushed, and the workers that wait for it would be sent the count of     *)
(* variables: the theorem is about files whose list is not empty.          *)
(***************************************************************************)
ParamsDefined == \A d \in Definitions : "params" \in d

LEMMA GotFacts ==
    ASSUME ParamInv, NEW w \in Workers
    PROVE  /\ Got(w) \in 0 .. 4
           /\ Got(w) < 4 => Expected[Got(w) + 1] = wpc[w]
           /\ Got(w) = 4 <=> wpc[w] \notin {"paramCount", "params", "varCount", "vars"}
<1>1. DOMAIN Receives = {"paramCount", "params", "varCount", "vars"}
  BY DEF Receives
<1>2. CASE wpc[w] \in {"paramCount", "params", "varCount", "vars"}
  BY <1>1, <1>2 DEF Got, Receives, Expected
<1>3. CASE wpc[w] \notin {"paramCount", "params", "varCount", "vars"}
  BY <1>1, <1>3 DEF Got
<1> QED
  BY <1>2, <1>3

LEMMA PushedFacts ==
    ASSUME ParamInv, NEW w \in Workers
    PROVE  PushedTo(w) \in 0 .. 4
<1>1. PICK n \in Nat : n = Len(Pushes) /\ n <= 4
  BY PushFacts
<1>2. pushed \in 0 .. n /\ (dpc = "push" => pushed < n)
  BY <1>1, ParamParts DEF DealerTypeOK, DealerOK
<1>3. pushed \in Nat /\ pushed <= n
  BY <1>1, <1>2
<1>4. CASE dpc = "push" /\ w < dest
  BY <1>1, <1>2, <1>3, <1>4 DEF PushedTo
<1>5. CASE ~ (dpc = "push" /\ w < dest)
  <2>1. PushedTo(w) = pushed
    BY <1>5 DEF PushedTo
  <2> QED
    BY <1>1, <1>3, <2>1
<1> QED
  BY <1>4, <1>5

\* The channels between a worker and the dealer.
Empties ==
    \A w \in Workers :
        /\ Len(chan[DealerRank][w]) \in Nat
        /\ chan[DealerRank][w] = <<>> <=> Len(chan[DealerRank][w]) = 0
        /\ DOMAIN chan[DealerRank][w] = 1 .. Len(chan[DealerRank][w])
        /\ Len(chan[w][DealerRank]) \in Nat
        /\ chan[w][DealerRank] = <<>> <=> Len(chan[w][DealerRank]) = 0

LEMMA EmptyFacts == ParamInv => Empties
<1> SUFFICES ASSUME ParamInv, NEW w \in Workers
             PROVE  /\ Len(chan[DealerRank][w]) \in Nat
                    /\ chan[DealerRank][w] = <<>> <=> Len(chan[DealerRank][w]) = 0
                    /\ DOMAIN chan[DealerRank][w] = 1 .. Len(chan[DealerRank][w])
                    /\ Len(chan[w][DealerRank]) \in Nat
                    /\ chan[w][DealerRank] = <<>> <=> Len(chan[w][DealerRank]) = 0
  BY DEF Empties
<1>1. /\ chan[DealerRank][w] \in Seq(ToWorker)
      /\ chan[w][DealerRank] \in Seq(Message("REQUEST", {w}))
  BY ParamParts DEF MessagesOK
<1>2. \A S : \A s \in Seq(S) : /\ Len(s) \in Nat /\ (s = <<>> <=> Len(s) = 0)
                               /\ DOMAIN s = 1 .. Len(s)
  OBVIOUS
<1> QED
  BY <1>1, <1>2

\* A send, whatever is sent.
LEMMA ParamSent ==
    ASSUME ParamInv, NEW from \in Ranks, NEW to \in Ranks, NEW tag, NEW body,
           Send(from, to, tag, body)
    PROVE  Longer(from, to, tag, body) /\ OthersKept(from, to)
<1> DEFINE T == Kinds[from][to] \union Message(tag, {body})
<1>1. Sends(from, to, tag, body) /\ chan[from][to] \in Seq(Kinds[from][to])
  BY ParamParts, SendEffect DEF TypedBy
<1>2. chan[from][to] \in Seq(T) /\ Message(tag, {body}) \subseteq T
  BY <1>1
<1> HIDE DEF T
<1> QED
  BY <1>1, <1>2, SentTo

\* Nothing between worker w and the dealer changes.
LEMMA OrderKept ==
    ASSUME NEW w \in Workers, Ordered(w), wpc'[w] = wpc[w],
           chan'[w][DealerRank] = chan[w][DealerRank],
           chan'[DealerRank][w] = chan[DealerRank][w],
           PushedTo(w)' = PushedTo(w), Served(w)' <=> Served(w), Served(w) => dpc' = dpc
    PROVE  Ordered(w)'
<1>1. Got(w)' = Got(w)
  BY DEF Got
<1>2. DefinitionsDue(w)' <=> DefinitionsDue(w)
  BY <1>1 DEF DefinitionsDue
<1>3. /\ Silent(w)' <=> Silent(w)
      /\ Asked(w)' <=> Asked(w)
      /\ HeaderDue(w)' <=> HeaderDue(w)
      /\ HeaderSent(w)' <=> HeaderSent(w)
      /\ BothSent(w)' <=> BothSent(w)
      /\ EndSent(w)' <=> EndSent(w)
      /\ DataDue(w)' <=> DataDue(w)
      /\ DataSent(w)' <=> DataSent(w)
  BY DEF Silent, Asked, HeaderDue, HeaderSent, BothSent, EndSent, DataDue, DataSent
<1>4. Protocol(w)' <=> Protocol(w)
  BY <1>3 DEF Protocol
<1> QED
  BY <1>1, <1>2, <1>4 DEF Ordered

\* A dealer step that is not about worker v.
LEMMA DealerSkips ==
    ASSUME OrderInv, NEW v \in Workers, UNCHANGED workerVars,
           chan'[v][DealerRank] = chan[v][DealerRank],
           chan'[DealerRank][v] = chan[DealerRank][v],
           dpc # "push", pushed' = pushed, dpc' = "push" => ~ (v < dest'),
           ~ Served(v), ~ Served(v)'
    PROVE  Ordered(v)'
<1>1. wpc'[v] = wpc[v] /\ Ordered(v)
  BY DEF workerVars, OrderInv
<1>2. PushedTo(v)' = PushedTo(v)
  BY DEF PushedTo
<1> QED
  BY <1>1, <1>2, OrderKept

(***************************************************************************)
(* The next push finds its worker waiting for it or for an earlier one.    *)
(***************************************************************************)
LEMMA DealerPushOrder ==
    ASSUME ParamsDefined, OrderInv, ParamInv', DealerPush, UNCHANGED workerVars,
           NEW w \in Workers
    PROVE  Ordered(w)'
<1> DEFINE p == Pushes[pushed + 1]
<1>1. /\ ParamInv /\ Ordered(w) /\ wpc'[w] = wpc[w]
      /\ dpc = "push" /\ Send(DealerRank, dest, TagOf(p), p)
  BY DEF OrderInv, DealerPush, workerVars
<1>2. /\ dest \in Workers /\ pushed + 1 \in 1 .. Len(Pushes) /\ pushed \in Nat
      /\ \/ /\ dest < Size - 1 /\ dest' = dest + 1 /\ dpc' = "push" /\ pushed' = pushed
         \/ /\ dest = Size - 1 /\ dest' = 3 /\ pushed' = pushed + 1
            /\ dpc' \in {"push", "take", "eofRequest", "finalize"}
  BY <1>1, PushMoves
<1>3. p = Expected[pushed + 1]
  <2>1. "params" \in defined
    BY <1>1, ParamParts DEF ParamsDefined, DealerTypeOK
  <2> QED
    BY <1>2, <2>1, PushFacts
<1>4. ~ Served(w) /\ ~ Served(w)'
  BY <1>1, <1>2 DEF Served
<1>5. PushedTo(w)' = IF w = dest THEN PushedTo(w) + 1 ELSE PushedTo(w)
  <2>1. w \in 3 .. Size - 1 /\ dest \in 3 .. Size - 1 /\ Size \in Nat
    BY <1>2, MPIAssumption DEF Workers
  <2> QED
    BY <1>1, <1>2, <2>1 DEF PushedTo
<1>6. Longer(DealerRank, dest, TagOf(p), p) /\ OthersKept(DealerRank, dest)
  <2> HIDE DEF p
  <2> QED
    BY <1>1, <1>2, RankFacts, ParamSent
<1>7. chan'[w][DealerRank] = chan[w][DealerRank]
  BY <1>6, RankFacts DEF OthersKept
<1> HIDE DEF p
<1>8. CASE w # dest
  <2>1. chan'[DealerRank][w] = chan[DealerRank][w]
    BY <1>6, <1>8, RankFacts DEF OthersKept
  <2> QED
    BY <1>1, <1>4, <1>5, <1>7, <1>8, <2>1, OrderKept
<1>9. CASE w = dest
  <2>1. PushedTo(w) = pushed /\ PushedTo(w)' = pushed + 1
    BY <1>2, <1>5, <1>9, MPIAssumption DEF PushedTo, Workers
  <2>2. PushedTo(w)' <= 4
    BY <1>9, PushedFacts, <2>1, <1>2, PushFacts
  <2>3. Got(w) \in 0 .. 4 /\ Got(w) <= pushed /\ Got(w) < 4
    BY <1>1, <1>2, <2>1, <2>2, GotFacts DEF Ordered
  <2>4. PICK g \in 0 .. 3 : g = Got(w)
    BY <2>3
  <2>5. Got(w)' = g
    BY <1>1, <2>4 DEF Got
  <2>6. /\ chan[w][DealerRank] = <<>>
        /\ Len(chan[DealerRank][w]) = pushed - g
        /\ \A k \in DOMAIN chan[DealerRank][w] :
              /\ chan[DealerRank][w][k].body = Expected[g + k]
              /\ chan[DealerRank][w][k].tag = TagOf(Expected[g + k])
    BY <1>1, <2>1, <2>3, <2>4 DEF Ordered, DefinitionsDue
  <2>7. /\ Len(chan'[DealerRank][w]) = pushed - g + 1
        /\ DOMAIN chan'[DealerRank][w] = 1 .. pushed - g + 1
        /\ \A k \in 1 .. pushed - g : chan'[DealerRank][w][k] = chan[DealerRank][w][k]
        /\ chan'[DealerRank][w][pushed - g + 1].tag = TagOf(p)
        /\ chan'[DealerRank][w][pushed - g + 1].body = p
    BY <1>6, <1>9, <2>6 DEF Longer
  <2>8. ASSUME NEW k \in 1 .. pushed - g + 1
        PROVE  /\ chan'[DealerRank][w][k].body = Expected[g + k]
               /\ chan'[DealerRank][w][k].tag = TagOf(Expected[g + k])
    <3>1. CASE k = pushed - g + 1
      <4>1. g + k = pushed + 1
        BY <1>2, <2>4, <3>1
      <4> QED
        BY <1>3, <2>7, <3>1, <4>1
    <3>2. CASE k # pushed - g + 1
      <4>1. k \in 1 .. pushed - g /\ DOMAIN chan[DealerRank][w] = 1 .. pushed - g
        BY <1>1, <1>2, <2>4, <2>6, <3>2, EmptyFacts DEF Empties
      <4> QED
        BY <2>6, <2>7, <4>1
    <3> QED
      BY <3>1, <3>2
  <2>9. DefinitionsDue(w)'
    <3>1. PICK c : c = chan'[DealerRank][w]
      OBVIOUS
    <3>2. chan'[w][DealerRank] = <<>>
      BY <1>7, <2>6
    <3>3. Len(c) = (pushed + 1) - g
      BY <1>2, <2>4, <2>7, <3>1
    <3>4. \A k \in DOMAIN c : c[k].body = Expected[g + k] /\ c[k].tag = TagOf(Expected[g + k])
      BY <2>7, <2>8, <3>1
    <3> QED
      BY <1>4, <2>1, <2>5, <3>1, <3>2, <3>3, <3>4 DEF DefinitionsDue, TagOf
  <2> QED
    BY <1>2, <2>1, <2>3, <2>4, <2>5, <2>9 DEF Ordered
<1> QED
  BY <1>8, <1>9

\* The request that the dealer takes is the one its worker is waiting on.
LEMMA DealerGetRequestOrder ==
    ASSUME OrderInv, ParamInv', DealerGetRequest, UNCHANGED workerVars, NEW v \in Workers
    PROVE  Ordered(v)'
<1>1. PICK w \in Workers : /\ Arrived(w, DealerRank, {"REQUEST"})
                           /\ dest' = FirstBody(w, DealerRank)
                           /\ chan' = Received(w, DealerRank)
  BY DEF DealerGetRequest
<1>2. /\ dpc \in {"request", "eofRequest"} /\ dpc' \in {"sendHeader", "sendEof"}
      /\ pushed' = pushed /\ ParamInv /\ Ordered(w) /\ wpc'[w] = wpc[w]
  BY DEF DealerGetRequest, OrderInv, workerVars
<1>3. Shorter(w, DealerRank) /\ OthersKept(w, DealerRank) /\ dest' = w
  BY <1>1, <1>2, DealerTakes
<1>4. chan'[DealerRank][v] = chan[DealerRank][v] /\ ~ Served(v)
  BY <1>2, <1>3, RankFacts DEF OthersKept, Served
<1>5. CASE v # w
  <2>1. chan'[v][DealerRank] = chan[v][DealerRank] /\ ~ Served(v)'
    BY <1>3, <1>5, RankFacts DEF OthersKept, Served
  <2> QED
    BY <1>2, <1>4, <2>1, DealerSkips
<1>6. CASE v = w
  <2>1. Empties /\ Empties'
    BY <1>2, EmptyFacts, PTL
  <2>2. chan[w][DealerRank] # <<>>
    BY <1>3, <2>1 DEF Shorter, Empties
  <2>3. Got(w) = 4 /\ Got(w) <= PushedTo(w) /\ Protocol(w)
    BY <1>2, <2>2, GotFacts DEF Ordered, DefinitionsDue
  <2>4. wpc[w] = "header" /\ Asked(w)
    BY <2>2, <2>3
    DEF Protocol, Silent, HeaderDue, HeaderSent, BothSent, EndSent, DataDue, DataSent
  <2>5. chan'[w][DealerRank] = <<>>
    BY <1>3, <2>1, <2>4 DEF Asked, Shorter, Empties
  <2>6. HeaderDue(w)'
    BY <1>2, <1>3, <1>4, <1>6, <2>4, <2>5 DEF Asked, HeaderDue, Served
  <2>7. Got(w)' = 4 /\ PushedTo(w)' = PushedTo(w) /\ Protocol(w)'
    BY <1>2, <2>3, <2>4, <2>6 DEF Got, PushedTo, Protocol
  <2> QED
    BY <1>6, <2>3, <2>7 DEF Ordered
<1> QED
  BY <1>5, <1>6

\* What the dealer sends to the worker whose request it has taken.
LEMMA DealerAnswerOrder ==
    ASSUME OrderInv, ParamInv', UNCHANGED workerVars, NEW tag \in {"HEADER", "DATA"}, NEW body,
           Send(DealerRank, dest, tag, body), dest \in Workers,
           UNCHANGED <<dest, pushed>>,
           \/ /\ dpc = "sendHeader" /\ dpc' = "sendData" /\ tag = "HEADER" /\ ~ body.end
           \/ /\ dpc = "sendData" /\ dpc' \in {"take", "eofRequest", "finalize"} /\ tag = "DATA"
           \/ /\ dpc = "sendEof" /\ dpc' \in {"eofRequest", "finalize"}
              /\ tag = "HEADER" /\ body.end,
           NEW v \in Workers
    PROVE  Ordered(v)'
<1>1. PICK w \in Workers : w = dest
  OBVIOUS
<1>2. ParamInv /\ Ordered(w) /\ wpc'[w] = wpc[w] /\ Served(w)
  BY <1>1 DEF OrderInv, workerVars, Served
<1>3. Longer(DealerRank, w, tag, body) /\ OthersKept(DealerRank, w)
  BY <1>1, <1>2, RankFacts, ParamSent
<1>4. chan'[v][DealerRank] = chan[v][DealerRank]
  BY <1>3, RankFacts DEF OthersKept
<1>5. CASE v # w
  <2>1. /\ chan'[DealerRank][v] = chan[DealerRank][v]
        /\ ~ Served(v) /\ ~ Served(v)'
    BY <1>1, <1>3, <1>5, RankFacts DEF OthersKept, Served
  <2> QED
    BY <1>4, <2>1, DealerSkips
<1>6. CASE v = w
  <2>1. Empties /\ Empties'
    BY <1>2, EmptyFacts, PTL
  <2>2. Got(w) = 4 /\ Got(w) <= PushedTo(w) /\ Protocol(w)
    BY <1>2, GotFacts DEF Ordered, DefinitionsDue
  <2>3. Got(w)' = 4 /\ PushedTo(w)' = PushedTo(w)
    BY <1>2, <2>2 DEF Got, PushedTo
  <2>4. chan'[w][DealerRank] = chan[w][DealerRank]
    BY <1>4, <1>6
  <2>5. PICK n \in Nat : /\ n = Len(chan[DealerRank][w])
                         /\ Len(chan'[DealerRank][w]) = n + 1
                         /\ \A k \in 1 .. n : chan'[DealerRank][w][k] = chan[DealerRank][w][k]
                         /\ chan'[DealerRank][w][n + 1].tag = tag
                         /\ chan'[DealerRank][w][n + 1].body = body
                         /\ chan[DealerRank][w] = <<>> <=> n = 0
    BY <1>3, <2>1 DEF Longer, Empties
  <2>6. CASE dpc = "sendHeader"
    <3>1. wpc[w] = "header" /\ HeaderDue(w)
      BY <1>2, <2>2, <2>6 DEF Protocol, Silent, Asked, HeaderSent, BothSent, EndSent,
                               DataDue, DataSent
    <3>2. HeaderSent(w)'
      BY <1>1, <2>4, <2>5, <2>6, <3>1 DEF HeaderDue, HeaderSent, Served
    <3> QED
      BY <1>2, <1>6, <2>2, <2>3, <3>1, <3>2 DEF Ordered, Protocol
  <2>7. CASE dpc = "sendEof"
    <3>1. wpc[w] = "header" /\ HeaderDue(w)
      BY <1>2, <2>2, <2>7 DEF Protocol, Silent, Asked, HeaderSent, BothSent, EndSent,
                               DataDue, DataSent
    <3>2. EndSent(w)'
      BY <1>1, <2>4, <2>5, <2>7, <3>1 DEF HeaderDue, EndSent, Served
    <3> QED
      BY <1>2, <1>6, <2>2, <2>3, <3>1, <3>2 DEF Ordered, Protocol
  <2>8. CASE dpc = "sendData"
    <3>1. \/ wpc[w] = "header" /\ HeaderSent(w)
          \/ wpc[w] = "data" /\ DataDue(w)
      BY <1>2, <2>2, <2>8 DEF Protocol, Silent, Asked, HeaderDue, BothSent, EndSent, DataSent
    <3>2. ~ Served(w)'
      BY <2>8 DEF Served
    <3>3. CASE wpc[w] = "header" /\ HeaderSent(w)
      <4>1. n = 1
        BY <2>5, <3>3 DEF HeaderSent
      <4>2. BothSent(w)'
        BY <2>4, <2>5, <2>8, <3>2, <3>3, <4>1 DEF HeaderSent, BothSent
      <4> QED
        BY <1>2, <1>6, <2>2, <2>3, <3>3, <4>2 DEF Ordered, Protocol
    <3>4. CASE wpc[w] = "data" /\ DataDue(w)
      <4>1. DataSent(w)'
        BY <2>4, <2>5, <2>8, <3>2, <3>4 DEF DataDue, DataSent
      <4> QED
        BY <1>2, <1>6, <2>2, <2>3, <3>4, <4>1 DEF Ordered, Protocol
    <3> QED
      BY <3>1, <3>3, <3>4
  <2> QED
    BY <2>6, <2>7, <2>8
<1> QED
  BY <1>5, <1>6

LEMMA DealerOrder ==
    ASSUME ParamsDefined, OrderInv, ParamInv', DealerStep, NEW v \in Workers
    PROVE  Ordered(v)'
<1>1. ParamInv /\ UNCHANGED workerVars /\ DealerNext
  BY DEF OrderInv, DealerStep
<1>2. CASE DealerPush
  BY <1>1, <1>2, DealerPushOrder
<1>3. CASE DealerGetRequest
  BY <1>1, <1>3, DealerGetRequestOrder
<1>4. CASE DealerSendHeader
  <2>1. PICK header : header = [end |-> FALSE, trigger |-> TriggerOf(item)]
    OBVIOUS
  <2>2. /\ Send(DealerRank, dest, "HEADER", header) /\ ~ header.end
        /\ dpc = "sendHeader" /\ dpc' = "sendData" /\ UNCHANGED <<dest, pushed>>
        /\ dest \in Workers
    BY <1>1, <1>4, <2>1, ParamParts DEF DealerSendHeader, DealerTypeOK
  <2> QED
    BY <1>1, <2>2, DealerAnswerOrder
<1>5. CASE DealerSendData
  <2>1. /\ Send(DealerRank, dest, "DATA", item) /\ NextItem
        /\ dpc = "sendData" /\ UNCHANGED <<file, defined, item, pushed, dest, eofsLeft>>
        /\ dest \in Workers
    BY <1>1, <1>5, ParamParts DEF DealerSendData, DealerTypeOK
  <2>2. dpc' \in {"take", "eofRequest", "finalize"}
    BY <1>1, <2>1, NextItemOK DEF AtItem
  <2> QED
    BY <1>1, <2>1, <2>2, DealerAnswerOrder
<1>6. CASE DealerSendEof
  <2>1. PICK header : header = [end |-> TRUE, trigger |-> 0]
    OBVIOUS
  <2>2. /\ Send(DealerRank, dest, "HEADER", header) /\ header.end
        /\ dpc = "sendEof" /\ dpc' \in {"eofRequest", "finalize"} /\ UNCHANGED <<dest, pushed>>
        /\ dest \in Workers
    BY <1>1, <1>6, <2>1, ParamParts DEF DealerSendEof, DealerTypeOK
  <2> QED
    BY <1>1, <2>2, DealerAnswerOrder
<1>7. CASE DealerRead \/ DealerThrow \/ DealerTake
  <2>1. /\ chan' = chan /\ dpc \in {"read", "take"} /\ UNCHANGED <<dest, pushed>>
        /\ dpc' \in {"eofRequest", "push", "finalize", "request", "passHeader"}
        /\ dpc' = "push" => dpc = "read"
    BY <1>7 DEF DealerRead, DealerThrow, DealerTake
  <2>2. dpc' = "push" => ~ (v < dest')
    BY <1>1, <2>1, ParamParts, MPIAssumption DEF DealerOK, Workers
  <2>3. ~ Served(v) /\ ~ Served(v)'
    BY <2>1 DEF Served
  <2> QED
    BY <1>1, <2>1, <2>2, <2>3, DealerSkips
<1>8. CASE DealerPassHeader \/ DealerPassData
  <2>1. PICK tag, body : Send(DealerRank, OutputRank, tag, body)
    BY <1>8 DEF DealerPassHeader, DealerPassData
  <2>2. OthersKept(DealerRank, OutputRank)
    BY <1>1, <2>1, RankFacts, ParamSent
  <2>3. /\ chan'[v][DealerRank] = chan[v][DealerRank]
        /\ chan'[DealerRank][v] = chan[DealerRank][v]
    BY <2>2, RankFacts DEF OthersKept
  <2>4. /\ dpc \in {"passHeader", "passData"} /\ UNCHANGED <<dest, pushed>>
        /\ dpc' \in {"passData", "take", "eofRequest", "finalize"}
    <3>1. CASE DealerPassHeader
      BY <3>1 DEF DealerPassHeader
    <3>2. CASE DealerPassData
      <4>1. /\ NextItem /\ dpc = "passData"
            /\ UNCHANGED <<file, defined, item, pushed, dest, eofsLeft>>
        BY <3>2 DEF DealerPassData
      <4> QED
        BY <1>1, <4>1, NextItemOK DEF AtItem
    <3> QED
      BY <1>8, <3>1, <3>2
  <2>5. ~ Served(v) /\ ~ Served(v)'
    BY <2>4 DEF Served
  <2> QED
    BY <1>1, <2>3, <2>4, <2>5, DealerSkips
<1> QED
  BY <1>1, <1>2, <1>3, <1>4, <1>5, <1>6, <1>7, <1>8 DEF DealerNext
-----------------------------------------------------------------------------
(***************************************************************************)
(* The steps of the workers, and the theorem.                              *)
(***************************************************************************)
\* A step that leaves the dealer and the channels of worker v to it alone.
LEMMA OrderUntouched ==
    ASSUME NEW v \in Workers, Ordered(v), UNCHANGED dealerVars, wpc'[v] = wpc[v],
           chan'[v][DealerRank] = chan[v][DealerRank],
           chan'[DealerRank][v] = chan[DealerRank][v]
    PROVE  Ordered(v)'
<1>1. PushedTo(v)' = PushedTo(v) /\ (Served(v)' <=> Served(v)) /\ dpc' = dpc
  BY DEF dealerVars, PushedTo, Served
<1> QED
  BY <1>1, OrderKept

LEMMA WorkerGetPushOrder ==
    ASSUME OrderInv, ParamInv', NEW w \in Workers, WorkerGetPush(w), UNCHANGED dealerVars
    PROVE  Ordered(w)'
<1>1. PICK k \in DOMAIN Expected :
         /\ wpc[w] = Expected[k]
         /\ Arrived(DealerRank, w, {TagOf(Expected[k])})
         /\ wpc' = [wpc EXCEPT ![w] = IF k = Len(Expected) THEN "request" ELSE Expected[k + 1]]
  BY DEF WorkerGetPush
<1>2. ParamInv /\ Ordered(w) /\ chan' = Received(DealerRank, w)
  BY DEF OrderInv, WorkerGetPush
<1>3. k \in 1 .. 4 /\ Len(Expected) = 4
  BY DEF Expected
<1>4. PICK g \in 0 .. 3 : g = k - 1
  BY <1>3
<1>5. Got(w) = g
  <2>1. g = 0 \/ g = 1 \/ g = 2 \/ g = 3
    BY <1>4
  <2> QED
    BY <1>1, <1>3, <1>4, <2>1 DEF Got, Receives, Expected
<1>6. /\ Got(w)' = g + 1
      /\ wpc'[w] = IF g = 3 THEN "request" ELSE Expected[g + 2]
  <2>1. wpc'[w] = IF k = 4 THEN "request" ELSE Expected[k + 1]
    BY <1>1, <1>2, <1>3, ParamParts DEF WorkersTypeOK
  <2>2. k = g + 1 /\ (g = 0 \/ g = 1 \/ g = 2 \/ g = 3)
    BY <1>3, <1>4
  <2> QED
    BY <2>1, <2>2 DEF Got, Receives, Expected
<1>7. Shorter(DealerRank, w) /\ OthersKept(DealerRank, w)
  BY <1>1, <1>2, WorkerTakes
<1>8. chan'[w][DealerRank] = chan[w][DealerRank]
  BY <1>7, RankFacts DEF OthersKept
<1>9. PICK n \in 0 .. 4 : n = PushedTo(w)
  BY <1>2, PushedFacts
<1>10. PushedTo(w)' = n /\ (Served(w)' <=> Served(w))
  BY <1>9 DEF dealerVars, PushedTo, Served
<1>11. /\ chan[w][DealerRank] = <<>> /\ ~ Served(w)
       /\ Len(chan[DealerRank][w]) = n - g
       /\ \A j \in DOMAIN chan[DealerRank][w] :
             /\ chan[DealerRank][w][j].body = Expected[g + j]
             /\ chan[DealerRank][w][j].tag = TagOf(Expected[g + j])
  BY <1>2, <1>5, <1>9 DEF Ordered, DefinitionsDue
<1>12. /\ n - g > 0
       /\ DOMAIN chan[DealerRank][w] = 1 .. n - g
       /\ Len(chan'[DealerRank][w]) = n - g - 1
       /\ DOMAIN chan'[DealerRank][w] = 1 .. n - g - 1
       /\ \A j \in 1 .. n - g - 1 : chan'[DealerRank][w][j] = chan[DealerRank][w][j + 1]
  BY <1>7, <1>11 DEF Shorter
<1>13. CASE g = 3
  <2>1. n = 4 /\ Len(chan'[DealerRank][w]) = 0
    BY <1>9, <1>12, <1>13
  <2>2. chan'[DealerRank][w] = <<>>
    <3>1. Empties'
      BY EmptyFacts, PTL
    <3> QED
      BY <2>1, <3>1 DEF Empties
  <2>3. Silent(w)'
    BY <1>8, <1>10, <1>11, <2>2 DEF Silent
  <2>4. Protocol(w)'
    BY <1>6, <1>13, <2>3 DEF Protocol
  <2> QED
    BY <1>6, <1>10, <1>13, <2>1, <2>4 DEF Ordered
<1>14. CASE g < 3
  <2>1. ASSUME NEW j \in 1 .. n - g - 1
        PROVE  /\ chan'[DealerRank][w][j].body = Expected[g + 1 + j]
               /\ chan'[DealerRank][w][j].tag = TagOf(Expected[g + 1 + j])
    <3>1. j + 1 \in 1 .. n - g /\ g + (j + 1) = g + 1 + j
      BY <1>4, <1>9
    <3>2. /\ chan[DealerRank][w][j + 1].body = Expected[g + (j + 1)]
          /\ chan[DealerRank][w][j + 1].tag = TagOf(Expected[g + (j + 1)])
      BY <1>11, <1>12, <3>1
    <3>3. chan'[DealerRank][w][j] = chan[DealerRank][w][j + 1]
      BY <1>12
    <3> QED
      BY <3>1, <3>2, <3>3
  <2>2. PICK c : c = chan'[DealerRank][w]
    OBVIOUS
  <2>3. chan'[w][DealerRank] = <<>> /\ ~ Served(w)'
    BY <1>8, <1>10, <1>11
  <2>4. Len(c) = n - (g + 1)
    BY <1>4, <1>9, <1>12, <2>2
  <2>5. \A j \in DOMAIN c :
           c[j].body = Expected[g + 1 + j] /\ c[j].tag = TagOf(Expected[g + 1 + j])
    BY <1>12, <2>1, <2>2
  <2>6. DefinitionsDue(w)'
    BY <1>6, <1>10, <2>2, <2>3, <2>4, <2>5 DEF DefinitionsDue, TagOf
  <2> QED
    BY <1>4, <1>6, <1>9, <1>10, <1>12, <1>14, <2>6 DEF Ordered
<1> QED
  BY <1>13, <1>14

\* What a worker does when it has all the definitions.
LEMMA WorkerServedOrder ==
    ASSUME OrderInv, ParamInv', NEW w \in Workers, UNCHANGED dealerVars,
           \/ WorkerRequest(w)
           \/ WorkerGetHeader(w)
           \/ WorkerGetData(w)
    PROVE  Ordered(w)'
<1>1. ParamInv /\ Ordered(w) /\ wpc \in [Workers -> {"paramCount", "params", "varCount", "vars",
         "request", "header", "data", "sendHeader", "sendData", "end", "finalize"}]
  BY DEF OrderInv, ParamInv, WorkersTypeOK
<1>2. Empties /\ Empties'
  BY <1>1, EmptyFacts, PTL
<1>3. wpc[w] \in {"request", "header", "data"}
  BY DEF WorkerRequest, WorkerGetHeader, WorkerGetData
<1>4. Got(w) = 4 /\ Got(w) <= PushedTo(w) /\ Protocol(w)
  BY <1>1, <1>3, GotFacts DEF Ordered
<1>5. /\ PushedTo(w)' = PushedTo(w) /\ dpc' = dpc
      /\ Served(w)' <=> Served(w)
  BY DEF dealerVars, PushedTo, Served
<1>6. SUFFICES wpc'[w] \in {"header", "data", "end", "sendHeader"} /\ Protocol(w)'
  <2>1. ASSUME wpc'[w] \in {"header", "data", "end", "sendHeader"} PROVE Got(w)' = 4
    BY <2>1 DEF Got, Receives
  <2> QED
    BY <1>4, <1>5, <2>1 DEF Ordered
<1>7. CASE WorkerRequest(w)
  <2>1. wpc[w] = "request" /\ wpc'[w] = "header" /\ Send(w, DealerRank, "REQUEST", w)
    BY <1>1, <1>7 DEF WorkerRequest
  <2>2. Longer(w, DealerRank, "REQUEST", w) /\ OthersKept(w, DealerRank)
    BY <1>1, <2>1, RankFacts, ParamSent
  <2>3. chan'[DealerRank][w] = chan[DealerRank][w]
    BY <2>2, RankFacts DEF OthersKept
  <2>4. Silent(w)
    BY <1>4, <2>1 DEF Protocol
  <2>5. Asked(w)'
    BY <1>2, <1>5, <2>2, <2>3, <2>4 DEF Silent, Asked, Longer, Empties
  <2> QED
    BY <2>1, <2>5 DEF Protocol
<1>8. CASE WorkerGetHeader(w)
  <2>1. wpc[w] = "header" /\ Arrived(DealerRank, w, {"HEADER"}) /\ chan' = Received(DealerRank, w)
    BY <1>8 DEF WorkerGetHeader
  <2>2. PICK header : header = chan[DealerRank][w][1].body
    OBVIOUS
  <2>3. /\ Shorter(DealerRank, w) /\ OthersKept(DealerRank, w)
        /\ FirstBody(DealerRank, w) = header
    BY <1>1, <2>1, <2>2, WorkerTakes
  <2>4. wpc'[w] = IF header.end THEN "end" ELSE "data"
    BY <1>1, <1>8, <2>3 DEF WorkerGetHeader
  <2>5. chan'[w][DealerRank] = chan[w][DealerRank]
    BY <2>3, RankFacts DEF OthersKept
  <2>6. PICK n \in Nat : /\ n = Len(chan[DealerRank][w]) /\ n > 0
                         /\ Len(chan'[DealerRank][w]) = n - 1
                         /\ \A k \in 1 .. n - 1 :
                               chan'[DealerRank][w][k] = chan[DealerRank][w][k + 1]
                         /\ chan[DealerRank][w] # <<>>
                         /\ chan'[DealerRank][w] = <<>> <=> n - 1 = 0
    BY <1>2, <2>3 DEF Shorter, Empties
  <2>7. HeaderSent(w) \/ BothSent(w) \/ EndSent(w)
    BY <1>4, <2>1, <2>6 DEF Protocol, Asked, HeaderDue
  <2>8. CASE HeaderSent(w)
    <3>1. wpc'[w] = "data" /\ n = 1
      BY <2>2, <2>4, <2>6, <2>8 DEF HeaderSent
    <3>2. DataDue(w)'
      BY <1>5, <2>5, <2>6, <2>8, <3>1 DEF HeaderSent, DataDue
    <3> QED
      BY <3>1, <3>2 DEF Protocol
  <2>9. CASE BothSent(w)
    <3>1. wpc'[w] = "data" /\ n = 2
      BY <2>2, <2>4, <2>6, <2>9 DEF BothSent
    <3>2. chan'[DealerRank][w][1] = chan[DealerRank][w][2] /\ Len(chan'[DealerRank][w]) = 1
      BY <2>6, <3>1
    <3>3. DataSent(w)'
      BY <1>5, <2>5, <2>9, <3>2 DEF BothSent, DataSent
    <3> QED
      BY <3>1, <3>3 DEF Protocol
  <2>10. CASE EndSent(w)
    <3>1. wpc'[w] = "end" /\ n = 1
      BY <2>2, <2>4, <2>6, <2>10 DEF EndSent
    <3>2. Silent(w)'
      BY <1>5, <2>5, <2>6, <2>10, <3>1 DEF EndSent, Silent
    <3> QED
      BY <3>1, <3>2 DEF Protocol
  <2> QED
    BY <2>7, <2>8, <2>9, <2>10
<1>9. CASE WorkerGetData(w)
  <2>1. /\ wpc[w] = "data" /\ wpc'[w] = "sendHeader"
        /\ Arrived(DealerRank, w, {"DATA"}) /\ chan' = Received(DealerRank, w)
    BY <1>1, <1>9 DEF WorkerGetData
  <2>2. Shorter(DealerRank, w) /\ OthersKept(DealerRank, w)
    BY <1>1, <2>1, WorkerTakes
  <2>3. chan'[w][DealerRank] = chan[w][DealerRank]
    BY <2>2, RankFacts DEF OthersKept
  <2>4. DataSent(w)
    BY <1>2, <1>4, <2>1, <2>2 DEF Protocol, DataDue, Shorter, Empties
  <2>5. chan'[DealerRank][w] = <<>>
    BY <1>2, <2>2, <2>4 DEF Shorter, Empties, DataSent
  <2>6. Silent(w)'
    BY <1>5, <2>3, <2>4, <2>5 DEF DataSent, Silent
  <2> QED
    BY <2>1, <2>6 DEF Protocol
<1> QED
  BY <1>7, <1>8, <1>9

LEMMA WorkerOrder ==
    ASSUME OrderInv, ParamInv', NEW w \in Workers, WorkerStep(w), NEW v \in Workers
    PROVE  Ordered(v)'
<1>1. /\ ParamInv /\ Ordered(v) /\ WorkerNext(w) /\ UNCHANGED dealerVars
      /\ wpc \in [Workers -> {"paramCount", "params", "varCount", "vars", "request",
                              "header", "data", "sendHeader", "sendData", "end", "finalize"}]
  BY DEF OrderInv, WorkerStep, ParamInv, WorkersTypeOK
<1>2. CASE WorkerSendHeader(w) \/ WorkerSendData(w) \/ WorkerSendEnd(w)
  <2>1. PICK tag, body : Send(w, FarmerRank, tag, body)
    BY <1>2 DEF WorkerSendHeader, WorkerSendData, WorkerSendEnd
  <2>2. OthersKept(w, FarmerRank)
    BY <1>1, <2>1, RankFacts, ParamSent
  <2>3. /\ chan'[v][DealerRank] = chan[v][DealerRank]
        /\ chan'[DealerRank][v] = chan[DealerRank][v]
    BY <2>2, RankFacts DEF OthersKept
  <2>4. CASE v # w
    <3>1. wpc'[v] = wpc[v]
      BY <1>1, <1>2, <2>4 DEF WorkerSendHeader, WorkerSendData, WorkerSendEnd
    <3> QED
      BY <1>1, <2>3, <3>1, OrderUntouched
  <2>5. CASE v = w
    <3>1. /\ wpc[w] \in {"sendHeader", "sendData", "end"}
          /\ wpc'[w] \in {"sendData", "request", "finalize"}
      BY <1>1, <1>2 DEF WorkerSendHeader, WorkerSendData, WorkerSendEnd
    <3>2. Got(w) = 4 /\ Got(w)' = 4
      BY <3>1 DEF Got, Receives
    <3>3. Silent(w) /\ Got(w) <= PushedTo(w)
      BY <1>1, <2>5, <3>1, <3>2 DEF Ordered, Protocol
    <3>4. Silent(w)' /\ PushedTo(w)' = PushedTo(w)
      BY <1>1, <2>3, <2>5, <3>3 DEF Silent, Served, PushedTo, dealerVars
    <3> QED
      BY <2>5, <3>1, <3>2, <3>3, <3>4 DEF Ordered, Protocol
  <2> QED
    BY <2>4, <2>5
<1>3. CASE \/ WorkerGetPush(w) \/ WorkerRequest(w) \/ WorkerGetHeader(w) \/ WorkerGetData(w)
  <2>1. CASE v = w
    BY <1>1, <1>3, <2>1, WorkerGetPushOrder, WorkerServedOrder
  <2>2. CASE v # w
    <3>1. OthersKept(DealerRank, w) \/ OthersKept(w, DealerRank)
      <4>1. CASE WorkerRequest(w)
        <5>1. Send(w, DealerRank, "REQUEST", w)
          BY <4>1 DEF WorkerRequest
        <5> QED
          BY <1>1, <5>1, RankFacts, ParamSent
      <4>2. CASE WorkerGetPush(w) \/ WorkerGetHeader(w) \/ WorkerGetData(w)
        <5>1. PICK tags : Arrived(DealerRank, w, tags) /\ chan' = Received(DealerRank, w)
          BY <4>2 DEF WorkerGetPush, WorkerGetHeader, WorkerGetData
        <5> QED
          BY <1>1, <5>1, WorkerTakes
      <4> QED
        BY <1>3, <4>1, <4>2
    <3>2. /\ chan'[v][DealerRank] = chan[v][DealerRank]
          /\ chan'[DealerRank][v] = chan[DealerRank][v]
      BY <2>2, <3>1, RankFacts DEF OthersKept
    <3>3. wpc'[v] = wpc[v]
      BY <1>1, <1>3, <2>2 DEF WorkerGetPush, WorkerRequest, WorkerGetHeader, WorkerGetData
    <3> QED
      BY <1>1, <3>2, <3>3, OrderUntouched
  <2> QED
    BY <2>1, <2>2
<1> QED
  BY <1>1, <1>2, <1>3 DEF WorkerNext

\* The farmer and the outputter do not talk to the dealer, nor to a worker.
LEMMA FarmerOrder ==
    ASSUME OrderInv, FarmerStep, NEW v \in Workers
    PROVE  Ordered(v)'
<1>1. /\ ParamInv /\ Ordered(v) /\ FarmerOK /\ FarmerNext /\ UNCHANGED dealerVars
      /\ UNCHANGED outputVars /\ wpc'[v] = wpc[v]
  BY ParamParts DEF OrderInv, FarmerStep, workerVars
<1>2. \/ OthersKept(FarmerRank, OutputRank)
      \/ \E w \in Workers : OthersKept(w, FarmerRank)
  <2>1. CASE FarmerEmitHeader \/ FarmerEmitData \/ FarmerSendEnd
    <3>1. PICK tag, body : Send(FarmerRank, OutputRank, tag, body)
      BY <2>1 DEF FarmerEmitHeader, FarmerEmitData, FarmerSendEnd
    <3> QED
      BY <1>1, <3>1, RankFacts, ParamSent
  <2>2. CASE FarmerGetHeader \/ FarmerGetData \/ FarmerGetEnd
    <3>1. PICK w \in Workers, tag \in {"HEADER", "DATA", "END"} : StreamTaken(w, tag)
      BY <1>1, <2>2, FarmerTakesHeader, FarmerTakesData, FarmerTakesEnd
    <3>2. Takes(w, FarmerRank)
      BY <3>1 DEF StreamTaken
    <3> QED
      BY <1>1, <3>2, RankFacts, ParamParts, TypedTaken
  <2> QED
    BY <1>1, <2>1, <2>2 DEF FarmerNext
<1>3. /\ chan'[v][DealerRank] = chan[v][DealerRank]
      /\ chan'[DealerRank][v] = chan[DealerRank][v]
  BY <1>2, RankFacts DEF OthersKept
<1> QED
  BY <1>1, <1>3, OrderUntouched

LEMMA OutputOrder ==
    ASSUME OrderInv, OutputStep, NEW v \in Workers
    PROVE  Ordered(v)'
<1>1. /\ ParamInv /\ Ordered(v) /\ OutputNext /\ UNCHANGED farmerVars /\ UNCHANGED dealerVars
      /\ wpc'[v] = wpc[v]
  BY DEF OrderInv, OutputStep, workerVars
<1>2. PICK r \in Sources : Takes(r, OutputRank)
  BY <1>1, OutputTakesFrom
<1>3. OthersKept(r, OutputRank)
  BY <1>1, <1>2, RankFacts, ParamParts, TypedTaken
<1>4. /\ chan'[v][DealerRank] = chan[v][DealerRank]
      /\ chan'[DealerRank][v] = chan[DealerRank][v]
  BY <1>3, RankFacts DEF OthersKept
<1> QED
  BY <1>1, <1>4, OrderUntouched

LEMMA OrderInvInit == Init => OrderInv
<1> SUFFICES ASSUME Init, NEW w \in Workers PROVE Ordered(w)
  BY ParamInvInit DEF OrderInv
<1>1. /\ chan[w][DealerRank] = <<>> /\ chan[DealerRank][w] = <<>>
      /\ dpc = "read" /\ pushed = 0 /\ wpc[w] = "paramCount"
  BY RankFacts DEF Init, MPIInit
<1>2. Got(w) = 0 /\ PushedTo(w) = 0 /\ ~ Served(w)
  BY <1>1 DEF Got, Receives, PushedTo, Served
<1>3. DefinitionsDue(w)
  BY <1>1, <1>2 DEF DefinitionsDue
<1> QED
  BY <1>2, <1>3 DEF Ordered

LEMMA OrderInvNext == ParamsDefined /\ OrderInv /\ [Next]_vars => OrderInv'
<1> SUFFICES ASSUME ParamsDefined, OrderInv, [Next]_vars PROVE OrderInv'
  OBVIOUS
<1>1. ParamInv'
  BY ParamInvNext DEF OrderInv
<1>2. ASSUME NEW v \in Workers PROVE Ordered(v)'
  <2>1. CASE DealerStep
    BY <1>1, <2>1, DealerOrder
  <2>2. CASE FarmerStep
    BY <2>2, FarmerOrder
  <2>3. CASE OutputStep
    BY <2>3, OutputOrder
  <2>4. CASE \E w \in Workers : WorkerStep(w)
    BY <1>1, <2>4, WorkerOrder
  <2>5. CASE UNCHANGED vars
    <3>1. Ordered(v) /\ UNCHANGED dealerVars /\ chan' = chan /\ wpc' = wpc
      BY <2>5 DEF OrderInv, vars, workerVars
    <3> QED
      BY <3>1, OrderUntouched
  <2> QED
    BY <2>1, <2>2, <2>3, <2>4, <2>5 DEF Next, Finished
<1> QED
  BY <1>1, <1>2 DEF OrderInv

\* The first message waiting is the one that the worker waits for.
LEMMA OrderedReceives == OrderInv => ReceivedInOrder
<1> SUFFICES ASSUME OrderInv, NEW w \in Workers, chan[DealerRank][w] # <<>>,
                    NEW msg, msg = Head(chan[DealerRank][w]),
                    NEW pending, pending = {k \in DOMAIN Expected : wpc[w] = Expected[k]}
             PROVE  IF pending = {}
                    THEN msg.tag = IF wpc[w] = "data" THEN "DATA" ELSE "HEADER"
                    ELSE \A k \in pending : msg.body = Expected[k]
  BY DEF ReceivedInOrder
<1>1. ParamInv /\ Ordered(w) /\ DOMAIN Expected = 1 .. 4
  BY DEF OrderInv, Expected
<1>2. /\ 1 \in DOMAIN chan[DealerRank][w] /\ msg = chan[DealerRank][w][1]
      /\ Len(chan[DealerRank][w]) \in Nat
  <2>1. chan[DealerRank][w] \in Seq(ToWorker)
    BY <1>1, ParamParts DEF MessagesOK
  <2> QED
    BY <2>1
<1>3. CASE Got(w) < 4
  <2>1. PICK g \in 0 .. 3 : g = Got(w) /\ wpc[w] = Expected[g + 1]
    BY <1>1, <1>3, GotFacts
  <2>2. msg.body = Expected[g + 1]
    BY <1>1, <1>2, <1>3, <2>1 DEF Ordered, DefinitionsDue
  <2>3. g + 1 \in pending
    BY <1>1, <2>1
  <2>4. \A k \in pending : wpc[w] = Expected[k]
    OBVIOUS
  <2> QED
    BY <2>1, <2>2, <2>3, <2>4
<1>4. CASE ~ (Got(w) < 4)
  <2>1. Got(w) = 4 /\ wpc[w] \notin {"paramCount", "params", "varCount", "vars"}
    BY <1>1, <1>4, GotFacts
  <2>2. pending = {}
    <3>1. ASSUME NEW k \in 1 .. 4 PROVE wpc[w] # Expected[k]
      <4>1. k = 1 \/ k = 2 \/ k = 3 \/ k = 4
        OBVIOUS
      <4> QED
        BY <2>1, <4>1 DEF Expected
    <3> QED
      BY <1>1, <3>1
  <2>3. Protocol(w)
    BY <1>1, <1>4 DEF Ordered
  <2>4. msg.tag = IF wpc[w] = "data" THEN "DATA" ELSE "HEADER"
    BY <1>2, <2>3
    DEF Protocol, Silent, Asked, HeaderDue, HeaderSent, BothSent, EndSent, DataDue, DataSent
  <2> QED
    BY <2>2, <2>4
<1> QED
  BY <1>3, <1>4

(***************************************************************************)
(* Where no file has an empty list of parameters, no receive of a worker   *)
(* can match a message meant for a later one, however the dealer's pushes  *)
(* and answers and the workers' requests interleave, also when the dealer  *)
(* leaves off in the middle of the pushes.                                 *)
(***************************************************************************)
THEOREM ParamReceivesInOrder == ParamsDefined /\ Spec => []ReceivedInOrder
<1>1. CASE ParamsDefined
  <2>1. OrderInv /\ [Next]_vars => OrderInv'
    BY <1>1, OrderInvNext
  <2>2. Spec => []ReceivedInOrder
    BY <2>1, OrderInvInit, OrderedReceives, PTL DEF Spec
  <2> QED
    BY <2>2
<1>2. CASE ~ ParamsDefined
  BY <1>2
<1> QED
  BY <1>1, <1>2
-----------------------------------------------------------------------------
(***************************************************************************)
(* The stream of events, where a block holds a whole file: after the first *)
(* block the dealer's pItem is stale and other events are dealt than those *)
(* of the file (param_stale).  Only the last item of a file can be cut off *)
(* by its end.                                                             *)
(***************************************************************************)
OneBlock == \A f \in Files, cap \in BlockCaps : Len(f) <= cap

CutAtTheEnd == \A f \in Files : \A i \in DOMAIN f : f[i] = "torn" => i = Len(f)

StreamAssumed == ParamsDefined /\ OneBlock /\ CutAtTheEnd

(***************************************************************************)
(* The dealer goes through its one block item by item, if that starts with *)
(* the definitions.                                                        *)
(***************************************************************************)
Dealing == dpc = "take" \/ AtItem

\* Every event has been sent: only ends follow.
Ending == dpc \in {"eofRequest", "sendEof"} \/ (dpc = "finalize" /\ eofsLeft = 0)

InOneBlock ==
    /\ dpc \in {"read", "push"} => first = 0 /\ cur = 3
    /\ dpc = "push" => /\ file[1] = "defs" /\ (pushed >= 2 => file[2] = "vars")
                       /\ len = WholeFrom(0) /\ len >= 2 /\ nItems = len - 2
    /\ Dealing => /\ WellFormed /\ first = 0 /\ len = WholeFrom(0)
                  /\ cur >= 3 /\ cur + nItems = len + 1
    /\ AtItem => item = cur
    /\ dpc \in {"passHeader", "passData"} => file[item] # "data"
    /\ Ending => WellFormed

\* The first of the items that the dealer has not been through.
Reached == IF dpc \in {"read", "push"} \/ Dealing THEN cur ELSE Len(file) + 1

AllEvents == {i \in DOMAIN file : file[i] = "data"}

\* The events that have been sent to a worker.
Dealt == {i \in AllEvents : WellFormed /\ i < Reached}
-----------------------------------------------------------------------------
(***************************************************************************)
(* Where the events are: with a worker or about to be, on their way from   *)
(* it to the farmer, or given to the sorter.                               *)
(***************************************************************************)
DataPlaces(a, b) == {k \in DOMAIN chan[a][b] : chan[a][b][k].tag = "DATA"}

AnswerTo(w) == {chan[DealerRank][w][k].body : k \in DataPlaces(DealerRank, w)}

WithWorker(w) == IF wpc[w] \in {"sendHeader", "sendData"} THEN {wevent[w]} ELSE AnswerTo(w)

FromWorker(w) == {chan[w][FarmerRank][k].body : k \in DataPlaces(w, FarmerRank)}

OnTheWay(w) == WithWorker(w) \union FromWorker(w)

GivenEvents == {given[t] : t \in DOMAIN given}

Everywhere == GivenEvents \union UNION {OnTheWay(w) : w \in Workers}

\* What was dealt is in one place, and nothing else is; if the dealer throws,
\* it may have passed items that it did not deal.
OnceFrom(w) ==
    /\ \A k, l \in DataPlaces(w, FarmerRank) :
          chan[w][FarmerRank][k].body = chan[w][FarmerRank][l].body => k = l
    /\ WithWorker(w) \intersect FromWorker(w) = {}

Apart ==
    \A w \in Workers :
       /\ OnTheWay(w) \intersect GivenEvents = {}
       /\ \A v \in Workers \ {w} : OnTheWay(v) \intersect OnTheWay(w) = {}

NothingElse == Everywhere \subseteq Dealt

NothingMissed == Dealing \/ Ending => Dealt \subseteq Everywhere

(***************************************************************************)
(* Every event goes with the number that the file stores in it.            *)
(***************************************************************************)
HeaderOf(w) ==
    IF wpc[w] = "header" /\ chan[DealerRank][w] # <<>> THEN chan[DealerRank][w][1].body.trigger
    ELSE wtrigger[w]

RightNumbers(w) ==
    /\ \A i \in WithWorker(w) : HeaderOf(w) = TriggerOf(i)
    /\ dpc = "sendData" /\ dest = w => HeaderOf(w) = TriggerOf(item)
    /\ \A k \in DataPlaces(w, FarmerRank) :
          Before(w, k).body = TriggerOf(chan[w][FarmerRank][k].body)

GivenAsNumbered == \A t \in DOMAIN given : TriggerOf(given[t]) = t

\* Workers are sent an end when there is nothing else to send.
IsEnd(msg) == msg.tag = "HEADER" /\ msg.body.end

EndIsLast(w) ==
    \/ wpc[w] \in {"end", "finalize"}
    \/ \E k \in DOMAIN chan[DealerRank][w] : IsEnd(chan[DealerRank][w][k])
    => Ending

InSequence == \A e \in DOMAIN emitted : emitted[e].trigger = e - 1

AllEmitted == flushed => WellFormed /\ Len(emitted) = Cardinality(AllEvents)

(***************************************************************************)
(* The invariant behind the stream.                                        *)
(***************************************************************************)
AtWorkers(w) == OnceFrom(w) /\ RightNumbers(w) /\ EndIsLast(w)

EventsOK == Apart /\ NothingElse /\ NothingMissed /\ GivenAsNumbered

NumberedInv ==
    /\ OrderInv
    /\ SorterInv
    /\ InOneBlock
    /\ \A w \in Workers : AtWorkers(w)
    /\ EventsOK
    /\ InSequence
    /\ AllEmitted
-----------------------------------------------------------------------------
(***************************************************************************)
(* The block is the file, up to an item that is cut off.                   *)
(***************************************************************************)
LEMMA WholeFacts ==
    ASSUME CutAtTheEnd, file \in Files
    PROVE  /\ WholeFrom(0) \in 0 .. Len(file)
           /\ \A i \in DOMAIN file : file[i] # "torn" => i <= WholeFrom(0)
           /\ WholeFrom(WholeFrom(0)) = 0
<1>1. file \in Seq(ItemKinds) /\ \A i \in DOMAIN file : file[i] = "torn" => i = Len(file)
  BY ParamAssumption DEF CutAtTheEnd
<1>2. PICK n \in Nat : n = Len(file) /\ DOMAIN file = 1 .. n
  BY <1>1
<1>3. PICK m \in Nat : /\ m <= n
                       /\ \A i \in 1 .. n : file[i] # "torn" <=> i <= m
  <2>1. CASE n > 0 /\ file[n] = "torn"
    <3>1. n - 1 \in Nat /\ \A i \in 1 .. n : file[i] # "torn" <=> i <= n - 1
      BY <1>1, <1>2, <2>1
    <3> QED
      BY <3>1
  <2>2. CASE ~ (n > 0 /\ file[n] = "torn")
    <3>1. \A i \in 1 .. n : file[i] # "torn" <=> i <= n
      BY <1>1, <1>2, <2>2
    <3> QED
      BY <3>1
  <2> QED
    BY <2>1, <2>2
<1>4. WholeFrom(0) = m
  <2>1. {i \in 0 + 1 .. Len(file) : \A j \in 0 + 1 .. i : file[j] # "torn"} = 1 .. m
    <3>1. ASSUME NEW i \in 1 .. n
          PROVE  (\A j \in 1 .. i : file[j] # "torn") <=> i <= m
      BY <1>3, <3>1
    <3> QED
      BY <1>2, <1>3, <3>1
  <2>2. Cardinality(1 .. m) = m
    BY FS_Interval
  <2> QED
    BY <2>1, <2>2 DEF WholeFrom
<1>5. WholeFrom(m) = 0
  <2>1. {i \in m + 1 .. Len(file) : \A j \in m + 1 .. i : file[j] # "torn"} = {}
    <3>1. ASSUME NEW i \in m + 1 .. n PROVE \E j \in m + 1 .. i : file[j] = "torn"
      <4>1. i \in m + 1 .. i /\ i \in 1 .. n /\ ~ (i <= m)
        BY <3>1
      <4> QED
        BY <1>3, <4>1
    <3> QED
      BY <1>2, <3>1
  <2> QED
    BY <2>1, FS_EmptySet DEF WholeFrom
<1> QED
  BY <1>2, <1>3, <1>4, <1>5

LEMMA OneBlockLen ==
    ASSUME OneBlock, CutAtTheEnd, file \in Files
    PROVE  /\ \A n \in BlockLens(0) : n = WholeFrom(0)
           /\ BlockLens(WholeFrom(0)) \subseteq {0}
<1>1. file \in Seq(ItemKinds)
  BY ParamAssumption
<1>2. PICK m \in 0 .. Len(file) : m = WholeFrom(0) /\ WholeFrom(m) = 0
  BY WholeFacts
<1>3. ASSUME NEW cap \in BlockCaps PROVE m <= cap /\ 0 <= cap
  <2>1. Len(file) <= cap /\ cap \in Nat /\ Len(file) \in Nat
    BY <1>1, ParamAssumption DEF OneBlock
  <2> QED
    BY <2>1
<1> QED
  BY <1>2, <1>3 DEF BlockLens
-----------------------------------------------------------------------------
(***************************************************************************)
(* What a step of the dealer adds to what was dealt: the events of S.      *)
(***************************************************************************)
Passes(S) ==
    /\ file' = file /\ WellFormed' = WellFormed
    /\ InOneBlock'
    /\ Dealt \union S \subseteq Dealt'
    /\ Dealing' \/ Ending' => \/ Dealt' = {}
                              \/ Dealt' \subseteq Dealt \union S /\ (Dealing \/ Ending)
    /\ Ending => Ending'

LEMMA WellFormedKept == file' = file => WellFormed' = WellFormed /\ AllEvents' = AllEvents
BY DEF WellFormed, AllEvents

\* An event is one of the items that come with the block, and not a definition.
LEMMA EventsInBlock ==
    ASSUME CutAtTheEnd, ParamInv, NEW i \in AllEvents
    PROVE  /\ i \in Nat /\ 1 <= i /\ i <= WholeFrom(0) /\ i <= Len(file)
           /\ WellFormed => 3 <= i
<1>1. file \in Files /\ file \in Seq(ItemKinds) /\ Len(file) \in Nat
  BY ParamParts DEF DealerTypeOK
<1>2. i \in 1 .. Len(file) /\ file[i] = "data" /\ file # <<>>
  BY <1>1 DEF AllEvents
<1>3. i <= WholeFrom(0)
  BY <1>1, <1>2, WholeFacts
<1>4. WellFormed => i # 1 /\ i # 2
  BY <1>2 DEF WellFormed
<1> QED
  BY <1>1, <1>2, <1>3, <1>4

LEMMA NextItemPasses ==
    ASSUME StreamAssumed, ParamInv, InOneBlock, AtItem, NextItem,
           UNCHANGED <<file, defined, item, eofsLeft>>
    PROVE  /\ Passes({item} \intersect AllEvents)
           /\ item \in DOMAIN file /\ item \notin Dealt /\ WellFormed
<1>1. /\ file' = file /\ eofsLeft' = eofsLeft /\ file \in Files
      /\ OneBlock /\ CutAtTheEnd
      /\ first \in Nat /\ len \in Nat /\ nItems \in Nat /\ cur \in Nat /\ Len(file) \in Nat
      /\ nItems > 0 /\ eofsLeft > 0 /\ eofsLeft \in Nat /\ Dealing /\ ~ Ending
  <2>1. dpc # "finalize" /\ Dealing /\ ~ Ending
    BY DEF AtItem, Dealing, Ending
  <2> QED
    BY <2>1, ParamParts, MPIAssumption DEF StreamAssumed, DealerTypeOK, DealerOK
<1>2. /\ WellFormed /\ first = 0 /\ len = WholeFrom(0) /\ item = cur
      /\ cur >= 3 /\ cur + nItems = len + 1 /\ len <= Len(file)
  BY <1>1, WholeFacts DEF InOneBlock, Dealing
<1>3. WholeFrom(0)' = WholeFrom(0) /\ WellFormed' = WellFormed /\ AllEvents' = AllEvents
  BY <1>1, WellFormedKept DEF WholeFrom
<1>4. item \in DOMAIN file /\ item \notin Dealt /\ Reached = cur
  <2>1. Reached = cur
    BY <1>1 DEF Reached
  <2>2. cur \in 1 .. Len(file) /\ DOMAIN file = 1 .. Len(file)
    BY <1>1, <1>2, ParamParts
  <2> QED
    BY <1>1, <1>2, <2>1, <2>2 DEF Dealt
<1>5. ASSUME Reached' \in Nat, \A i \in AllEvents : i < Reached' <=> i <= cur
      PROVE  Dealt' = Dealt \union ({item} \intersect AllEvents)
  <2>1. ASSUME NEW i \in AllEvents PROVE i <= cur <=> i < cur \/ i = cur
    BY <1>1, <2>1, EventsInBlock
  <2>2. Dealt' = {i \in AllEvents : i < Reached'}
    BY <1>2, <1>3 DEF Dealt
  <2>3. Dealt = {i \in AllEvents : i < cur}
    BY <1>2, <1>4 DEF Dealt
  <2> QED
    BY <1>2, <1>5, <2>1, <2>2, <2>3
<1>6. CASE /\ nItems > 1 /\ nItems' = nItems - 1 /\ cur' = cur + 1 /\ dpc' = "take"
           /\ UNCHANGED <<first, len>>
  <2>1. Dealing' /\ ~ AtItem' /\ ~ Ending'
    BY <1>6 DEF Dealing, AtItem, Ending
  <2>2. InOneBlock'
    <3>1. cur' >= 3 /\ cur' + nItems' = len' + 1 /\ first' = 0 /\ len' = WholeFrom(0)'
      BY <1>1, <1>2, <1>3, <1>6
    <3> QED
      BY <1>2, <1>3, <1>6, <2>1, <3>1 DEF InOneBlock
  <2>3. Reached' = cur + 1
    BY <1>6, <2>1 DEF Reached
  <2>4. \A i \in AllEvents : i < cur + 1 <=> i <= cur
    BY <1>1, EventsInBlock
  <2>5. Dealt' = Dealt \union ({item} \intersect AllEvents)
    BY <1>1, <1>5, <2>3, <2>4
  <2> QED
    BY <1>1, <1>2, <1>3, <1>4, <2>1, <2>2, <2>5 DEF Passes
<1>7. CASE nItems = 1 /\ dpc' \in {"eofRequest", "finalize"}
  <2>1. ~ Dealing' /\ ~ AtItem' /\ dpc' \notin {"read", "push"}
    BY <1>7 DEF Dealing, AtItem
  <2>2. InOneBlock'
    BY <1>2, <1>3, <1>7, <2>1 DEF InOneBlock
  <2>3. Reached' = Len(file) + 1
    BY <1>1, <2>1 DEF Reached
  <2>4. cur = len
    BY <1>1, <1>2, <1>7
  <2>5. \A i \in AllEvents : i < Len(file) + 1 <=> i <= cur
    BY <1>1, <1>2, <2>4, EventsInBlock
  <2>6. Dealt' = Dealt \union ({item} \intersect AllEvents)
    BY <1>1, <1>5, <2>3, <2>5
  <2> QED
    BY <1>1, <1>2, <1>3, <1>4, <2>2, <2>6 DEF Passes
<1>8. CASE /\ nItems = 1 /\ first' = first + len /\ cur' = cur
           /\ \E n \in BlockLens(first') :
                 /\ len' = n /\ nItems' = n
                 /\ dpc' = IF n > 0 THEN "take" ELSE "eofRequest"
  <2>1. first' = WholeFrom(0)
    BY <1>1, <1>2, <1>8
  <2>2. dpc' = "eofRequest"
    BY <1>1, <1>8, <2>1, OneBlockLen
  <2> QED
    BY <1>7, <1>8, <2>2
<1> QED
  BY <1>6, <1>7, <1>8 DEF NextItem

LEMMA DealerReadPasses ==
    ASSUME StreamAssumed, ParamInv, InOneBlock, DealerRead \/ DealerThrow
    PROVE  Passes({})
<1>1. /\ file' = file /\ eofsLeft' = eofsLeft /\ cur' = cur /\ first' = first /\ pushed' = pushed
      /\ file \in Files /\ OneBlock /\ CutAtTheEnd /\ dpc = "read" /\ first = 0 /\ cur = 3
      /\ eofsLeft > 0 /\ eofsLeft \in Nat /\ pushed = 0 /\ Len(file) \in Nat
  BY ParamParts, MPIAssumption
  DEF StreamAssumed, DealerTypeOK, DealerOK, DealerRead, DealerThrow, InOneBlock
<1>2. /\ WholeFrom(0)' = WholeFrom(0) /\ WellFormed' = WellFormed /\ AllEvents' = AllEvents
      /\ WholeFrom(0) \in Nat
  BY <1>1, WellFormedKept, WholeFacts DEF WholeFrom
<1>3. Reached = 3 /\ ~ Ending /\ ~ Dealing
  BY <1>1 DEF Reached, Ending, Dealing, AtItem
<1>4. \A i \in AllEvents : i < 3 => i < Len(file) + 1
  BY <1>1, EventsInBlock
<1>5. CASE dpc' = "eofRequest" /\ file = <<>>
  <2>1. AllEvents = {} /\ WellFormed
    BY <1>5 DEF AllEvents, WellFormed
  <2>2. InOneBlock' /\ Dealt' = {} /\ Dealt = {}
    BY <1>1, <1>2, <1>5, <2>1 DEF InOneBlock, Dealing, AtItem, Dealt
  <2> QED
    BY <1>1, <1>2, <1>3, <2>2 DEF Passes
<1>6. CASE dpc' = "push" /\ file[1] = "defs" /\ len' >= 2
          /\ len' = WholeFrom(0) /\ nItems' = len' - 2
  <2>1. InOneBlock' /\ Reached' = 3 /\ ~ Dealing' /\ ~ Ending'
    BY <1>1, <1>2, <1>6 DEF InOneBlock, Dealing, AtItem, Ending, Reached
  <2>2. Dealt' = Dealt
    BY <1>2, <1>3, <2>1 DEF Dealt
  <2> QED
    BY <1>1, <1>2, <1>3, <2>1, <2>2 DEF Passes
<1>7. CASE dpc' = "finalize"
  <2>1. InOneBlock' /\ Reached' = Len(file) + 1 /\ ~ Dealing' /\ ~ Ending'
    BY <1>1, <1>2, <1>7 DEF InOneBlock, Dealing, AtItem, Ending, Reached
  <2>2. Dealt \subseteq Dealt'
    BY <1>2, <1>3, <1>4, <2>1 DEF Dealt
  <2> QED
    BY <1>1, <1>2, <1>3, <2>1, <2>2 DEF Passes
<1>8. CASE DealerRead
  <2>1. PICK n \in BlockLens(0) :
           /\ len' = n /\ nItems' = IF n < 2 THEN 0 ELSE n - 2
           /\ dpc' = IF file = <<>> THEN "eofRequest"
                     ELSE IF n >= 2 /\ file[1] = "defs" THEN "push" ELSE "finalize"
    BY <1>8 DEF DealerRead
  <2>2. n = WholeFrom(0)
    BY <1>1, OneBlockLen
  <2> QED
    BY <1>2, <1>5, <1>6, <1>7, <2>1, <2>2
<1> QED
  BY <1>7, <1>8 DEF DealerThrow

LEMMA DealerPushPasses ==
    ASSUME StreamAssumed, ParamInv, InOneBlock, DealerPush
    PROVE  Passes({})
<1>1. /\ UNCHANGED <<file, defined, first, len, cur, nItems, item, eofsLeft>>
      /\ file \in Files /\ CutAtTheEnd /\ ParamsDefined /\ dpc = "push" /\ first = 0 /\ cur = 3
      /\ eofsLeft > 0 /\ eofsLeft \in Nat /\ Len(file) \in Nat /\ file \in Seq(ItemKinds)
      /\ file[1] = "defs" /\ (pushed >= 2 => file[2] = "vars")
      /\ len = WholeFrom(0) /\ len >= 2 /\ nItems = len - 2 /\ len \in Nat
      /\ pushed \in Nat /\ pushed + 1 <= Len(Pushes) /\ Len(Pushes) \in 2 .. 4
  <2>1. dpc # "finalize" /\ dpc = "push"
    BY DEF DealerPush
  <2> QED
    BY <2>1, ParamParts, MPIAssumption, PushFacts
    DEF StreamAssumed, DealerTypeOK, DealerOK, DealerPush, InOneBlock
<1>2. /\ WholeFrom(0)' = WholeFrom(0) /\ WellFormed' = WellFormed /\ AllEvents' = AllEvents
      /\ WholeFrom(0) \in Nat /\ WholeFrom(0) <= Len(file) /\ Pushes' = Pushes
  BY <1>1, WellFormedKept, WholeFacts DEF WholeFrom, Pushes
<1>3. Reached = 3 /\ ~ Ending /\ ~ Dealing
  BY <1>1 DEF Reached, Ending, Dealing, AtItem
<1>4. /\ \A k \in 1 .. Len(Pushes) : Pushes[k] = Expected[k]
      /\ Len(Pushes) >= 3 /\ Expected[3] = "varCount"
  <2>1. "params" \in defined
    BY <1>1, ParamParts DEF ParamsDefined, DealerTypeOK
  <2>2. Len(Pushes) >= 3
    BY <2>1 DEF Pushes
  <2> QED
    BY <2>1, <2>2, PushFacts DEF Expected
<1>5. \A i \in AllEvents : i < 3 => i < Len(file) + 1
  BY <1>1, EventsInBlock
<1>6. CASE dpc' = "push" /\ (pushed' >= 2 => file[2] = "vars")
  <2>1. InOneBlock' /\ Reached' = 3 /\ ~ Dealing' /\ ~ Ending'
    BY <1>1, <1>2, <1>6 DEF InOneBlock, Dealing, AtItem, Ending, Reached
  <2>2. Dealt' = Dealt
    BY <1>2, <1>3, <2>1 DEF Dealt
  <2> QED
    BY <1>1, <1>2, <1>3, <2>1, <2>2 DEF Passes
<1>7. CASE dpc' = "finalize"
  <2>1. InOneBlock' /\ Reached' = Len(file) + 1 /\ ~ Dealing' /\ ~ Ending'
    BY <1>1, <1>2, <1>7 DEF InOneBlock, Dealing, AtItem, Ending, Reached
  <2>2. Dealt \subseteq Dealt'
    BY <1>2, <1>3, <1>5, <2>1 DEF Dealt
  <2> QED
    BY <1>1, <1>2, <1>3, <2>1, <2>2 DEF Passes
<1>8. CASE dpc' = (IF nItems = 0 THEN "eofRequest" ELSE "take") /\ pushed >= 2
  <2>1. WellFormed
    BY <1>1, <1>2, <1>8 DEF WellFormed
  <2>2. \A i \in AllEvents : 3 <= i /\ i <= len /\ i \in Nat
    BY <1>1, <2>1, EventsInBlock
  <2>3. Dealt = {}
    BY <1>1, <1>3, <2>2 DEF Dealt
  <2>4. CASE nItems = 0 /\ dpc' = "eofRequest"
    <3>1. AllEvents = {}
      BY <1>1, <2>2, <2>4
    <3>2. Dealt' = {} /\ InOneBlock'
      BY <1>1, <1>2, <2>1, <2>4, <3>1 DEF Dealt, InOneBlock, Dealing, AtItem
    <3> QED
      BY <1>1, <1>2, <1>3, <2>3, <3>2 DEF Passes
  <2>5. CASE nItems # 0 /\ dpc' = "take"
    <3>1. Reached' = 3
      BY <1>1, <2>5 DEF Reached, Dealing
    <3>2. Dealt' = {}
      BY <1>1, <1>2, <2>2, <3>1 DEF Dealt
    <3>3. InOneBlock'
      BY <1>1, <1>2, <2>1, <2>5 DEF InOneBlock, Dealing, AtItem, Ending
    <3> QED
      BY <1>1, <1>2, <1>3, <2>3, <3>2, <3>3 DEF Passes
  <2> QED
    BY <1>8, <2>4, <2>5
<1>9. CASE dpc' = dpc /\ pushed' = pushed
  BY <1>1, <1>6, <1>9
<1>10. CASE /\ pushed' = pushed + 1
            /\ dpc' = IF pushed' = Len(Pushes)
                      THEN IF nItems = 0 THEN "eofRequest" ELSE "take"
                      ELSE IF Pushes[pushed' + 1] = "varCount" /\ file[2] # "vars"
                           THEN "finalize" ELSE "push"
  <2>1. CASE pushed' = Len(Pushes)
    <3>1. pushed >= 2
      BY <1>1, <1>4, <1>10, <2>1
    <3> QED
      BY <1>8, <1>10, <2>1, <3>1
  <2>2. CASE pushed' # Len(Pushes) /\ pushed' < 2 /\ dpc' \in {"finalize", "push"}
    BY <1>1, <1>6, <1>7, <1>10, <2>2
  <2>3. CASE pushed' # Len(Pushes) /\ pushed' = 2 /\ dpc' \in {"finalize", "push"}
    <3>1. Pushes[pushed' + 1] = "varCount"
      BY <1>4, <1>1, <2>3
    <3> QED
      BY <1>6, <1>7, <1>10, <2>3, <3>1
  <2>4. CASE pushed' # Len(Pushes) /\ pushed' > 2 /\ dpc' \in {"finalize", "push"}
    BY <1>1, <1>6, <1>7, <1>10, <2>4
  <2> QED
    BY <1>1, <1>10, <2>1, <2>2, <2>3, <2>4
<1> QED
  BY <1>9, <1>10 DEF DealerPush

\* Only dpc, and what does not matter here, changes.
LEMMA StaysPasses ==
    ASSUME ParamInv, InOneBlock, UNCHANGED <<file, first, len, cur, nItems, item>>,
           \/ AtItem /\ AtItem' /\ (dpc' \in {"passHeader", "passData"} => file[item] # "data")
           \/ Ending /\ Ending' /\ dpc' \in {"eofRequest", "sendEof", "finalize"}
    PROVE  Passes({})
<1>1. /\ WholeFrom(0)' = WholeFrom(0) /\ WellFormed' = WellFormed /\ AllEvents' = AllEvents
  BY WellFormedKept DEF WholeFrom
<1>2. CASE AtItem /\ AtItem' /\ (dpc' \in {"passHeader", "passData"} => file[item] # "data")
  <2>1. Dealing /\ Dealing' /\ ~ Ending /\ ~ Ending' /\ dpc' \notin {"read", "push"}
    BY <1>2 DEF Dealing, AtItem, Ending
  <2>2. InOneBlock'
    BY <1>1, <1>2, <2>1 DEF InOneBlock
  <2>3. Dealt' = Dealt
    BY <1>1, <2>1 DEF Dealt, Reached
  <2> QED
    BY <1>1, <2>1, <2>2, <2>3 DEF Passes
<1>3. CASE Ending /\ Ending' /\ dpc' \in {"eofRequest", "sendEof", "finalize"}
  <2>1. ~ Dealing /\ ~ Dealing' /\ ~ AtItem' /\ dpc \notin {"read", "push"}
    BY <1>3 DEF Dealing, AtItem, Ending
  <2>2. InOneBlock'
    BY <1>1, <1>3, <2>1 DEF InOneBlock
  <2>3. Dealt' = Dealt
    BY <1>1, <1>3, <2>1 DEF Dealt, Reached
  <2> QED
    BY <1>1, <1>3, <2>1, <2>2, <2>3 DEF Passes
<1> QED
  BY <1>2, <1>3

LEMMA DealerTakePasses ==
    ASSUME StreamAssumed, ParamInv, InOneBlock, DealerTake
    PROVE  Passes({})
<1>1. /\ UNCHANGED <<file, first, len, cur, nItems, eofsLeft>> /\ dpc = "take" /\ Dealing
      /\ item' \in ItemsAt(cur)
      /\ dpc' = IF file[item'] = "data" THEN "request" ELSE "passHeader"
      /\ first = 0 /\ cur + nItems = len + 1 /\ nItems > 0 /\ cur >= 3
      /\ cur \in Nat /\ nItems \in Nat /\ len \in Nat /\ WellFormed /\ len = WholeFrom(0)
  BY ParamParts DEF DealerTake, InOneBlock, Dealing, DealerTypeOK, DealerOK
<1>2. item' = cur
  <2>1. cur <= len
    BY <1>1
  <2> QED
    BY <1>1, <2>1 DEF ItemsAt
<1>3. /\ WholeFrom(0)' = WholeFrom(0) /\ WellFormed' = WellFormed /\ AllEvents' = AllEvents
  BY <1>1, WellFormedKept DEF WholeFrom
<1>4. Dealing' /\ AtItem' /\ ~ Ending /\ ~ Ending' /\ dpc' \notin {"read", "push"}
  BY <1>1 DEF Dealing, AtItem, Ending
<1>5. dpc' \in {"passHeader", "passData"} => file[item'] # "data"
  BY <1>1
<1>6. InOneBlock'
  BY <1>1, <1>2, <1>3, <1>4, <1>5 DEF InOneBlock
<1>7. Dealt' = Dealt
  BY <1>1, <1>3, <1>4 DEF Dealt, Reached
<1> QED
  BY <1>1, <1>3, <1>4, <1>6, <1>7 DEF Passes

LEMMA DealerPasses ==
    ASSUME StreamAssumed, ParamInv, InOneBlock, DealerNext
    PROVE  Passes(IF DealerSendData THEN {item} ELSE {})
<1>1. CASE DealerSendData
  <2>1. file[item] = "data" /\ AtItem /\ NextItem /\ UNCHANGED <<file, defined, item, eofsLeft>>
    BY <1>1, ParamParts DEF DealerSendData, DealerOK, AtItem
  <2>2. Passes({item} \intersect AllEvents) /\ item \in DOMAIN file
    BY <2>1, NextItemPasses
  <2>3. {item} \intersect AllEvents = {item}
    BY <2>1, <2>2 DEF AllEvents
  <2> QED
    BY <1>1, <2>2, <2>3
<1>2. CASE ~ DealerSendData
  <2> SUFFICES Passes({})
    BY <1>2
  <2>1. CASE DealerRead \/ DealerThrow
    BY <2>1, DealerReadPasses
  <2>2. CASE DealerPush
    BY <2>2, DealerPushPasses
  <2>3. CASE DealerTake
    BY <2>3, DealerTakePasses
  <2>4. CASE DealerGetRequest \/ DealerSendHeader \/ DealerPassHeader
    <3>1. /\ UNCHANGED <<file, first, len, cur, nItems, item>>
          /\ dpc \in {"request", "eofRequest", "sendHeader", "passHeader"}
      BY <2>4 DEF DealerGetRequest, DealerSendHeader, DealerPassHeader
    <3>2. /\ dpc = "request" => dpc' = "sendHeader"
          /\ dpc = "sendHeader" => dpc' = "sendData"
          /\ dpc = "passHeader" => dpc' = "passData"
          /\ dpc = "eofRequest" => dpc' = "sendEof"
      BY <2>4 DEF DealerGetRequest, DealerSendHeader, DealerPassHeader
    <3>3. dpc = "passHeader" => file[item] # "data"
      BY DEF InOneBlock
    <3>4. \/ AtItem /\ AtItem' /\ (dpc' \in {"passHeader", "passData"} => file[item] # "data")
          \/ Ending /\ Ending' /\ dpc' \in {"eofRequest", "sendEof", "finalize"}
      BY <3>1, <3>2, <3>3 DEF AtItem, Ending
    <3> QED
      BY <3>1, <3>4, StaysPasses
  <2>5. CASE DealerPassData
    <3>1. file[item] # "data" /\ AtItem /\ NextItem /\ UNCHANGED <<file, defined, item, eofsLeft>>
      BY <2>5 DEF DealerPassData, InOneBlock, AtItem
    <3>2. {item} \intersect AllEvents = {}
      BY <3>1 DEF AllEvents
    <3> QED
      BY <3>1, <3>2, NextItemPasses
  <2>6. CASE DealerSendEof
    <3>1. UNCHANGED <<file, first, len, cur, nItems, item>> /\ dpc = "sendEof"
          /\ dpc' = IF eofsLeft' = 0 THEN "finalize" ELSE "eofRequest"
      BY <2>6 DEF DealerSendEof
    <3>2. Ending /\ Ending' /\ dpc' \in {"eofRequest", "sendEof", "finalize"}
      BY <3>1 DEF Ending
    <3> QED
      BY <3>1, <3>2, StaysPasses
  <2> QED
    BY <1>2, <2>1, <2>2, <2>3, <2>4, <2>5, <2>6 DEF DealerNext
<1> QED
  BY <1>1, <1>2
-----------------------------------------------------------------------------
(***************************************************************************)
(* Events come to a worker (those of I), or go from it to the sorter (O).  *)
(***************************************************************************)
Moves(w, I, O) ==
    /\ O \subseteq OnTheWay(w)
    /\ OnTheWay(w)' = (OnTheWay(w) \ O) \union I
    /\ \A v \in Workers \ {w} : OnTheWay(v)' = OnTheWay(v)
    /\ GivenEvents' = GivenEvents \union O

Adds(I) ==
    /\ Dealt \union I \subseteq Dealt'
    /\ Dealing' \/ Ending' => \/ Dealt' = {}
                              \/ Dealt' \subseteq Dealt \union I /\ (Dealing \/ Ending)

LEMMA EventsMove ==
    ASSUME Apart, NothingElse, NothingMissed, NEW w \in Workers, NEW I, NEW O,
           I \intersect Dealt = {}, Moves(w, I, O), Adds(I)
    PROVE  Apart' /\ NothingElse' /\ NothingMissed'
<1>1. /\ \A v \in Workers : OnTheWay(v) \subseteq Dealt
      /\ GivenEvents \subseteq Dealt /\ O \subseteq Dealt
  BY DEF NothingElse, Everywhere, Moves
<1>2. ASSUME NEW v \in Workers
      PROVE  /\ OnTheWay(v)' \intersect GivenEvents' = {}
             /\ \A u \in Workers \ {v} : OnTheWay(u)' \intersect OnTheWay(v)' = {}
  <2>1. OnTheWay(v) \intersect GivenEvents = {}
    BY DEF Apart
  <2>2. \A u \in Workers \ {v} : OnTheWay(u) \intersect OnTheWay(v) = {}
    BY DEF Apart
  <2>3. CASE v = w
    BY <1>1, <2>1, <2>2, <2>3 DEF Moves
  <2>4. CASE v # w
    <3>1. OnTheWay(w) \intersect OnTheWay(v) = {} /\ OnTheWay(v)' = OnTheWay(v)
      BY <2>2, <2>4 DEF Moves
    <3>2. OnTheWay(v)' \intersect GivenEvents' = {}
      BY <2>1, <3>1 DEF Moves
    <3>3. ASSUME NEW u \in Workers \ {v} PROVE OnTheWay(u)' \intersect OnTheWay(v)' = {}
      <4>1. CASE u = w
        BY <1>1, <3>1, <4>1 DEF Moves
      <4>2. CASE u # w
        BY <2>2, <3>1, <4>2 DEF Moves
      <4> QED
        BY <4>1, <4>2
    <3> QED
      BY <3>2, <3>3
  <2> QED
    BY <2>3, <2>4
<1>3. Everywhere' = Everywhere \union I
  <2>1. ASSUME NEW x PROVE x \in Everywhere' <=> x \in Everywhere \/ x \in I
    <3>1. x \in Everywhere' <=> x \in GivenEvents' \/ \E v \in Workers : x \in OnTheWay(v)'
      BY DEF Everywhere
    <3>2. x \in Everywhere <=> x \in GivenEvents \/ \E v \in Workers : x \in OnTheWay(v)
      BY DEF Everywhere
    <3>3. CASE x \in O
      <4>1. x \in OnTheWay(w) /\ x \in GivenEvents'
        BY <3>3 DEF Moves
      <4> QED
        BY <3>1, <3>2, <4>1
    <3>4. CASE x \notin O
      <4>1. /\ x \in GivenEvents' <=> x \in GivenEvents
            /\ x \in OnTheWay(w)' <=> x \in OnTheWay(w) \/ x \in I
            /\ \A v \in Workers \ {w} : x \in OnTheWay(v)' <=> x \in OnTheWay(v)
        BY <3>4 DEF Moves
      <4>2. (\E v \in Workers : x \in OnTheWay(v)')
               <=> x \in I \/ \E v \in Workers : x \in OnTheWay(v)
        BY <4>1
      <4> QED
        BY <3>1, <3>2, <4>1, <4>2
    <3> QED
      BY <3>3, <3>4
  <2> QED
    BY <2>1
<1>4. NothingElse'
  BY <1>3 DEF NothingElse, Adds
<1>5. NothingMissed'
  BY <1>3 DEF NothingMissed, Adds
<1>6. Apart'
  BY <1>2 DEF Apart
<1> QED
  BY <1>4, <1>5, <1>6

\* A worker for whom nothing changes.
Calm(w) ==
    /\ chan'[DealerRank][w] = chan[DealerRank][w]
    /\ chan'[w][FarmerRank] = chan[w][FarmerRank]
    /\ wpc'[w] = wpc[w] /\ wtrigger'[w] = wtrigger[w] /\ wevent'[w] = wevent[w]

LEMMA CalmPlaces ==
    ASSUME NEW w, Calm(w)
    PROVE  /\ WithWorker(w)' = WithWorker(w) /\ FromWorker(w)' = FromWorker(w)
           /\ AnswerTo(w)' = AnswerTo(w)
           /\ OnTheWay(w)' = OnTheWay(w) /\ HeaderOf(w)' = HeaderOf(w)
           /\ DataPlaces(w, FarmerRank)' = DataPlaces(w, FarmerRank)
           /\ OnceFrom(w) => OnceFrom(w)'
<1>1. /\ DataPlaces(w, FarmerRank)' = DataPlaces(w, FarmerRank)
      /\ DataPlaces(DealerRank, w)' = DataPlaces(DealerRank, w)
  BY DEF Calm, DataPlaces
<1>2. FromWorker(w)' = FromWorker(w) /\ AnswerTo(w)' = AnswerTo(w)
  BY <1>1 DEF Calm, FromWorker, AnswerTo
<1>3. WithWorker(w)' = WithWorker(w)
  BY <1>2 DEF Calm, WithWorker
<1>4. HeaderOf(w)' = HeaderOf(w)
  BY DEF Calm, HeaderOf
<1>5. OnceFrom(w) => OnceFrom(w)'
  BY <1>1, <1>2, <1>3 DEF Calm, OnceFrom
<1> QED
  BY <1>1, <1>2, <1>3, <1>4, <1>5 DEF OnTheWay

LEMMA CalmWorker ==
    ASSUME NEW w, Calm(w), AtWorkers(w), file' = file, Ending => Ending',
           dpc' = "sendData" /\ dest' = w => dpc = "sendData" /\ dest = w /\ item' = item,
           \A k \in DataPlaces(w, FarmerRank) : Before(w, k)' = Before(w, k)
    PROVE  AtWorkers(w)'
<1>1. \A i : TriggerOf(i)' = TriggerOf(i)
  BY DEF TriggerOf
<1>2. /\ OnceFrom(w)' /\ WithWorker(w)' = WithWorker(w) /\ HeaderOf(w)' = HeaderOf(w)
      /\ DataPlaces(w, FarmerRank)' = DataPlaces(w, FarmerRank)
  BY CalmPlaces DEF AtWorkers
<1>3. \A i \in WithWorker(w)' : HeaderOf(w)' = TriggerOf(i)'
  BY <1>1, <1>2 DEF AtWorkers, RightNumbers
<1>4. dpc' = "sendData" /\ dest' = w => HeaderOf(w)' = TriggerOf(item)'
  <2>1. item' = item => TriggerOf(item)' = TriggerOf(item)
    BY DEF TriggerOf
  <2> QED
    BY <1>2, <2>1 DEF AtWorkers, RightNumbers
<1>5. ASSUME NEW k \in DataPlaces(w, FarmerRank)
      PROVE  Before(w, k)'.body = TriggerOf(chan[w][FarmerRank][k].body)'
  <2>1. TriggerOf(chan[w][FarmerRank][k].body)' = TriggerOf(chan[w][FarmerRank][k].body)
    BY DEF TriggerOf, Calm
  <2> QED
    BY <2>1 DEF AtWorkers, RightNumbers
<1>6. RightNumbers(w)'
  BY <1>2, <1>3, <1>4, <1>5 DEF RightNumbers
<1>7. EndIsLast(w)'
  BY DEF AtWorkers, EndIsLast, Calm
<1> QED
  BY <1>2, <1>6, <1>7 DEF AtWorkers
-----------------------------------------------------------------------------
(***************************************************************************)
(* The dealer sends an event to a worker that has none.                    *)
(***************************************************************************)
\* What a message adds to an answer.
LEMMA AnswerGrows ==
    ASSUME NEW w \in Workers, NEW tag, NEW body, Longer(DealerRank, w, tag, body)
    PROVE  /\ tag # "DATA" => AnswerTo(w)' = AnswerTo(w)
           /\ tag = "DATA" => AnswerTo(w)' = AnswerTo(w) \union {body}
<1> DEFINE old == chan[DealerRank][w]
           new == chan'[DealerRank][w]
<1>1. PICK n \in Nat : n = Len(old)
  BY DEF Longer
<1>2. /\ DOMAIN old = 1 .. n /\ DOMAIN new = 1 .. n + 1
      /\ \A k \in 1 .. n : new[k] = old[k]
      /\ new[n + 1].tag = tag /\ new[n + 1].body = body
  BY <1>1 DEF Longer
<1>3. /\ AnswerTo(w) = {old[k].body : k \in {j \in 1 .. n : old[j].tag = "DATA"}}
      /\ AnswerTo(w)' = {new[k].body : k \in {j \in 1 .. n + 1 : new[j].tag = "DATA"}}
  BY <1>2 DEF AnswerTo, DataPlaces
<1> HIDE DEF old, new
<1>4. \A k \in 1 .. n + 1 : k \in 1 .. n \/ k = n + 1
  OBVIOUS
<1>5. 1 .. n \subseteq 1 .. n + 1 /\ n + 1 \in 1 .. n + 1
  OBVIOUS
<1>6. CASE tag # "DATA"
  <2>1. {j \in 1 .. n + 1 : new[j].tag = "DATA"} = {j \in 1 .. n : old[j].tag = "DATA"}
    BY <1>2, <1>4, <1>5, <1>6
  <2> QED
    BY <1>2, <1>3, <1>6, <2>1
<1>7. CASE tag = "DATA"
  <2>1. {j \in 1 .. n + 1 : new[j].tag = "DATA"}
          = {j \in 1 .. n : old[j].tag = "DATA"} \union {n + 1}
    BY <1>2, <1>4, <1>5, <1>7
  <2> QED
    BY <1>2, <1>3, <1>7, <2>1
<1> QED
  BY <1>6, <1>7

LEMMA ServedFacts ==
    ASSUME OrderInv, NEW w \in Workers, Served(w)
    PROVE  /\ wpc[w] \in {"header", "data"} /\ AnswerTo(w) = {}
           /\ dpc # "sendData" => wpc[w] = "header" /\ chan[DealerRank][w] = <<>>
           /\ dpc = "sendData" /\ wpc[w] = "header" => chan[DealerRank][w] # <<>>
<1>1. ParamInv /\ Ordered(w) /\ Empties
  BY EmptyFacts DEF OrderInv
<1>2. Protocol(w)
  BY <1>1 DEF Ordered, DefinitionsDue
<1>3. wpc[w] \in {"header", "data"}
  BY <1>2 DEF Protocol, Silent
<1>4. CASE wpc[w] = "header"
  <2>1. HeaderDue(w) \/ HeaderSent(w)
    BY <1>2, <1>4 DEF Protocol, Asked, BothSent, EndSent
  <2>2. CASE HeaderDue(w)
    BY <1>3, <1>4, <2>2 DEF HeaderDue, AnswerTo, DataPlaces
  <2>3. CASE HeaderSent(w)
    <3>1. /\ DOMAIN chan[DealerRank][w] = {1} /\ chan[DealerRank][w][1].tag = "HEADER"
          /\ chan[DealerRank][w] # <<>> /\ dpc = "sendData"
      BY <1>1, <2>3 DEF Empties, HeaderSent
    <3>2. DataPlaces(DealerRank, w) = {}
      BY <3>1 DEF DataPlaces
    <3> QED
      BY <1>3, <1>4, <3>1, <3>2 DEF AnswerTo
  <2> QED
    BY <2>1, <2>2, <2>3
<1>5. CASE wpc[w] = "data"
  <2>1. DataDue(w)
    BY <1>2, <1>5 DEF Protocol, DataSent
  <2> QED
    BY <1>3, <1>5, <2>1 DEF DataDue, AnswerTo, DataPlaces
<1> QED
  BY <1>3, <1>4, <1>5

\* What the dealer does to the channels.
DealerSpeaks(tag, body) ==
    /\ dest \in Workers /\ Longer(DealerRank, dest, tag, body) /\ OthersKept(DealerRank, dest)

LEMMA DealerChannels ==
    ASSUME ParamInv, DealerNext
    PROVE  \/ /\ \A v \in Workers : /\ chan'[DealerRank][v] = chan[DealerRank][v]
                                    /\ chan'[v][FarmerRank] = chan[v][FarmerRank]
              /\ dpc' # "sendData" /\ ~ DealerSendData
           \/ /\ DealerPush /\ dpc' # "sendData" /\ ~ DealerSendData
              /\ \E push : DealerSpeaks(TagOf(push), push)
           \/ /\ DealerSendHeader /\ dpc' = "sendData" /\ dest' = dest /\ item' = item
              /\ ~ DealerSendData
              /\ DealerSpeaks("HEADER", [end |-> FALSE, trigger |-> TriggerOf(item)])
           \/ /\ DealerSendData /\ dpc' # "sendData"
              /\ DealerSpeaks("DATA", item)
           \/ /\ DealerSendEof /\ dpc' # "sendData" /\ Ending' /\ ~ DealerSendData
              /\ DealerSpeaks("HEADER", [end |-> TRUE, trigger |-> 0])
<1>1. TypedBy(Kinds) /\ Channels /\ dest \in Workers /\ dest \in Ranks
  BY ParamParts, RankFacts DEF DealerTypeOK
<1>2. ASSUME NEW tag, NEW body, Send(DealerRank, dest, tag, body),
             Message(tag, {body}) \subseteq Kinds[DealerRank][dest]
      PROVE  DealerSpeaks(tag, body)
  BY <1>1, <1>2, RankFacts, TypedSent DEF DealerSpeaks
<1>3. CASE DealerRead \/ DealerThrow \/ DealerTake
  <2>1. chan' = chan /\ dpc' # "sendData" /\ dpc # "sendData"
    BY <1>3 DEF DealerRead, DealerThrow, DealerTake
  <2> QED
    BY <2>1 DEF DealerSendData
<1>4. CASE DealerPush
  <2>1. /\ Message(TagOf(Pushes[pushed + 1]), {Pushes[pushed + 1]})
             \subseteq Kinds[DealerRank][dest]
        /\ Send(DealerRank, dest, TagOf(Pushes[pushed + 1]), Pushes[pushed + 1])
        /\ dpc = "push" /\ dpc' # "sendData"
    <3>1. /\ dest \in Workers /\ pushed + 1 \in 1 .. Len(Pushes)
          /\ dpc' \in {"push", "take", "eofRequest", "finalize"}
      BY <1>4, PushMoves
    <3>2. Message(TagOf(Pushes[pushed + 1]), {Pushes[pushed + 1]}) \subseteq Kinds[DealerRank][dest]
      BY <3>1, PushFacts, PushIsToWorker, KindFacts
    <3> QED
      BY <1>4, <3>1, <3>2 DEF DealerPush
  <2> QED
    BY <1>2, <1>4, <2>1 DEF DealerSendData
<1>5. CASE DealerGetRequest
  <2>1. PICK w \in Workers : Arrived(w, DealerRank, {"REQUEST"}) /\ chan' = Received(w, DealerRank)
    BY <1>5 DEF DealerGetRequest
  <2>2. OthersKept(w, DealerRank)
    BY <2>1, DealerTakes
  <2>3. \A v \in Workers : /\ chan'[DealerRank][v] = chan[DealerRank][v]
                           /\ chan'[v][FarmerRank] = chan[v][FarmerRank]
    BY <2>2, RankFacts DEF OthersKept
  <2>4. dpc' # "sendData" /\ ~ DealerSendData
    BY <1>5 DEF DealerGetRequest, DealerSendData
  <2> QED
    BY <2>3, <2>4
<1>6. CASE DealerSendHeader
  <2>1. Message("HEADER", {[end |-> FALSE, trigger |-> TriggerOf(item)]})
          \subseteq Kinds[DealerRank][dest]
    <3>1. TriggerOf(item) \in Triggers
      <4>1. AtItem /\ file[item] = "data" /\ file \in Files
        BY <1>6, ParamParts DEF DealerSendHeader, AtItem, DealerOK, DealerTypeOK
      <4> QED
        BY <4>1, DealtItem, StoredTrigger
    <3>2. [end |-> FALSE, trigger |-> TriggerOf(item)] \in [end : BOOLEAN, trigger : Triggers]
      BY <3>1
    <3> QED
      BY <1>1, <3>2, KindFacts DEF Message, ToWorker
  <2> QED
    BY <1>2, <1>6, <2>1 DEF DealerSendHeader, DealerSendData
<1>7. CASE DealerSendData
  <2>1. Message("DATA", {item}) \subseteq Kinds[DealerRank][dest]
    <3>1. item \in Events
      BY <1>7, DealtItem DEF DealerSendData, AtItem
    <3> QED
      BY <1>1, <3>1, KindFacts DEF Message, ToWorker
  <2>2. dpc' # "sendData"
    BY <1>7 DEF DealerSendData, NextItem
  <2> QED
    BY <1>2, <1>7, <2>1, <2>2 DEF DealerSendData
<1>8. CASE DealerPassHeader \/ DealerPassData
  <2>1. PICK tag, body : Send(DealerRank, OutputRank, tag, body)
    BY <1>8 DEF DealerPassHeader, DealerPassData
  <2>2. Sends(DealerRank, OutputRank, tag, body)
    BY <1>1, <2>1, RankFacts, SendEffect
  <2>3. \A v \in Workers : /\ chan'[DealerRank][v] = chan[DealerRank][v]
                           /\ chan'[v][FarmerRank] = chan[v][FarmerRank]
    BY <2>2, RankFacts DEF Sends
  <2>4. dpc' # "sendData" /\ ~ DealerSendData
    BY <1>8 DEF DealerPassHeader, DealerPassData, DealerSendData, NextItem
  <2> QED
    BY <2>3, <2>4
<1>9. CASE DealerSendEof
  <2>1. Message("HEADER", {[end |-> TRUE, trigger |-> 0]}) \subseteq Kinds[DealerRank][dest]
    <3>1. [end |-> TRUE, trigger |-> 0] \in [end : BOOLEAN, trigger : Triggers]
      BY MaxTriggerAssumption DEF Triggers
    <3> QED
      BY <1>1, <3>1, KindFacts DEF Message, ToWorker
  <2> QED
    BY <1>2, <1>9, <2>1 DEF DealerSendEof, DealerSendData, Ending
<1> QED
  BY <1>3, <1>4, <1>5, <1>6, <1>7, <1>8, <1>9 DEF DealerNext

\* Nothing moves.
LEMMA NothingComes ==
    ASSUME Apart, NothingElse, NothingMissed, \A w \in Workers : OnTheWay(w)' = OnTheWay(w),
           GivenEvents' = GivenEvents, Adds({})
    PROVE  Apart' /\ NothingElse' /\ NothingMissed'
<1>1. PICK w \in Workers : TRUE
  BY MPIAssumption DEF Workers
<1>2. Moves(w, {}, {})
  BY DEF Moves
<1> QED
  BY <1>2, EventsMove

\* The invariant says what the dealer relies on.
LEMMA NumberedParts ==
    ASSUME NumberedInv
    PROVE  /\ OrderInv /\ ParamInv /\ SorterInv /\ InOneBlock /\ InSequence /\ AllEmitted
           /\ Apart /\ NothingElse /\ NothingMissed /\ GivenAsNumbered
           /\ \A w \in Workers : AtWorkers(w) /\ Ordered(w)
           /\ FarmerOK /\ Delivery /\ Empties
BY ParamParts, EmptyFacts DEF NumberedInv, EventsOK, OrderInv

\* The worker that the dealer sends a message.
LEMMA ServedKeeps ==
    ASSUME NEW w \in Workers, AtWorkers(w), NEW tag, NEW body, Longer(DealerRank, w, tag, body),
           chan'[w][FarmerRank] = chan[w][FarmerRank], wpc'[w] = wpc[w],
           \A k \in DataPlaces(w, FarmerRank) : Before(w, k)' = Before(w, k),
           file' = file, Ending => Ending', tag = "HEADER" /\ body.end => Ending',
           \A i \in WithWorker(w)' : HeaderOf(w)' = TriggerOf(i),
           dpc' = "sendData" /\ dest' = w => HeaderOf(w)' = TriggerOf(item) /\ item' = item,
           WithWorker(w)' \intersect FromWorker(w) = {}
    PROVE  AtWorkers(w)'
<1>1. \A i : TriggerOf(i)' = TriggerOf(i)
  BY DEF TriggerOf
<1>2. DataPlaces(w, FarmerRank)' = DataPlaces(w, FarmerRank) /\ FromWorker(w)' = FromWorker(w)
  BY DEF DataPlaces, FromWorker
<1>3. OnceFrom(w)'
  BY <1>2 DEF AtWorkers, OnceFrom
<1>4. item' = item => TriggerOf(item)' = TriggerOf(item)
  BY DEF TriggerOf
<1>5. ASSUME NEW k \in DataPlaces(w, FarmerRank)
      PROVE  Before(w, k)'.body = TriggerOf(chan[w][FarmerRank][k].body)'
  <2>1. TriggerOf(chan[w][FarmerRank][k].body)' = TriggerOf(chan[w][FarmerRank][k].body)
    BY DEF TriggerOf
  <2> QED
    BY <2>1 DEF AtWorkers, RightNumbers
<1>6. RightNumbers(w)'
  BY <1>1, <1>2, <1>4, <1>5 DEF RightNumbers
<1>7. EndIsLast(w)'
  <2>1. CASE wpc'[w] \in {"end", "finalize"}
    BY <2>1 DEF AtWorkers, EndIsLast
  <2>2. ASSUME NEW k \in DOMAIN chan'[DealerRank][w], IsEnd(chan'[DealerRank][w][k]) PROVE Ending'
    <3>1. PICK n \in Nat : n = Len(chan[DealerRank][w])
      BY DEF Longer
    <3>2. k \in 1 .. n \/ k = n + 1
      BY <2>2, <3>1 DEF Longer
    <3>3. CASE k \in 1 .. n
      BY <2>2, <3>1, <3>3 DEF Longer, AtWorkers, EndIsLast
    <3>4. CASE k = n + 1
      BY <2>2, <3>1, <3>4 DEF Longer, IsEnd
    <3> QED
      BY <3>2, <3>3, <3>4
  <2> QED
    BY <2>1, <2>2 DEF EndIsLast
<1> QED
  BY <1>3, <1>6, <1>7 DEF AtWorkers

\* The frame of the steps of the dealer: the worker it speaks to, and the rest.
LEMMA DealerKeepsOthers ==
    ASSUME NumberedInv, UNCHANGED <<workerVars, farmerVars, outputVars>>, NEW v \in Workers,
           chan'[DealerRank][v] = chan[DealerRank][v], chan'[v][FarmerRank] = chan[v][FarmerRank],
           file' = file, Ending => Ending',
           dpc' = "sendData" /\ dest' = v => dpc = "sendData" /\ dest = v /\ item' = item
    PROVE  AtWorkers(v)' /\ OnTheWay(v)' = OnTheWay(v)
<1>1. Calm(v)
  BY DEF Calm, workerVars
<1>2. \A k : Before(v, k)' = Before(v, k)
  BY DEF Before, farmerVars
<1> QED
  BY <1>1, <1>2, NumberedParts, CalmPlaces, CalmWorker

\* A message that is not an event goes to a worker.
LEMMA DealerTells ==
    ASSUME NumberedInv, UNCHANGED <<workerVars, farmerVars, outputVars>>,
           NEW w \in Workers, dest = w, NEW tag, NEW body,
           Longer(DealerRank, w, tag, body), OthersKept(DealerRank, w),
           tag # "DATA", Passes({}),
           tag = "HEADER" /\ body.end => Ending',
           HeaderOf(w)' = HeaderOf(w) \/ WithWorker(w) = {},
           dpc' = "sendData" => /\ dest' = w /\ item' = item
                                /\ HeaderOf(w)' = TriggerOf(item)
    PROVE  (\A v \in Workers : AtWorkers(v)') /\ Apart' /\ NothingElse' /\ NothingMissed'
<1>1. wpc' = wpc /\ wevent' = wevent /\ wtrigger' = wtrigger /\ AtWorkers(w) /\ OrderInv
  BY NumberedParts DEF workerVars
<1>2. \A v \in Workers : chan'[v][FarmerRank] = chan[v][FarmerRank]
  BY <1>1, RankFacts DEF OthersKept
<1>3. file' = file /\ (Ending => Ending') /\ Adds({})
  BY DEF Passes, Adds
<1>4. ASSUME NEW v \in Workers \ {w} PROVE AtWorkers(v)' /\ OnTheWay(v)' = OnTheWay(v)
  <2>1. chan'[DealerRank][v] = chan[DealerRank][v]
    BY <1>1, RankFacts DEF OthersKept
  <2>2. ~ (dpc' = "sendData" /\ dest' = v)
    OBVIOUS
  <2> QED
    BY <1>2, <1>3, <2>1, <2>2, DealerKeepsOthers
<1>5. /\ WithWorker(w)' = WithWorker(w) /\ OnTheWay(w)' = OnTheWay(w)
  <2>1. AnswerTo(w)' = AnswerTo(w)
    BY AnswerGrows
  <2>2. FromWorker(w)' = FromWorker(w)
    BY <1>1, <1>2 DEF FromWorker, DataPlaces
  <2>3. WithWorker(w)' = WithWorker(w)
    BY <1>1, <2>1 DEF WithWorker
  <2> QED
    BY <2>1, <2>2, <2>3 DEF OnTheWay
<1>6. AtWorkers(w)'
  <2>1. \A i \in WithWorker(w)' : HeaderOf(w)' = TriggerOf(i)
    BY <1>1, <1>5 DEF AtWorkers, RightNumbers
  <2>2. WithWorker(w)' \intersect FromWorker(w) = {}
    BY <1>1, <1>5 DEF AtWorkers, OnceFrom
  <2>3. \A k : Before(w, k)' = Before(w, k)
    BY <1>2 DEF Before, farmerVars
  <2> QED
    BY <1>1, <1>2, <1>3, <2>1, <2>2, <2>3, ServedKeeps
<1>7. GivenEvents' = GivenEvents
  BY DEF farmerVars, sorterVars, GivenEvents
<1>8. Apart' /\ NothingElse' /\ NothingMissed'
  BY <1>3, <1>4, <1>5, <1>7, NothingComes, NumberedParts
<1> QED
  BY <1>4, <1>6, <1>8

\* An event goes to the worker that was sent its header.
LEMMA DealerDeals ==
    ASSUME NumberedInv, UNCHANGED <<workerVars, farmerVars, outputVars>>,
           NEW w \in Workers, dest = w, dpc = "sendData", dpc' # "sendData",
           Longer(DealerRank, w, "DATA", item), OthersKept(DealerRank, w),
           Passes({item}), item \notin Dealt
    PROVE  (\A v \in Workers : AtWorkers(v)') /\ Apart' /\ NothingElse' /\ NothingMissed'
<1>1. wpc' = wpc /\ wevent' = wevent /\ wtrigger' = wtrigger /\ AtWorkers(w) /\ OrderInv
  BY NumberedParts DEF workerVars
<1>2. \A v \in Workers : chan'[v][FarmerRank] = chan[v][FarmerRank]
  BY <1>1, RankFacts DEF OthersKept
<1>3. PICK i : i = item
  OBVIOUS
<1>4. file' = file /\ (Ending => Ending') /\ Adds({i})
  BY <1>3 DEF Passes, Adds
<1>5. ASSUME NEW v \in Workers \ {w} PROVE AtWorkers(v)' /\ OnTheWay(v)' = OnTheWay(v)
  <2>1. chan'[DealerRank][v] = chan[DealerRank][v]
    BY <1>1, RankFacts DEF OthersKept
  <2> QED
    BY <1>2, <1>4, <2>1, DealerKeepsOthers
<1>6. /\ wpc[w] \in {"header", "data"} /\ AnswerTo(w) = {}
      /\ wpc[w] = "header" => chan[DealerRank][w] # <<>>
  <2>1. Served(w)
    BY DEF Served
  <2> QED
    BY <1>1, <2>1, ServedFacts
<1>7. WithWorker(w) = {} /\ WithWorker(w)' = {i} /\ OnTheWay(w)' = OnTheWay(w) \union {i}
  <2>1. AnswerTo(w)' = {i}
    BY <1>3, <1>6, AnswerGrows
  <2>2. FromWorker(w)' = FromWorker(w)
    BY <1>1, <1>2 DEF FromWorker, DataPlaces
  <2>3. WithWorker(w) = {} /\ WithWorker(w)' = {i}
    BY <1>1, <1>6, <2>1 DEF WithWorker
  <2> QED
    BY <2>2, <2>3 DEF OnTheWay
<1>8. HeaderOf(w)' = TriggerOf(i)
  <2>1. HeaderOf(w) = TriggerOf(i)
    BY <1>1, <1>3 DEF AtWorkers, RightNumbers
  <2>2. CASE wpc[w] = "header"
    <3>1. /\ Empties /\ chan[DealerRank][w] # <<>>
      BY <1>6, <2>2, NumberedParts
    <3>2. PICK n \in Nat : n = Len(chan[DealerRank][w]) /\ n # 0
      BY <3>1 DEF Empties
    <3>3. chan'[DealerRank][w][1] = chan[DealerRank][w][1] /\ 1 \in DOMAIN chan'[DealerRank][w]
      BY <3>2 DEF Longer
    <3>4. chan'[DealerRank][w] # <<>>
      BY <3>3
    <3> QED
      BY <1>1, <2>1, <2>2, <3>1, <3>3, <3>4 DEF HeaderOf
  <2>3. CASE wpc[w] # "header"
    BY <1>1, <2>1, <2>3 DEF HeaderOf
  <2> QED
    BY <2>2, <2>3
<1>9. i \notin Dealt /\ FromWorker(w) \subseteq Dealt
  BY <1>3, NumberedParts DEF NothingElse, Everywhere, OnTheWay
<1>10. AtWorkers(w)'
  <2>1. \A j \in WithWorker(w)' : HeaderOf(w)' = TriggerOf(j)
    BY <1>7, <1>8
  <2>2. WithWorker(w)' \intersect FromWorker(w) = {}
    BY <1>7, <1>9
  <2>3. \A k : Before(w, k)' = Before(w, k)
    BY <1>2 DEF Before, farmerVars
  <2>4. PICK tag : tag = "DATA" /\ tag # "HEADER"
    OBVIOUS
  <2> QED
    BY <1>1, <1>2, <1>4, <2>1, <2>2, <2>3, <2>4, ServedKeeps
<1>11. Moves(w, {i}, {})
  <2>1. GivenEvents' = GivenEvents
    BY DEF farmerVars, sorterVars, GivenEvents
  <2> QED
    BY <1>5, <1>7, <2>1 DEF Moves
<1>12. Apart' /\ NothingElse' /\ NothingMissed'
  BY <1>4, <1>9, <1>11, EventsMove, NumberedParts
<1> QED
  BY <1>5, <1>10, <1>12

\* Workers that have not all definitions are not sent a header.
LEMMA PushedNotServed ==
    ASSUME NumberedInv, dpc = "push"
    PROVE  wpc[dest] # "header"
<1>1. PICK n \in Nat : n = Len(Pushes) /\ n <= 4
  BY PushFacts
<1>2. ParamInv /\ dest \in Workers /\ pushed \in Nat /\ pushed < n /\ Ordered(dest)
  BY <1>1, NumberedParts, ParamParts DEF DealerTypeOK, DealerOK
<1>3. PushedTo(dest) = pushed
  <2>1. ~ (dest < dest)
    BY <1>2, MPIAssumption DEF Workers
  <2> QED
    BY <2>1 DEF PushedTo
<1>4. PICK g \in 0 .. 4 : g = Got(dest) /\ (g = 4 <=> wpc[dest] \notin {"paramCount", "params", "varCount", "vars"})
  BY <1>2, GotFacts
<1>5. g < 4
  BY <1>1, <1>2, <1>3, <1>4 DEF Ordered
<1> QED
  BY <1>4, <1>5

LEMMA DealerKeeps ==
    ASSUME StreamAssumed, NumberedInv, DealerStep
    PROVE  /\ InOneBlock' /\ file' = file /\ \A v \in Workers : AtWorkers(v)'
           /\ Apart' /\ NothingElse' /\ NothingMissed' /\ GivenAsNumbered'
<1>1. /\ ParamInv /\ OrderInv /\ DealerNext /\ UNCHANGED <<workerVars, farmerVars, outputVars>>
      /\ InOneBlock /\ wpc' = wpc /\ wtrigger' = wtrigger /\ given' = given
  BY NumberedParts DEF DealerStep, workerVars, farmerVars, sorterVars
<1>2. Passes(IF DealerSendData THEN {item} ELSE {})
  BY <1>1, DealerPasses
<1>3. InOneBlock' /\ file' = file
  BY <1>2 DEF Passes
<1>4. GivenAsNumbered'
  <2>1. \A i : TriggerOf(i)' = TriggerOf(i)
    BY <1>3 DEF TriggerOf
  <2>2. ASSUME NEW t \in DOMAIN given' PROVE TriggerOf(given[t])' = t
    <3>1. TriggerOf(given[t])' = TriggerOf(given[t])
      BY <1>1, <1>3 DEF TriggerOf
    <3> QED
      BY <1>1, <3>1, <2>2, NumberedParts DEF GivenAsNumbered
  <2> QED
    BY <2>2 DEF GivenAsNumbered
<1>5. SUFFICES (\A v \in Workers : AtWorkers(v)') /\ Apart' /\ NothingElse' /\ NothingMissed'
  BY <1>3, <1>4
<1>6. CASE /\ \A v \in Workers : /\ chan'[DealerRank][v] = chan[DealerRank][v]
                                 /\ chan'[v][FarmerRank] = chan[v][FarmerRank]
           /\ dpc' # "sendData" /\ ~ DealerSendData
  <2>1. Passes({})
    BY <1>2, <1>6
  <2>2. \A v \in Workers : AtWorkers(v)' /\ OnTheWay(v)' = OnTheWay(v)
    BY <1>1, <1>6, <2>1, DealerKeepsOthers DEF Passes
  <2>3. GivenEvents' = GivenEvents /\ Adds({})
    BY <1>1, <2>1 DEF GivenEvents, Passes, Adds
  <2> QED
    BY <2>2, <2>3, NothingComes, NumberedParts
<1>7. PICK w : w = dest
  OBVIOUS
<1>8. CASE /\ DealerPush /\ dpc' # "sendData" /\ ~ DealerSendData
           /\ \E push : DealerSpeaks(TagOf(push), push)
  <2>1. PICK tag, body : DealerSpeaks(tag, body) /\ tag \in {"PARAMDEF", "VARIABLES"}
    BY <1>8 DEF TagOf
  <2>2. /\ w \in Workers /\ Longer(DealerRank, w, tag, body) /\ OthersKept(DealerRank, w)
        /\ tag # "DATA" /\ tag # "HEADER" /\ Passes({})
    BY <1>2, <1>7, <1>8, <2>1 DEF DealerSpeaks
  <2>3. HeaderOf(w)' = HeaderOf(w)
    <3>1. wpc[w] # "header"
      BY <1>7, <1>8, PushedNotServed DEF DealerPush
    <3> QED
      BY <1>1, <3>1 DEF HeaderOf
  <2> QED
    BY <1>1, <1>7, <1>8, <2>2, <2>3, DealerTells
<1>9. ASSUME dpc \in {"sendHeader", "sendEof"}, w \in Workers
      PROVE  WithWorker(w) = {} /\ wpc[w] = "header" /\ chan[DealerRank][w] = <<>>
  <2>1. Served(w) /\ dpc # "sendData"
    BY <1>7, <1>9 DEF Served
  <2> QED
    BY <1>1, <1>9, <2>1, ServedFacts DEF WithWorker
<1>10. CASE /\ DealerSendHeader /\ dpc' = "sendData" /\ dest' = dest /\ item' = item
            /\ ~ DealerSendData
            /\ DealerSpeaks("HEADER", [end |-> FALSE, trigger |-> TriggerOf(item)])
  <2>1. PICK header : header = [end |-> FALSE, trigger |-> TriggerOf(item)]
    OBVIOUS
  <2>2. /\ w \in Workers /\ Longer(DealerRank, w, "HEADER", header) /\ OthersKept(DealerRank, w)
        /\ Passes({}) /\ ~ header.end /\ header.trigger = TriggerOf(item)
    BY <1>2, <1>7, <1>10, <2>1 DEF DealerSpeaks
  <2>3. WithWorker(w) = {} /\ wpc[w] = "header" /\ chan[DealerRank][w] = <<>>
    BY <1>9, <1>10, <2>2 DEF DealerSendHeader
  <2>4. HeaderOf(w)' = TriggerOf(item)
    <3>1. Len(chan[DealerRank][w]) = 0
      BY <2>3
    <3>2. /\ chan'[DealerRank][w][1].body = header /\ 1 \in DOMAIN chan'[DealerRank][w]
      BY <2>2, <3>1 DEF Longer
    <3>3. chan'[DealerRank][w] # <<>>
      BY <3>2
    <3> QED
      BY <1>1, <2>2, <2>3, <3>2, <3>3 DEF HeaderOf
  <2> QED
    BY <1>1, <1>7, <1>10, <2>2, <2>3, <2>4, DealerTells
<1>11. CASE DealerSendData /\ dpc' # "sendData" /\ DealerSpeaks("DATA", item)
  <2>1. /\ w \in Workers /\ Longer(DealerRank, w, "DATA", item) /\ OthersKept(DealerRank, w)
        /\ Passes({item}) /\ dpc = "sendData"
    BY <1>2, <1>7, <1>11 DEF DealerSpeaks, DealerSendData
  <2>2. item \notin Dealt
    <3>1. AtItem /\ NextItem /\ UNCHANGED <<file, defined, item, eofsLeft>>
      BY <1>11 DEF DealerSendData, AtItem
    <3> QED
      BY <1>1, <3>1, NextItemPasses
  <2> QED
    BY <1>1, <1>7, <1>11, <2>1, <2>2, DealerDeals
<1>12. CASE /\ DealerSendEof /\ dpc' # "sendData" /\ Ending' /\ ~ DealerSendData
            /\ DealerSpeaks("HEADER", [end |-> TRUE, trigger |-> 0])
  <2>1. PICK header : header = [end |-> TRUE, trigger |-> 0]
    OBVIOUS
  <2>2. /\ w \in Workers /\ Longer(DealerRank, w, "HEADER", header) /\ OthersKept(DealerRank, w)
        /\ Passes({})
    BY <1>2, <1>7, <1>12, <2>1 DEF DealerSpeaks
  <2>3. WithWorker(w) = {}
    BY <1>9, <1>12, <2>2 DEF DealerSendEof
  <2> QED
    BY <1>1, <1>7, <1>12, <2>2, <2>3, DealerTells
<1> QED
  BY <1>1, <1>6, <1>8, <1>10, <1>11, <1>12, DealerChannels

(***************************************************************************)
(* The steps of the workers: an event stays with its worker.               *)
(***************************************************************************)
\* The dealer does nothing.
LEMMA DealerRests ==
    ASSUME UNCHANGED dealerVars
    PROVE  /\ InOneBlock' <=> InOneBlock
           /\ Adds({}) /\ (Ending' <=> Ending)
           /\ file' = file /\ item' = item /\ dest' = dest /\ dpc' = dpc
           /\ Dealt' = Dealt /\ (WellFormed' <=> WellFormed) /\ AllEvents' = AllEvents
           /\ (Dealing' <=> Dealing)
           /\ \A i : TriggerOf(i)' = TriggerOf(i)
<1>1. UNCHANGED <<file, defined, dpc, first, len, cur, nItems, item, pushed, dest, eofsLeft>>
  BY DEF dealerVars
<1>2. /\ Ending' <=> Ending
      /\ Dealing' <=> Dealing
      /\ AtItem' <=> AtItem
  BY <1>1 DEF Ending, Dealing, AtItem
<1>3. WellFormed' = WellFormed /\ AllEvents' = AllEvents /\ WholeFrom(0)' = WholeFrom(0)
  BY <1>1, WellFormedKept DEF WholeFrom
<1>4. Dealt' = Dealt
  BY <1>1, <1>2, <1>3 DEF Dealt, Reached
<1>5. InOneBlock' <=> InOneBlock
  BY <1>1, <1>2, <1>3 DEF InOneBlock
<1>6. Adds({})
  BY <1>2, <1>4 DEF Adds
<1>7. \A i : TriggerOf(i)' = TriggerOf(i)
  BY <1>1 DEF TriggerOf
<1> QED
  BY <1>1, <1>2, <1>3, <1>4, <1>5, <1>6, <1>7

\* The events given, under the numbers of a file that stays as it is.
LEMMA GivenRests ==
    ASSUME GivenAsNumbered, given' = given, file' = file
    PROVE  GivenAsNumbered' /\ GivenEvents' = GivenEvents
<1>1. ASSUME NEW t \in DOMAIN given' PROVE TriggerOf(given[t])' = t
  <2>1. TriggerOf(given[t])' = TriggerOf(given[t])
    BY DEF TriggerOf
  <2> QED
    BY <1>1, <2>1 DEF GivenAsNumbered
<1> QED
  BY <1>1 DEF GivenAsNumbered, GivenEvents

\* The other workers while worker w takes a step.
LEMMA OthersRest ==
    ASSUME NumberedInv, NEW w \in Workers, UNCHANGED <<dealerVars, farmerVars, outputVars>>,
           OthersWait(w), AtWorkers(w)', OnTheWay(w)' = OnTheWay(w),
           \A v \in Workers \ {w} : /\ chan'[DealerRank][v] = chan[DealerRank][v]
                                    /\ chan'[v][FarmerRank] = chan[v][FarmerRank]
    PROVE  /\ InOneBlock' /\ file' = file /\ \A v \in Workers : AtWorkers(v)'
           /\ Apart' /\ NothingElse' /\ NothingMissed' /\ GivenAsNumbered'
<1>1. /\ InOneBlock' /\ Adds({}) /\ (Ending' <=> Ending)
      /\ file' = file /\ item' = item /\ dest' = dest /\ dpc' = dpc
  BY DealerRests, NumberedParts
<1>2. GivenAsNumbered' /\ GivenEvents' = GivenEvents
  <2>1. given' = given
    BY DEF farmerVars, sorterVars
  <2> QED
    BY <1>1, <2>1, GivenRests, NumberedParts
<1>3. ASSUME NEW v \in Workers \ {w} PROVE AtWorkers(v)' /\ OnTheWay(v)' = OnTheWay(v)
  <2>1. Calm(v)
    BY DEF Calm, OthersWait
  <2>2. \A k : Before(v, k)' = Before(v, k)
    BY DEF Before, farmerVars
  <2> QED
    BY <1>1, <2>1, <2>2, NumberedParts, CalmPlaces, CalmWorker
<1>4. Apart' /\ NothingElse' /\ NothingMissed'
  BY <1>1, <1>2, <1>3, NothingComes, NumberedParts
<1> QED
  BY <1>1, <1>2, <1>3, <1>4

\* What remains of an answer when its first message is taken.
LEMMA AnswerTaken ==
    ASSUME NEW w \in Workers, Shorter(DealerRank, w)
    PROVE  /\ AnswerTo(w)' \subseteq AnswerTo(w)
           /\ chan[DealerRank][w][1].tag # "DATA" => AnswerTo(w)' = AnswerTo(w)
           /\ \A k \in DOMAIN chan'[DealerRank][w] :
                 \E l \in DOMAIN chan[DealerRank][w] :
                    chan'[DealerRank][w][k] = chan[DealerRank][w][l]
<1> DEFINE old == chan[DealerRank][w]
           new == chan'[DealerRank][w]
<1>1. PICK n \in Nat : n + 1 = Len(old)
  <2>1. Len(old) \in Nat /\ Len(old) > 0
    BY DEF Shorter
  <2>2. Len(old) - 1 \in Nat /\ (Len(old) - 1) + 1 = Len(old)
    BY <2>1
  <2> QED
    BY <2>2
<1>2. /\ DOMAIN old = 1 .. n + 1 /\ DOMAIN new = 1 .. n
      /\ \A k \in 1 .. n : new[k] = old[k + 1]
  BY <1>1 DEF Shorter
<1>3. /\ AnswerTo(w) = {old[k].body : k \in {j \in 1 .. n + 1 : old[j].tag = "DATA"}}
      /\ AnswerTo(w)' = {new[k].body : k \in {j \in 1 .. n : new[j].tag = "DATA"}}
  BY <1>2 DEF AnswerTo, DataPlaces
<1> HIDE DEF old, new
<1>4. \A k \in 1 .. n : k + 1 \in 1 .. n + 1
  OBVIOUS
<1>5. AnswerTo(w)' \subseteq AnswerTo(w)
  <2>1. ASSUME NEW k \in {j \in 1 .. n : new[j].tag = "DATA"} PROVE new[k].body \in AnswerTo(w)
    <3>1. /\ k + 1 \in {j \in 1 .. n + 1 : old[j].tag = "DATA"}
          /\ new[k].body = old[k + 1].body
      BY <1>2, <1>4
    <3> QED
      BY <1>3, <3>1
  <2> QED
    BY <1>3, <2>1
<1>6. ASSUME old[1].tag # "DATA" PROVE AnswerTo(w) \subseteq AnswerTo(w)'
  <2>1. ASSUME NEW k \in {j \in 1 .. n + 1 : old[j].tag = "DATA"} PROVE old[k].body \in AnswerTo(w)'
    <3>1. PICK l \in 1 .. n : k = l + 1
      <4>1. k # 1
        BY <1>6
      <4>2. k - 1 \in 1 .. n /\ k = (k - 1) + 1
        BY <4>1
      <4> QED
        BY <4>2
    <3>2. l \in {j \in 1 .. n : new[j].tag = "DATA"} /\ new[l].body = old[k].body
      BY <1>2, <3>1
    <3> QED
      BY <1>3, <3>2
  <2> QED
    BY <1>3, <2>1
<1>7. \A k \in DOMAIN new : \E l \in DOMAIN old : new[k] = old[l]
  BY <1>2, <1>4
<1> QED
  BY <1>5, <1>6, <1>7 DEF old, new

\* A worker that sends the farmer nothing.
LEMMA WorkerRests ==
    ASSUME NEW w \in Workers, AtWorkers(w), UNCHANGED <<dealerVars, farmerVars>>,
           chan'[w][FarmerRank] = chan[w][FarmerRank],
           WithWorker(w)' = WithWorker(w),
           \/ HeaderOf(w)' = HeaderOf(w)
           \/ WithWorker(w) = {} /\ ~ (dpc = "sendData" /\ dest = w),
           wpc'[w] \in {"end", "finalize"} => Ending,
           \A k \in DOMAIN chan'[DealerRank][w] :
              \E l \in DOMAIN chan[DealerRank][w] :
                 chan'[DealerRank][w][k] = chan[DealerRank][w][l]
    PROVE  AtWorkers(w)' /\ OnTheWay(w)' = OnTheWay(w)
<1>1. /\ Ending' <=> Ending
      /\ dpc' = dpc /\ dest' = dest /\ item' = item /\ \A i : TriggerOf(i)' = TriggerOf(i)
  BY DealerRests
<1>2. DataPlaces(w, FarmerRank)' = DataPlaces(w, FarmerRank) /\ FromWorker(w)' = FromWorker(w)
  BY DEF DataPlaces, FromWorker
<1>3. \A k : Before(w, k)' = Before(w, k)
  BY DEF Before, farmerVars
<1>4. OnceFrom(w)'
  BY <1>2 DEF AtWorkers, OnceFrom
<1>5. RightNumbers(w)'
  <2>1. \A i \in WithWorker(w)' : HeaderOf(w)' = TriggerOf(i)'
    BY <1>1 DEF AtWorkers, RightNumbers
  <2>2. dpc' = "sendData" /\ dest' = w => HeaderOf(w)' = TriggerOf(item)'
    <3>1. TriggerOf(item)' = TriggerOf(item)
      BY <1>1, DealerRests DEF TriggerOf
    <3> QED
      BY <1>1, <3>1 DEF AtWorkers, RightNumbers
  <2>3. ASSUME NEW k \in DataPlaces(w, FarmerRank)
        PROVE  Before(w, k)'.body = TriggerOf(chan[w][FarmerRank][k].body)'
    <3>1. TriggerOf(chan[w][FarmerRank][k].body)' = TriggerOf(chan[w][FarmerRank][k].body)
      BY DealerRests DEF TriggerOf
    <3> QED
      BY <1>3, <3>1 DEF AtWorkers, RightNumbers
  <2> QED
    BY <1>2, <2>1, <2>2, <2>3 DEF RightNumbers
<1>6. EndIsLast(w)'
  BY <1>1 DEF AtWorkers, EndIsLast
<1> QED
  BY <1>2, <1>4, <1>5, <1>6 DEF AtWorkers, OnTheWay

\* What the protocol says of a worker that waits for no definitions.
LEMMA PastDefinitions ==
    ASSUME NumberedInv, NEW w \in Workers,
           wpc[w] \notin {"paramCount", "params", "varCount", "vars"}
    PROVE  Protocol(w)
<1>1. ParamInv /\ Ordered(w)
  BY NumberedParts
<1>2. Got(w) = 4
  BY <1>1, GotFacts
<1> QED
  BY <1>1, <1>2 DEF Ordered

LEMMA GetPushKeeps ==
    ASSUME NumberedInv, NEW w \in Workers, WorkerGetPush(w), UNCHANGED <<dealerVars, farmerVars>>
    PROVE  AtWorkers(w)' /\ OnTheWay(w)' = OnTheWay(w)
<1>1. PICK k \in DOMAIN Expected :
         /\ wpc[w] = Expected[k]
         /\ Arrived(DealerRank, w, {TagOf(Expected[k])})
         /\ wpc' = [wpc EXCEPT ![w] = IF k = Len(Expected) THEN "request" ELSE Expected[k + 1]]
  BY DEF WorkerGetPush
<1>2. /\ chan' = Received(DealerRank, w) /\ UNCHANGED <<wtrigger, wevent>>
      /\ ParamInv /\ Ordered(w) /\ AtWorkers(w) /\ k \in 1 .. 4 /\ Len(Expected) = 4
  BY NumberedParts DEF WorkerGetPush, Expected
<1>3. /\ wpc[w] \in {"paramCount", "params", "varCount", "vars"}
      /\ wpc'[w] \in {"params", "varCount", "vars", "request"}
  <2>1. k = 1 \/ k = 2 \/ k = 3 \/ k = 4
    BY <1>2
  <2>2. wpc'[w] = IF k = 4 THEN "request" ELSE Expected[k + 1]
    BY <1>1, <1>2, ParamParts DEF WorkersTypeOK
  <2> QED
    BY <1>1, <1>2, <2>1, <2>2 DEF Expected
<1>4. Shorter(DealerRank, w) /\ chan'[w][FarmerRank] = chan[w][FarmerRank]
  BY <1>1, <1>2, WorkerTakes
<1>5. PICK g \in 0 .. 4 : g = Got(w) /\ g < 4
  BY <1>2, <1>3, GotFacts
<1>6. DefinitionsDue(w)
  BY <1>2, <1>5 DEF Ordered
<1>7. AnswerTo(w) = {}
  <2>1. \A j \in DOMAIN chan[DealerRank][w] : chan[DealerRank][w][j].tag # "DATA"
    BY <1>6 DEF DefinitionsDue, TagOf
  <2> QED
    BY <2>1 DEF AnswerTo, DataPlaces
<1>8. AnswerTo(w)' = {}
  BY <1>4, <1>7, AnswerTaken
<1>9. WithWorker(w) = {} /\ WithWorker(w)' = {}
  BY <1>3, <1>7, <1>8 DEF WithWorker
<1>10. ~ (dpc = "sendData" /\ dest = w)
  BY <1>6 DEF DefinitionsDue, Served
<1> QED
  BY <1>2, <1>3, <1>4, <1>9, <1>10, AnswerTaken, WorkerRests

LEMMA RequestKeeps ==
    ASSUME NumberedInv, NEW w \in Workers, WorkerRequest(w), UNCHANGED <<dealerVars, farmerVars>>
    PROVE  AtWorkers(w)' /\ OnTheWay(w)' = OnTheWay(w)
<1>1. /\ wpc[w] = "request" /\ Send(w, DealerRank, "REQUEST", w)
      /\ wpc' = [wpc EXCEPT ![w] = "header"] /\ UNCHANGED <<wtrigger, wevent>>
      /\ ParamInv /\ AtWorkers(w)
  BY NumberedParts DEF WorkerRequest
<1>2. wpc'[w] = "header"
  BY <1>1, ParamParts DEF WorkersTypeOK
<1>3. OthersKept(w, DealerRank)
  BY <1>1, RankFacts, ParamSent
<1>4. /\ chan'[w][FarmerRank] = chan[w][FarmerRank]
      /\ chan'[DealerRank][w] = chan[DealerRank][w]
  BY <1>3, RankFacts DEF OthersKept
<1>5. Silent(w)
  BY <1>1, PastDefinitions DEF Protocol
<1>6. WithWorker(w)' = WithWorker(w)
  BY <1>1, <1>2, <1>4 DEF WithWorker, AnswerTo, DataPlaces
<1>7. HeaderOf(w)' = HeaderOf(w)
  BY <1>1, <1>4, <1>5 DEF HeaderOf, Silent
<1> QED
  BY <1>1, <1>2, <1>4, <1>6, <1>7, WorkerRests

LEMMA GetHeaderKeeps ==
    ASSUME NumberedInv, NEW w \in Workers, WorkerGetHeader(w), UNCHANGED <<dealerVars, farmerVars>>
    PROVE  AtWorkers(w)' /\ OnTheWay(w)' = OnTheWay(w)
<1>1. /\ wpc[w] = "header" /\ Arrived(DealerRank, w, {"HEADER"})
      /\ chan' = Received(DealerRank, w) /\ UNCHANGED wevent /\ ParamInv /\ AtWorkers(w)
  BY NumberedParts DEF WorkerGetHeader
<1>2. PICK header : header = chan[DealerRank][w][1].body
  OBVIOUS
<1>3. /\ chan'[w][FarmerRank] = chan[w][FarmerRank] /\ Shorter(DealerRank, w)
      /\ FirstBody(DealerRank, w) = header
      /\ chan[DealerRank][w][1] \in ToWorker /\ chan[DealerRank][w][1].tag = "HEADER"
  BY <1>1, <1>2, WorkerTakes
<1>4. /\ wpc'[w] = IF header.end THEN "end" ELSE "data"
      /\ wtrigger'[w] = header.trigger
  BY <1>1, <1>3, ParamParts DEF WorkerGetHeader, WorkersTypeOK
<1>5. WithWorker(w)' = WithWorker(w)
  <2>1. AnswerTo(w)' = AnswerTo(w)
    BY <1>3, AnswerTaken
  <2> QED
    BY <1>1, <1>4, <2>1 DEF WithWorker
<1>6. HeaderOf(w)' = HeaderOf(w)
  <2>1. chan[DealerRank][w] # <<>>
    BY <1>1 DEF Arrived
  <2> QED
    BY <1>1, <1>2, <1>4, <2>1 DEF HeaderOf
<1>7. wpc'[w] \in {"end", "finalize"} => Ending
  <2>1. 1 \in DOMAIN chan[DealerRank][w]
    BY <1>3 DEF Shorter
  <2>2. wpc'[w] \in {"end", "finalize"} => header.end
    BY <1>4
  <2> QED
    BY <1>1, <1>2, <1>3, <2>1, <2>2 DEF AtWorkers, EndIsLast, IsEnd
<1> QED
  BY <1>1, <1>3, <1>5, <1>6, <1>7, AnswerTaken, WorkerRests

LEMMA GetDataKeeps ==
    ASSUME NumberedInv, NEW w \in Workers, WorkerGetData(w), UNCHANGED <<dealerVars, farmerVars>>
    PROVE  AtWorkers(w)' /\ OnTheWay(w)' = OnTheWay(w)
<1>1. /\ wpc[w] = "data" /\ Arrived(DealerRank, w, {"DATA"})
      /\ chan' = Received(DealerRank, w) /\ UNCHANGED wtrigger /\ ParamInv /\ AtWorkers(w)
      /\ Empties
  BY NumberedParts DEF WorkerGetData
<1>2. PICK i : i = chan[DealerRank][w][1].body
  OBVIOUS
<1>3. /\ chan'[w][FarmerRank] = chan[w][FarmerRank] /\ Shorter(DealerRank, w)
      /\ FirstBody(DealerRank, w) = i
  BY <1>1, <1>2, WorkerTakes
<1>4. wpc'[w] = "sendHeader" /\ wevent'[w] = i
  BY <1>1, <1>3, ParamParts DEF WorkerGetData, WorkersTypeOK
<1>5. DataSent(w)
  <2>1. DataDue(w) \/ DataSent(w)
    BY <1>1, PastDefinitions DEF Protocol
  <2> QED
    BY <1>1, <2>1 DEF DataDue, Arrived
<1>6. AnswerTo(w) = {i}
  <2>1. DOMAIN chan[DealerRank][w] = {1} /\ chan[DealerRank][w][1].tag = "DATA"
    BY <1>1, <1>5 DEF DataSent, Empties
  <2> QED
    BY <1>2, <2>1 DEF AnswerTo, DataPlaces
<1>7. WithWorker(w)' = WithWorker(w)
  BY <1>1, <1>4, <1>6 DEF WithWorker
<1>8. HeaderOf(w)' = HeaderOf(w)
  BY <1>1, <1>4 DEF HeaderOf
<1> QED
  BY <1>1, <1>3, <1>4, <1>7, <1>8, AnswerTaken, WorkerRests

\* What the farmer is sent.
LEMMA WorkerTold ==
    ASSUME NumberedInv, NEW w \in Workers, UNCHANGED <<dealerVars, farmerVars>>,
           NEW tag \in {"HEADER", "DATA", "END"}, NEW body, Send(w, FarmerRank, tag, body),
           tag = "DATA" <=> wpc[w] = "sendData", wpc[w] # "finalize"
    PROVE  /\ Longer(w, FarmerRank, tag, body) /\ OthersKept(w, FarmerRank)
           /\ \A k \in 1 .. Len(chan[w][FarmerRank]) + 1 : Before(w, k)' = Before(w, k)
<1>1. ParamInv /\ InPairs /\ WorkerOK(w) /\ w \in Ranks /\ FarmerRank \in Ranks
  BY NumberedParts, RankFacts DEF ParamInv
<1>2. Longer(w, FarmerRank, tag, body) /\ OthersKept(w, FarmerRank)
  BY <1>1, ParamSent
<1>3. tag = "DATA" <=> LastSent(w).tag = "HEADER"
  BY <1>1 DEF WorkerOK
<1>4. LastSent(w).tag # "END"
  BY <1>1 DEF WorkerOK
<1>5. UNCHANGED <<fpc, fheader>>
  BY DEF farmerVars
<1> QED
  BY <1>1, <1>2, <1>3, <1>4, <1>5, StreamSent

\* A header or an end, which moves no event.
LEMMA TellsNoEvent ==
    ASSUME NumberedInv, NEW w \in Workers, UNCHANGED <<dealerVars, farmerVars>>,
           NEW tag \in {"HEADER", "END"}, NEW body, Send(w, FarmerRank, tag, body),
           wpc[w] \notin {"sendData", "finalize", "header"}, wpc'[w] # "header",
           wtrigger'[w] = wtrigger[w], WithWorker(w)' = WithWorker(w),
           wpc'[w] \in {"end", "finalize"} => Ending
    PROVE  AtWorkers(w)' /\ OnTheWay(w)' = OnTheWay(w)
<1>1. /\ Longer(w, FarmerRank, tag, body) /\ OthersKept(w, FarmerRank) /\ AtWorkers(w)
      /\ \A k \in 1 .. Len(chan[w][FarmerRank]) + 1 : Before(w, k)' = Before(w, k)
  BY WorkerTold, NumberedParts
<1>2. PICK n \in Nat : n = Len(chan[w][FarmerRank])
  BY <1>1 DEF Longer
<1>3. /\ DOMAIN chan[w][FarmerRank] = 1 .. n /\ DOMAIN chan'[w][FarmerRank] = 1 .. n + 1
      /\ \A k \in 1 .. n : chan'[w][FarmerRank][k] = chan[w][FarmerRank][k]
      /\ chan'[w][FarmerRank][n + 1].tag # "DATA"
  BY <1>1, <1>2 DEF Longer
<1>4. \A k \in 1 .. n + 1 : k \in 1 .. n \/ k = n + 1
  OBVIOUS
<1>5. 1 .. n \subseteq 1 .. n + 1
  OBVIOUS
<1>6. /\ DataPlaces(w, FarmerRank)' = DataPlaces(w, FarmerRank)
      /\ DataPlaces(w, FarmerRank) \subseteq 1 .. n
  BY <1>3, <1>4, <1>5 DEF DataPlaces
<1>7. FromWorker(w)' = FromWorker(w)
  BY <1>3, <1>6 DEF FromWorker
<1>8. OnceFrom(w)'
  BY <1>1, <1>3, <1>6, <1>7 DEF AtWorkers, OnceFrom
<1>9. /\ Ending' <=> Ending
      /\ dpc' = dpc /\ dest' = dest /\ item' = item /\ \A i : TriggerOf(i)' = TriggerOf(i)
  BY DealerRests
<1>10. HeaderOf(w)' = HeaderOf(w)
  BY DEF HeaderOf
<1>11. RightNumbers(w)'
  <2>1. \A i \in WithWorker(w)' : HeaderOf(w)' = TriggerOf(i)'
    BY <1>1, <1>9, <1>10 DEF AtWorkers, RightNumbers
  <2>2. dpc' = "sendData" /\ dest' = w => HeaderOf(w)' = TriggerOf(item)'
    <3>1. TriggerOf(item)' = TriggerOf(item)
      BY <1>9, DealerRests DEF TriggerOf
    <3> QED
      BY <1>1, <1>9, <1>10, <3>1 DEF AtWorkers, RightNumbers
  <2>3. ASSUME NEW k \in DataPlaces(w, FarmerRank)
        PROVE  Before(w, k)'.body = TriggerOf(chan[w][FarmerRank][k].body)'
    <3>1. TriggerOf(chan[w][FarmerRank][k].body)' = TriggerOf(chan'[w][FarmerRank][k].body)
      BY DealerRests DEF TriggerOf
    <3>2. chan'[w][FarmerRank][k] = chan[w][FarmerRank][k] /\ Before(w, k)' = Before(w, k)
      BY <1>1, <1>2, <1>3, <1>5, <1>6
    <3> QED
      BY <1>1, <3>1, <3>2 DEF AtWorkers, RightNumbers
  <2> QED
    BY <1>6, <2>1, <2>2, <2>3 DEF RightNumbers
<1>12. EndIsLast(w)'
  <2>1. chan'[DealerRank][w] = chan[DealerRank][w]
    BY <1>1, RankFacts DEF OthersKept
  <2> QED
    BY <1>1, <1>9, <2>1 DEF AtWorkers, EndIsLast
<1> QED
  BY <1>7, <1>8, <1>11, <1>12 DEF AtWorkers, OnTheWay

\* The event itself, behind the header that has its number.
LEMMA SendDataKeeps ==
    ASSUME NumberedInv, NEW w \in Workers, WorkerSendData(w), UNCHANGED <<dealerVars, farmerVars>>
    PROVE  AtWorkers(w)' /\ OnTheWay(w)' = OnTheWay(w)
<1>1. PICK i : i = wevent[w]
  OBVIOUS
<1>2. /\ Send(w, FarmerRank, "DATA", i) /\ wpc[w] = "sendData"
      /\ wpc' = [wpc EXCEPT ![w] = "request"] /\ UNCHANGED <<wtrigger, wevent>>
      /\ ParamInv /\ AtWorkers(w)
  BY <1>1, NumberedParts DEF WorkerSendData
<1>3. wpc'[w] = "request"
  BY <1>2, ParamParts DEF WorkersTypeOK
<1>4. /\ Longer(w, FarmerRank, "DATA", i) /\ OthersKept(w, FarmerRank)
      /\ \A k \in 1 .. Len(chan[w][FarmerRank]) + 1 : Before(w, k)' = Before(w, k)
  BY <1>2, WorkerTold
<1>5. chan'[DealerRank][w] = chan[DealerRank][w]
  BY <1>4, RankFacts DEF OthersKept
<1>6. Silent(w)
  BY <1>2, PastDefinitions DEF Protocol
<1>7. WithWorker(w) = {i} /\ WithWorker(w)' = {} /\ HeaderOf(w) = wtrigger[w]
  <2>1. AnswerTo(w)' = {}
    BY <1>5, <1>6 DEF Silent, AnswerTo, DataPlaces
  <2> QED
    BY <1>1, <1>2, <1>3, <2>1 DEF WithWorker, HeaderOf
<1>8. PICK n \in Nat : n = Len(chan[w][FarmerRank])
  BY <1>4 DEF Longer
<1>9. /\ DOMAIN chan[w][FarmerRank] = 1 .. n /\ DOMAIN chan'[w][FarmerRank] = 1 .. n + 1
      /\ \A k \in 1 .. n : chan'[w][FarmerRank][k] = chan[w][FarmerRank][k]
      /\ chan'[w][FarmerRank][n + 1].tag = "DATA" /\ chan'[w][FarmerRank][n + 1].body = i
  BY <1>4, <1>8 DEF Longer
<1>10. \A k \in 1 .. n + 1 : k \in 1 .. n \/ k = n + 1
  OBVIOUS
<1>11. 1 .. n \subseteq 1 .. n + 1 /\ n + 1 \in 1 .. n + 1
  OBVIOUS
<1>12. /\ DataPlaces(w, FarmerRank)' = DataPlaces(w, FarmerRank) \union {n + 1}
       /\ DataPlaces(w, FarmerRank) \subseteq 1 .. n
  BY <1>9, <1>10, <1>11 DEF DataPlaces
<1>13. \A k \in DataPlaces(w, FarmerRank) :
          /\ chan'[w][FarmerRank][k] = chan[w][FarmerRank][k]
          /\ Before(w, k)' = Before(w, k)
  BY <1>4, <1>8, <1>9, <1>11, <1>12
<1>14. FromWorker(w)' = FromWorker(w) \union {i}
  BY <1>9, <1>12, <1>13 DEF FromWorker
<1>15. \A k \in DataPlaces(w, FarmerRank) : chan[w][FarmerRank][k].body # i
  BY <1>2, <1>7 DEF AtWorkers, OnceFrom, FromWorker
<1>16. OnceFrom(w)'
  <2>1. ASSUME NEW k \in DataPlaces(w, FarmerRank)', NEW l \in DataPlaces(w, FarmerRank)',
               chan'[w][FarmerRank][k].body = chan'[w][FarmerRank][l].body
        PROVE  k = l
    <3>1. CASE k = n + 1 /\ l = n + 1
      BY <3>1
    <3>2. CASE k = n + 1 /\ l # n + 1
      <4>1. l \in DataPlaces(w, FarmerRank)
        BY <1>12, <3>2
      <4> QED
        BY <1>9, <1>13, <1>15, <2>1, <3>2, <4>1
    <3>3. CASE k # n + 1 /\ l = n + 1
      <4>1. k \in DataPlaces(w, FarmerRank)
        BY <1>12, <3>3
      <4> QED
        BY <1>9, <1>13, <1>15, <2>1, <3>3, <4>1
    <3>4. CASE k # n + 1 /\ l # n + 1
      <4>1. k \in DataPlaces(w, FarmerRank) /\ l \in DataPlaces(w, FarmerRank)
        BY <1>12, <3>4
      <4> QED
        BY <1>2, <1>13, <2>1, <4>1 DEF AtWorkers, OnceFrom
    <3> QED
      BY <3>1, <3>2, <3>3, <3>4
  <2> QED
    BY <1>7, <2>1 DEF OnceFrom
<1>17. /\ Ending' <=> Ending
       /\ dpc' = dpc /\ dest' = dest
  BY DealerRests
<1>18. RightNumbers(w)'
  <2>1. ~ (dpc' = "sendData" /\ dest' = w)
    BY <1>6, <1>17 DEF Silent, Served
  <2>2. ASSUME NEW k \in DataPlaces(w, FarmerRank)'
        PROVE  Before(w, k)'.body = TriggerOf(chan[w][FarmerRank][k].body)'
    <3>0. TriggerOf(chan[w][FarmerRank][k].body)' = TriggerOf(chan'[w][FarmerRank][k].body)
      BY DealerRests DEF TriggerOf
    <3>1. CASE k = n + 1
      <4>1. Before(w, k)' = LastSent(w)
        BY <1>4, <1>8, <1>11, <3>1 DEF LastSent
      <4>2. LastSent(w).body = wtrigger[w]
        BY <1>2 DEF ParamInv, WorkerOK
      <4>3. wtrigger[w] = TriggerOf(i)
        BY <1>2, <1>7 DEF AtWorkers, RightNumbers
      <4> QED
        BY <1>9, <3>0, <3>1, <4>1, <4>2, <4>3
    <3>2. CASE k # n + 1
      <4>1. k \in DataPlaces(w, FarmerRank)
        BY <1>12, <3>2
      <4> QED
        BY <1>2, <1>13, <3>0, <4>1 DEF AtWorkers, RightNumbers
    <3> QED
      BY <3>1, <3>2
  <2> QED
    BY <1>7, <2>1, <2>2 DEF RightNumbers
<1>19. EndIsLast(w)'
  BY <1>2, <1>3, <1>5, <1>17 DEF AtWorkers, EndIsLast
<1> QED
  BY <1>7, <1>14, <1>16, <1>18, <1>19 DEF AtWorkers, OnTheWay

LEMMA WorkerKeeps ==
    ASSUME NumberedInv, NEW w \in Workers, WorkerStep(w)
    PROVE  /\ InOneBlock' /\ file' = file /\ \A v \in Workers : AtWorkers(v)'
           /\ Apart' /\ NothingElse' /\ NothingMissed' /\ GivenAsNumbered'
<1>1. /\ ParamInv /\ WorkerNext(w) /\ UNCHANGED <<dealerVars, farmerVars, outputVars>>
      /\ AtWorkers(w)
  BY NumberedParts DEF WorkerStep
<1>2. ASSUME NEW a \in Ranks, NEW b \in Ranks, OthersKept(a, b), a = w \/ b = w
      PROVE  \A v \in Workers \ {w} : /\ chan'[DealerRank][v] = chan[DealerRank][v]
                                      /\ chan'[v][FarmerRank] = chan[v][FarmerRank]
  BY <1>2, RankFacts DEF OthersKept
<1>3. ASSUME NEW tags, Arrived(DealerRank, w, tags), chan' = Received(DealerRank, w)
      PROVE  \A v \in Workers \ {w} : /\ chan'[DealerRank][v] = chan[DealerRank][v]
                                      /\ chan'[v][FarmerRank] = chan[v][FarmerRank]
  BY <1>1, <1>2, <1>3, WorkerTakes, RankFacts
<1>4. ASSUME NEW to \in Ranks, NEW tag, NEW body, Send(w, to, tag, body)
      PROVE  \A v \in Workers \ {w} : /\ chan'[DealerRank][v] = chan[DealerRank][v]
                                      /\ chan'[v][FarmerRank] = chan[v][FarmerRank]
  BY <1>1, <1>2, <1>4, ParamSent, RankFacts
<1>5. CASE WorkerGetPush(w) \/ WorkerGetHeader(w) \/ WorkerGetData(w)
  <2>1. PICK tags : Arrived(DealerRank, w, tags) /\ chan' = Received(DealerRank, w)
    BY <1>5 DEF WorkerGetPush, WorkerGetHeader, WorkerGetData
  <2>2. OthersWait(w)
    BY <1>1, <1>5, ParamParts
    DEF OthersWait, WorkersTypeOK, WorkerGetPush, WorkerGetHeader, WorkerGetData
  <2>3. AtWorkers(w)' /\ OnTheWay(w)' = OnTheWay(w)
    BY <1>1, <1>5, GetPushKeeps, GetHeaderKeeps, GetDataKeeps
  <2> QED
    BY <1>1, <1>3, <2>1, <2>2, <2>3, OthersRest
<1>6. CASE WorkerRequest(w) \/ WorkerSendHeader(w) \/ WorkerSendData(w) \/ WorkerSendEnd(w)
  <2>0. PICK to \in Ranks : \E tag, body : Send(w, to, tag, body)
    BY <1>6, RankFacts DEF WorkerRequest, WorkerSendHeader, WorkerSendData, WorkerSendEnd
  <2>1. PICK tag, body : Send(w, to, tag, body)
    BY <2>0
  <2>2. OthersWait(w)
    BY <1>1, <1>6, ParamParts
    DEF OthersWait, WorkersTypeOK, WorkerRequest, WorkerSendHeader, WorkerSendData, WorkerSendEnd
  <2>3. AtWorkers(w)' /\ OnTheWay(w)' = OnTheWay(w)
    <3>1. CASE WorkerSendHeader(w)
      <4>1. PICK t : t = wtrigger[w]
        OBVIOUS
      <4>2. /\ Send(w, FarmerRank, "HEADER", t) /\ wpc[w] = "sendHeader"
            /\ wpc'[w] = "sendData" /\ UNCHANGED <<wtrigger, wevent>>
        BY <1>1, <3>1, <4>1, ParamParts DEF WorkerSendHeader, WorkersTypeOK
      <4>3. WithWorker(w)' = WithWorker(w)
        BY <4>2 DEF WithWorker
      <4> QED
        BY <1>1, <4>2, <4>3, TellsNoEvent
    <3>2. CASE WorkerSendEnd(w)
      <4>1. /\ Send(w, FarmerRank, "END", 0) /\ wpc[w] = "end"
            /\ wpc'[w] = "finalize" /\ UNCHANGED <<wtrigger, wevent>>
        BY <1>1, <3>2, ParamParts DEF WorkerSendEnd, WorkersTypeOK
      <4>2. OthersKept(w, FarmerRank)
        BY <1>1, <4>1, RankFacts, ParamSent
      <4>3. chan'[DealerRank][w] = chan[DealerRank][w]
        BY <4>2, RankFacts DEF OthersKept
      <4>4. WithWorker(w)' = WithWorker(w)
        BY <4>1, <4>3 DEF WithWorker, AnswerTo, DataPlaces
      <4>5. Ending
        BY <1>1, <4>1 DEF AtWorkers, EndIsLast
      <4> QED
        BY <1>1, <4>1, <4>4, <4>5, TellsNoEvent
    <3> QED
      BY <1>1, <1>6, <3>1, <3>2, RequestKeeps, SendDataKeeps
  <2> QED
    BY <1>1, <1>4, <2>1, <2>2, <2>3, OthersRest
<1> QED
  BY <1>1, <1>5, <1>6 DEF WorkerNext

(***************************************************************************)
(* The numbers of the events: as many events precede an event as its       *)
(* number says.                                                            *)
(***************************************************************************)
LEMMA TriggerFacts ==
    ASSUME file \in Seq(ItemKinds)
    PROVE  /\ AllEvents \in SUBSET Nat /\ IsFiniteSet(AllEvents)
           /\ EventsOf(file) = InOrder(AllEvents)
           /\ Cardinality(AllEvents) \in Nat
           /\ Len(EventsOf(file)) = Cardinality(AllEvents)
           /\ \A i \in AllEvents : /\ TriggerOf(i) \in Nat
                                   /\ Cardinality({y \in AllEvents : y <= i}) = TriggerOf(i) + 1
<1>1. PICK n \in Nat : n = Len(file) /\ DOMAIN file = 1 .. n
  OBVIOUS
<1>2. AllEvents \in SUBSET Nat /\ AllEvents \in SUBSET (1 .. n)
  BY <1>1 DEF AllEvents
<1>3. IsFiniteSet(AllEvents)
  <2>1. 1 \in Int /\ n \in Int
    BY <1>1
  <2>2. IsFiniteSet(1 .. n)
    BY <2>1, FS_Interval
  <2> QED
    BY <1>2, <2>2, FS_Subset
<1>4. EventsOf(file) = InOrder(AllEvents)
  BY DEF EventsOf, AllEvents
<1>5. Cardinality(AllEvents) \in Nat /\ Len(EventsOf(file)) = Cardinality(AllEvents)
  BY <1>2, <1>3, <1>4, InOrderMembers
<1>6. ASSUME NEW i \in AllEvents
      PROVE  /\ TriggerOf(i) \in Nat
             /\ Cardinality({y \in AllEvents : y <= i}) = TriggerOf(i) + 1
  <2>1. PICK B : B = {j \in 1 .. i - 1 : file[j] = "data"}
    OBVIOUS
  <2>2. i \in 1 .. n /\ i \in Nat /\ file[i] = "data"
    BY <1>1 DEF AllEvents
  <2>3. B \in SUBSET AllEvents
    BY <1>1, <2>1, <2>2 DEF AllEvents
  <2>4. IsFiniteSet(B) /\ i \notin B
    BY <1>3, <2>1, <2>2, <2>3, FS_Subset
  <2>5. {y \in AllEvents : y <= i} = B \union {i}
    BY <1>1, <2>1, <2>2 DEF AllEvents
  <2>6. Cardinality(B \union {i}) = Cardinality(B) + 1
    BY <2>4, FS_AddElement
  <2>7. Cardinality(B) \in Nat /\ Cardinality(B) = TriggerOf(i)
    BY <2>1, <2>4, FS_CardinalityType DEF TriggerOf
  <2> QED
    BY <2>5, <2>6, <2>7
<1> QED
  BY <1>2, <1>3, <1>4, <1>5, <1>6

\* The event that a number belongs to is where the number says.
LEMMA TriggerPlace ==
    ASSUME file \in Seq(ItemKinds), NEW i \in AllEvents, NEW t, TriggerOf(i) = t
    PROVE  /\ t \in Nat /\ t < Cardinality(AllEvents)
           /\ EventsOf(file)[t + 1] = i
<1>1. t \in Nat /\ t + 1 \in Nat /\ Cardinality({y \in AllEvents : y <= i}) = t + 1
  BY TriggerFacts
<1>2. t + 1 \in 1 .. Cardinality(AllEvents) /\ InOrder(AllEvents)[t + 1] = i
  BY <1>1, TriggerFacts, InOrderUnique
<1> QED
  BY <1>1, <1>2, TriggerFacts

LEMMA TriggerUnique ==
    ASSUME file \in Seq(ItemKinds), NEW i \in AllEvents, NEW j \in AllEvents,
           TriggerOf(i) = TriggerOf(j)
    PROVE  i = j
<1>1. PICK t : t = TriggerOf(i)
  OBVIOUS
<1> QED
  BY <1>1, TriggerPlace

\* Every number below the count of the events is the number of one of them.
LEMMA TriggerOnto ==
    ASSUME file \in Seq(ItemKinds), NEW t \in Nat, t < Cardinality(AllEvents)
    PROVE  \E i \in AllEvents : TriggerOf(i) = t
<1>1. PICK S, n : S = AllEvents /\ n = Cardinality(S)
  OBVIOUS
<1>2. S \in SUBSET Nat /\ IsFiniteSet(S) /\ n \in Nat
  BY <1>1, TriggerFacts
<1>3. t + 1 \in 1 .. n
  BY <1>1, <1>2
<1>4. PICK i \in S : Cardinality({y \in S : y <= i}) = t + 1
  BY <1>1, <1>2, <1>3, InOrderMembers
<1>5. TriggerOf(i) \in Nat /\ TriggerOf(i) + 1 = t + 1
  BY <1>1, <1>4, TriggerFacts
<1>6. TriggerOf(i) = t
  BY <1>5
<1> QED
  BY <1>1, <1>6

LEMMA EventsBound == file \in Files => Cardinality(AllEvents) <= MaxTrigger + 1
BY ParamAssumption DEF AllEvents
-----------------------------------------------------------------------------
(***************************************************************************)
(* The steps of the farmer: an event comes from its worker to the sorter.  *)
(***************************************************************************)
\* The event in the first message of worker w, if that is one.
FirstEvent(w) ==
    IF chan[w][FarmerRank][1].tag = "DATA" THEN {chan[w][FarmerRank][1].body} ELSE {}

\* Worker w's stream without its first message.
LEMMA TakenFromStream ==
    ASSUME NumberedInv, UNCHANGED <<dealerVars, workerVars>>,
           NEW w \in Workers, NEW tag \in {"HEADER", "DATA", "END"}, StreamTaken(w, tag)
    PROVE  /\ AtWorkers(w)'
           /\ FirstEvent(w) \subseteq OnTheWay(w)
           /\ OnTheWay(w)' = OnTheWay(w) \ FirstEvent(w)
<1> DEFINE old == chan[w][FarmerRank]
           new == chan'[w][FarmerRank]
<1>1. /\ ParamInv /\ AtWorkers(w) /\ wpc' = wpc /\ wevent' = wevent /\ wtrigger' = wtrigger
      /\ w \in Ranks /\ FarmerRank \in Ranks /\ Takes(w, FarmerRank)
  BY NumberedParts, RankFacts DEF workerVars, StreamTaken
<1>2. Shorter(w, FarmerRank) /\ OthersKept(w, FarmerRank)
  BY <1>1, ParamParts, TypedTaken
<1>3. chan'[DealerRank][w] = chan[DealerRank][w]
  BY <1>1, <1>2, RankFacts DEF OthersKept
<1>4. PICK n \in Nat : n + 1 = Len(old)
  <2>1. Len(old) \in Nat /\ Len(old) > 0
    BY <1>2 DEF Shorter
  <2>2. Len(old) - 1 \in Nat /\ (Len(old) - 1) + 1 = Len(old)
    BY <2>1
  <2> QED
    BY <2>2
<1>5. /\ DOMAIN old = 1 .. n + 1 /\ DOMAIN new = 1 .. n
      /\ \A k \in 1 .. n : new[k] = old[k + 1]
  BY <1>2, <1>4 DEF Shorter
<1>6. \A k \in 1 .. n : k + 1 \in 1 .. n + 1 /\ k \in 1 .. n + 1 /\ k \in Nat
  OBVIOUS
<1>7. \A k \in 1 .. n + 1 : k # 1 => \E l \in 1 .. n : k = l + 1
  <2>1. ASSUME NEW k \in 1 .. n + 1, k # 1 PROVE \E l \in 1 .. n : k = l + 1
    <3>1. k - 1 \in 1 .. n /\ k = (k - 1) + 1
      BY <2>1
    <3> QED
      BY <3>1
  <2> QED
    BY <2>1
<1>8. /\ DataPlaces(w, FarmerRank) = {k \in 1 .. n + 1 : old[k].tag = "DATA"}
      /\ DataPlaces(w, FarmerRank)' = {k \in 1 .. n : new[k].tag = "DATA"}
      /\ FromWorker(w) = {old[k].body : k \in DataPlaces(w, FarmerRank)}
      /\ FromWorker(w)' = {new[k].body : k \in DataPlaces(w, FarmerRank)'}
  BY <1>5 DEF DataPlaces, FromWorker
<1>9. \A k \in 1 .. n : \/ Before(w, k)' = Before(w, k + 1)
                        \/ Before(w, k + 1).tag = tag /\ tag # "HEADER"
  BY <1>4, <1>6 DEF StreamTaken
<1> HIDE DEF old, new
<1>10. \A k \in DataPlaces(w, FarmerRank)' :
          k \in 1 .. n /\ k + 1 \in DataPlaces(w, FarmerRank) /\ new[k] = old[k + 1]
  BY <1>5, <1>6, <1>8
<1>11. FirstEvent(w) = IF old[1].tag = "DATA" THEN {old[1].body} ELSE {}
  BY DEF FirstEvent, old
<1>12. FirstEvent(w) \subseteq FromWorker(w)
  <2>1. 1 \in 1 .. n + 1
    OBVIOUS
  <2> QED
    BY <1>8, <1>11, <2>1
<1>13. FromWorker(w)' = FromWorker(w) \ FirstEvent(w)
  <2>1. ASSUME NEW k \in DataPlaces(w, FarmerRank), old[k].body \notin FirstEvent(w)
        PROVE  \E l \in DataPlaces(w, FarmerRank)' : new[l].body = old[k].body
    <3>0. k # 1
      BY <1>8, <1>11, <2>1
    <3>1. PICK l \in 1 .. n : k = l + 1
      BY <1>7, <1>8, <2>1, <3>0
    <3>2. new[l] = old[k] /\ l \in DataPlaces(w, FarmerRank)'
      BY <1>5, <1>8, <2>1, <3>1
    <3> QED
      BY <3>2
  <2>2. ASSUME NEW k \in DataPlaces(w, FarmerRank)'
        PROVE  new[k].body \in FromWorker(w) /\ new[k].body \notin FirstEvent(w)
    <3>1. PICK l \in DataPlaces(w, FarmerRank) : l = k + 1 /\ k \in Nat /\ new[k] = old[l]
      BY <1>6, <1>10, <2>2
    <3>2. CASE old[1].tag = "DATA"
      <4>1. 1 \in DataPlaces(w, FarmerRank) /\ l # 1
        BY <1>8, <3>1, <3>2
      <4>2. old[1].body # old[l].body
        BY <1>1, <4>1 DEF AtWorkers, OnceFrom, old
      <4> QED
        BY <1>8, <1>11, <3>1, <3>2, <4>2
    <3>3. CASE old[1].tag # "DATA"
      BY <1>8, <1>11, <3>1, <3>3
    <3> QED
      BY <3>2, <3>3
  <2>3. ASSUME NEW x PROVE x \in FromWorker(w)' <=> x \in FromWorker(w) /\ x \notin FirstEvent(w)
    BY <1>8, <2>1, <2>2
  <2> QED
    BY <2>3
<1>14. /\ WithWorker(w)' = WithWorker(w) /\ HeaderOf(w)' = HeaderOf(w)
  BY <1>1, <1>3 DEF WithWorker, AnswerTo, DataPlaces, HeaderOf
<1>15. OnceFrom(w)'
  <2>1. ASSUME NEW k \in DataPlaces(w, FarmerRank)', NEW l \in DataPlaces(w, FarmerRank)',
               new[k].body = new[l].body
        PROVE  k = l
    <3>1. PICK kk \in DataPlaces(w, FarmerRank), ll \in DataPlaces(w, FarmerRank) :
             /\ kk = k + 1 /\ ll = l + 1 /\ old[kk].body = old[ll].body
             /\ k \in Nat /\ l \in Nat
      BY <1>6, <1>10, <2>1
    <3>2. kk = ll
      BY <1>1, <3>1 DEF AtWorkers, OnceFrom, old
    <3> QED
      BY <3>1, <3>2
  <2> QED
    BY <1>1, <1>13, <1>14, <2>1 DEF AtWorkers, OnceFrom, new
<1>16. /\ Ending' <=> Ending
       /\ dpc' = dpc /\ dest' = dest /\ item' = item /\ \A i : TriggerOf(i)' = TriggerOf(i)
  BY DealerRests
<1>17. RightNumbers(w)'
  <2>1. \A i \in WithWorker(w)' : HeaderOf(w)' = TriggerOf(i)'
    BY <1>1, <1>14, <1>16 DEF AtWorkers, RightNumbers
  <2>2. dpc' = "sendData" /\ dest' = w => HeaderOf(w)' = TriggerOf(item)'
    <3>1. TriggerOf(item)' = TriggerOf(item)
      BY <1>16, DealerRests DEF TriggerOf
    <3> QED
      BY <1>1, <1>14, <1>16, <3>1 DEF AtWorkers, RightNumbers
  <2>3. ASSUME NEW k \in DataPlaces(w, FarmerRank)'
        PROVE  Before(w, k)'.body = TriggerOf(chan[w][FarmerRank][k].body)'
    <3>1. TriggerOf(chan[w][FarmerRank][k].body)' = TriggerOf(new[k].body)
      BY DealerRests DEF TriggerOf, new
    <3>2. PICK l \in DataPlaces(w, FarmerRank) : l = k + 1 /\ new[k] = old[l] /\ k \in 1 .. n
      BY <1>10, <2>3
    <3>3. Before(w, l).tag = "HEADER"
      BY <3>2, <1>1, ParamParts DEF InPairs, DataPlaces
    <3>4. Before(w, k)' = Before(w, l)
      <4>1. ~ (Before(w, l).tag = tag /\ tag # "HEADER")
        BY <3>3
      <4> QED
        BY <1>9, <3>2, <4>1
    <3>5. Before(w, l).body = TriggerOf(old[l].body)
      BY <1>1, <3>2 DEF AtWorkers, RightNumbers, old
    <3> QED
      BY <3>1, <3>2, <3>4, <3>5
  <2> QED
    BY <2>1, <2>2, <2>3 DEF RightNumbers
<1>18. EndIsLast(w)'
  BY <1>1, <1>3, <1>16 DEF AtWorkers, EndIsLast
<1>19. WithWorker(w) \intersect FirstEvent(w) = {}
  BY <1>1, <1>12 DEF AtWorkers, OnceFrom
<1> QED
  BY <1>13, <1>14, <1>15, <1>17, <1>18, <1>12, <1>19 DEF AtWorkers, OnTheWay
-----------------------------------------------------------------------------
\* The other workers while the farmer takes a message of worker w.
LEMMA OtherStreams ==
    ASSUME NumberedInv, UNCHANGED <<dealerVars, workerVars>>,
           NEW w \in Workers, NEW tag, StreamTaken(w, tag), NEW v \in Workers \ {w}
    PROVE  AtWorkers(v)' /\ OnTheWay(v)' = OnTheWay(v)
<1>1. /\ ParamInv /\ AtWorkers(v) /\ w \in Ranks /\ v \in Ranks /\ FarmerRank \in Ranks
      /\ Takes(w, FarmerRank)
  BY NumberedParts, RankFacts DEF StreamTaken
<1>2. OthersKept(w, FarmerRank)
  BY <1>1, ParamParts, TypedTaken
<1>3. Calm(v)
  BY <1>1, <1>2, RankFacts DEF Calm, OthersKept, workerVars
<1>4. \A k \in DataPlaces(v, FarmerRank) : Before(v, k)' = Before(v, k)
  <2>1. chan[v][FarmerRank] \in Seq(EventMessages)
    BY <1>1, ParamParts DEF MessagesOK, StreamsOK
  <2>2. \A k \in DataPlaces(v, FarmerRank) : k \in Nat \ {0}
    BY <2>1 DEF DataPlaces
  <2> QED
    BY <2>2 DEF StreamTaken
<1> QED
  BY <1>1, <1>3, <1>4, DealerRests, CalmPlaces, CalmWorker

\* A step in which no event leaves its worker.
LEMMA FarmerLeaves ==
    ASSUME NumberedInv, UNCHANGED <<dealerVars, workerVars>>, given' = given,
           \A v \in Workers : AtWorkers(v)' /\ OnTheWay(v)' = OnTheWay(v)
    PROVE  /\ InOneBlock' /\ file' = file /\ \A v \in Workers : AtWorkers(v)'
           /\ Apart' /\ NothingElse' /\ NothingMissed' /\ GivenAsNumbered'
<1>1. InOneBlock' /\ Adds({}) /\ file' = file
  BY DealerRests, NumberedParts
<1>2. GivenAsNumbered' /\ GivenEvents' = GivenEvents
  BY <1>1, GivenRests, NumberedParts
<1>3. Apart' /\ NothingElse' /\ NothingMissed'
  BY <1>1, <1>2, NothingComes, NumberedParts
<1> QED
  BY <1>1, <1>2, <1>3

\* Nobody but the farmer and the outputter takes part.
LEMMA EndsAlone ==
    ASSUME NumberedInv, UNCHANGED <<dealerVars, workerVars>>,
           \A v \in Workers : /\ chan'[DealerRank][v] = chan[DealerRank][v]
                              /\ chan'[v][FarmerRank] = chan[v][FarmerRank],
           fpc' = "data" <=> fpc = "data", fheader' = fheader,
           NEW v \in Workers
    PROVE  AtWorkers(v)' /\ OnTheWay(v)' = OnTheWay(v)
<1>1. Calm(v) /\ AtWorkers(v)
  BY NumberedParts DEF Calm, workerVars
<1>2. \A k : Before(v, k)' = Before(v, k)
  BY DEF Before
<1> QED
  BY <1>1, <1>2, DealerRests, CalmPlaces, CalmWorker

\* What addItem is given: event i of worker w, under its number t.
Fresh(w, t, i) ==
    /\ StreamTaken(w, "DATA") /\ FirstEvent(w) = {i} /\ i \in AllEvents
    /\ TriggerOf(i) = t /\ t \notin DOMAIN given
    /\ [trigger |-> t, event |-> i] \in Item
    /\ AddItem([trigger |-> t, event |-> i])

LEMMA FreshEvent ==
    ASSUME NumberedInv, FarmerGetData, UNCHANGED outputVars
    PROVE  \E w \in Workers : \E t, i : Fresh(w, t, i)
<1>1. FarmerOK /\ ParamInv /\ file \in Seq(ItemKinds)
  BY NumberedParts, ParamParts, ParamAssumption DEF DealerTypeOK
<1>2. PICK w \in Workers : w = fheader.source /\ StreamTaken(w, "DATA")
  BY <1>1, FarmerTakesData
<1>3. PICK t, i : t = fheader.trigger /\ i = chan[fheader.source][FarmerRank][1].body
  OBVIOUS
<1>4. /\ chan[w][FarmerRank][1].tag = "DATA" /\ chan[w][FarmerRank][1].body = i
      /\ [trigger |-> t, event |-> i] \in Item
      /\ AddItem([trigger |-> t, event |-> i])
  BY <1>1, <1>2, <1>3, FarmerGetDataOK
<1>5. 1 \in DataPlaces(w, FarmerRank)
  <2>1. chan[w][FarmerRank] \in Seq(EventMessages) /\ chan[w][FarmerRank] # <<>>
    BY <1>1, <1>2, ParamParts DEF MessagesOK, StreamsOK, StreamTaken, Takes
  <2> QED
    BY <1>4, <2>1 DEF DataPlaces
<1>6. i \in FromWorker(w) /\ i \in OnTheWay(w)
  BY <1>4, <1>5 DEF FromWorker, OnTheWay
<1>7. i \in Dealt /\ i \in AllEvents /\ i \notin GivenEvents
  BY <1>6, NumberedParts DEF NothingElse, Everywhere, Apart, Dealt
<1>8. Before(w, 1).body = t
  BY <1>2, <1>3 DEF Before, FarmerGetData
<1>9. TriggerOf(i) = t
  BY <1>4, <1>5, <1>8, NumberedParts DEF AtWorkers, RightNumbers
<1>10. t \notin DOMAIN given
  <2>1. SUFFICES ASSUME t \in DOMAIN given PROVE FALSE
    OBVIOUS
  <2>2. TriggerOf(given[t]) = t /\ given[t] \in GivenEvents
    BY <2>1, NumberedParts DEF GivenAsNumbered, GivenEvents
  <2>3. given[t] \in AllEvents
    BY <2>2, NumberedParts DEF NothingElse, Everywhere, Dealt
  <2>4. given[t] = i
    BY <1>1, <1>7, <1>9, <2>2, <2>3, TriggerUnique
  <2> QED
    BY <1>7, <2>2, <2>4
<1>11. FirstEvent(w) = {i}
  BY <1>4 DEF FirstEvent
<1> QED
  BY <1>2, <1>4, <1>7, <1>9, <1>10, <1>11 DEF Fresh

\* What addItem does to the events.
LEMMA FreshMoves ==
    ASSUME NumberedInv, UNCHANGED <<dealerVars, workerVars>>,
           NEW w \in Workers, NEW t, NEW i, Fresh(w, t, i)
    PROVE  /\ InOneBlock' /\ file' = file /\ \A v \in Workers : AtWorkers(v)'
           /\ Apart' /\ NothingElse' /\ NothingMissed' /\ GivenAsNumbered'
<1>1. InOneBlock' /\ Adds({}) /\ file' = file /\ \A j : TriggerOf(j)' = TriggerOf(j)
  BY DealerRests, NumberedParts
<1>2. /\ AtWorkers(w)' /\ {i} \subseteq OnTheWay(w) /\ OnTheWay(w)' = OnTheWay(w) \ {i}
  BY TakenFromStream DEF Fresh
<1>3. ASSUME NEW v \in Workers \ {w} PROVE AtWorkers(v)' /\ OnTheWay(v)' = OnTheWay(v)
  BY OtherStreams DEF Fresh
<1>4. /\ given \in Holdings /\ t \notin DOMAIN given /\ TriggerOf(i) = t
      /\ DOMAIN given' = DOMAIN given \union {t} /\ given'[t] = i
      /\ \A s \in DOMAIN given : given'[s] = given[s]
  <2>1. PICK new \in Item : new = [trigger |-> t, event |-> i] /\ given' = Holding(given, new)
    BY DEF Fresh, AddItem
  <2>2. new.trigger = t /\ new.event = i
    BY <2>1
  <2>3. given \in Holdings /\ t \notin DOMAIN given /\ TriggerOf(i) = t
    BY NumberedParts DEF SorterInv, SorterTypeOK, Fresh
  <2>4. /\ DOMAIN given' = DOMAIN given \union {t} /\ given'[t] = i
        /\ \A s \in DOMAIN given : s # t => given'[s] = given[s]
    BY <2>1, <2>2, <2>3, HoldingType
  <2> QED
    BY <2>3, <2>4
<1>5. GivenEvents' = GivenEvents \union {i}
  BY <1>4 DEF GivenEvents
<1>6. Moves(w, {}, {i})
  BY <1>2, <1>3, <1>5 DEF Moves
<1>7. Apart' /\ NothingElse' /\ NothingMissed'
  BY <1>1, <1>6, EventsMove, NumberedParts
<1>8. GivenAsNumbered'
  <2>1. ASSUME NEW s \in DOMAIN given' PROVE TriggerOf(given[s])' = s
    <3>1. TriggerOf(given[s])' = TriggerOf(given'[s])
      BY <1>1 DEF TriggerOf
    <3>2. CASE s = t
      BY <1>4, <3>1, <3>2
    <3>3. CASE s # t
      <4>1. s \in DOMAIN given /\ given'[s] = given[s]
        BY <1>4, <2>1, <3>3
      <4>2. TriggerOf(given[s]) = s
        BY <4>1, NumberedParts DEF GivenAsNumbered
      <4> QED
        BY <3>1, <4>1, <4>2
    <3> QED
      BY <3>2, <3>3
  <2> QED
    BY <2>1 DEF GivenAsNumbered
<1> QED
  BY <1>1, <1>2, <1>3, <1>7, <1>8

LEMMA FarmerKeeps ==
    ASSUME NumberedInv, FarmerStep
    PROVE  /\ InOneBlock' /\ file' = file /\ \A v \in Workers : AtWorkers(v)'
           /\ Apart' /\ NothingElse' /\ NothingMissed' /\ GivenAsNumbered'
<1>1. /\ ParamInv /\ FarmerOK /\ FarmerNext /\ UNCHANGED <<dealerVars, workerVars>>
      /\ UNCHANGED outputVars
  BY NumberedParts DEF FarmerStep
<1>2. ASSUME NEW w \in Workers, NEW tag \in {"HEADER", "END"}, StreamTaken(w, tag)
      PROVE  \A v \in Workers : AtWorkers(v)' /\ OnTheWay(v)' = OnTheWay(v)
  <2>1. FirstEvent(w) = {}
    BY <1>2 DEF FirstEvent, StreamTaken
  <2>2. AtWorkers(w)' /\ OnTheWay(w)' = OnTheWay(w)
    BY <1>1, <1>2, <2>1, TakenFromStream
  <2>3. \A v \in Workers \ {w} : AtWorkers(v)' /\ OnTheWay(v)' = OnTheWay(v)
    BY <1>1, <1>2, OtherStreams
  <2> QED
    BY <2>2, <2>3
<1>3. CASE FarmerGetHeader
  <2>1. given' = given
    BY <1>3 DEF FarmerGetHeader, sorterVars
  <2> QED
    BY <1>1, <1>2, <1>3, <2>1, FarmerTakesHeader, FarmerLeaves
<1>4. CASE FarmerGetEnd
  <2>1. given' = given
    BY <1>4 DEF FarmerGetEnd, Flush, sorterVars
  <2> QED
    BY <1>1, <1>2, <1>4, <2>1, FarmerTakesEnd, FarmerLeaves
<1>5. CASE FarmerGetData
  <2>1. PICK w \in Workers : \E t, i : Fresh(w, t, i)
    BY <1>1, <1>5, FreshEvent
  <2> QED
    BY <1>1, <2>1, FreshMoves
<1>6. CASE FarmerEmitHeader \/ FarmerEmitData \/ FarmerSendEnd
  <2>1. PICK tag, body : Send(FarmerRank, OutputRank, tag, body)
    BY <1>6 DEF FarmerEmitHeader, FarmerEmitData, FarmerSendEnd
  <2>2. OthersKept(FarmerRank, OutputRank)
    BY <1>1, <2>1, RankFacts, ParamSent
  <2>3. \A v \in Workers : /\ chan'[DealerRank][v] = chan[DealerRank][v]
                           /\ chan'[v][FarmerRank] = chan[v][FarmerRank]
    BY <2>2, RankFacts DEF OthersKept
  <2>4. given' = given /\ fheader' = fheader /\ fpc # "data" /\ fpc' # "data"
    BY <1>6 DEF FarmerEmitHeader, FarmerEmitData, FarmerSendEnd, AfterEmitting, sorterVars
  <2>5. \A v \in Workers : AtWorkers(v)' /\ OnTheWay(v)' = OnTheWay(v)
    BY <1>1, <2>3, <2>4, EndsAlone
  <2> QED
    BY <1>1, <2>4, <2>5, FarmerLeaves
<1> QED
  BY <1>1, <1>3, <1>4, <1>5, <1>6 DEF FarmerNext

LEMMA OutputKeeps ==
    ASSUME NumberedInv, OutputStep \/ UNCHANGED vars
    PROVE  /\ InOneBlock' /\ file' = file /\ \A v \in Workers : AtWorkers(v)'
           /\ Apart' /\ NothingElse' /\ NothingMissed' /\ GivenAsNumbered'
<1>1. /\ ParamInv /\ UNCHANGED <<dealerVars, workerVars>> /\ UNCHANGED farmerVars
  BY NumberedParts DEF OutputStep, vars
<1>2. fpc' = fpc /\ fheader' = fheader /\ given' = given
  BY <1>1 DEF farmerVars, sorterVars
<1>3. \A v \in Workers : /\ chan'[DealerRank][v] = chan[DealerRank][v]
                         /\ chan'[v][FarmerRank] = chan[v][FarmerRank]
  <2>1. CASE OutputStep
    <3>1. PICK r \in Sources : Takes(r, OutputRank)
      BY <1>1, <2>1, OutputTakesFrom DEF OutputStep
    <3>2. OthersKept(r, OutputRank)
      BY <1>1, <3>1, RankFacts, ParamParts, TypedTaken
    <3> QED
      BY <3>2, RankFacts DEF OthersKept
  <2>2. CASE UNCHANGED vars
    BY <2>2 DEF vars
  <2> QED
    BY <2>1, <2>2
<1>4. \A v \in Workers : AtWorkers(v)' /\ OnTheWay(v)' = OnTheWay(v)
  BY <1>1, <1>2, <1>3, EndsAlone
<1> QED
  BY <1>1, <1>2, <1>4, FarmerLeaves

LEMMA NumbersKept ==
    ASSUME StreamAssumed, NumberedInv, [Next]_vars
    PROVE  /\ InOneBlock' /\ file' = file /\ \A v \in Workers : AtWorkers(v)'
           /\ Apart' /\ NothingElse' /\ NothingMissed' /\ GivenAsNumbered'
<1>1. CASE DealerStep
  BY <1>1, DealerKeeps
<1>2. CASE FarmerStep
  BY <1>2, FarmerKeeps
<1>3. ASSUME NEW w \in Workers, WorkerStep(w)
      PROVE  /\ InOneBlock' /\ file' = file /\ \A v \in Workers : AtWorkers(v)'
             /\ Apart' /\ NothingElse' /\ NothingMissed' /\ GivenAsNumbered'
  BY <1>3, WorkerKeeps
<1>4. CASE OutputStep \/ UNCHANGED vars
  BY <1>4, OutputKeeps
<1> QED
  BY <1>1, <1>2, <1>3, <1>4 DEF Next, Finished
-----------------------------------------------------------------------------
LEMMA SorterSteps ==
    ASSUME NumberedInv, [Next]_vars
    PROVE  [SorterNext]_sorterVars
<1>1. FarmerControl
  BY NumberedParts DEF FarmerOK
<1>2. CASE FarmerStep
  <2>1. FarmerNext /\ UNCHANGED outputVars
    BY <1>2 DEF FarmerStep
  <2>2. CASE FarmerGetData
    <3>1. PICK w \in Workers : \E t, i : Fresh(w, t, i)
      BY <2>1, <2>2, FreshEvent
    <3>2. PICK t, i : Fresh(w, t, i)
      BY <3>1
    <3>3. /\ [trigger |-> t, event |-> i] \in Item /\ t \notin DOMAIN given
          /\ AddItem([trigger |-> t, event |-> i])
      BY <3>2 DEF Fresh
    <3>4. ~ flushed
      BY <1>1, <2>2 DEF FarmerControl, FarmerGetData
    <3> QED
      BY <3>3, <3>4 DEF SorterNext
  <2>3. CASE FarmerGetEnd
    <3>1. ~ flushed
      BY <1>1, <2>3 DEF FarmerControl, FarmerGetEnd
    <3>2. Flush \/ UNCHANGED sorterVars
      BY <2>3 DEF FarmerGetEnd
    <3> QED
      BY <3>1, <3>2 DEF SorterNext
  <2>4. CASE FarmerGetHeader \/ FarmerEmitHeader \/ FarmerEmitData \/ FarmerSendEnd
    BY <2>4 DEF FarmerGetHeader, FarmerEmitHeader, FarmerEmitData, FarmerSendEnd
  <2> QED
    BY <2>1, <2>2, <2>3, <2>4 DEF FarmerNext
<1>3. CASE UNCHANGED farmerVars
  BY <1>3 DEF farmerVars
<1>4. FarmerStep \/ UNCHANGED farmerVars
  BY DEF Next, DealerStep, OutputStep, WorkerStep, Finished, vars
<1> QED
  BY <1>2, <1>3, <1>4
-----------------------------------------------------------------------------
(***************************************************************************)
(* When the sorter is flushed it has been given every event of the file.   *)
(***************************************************************************)
EverythingGiven == DOMAIN given = {t \in Triggers : t < Cardinality(AllEvents)}

LEMMA AllGiven ==
    ASSUME ParamInv, \A w \in Workers : Ordered(w) /\ EndIsLast(w),
           InOneBlock, NothingElse, NothingMissed, GivenAsNumbered, SorterTypeOK, flushed
    PROVE  EverythingGiven /\ WellFormed
<1>1. file \in Seq(ItemKinds) /\ file \in Files /\ Len(file) \in Nat
  BY ParamParts, ParamAssumption DEF DealerTypeOK
<1>2. \A w \in Workers : Ended(w)
  <2>1. Cardinality({w \in Workers : ~ Ended(w)}) = 0
    BY DEF ParamInv, EndsLeftOK, FarmerControl
  <2>2. IsFiniteSet({w \in Workers : ~ Ended(w)})
    <3>1. IsFiniteSet(Workers)
      BY FS_Interval, MPIAssumption DEF Workers
    <3>2. {w \in Workers : ~ Ended(w)} \in SUBSET Workers
      OBVIOUS
    <3> QED
      BY <3>1, <3>2, FS_Subset
  <2> QED
    BY <2>1, <2>2, FS_EmptySet
<1>3. Ending /\ WellFormed
  <2>1. 3 \in Workers
    BY MPIAssumption DEF Workers
  <2>2. Ending
    BY <1>2, <2>1 DEF Ended, EndIsLast
  <2> QED
    BY <2>2 DEF InOneBlock
<1>4. ASSUME NEW w \in Workers PROVE OnTheWay(w) = {}
  <2>1. wpc[w] = "finalize" /\ chan[w][FarmerRank] = <<>>
    BY <1>2 DEF Ended
  <2>2. Silent(w)
    <3>1. Got(w) = 4
      BY <2>1, GotFacts
    <3> QED
      BY <2>1, <3>1 DEF Ordered, Protocol
  <2>3. AnswerTo(w) = {} /\ FromWorker(w) = {}
    BY <2>1, <2>2 DEF Silent, AnswerTo, FromWorker, DataPlaces
  <2> QED
    BY <2>1, <2>3 DEF OnTheWay, WithWorker
<1>5. Dealt = AllEvents
  <2>1. Reached = Len(file) + 1
    BY <1>3 DEF Reached, Ending, Dealing, AtItem
  <2>2. \A i \in AllEvents : i < Len(file) + 1
    BY <1>1 DEF AllEvents
  <2> QED
    BY <1>3, <2>1, <2>2 DEF Dealt
<1>6. GivenEvents = AllEvents
  <2>1. Everywhere = GivenEvents
    BY <1>4 DEF Everywhere
  <2> QED
    BY <1>3, <1>5, <2>1 DEF NothingElse, NothingMissed
<1>7. Cardinality(AllEvents) \in Nat
  BY <1>1, TriggerFacts
<1>8. ASSUME NEW t \in Triggers, t < Cardinality(AllEvents) PROVE t \in DOMAIN given
  <2>1. t \in Nat
    BY DEF Triggers
  <2>2. PICK i \in AllEvents : TriggerOf(i) = t
    BY <1>1, <1>8, <2>1, TriggerOnto
  <2>3. PICK s \in DOMAIN given : given[s] = i
    BY <1>6 DEF GivenEvents
  <2> QED
    BY <2>2, <2>3 DEF GivenAsNumbered
<1>9. ASSUME NEW t \in DOMAIN given PROVE t \in Triggers /\ t < Cardinality(AllEvents)
  <2>1. t \in Triggers
    BY DEF SorterTypeOK, Holdings
  <2>2. given[t] \in AllEvents /\ TriggerOf(given[t]) = t
    BY <1>6 DEF GivenEvents, GivenAsNumbered
  <2> QED
    BY <1>1, <2>1, <2>2, TriggerPlace
<1> QED
  BY <1>3, <1>8, <1>9 DEF EverythingGiven

\* What that follows from.
CountedIn ==
    /\ ParamInv /\ SorterTypeOK /\ InOneBlock
    /\ \A w \in Workers : Ordered(w) /\ EndIsLast(w)
    /\ NothingElse /\ NothingMissed /\ GivenAsNumbered

LEMMA AllGivenNext == CountedIn' /\ flushed' => EverythingGiven' /\ WellFormed'
<1>1. CountedIn /\ flushed => EverythingGiven /\ WellFormed
  BY AllGiven DEF CountedIn
<1> QED
  BY <1>1, PTL

\* Nothing waits for the flush, so it changes nothing, and all is emitted in sequence.
LEMMA FlushIsIdle ==
    ASSUME SorterInv, ~ flushed, Flush, EverythingGiven', file' = file, file \in Files
    PROVE  emitted' = emitted /\ Len(emitted) = Cardinality(AllEvents)
<1>1. file \in Seq(ItemKinds)
  BY ParamAssumption
<1>2. PICK n \in Nat : n = Cardinality(AllEvents)
  BY <1>1, TriggerFacts
<1>3. n <= MaxTrigger + 1 /\ MaxTrigger \in Nat
  BY <1>2, EventsBound, MaxTriggerAssumption
<1>4. DOMAIN given = {t \in Triggers : t < n}
  <2>1. given' = given /\ Cardinality(AllEvents)' = Cardinality(AllEvents)
    BY WellFormedKept DEF Flush
  <2> QED
    BY <1>2, <2>1 DEF EverythingGiven
<1>5. DOMAIN m_items = {}
  <2>1. n \in 0 .. MaxTrigger + 1
    BY <1>3
  <2> QED
    BY <1>4, <2>1, InvNeedsNoFlush DEF NoNeedToFlush
<1>6. emitted \in Seq(Item) /\ Len(emitted) \in Nat
  BY DEF SorterInv, SorterTypeOK
<1>7. emitted' = emitted
  <2>1. Cardinality(DOMAIN m_items) = 0
    BY <1>5, FS_EmptySet
  <2>2. PICK keys : emitted' = emitted \o [k \in 1 .. Cardinality(DOMAIN m_items) |->
                                              HeldItem(m_items, keys[k])]
    BY DEF Flush
  <2>3. PICK rest \in [1 .. 0 -> Item] : emitted' = emitted \o rest
    <3>1. [k \in 1 .. 0 |-> HeldItem(m_items, keys[k])] \in [1 .. 0 -> Item]
      OBVIOUS
    <3> QED
      BY <2>1, <2>2, <3>1
  <2>4. rest \in Seq(Item) /\ Len(rest) = 0
    <3>1. rest \in Seq(Item)
      OBVIOUS
    <3> QED
      BY <3>1
  <2>5. rest = <<>>
    BY <2>4
  <2> QED
    BY <1>6, <2>3, <2>5
<1>8. \A t \in Triggers : t < n <=> t < Len(emitted)
  BY <1>4, <1>5 DEF SorterInv, Running
<1>9. Len(emitted) <= MaxTrigger + 1
  <2>1. \A e \in DOMAIN emitted : emitted[e].trigger = e - 1 /\ emitted[e] \in Item
    BY <1>6 DEF SorterInv, Running
  <2>2. Len(emitted) # 0 => Len(emitted) \in DOMAIN emitted /\ Len(emitted) - 1 \in 0 .. MaxTrigger
    <3>1. Len(emitted) # 0 => Len(emitted) \in DOMAIN emitted
      BY <1>6
    <3> QED
      BY <2>1, <3>1 DEF Item, Triggers
  <2> QED
    BY <1>3, <1>6, <2>2
<1>10. Len(emitted) = n
  BY <1>2, <1>3, <1>6, <1>8, <1>9 DEF Triggers
<1> QED
  BY <1>2, <1>7, <1>10

LEMMA NumberedInvInit == Init => NumberedInv
<1> SUFFICES ASSUME Init PROVE NumberedInv
  OBVIOUS
<1>1. OrderInv /\ SorterInv /\ ParamInv
  BY OrderInvInit, SorterInvInit DEF Init, FarmerInit, OrderInv
<1>2. /\ dpc = "read" /\ first = 0 /\ cur = 3 /\ DOMAIN given = {} /\ emitted = <<>>
      /\ flushed = FALSE /\ fpc = "header"
      /\ \A w \in Workers : wpc[w] = "paramCount" /\ chan[DealerRank][w] = <<>>
                            /\ chan[w][FarmerRank] = <<>>
  BY EmptyHolding, RankFacts DEF Init, MPIInit, FarmerInit, SorterInit
<1>3. InOneBlock /\ ~ Dealing /\ ~ Ending
  BY <1>2 DEF InOneBlock, Dealing, AtItem, Ending
<1>4. ASSUME NEW w \in Workers PROVE AtWorkers(w) /\ OnTheWay(w) = {}
  <2>1. DataPlaces(DealerRank, w) = {} /\ DataPlaces(w, FarmerRank) = {}
    BY <1>2 DEF DataPlaces
  <2>2. WithWorker(w) = {} /\ FromWorker(w) = {}
    BY <1>2, <2>1 DEF WithWorker, AnswerTo, FromWorker
  <2>3. OnceFrom(w) /\ RightNumbers(w) /\ EndIsLast(w)
    BY <1>2, <2>1, <2>2 DEF OnceFrom, RightNumbers, EndIsLast
  <2> QED
    BY <2>2, <2>3 DEF AtWorkers, OnTheWay
<1>5. EventsOK
  <2>1. GivenEvents = {}
    BY <1>2 DEF GivenEvents
  <2> QED
    BY <1>2, <1>3, <1>4, <2>1
    DEF EventsOK, Apart, NothingElse, NothingMissed, Everywhere, GivenAsNumbered
<1>6. InSequence /\ AllEmitted
  BY <1>2 DEF InSequence, AllEmitted
<1> QED
  BY <1>1, <1>3, <1>4, <1>5, <1>6 DEF NumberedInv

LEMMA NumberedInvNext == StreamAssumed /\ NumberedInv /\ [Next]_vars => NumberedInv'
<1> SUFFICES ASSUME StreamAssumed, NumberedInv, [Next]_vars PROVE NumberedInv'
  OBVIOUS
<1>1. /\ OrderInv /\ SorterInv /\ InSequence /\ AllEmitted /\ file \in Files
  BY NumberedParts, ParamParts DEF DealerTypeOK
<1>2. OrderInv'
  BY <1>1, OrderInvNext DEF StreamAssumed
<1>3. [SorterNext]_sorterVars
  BY SorterSteps
<1>4. SorterInv'
  BY <1>1, <1>3, SorterInvNext
<1>5. /\ InOneBlock' /\ file' = file /\ \A v \in Workers : AtWorkers(v)'
      /\ Apart' /\ NothingElse' /\ NothingMissed' /\ GivenAsNumbered'
  BY NumbersKept
<1>6. WellFormed' = WellFormed /\ Cardinality(AllEvents)' = Cardinality(AllEvents)
  BY <1>5, WellFormedKept
<1>7. InSequence' /\ AllEmitted'
  <2>1. CASE ~ flushed'
    <3>1. \A e \in DOMAIN emitted' : emitted'[e].trigger = e - 1
      BY <1>4, <2>1 DEF SorterInv, Running
    <3> QED
      BY <2>1, <3>1 DEF InSequence, AllEmitted
  <2>2. CASE flushed
    <3>1. UNCHANGED sorterVars
      BY <1>3, <2>2 DEF SorterNext
    <3> QED
      BY <1>1, <1>6, <3>1 DEF sorterVars, InSequence, AllEmitted
  <2>3. CASE ~ flushed /\ flushed'
    <3>1. Flush
      BY <1>3, <2>3 DEF SorterNext, sorterVars, AddItem
    <3>2. EverythingGiven' /\ WellFormed'
      <4>1. CountedIn'
        BY <1>2, <1>4, <1>5 DEF CountedIn, OrderInv, SorterInv, AtWorkers
      <4> QED
        BY <2>3, <4>1, AllGivenNext
    <3>3. emitted' = emitted /\ Len(emitted) = Cardinality(AllEvents)
      BY <1>1, <1>5, <2>3, <3>1, <3>2, FlushIsIdle
    <3> QED
      BY <1>1, <1>6, <3>2, <3>3 DEF InSequence, AllEmitted
  <2> QED
    BY <2>1, <2>2, <2>3
<1> QED
  BY <1>2, <1>4, <1>5, <1>7 DEF NumberedInv, EventsOK
-----------------------------------------------------------------------------
(***************************************************************************)
(* Every step of the run is a step of EventStream, or none.                *)
(***************************************************************************)
StreamInput == IF WellFormed THEN EventsOf(file) ELSE <<>>

\* The next event to be written is the next event of the file.
LEMMA NextEvent ==
    ASSUME NumberedInv, NEW n \in Nat, n + 1 \in DOMAIN emitted
    PROVE  /\ emitted[n + 1].trigger = n /\ WellFormed /\ n < Len(EventsOf(file))
           /\ emitted[n + 1].event = EventsOf(file)[n + 1]
<1>1. SorterInv /\ GivenAsNumbered /\ InSequence /\ NothingElse /\ file \in Seq(ItemKinds)
  BY NumberedParts, ParamParts, ParamAssumption DEF DealerTypeOK
<1>2. emitted[n + 1].trigger = n
  BY <1>1 DEF InSequence
<1>3. PICK i : i = emitted[n + 1].event
  OBVIOUS
<1>4. n \in DOMAIN given /\ given[n] = i
  BY <1>1, <1>2, <1>3 DEF SorterInv, Faithful
<1>5. i \in Dealt /\ TriggerOf(i) = n
  BY <1>1, <1>4 DEF GivenAsNumbered, NothingElse, Everywhere, GivenEvents
<1>6. i \in AllEvents /\ WellFormed
  BY <1>5 DEF Dealt
<1>7. n < Cardinality(AllEvents) /\ EventsOf(file)[n + 1] = i
  BY <1>1, <1>5, <1>6, TriggerPlace
<1> QED
  BY <1>1, <1>2, <1>3, <1>6, <1>7, TriggerFacts

LEMMA RecordsWritten == NumberedInv => EventsAreRecords
BY EventsWritten, OutputTypeRecord DEF NumberedInv, OrderInv, ParamInv

LEMMA InputKept == file' = file => StreamInput' = StreamInput
BY DEF StreamInput, EventsOf, WellFormed

StreamStep == [Stream!Next]_<<StreamInput, WrittenEvents, opc = "finalize">>

LEMMA EventIsDelivered ==
    ASSUME NumberedInv, OutputEvent, UNCHANGED <<dealerVars, workerVars, farmerVars>>
    PROVE  Stream!Deliver
<1>1. FarmerOK /\ Delivery /\ UNCHANGED farmerVars
  BY NumberedParts
<1>2. PICK n \in Nat : n = Cardinality(EventPlaces) /\ Len(WrittenEvents) = n
  BY RecordsWritten DEF EventsAreRecords
<1>3. /\ n + 1 \in DOMAIN emitted
      /\ WrittenEvents' = Append(WrittenEvents, [trigger |-> emitted[n + 1].trigger,
                                                 data |-> emitted[n + 1].event])
  BY <1>1, <1>2, OutputEventOK
<1>4. /\ emitted[n + 1].trigger = n /\ WellFormed /\ n < Len(EventsOf(file))
      /\ emitted[n + 1].event = EventsOf(file)[n + 1]
  BY <1>3, NextEvent
<1>5. n < Len(StreamInput) /\ StreamInput[n + 1] = emitted[n + 1].event
  BY <1>4 DEF StreamInput
<1>6. StreamInput' = StreamInput
  BY InputKept DEF dealerVars
<1>7. ~ (opc = "finalize") /\ ~ (opc' = "finalize")
  BY DEF OutputEvent
<1> QED
  BY <1>2, <1>3, <1>4, <1>5, <1>6, <1>7 DEF Stream!Deliver, StreamInput

LEMMA EndIsClose ==
    ASSUME NumberedInv, NumberedInv', OutputGetEnd, UNCHANGED <<dealerVars, workerVars, farmerVars>>
    PROVE  Stream!Close
<1>1. file' = file /\ written' = written /\ opc = "header" /\ opc' = "finalize"
  BY DEF dealerVars, OutputGetEnd
<1>2. StreamInput' = StreamInput /\ WrittenEvents' = WrittenEvents
  BY <1>1, InputKept DEF WrittenEvents, EventPlaces
<1>3. /\ fpc' = "finalize" /\ Cardinality(EventPlaces)' = Len(emitted')
      /\ Cardinality(EventPlaces)' = Cardinality(EventPlaces)
  <2>1. OutputControl'
    BY DEF NumberedInv, OrderInv, ParamInv, Delivery
  <2>2. EventPlaces' = EventPlaces
    BY <1>1 DEF EventPlaces
  <2> QED
    BY <1>1, <2>1, <2>2 DEF OutputControl
<1>4. WellFormed /\ Len(emitted') = Cardinality(AllEvents)
  <2>1. flushed' /\ AllEmitted'
    BY <1>3 DEF NumberedInv, OrderInv, ParamInv, FarmerControl
  <2>2. WellFormed' = WellFormed /\ Cardinality(AllEvents)' = Cardinality(AllEvents)
    BY <1>1, WellFormedKept
  <2> QED
    BY <2>1, <2>2 DEF AllEmitted
<1>5. Len(WrittenEvents) = Cardinality(EventPlaces)
  BY RecordsWritten DEF EventsAreRecords
<1>6. Len(StreamInput) = Cardinality(AllEvents)
  <2>1. file \in Seq(ItemKinds)
    BY NumberedParts, ParamParts, ParamAssumption DEF DealerTypeOK
  <2> QED
    BY <1>4, <2>1, TriggerFacts DEF StreamInput
<1> QED
  BY <1>1, <1>2, <1>3, <1>4, <1>5, <1>6 DEF Stream!Close, StreamInput

LEMMA ParamStreamStep ==
    ASSUME StreamAssumed, NumberedInv, NumberedInv', [Next]_vars
    PROVE  StreamStep
<1>1. StreamInput' = StreamInput
  BY NumbersKept, InputKept
<1>2. CASE UNCHANGED outputVars
  <2>1. opc' = opc /\ WrittenEvents' = WrittenEvents
    BY <1>2 DEF outputVars, WrittenEvents, EventPlaces
  <2> QED
    BY <1>1, <2>1 DEF StreamStep
<1>3. CASE OutputStep
  <2>1. OutputNext /\ UNCHANGED <<dealerVars, workerVars, farmerVars>> /\ UNCHANGED farmerVars
    BY <1>3 DEF OutputStep
  <2>2. FarmerOK /\ Delivery
    BY NumberedParts
  <2>3. CASE OutputEvent
    BY <2>1, <2>3, EventIsDelivered DEF StreamStep, Stream!Next
  <2>4. CASE OutputGetEnd
    BY <2>1, <2>4, EndIsClose DEF StreamStep, Stream!Next
  <2>5. CASE OutputItem
    <3>1. WrittenEvents' = WrittenEvents /\ opc = "item" /\ opc' = "header"
      BY <2>1, <2>2, <2>5, OutputItemOK DEF OutputItem
    <3>2. ~ (opc = "finalize") /\ ~ (opc' = "finalize")
      BY <3>1
    <3> QED
      BY <1>1, <3>1, <3>2 DEF StreamStep
  <2>6. CASE OutputGetHeader
    <3>1. written' = written /\ opc = "header" /\ opc' \in {"event", "item"}
      BY <2>6 DEF OutputGetHeader
    <3>2. ~ (opc = "finalize") /\ ~ (opc' = "finalize")
      BY <3>1
    <3>3. WrittenEvents' = WrittenEvents
      BY <3>1 DEF WrittenEvents, EventPlaces
    <3> QED
      BY <1>1, <3>2, <3>3 DEF StreamStep
  <2> QED
    BY <2>1, <2>3, <2>4, <2>5, <2>6 DEF OutputNext
<1> QED
  BY <1>2, <1>3 DEF Next, DealerStep, FarmerStep, WorkerStep, Finished, vars

LEMMA StreamBegins == Init => Stream!Init
<1> SUFFICES ASSUME Init PROVE Stream!Init
  OBVIOUS
<1>1. opc = "header" /\ written = <<>>
  BY DEF Init, OutputInit
<1>2. EventPlaces = {} /\ Cardinality(EventPlaces) = 0
  BY <1>1, FS_EmptySet DEF EventPlaces
<1>3. WrittenEvents \in Seq(EventRecord) /\ Len(WrittenEvents) = 0
  <2>1. written \in Seq(FileRecord)
    BY <1>1
  <2> QED
    BY <1>2, <2>1, EventsWritten DEF EventsAreRecords
<1>4. WrittenEvents = <<>>
  BY <1>3
<1>5. (opc = "finalize") = FALSE
  BY <1>1
<1> QED
  BY <1>4, <1>5 DEF Stream!Init

(***************************************************************************)
(* In a run whose file comes in one block, the farmer hands in every       *)
(* number of the file once, and nothing after the flush, however the       *)
(* workers interleave: what the theorems about SorterSpec say holds of the *)
(* sorter of a parameter run as well.                                      *)
(***************************************************************************)
THEOREM ParamUsesSorterProperly ==
    ASSUME StreamAssumed
    PROVE  Spec => SorterInit /\ [][SorterNext]_sorterVars
<1>1. Init => NumberedInv
  BY NumberedInvInit
<1>2. NumberedInv /\ [Next]_vars => NumberedInv'
  BY NumberedInvNext
<1>3. Init => SorterInit
  BY DEF Init, FarmerInit
<1>4. NumberedInv /\ [Next]_vars => [SorterNext]_sorterVars
  BY SorterSteps
<1> QED
  BY <1>1, <1>2, <1>3, <1>4, PTL DEF Spec

(***************************************************************************)
(* A parameter run whose file comes in one block implements the plain      *)
(* stream, whatever the number of workers: the k-th event written is the   *)
(* k-th event of the input under the number it has there, nothing is       *)
(* written of a file that does not start with its definitions, and the     *)
(* outputter ends only when every event is in the file                     *)
(* (MPIParameterDealer.cpp:78, 159, 207; MPIParameterFarmer.cpp).          *)
(***************************************************************************)
THEOREM ParamImplementsStream ==
    ASSUME StreamAssumed
    PROVE  Spec => ImplementsStream
<1>1. Init => NumberedInv
  BY NumberedInvInit
<1>2. NumberedInv /\ [Next]_vars => NumberedInv'
  BY NumberedInvNext
<1>3. Init => Stream!Init
  BY StreamBegins
<1>4. NumberedInv /\ NumberedInv' /\ [Next]_vars
         => [Stream!Next]_<<IF WellFormed THEN EventsOf(file) ELSE <<>>, WrittenEvents,
                            opc = "finalize">>
  BY ParamStreamStep DEF StreamStep, StreamInput
<1> QED
  BY <1>1, <1>2, <1>3, <1>4, PTL DEF Spec, ImplementsStream, Stream!Spec
=============================================================================
