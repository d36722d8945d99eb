------------------------- MODULE RawPipelineProofs -------------------------
(***************************************************************************)
(* The safety of a raw run, for any number of workers, any files, any      *)
(* sizes of blocks, and sends that wait or not.                            *)
(***************************************************************************)
EXTENDS RawPipeline, PipelineProofs

\* How many events precede item i in the file: the trigger number it should get.
Num(i) == Cardinality(PhysicsIn(1, i - 1))

\* t is the trigger number of the next event from item i on, unless that is out of range.
RightFor(t, i) == Num(i) < CounterMod => t = Num(i)

\* The dealer has handed out the whole file and only sends ends.
Over == pos = Len(file) /\ dpc \in {"eofRequest", "sendEof", "finalize"}

WithinRead(b) == 1 <= b.first /\ b.first <= b.last /\ b.last <= pos

\* The states a rank has a block in.
DealerHolds == dpc \in {"request", "sendHeader", "sendData"}
WorkerHolds(w) == wpc[w] \in {"process", "sendData", "forwardData"}
-----------------------------------------------------------------------------
(***************************************************************************)
(* Request and answer.  Whatever a worker asks for, one of these holds.    *)
(***************************************************************************)
Served(w) == dest = w /\ dpc \in {"sendHeader", "sendData", "sendEof"}

Silent(w) == chan[w][DealerRank] = <<>> /\ chan[DealerRank][w] = <<>> /\ ~ Served(w)

Asked(w) == Len(chan[w][DealerRank]) = 1 /\ chan[DealerRank][w] = <<>> /\ ~ Served(w)

HeaderDue(w) ==
    /\ chan[w][DealerRank] = <<>> /\ chan[DealerRank][w] = <<>>
    /\ Served(w) /\ dpc \in {"sendHeader", "sendEof"}

HeaderSent(w) ==
    /\ chan[w][DealerRank] = <<>>
    /\ Len(chan[DealerRank][w]) = 1
    /\ chan[DealerRank][w][1].tag = "HEADER"
    /\ ~ chan[DealerRank][w][1].body.end
    /\ RightFor(chan[DealerRank][w][1].body.blockNum, block.first)
    /\ Served(w) /\ dpc = "sendData"

BothSent(w) ==
    /\ chan[w][DealerRank] = <<>>
    /\ Len(chan[DealerRank][w]) = 2
    /\ chan[DealerRank][w][1].tag = "HEADER"
    /\ ~ chan[DealerRank][w][1].body.end
    /\ chan[DealerRank][w][2].tag = "DATA"
    /\ RightFor(chan[DealerRank][w][1].body.blockNum, chan[DealerRank][w][2].body.first)
    /\ ~ Served(w)

EndSent(w) ==
    /\ chan[w][DealerRank] = <<>>
    /\ Len(chan[DealerRank][w]) = 1
    /\ chan[DealerRank][w][1].tag = "HEADER"
    /\ chan[DealerRank][w][1].body.end
    /\ ~ Served(w)
    /\ Over

DataDue(w) ==
    /\ chan[w][DealerRank] = <<>> /\ chan[DealerRank][w] = <<>>
    /\ Served(w) /\ dpc = "sendData"
    /\ RightFor(wtrigger[w], block.first)

DataSent(w) ==
    /\ chan[w][DealerRank] = <<>>
    /\ Len(chan[DealerRank][w]) = 1
    /\ chan[DealerRank][w][1].tag = "DATA"
    /\ RightFor(wtrigger[w], chan[DealerRank][w][1].body.first)
    /\ ~ Served(w)

Protocol(w) ==
    /\ wpc[w] = "header" =>
          Asked(w) \/ HeaderDue(w) \/ HeaderSent(w) \/ BothSent(w) \/ EndSent(w)
    /\ wpc[w] = "data" => DataDue(w) \/ DataSent(w)
    /\ wpc[w] \notin {"header", "data"} => Silent(w)
-----------------------------------------------------------------------------
(***************************************************************************)
(* The dealer: where it is in the file, and the number it has counted to.  *)
(***************************************************************************)
DealerOK ==
    /\ DealerHolds => WithinRead(block) /\ block.last = pos /\ RightFor(firstTrigger, block.first)
    /\ dpc = "read" => RightFor(firstTrigger, pos + 1)
    /\ dpc \in {"eofRequest", "sendEof"} => Over
    /\ dpc # "finalize" => eofsLeft > 0

WorkerOK(w) ==
    /\ WorkerHolds(w) => WithinRead(wblock[w]) /\ RightFor(wtrigger[w], wblock[w].first)
    /\ ~ WorkerHolds(w) => wblock[w].first > wblock[w].last
    /\ wpc[w] = "sendData" => file[wblock[w].first] = "physics"
    /\ wpc[w] = "forwardData" => file[wblock[w].first] = "other"
    /\ wpc[w] \in {"end", "finalize"} => Over

\* The ring items in the messages.
BlocksSent(w) ==
    \A k \in DOMAIN chan[DealerRank][w] :
        chan[DealerRank][w][k].tag = "DATA" => WithinRead(chan[DealerRank][w][k].body)

EventsSent(w) ==
    \A k \in DOMAIN chan[w][FarmerRank] :
        chan[w][FarmerRank][k].tag = "DATA" =>
            /\ chan[w][FarmerRank][k].body \in 1 .. pos
            /\ file[chan[w][FarmerRank][k].body] = "physics"
            /\ RightFor(Before(w, k).body, chan[w][FarmerRank][k].body)

LastSentOK(w) ==
    /\ LastSent(w).tag = "HEADER" <=> wpc[w] = "sendData"
    /\ LastSent(w).tag = "HEADER" => LastSent(w).body = wtrigger[w]
    /\ LastSent(w).tag = "END" => wpc[w] = "finalize"
    /\ wpc[w] = "finalize" /\ chan[w][FarmerRank] # <<>> => LastSent(w).tag = "END"

PassedOnSent(w) ==
    \A k \in DOMAIN chan[w][OutputRank] :
        chan[w][OutputRank][k].tag = "DATA" =>
            /\ chan[w][OutputRank][k].body \in 1 .. pos
            /\ file[chan[w][OutputRank][k].body] = "other"

Ended(w) == wpc[w] = "finalize" /\ chan[w][FarmerRank] = <<>>

EndsLeftOK == m_nEndsLeft = Cardinality({w \in Workers : ~ Ended(w)})

\* The pairs of ranks that do not talk.
Unused ==
    \A a, b \in Ranks :
        \/ a = DealerRank /\ b \in Workers
        \/ a \in Workers /\ b \in {DealerRank, FarmerRank, OutputRank}
        \/ a = FarmerRank /\ b = OutputRank
        \/ chan[a][b] = <<>>

PassedOnWritten ==
    \A k \in DOMAIN written :
        written[k].kind = "item" => written[k].data \in 1 .. pos /\ file[written[k].data] = "other"

(***************************************************************************)
(* The invariant of every run, however many events there are.              *)
(***************************************************************************)
RawInv ==
    /\ TypeOK
    /\ file \in Files
    /\ Unused
    /\ DealerOK
    /\ \A w \in Workers : Protocol(w) /\ WorkerOK(w) /\ BlocksSent(w) /\ EventsSent(w)
    /\ \A w \in Workers : LastSentOK(w) /\ PassedOnSent(w)
    /\ InPairs
    /\ EndsLeftOK
    /\ PassedOnWritten
    /\ FarmerControl
    /\ Delivery
-----------------------------------------------------------------------------
(***************************************************************************)
(* The numbers of the events.                                              *)
(***************************************************************************)
LEMMA PhysicsFinite ==
    ASSUME file \in Seq(ItemKinds), NEW a \in Nat, NEW b \in Nat
    PROVE  /\ IsFiniteSet(PhysicsIn(a, b))
           /\ Cardinality(PhysicsIn(a, b)) \in Nat
<1>1. IsFiniteSet(a .. b)
  BY FS_Interval
<1>2. PhysicsIn(a, b) \in SUBSET (a .. b)
  BY DEF PhysicsIn
<1> QED
  BY <1>1, <1>2, FS_Subset, FS_CardinalityType

LEMMA NumType ==
    ASSUME file \in Seq(ItemKinds), NEW i \in Nat \ {0}
    PROVE  Num(i) \in Nat
<1>1. i - 1 \in Nat
  OBVIOUS
<1> QED
  BY <1>1, PhysicsFinite DEF Num

LEMMA NumStep ==
    ASSUME file \in Seq(ItemKinds), NEW i \in Nat \ {0}
    PROVE  /\ file[i] = "physics" => Num(i + 1) = Num(i) + 1
           /\ file[i] # "physics" => Num(i + 1) = Num(i)
<1>1. i - 1 \in Nat /\ i + 1 - 1 = i
  OBVIOUS
<1>2. IsFiniteSet(PhysicsIn(1, i - 1)) /\ i \notin PhysicsIn(1, i - 1)
  BY <1>1, PhysicsFinite DEF PhysicsIn
<1>3. CASE file[i] = "physics"
  <2>1. PhysicsIn(1, i) = PhysicsIn(1, i - 1) \union {i}
    BY <1>3 DEF PhysicsIn
  <2> QED
    BY <1>1, <1>2, <1>3, <2>1, FS_AddElement DEF Num
<1>4. CASE file[i] # "physics"
  <2>1. PhysicsIn(1, i) = PhysicsIn(1, i - 1)
    BY <1>4 DEF PhysicsIn
  <2> QED
    BY <1>1, <1>4, <2>1 DEF Num
<1> QED
  BY <1>3, <1>4

LEMMA NumFirst ==
    file \in Seq(ItemKinds) => Num(1) = 0
<1> HAVE file \in Seq(ItemKinds)
<1>1. PhysicsIn(1, 0) = {} /\ 1 - 1 = 0
  BY DEF PhysicsIn
<1> QED
  BY <1>1, FS_EmptySet DEF Num

LEMMA NumGrows ==
    ASSUME file \in Seq(ItemKinds), NEW i \in Nat \ {0}, NEW j \in Nat \ {0}, i <= j
    PROVE  Num(i) <= Num(j)
<1>1. PhysicsIn(1, i - 1) \in SUBSET PhysicsIn(1, j - 1)
  BY DEF PhysicsIn
<1>2. IsFiniteSet(PhysicsIn(1, j - 1))
  <2>1. j - 1 \in Nat
    OBVIOUS
  <2> QED
    BY <2>1, PhysicsFinite
<1> QED
  BY <1>1, <1>2, FS_Subset DEF Num

\* countTriggers takes the number from the first item of a block to the next block.
LEMMA NumBlock ==
    ASSUME file \in Seq(ItemKinds), NEW a \in Nat \ {0}, NEW b \in Nat, a <= b
    PROVE  /\ Cardinality(PhysicsIn(a, b)) \in Nat
           /\ Num(b + 1) = Num(a) + Cardinality(PhysicsIn(a, b))
<1> DEFINE X == PhysicsIn(1, a - 1)
           Y == PhysicsIn(a, b)
<1>1. a - 1 \in Nat /\ b + 1 - 1 = b
  OBVIOUS
<1>2. IsFiniteSet(X) /\ IsFiniteSet(Y) /\ Cardinality(X) \in Nat /\ Cardinality(Y) \in Nat
  BY <1>1, PhysicsFinite
<1>3. PhysicsIn(1, b) = X \union Y /\ X \intersect Y = {}
  BY DEF PhysicsIn
<1> HIDE DEF X, Y
<1>4. Cardinality(X \union Y) = Cardinality(X) + Cardinality(Y)
  <2>1. Cardinality(X \intersect Y) = 0
    BY <1>3, FS_EmptySet
  <2>2. Cardinality(X \union Y) = Cardinality(X) + Cardinality(Y) - Cardinality(X \intersect Y)
    BY <1>2, FS_Union
  <2> QED
    BY <1>2, <2>1, <2>2
<1>5. Num(b + 1) = Cardinality(PhysicsIn(1, b)) /\ Num(a) = Cardinality(X)
  BY <1>1 DEF Num, X
<1> QED
  BY <1>2, <1>3, <1>4, <1>5 DEF Y

LEMMA NumKept ==
    ASSUME file' = file
    PROVE  /\ \A i : Num(i)' = Num(i)
           /\ \A t, i : RightFor(t, i)' <=> RightFor(t, i)
BY DEF RightFor, Num, PhysicsIn

\* A worker's number goes on from item to item.
LEMMA NextIsRight ==
    ASSUME file \in Seq(ItemKinds), NEW i \in Nat \ {0}, NEW t \in Triggers, RightFor(t, i)
    PROVE  /\ file[i] = "physics" => RightFor(NextTrigger(t), i + 1)
           /\ file[i] # "physics" => RightFor(t, i + 1)
<1>1. Num(i) \in Nat
  BY NumType
<1>2. CASE file[i] = "physics"
  <2>1. Num(i + 1) = Num(i) + 1
    BY <1>2, NumStep
  <2> QED
    BY <1>1, <1>2, <2>1, RawAssumption, MaxTriggerAssumption DEF RightFor, NextTrigger, Triggers
<1>3. CASE file[i] # "physics"
  BY <1>3, NumStep DEF RightFor
<1> QED
  BY <1>2, <1>3

\* The dealer's number goes on from block to block.
LEMMA NextBlockIsRight ==
    ASSUME file \in Seq(ItemKinds), NEW a \in Nat \ {0}, NEW b \in Nat, a <= b,
           NEW t \in 0 .. CounterMod - 1, RightFor(t, a)
    PROVE  /\ (t + Cardinality(PhysicsIn(a, b))) % CounterMod \in 0 .. CounterMod - 1
           /\ RightFor((t + Cardinality(PhysicsIn(a, b))) % CounterMod, b + 1)
<1> DEFINE n == Cardinality(PhysicsIn(a, b))
<1>1. n \in Nat /\ Num(b + 1) = Num(a) + n /\ Num(a) \in Nat
  BY NumBlock, NumType
<1> HIDE DEF n
<1>2. CounterMod \in Nat \ {0}
  BY RawAssumption
<1>3. (t + n) % CounterMod \in 0 .. CounterMod - 1
  BY <1>1, <1>2
<1>4. t + n < CounterMod => (t + n) % CounterMod = t + n
  BY <1>1, <1>2
<1>5. RightFor((t + n) % CounterMod, b + 1)
  BY <1>1, <1>2, <1>4 DEF RightFor
<1> QED
  BY <1>3, <1>5 DEF n
-----------------------------------------------------------------------------
\* The pairs of ranks that talk.
Talk(a, b) ==
    \/ a = DealerRank /\ b \in Workers
    \/ a \in Workers /\ b \in {DealerRank, FarmerRank, OutputRank}
    \/ a = FarmerRank /\ b = OutputRank

Kind(a, b) ==
    IF a = DealerRank THEN ToWorker
    ELSE IF b = DealerRank THEN Message("REQUEST", {a})
    ELSE IF b = FarmerRank \/ a = FarmerRank THEN EventMessages ELSE PassedOn

TalkOK ==
    /\ Channels
    /\ \A a, b \in Ranks : IF Talk(a, b) THEN chan[a][b] \in Seq(Kind(a, b)) ELSE chan[a][b] = <<>>

LEMMA TalkFacts ==
    /\ \A w \in Workers : /\ Talk(DealerRank, w) /\ Kind(DealerRank, w) = ToWorker
                          /\ Talk(w, DealerRank) /\ Kind(w, DealerRank) = Message("REQUEST", {w})
                          /\ Talk(w, FarmerRank) /\ Kind(w, FarmerRank) = EventMessages
                          /\ Talk(w, OutputRank) /\ Kind(w, OutputRank) = PassedOn
    /\ Talk(FarmerRank, OutputRank) /\ Kind(FarmerRank, OutputRank) = EventMessages
BY RankFacts DEF Talk, Kind

LEMMA TalkIsMessages == TalkOK <=> MessagesOK /\ Unused
<1>1. ASSUME TalkOK PROVE MessagesOK /\ Unused
  <2>1. Unused
    BY <1>1 DEF TalkOK, Talk, Unused
  <2>2. Channels
    BY <1>1 DEF TalkOK
  <2>3. ASSUME NEW w \in Workers
        PROVE  /\ chan[DealerRank][w] \in Seq(ToWorker)
               /\ chan[w][DealerRank] \in Seq(Message("REQUEST", {w}))
               /\ chan[w][FarmerRank] \in Seq(EventMessages)
    BY <1>1, RankFacts, TalkFacts DEF TalkOK
  <2>4. chan[FarmerRank][OutputRank] \in Seq(EventMessages)
    BY <1>1, RankFacts, TalkFacts DEF TalkOK
  <2>5. ASSUME NEW r \in Sources \ {FarmerRank} PROVE chan[r][OutputRank] \in Seq(PassedOn)
    <3>1. CASE r = DealerRank
      <4>1. chan[r][OutputRank] = <<>>
        BY <2>1, <3>1, RankFacts DEF Unused
      <4> QED
        BY <4>1
    <3>2. CASE r \in Workers
      BY <1>1, <3>2, RankFacts, TalkFacts DEF TalkOK
    <3> QED
      BY <3>1, <3>2, RankFacts
  <2> QED
    BY <2>1, <2>2, <2>3, <2>4, <2>5 DEF MessagesOK, Channels, StreamsOK
<1>2. ASSUME MessagesOK, Unused PROVE TalkOK
  <2>1. ASSUME NEW a \in Ranks, NEW b \in Ranks, Talk(a, b) PROVE chan[a][b] \in Seq(Kind(a, b))
    BY <1>2, <2>1, TalkFacts, RankFacts DEF MessagesOK, StreamsOK, Talk
  <2>2. ASSUME NEW a \in Ranks, NEW b \in Ranks, ~ Talk(a, b) PROVE chan[a][b] = <<>>
    BY <1>2, <2>2 DEF Unused, Talk
  <2> QED
    BY <1>2, <2>1, <2>2 DEF TalkOK, MessagesOK, Channels
<1> QED
  BY <1>1, <1>2

LEMMA TalkSent ==
    ASSUME MessagesOK, Unused, NEW a \in Ranks, NEW b \in Ranks, Talk(a, b), NEW tag, NEW body,
           Send(a, b, tag, body), Message(tag, {body}) \subseteq Kind(a, b)
    PROVE  MessagesOK' /\ Unused' /\ Longer(a, b, tag, body) /\ OthersKept(a, b)
<1>1. Sends(a, b, tag, body)
  BY SendEffect DEF MessagesOK, Channels
<1>2. TalkOK
  BY TalkIsMessages
<1>3. /\ chan'[a][b] \in Seq(Kind(a, b)) /\ Longer(a, b, tag, body)
      /\ OthersKept(a, b) /\ Channels'
  BY <1>1, <1>2, SentTo DEF TalkOK
<1>4. TalkOK'
  <2>1. ASSUME NEW c \in Ranks, NEW d \in Ranks
        PROVE  IF Talk(c, d) THEN chan'[c][d] \in Seq(Kind(c, d)) ELSE chan'[c][d] = <<>>
    <3>1. CASE c = a /\ d = b
      BY <1>3, <3>1
    <3>2. CASE c # a \/ d # b
      BY <1>2, <1>3, <3>2 DEF TalkOK, OthersKept
    <3> QED
      BY <3>1, <3>2
  <2> QED
    BY <1>3, <2>1 DEF TalkOK
<1>5. MessagesOK' /\ Unused'
  BY <1>4, TalkIsMessages, PTL
<1> QED
  BY <1>3, <1>5

LEMMA TalkTaken ==
    ASSUME MessagesOK, Unused, NEW a \in Ranks, NEW b \in Ranks, Talk(a, b), NEW tags,
           Arrived(a, b, tags), chan' = Received(a, b)
    PROVE  /\ MessagesOK' /\ Unused' /\ Shorter(a, b) /\ OthersKept(a, b)
           /\ chan[a][b][1] \in Kind(a, b) /\ chan[a][b][1].tag \in tags
<1>1. Takes(a, b)
  BY ReceiveEffect DEF MessagesOK, Channels
<1>2. TalkOK
  BY TalkIsMessages
<1>3. /\ chan'[a][b] \in Seq(Kind(a, b)) /\ Shorter(a, b)
      /\ chan[a][b][1] \in Kind(a, b)
      /\ OthersKept(a, b) /\ Channels'
  BY <1>1, <1>2, TakenFrom DEF TalkOK
<1>4. TalkOK'
  <2>1. ASSUME NEW c \in Ranks, NEW d \in Ranks
        PROVE  IF Talk(c, d) THEN chan'[c][d] \in Seq(Kind(c, d)) ELSE chan'[c][d] = <<>>
    <3>1. CASE c = a /\ d = b
      BY <1>3, <3>1
    <3>2. CASE c # a \/ d # b
      BY <1>2, <1>3, <3>2 DEF TalkOK, OthersKept
    <3> QED
      BY <3>1, <3>2
  <2> QED
    BY <1>3, <2>1 DEF TalkOK
<1>5. MessagesOK' /\ Unused'
  BY <1>4, TalkIsMessages, PTL
<1>6. chan[a][b][1].tag \in tags
  BY <1>3 DEF Arrived, Shorter
<1> QED
  BY <1>3, <1>5, <1>6
-----------------------------------------------------------------------------
(***************************************************************************)
(* What a step leaves alone stays right.                                   *)
(***************************************************************************)
Waiting(w) == wpc[w] \in {"header", "data"}

Between(w) == chan'[w][DealerRank] = chan[w][DealerRank] /\ chan'[DealerRank][w] = chan[DealerRank][w]

\* The steps of the dealer that concern another worker, or none.
LEMMA ProtocolKept ==
    ASSUME NEW w \in Workers, Protocol(w), file' = file, Between(w),
           Over => Over',
           Served(w)' <=> Served(w),
           Served(w) => UNCHANGED <<dpc, block>>,
           \/ UNCHANGED <<wpc[w], wtrigger[w]>>
           \/ ~ Waiting(w) /\ ~ Waiting(w)'
    PROVE  Protocol(w)'
<1>1. /\ \A t, i : RightFor(t, i)' <=> RightFor(t, i)
  BY NumKept
<1>2. CASE ~ Waiting(w)
  <2>1. ~ Waiting(w)' /\ Silent(w)
    BY <1>2 DEF Protocol, Waiting
  <2>2. Silent(w)'
    BY <2>1 DEF Silent, Between
  <2> QED
    BY <2>1, <2>2 DEF Protocol, Waiting
<1>3. CASE Waiting(w)
  <2>1. UNCHANGED <<wpc[w], wtrigger[w]>>
    BY <1>3
  <2>2. Asked(w) => Asked(w)'
    BY DEF Asked, Between
  <2>3. HeaderDue(w) => HeaderDue(w)'
    BY DEF HeaderDue, Between
  <2>4. HeaderSent(w) => HeaderSent(w)'
    BY <1>1 DEF HeaderSent, Between
  <2>5. BothSent(w) => BothSent(w)'
    BY <1>1 DEF BothSent, Between
  <2>6. EndSent(w) => EndSent(w)'
    BY DEF EndSent, Between
  <2>7. DataDue(w) => DataDue(w)'
    BY <1>1, <2>1 DEF DataDue, Between
  <2>8. DataSent(w) => DataSent(w)'
    BY <1>1, <2>1 DEF DataSent, Between
  <2> QED
    BY <1>3, <2>1, <2>2, <2>3, <2>4, <2>5, <2>6, <2>7, <2>8 DEF Protocol, Waiting
<1> QED
  BY <1>2, <1>3

LEMMA BlocksSentKept ==
    ASSUME NEW w \in Workers, BlocksSent(w), chan'[DealerRank][w] = chan[DealerRank][w],
           pos \in Nat, pos' \in Nat, pos <= pos',
           \A k \in DOMAIN chan[DealerRank][w] : chan[DealerRank][w][k].tag = "DATA"
               => chan[DealerRank][w][k].body \in Block
    PROVE  BlocksSent(w)'
BY DEF BlocksSent, WithinRead, Block

LEMMA WorkerKept ==
    ASSUME NEW w \in Workers, WorkerOK(w), UNCHANGED <<wpc[w], wblock[w], wtrigger[w]>>,
           wblock[w] \in Block, file' = file, pos \in Nat, pos' \in Nat, pos <= pos', Over => Over'
    PROVE  WorkerOK(w)'
<1>1. \A t, i : RightFor(t, i)' <=> RightFor(t, i)
  BY NumKept
<1>2. WithinRead(wblock[w]) => WithinRead(wblock[w])'
  BY DEF WithinRead, Block
<1> QED
  BY <1>1, <1>2 DEF WorkerOK, WorkerHolds

\* The stream of a worker to the farmer.
LEMMA EventsSentKept ==
    ASSUME NEW w \in Workers, EventsSent(w), file' = file,
           pos \in Nat, pos' \in Nat, pos <= pos',
           chan[w][FarmerRank] \in Seq(EventMessages),
           chan'[w][FarmerRank] = chan[w][FarmerRank],
           \A k \in Nat \ {0} : Before(w, k)' = Before(w, k)
    PROVE  EventsSent(w)'
<1>1. \A t, i : RightFor(t, i)' <=> RightFor(t, i)
  BY NumKept
<1>2. ASSUME NEW k \in DOMAIN chan'[w][FarmerRank], chan'[w][FarmerRank][k].tag = "DATA"
      PROVE  /\ chan'[w][FarmerRank][k].body \in 1 .. pos'
             /\ file'[chan'[w][FarmerRank][k].body] = "physics"
             /\ RightFor(Before(w, k).body, chan[w][FarmerRank][k].body)'
  <2>1. /\ chan[w][FarmerRank][k].body \in 1 .. pos
        /\ file[chan[w][FarmerRank][k].body] = "physics"
        /\ RightFor(Before(w, k).body, chan[w][FarmerRank][k].body)
    BY <1>2 DEF EventsSent
  <2>2. k \in Nat \ {0}
    BY <1>2
  <2>3. Before(w, k)' = Before(w, k)
    BY <2>2
  <2> QED
    BY <1>1, <2>1, <2>3
<1> QED
  BY <1>2 DEF EventsSent

LEMMA LastSentKept ==
    ASSUME NEW w \in Workers, LastSentOK(w), chan'[w][FarmerRank] = chan[w][FarmerRank],
           chan[w][FarmerRank] \in Seq(EventMessages),
           \A k \in Nat \ {0} : Before(w, k)' = Before(w, k),
           UNCHANGED <<wpc[w], wtrigger[w]>>
    PROVE  LastSentOK(w)'
<1>1. LastSent(w)' = LastSent(w)
  <2>1. Len(chan[w][FarmerRank]) + 1 \in Nat \ {0}
    OBVIOUS
  <2>2. PICK k \in Nat \ {0} : k = Len(chan[w][FarmerRank]) + 1
    BY <2>1
  <2>3. LastSent(w) = Before(w, k) /\ LastSent(w)' = Before(w, k)'
    BY <2>2 DEF LastSent, Before
  <2> QED
    BY <2>3
<1> QED
  BY <1>1 DEF LastSentOK

LEMMA PassedOnKept ==
    ASSUME NEW w \in Workers, PassedOnSent(w), file' = file,
           pos \in Nat, pos' \in Nat, pos <= pos', chan'[w][OutputRank] = chan[w][OutputRank]
    PROVE  PassedOnSent(w)'
BY DEF PassedOnSent

LEMMA WrittenKept ==
    ASSUME PassedOnWritten, file' = file, pos \in Nat, pos' \in Nat, pos <= pos',
           written' = written
    PROVE  PassedOnWritten'
BY DEF PassedOnWritten

LEMMA EndsLeftKept ==
    ASSUME EndsLeftOK, m_nEndsLeft' = m_nEndsLeft, \A w \in Workers : Ended(w)' <=> Ended(w)
    PROVE  EndsLeftOK'
BY DEF EndsLeftOK
-----------------------------------------------------------------------------
(***************************************************************************)
(* The steps of the dealer.                                                *)
(***************************************************************************)
\* A message to a worker.
LEMMA Dealt ==
    ASSUME MessagesOK, NEW w \in Workers, NEW k \in DOMAIN chan[DealerRank][w]
    PROVE  /\ chan[DealerRank][w][k].tag \in {"HEADER", "DATA"}
           /\ chan[DealerRank][w][k].tag = "DATA" => chan[DealerRank][w][k].body \in Block
           /\ chan[DealerRank][w][k].tag = "HEADER" =>
                 /\ chan[DealerRank][w][k].body.end \in BOOLEAN
                 /\ chan[DealerRank][w][k].body.blockNum \in Triggers
<1>1. chan[DealerRank][w] \in Seq(ToWorker)
  BY DEF MessagesOK
<1>2. chan[DealerRank][w][k] \in ToWorker
  BY <1>1
<1> QED
  BY <1>2 DEF ToWorker, Message

LEMMA RawInvFarmer == RawInv => FarmerOK /\ Delivery
BY DEF RawInv, TypeOK, MessagesOK, FarmerOK, EndsTypeOK, Channels

LEMMA DealerFrame ==
    ASSUME RawInv, UNCHANGED <<workerVars, farmerVars, outputVars>>, file' = file,
           pos <= pos', Over => Over', MessagesOK', Unused',
           \A w \in Workers : /\ chan'[w][FarmerRank] = chan[w][FarmerRank]
                              /\ chan'[w][OutputRank] = chan[w][OutputRank],
           chan'[FarmerRank][OutputRank] = chan[FarmerRank][OutputRank],
           DealerTypeOK', DealerOK', \A w \in Workers : Protocol(w)' /\ BlocksSent(w)'
    PROVE  RawInv'
<1>1. FarmerOK' /\ Delivery'
  <2>1. StreamsOK' /\ Channels'
    BY DEF MessagesOK, Channels
  <2> QED
    BY <2>1, RawInvFarmer, OthersDeliver
<1>2. WorkersTypeOK'
  BY DEF RawInv, TypeOK, WorkersTypeOK, workerVars
<1>3. pos \in Nat /\ pos' \in Nat
  BY DEF RawInv, TypeOK, DealerTypeOK
<1>4. /\ UNCHANGED <<fpc, fheader, m_nEndsLeft, written>> /\ UNCHANGED <<wpc, wblock, wtrigger>>
  BY DEF farmerVars, outputVars, workerVars
<1>5. InPairs' /\ \A w \in Workers : \A k \in Nat : Before(w, k)' = Before(w, k)
  BY <1>4, StreamsKept DEF RawInv
<1>6. ASSUME NEW w \in Workers
      PROVE  WorkerOK(w)' /\ EventsSent(w)' /\ LastSentOK(w)' /\ PassedOnSent(w)'
  <2>1. wblock[w] \in Block /\ chan[w][FarmerRank] \in Seq(EventMessages)
    BY DEF RawInv, TypeOK, WorkersTypeOK, MessagesOK, StreamsOK
  <2>2. /\ UNCHANGED <<wpc[w], wblock[w], wtrigger[w]>>
        /\ \A k \in Nat \ {0} : Before(w, k)' = Before(w, k)
    BY <1>4, <1>5
  <2>3. WorkerOK(w) /\ EventsSent(w) /\ LastSentOK(w) /\ PassedOnSent(w)
    BY DEF RawInv
  <2>4. WorkerOK(w)'
    BY <1>3, <2>1, <2>2, <2>3, WorkerKept
  <2>5. EventsSent(w)'
    BY <1>3, <2>1, <2>2, <2>3, EventsSentKept
  <2>6. LastSentOK(w)'
    BY <2>1, <2>2, <2>3, LastSentKept
  <2>7. PassedOnSent(w)'
    BY <1>3, <2>3, PassedOnKept
  <2> QED
    BY <2>4, <2>5, <2>6, <2>7
<1>7. EndsLeftOK'
  BY <1>4, EndsLeftKept DEF RawInv, Ended
<1>8. PassedOnWritten'
  BY <1>3, <1>4, WrittenKept DEF RawInv
<1>9. TypeOK' /\ FarmerControl'
  BY <1>1, <1>2 DEF TypeOK, FarmerOK, EndsTypeOK
<1> QED
  BY <1>1, <1>5, <1>6, <1>7, <1>8, <1>9 DEF RawInv

\* The dealer's own steps, in which no message moves.
LEMMA DealerAlone ==
    ASSUME RawInv, UNCHANGED <<workerVars, farmerVars, outputVars>>, file' = file, chan' = chan,
           pos <= pos', DealerTypeOK', DealerOK',
           dpc \notin {"sendHeader", "sendData", "sendEof", "eofRequest", "finalize"},
           dpc' \notin {"sendHeader", "sendData", "sendEof"}
    PROVE  RawInv'
<1>1. MessagesOK' /\ Unused' /\ ~ Over
  BY DEF RawInv, TypeOK, MessagesOK, StreamsOK, Unused, Over
<1>2. pos \in Nat /\ pos' \in Nat
  BY DEF RawInv, TypeOK, DealerTypeOK
<1>3. ASSUME NEW w \in Workers PROVE Protocol(w)' /\ BlocksSent(w)'
  <2>1. UNCHANGED <<wpc[w], wtrigger[w]>> /\ Between(w)
    BY DEF workerVars, Between
  <2>2. ~ Served(w) /\ ~ Served(w)'
    BY DEF Served
  <2>3. Protocol(w) /\ BlocksSent(w)
    BY DEF RawInv
  <2>4. Protocol(w)'
    BY <1>1, <2>1, <2>2, <2>3, ProtocolKept
  <2>5. \A k \in DOMAIN chan[DealerRank][w] : chan[DealerRank][w][k].tag = "DATA"
            => chan[DealerRank][w][k].body \in Block
    BY Dealt DEF RawInv, TypeOK
  <2>6. BlocksSent(w)'
    BY <1>2, <2>3, <2>5, BlocksSentKept
  <2> QED
    BY <2>4, <2>6
<1> QED
  BY <1>1, <1>3, DealerFrame

LEMMA DealerReadInv ==
    ASSUME RawInv, DealerRead, UNCHANGED <<workerVars, farmerVars, outputVars>>
    PROVE  RawInv'
<1>1. PICK last \in pos + 1 .. Len(file) : /\ block' = [first |-> pos + 1, last |-> last]
                                            /\ pos' = last
  BY DEF DealerRead
<1>2. /\ dpc = "read" /\ dpc' = "request"
      /\ UNCHANGED <<chan, file, firstTrigger, dest, eofsLeft>>
  BY DEF DealerRead
<1>3. DealerTypeOK
  BY DEF RawInv, TypeOK
<1>4. /\ pos \in Nat /\ Len(file) \in Nat /\ last \in Nat /\ pos + 1 <= last
      /\ last <= Len(file)
  BY <1>3 DEF DealerTypeOK
<1>5. DealerTypeOK'
  BY <1>1, <1>2, <1>3, <1>4 DEF DealerTypeOK, Block
<1>6. DealerOK'
  <2>1. RightFor(firstTrigger, pos + 1)
    BY <1>2 DEF RawInv, DealerOK
  <2>2. block'.first = pos + 1 /\ block'.last = last
    BY <1>1
  <2>3. RightFor(firstTrigger, block.first)'
    BY <1>2, <2>1, <2>2, NumKept
  <2>4. WithinRead(block)' /\ block'.last = pos'
    BY <1>1, <1>4, <2>2 DEF WithinRead
  <2>5. eofsLeft' > 0
    BY <1>2 DEF RawInv, DealerOK
  <2> QED
    BY <1>2, <2>3, <2>4, <2>5 DEF DealerOK, DealerHolds
<1> QED
  BY <1>1, <1>2, <1>4, <1>5, <1>6, DealerAlone

LEMMA DealerEofInv ==
    ASSUME RawInv, DealerEof, UNCHANGED <<workerVars, farmerVars, outputVars>>
    PROVE  RawInv'
<1>1. /\ dpc = "read" /\ dpc' = "eofRequest" /\ pos = Len(file)
      /\ UNCHANGED <<chan, file, pos, block, firstTrigger, dest, eofsLeft>>
  BY DEF DealerEof
<1>2. DealerTypeOK'
  BY <1>1 DEF RawInv, TypeOK, DealerTypeOK
<1>3. DealerOK'
  BY <1>1 DEF RawInv, DealerOK, DealerHolds, Over
<1>4. pos <= pos'
  BY <1>1, <1>2 DEF DealerTypeOK
<1> QED
  BY <1>1, <1>2, <1>3, <1>4, DealerAlone

LEMMA DealerThrowInv ==
    ASSUME RawInv, DealerThrow, UNCHANGED <<workerVars, farmerVars, outputVars>>
    PROVE  RawInv'
<1>1. /\ dpc = "read" /\ dpc' = "finalize"
      /\ UNCHANGED <<chan, file, pos, block, firstTrigger, dest, eofsLeft>>
  BY DEF DealerThrow
<1>2. DealerTypeOK'
  BY <1>1 DEF RawInv, TypeOK, DealerTypeOK
<1>3. DealerOK'
  BY <1>1 DEF RawInv, DealerOK, DealerHolds
<1>4. pos <= pos'
  BY <1>1, <1>2 DEF DealerTypeOK
<1> QED
  BY <1>1, <1>2, <1>3, <1>4, DealerAlone

\* A request is there only while its worker waits for the answer.
LEMMA RequestAsked ==
    ASSUME RawInv, NEW w \in Workers, Len(chan[w][DealerRank]) > 0
    PROVE  wpc[w] = "header" /\ Asked(w)
<1>1. Protocol(w) /\ chan[w][DealerRank] # <<>>
  BY DEF RawInv
<1> QED
  BY <1>1 DEF Protocol, Silent, HeaderDue, HeaderSent, BothSent, EndSent, DataDue, DataSent

LEMMA DealerGetRequestInv ==
    ASSUME RawInv, DealerGetRequest, UNCHANGED <<workerVars, farmerVars, outputVars>>
    PROVE  RawInv'
<1>1. PICK w \in Workers : /\ Arrived(w, DealerRank, {"REQUEST"})
                           /\ dest' = FirstBody(w, DealerRank)
                           /\ chan' = Received(w, DealerRank)
  BY DEF DealerGetRequest
<1>2. MessagesOK /\ Unused /\ DealerTypeOK
  BY DEF RawInv, TypeOK
<1>3. /\ MessagesOK' /\ Unused' /\ Shorter(w, DealerRank) /\ OthersKept(w, DealerRank)
      /\ chan[w][DealerRank][1] \in Message("REQUEST", {w})
  BY <1>1, <1>2, RankFacts, TalkFacts, TalkTaken
<1>4. /\ dest' = w
      /\ dpc \in {"request", "eofRequest"}
      /\ dpc' = IF dpc = "request" THEN "sendHeader" ELSE "sendEof"
      /\ UNCHANGED <<file, pos, block, firstTrigger, eofsLeft>>
  BY <1>1, <1>3 DEF Shorter, FirstBody, Message, DealerGetRequest
<1>5. Asked(w) /\ wpc[w] = "header"
  BY <1>3, RequestAsked DEF Shorter
<1>6. /\ chan'[w][DealerRank] = <<>>
      /\ \A v \in Workers : /\ chan'[v][FarmerRank] = chan[v][FarmerRank]
                            /\ chan'[v][OutputRank] = chan[v][OutputRank]
                            /\ chan'[DealerRank][v] = chan[DealerRank][v]
                            /\ v # w => chan'[v][DealerRank] = chan[v][DealerRank]
      /\ chan'[FarmerRank][OutputRank] = chan[FarmerRank][OutputRank]
  <2>1. chan'[w][DealerRank] \in Seq(Message("REQUEST", {w})) /\ Len(chan'[w][DealerRank]) = 0
    BY <1>3, <1>5 DEF MessagesOK, Asked, Shorter
  <2> QED
    BY <1>3, <2>1, RankFacts DEF OthersKept
<1>7. DealerTypeOK'
  BY <1>2, <1>4 DEF DealerTypeOK
<1>8. DealerOK'
  <2>1. \A t, i : RightFor(t, i)' <=> RightFor(t, i)
    BY <1>4, NumKept
  <2> QED
    BY <1>4, <2>1 DEF RawInv, DealerOK, DealerHolds, Over, WithinRead
<1>9. pos \in Nat /\ pos' = pos
  BY <1>2, <1>4 DEF DealerTypeOK
<1>10. ASSUME NEW v \in Workers PROVE Protocol(v)' /\ BlocksSent(v)'
  <2>1. wpc' = wpc /\ wtrigger' = wtrigger
    BY DEF workerVars
  <2>2. BlocksSent(v)'
    BY <1>2, <1>6, <1>9, Dealt, BlocksSentKept DEF RawInv
  <2>3. CASE v = w
    <3>1. HeaderDue(w)'
      BY <1>4, <1>5, <1>6 DEF HeaderDue, Asked, Served
    <3> QED
      BY <1>5, <2>1, <2>2, <2>3, <3>1 DEF Protocol
  <2>4. CASE v # w
    <3>1. ~ Served(v) /\ ~ Served(v)'
      BY <1>4, <2>4 DEF Served
    <3>2. Between(v) /\ UNCHANGED <<wpc[v], wtrigger[v]>>
      BY <1>6, <2>1, <2>4 DEF Between
    <3>3. Over => Over'
      BY <1>4 DEF Over
    <3>4. Protocol(v)'
      BY <1>4, <3>1, <3>2, <3>3, ProtocolKept DEF RawInv
    <3> QED
      BY <2>2, <3>4
  <2> QED
    BY <2>3, <2>4
<1>11. pos <= pos' /\ (Over => Over')
  BY <1>4, <1>9 DEF Over
<1> QED
  BY <1>3, <1>4, <1>6, <1>7, <1>8, <1>10, <1>11, DealerFrame

(***************************************************************************)
(* The dealer sends to the worker it serves.                               *)
(***************************************************************************)
Answered(w, tag, body) ==
    Longer(DealerRank, w, tag, body) /\ OthersKept(DealerRank, w)
        => Protocol(w)' /\ BlocksSent(w)'

LEMMA DealerSends ==
    ASSUME RawInv, UNCHANGED <<workerVars, farmerVars, outputVars>>,
           UNCHANGED <<file, pos, block, dest>>,
           dpc \in {"sendHeader", "sendData", "sendEof"},
           NEW w \in Workers, w = dest, NEW tag, NEW body,
           Send(DealerRank, w, tag, body), Message(tag, {body}) \subseteq ToWorker,
           Over => Over',
           DealerTypeOK', DealerOK',
           Answered(w, tag, body)
    PROVE  RawInv'
<1>1. MessagesOK /\ Unused /\ DealerTypeOK
  BY DEF RawInv, TypeOK
<1>2. /\ MessagesOK' /\ Unused'
      /\ Longer(DealerRank, w, tag, body) /\ OthersKept(DealerRank, w)
  BY <1>1, RankFacts, TalkFacts, TalkSent
<1>3. pos \in Nat /\ pos' = pos
  BY <1>1 DEF DealerTypeOK
<1>4. /\ \A v \in Workers : /\ chan'[v][FarmerRank] = chan[v][FarmerRank]
                            /\ chan'[v][OutputRank] = chan[v][OutputRank]
                            /\ v # w => Between(v)
      /\ chan'[FarmerRank][OutputRank] = chan[FarmerRank][OutputRank]
  BY <1>2, RankFacts DEF OthersKept, Between
<1>5. ASSUME NEW v \in Workers PROVE Protocol(v)' /\ BlocksSent(v)'
  <2>1. CASE v = w
    BY <1>2, <2>1 DEF Answered
  <2>2. CASE v # w
    <3>1. ~ Served(v) /\ ~ Served(v)'
      BY <2>2 DEF Served
    <3>2. Between(v) /\ UNCHANGED <<wpc[v], wtrigger[v]>>
      BY <1>4, <2>2 DEF workerVars
    <3>3. Protocol(v)'
      BY <3>1, <3>2, ProtocolKept DEF RawInv
    <3>4. BlocksSent(v)'
      BY <1>1, <1>3, <3>2, Dealt, BlocksSentKept DEF RawInv, Between
    <3> QED
      BY <3>3, <3>4
  <2> QED
    BY <2>1, <2>2
<1>6. pos <= pos'
  BY <1>3
<1> QED
  BY <1>2, <1>4, <1>5, <1>6, DealerFrame

\* The dealer sends a header to a worker that waits for one.
LEMMA HeaderAwaited ==
    ASSUME RawInv, dpc \in {"sendHeader", "sendEof"}
    PROVE  dest \in Workers /\ HeaderDue(dest) /\ wpc[dest] = "header"
<1>1. dest \in Workers /\ Served(dest)
  BY DEF RawInv, TypeOK, DealerTypeOK, Served
<1>2. Protocol(dest)
  BY <1>1 DEF RawInv
<1> QED
  BY <1>1, <1>2
  DEF Protocol, Silent, Asked, HeaderSent, BothSent, EndSent, DataDue, DataSent

\* A message added to one does not change what was there.
LEMMA BlocksSentLonger ==
    ASSUME RawInv, NEW w \in Workers, NEW tag, NEW body, Longer(DealerRank, w, tag, body),
           pos' = pos, tag = "DATA" => WithinRead(body)
    PROVE  BlocksSent(w)'
<1>1. BlocksSent(w)
  BY DEF RawInv
<1>2. ASSUME NEW k \in DOMAIN chan'[DealerRank][w], chan'[DealerRank][w][k].tag = "DATA"
      PROVE  WithinRead(chan[DealerRank][w][k].body)'
  <2>1. CASE k \in 1 .. Len(chan[DealerRank][w])
    <3>1. k \in DOMAIN chan[DealerRank][w] /\ chan'[DealerRank][w][k] = chan[DealerRank][w][k]
      BY <2>1 DEF Longer
    <3>2. WithinRead(chan[DealerRank][w][k].body)
      BY <1>1, <1>2, <3>1 DEF BlocksSent
    <3> QED
      BY <3>1, <3>2 DEF WithinRead
  <2>2. CASE k = Len(chan[DealerRank][w]) + 1
    BY <1>2, <2>2 DEF Longer, WithinRead
  <2> QED
    BY <2>1, <2>2 DEF Longer
<1> QED
  BY <1>2 DEF BlocksSent

LEMMA DealerSendHeaderInv ==
    ASSUME RawInv, DealerSendHeader, UNCHANGED <<workerVars, farmerVars, outputVars>>
    PROVE  RawInv'
<1>1. /\ dpc = "sendHeader" /\ dpc' = "sendData"
      /\ UNCHANGED <<file, pos, block, firstTrigger, dest, eofsLeft>>
  BY DEF DealerSendHeader
<1>2. PICK w \in Workers : w = dest
  BY DEF RawInv, TypeOK, DealerTypeOK
<1>3. PICK body : body = [end |-> FALSE, blockNum |-> firstTrigger]
  OBVIOUS
<1>4. Send(DealerRank, w, "HEADER", body)
  BY <1>2, <1>3 DEF DealerSendHeader
<1>5. firstTrigger \in Triggers
  BY RawAssumption, MaxTriggerAssumption DEF RawInv, TypeOK, DealerTypeOK, Triggers
<1>6. Message("HEADER", {body}) \subseteq ToWorker
  <2>1. body \in [end : BOOLEAN, blockNum : Triggers]
    BY <1>3, <1>5
  <2> QED
    BY <2>1 DEF Message, ToWorker
<1>7. DealerTypeOK'
  BY <1>1 DEF RawInv, TypeOK, DealerTypeOK
<1>8. \A t, i : RightFor(t, i)' <=> RightFor(t, i)
  BY <1>1, NumKept
<1>9. DealerOK' /\ (Over => Over')
  BY <1>1, <1>8 DEF RawInv, DealerOK, DealerHolds, WithinRead, Over
<1>10. Answered(w, "HEADER", body)
  <2>0. SUFFICES ASSUME Longer(DealerRank, w, "HEADER", body), OthersKept(DealerRank, w)
                PROVE  Protocol(w)' /\ BlocksSent(w)'
    BY DEF Answered
  <2>1. HeaderDue(w) /\ wpc[w] = "header"
    BY <1>1, <1>2, HeaderAwaited
  <2>2. BlocksSent(w)'
    BY <1>1, <2>0, BlocksSentLonger
  <2>3. Len(chan[DealerRank][w]) = 0
    BY <2>1 DEF HeaderDue
  <2>4. chan'[w][DealerRank] = <<>>
    BY <2>0, <2>1, RankFacts DEF OthersKept, HeaderDue
  <2>5. /\ Len(chan'[DealerRank][w]) = 1
        /\ chan'[DealerRank][w][1].tag = "HEADER"
        /\ chan'[DealerRank][w][1].body = body
    BY <2>0, <2>3 DEF Longer
  <2>6. RightFor(firstTrigger, block.first)
    BY <1>1 DEF RawInv, DealerOK, DealerHolds
  <2>7. RightFor(chan[DealerRank][w][1].body.blockNum, block.first)'
    BY <1>1, <1>3, <1>8, <2>5, <2>6
  <2>8. HeaderSent(w)'
    BY <1>1, <1>2, <1>3, <2>4, <2>5, <2>7 DEF HeaderSent, Served
  <2>9. wpc'[w] = "header"
    BY <2>1 DEF workerVars
  <2> QED
    BY <2>2, <2>8, <2>9 DEF Protocol
<1> QED
  BY <1>1, <1>2, <1>4, <1>6, <1>7, <1>9, <1>10, DealerSends

LEMMA DealerSendEofInv ==
    ASSUME RawInv, DealerSendEof, UNCHANGED <<workerVars, farmerVars, outputVars>>
    PROVE  RawInv'
<1>1. /\ dpc = "sendEof" /\ eofsLeft' = eofsLeft - 1
      /\ dpc' = IF eofsLeft' = 0 THEN "finalize" ELSE "eofRequest"
      /\ UNCHANGED <<file, pos, block, firstTrigger, dest>>
  BY DEF DealerSendEof
<1>2. PICK w \in Workers : w = dest
  BY DEF RawInv, TypeOK, DealerTypeOK
<1>3. PICK body : body = [end |-> TRUE, blockNum |-> 0]
  OBVIOUS
<1>4. Send(DealerRank, w, "HEADER", body)
  BY <1>2, <1>3 DEF DealerSendEof
<1>5. Message("HEADER", {body}) \subseteq ToWorker
  <2>1. body \in [end : BOOLEAN, blockNum : Triggers]
    BY <1>3, MaxTriggerAssumption DEF Triggers
  <2> QED
    BY <2>1 DEF Message, ToWorker
<1>6. eofsLeft \in 0 .. Size - 3 /\ eofsLeft > 0 /\ Over
  BY <1>1 DEF RawInv, TypeOK, DealerTypeOK, DealerOK
<1>7. DealerTypeOK' /\ eofsLeft' \in Nat
  BY <1>1, <1>6, MPIAssumption DEF RawInv, TypeOK, DealerTypeOK
<1>8. DealerOK' /\ Over'
  BY <1>1, <1>6, <1>7 DEF DealerOK, DealerHolds, Over
<1>9. Answered(w, "HEADER", body)
  <2>0. SUFFICES ASSUME Longer(DealerRank, w, "HEADER", body), OthersKept(DealerRank, w)
                PROVE  Protocol(w)' /\ BlocksSent(w)'
    BY DEF Answered
  <2>1. HeaderDue(w) /\ wpc[w] = "header"
    BY <1>1, <1>2, HeaderAwaited
  <2>2. BlocksSent(w)'
    BY <1>1, <2>0, BlocksSentLonger
  <2>3. Len(chan[DealerRank][w]) = 0
    BY <2>1 DEF HeaderDue
  <2>4. chan'[w][DealerRank] = <<>>
    BY <2>0, <2>1, RankFacts DEF OthersKept, HeaderDue
  <2>5. /\ Len(chan'[DealerRank][w]) = 1
        /\ chan'[DealerRank][w][1].tag = "HEADER"
        /\ chan'[DealerRank][w][1].body = body
    BY <2>0, <2>3 DEF Longer
  <2>6. EndSent(w)'
    BY <1>1, <1>3, <1>8, <2>4, <2>5 DEF EndSent, Served
  <2>7. wpc'[w] = "header"
    BY <2>1 DEF workerVars
  <2> QED
    BY <2>2, <2>6, <2>7 DEF Protocol
<1> QED
  BY <1>1, <1>2, <1>4, <1>5, <1>7, <1>8, <1>9, DealerSends

LEMMA DealerSendDataInv ==
    ASSUME RawInv, DealerSendData, UNCHANGED <<workerVars, farmerVars, outputVars>>
    PROVE  RawInv'
<1>1. /\ dpc = "sendData" /\ dpc' = "read"
      /\ firstTrigger' = (firstTrigger + countTriggers(block)) % CounterMod
      /\ UNCHANGED <<file, pos, block, dest, eofsLeft>>
  BY DEF DealerSendData
<1>2. PICK w \in Workers : w = dest
  BY DEF RawInv, TypeOK, DealerTypeOK
<1>3. PICK body : body = block
  OBVIOUS
<1>4. Send(DealerRank, w, "DATA", body)
  BY <1>2, <1>3 DEF DealerSendData
<1>5. /\ block \in Block /\ WithinRead(block) /\ block.last = pos
      /\ RightFor(firstTrigger, block.first)
      /\ firstTrigger \in 0 .. CounterMod - 1 /\ file \in Seq(ItemKinds)
  BY <1>1 DEF RawInv, TypeOK, DealerTypeOK, DealerOK, DealerHolds
<1>6. Message("DATA", {body}) \subseteq ToWorker
  BY <1>3, <1>5 DEF Message, ToWorker
<1>7. firstTrigger' \in 0 .. CounterMod - 1 /\ RightFor(firstTrigger', pos + 1)
  <2>1. PICK a \in Nat \ {0}, b \in Nat : a = block.first /\ b = block.last /\ a <= b
    BY <1>5 DEF Block, WithinRead
  <2>2. PICK t \in 0 .. CounterMod - 1 : t = firstTrigger
    BY <1>5
  <2>3. RightFor(t, a)
    BY <1>5, <2>1, <2>2
  <2>4. countTriggers(block) = Cardinality(PhysicsIn(a, b))
    BY <2>1 DEF countTriggers
  <2>5. /\ (t + Cardinality(PhysicsIn(a, b))) % CounterMod \in 0 .. CounterMod - 1
        /\ RightFor((t + Cardinality(PhysicsIn(a, b))) % CounterMod, b + 1)
    BY <1>5, <2>1, <2>3, NextBlockIsRight
  <2> QED
    BY <1>1, <1>5, <2>1, <2>2, <2>4, <2>5
<1>8. DealerTypeOK'
  BY <1>1, <1>7 DEF RawInv, TypeOK, DealerTypeOK
<1>9. \A t, i : RightFor(t, i)' <=> RightFor(t, i)
  BY <1>1, NumKept
<1>10. DealerOK' /\ (Over => Over')
  <2>1. RightFor(firstTrigger, pos + 1)'
    BY <1>1, <1>7, <1>9
  <2>2. eofsLeft' > 0
    BY <1>1 DEF RawInv, DealerOK
  <2> QED
    BY <1>1, <2>1, <2>2 DEF DealerOK, DealerHolds, Over
<1>11. Answered(w, "DATA", body)
  <2>0. SUFFICES ASSUME Longer(DealerRank, w, "DATA", body), OthersKept(DealerRank, w)
                PROVE  Protocol(w)' /\ BlocksSent(w)'
    BY DEF Answered
  <2>1. Served(w) /\ ~ Served(w)'
    BY <1>1, <1>2 DEF Served
  <2>2. BlocksSent(w)'
    BY <1>1, <1>3, <1>5, <2>0, BlocksSentLonger
  <2>3. wpc'[w] = wpc[w] /\ wtrigger'[w] = wtrigger[w]
    BY DEF workerVars
  <2>4. chan'[w][DealerRank] = chan[w][DealerRank]
    BY <2>0, RankFacts DEF OthersKept
  <2>5. Protocol(w)
    BY DEF RawInv
  <2>6. CASE wpc[w] = "header" /\ HeaderSent(w)
    <3>1. /\ Len(chan'[DealerRank][w]) = 2
          /\ chan'[DealerRank][w][1] = chan[DealerRank][w][1]
          /\ chan'[DealerRank][w][2].tag = "DATA"
          /\ chan'[DealerRank][w][2].body = block
      BY <1>3, <2>0, <2>6 DEF Longer, HeaderSent
    <3>2. RightFor(chan[DealerRank][w][1].body.blockNum, chan[DealerRank][w][2].body.first)'
      BY <1>9, <2>6, <3>1 DEF HeaderSent
    <3>3. BothSent(w)'
      BY <2>1, <2>4, <2>6, <3>1, <3>2 DEF BothSent, HeaderSent
    <3> QED
      BY <2>2, <2>3, <2>6, <3>3 DEF Protocol
  <2>7. CASE wpc[w] = "data" /\ DataDue(w)
    <3>1. /\ Len(chan'[DealerRank][w]) = 1
          /\ chan'[DealerRank][w][1].tag = "DATA"
          /\ chan'[DealerRank][w][1].body = block
      BY <1>3, <2>0, <2>7 DEF Longer, DataDue
    <3>2. RightFor(wtrigger[w], chan[DealerRank][w][1].body.first)'
      BY <1>9, <2>3, <2>7, <3>1 DEF DataDue
    <3>3. DataSent(w)'
      BY <2>1, <2>4, <2>7, <3>1, <3>2 DEF DataSent, DataDue
    <3> QED
      BY <2>2, <2>3, <2>7, <3>3 DEF Protocol
  <2> QED
    BY <1>1, <2>1, <2>5, <2>6, <2>7
    DEF Protocol, Silent, Asked, HeaderDue, BothSent, EndSent, DataSent
<1> QED
  BY <1>1, <1>2, <1>4, <1>6, <1>8, <1>10, <1>11, DealerSends

LEMMA DealerInv ==
    ASSUME RawInv, DealerStep
    PROVE  RawInv'
<1>1. DealerNext /\ UNCHANGED <<workerVars, farmerVars, outputVars>>
  BY DEF DealerStep
<1> QED
  BY <1>1, DealerReadInv, DealerEofInv, DealerThrowInv, DealerGetRequestInv,
     DealerSendHeaderInv, DealerSendDataInv, DealerSendEofInv
  DEF DealerNext
-----------------------------------------------------------------------------
(***************************************************************************)
(* The steps of worker w.                                                  *)
(***************************************************************************)
WorkerPart(w) ==
    /\ Protocol(w) /\ WorkerOK(w) /\ BlocksSent(w) /\ EventsSent(w)
    /\ LastSentOK(w) /\ PassedOnSent(w)

OthersWait(w) ==
    /\ \A v \in Workers \ {w} :
          /\ UNCHANGED <<wpc[v], wblock[v], wtrigger[v]>>
          /\ Between(v)
          /\ chan'[v][FarmerRank] = chan[v][FarmerRank]
          /\ chan'[v][OutputRank] = chan[v][OutputRank]
    /\ chan'[FarmerRank][OutputRank] = chan[FarmerRank][OutputRank]

LEMMA WorkerFrame ==
    ASSUME RawInv, NEW w \in Workers, UNCHANGED <<dealerVars, farmerVars, outputVars>>,
           OthersWait(w), WorkersTypeOK', MessagesOK', Unused',
           WorkerPart(w)', InPairs', Ended(w)' <=> Ended(w)
    PROVE  RawInv'
<1>1. FarmerOK' /\ Delivery'
  <2>1. StreamsOK' /\ Channels'
    BY DEF MessagesOK, Channels
  <2> QED
    BY <2>1, RawInvFarmer, OthersDeliver DEF OthersWait
<1>2. DealerTypeOK'
  BY DEF RawInv, TypeOK, DealerTypeOK, dealerVars
<1>3. pos \in Nat /\ pos' = pos /\ pos <= pos'
  BY DEF RawInv, TypeOK, DealerTypeOK, dealerVars
<1>4. /\ UNCHANGED <<fpc, fheader, m_nEndsLeft, written>>
      /\ UNCHANGED <<file, dpc, block, firstTrigger, dest, eofsLeft>>
  BY DEF farmerVars, outputVars, dealerVars
<1>5. DealerOK' /\ (Over => Over')
  <2>1. \A t, i : RightFor(t, i)' <=> RightFor(t, i)
    BY <1>4, NumKept
  <2> QED
    BY <1>3, <1>4, <2>1 DEF RawInv, DealerOK, DealerHolds, WithinRead, Over
<1>6. ASSUME NEW v \in Workers \ {w}
      PROVE  WorkerPart(v)' /\ (Ended(v)' <=> Ended(v))
  <2>1. wblock[v] \in Block /\ chan[v][FarmerRank] \in Seq(EventMessages) /\ MessagesOK
    BY DEF RawInv, TypeOK, WorkersTypeOK, MessagesOK, StreamsOK
  <2>2. /\ UNCHANGED <<wpc[v], wblock[v], wtrigger[v]>>
        /\ Between(v)
        /\ chan'[v][FarmerRank] = chan[v][FarmerRank]
        /\ chan'[v][OutputRank] = chan[v][OutputRank]
    BY DEF OthersWait
  <2>3. \A k \in Nat \ {0} : Before(v, k)' = Before(v, k)
    BY <1>4, <2>2 DEF Before
  <2>4. WorkerPart(v)
    BY DEF RawInv, WorkerPart
  <2>5. Served(v)' <=> Served(v)
    BY <1>4 DEF Served
  <2>6. Protocol(v)'
    BY <1>4, <1>5, <2>2, <2>4, <2>5, ProtocolKept DEF WorkerPart
  <2>7. BlocksSent(v)'
    BY <1>3, <2>1, <2>2, <2>4, Dealt, BlocksSentKept DEF WorkerPart, Between
  <2>8. WorkerOK(v)'
    BY <1>3, <1>4, <1>5, <2>1, <2>2, <2>4, WorkerKept DEF WorkerPart
  <2>9. EventsSent(v)'
    BY <1>3, <1>4, <2>1, <2>2, <2>3, <2>4, EventsSentKept DEF WorkerPart
  <2>10. LastSentOK(v)'
    BY <2>1, <2>2, <2>3, <2>4, LastSentKept DEF WorkerPart
  <2>11. PassedOnSent(v)'
    BY <1>3, <1>4, <2>2, <2>4, PassedOnKept DEF WorkerPart
  <2> QED
    BY <2>2, <2>6, <2>7, <2>8, <2>9, <2>10, <2>11 DEF WorkerPart, Ended
<1>7. EndsLeftOK'
  BY <1>4, <1>6, EndsLeftKept DEF RawInv
<1>8. PassedOnWritten'
  BY <1>3, <1>4, WrittenKept DEF RawInv
<1>9. TypeOK' /\ FarmerControl'
  BY <1>1, <1>2 DEF TypeOK, FarmerOK, EndsTypeOK
<1>10. ASSUME NEW v \in Workers PROVE WorkerPart(v)'
  BY <1>6
<1>11. (file \in Files)'
  BY <1>4 DEF RawInv
<1> QED
  BY <1>1, <1>5, <1>7, <1>8, <1>9, <1>10, <1>11 DEF RawInv, WorkerPart

\* A step that sends the farmer nothing and does not end an event.
LEMMA StreamQuiet ==
    ASSUME RawInv, NEW w \in Workers, UNCHANGED <<dealerVars, farmerVars, outputVars>>,
           OthersWait(w), chan'[w][FarmerRank] = chan[w][FarmerRank],
           wpc[w] \notin {"sendData", "finalize"}, wpc'[w] \notin {"sendData", "finalize"}
    PROVE  /\ InPairs' /\ EventsSent(w)' /\ LastSentOK(w)'
           /\ (Ended(w)' <=> Ended(w))
<1>1. pos \in Nat /\ pos' = pos /\ pos <= pos' /\ file' = file
      /\ UNCHANGED <<fpc, fheader>>
  BY DEF RawInv, TypeOK, DealerTypeOK, dealerVars, farmerVars
<1>2. chan[w][FarmerRank] \in Seq(EventMessages)
  BY DEF RawInv, TypeOK, MessagesOK, StreamsOK
<1>3. \A v \in Workers : chan'[v][FarmerRank] = chan[v][FarmerRank]
  BY DEF OthersWait
<1>4. InPairs' /\ \A k \in Nat : Before(w, k)' = Before(w, k)
  BY <1>1, <1>3, StreamsKept DEF RawInv
<1>5. EventsSent(w)'
  BY <1>1, <1>2, <1>4, EventsSentKept DEF RawInv
<1>6. LastSent(w)' = LastSent(w)
  BY <1>1 DEF LastSent, Before
<1>7. LastSentOK(w)'
  BY <1>6 DEF RawInv, LastSentOK
<1> QED
  BY <1>4, <1>5, <1>7 DEF Ended

\* A step that adds a message to the stream of the farmer.
LEMMA StreamLonger ==
    ASSUME RawInv, NEW w \in Workers, UNCHANGED <<dealerVars, farmerVars, outputVars>>,
           OthersWait(w), NEW tag, NEW body, Longer(w, FarmerRank, tag, body),
           tag = "DATA" <=> LastSent(w).tag = "HEADER",
           LastSent(w).tag # "END",
           tag = "DATA" => /\ body \in 1 .. pos /\ file[body] = "physics"
                           /\ RightFor(LastSent(w).body, body)
    PROVE  /\ InPairs' /\ EventsSent(w)' /\ ~ Ended(w)'
           /\ LastSent(w)' = [tag |-> tag, body |-> body]
<1>0. PICK n \in Nat : n = Len(chan[w][FarmerRank])
  BY DEF Longer
<1>1. pos' = pos /\ file' = file /\ UNCHANGED <<fpc, fheader>>
  BY DEF dealerVars, farmerVars
<1>2. /\ n \in Nat /\ DOMAIN chan[w][FarmerRank] = 1 .. n
      /\ Len(chan'[w][FarmerRank]) = n + 1 /\ DOMAIN chan'[w][FarmerRank] = 1 .. n + 1
      /\ \A k \in 1 .. n : chan'[w][FarmerRank][k] = chan[w][FarmerRank][k]
      /\ chan'[w][FarmerRank][n + 1].tag = tag /\ chan'[w][FarmerRank][n + 1].body = body
  BY <1>0 DEF Longer
<1>3. ASSUME NEW k \in 1 .. n + 1 PROVE Before(w, k)' = Before(w, k)
  <2>1. k > 1 => k - 1 \in 1 .. n
    BY <1>2
  <2> QED
    BY <1>1, <1>2, <2>1 DEF Before
<1>4. LastSent(w) = Before(w, n + 1)
  BY <1>0 DEF LastSent
<1>5. LastSent(w)' = [tag |-> tag, body |-> body]
  <2>1. n + 1 + 1 > 1 /\ n + 1 + 1 - 1 = n + 1
    BY <1>2
  <2>2. LastSent(w)' = [tag |-> chan'[w][FarmerRank][n + 1].tag,
                        body |-> chan'[w][FarmerRank][n + 1].body]
    BY <1>2, <2>1 DEF LastSent, Before
  <2> QED
    BY <1>2, <2>2
<1>6. \A t, i : RightFor(t, i)' <=> RightFor(t, i)
  BY <1>1, NumKept
<1>7. EventsSent(w)'
  <2>1. SUFFICES ASSUME NEW k \in DOMAIN chan'[w][FarmerRank],
                        chan'[w][FarmerRank][k].tag = "DATA"
                 PROVE  /\ chan'[w][FarmerRank][k].body \in 1 .. pos'
                        /\ file'[chan'[w][FarmerRank][k].body] = "physics"
                        /\ RightFor(Before(w, k).body, chan[w][FarmerRank][k].body)'
    BY DEF EventsSent
  <2>2. Before(w, k)' = Before(w, k)
    BY <1>2, <1>3
  <2>3. /\ chan'[w][FarmerRank][k].body \in 1 .. pos
        /\ file[chan'[w][FarmerRank][k].body] = "physics"
        /\ RightFor(Before(w, k).body, chan'[w][FarmerRank][k].body)
    <3>1. CASE k \in 1 .. n
      <4>1. k \in DOMAIN chan[w][FarmerRank] /\ chan'[w][FarmerRank][k] = chan[w][FarmerRank][k]
        BY <1>2, <3>1
      <4> QED
        BY <2>1, <4>1 DEF RawInv, EventsSent
    <3>2. CASE k = n + 1
      BY <1>2, <1>4, <2>1, <3>2
    <3> QED
      BY <1>2, <3>1, <3>2
  <2> QED
    BY <1>1, <1>6, <2>2, <2>3
<1>8. InPairs'
  <2>1. SUFFICES ASSUME NEW v \in Workers, NEW k \in DOMAIN chan'[v][FarmerRank]
                 PROVE  /\ chan'[v][FarmerRank][k].tag = "DATA" <=> Before(v, k)'.tag = "HEADER"
                        /\ Before(v, k)'.tag # "END"
    BY DEF InPairs
  <2>2. CASE v # w
    <3>1. chan'[v][FarmerRank] = chan[v][FarmerRank]
      BY <2>2 DEF OthersWait
    <3>2. Before(v, k)' = Before(v, k)
      BY <1>1, <3>1 DEF Before
    <3> QED
      BY <3>1, <3>2 DEF RawInv, InPairs
  <2>3. CASE v = w /\ k \in 1 .. n
    <3>1. /\ k \in DOMAIN chan[w][FarmerRank] /\ Before(w, k)' = Before(w, k)
          /\ chan'[w][FarmerRank][k] = chan[w][FarmerRank][k]
      BY <1>2, <1>3, <2>3
    <3> QED
      BY <2>3, <3>1 DEF RawInv, InPairs
  <2>4. CASE v = w /\ k = n + 1
    <3>1. Before(w, n + 1)' = LastSent(w)
      BY <1>2, <1>3, <1>4
    <3> QED
      BY <1>2, <2>4, <3>1
  <2> QED
    BY <1>2, <2>2, <2>3, <2>4
<1>9. ~ Ended(w)'
  BY <1>2 DEF Ended
<1> QED
  BY <1>5, <1>7, <1>8, <1>9

\* Where worker w is, and its types.
LEMMA WorkerTypes ==
    ASSUME RawInv, NEW w \in Workers
    PROVE  /\ MessagesOK /\ Unused /\ WorkersTypeOK /\ WorkerPart(w)
           /\ pos \in Nat /\ file \in Seq(ItemKinds) /\ pos <= Len(file)
           /\ wblock[w] \in Block /\ wtrigger[w] \in Triggers
           /\ DOMAIN wpc = Workers /\ DOMAIN wblock = Workers /\ DOMAIN wtrigger = Workers
BY DEF RawInv, TypeOK, DealerTypeOK, WorkersTypeOK, WorkerPart

\* Nothing is on its way between a worker and the dealer.
LEMMA SilenceKept ==
    ASSUME RawInv, NEW w \in Workers, UNCHANGED dealerVars, Between(w),
           ~ Waiting(w), ~ Waiting(w)'
    PROVE  Protocol(w)' /\ BlocksSent(w)'
<1>1. Silent(w) /\ UNCHANGED <<dpc, dest>>
  BY DEF RawInv, Protocol, Waiting, dealerVars
<1>2. Silent(w)'
  BY <1>1 DEF Silent, Between, Served
<1> QED
  BY <1>2 DEF Protocol, Waiting, BlocksSent, Silent

LEMMA WorkerRequestInv ==
    ASSUME RawInv, NEW w \in Workers, WorkerRequest(w),
           UNCHANGED <<dealerVars, farmerVars, outputVars>>
    PROVE  RawInv'
<1>1. /\ wpc[w] = "request" /\ Send(w, DealerRank, "REQUEST", w)
      /\ wpc' = [wpc EXCEPT ![w] = "header"] /\ UNCHANGED <<wblock, wtrigger>>
  BY DEF WorkerRequest
<1>2. /\ MessagesOK' /\ Unused' /\ Longer(w, DealerRank, "REQUEST", w)
      /\ OthersKept(w, DealerRank)
  BY <1>1, WorkerTypes, RankFacts, TalkFacts, TalkSent
<1>3. OthersWait(w)
  BY <1>1, <1>2, RankFacts DEF OthersWait, OthersKept, Between
<1>4. WorkersTypeOK' /\ wpc'[w] = "header"
  BY <1>1, WorkerTypes DEF WorkersTypeOK
<1>5. /\ chan'[w][FarmerRank] = chan[w][FarmerRank]
      /\ chan'[w][OutputRank] = chan[w][OutputRank]
      /\ chan'[DealerRank][w] = chan[DealerRank][w]
  BY <1>2, RankFacts DEF OthersKept
<1>6. UNCHANGED <<file, dpc, pos, dest>>
  BY DEF dealerVars
<1>7. InPairs' /\ EventsSent(w)' /\ LastSentOK(w)' /\ (Ended(w)' <=> Ended(w))
  BY <1>1, <1>3, <1>4, <1>5, StreamQuiet
<1>8. Silent(w)
  BY <1>1 DEF RawInv, Protocol
<1>9. Asked(w)'
  BY <1>2, <1>5, <1>6, <1>8 DEF Silent, Longer, Asked, Served
<1>10. Protocol(w)' /\ BlocksSent(w)'
  BY <1>4, <1>9 DEF Protocol, Asked, BlocksSent
<1>11. WorkerOK(w)'
  BY <1>1, <1>4 DEF RawInv, WorkerOK, WorkerHolds
<1>12. PassedOnSent(w)'
  BY <1>5, <1>6 DEF RawInv, PassedOnSent
<1> QED
  BY <1>2, <1>3, <1>4, <1>7, <1>10, <1>11, <1>12, WorkerFrame DEF WorkerPart

LEMMA WorkerGetHeaderInv ==
    ASSUME RawInv, NEW w \in Workers, WorkerGetHeader(w),
           UNCHANGED <<dealerVars, farmerVars, outputVars>>
    PROVE  RawInv'
<1> DEFINE header == chan[DealerRank][w][1].body
<1>1. /\ wpc[w] = "header" /\ Arrived(DealerRank, w, {"HEADER"})
      /\ chan' = Received(DealerRank, w) /\ UNCHANGED wblock
  BY DEF WorkerGetHeader
<1>2. /\ MessagesOK' /\ Unused' /\ Shorter(DealerRank, w) /\ OthersKept(DealerRank, w)
      /\ chan[DealerRank][w][1].tag = "HEADER"
  <2>1. Talk(DealerRank, w) /\ DealerRank \in Ranks /\ w \in Ranks /\ MessagesOK /\ Unused
    BY WorkerTypes, RankFacts, TalkFacts
  <2>2. chan[DealerRank][w][1].tag \in {"HEADER"}
    BY <1>1, <2>1, TalkTaken
  <2> QED
    BY <1>1, <2>1, <2>2, TalkTaken
<1>3. /\ wpc' = [wpc EXCEPT ![w] = IF header.end THEN "end" ELSE "data"]
      /\ wtrigger' = [wtrigger EXCEPT ![w] = header.blockNum]
  BY <1>2 DEF WorkerGetHeader, FirstBody, Shorter
<1>4. header.end \in BOOLEAN /\ header.blockNum \in Triggers
  <2>1. 1 \in DOMAIN chan[DealerRank][w]
    BY <1>2 DEF Shorter
  <2> QED
    BY <1>2, <2>1, WorkerTypes, Dealt
<1>5. /\ wpc'[w] = (IF header.end THEN "end" ELSE "data") /\ wtrigger'[w] = header.blockNum
      /\ WorkersTypeOK'
  BY <1>1, <1>3, <1>4, WorkerTypes DEF WorkersTypeOK
<1>6. OthersWait(w)
  BY <1>1, <1>2, <1>3, RankFacts, WorkerTypes DEF OthersWait, OthersKept, Between
<1>7. /\ chan'[w][FarmerRank] = chan[w][FarmerRank]
      /\ chan'[w][OutputRank] = chan[w][OutputRank]
      /\ chan'[w][DealerRank] = chan[w][DealerRank]
  BY <1>2, RankFacts DEF OthersKept
<1>8. UNCHANGED <<file, dpc, pos, block, dest>>
  BY DEF dealerVars
<1>9. InPairs' /\ EventsSent(w)' /\ LastSentOK(w)' /\ (Ended(w)' <=> Ended(w))
  BY <1>1, <1>5, <1>6, <1>7, StreamQuiet
<1>10. PassedOnSent(w)'
  BY <1>7, <1>8 DEF RawInv, PassedOnSent
<1>11. \A t, i : RightFor(t, i)' <=> RightFor(t, i)
  BY <1>8, NumKept
<1>12. chan'[DealerRank][w] \in Seq(ToWorker)
  BY <1>2 DEF MessagesOK
<1>13. HeaderSent(w) \/ BothSent(w) \/ EndSent(w)
  <2>1. Protocol(w) /\ Len(chan[DealerRank][w]) > 0
    BY <1>2 DEF RawInv, Shorter
  <2> QED
    BY <1>1, <2>1 DEF Protocol, Asked, HeaderDue
<1>14. BlocksSent(w)'
  <2>1. SUFFICES ASSUME NEW k \in DOMAIN chan'[DealerRank][w],
                        chan'[DealerRank][w][k].tag = "DATA"
                 PROVE  WithinRead(chan[DealerRank][w][k].body)'
    BY DEF BlocksSent
  <2>2. k + 1 \in DOMAIN chan[DealerRank][w]
        /\ chan'[DealerRank][w][k] = chan[DealerRank][w][k + 1]
    BY <1>2 DEF Shorter
  <2>3. WithinRead(chan[DealerRank][w][k + 1].body)
    BY <2>1, <2>2 DEF RawInv, BlocksSent
  <2> QED
    BY <1>8, <2>2, <2>3 DEF WithinRead
<1>15. Protocol(w)' /\ WorkerOK(w)'
  <2>1. ~ WorkerHolds(w) /\ ~ WorkerHolds(w)'
    BY <1>1, <1>5 DEF WorkerHolds
  <2>2. WorkerOK(w)' \/ header.end
    BY <1>1, <1>5, <2>1 DEF RawInv, WorkerOK
  <2>3. CASE HeaderSent(w)
    <3>1. chan'[DealerRank][w] = <<>> /\ ~ header.end
      BY <1>2, <1>12, <2>3 DEF HeaderSent, Shorter
    <3>2. RightFor(wtrigger[w], block.first)'
      BY <1>5, <1>8, <1>11, <2>3 DEF HeaderSent
    <3>3. DataDue(w)'
      BY <1>7, <1>8, <2>3, <3>1, <3>2 DEF HeaderSent, DataDue, Served
    <3> QED
      BY <1>5, <2>2, <3>1, <3>3 DEF Protocol
  <2>4. CASE BothSent(w)
    <3>1. /\ Len(chan'[DealerRank][w]) = 1 /\ ~ header.end
          /\ chan'[DealerRank][w][1] = chan[DealerRank][w][2]
      BY <1>2, <2>4 DEF BothSent, Shorter
    <3>2. RightFor(wtrigger[w], chan[DealerRank][w][1].body.first)'
      BY <1>5, <1>11, <2>4, <3>1 DEF BothSent
    <3>3. DataSent(w)'
      BY <1>7, <1>8, <2>4, <3>1, <3>2 DEF BothSent, DataSent, Served
    <3> QED
      BY <1>5, <2>2, <3>1, <3>3 DEF Protocol
  <2>5. CASE EndSent(w)
    <3>1. chan'[DealerRank][w] = <<>> /\ header.end
      BY <1>2, <1>12, <2>5 DEF EndSent, Shorter
    <3>2. Silent(w)' /\ Over'
      BY <1>7, <1>8, <2>5, <3>1 DEF EndSent, Silent, Served, Over
    <3>3. WorkerOK(w)'
      BY <1>1, <1>5, <2>1, <3>1, <3>2 DEF RawInv, WorkerOK
    <3> QED
      BY <1>5, <3>1, <3>2, <3>3 DEF Protocol
  <2> QED
    BY <1>13, <2>3, <2>4, <2>5
<1> QED
  BY <1>2, <1>5, <1>6, <1>9, <1>10, <1>14, <1>15, WorkerFrame DEF WorkerPart

LEMMA WorkerGetDataInv ==
    ASSUME RawInv, NEW w \in Workers, WorkerGetData(w),
           UNCHANGED <<dealerVars, farmerVars, outputVars>>
    PROVE  RawInv'
<1> DEFINE taken == chan[DealerRank][w][1].body
<1>1. /\ wpc[w] = "data" /\ Arrived(DealerRank, w, {"DATA"})
      /\ chan' = Received(DealerRank, w)
      /\ wpc' = [wpc EXCEPT ![w] = "process"] /\ UNCHANGED wtrigger
  BY DEF WorkerGetData
<1>2. /\ MessagesOK' /\ Unused' /\ Shorter(DealerRank, w) /\ OthersKept(DealerRank, w)
      /\ chan[DealerRank][w][1].tag = "DATA"
  <2>1. Talk(DealerRank, w) /\ DealerRank \in Ranks /\ w \in Ranks /\ MessagesOK /\ Unused
    BY WorkerTypes, RankFacts, TalkFacts
  <2>2. chan[DealerRank][w][1].tag \in {"DATA"}
    BY <1>1, <2>1, TalkTaken
  <2> QED
    BY <1>1, <2>1, <2>2, TalkTaken
<1>3. wblock' = [wblock EXCEPT ![w] = taken]
  BY <1>2 DEF WorkerGetData, FirstBody, Shorter
<1>4. taken \in Block /\ WithinRead(taken)
  <2>1. 1 \in DOMAIN chan[DealerRank][w]
    BY <1>2 DEF Shorter
  <2> QED
    BY <1>2, <2>1, WorkerTypes, Dealt DEF WorkerPart, BlocksSent
<1>5. wpc'[w] = "process" /\ wblock'[w] = taken /\ WorkersTypeOK'
  BY <1>1, <1>3, <1>4, WorkerTypes DEF WorkersTypeOK
<1>6. OthersWait(w)
  BY <1>1, <1>2, <1>3, RankFacts, WorkerTypes DEF OthersWait, OthersKept, Between
<1>7. /\ chan'[w][FarmerRank] = chan[w][FarmerRank]
      /\ chan'[w][OutputRank] = chan[w][OutputRank]
      /\ chan'[w][DealerRank] = chan[w][DealerRank]
  BY <1>2, RankFacts DEF OthersKept
<1>8. UNCHANGED <<file, dpc, pos, block, dest>>
  BY DEF dealerVars
<1>9. InPairs' /\ EventsSent(w)' /\ LastSentOK(w)' /\ (Ended(w)' <=> Ended(w))
  BY <1>1, <1>5, <1>6, <1>7, StreamQuiet
<1>10. PassedOnSent(w)'
  BY <1>7, <1>8 DEF RawInv, PassedOnSent
<1>11. \A t, i : RightFor(t, i)' <=> RightFor(t, i)
  BY <1>8, NumKept
<1>12. DataSent(w)
  <2>1. Protocol(w) /\ Len(chan[DealerRank][w]) > 0
    BY <1>2 DEF RawInv, Shorter
  <2> QED
    BY <1>1, <2>1 DEF Protocol, DataDue
<1>13. Silent(w)' /\ Protocol(w)' /\ BlocksSent(w)'
  <2>1. chan'[DealerRank][w] = <<>>
    BY <1>2, <1>12 DEF MessagesOK, DataSent, Shorter
  <2>2. Silent(w)'
    BY <1>7, <1>8, <1>12, <2>1 DEF DataSent, Silent, Served
  <2> QED
    BY <1>5, <2>1, <2>2 DEF Protocol, BlocksSent
<1>14. WorkerOK(w)'
  <2>1. RightFor(wtrigger[w], wblock[w].first)'
    BY <1>1, <1>5, <1>11, <1>12 DEF DataSent
  <2>2. WithinRead(wblock[w])'
    BY <1>4, <1>5, <1>8 DEF WithinRead
  <2> QED
    BY <1>5, <2>1, <2>2 DEF WorkerOK, WorkerHolds
<1> QED
  BY <1>2, <1>5, <1>6, <1>9, <1>10, <1>13, <1>14, WorkerFrame DEF WorkerPart

LEMMA NextItemOK ==
    ASSUME RawInv, NEW w \in Workers, WorkerHolds(w), NextItem(w), UNCHANGED dealerVars,
           NEW t, wtrigger'[w] = t, RightFor(t, wblock[w].first + 1)
    PROVE  /\ WorkerOK(w)' /\ wpc'[w] \in {"process", "request"}
           /\ wpc' \in [Workers -> {"request", "header", "data", "process", "sendData",
                                    "forwardData", "end", "finalize"}]
           /\ wblock' \in [Workers -> Block]
           /\ \A v \in Workers \ {w} : UNCHANGED <<wpc[v], wblock[v]>>
<1>1. /\ wblock' = [wblock EXCEPT ![w].first = @ + 1]
      /\ wpc' = [wpc EXCEPT ![w] =
                    IF wblock[w].first < wblock[w].last THEN "process" ELSE "request"]
  BY DEF NextItem
<1>2. PICK a \in Nat \ {0}, b \in Nat : /\ a = wblock[w].first /\ b = wblock[w].last
                                       /\ a <= b /\ b <= pos
                                       /\ wblock[w] = [first |-> a, last |-> b]
  BY WorkerTypes DEF WorkerPart, WorkerOK, WithinRead, Block
<1>3. /\ wblock'[w] = [first |-> a + 1, last |-> b]
      /\ wpc'[w] = (IF a < b THEN "process" ELSE "request")
      /\ wblock' \in [Workers -> Block]
      /\ wpc' \in [Workers -> {"request", "header", "data", "process", "sendData",
                               "forwardData", "end", "finalize"}]
  BY <1>1, <1>2, WorkerTypes DEF WorkersTypeOK, Block
<1>4. pos' = pos /\ file' = file /\ UNCHANGED dpc
  BY DEF dealerVars
<1>5. RightFor(wtrigger[w], wblock[w].first)'
  <2>1. RightFor(t, a + 1)
    BY <1>2
  <2>2. RightFor(t, a + 1)'
    BY <1>4, <2>1, NumKept
  <2> QED
    BY <1>3, <2>2
<1>6. WorkerOK(w)'
  <2>1. CASE a < b
    <3>1. WithinRead(wblock[w])'
      BY <1>2, <1>3, <1>4, <2>1 DEF WithinRead
    <3> QED
      BY <1>3, <1>5, <2>1, <3>1 DEF WorkerOK, WorkerHolds
  <2>2. CASE ~ (a < b)
    <3>1. wblock'[w].first > wblock'[w].last
      BY <1>2, <1>3, <2>2
    <3> QED
      BY <1>3, <2>2, <3>1 DEF WorkerOK, WorkerHolds
  <2> QED
    BY <2>1, <2>2
<1> QED
  BY <1>1, <1>3, <1>6, WorkerTypes

LEMMA PassedOnLonger ==
    ASSUME RawInv, NEW w \in Workers, NEW tag, NEW body, Longer(w, OutputRank, tag, body),
           pos' = pos, file' = file,
           tag = "DATA" => body \in 1 .. pos /\ file[body] = "other"
    PROVE  PassedOnSent(w)'
<1>1. PassedOnSent(w)
  BY DEF RawInv
<1>2. ASSUME NEW k \in DOMAIN chan'[w][OutputRank], chan'[w][OutputRank][k].tag = "DATA"
      PROVE  /\ chan'[w][OutputRank][k].body \in 1 .. pos
             /\ file[chan'[w][OutputRank][k].body] = "other"
  <2>1. CASE k \in 1 .. Len(chan[w][OutputRank])
    <3>1. k \in DOMAIN chan[w][OutputRank] /\ chan'[w][OutputRank][k] = chan[w][OutputRank][k]
      BY <2>1 DEF Longer
    <3> QED
      BY <1>1, <1>2, <3>1 DEF PassedOnSent
  <2>2. CASE k = Len(chan[w][OutputRank]) + 1
    BY <1>2, <2>2 DEF Longer
  <2> QED
    BY <2>1, <2>2 DEF Longer
<1> QED
  BY <1>2 DEF PassedOnSent

LEMMA WorkerForwardHeaderInv ==
    ASSUME RawInv, NEW w \in Workers, WorkerForwardHeader(w),
           UNCHANGED <<dealerVars, farmerVars, outputVars>>
    PROVE  RawInv'
<1>1. /\ wpc[w] = "process" /\ file[wblock[w].first] = "other"
      /\ Send(w, OutputRank, "PASSTHROUGH", 0)
      /\ wpc' = [wpc EXCEPT ![w] = "forwardData"] /\ UNCHANGED <<wblock, wtrigger>>
  BY DEF WorkerForwardHeader
<1>2. /\ MessagesOK' /\ Unused' /\ Longer(w, OutputRank, "PASSTHROUGH", 0)
      /\ OthersKept(w, OutputRank)
  <2>1. Talk(w, OutputRank) /\ OutputRank \in Ranks /\ w \in Ranks /\ MessagesOK /\ Unused
    BY WorkerTypes, RankFacts, TalkFacts
  <2>2. Message("PASSTHROUGH", {0}) \subseteq Kind(w, OutputRank)
    BY TalkFacts DEF PassedOn
  <2> QED
    BY <1>1, <2>1, <2>2, TalkSent
<1>3. OthersWait(w)
  BY <1>1, <1>2, RankFacts DEF OthersWait, OthersKept, Between
<1>4. WorkersTypeOK' /\ wpc'[w] = "forwardData"
  BY <1>1, WorkerTypes DEF WorkersTypeOK
<1>5. /\ chan'[w][FarmerRank] = chan[w][FarmerRank]
      /\ Between(w)
  BY <1>2, RankFacts DEF OthersKept, Between
<1>6. UNCHANGED <<file, dpc, pos, dest>>
  BY DEF dealerVars
<1>7. InPairs' /\ EventsSent(w)' /\ LastSentOK(w)' /\ (Ended(w)' <=> Ended(w))
  BY <1>1, <1>3, <1>4, <1>5, StreamQuiet
<1>8. Protocol(w)' /\ BlocksSent(w)'
  BY <1>1, <1>4, <1>5, SilenceKept DEF Waiting
<1>9. WorkerOK(w)'
  <2>1. \A t, i : RightFor(t, i)' <=> RightFor(t, i)
    BY <1>6, NumKept
  <2> QED
    BY <1>1, <1>4, <1>6, <2>1 DEF RawInv, WorkerOK, WorkerHolds, WithinRead
<1>10. PassedOnSent(w)'
  <2>1. "PASSTHROUGH" # "DATA"
    OBVIOUS
  <2> QED
    BY <1>2, <1>6, <2>1, PassedOnLonger
<1> QED
  BY <1>2, <1>3, <1>4, <1>7, <1>8, <1>9, <1>10, WorkerFrame DEF WorkerPart

LEMMA WorkerForwardDataInv ==
    ASSUME RawInv, NEW w \in Workers, WorkerForwardData(w),
           UNCHANGED <<dealerVars, farmerVars, outputVars>>
    PROVE  RawInv'
<1>0. PICK i : i = wblock[w].first
  OBVIOUS
<1>1. /\ wpc[w] = "forwardData" /\ Send(w, OutputRank, "DATA", i)
      /\ NextItem(w) /\ UNCHANGED wtrigger
  BY <1>0 DEF WorkerForwardData
<1>2. i \in 1 .. pos /\ file[i] = "other" /\ RightFor(wtrigger[w], i) /\ i \in Nat \ {0}
  BY <1>0, <1>1, WorkerTypes DEF WorkerPart, WorkerOK, WorkerHolds, WithinRead, Block
<1>3. i \in Events
  <2>1. i \in 1 .. Len(file)
    BY <1>2, WorkerTypes
  <2> QED
    BY <2>1, RawAssumption DEF RawInv
<1>4. /\ MessagesOK' /\ Unused' /\ Longer(w, OutputRank, "DATA", i)
      /\ OthersKept(w, OutputRank)
  <2>1. Talk(w, OutputRank) /\ OutputRank \in Ranks /\ w \in Ranks /\ MessagesOK /\ Unused
    BY WorkerTypes, RankFacts, TalkFacts
  <2>2. Message("DATA", {i}) \subseteq Kind(w, OutputRank)
    BY <1>3, TalkFacts DEF PassedOn, Message
  <2> QED
    BY <1>1, <2>1, <2>2, TalkSent
<1>5. /\ WorkerOK(w)' /\ wpc'[w] \in {"process", "request"} /\ WorkersTypeOK'
      /\ \A v \in Workers \ {w} : UNCHANGED <<wpc[v], wblock[v]>>
  <2>1. PICK t \in Triggers : t = wtrigger[w]
    BY WorkerTypes
  <2>2. RightFor(t, i + 1)
    BY <1>2, <2>1, NextIsRight, WorkerTypes
  <2>3. WorkerHolds(w) /\ wtrigger'[w] = t
    BY <1>1, <2>1 DEF WorkerHolds
  <2> QED
    BY <1>0, <1>1, <2>2, <2>3, NextItemOK, WorkerTypes DEF WorkersTypeOK
<1>6. OthersWait(w)
  BY <1>1, <1>4, <1>5, RankFacts DEF OthersWait, OthersKept, Between
<1>7. /\ chan'[w][FarmerRank] = chan[w][FarmerRank]
      /\ Between(w)
  BY <1>4, RankFacts DEF OthersKept, Between
<1>8. UNCHANGED <<file, dpc, pos, dest>>
  BY DEF dealerVars
<1>9. InPairs' /\ EventsSent(w)' /\ LastSentOK(w)' /\ (Ended(w)' <=> Ended(w))
  BY <1>1, <1>5, <1>6, <1>7, StreamQuiet
<1>10. Protocol(w)' /\ BlocksSent(w)'
  BY <1>1, <1>5, <1>7, SilenceKept DEF Waiting
<1>11. PassedOnSent(w)'
  BY <1>2, <1>4, <1>8, PassedOnLonger
<1> QED
  BY <1>4, <1>5, <1>6, <1>9, <1>10, <1>11, WorkerFrame DEF WorkerPart

LEMMA WorkerSendHeaderInv ==
    ASSUME RawInv, NEW w \in Workers, WorkerSendHeader(w),
           UNCHANGED <<dealerVars, farmerVars, outputVars>>
    PROVE  RawInv'
<1>0. PICK t \in Triggers : t = wtrigger[w]
  BY WorkerTypes
<1>1. /\ wpc[w] = "process" /\ file[wblock[w].first] = "physics"
      /\ Send(w, FarmerRank, "HEADER", t)
      /\ wpc' = [wpc EXCEPT ![w] = "sendData"] /\ UNCHANGED <<wblock, wtrigger>>
  BY <1>0 DEF WorkerSendHeader
<1>2. /\ MessagesOK' /\ Unused' /\ Longer(w, FarmerRank, "HEADER", t)
      /\ OthersKept(w, FarmerRank)
  <2>1. Talk(w, FarmerRank) /\ FarmerRank \in Ranks /\ w \in Ranks /\ MessagesOK /\ Unused
    BY WorkerTypes, RankFacts, TalkFacts
  <2>2. Message("HEADER", {t}) \subseteq Kind(w, FarmerRank)
    BY TalkFacts DEF EventMessages, Message
  <2> QED
    BY <1>1, <2>1, <2>2, TalkSent
<1>3. OthersWait(w)
  BY <1>1, <1>2, RankFacts DEF OthersWait, OthersKept, Between
<1>4. WorkersTypeOK' /\ wpc'[w] = "sendData"
  BY <1>1, WorkerTypes DEF WorkersTypeOK
<1>5. chan'[w][OutputRank] = chan[w][OutputRank] /\ Between(w)
  BY <1>2, RankFacts DEF OthersKept, Between
<1>6. UNCHANGED <<file, dpc, pos, dest>>
  BY DEF dealerVars
<1>7. LastSent(w).tag # "HEADER" /\ LastSent(w).tag # "END"
  BY <1>1 DEF RawInv, LastSentOK
<1>8. InPairs' /\ EventsSent(w)' /\ ~ Ended(w)' /\ LastSent(w)' = [tag |-> "HEADER", body |-> t]
  BY <1>2, <1>3, <1>7, StreamLonger
<1>9. LastSentOK(w)' /\ (Ended(w)' <=> Ended(w))
  BY <1>0, <1>1, <1>4, <1>8 DEF LastSentOK, Ended
<1>10. Protocol(w)' /\ BlocksSent(w)'
  BY <1>1, <1>4, <1>5, SilenceKept DEF Waiting
<1>11. WorkerOK(w)'
  <2>1. \A n, i : RightFor(n, i)' <=> RightFor(n, i)
    BY <1>6, NumKept
  <2> QED
    BY <1>1, <1>4, <1>6, <2>1 DEF RawInv, WorkerOK, WorkerHolds, WithinRead
<1>12. PassedOnSent(w)'
  BY <1>5, <1>6 DEF RawInv, PassedOnSent
<1> QED
  BY <1>2, <1>3, <1>4, <1>8, <1>9, <1>10, <1>11, <1>12, WorkerFrame DEF WorkerPart

LEMMA WorkerSendDataInv ==
    ASSUME RawInv, NEW w \in Workers, WorkerSendData(w),
           UNCHANGED <<dealerVars, farmerVars, outputVars>>
    PROVE  RawInv'
<1>0. PICK i : i = wblock[w].first
  OBVIOUS
<1>t. PICK t \in Triggers : t = wtrigger[w]
  BY WorkerTypes
<1>1. /\ wpc[w] = "sendData" /\ Send(w, FarmerRank, "DATA", i)
      /\ NextItem(w) /\ wtrigger' = [wtrigger EXCEPT ![w] = NextTrigger(@)]
  BY <1>0, <1>t DEF WorkerSendData
<1>2. i \in 1 .. pos /\ file[i] = "physics" /\ RightFor(t, i) /\ i \in Nat \ {0}
  BY <1>0, <1>t, <1>1, WorkerTypes DEF WorkerPart, WorkerOK, WorkerHolds, WithinRead, Block
<1>3. i \in Events
  <2>1. i \in 1 .. Len(file)
    BY <1>2, WorkerTypes
  <2> QED
    BY <2>1, RawAssumption DEF RawInv
<1>4. /\ MessagesOK' /\ Unused' /\ Longer(w, FarmerRank, "DATA", i)
      /\ OthersKept(w, FarmerRank)
  <2>1. Talk(w, FarmerRank) /\ FarmerRank \in Ranks /\ w \in Ranks /\ MessagesOK /\ Unused
    BY WorkerTypes, RankFacts, TalkFacts
  <2>2. Message("DATA", {i}) \subseteq Kind(w, FarmerRank)
    BY <1>3, TalkFacts DEF EventMessages, Message
  <2> QED
    BY <1>1, <2>1, <2>2, TalkSent
<1>5. /\ wtrigger'[w] = NextTrigger(t) /\ wtrigger' \in [Workers -> Triggers]
      /\ \A v \in Workers \ {w} : wtrigger'[v] = wtrigger[v]
  BY <1>0, <1>t, <1>1, WorkerTypes, MaxTriggerAssumption DEF WorkersTypeOK, NextTrigger, Triggers
<1>6. /\ WorkerOK(w)' /\ wpc'[w] \in {"process", "request"} /\ WorkersTypeOK'
      /\ \A v \in Workers \ {w} : UNCHANGED <<wpc[v], wblock[v]>>
  <2>1. RightFor(NextTrigger(t), i + 1)
    BY <1>2, NextIsRight, WorkerTypes
  <2>2. WorkerHolds(w)
    BY <1>1 DEF WorkerHolds
  <2> QED
    BY <1>0, <1>t, <1>1, <1>5, <2>1, <2>2, NextItemOK DEF WorkersTypeOK
<1>7. OthersWait(w)
  BY <1>4, <1>5, <1>6, RankFacts DEF OthersWait, OthersKept, Between
<1>8. chan'[w][OutputRank] = chan[w][OutputRank] /\ Between(w)
  BY <1>4, RankFacts DEF OthersKept, Between
<1>9. UNCHANGED <<file, dpc, pos, dest>>
  BY DEF dealerVars
<1>10. LastSent(w).tag = "HEADER" /\ LastSent(w).body = t
  BY <1>0, <1>t, <1>1 DEF RawInv, LastSentOK
<1>11. InPairs' /\ EventsSent(w)' /\ ~ Ended(w)' /\ LastSent(w)' = [tag |-> "DATA", body |-> i]
  BY <1>2, <1>4, <1>7, <1>10, StreamLonger
<1>12. LastSentOK(w)' /\ (Ended(w)' <=> Ended(w))
  BY <1>1, <1>6, <1>11 DEF LastSentOK, Ended
<1>13. Protocol(w)' /\ BlocksSent(w)'
  BY <1>1, <1>6, <1>8, SilenceKept DEF Waiting
<1>14. PassedOnSent(w)'
  BY <1>8, <1>9 DEF RawInv, PassedOnSent
<1> QED
  BY <1>4, <1>6, <1>7, <1>11, <1>12, <1>13, <1>14, WorkerFrame DEF WorkerPart

LEMMA WorkerSendEndInv ==
    ASSUME RawInv, NEW w \in Workers, WorkerSendEnd(w),
           UNCHANGED <<dealerVars, farmerVars, outputVars>>
    PROVE  RawInv'
<1>1. /\ wpc[w] = "end" /\ Send(w, FarmerRank, "END", 0)
      /\ wpc' = [wpc EXCEPT ![w] = "finalize"] /\ UNCHANGED <<wblock, wtrigger>>
  BY DEF WorkerSendEnd
<1>2. /\ MessagesOK' /\ Unused' /\ Longer(w, FarmerRank, "END", 0)
      /\ OthersKept(w, FarmerRank)
  <2>1. Talk(w, FarmerRank) /\ FarmerRank \in Ranks /\ w \in Ranks /\ MessagesOK /\ Unused
    BY WorkerTypes, RankFacts, TalkFacts
  <2>2. Message("END", {0}) \subseteq Kind(w, FarmerRank)
    BY TalkFacts DEF EventMessages
  <2> QED
    BY <1>1, <2>1, <2>2, TalkSent
<1>3. OthersWait(w)
  BY <1>1, <1>2, RankFacts DEF OthersWait, OthersKept, Between
<1>4. WorkersTypeOK' /\ wpc'[w] = "finalize"
  BY <1>1, WorkerTypes DEF WorkersTypeOK
<1>5. chan'[w][OutputRank] = chan[w][OutputRank] /\ Between(w)
  BY <1>2, RankFacts DEF OthersKept, Between
<1>6. UNCHANGED <<file, dpc, pos, dest>>
  BY DEF dealerVars
<1>7. LastSent(w).tag # "HEADER" /\ LastSent(w).tag # "END"
  BY <1>1 DEF RawInv, LastSentOK
<1>8. InPairs' /\ EventsSent(w)' /\ ~ Ended(w)' /\ LastSent(w)' = [tag |-> "END", body |-> 0]
  BY <1>2, <1>3, <1>7, StreamLonger
<1>9. LastSentOK(w)' /\ (Ended(w)' <=> Ended(w))
  BY <1>1, <1>4, <1>8 DEF LastSentOK, Ended
<1>10. Protocol(w)' /\ BlocksSent(w)'
  BY <1>1, <1>4, <1>5, SilenceKept DEF Waiting
<1>11. WorkerOK(w)'
  BY <1>1, <1>4, <1>6 DEF RawInv, WorkerOK, WorkerHolds, Over
<1>12. PassedOnSent(w)'
  BY <1>5, <1>6 DEF RawInv, PassedOnSent
<1> QED
  BY <1>2, <1>3, <1>4, <1>8, <1>9, <1>10, <1>11, <1>12, WorkerFrame DEF WorkerPart

LEMMA WorkerInv ==
    ASSUME RawInv, NEW w \in Workers, WorkerStep(w)
    PROVE  RawInv'
<1>1. WorkerNext(w) /\ UNCHANGED <<dealerVars, farmerVars, outputVars>>
  BY DEF WorkerStep
<1> QED
  BY <1>1, WorkerRequestInv, WorkerGetHeaderInv, WorkerGetDataInv, WorkerSendHeaderInv,
     WorkerSendDataInv, WorkerForwardHeaderInv, WorkerForwardDataInv, WorkerSendEndInv
  DEF WorkerNext
-----------------------------------------------------------------------------
(***************************************************************************)
(* The steps of the farmer.                                                *)
(***************************************************************************)
LEMMA FarmerFrame ==
    ASSUME RawInv, FarmerNext, UNCHANGED <<dealerVars, workerVars, outputVars>>,
           MessagesOK', Unused',
           \A w \in Workers : Between(w) /\ chan'[w][OutputRank] = chan[w][OutputRank],
           InPairs', \A w \in Workers : EventsSent(w)' /\ LastSentOK(w)', EndsLeftOK'
    PROVE  RawInv'
<1>1. FarmerOK' /\ Delivery'
  BY RawInvFarmer, FarmerDelivers
<1>2. DealerTypeOK' /\ WorkersTypeOK'
  BY DEF RawInv, TypeOK, DealerTypeOK, dealerVars, WorkersTypeOK, workerVars
<1>3. pos \in Nat /\ pos' = pos /\ pos <= pos'
  BY DEF RawInv, TypeOK, DealerTypeOK, dealerVars
<1>4. /\ UNCHANGED <<wpc, wblock, wtrigger, written>>
      /\ UNCHANGED <<file, dpc, block, firstTrigger, dest, eofsLeft>>
  BY DEF workerVars, outputVars, dealerVars
<1>5. DealerOK' /\ (Over => Over')
  <2>1. \A t, i : RightFor(t, i)' <=> RightFor(t, i)
    BY <1>4, NumKept
  <2> QED
    BY <1>3, <1>4, <2>1 DEF RawInv, DealerOK, DealerHolds, WithinRead, Over
<1>6. ASSUME NEW v \in Workers
      PROVE  Protocol(v)' /\ BlocksSent(v)' /\ WorkerOK(v)' /\ PassedOnSent(v)'
  <2>1. MessagesOK /\ WorkerPart(v) /\ wblock[v] \in Block
    BY WorkerTypes
  <2>2. UNCHANGED <<wpc[v], wblock[v], wtrigger[v]>> /\ Between(v)
    BY <1>4
  <2>3. Served(v)' <=> Served(v)
    BY <1>4 DEF Served
  <2>4. Protocol(v)'
    BY <1>4, <1>5, <2>1, <2>2, <2>3, ProtocolKept DEF WorkerPart
  <2>5. BlocksSent(v)'
    BY <1>3, <2>1, <2>2, Dealt, BlocksSentKept DEF WorkerPart, Between
  <2>6. WorkerOK(v)'
    BY <1>3, <1>4, <1>5, <2>1, <2>2, WorkerKept DEF WorkerPart
  <2>7. PassedOnSent(v)'
    BY <1>3, <1>4, <2>1, PassedOnKept DEF WorkerPart
  <2> QED
    BY <2>4, <2>5, <2>6, <2>7
<1>7. PassedOnWritten'
  BY <1>3, <1>4, WrittenKept DEF RawInv
<1>8. TypeOK' /\ FarmerControl'
  BY <1>1, <1>2 DEF TypeOK, FarmerOK, EndsTypeOK
<1>9. (file \in Files)'
  BY <1>4 DEF RawInv
<1> QED
  BY <1>1, <1>5, <1>6, <1>7, <1>8, <1>9 DEF RawInv

\* The farmer takes a message from worker w.
LEMMA StreamShorter ==
    ASSUME RawInv, UNCHANGED <<dealerVars, workerVars, outputVars>>,
           NEW w \in Workers, NEW tag \in {"HEADER", "DATA", "END"}, StreamTaken(w, tag)
    PROVE  /\ MessagesOK' /\ Unused' /\ InPairs'
           /\ \A v \in Workers : /\ Between(v) /\ chan'[v][OutputRank] = chan[v][OutputRank]
                                 /\ EventsSent(v)' /\ LastSentOK(v)'
           /\ \A v \in Workers \ {w} : Ended(v)' <=> Ended(v)
           /\ Ended(w)' <=> tag = "END"
           /\ ~ Ended(w)
<1>1. /\ Talk(w, FarmerRank) /\ FarmerRank \in Ranks /\ w \in Ranks /\ MessagesOK /\ Unused
      /\ WorkerPart(w)
  BY WorkerTypes, RankFacts, TalkFacts
<1>2. Takes(w, FarmerRank)
  BY DEF StreamTaken
<1>3. TalkOK
  BY <1>1, TalkIsMessages
<1>4. /\ chan'[w][FarmerRank] \in Seq(Kind(w, FarmerRank)) /\ Shorter(w, FarmerRank)
      /\ OthersKept(w, FarmerRank) /\ Channels'
  BY <1>1, <1>2, <1>3, TakenFrom DEF TalkOK
<1>5. TalkOK'
  <2>1. ASSUME NEW c \in Ranks, NEW d \in Ranks
        PROVE  IF Talk(c, d) THEN chan'[c][d] \in Seq(Kind(c, d)) ELSE chan'[c][d] = <<>>
    <3>1. CASE c = w /\ d = FarmerRank
      BY <1>1, <1>4, <3>1
    <3>2. CASE c # w \/ d # FarmerRank
      BY <1>3, <1>4, <3>2 DEF TalkOK, OthersKept
    <3> QED
      BY <3>1, <3>2
  <2> QED
    BY <1>4, <2>1 DEF TalkOK
<1>6. MessagesOK' /\ Unused'
  BY <1>5, TalkIsMessages, PTL
<1>7. InPairs'
  BY RawInvFarmer, TakenInPairs DEF RawInv
<1>8. \A v \in Workers : /\ Between(v) /\ chan'[v][OutputRank] = chan[v][OutputRank]
                         /\ v # w => chan'[v][FarmerRank] = chan[v][FarmerRank]
  BY <1>4, RankFacts DEF OthersKept, Between
<1>9. pos \in Nat /\ pos' = pos /\ pos <= pos' /\ file' = file
      /\ UNCHANGED <<wpc, wtrigger>>
  BY WorkerTypes DEF dealerVars, workerVars
<1>10. \A t, i : RightFor(t, i)' <=> RightFor(t, i)
  BY <1>9, NumKept
<1>11. ASSUME NEW v \in Workers \ {w}
       PROVE  EventsSent(v)' /\ LastSentOK(v)' /\ (Ended(v)' <=> Ended(v))
  <2>1. \A k \in Nat \ {0} : Before(v, k)' = Before(v, k)
    BY DEF StreamTaken
  <2>2. chan[v][FarmerRank] \in Seq(EventMessages) /\ chan'[v][FarmerRank] = chan[v][FarmerRank]
    BY <1>1, <1>8 DEF MessagesOK, StreamsOK
  <2>3. EventsSent(v) /\ LastSentOK(v)
    BY DEF RawInv
  <2>4. EventsSent(v)'
    BY <1>9, <2>1, <2>2, <2>3, EventsSentKept
  <2>5. LastSentOK(v)'
    BY <1>9, <2>1, <2>2, <2>3, LastSentKept
  <2> QED
    BY <1>9, <2>2, <2>4, <2>5 DEF Ended
<1>12. PICK n \in Nat \ {0} : n = Len(chan[w][FarmerRank])
  BY <1>4 DEF Shorter
<1>13. /\ DOMAIN chan[w][FarmerRank] = 1 .. n
       /\ Len(chan'[w][FarmerRank]) = n - 1 /\ DOMAIN chan'[w][FarmerRank] = 1 .. n - 1
       /\ \A k \in 1 .. n - 1 : chan'[w][FarmerRank][k] = chan[w][FarmerRank][k + 1]
       /\ chan[w][FarmerRank][1].tag = tag
  BY <1>4, <1>12 DEF Shorter, StreamTaken
<1>14. \A k \in 1 .. n :
          \/ Before(w, k)' = Before(w, k + 1)
          \/ k = 1 /\ tag # "HEADER" /\ Before(w, k)'.tag = "none" /\ Before(w, k + 1).tag = tag
  BY <1>12 DEF StreamTaken
<1>15. EventsSent(w)'
  <2>1. SUFFICES ASSUME NEW k \in DOMAIN chan'[w][FarmerRank],
                        chan'[w][FarmerRank][k].tag = "DATA"
                 PROVE  /\ chan'[w][FarmerRank][k].body \in 1 .. pos'
                        /\ file'[chan'[w][FarmerRank][k].body] = "physics"
                        /\ RightFor(Before(w, k).body, chan[w][FarmerRank][k].body)'
    BY DEF EventsSent
  <2>2. /\ k \in 1 .. n /\ k + 1 \in DOMAIN chan[w][FarmerRank]
        /\ chan'[w][FarmerRank][k] = chan[w][FarmerRank][k + 1]
    BY <1>12, <1>13
  <2>3. Before(w, k + 1).tag = "HEADER"
    BY <2>1, <2>2 DEF RawInv, InPairs
  <2>4. Before(w, k)' = Before(w, k + 1)
    BY <1>14, <2>2, <2>3
  <2>5. /\ chan[w][FarmerRank][k + 1].body \in 1 .. pos
        /\ file[chan[w][FarmerRank][k + 1].body] = "physics"
        /\ RightFor(Before(w, k + 1).body, chan[w][FarmerRank][k + 1].body)
    BY <1>1, <2>1, <2>2 DEF WorkerPart, EventsSent
  <2> QED
    BY <1>9, <1>10, <2>2, <2>4, <2>5
<1>16. LastSent(w) = Before(w, n + 1) /\ LastSent(w)' = Before(w, n)'
  <2>1. n - 1 + 1 = n
    BY <1>12
  <2>2. LastSent(w) = Before(w, n + 1)
    BY <1>12 DEF LastSent
  <2>3. LastSent(w)' = Before(w, n)'
    BY <1>13, <2>1 DEF LastSent, Before
  <2> QED
    BY <2>2, <2>3
<1>17. \/ LastSent(w)' = LastSent(w)
       \/ n = 1 /\ LastSent(w)'.tag = "none" /\ LastSent(w).tag = tag /\ tag # "HEADER"
  <2>1. n \in 1 .. n
    BY <1>12
  <2> QED
    BY <1>14, <1>16, <2>1
<1>18. n = 1 <=> chan'[w][FarmerRank] = <<>>
  <2>1. chan'[w][FarmerRank] \in Seq(EventMessages)
    BY <1>6 DEF MessagesOK, StreamsOK
  <2>2. chan'[w][FarmerRank] = <<>> <=> Len(chan'[w][FarmerRank]) = 0
    BY <2>1
  <2>3. n - 1 = 0 <=> n = 1
    OBVIOUS
  <2> QED
    BY <1>13, <2>2, <2>3
<1>19. chan[w][FarmerRank] # <<>> /\ ~ Ended(w)
  BY <1>2 DEF Takes, Ended
<1>20. LastSentOK(w)'
  <2>1. LastSentOK(w)
    BY <1>1 DEF WorkerPart
  <2> QED
    BY <1>9, <1>17, <1>18, <1>19, <2>1 DEF LastSentOK
<1>21. n = 1 => LastSent(w).tag = tag
  BY <1>13, <1>16 DEF Before
<1>22. Ended(w)' <=> tag = "END"
  <2>1. ASSUME Ended(w)' PROVE tag = "END"
    <3>1. n = 1 /\ wpc[w] = "finalize"
      BY <1>9, <1>18, <2>1 DEF Ended
    <3> QED
      BY <1>1, <1>19, <1>21, <3>1 DEF WorkerPart, LastSentOK
  <2>2. ASSUME tag = "END" PROVE Ended(w)'
    <3>1. n = 1
      <4>1. SUFFICES ASSUME n # 1 PROVE FALSE
        OBVIOUS
      <4>2. 2 \in DOMAIN chan[w][FarmerRank]
        <5>1. 2 \in 1 .. n
          BY <4>1
        <5> QED
          BY <1>13, <5>1
      <4>3. Before(w, 2).tag = "END"
        BY <1>13, <2>2 DEF Before
      <4> QED
        BY <4>2, <4>3 DEF RawInv, InPairs
    <3>2. LastSent(w).tag = "END"
      BY <1>21, <2>2, <3>1
    <3> QED
      BY <1>1, <1>9, <1>18, <3>1, <3>2 DEF WorkerPart, LastSentOK, Ended
  <2> QED
    BY <2>1, <2>2
<1> QED
  BY <1>6, <1>7, <1>8, <1>11, <1>15, <1>19, <1>20, <1>22

LEMMA FarmerInv ==
    ASSUME RawInv, FarmerStep
    PROVE  RawInv'
<1>1. FarmerNext /\ UNCHANGED <<dealerVars, workerVars, outputVars>> /\ UNCHANGED outputVars
  BY DEF FarmerStep
<1>2. FarmerOK /\ Delivery
  BY RawInvFarmer
<1>3. CASE FarmerGetHeader
  <2>1. PICK w \in Workers : StreamTaken(w, "HEADER")
    BY <1>2, <1>3, FarmerTakesHeader
  <2>2. EndsLeftOK'
    <3>1. m_nEndsLeft' = m_nEndsLeft
      BY <1>3 DEF FarmerGetHeader
    <3>2. \A v \in Workers : Ended(v)' <=> Ended(v)
      BY <1>1, <2>1, StreamShorter
    <3> QED
      BY <3>1, <3>2, EndsLeftKept DEF RawInv
  <2> QED
    BY <1>1, <2>1, <2>2, StreamShorter, FarmerFrame
<1>4. CASE FarmerGetData
  <2>1. PICK w \in Workers : StreamTaken(w, "DATA")
    BY <1>1, <1>2, <1>4, FarmerTakesData
  <2>2. EndsLeftOK'
    <3>1. m_nEndsLeft' = m_nEndsLeft
      BY <1>4 DEF FarmerGetData
    <3>2. \A v \in Workers : Ended(v)' <=> Ended(v)
      BY <1>1, <2>1, StreamShorter
    <3> QED
      BY <3>1, <3>2, EndsLeftKept DEF RawInv
  <2> QED
    BY <1>1, <2>1, <2>2, StreamShorter, FarmerFrame
<1>5. CASE FarmerGetEnd
  <2>1. PICK w \in Workers : StreamTaken(w, "END")
    BY <1>2, <1>5, FarmerTakesEnd
  <2>2. EndsLeftOK'
    <3>1. m_nEndsLeft' = m_nEndsLeft - 1 /\ EndsLeftOK
      BY <1>5 DEF FarmerGetEnd, RawInv
    <3> DEFINE Left == {v \in Workers : ~ Ended(v)}
    <3>2. Left' = Left \ {w} /\ w \in Left
      BY <1>1, <2>1, StreamShorter
    <3>3. IsFiniteSet(Left)
      <4>1. IsFiniteSet(Workers)
        BY FS_Interval, MPIAssumption DEF Workers
      <4>2. Left \in SUBSET Workers
        OBVIOUS
      <4> QED
        BY <4>1, <4>2, FS_Subset
    <3>4. m_nEndsLeft = Cardinality(Left)
      BY <3>1 DEF EndsLeftOK
    <3> HIDE DEF Left
    <3>5. Cardinality(Left') = m_nEndsLeft'
      BY <3>1, <3>2, <3>3, <3>4, FS_RemoveElement
    <3> QED
      BY <3>5 DEF Left, EndsLeftOK
  <2> QED
    BY <1>1, <2>1, <2>2, StreamShorter, FarmerFrame
<1>6. ASSUME NEW tag, NEW body, Send(FarmerRank, OutputRank, tag, body),
             Message(tag, {body}) \subseteq EventMessages,
             m_nEndsLeft' = m_nEndsLeft, fpc' # "data", fpc # "data", fheader' = fheader
      PROVE  RawInv'
  <2>1. MessagesOK' /\ Unused' /\ OthersKept(FarmerRank, OutputRank)
    <3>1. MessagesOK /\ Unused
      BY DEF RawInv, TypeOK
    <3> QED
      BY <1>6, <3>1, TalkSent, RankFacts, TalkFacts
  <2>2. \A w \in Workers : /\ Between(w) /\ chan'[w][OutputRank] = chan[w][OutputRank]
                           /\ chan'[w][FarmerRank] = chan[w][FarmerRank]
    BY <2>1, RankFacts DEF OthersKept, Between
  <2>3. InPairs' /\ \A w \in Workers : \A k \in Nat : Before(w, k)' = Before(w, k)
    BY <1>6, <2>2, StreamsKept DEF RawInv
  <2>4. UNCHANGED <<wpc, wtrigger, file>> /\ pos \in Nat /\ pos' = pos /\ pos <= pos'
    BY <1>1 DEF workerVars, dealerVars, RawInv, TypeOK, DealerTypeOK
  <2>5. ASSUME NEW v \in Workers
        PROVE  EventsSent(v)' /\ LastSentOK(v)' /\ (Ended(v)' <=> Ended(v))
    <3>1. \A k \in Nat \ {0} : Before(v, k)' = Before(v, k)
      BY <2>3
    <3>2. chan[v][FarmerRank] \in Seq(EventMessages) /\ chan'[v][FarmerRank] = chan[v][FarmerRank]
      BY <2>2 DEF RawInv, TypeOK, MessagesOK, StreamsOK
    <3>3. EventsSent(v) /\ LastSentOK(v)
      BY DEF RawInv
    <3>4. EventsSent(v)'
      BY <2>4, <3>1, <3>2, <3>3, EventsSentKept
    <3>5. LastSentOK(v)'
      BY <2>4, <3>1, <3>2, <3>3, LastSentKept
    <3> QED
      BY <2>4, <3>2, <3>4, <3>5 DEF Ended
  <2>6. EndsLeftOK'
    BY <1>6, <2>5, EndsLeftKept DEF RawInv
  <2> QED
    BY <1>1, <2>1, <2>2, <2>3, <2>5, <2>6, FarmerFrame
<1>7. CASE FarmerEmitHeader
  <2>1. PICK body : body = emitted[fsent + 1].trigger
    OBVIOUS
  <2>2. Message("HEADER", {body}) \subseteq EventMessages
    BY <1>1, <1>2, <1>7, <2>1, FarmerEmitHeaderOK
  <2>3. /\ Send(FarmerRank, OutputRank, "HEADER", body)
        /\ m_nEndsLeft' = m_nEndsLeft /\ fpc' # "data" /\ fpc # "data" /\ fheader' = fheader
    BY <1>7, <2>1 DEF FarmerEmitHeader
  <2> QED
    BY <1>6, <2>2, <2>3
<1>8. CASE FarmerEmitData
  <2>1. PICK body : body = emitted[fsent + 1].event
    OBVIOUS
  <2>2. Message("DATA", {body}) \subseteq EventMessages
    BY <1>1, <1>2, <1>8, <2>1, FarmerEmitDataOK
  <2>3. /\ Send(FarmerRank, OutputRank, "DATA", body)
        /\ m_nEndsLeft' = m_nEndsLeft /\ fpc' # "data" /\ fpc # "data" /\ fheader' = fheader
    BY <1>8, <2>1 DEF FarmerEmitData, AfterEmitting
  <2> QED
    BY <1>6, <2>2, <2>3
<1>9. CASE FarmerSendEnd
  <2>1. Message("END", {0}) \subseteq EventMessages
    BY <1>1, <1>2, <1>9, FarmerSendEndOK
  <2>2. /\ Send(FarmerRank, OutputRank, "END", 0)
        /\ m_nEndsLeft' = m_nEndsLeft /\ fpc' # "data" /\ fpc # "data" /\ fheader' = fheader
    BY <1>9 DEF FarmerSendEnd
  <2> QED
    BY <1>6, <2>1, <2>2
<1> QED
  BY <1>1, <1>3, <1>4, <1>5, <1>7, <1>8, <1>9 DEF FarmerNext
-----------------------------------------------------------------------------
(***************************************************************************)
(* The steps of the outputter, the start, and the theorem.                 *)
(***************************************************************************)
LEMMA OutputFrame ==
    ASSUME RawInv, OutputNext, UNCHANGED <<dealerVars, workerVars, farmerVars>>,
           NEW r \in Ranks, Takes(r, OutputRank), PassedOnWritten'
    PROVE  RawInv'
<1>1. FarmerOK' /\ Delivery'
  BY RawInvFarmer, OutputDelivers
<1>2. DealerTypeOK' /\ WorkersTypeOK'
  BY DEF RawInv, TypeOK, DealerTypeOK, dealerVars, WorkersTypeOK, workerVars
<1>3. /\ pos \in Nat /\ pos' = pos /\ pos <= pos' /\ MessagesOK /\ Unused
  BY DEF RawInv, TypeOK, DealerTypeOK, dealerVars
<1>4. /\ UNCHANGED <<wpc, wblock, wtrigger, fpc, fheader, m_nEndsLeft>>
      /\ UNCHANGED <<file, dpc, block, firstTrigger, dest, eofsLeft>>
  BY DEF workerVars, farmerVars, dealerVars
<1>5. Talk(r, OutputRank)
  BY <1>3, RankFacts DEF Takes, Unused, Talk
<1>6. TalkOK
  BY <1>3, TalkIsMessages
<1>7. /\ chan'[r][OutputRank] \in Seq(Kind(r, OutputRank)) /\ Shorter(r, OutputRank)
      /\ OthersKept(r, OutputRank) /\ Channels'
  BY <1>5, <1>6, RankFacts, TakenFrom DEF TalkOK
<1>8. TalkOK'
  <2>1. ASSUME NEW c \in Ranks, NEW d \in Ranks
        PROVE  IF Talk(c, d) THEN chan'[c][d] \in Seq(Kind(c, d)) ELSE chan'[c][d] = <<>>
    <3>1. CASE c = r /\ d = OutputRank
      BY <1>5, <1>7, <3>1
    <3>2. CASE c # r \/ d # OutputRank
      BY <1>6, <1>7, <3>2 DEF TalkOK, OthersKept
    <3> QED
      BY <3>1, <3>2
  <2> QED
    BY <1>7, <2>1 DEF TalkOK
<1>9. MessagesOK' /\ Unused'
  BY <1>8, TalkIsMessages, PTL
<1>10. \A w \in Workers : /\ Between(w) /\ chan'[w][FarmerRank] = chan[w][FarmerRank]
                          /\ w # r => chan'[w][OutputRank] = chan[w][OutputRank]
  BY <1>7, RankFacts DEF OthersKept, Between
<1>11. InPairs' /\ \A w \in Workers : \A k \in Nat : Before(w, k)' = Before(w, k)
  BY <1>4, <1>10, StreamsKept DEF RawInv
<1>12. DealerOK' /\ (Over => Over')
  <2>1. \A t, i : RightFor(t, i)' <=> RightFor(t, i)
    BY <1>4, NumKept
  <2> QED
    BY <1>3, <1>4, <2>1 DEF RawInv, DealerOK, DealerHolds, WithinRead, Over
<1>13. ASSUME NEW v \in Workers PROVE WorkerPart(v)' /\ (Ended(v)' <=> Ended(v))
  <2>1. WorkerPart(v) /\ wblock[v] \in Block
    BY WorkerTypes
  <2>2. UNCHANGED <<wpc[v], wblock[v], wtrigger[v]>> /\ Between(v)
    BY <1>4, <1>10
  <2>3. Served(v)' <=> Served(v)
    BY <1>4 DEF Served
  <2>4. Protocol(v)'
    BY <1>4, <1>12, <2>1, <2>2, <2>3, ProtocolKept DEF WorkerPart
  <2>5. BlocksSent(v)'
    BY <1>3, <2>1, <2>2, Dealt, BlocksSentKept DEF WorkerPart, Between
  <2>6. WorkerOK(v)'
    BY <1>3, <1>4, <1>12, <2>1, <2>2, WorkerKept DEF WorkerPart
  <2>7. chan[v][FarmerRank] \in Seq(EventMessages) /\ \A k \in Nat \ {0} : Before(v, k)' = Before(v, k)
    BY <1>3, <1>11 DEF MessagesOK, StreamsOK
  <2>8. EventsSent(v)'
    BY <1>3, <1>4, <1>10, <2>1, <2>7, EventsSentKept DEF WorkerPart
  <2>9. LastSentOK(v)'
    BY <1>10, <2>1, <2>2, <2>7, LastSentKept DEF WorkerPart
  <2>10. PassedOnSent(v)'
    <3>1. CASE v # r
      BY <1>3, <1>4, <1>10, <2>1, <3>1, PassedOnKept DEF WorkerPart
    <3>2. CASE v = r
      <4>1. SUFFICES ASSUME NEW k \in DOMAIN chan'[v][OutputRank],
                            chan'[v][OutputRank][k].tag = "DATA"
                     PROVE  /\ chan'[v][OutputRank][k].body \in 1 .. pos
                            /\ file[chan'[v][OutputRank][k].body] = "other"
        BY <1>3, <1>4 DEF PassedOnSent
      <4>2. k + 1 \in DOMAIN chan[v][OutputRank]
            /\ chan'[v][OutputRank][k] = chan[v][OutputRank][k + 1]
        <5>1. k \in DOMAIN chan'[r][OutputRank]
          BY <3>2, <4>1
        <5> QED
          BY <1>7, <3>2, <5>1 DEF Shorter
      <4> QED
        BY <2>1, <4>1, <4>2 DEF WorkerPart, PassedOnSent
    <3> QED
      BY <3>1, <3>2
  <2> QED
    BY <1>10, <2>2, <2>4, <2>5, <2>6, <2>8, <2>9, <2>10 DEF WorkerPart, Ended
<1>14. EndsLeftOK'
  BY <1>4, <1>13, EndsLeftKept DEF RawInv
<1>15. TypeOK' /\ FarmerControl'
  BY <1>1, <1>2, <1>9 DEF TypeOK, FarmerOK, EndsTypeOK
<1>16. (file \in Files)'
  BY <1>4 DEF RawInv
<1> QED
  BY <1>1, <1>9, <1>11, <1>12, <1>13, <1>14, <1>15, <1>16 DEF RawInv, WorkerPart

\* A record added to the file.
LEMMA WrittenLonger ==
    ASSUME RawInv, UNCHANGED <<file, pos>>, NEW record \in FileRecord,
           written' = Append(written, record),
           record.kind = "item" => record.data \in 1 .. pos /\ file[record.data] = "other"
    PROVE  PassedOnWritten'
<1>1. written \in Seq(FileRecord)
  BY OutputTypeRecord DEF RawInv, TypeOK
<1>2. /\ DOMAIN written' = 1 .. Len(written) + 1 /\ DOMAIN written = 1 .. Len(written)
      /\ Len(written) \in Nat
      /\ \A k \in 1 .. Len(written) : written'[k] = written[k]
      /\ written'[Len(written) + 1] = record
  BY <1>1, Appended
<1>3. \A k \in DOMAIN written' : k \in DOMAIN written \/ k = Len(written) + 1
  BY <1>2
<1> QED
  BY <1>2, <1>3 DEF RawInv, PassedOnWritten

LEMMA OutputInv ==
    ASSUME RawInv, OutputStep
    PROVE  RawInv'
<1>1. OutputNext /\ UNCHANGED <<dealerVars, workerVars, farmerVars>> /\ UNCHANGED farmerVars
  BY DEF OutputStep
<1>2. FarmerOK /\ Delivery /\ Channels
  BY RawInvFarmer DEF FarmerOK, EndsTypeOK
<1>3. pos \in Nat /\ UNCHANGED <<file, pos>> /\ pos <= pos'
  BY <1>1 DEF dealerVars, RawInv, TypeOK, DealerTypeOK
<1>4. CASE OutputGetHeader
  <2>1. PICK r \in Sources : /\ Arrived(r, OutputRank, {"HEADER", "PASSTHROUGH"})
                             /\ chan' = Received(r, OutputRank)
    BY <1>4 DEF OutputGetHeader, OutputRank
  <2>2. Takes(r, OutputRank) /\ r \in Ranks
    BY <1>2, <2>1, RankFacts, ReceiveEffect
  <2>3. PassedOnWritten'
    BY <1>3, <1>4, WrittenKept DEF OutputGetHeader, RawInv
  <2> QED
    BY <1>1, <2>2, <2>3, OutputFrame
<1>5. CASE OutputGetEnd
  <2>1. Takes(FarmerRank, OutputRank)
    BY <1>1, <1>2, <1>5, OutputGetEndOK
  <2>2. PassedOnWritten'
    BY <1>3, <1>5, WrittenKept DEF OutputGetEnd, RawInv
  <2> QED
    BY <1>1, <2>1, <2>2, RankFacts, OutputFrame
<1>6. CASE OutputEvent
  <2>1. Takes(FarmerRank, OutputRank) /\ FarmerOK'
    BY <1>1, <1>2, <1>6, OutputEventOK
  <2>2. PICK record : /\ written' = Append(written, record)
                      /\ record = [kind |-> "event", trigger |-> oheader.trigger,
                                   data |-> FirstBody(oheader.source, 2)]
    BY <1>6 DEF OutputEvent
  <2>3. record \in FileRecord /\ record.kind = "event"
    <3>1. written' \in Seq(FileRecord) /\ written \in Seq(FileRecord)
      BY <1>2, <2>1, OutputTypeRecord DEF FarmerOK, EndsTypeOK, OutputTypeOK, FileRecord
    <3>2. /\ Len(Append(written, record)) = Len(written) + 1
          /\ Append(written, record)[Len(written) + 1] = record
          /\ Len(written) \in Nat
      BY <3>1
    <3>3. record \in FileRecord
      BY <2>2, <3>1, <3>2
    <3> QED
      BY <2>2, <3>3
  <2>4. PassedOnWritten'
    BY <1>3, <2>2, <2>3, WrittenLonger
  <2> QED
    BY <1>1, <2>1, <2>4, RankFacts, OutputFrame
<1>7. CASE OutputItem
  <2>1. /\ oheader.source \in Sources \ {FarmerRank}
        /\ Takes(oheader.source, OutputRank)
        /\ chan[oheader.source][OutputRank][1].tag = "DATA"
        /\ chan[oheader.source][OutputRank][1].body \in Events
        /\ written' = Append(written,
              [kind |-> "item", trigger |-> 0,
               data |-> chan[oheader.source][OutputRank][1].body])
    BY <1>1, <1>2, <1>7, OutputItemOK
  <2>2. PICK r \in Ranks : r = oheader.source /\ r # OutputRank /\ r # FarmerRank
    BY <2>1, RankFacts
  <2>3. Takes(r, OutputRank)
    BY <2>1, <2>2 DEF Takes
  <2>4. r \in Workers
    BY <2>2, <2>3, RankFacts DEF RawInv, Unused, Takes
  <2>5. PICK i : i = chan[r][OutputRank][1].body
    OBVIOUS
  <2>6. i \in 1 .. pos /\ file[i] = "other"
    <3>1. PassedOnSent(r)
      BY <2>4 DEF RawInv
    <3>2. 1 \in DOMAIN chan[r][OutputRank]
      <4>1. chan[r][OutputRank] \in Seq(PassedOn) /\ chan[r][OutputRank] # <<>>
        BY <2>3, <2>4, RankFacts DEF RawInv, TypeOK, MessagesOK, StreamsOK, Takes
      <4> QED
        BY <4>1
    <3> QED
      BY <2>1, <2>2, <2>5, <3>1, <3>2 DEF PassedOnSent
  <2>7. PICK record : record = [kind |-> "item", trigger |-> 0, data |-> i]
    OBVIOUS
  <2>8. record \in FileRecord /\ written' = Append(written, record)
    <3>1. i \in Events /\ 0 \in Triggers
      BY <2>1, <2>2, <2>5, MaxTriggerAssumption DEF Triggers
    <3>2. record \in FileRecord
      BY <2>7, <3>1 DEF FileRecord
    <3> QED
      BY <2>1, <2>2, <2>5, <2>7, <3>2
  <2>9. PassedOnWritten'
    BY <1>3, <2>6, <2>7, <2>8, WrittenLonger
  <2> QED
    BY <1>1, <2>3, <2>9, OutputFrame
<1> QED
  BY <1>1, <1>4, <1>5, <1>6, <1>7 DEF OutputNext

LEMMA RawInvInit == Init => RawInv
<1> SUFFICES ASSUME Init PROVE RawInv
  OBVIOUS
<1>1. /\ \A a, b \in Ranks : chan[a][b] = <<>>
      /\ Channels
  BY DEF Init, MPIInit, Channels
<1>2. /\ file \in Files /\ file \in Seq(ItemKinds)
      /\ dpc = "read" /\ pos = 0 /\ block = [first |-> 1, last |-> 0]
      /\ firstTrigger = 0 /\ dest = 3 /\ eofsLeft = Size - 3
  BY RawAssumption DEF Init
<1>3. \A w \in Workers : /\ wpc[w] = "request" /\ wblock[w] = [first |-> 1, last |-> 0]
                         /\ wtrigger[w] = 0
  BY DEF Init
<1>4. /\ m_nEndsLeft = Size - 3 /\ fpc = "header" /\ fsent = 0 /\ emitted = <<>>
      /\ flushed = FALSE /\ fheader = [source |-> 3, trigger |-> 0]
  BY DEF Init, FarmerInit, SorterInit
<1>5. opc = "header" /\ oheader = [source |-> 1, trigger |-> 0] /\ written = <<>>
  BY DEF Init, OutputInit
<1>6. 3 \in Workers /\ 0 \in Triggers /\ Size - 3 \in Nat /\ Size - 3 > 0
  BY MPIAssumption, MaxTriggerAssumption DEF Workers, Triggers
<1>7. MessagesOK /\ Unused
  <2>1. \A S : <<>> \in Seq(S)
    OBVIOUS
  <2>2. StreamsOK
    <3>1. \A w \in Workers : chan[w][FarmerRank] = <<>>
      BY <1>1, RankFacts
    <3>2. chan[FarmerRank][OutputRank] = <<>>
      BY <1>1, RankFacts
    <3>3. \A r \in Sources \ {FarmerRank} : chan[r][OutputRank] = <<>>
      BY <1>1, RankFacts
    <3> QED
      BY <2>1, <3>1, <3>2, <3>3, Zenon DEF StreamsOK
  <2>3. \A w \in Workers : chan[DealerRank][w] = <<>> /\ chan[w][DealerRank] = <<>>
    BY <1>1, RankFacts
  <2>4. DOMAIN chan = Ranks /\ \A r \in Ranks : DOMAIN chan[r] = Ranks
    BY <1>1 DEF Channels
  <2>5. MessagesOK
    BY <2>1, <2>2, <2>3, <2>4, Zenon DEF MessagesOK
  <2>6. Unused
    BY <1>1, Zenon DEF Unused
  <2> QED
    BY <2>5, <2>6
<1>8. DealerTypeOK
  BY <1>2, <1>6, RawAssumption DEF DealerTypeOK, Block
<1>9. WorkersTypeOK
  BY <1>6 DEF Init, WorkersTypeOK, Block
<1>10. FarmerTypeOK
  <2>1. SorterTypeOK
    BY SorterInvInit DEF Init, FarmerInit, SorterInv
  <2>2. m_nEndsLeft \in 0 .. Size - 3 /\ fsent \in Nat
    BY <1>4, <1>6
  <2>3. fheader \in [source : Workers, trigger : Triggers]
    BY <1>4, <1>6
  <2> QED
    BY <1>4, <2>1, <2>2, <2>3 DEF FarmerTypeOK
<1>11. OutputTypeOK
  BY <1>5, <1>6, RankFacts DEF OutputTypeOK, FarmerRank
<1>12. RightFor(0, 1)
  BY <1>2, NumFirst DEF RightFor
<1>13. DealerOK
  BY <1>2, <1>6, <1>12 DEF DealerOK, DealerHolds
<1>14. ASSUME NEW w \in Workers
       PROVE  /\ Protocol(w) /\ WorkerOK(w) /\ BlocksSent(w) /\ EventsSent(w)
              /\ LastSentOK(w) /\ PassedOnSent(w) /\ ~ Ended(w)
  <2>1. Silent(w) /\ Protocol(w)
    BY <1>1, <1>2, <1>3, RankFacts DEF Silent, Served, Protocol
  <2>2. WorkerOK(w)
    BY <1>3 DEF WorkerOK, WorkerHolds
  <2>3. BlocksSent(w) /\ EventsSent(w) /\ PassedOnSent(w)
    BY <1>1, RankFacts DEF BlocksSent, EventsSent, PassedOnSent
  <2>4. LastSentOK(w)
    BY <1>1, <1>3, <1>4, RankFacts DEF LastSentOK, LastSent, Before
  <2>5. ~ Ended(w)
    BY <1>3 DEF Ended
  <2> QED
    BY <2>1, <2>2, <2>3, <2>4, <2>5
<1>15. InPairs
  BY <1>1, RankFacts DEF InPairs
<1>16. EndsLeftOK
  <2>1. {w \in Workers : ~ Ended(w)} = 3 .. Size - 1
    BY <1>14 DEF Workers
  <2>2. Cardinality(3 .. Size - 1) = Size - 3
    BY MPIAssumption, FS_Interval
  <2> QED
    BY <1>4, <2>1, <2>2 DEF EndsLeftOK
<1>17. PassedOnWritten
  BY <1>5 DEF PassedOnWritten
<1>18. FarmerControl
  BY <1>4, <1>6 DEF FarmerControl
<1>19. Delivery
  <2>1. EventPlaces = {} /\ Cardinality(EventPlaces) = 0
    BY <1>5, FS_EmptySet DEF EventPlaces
  <2>2. SentOut = 0 /\ TakenIn = 0 /\ chan[FarmerRank][OutputRank] = <<>>
    BY <1>1, <1>4, <1>5, <2>1, RankFacts DEF SentOut, TakenIn
  <2>3. OutputControl /\ WrittenAsEmitted
    BY <1>5, <2>1 DEF OutputControl, WrittenAsEmitted
  <2> QED
    BY <2>2, <2>3 DEF Delivery
<1> QED
  BY <1>2, <1>7, <1>8, <1>9, <1>10, <1>11, <1>13, <1>14, <1>15, <1>16, <1>17, <1>18, <1>19
  DEF RawInv, TypeOK

LEMMA RawInvNext == RawInv /\ [Next]_vars => RawInv'
<1> SUFFICES ASSUME RawInv, [Next]_vars PROVE RawInv'
  OBVIOUS
<1>1. CASE DealerStep
  BY <1>1, DealerInv
<1>2. CASE FarmerStep
  BY <1>2, FarmerInv
<1>3. CASE OutputStep
  BY <1>3, OutputInv
<1>4. CASE \E w \in Workers : WorkerStep(w)
  BY <1>4, WorkerInv
<1>5. CASE UNCHANGED vars
  <2>1. UNCHANGED <<chan, dealerVars, workerVars, farmerVars, outputVars>>
    BY <1>5 DEF vars
  <2>2. /\ UNCHANGED <<chan, file, dpc, pos, block, firstTrigger, dest, eofsLeft>>
        /\ UNCHANGED <<wpc, wblock, wtrigger>>
    BY <2>1 DEF dealerVars, workerVars
  <2>3. MessagesOK' /\ Unused' /\ DealerTypeOK'
    BY <2>2 DEF RawInv, TypeOK, MessagesOK, StreamsOK, Unused, DealerTypeOK
  <2>4. DealerOK' /\ (Over => Over') /\ pos <= pos'
    BY <2>2 DEF RawInv, TypeOK, DealerTypeOK, DealerOK, DealerHolds, WithinRead, RightFor, Num,
                PhysicsIn, Over
  <2>5. ASSUME NEW w \in Workers PROVE Protocol(w)' /\ BlocksSent(w)'
    <3>1. Protocol(w) /\ BlocksSent(w)
      BY DEF RawInv
    <3>2. UNCHANGED <<wpc[w], wtrigger[w]>> /\ Between(w) /\ (Served(w)' <=> Served(w))
      BY <2>2 DEF Between, Served
    <3>3. Protocol(w)'
      BY <2>2, <2>4, <3>1, <3>2, ProtocolKept
    <3>4. BlocksSent(w)'
      BY <2>2, <3>1 DEF BlocksSent, WithinRead
    <3> QED
      BY <3>3, <3>4
  <2> QED
    BY <2>1, <2>2, <2>3, <2>4, <2>5, DealerFrame
<1> QED
  BY <1>1, <1>2, <1>3, <1>4, <1>5 DEF Next, Finished

(***************************************************************************)
(* Whatever the files, the sizes of the blocks and the sends that wait,    *)
(* every variable and every message of a raw run keeps its type: a header  *)
(* is never taken for the data of another, the dealer answers workers only *)
(* and the end counts do not go below zero.                                *)
(***************************************************************************)
THEOREM RawTypeCorrect == Spec => []TypeOK
<1>1. RawInv => TypeOK
  BY DEF RawInv
<1> QED
  BY <1>1, RawInvInit, RawInvNext, PTL DEF Spec
-----------------------------------------------------------------------------
(***************************************************************************)
(* A raw run with not too many events: every ring item stays in exactly    *)
(* one place, the sorter is used as it must be, and the file is written as *)
(* EventStream says.                                                       *)
(***************************************************************************)
(***************************************************************************)
(* The dealer's counter does not come round: without this, two events may  *)
(* have one number and the sorter keeps only one of them.                  *)
(***************************************************************************)
FewEvents == \A f \in Files : Cardinality({i \in DOMAIN f : f[i] = "physics"}) <= CounterMod

(***************************************************************************)
(* Where item i is: in the hands of rank a (a = b, k = 0), in message k    *)
(* from rank a to rank b, given to the sorter under trigger k, or passed   *)
(* on and the k-th record of the file.                                     *)
(***************************************************************************)
At(i, a, b, k) ==
    \/ a = b /\ k = 0 /\ i \in InHand(a)
    \/ a # b /\ a # FarmerRank /\ k \in DOMAIN chan[a][b] /\ i \in Brought(a, chan[a][b][k])
    \/ a = FarmerRank /\ b = FarmerRank /\ k \in DOMAIN given /\ given[k] = i
    \/ a = OutputRank /\ b = OutputRank /\ k \in DOMAIN written
          /\ written[k].kind = "item" /\ written[k].data = i

Somewhere == \A i \in 1 .. pos : \E a, b \in Ranks, k \in Nat : At(i, a, b, k)

NowhereElse ==
    \A i \in 1 .. pos : \A a, b, c, d \in Ranks, k, l \in Nat :
        At(i, a, b, k) /\ At(i, c, d, l) => a = c /\ b = d /\ k = l

GivenAsNumbered ==
    \A t \in DOMAIN given :
        given[t] \in 1 .. pos /\ file[given[t]] = "physics" /\ Num(given[t]) = t

InSequence == \A e \in DOMAIN emitted : emitted[e].trigger = e - 1

AllEmitted == flushed => Len(emitted) = Num(Len(file) + 1)

(***************************************************************************)
(* The invariant of runs with not too many events.                         *)
(***************************************************************************)
CountedInv ==
    /\ RawInv
    /\ SorterInv
    /\ Somewhere
    /\ NowhereElse
    /\ GivenAsNumbered
    /\ InSequence
    /\ AllEmitted
-----------------------------------------------------------------------------
(***************************************************************************)
(* What moves an item keeps it in one place.                               *)
(***************************************************************************)

\* The items of S leave the hands of rank a as message m to rank b.
Put(a, b, m, S) ==
    \A i \in 1 .. pos : \A c, d \in Ranks, k \in Nat :
        At(i, c, d, k)' <=> IF c = a /\ d = b /\ k = m THEN i \in S
                            ELSE At(i, c, d, k) /\ (c = a /\ d = a => i \notin S)

\* The first message from rank a to rank b goes; what it brings is now at <<u, v, m>>.
Took(a, b, u, v, m) ==
    \A i \in 1 .. pos : \A c, d \in Ranks, k \in Nat :
        At(i, c, d, k)' <=> IF c = a /\ d = b THEN k > 0 /\ At(i, a, b, k + 1)
                            ELSE \/ At(i, c, d, k)
                                 \/ c = u /\ d = v /\ k = m /\ At(i, a, b, 1)

Empty(a, b, k) == \A i \in 1 .. pos : ~ At(i, a, b, k)

LEMMA PutOnce ==
    ASSUME Somewhere, NowhereElse, pos' = pos, NEW a \in Ranks, NEW b \in Ranks, a # b,
           NEW m \in Nat, NEW S, \A i \in S : At(i, a, a, 0), Empty(a, b, m), Put(a, b, m, S)
    PROVE  Somewhere' /\ NowhereElse'
<1>1. ASSUME NEW i \in 1 .. pos PROVE \E c, d \in Ranks, k \in Nat : At(i, c, d, k)'
  <2>1. CASE i \in S
    BY <2>1 DEF Put
  <2>2. CASE i \notin S
    <3>1. PICK c \in Ranks, d \in Ranks, k \in Nat : At(i, c, d, k)
      BY DEF Somewhere
    <3>2. At(i, c, d, k)'
      BY <2>2, <3>1 DEF Put, Empty
    <3> QED
      BY <3>2
  <2> QED
    BY <2>1, <2>2
<1>2. ASSUME NEW i \in 1 .. pos, NEW c \in Ranks, NEW d \in Ranks, NEW k \in Nat,
             NEW e \in Ranks, NEW f \in Ranks, NEW l \in Nat,
             At(i, c, d, k)', At(i, e, f, l)'
      PROVE  c = e /\ d = f /\ k = l
  <2>1. CASE i \in S
    <3>1. At(i, a, a, 0) /\ 0 \in Nat
      BY <2>1
    <3>2. ASSUME NEW x \in Ranks, NEW y \in Ranks, NEW n \in Nat, At(i, x, y, n)'
          PROVE  x = a /\ y = b /\ n = m
      BY <2>1, <3>1, <3>2 DEF Put, NowhereElse
    <3> QED
      BY <1>2, <3>2
  <2>2. CASE i \notin S
    <3>1. At(i, c, d, k) /\ At(i, e, f, l)
      BY <1>2, <2>2 DEF Put
    <3> QED
      BY <3>1 DEF NowhereElse
  <2> QED
    BY <2>1, <2>2
<1>3. Somewhere'
  BY <1>1 DEF Somewhere
<1>4. NowhereElse'
  BY <1>2 DEF NowhereElse
<1> QED
  BY <1>3, <1>4

LEMMA TookOnce ==
    ASSUME Somewhere, NowhereElse, pos' = pos, NEW a \in Ranks, NEW b \in Ranks,
           NEW u \in Ranks, NEW v \in Ranks, u # a \/ v # b, NEW m \in Nat,
           Empty(u, v, m), Empty(a, b, 0), Took(a, b, u, v, m)
    PROVE  Somewhere' /\ NowhereElse'
<1>1. ASSUME NEW i \in 1 .. pos PROVE \E c, d \in Ranks, k \in Nat : At(i, c, d, k)'
  <2>1. PICK c \in Ranks, d \in Ranks, k \in Nat : At(i, c, d, k)
    BY DEF Somewhere
  <2>2. CASE c = a /\ d = b /\ k = 1
    <3>1. At(i, u, v, m)'
      BY <2>1, <2>2 DEF Took
    <3> QED
      BY <3>1
  <2>3. CASE c = a /\ d = b /\ k # 1
    <3>1. k # 0
      BY <2>1, <2>3 DEF Empty
    <3>2. PICK l \in Nat : k = l + 1 /\ l > 0
      <4>1. k - 1 \in Nat /\ k = (k - 1) + 1 /\ k - 1 > 0
        BY <2>3, <3>1
      <4> QED
        BY <4>1
    <3>3. At(i, a, b, l)'
      BY <2>1, <2>3, <3>2 DEF Took
    <3> QED
      BY <3>3
  <2>4. CASE ~ (c = a /\ d = b)
    <3>1. At(i, c, d, k)'
      BY <2>1, <2>4 DEF Took
    <3> QED
      BY <3>1
  <2> QED
    BY <2>2, <2>3, <2>4
<1>2. ASSUME NEW i \in 1 .. pos, NEW c \in Ranks, NEW d \in Ranks, NEW k \in Nat,
             NEW e \in Ranks, NEW f \in Ranks, NEW l \in Nat,
             At(i, c, d, k)', At(i, e, f, l)'
      PROVE  c = e /\ d = f /\ k = l
  <2>1. CASE At(i, a, b, 1)
    <3>1. ASSUME NEW x \in Ranks, NEW y \in Ranks, NEW n \in Nat, At(i, x, y, n)'
          PROVE  x = u /\ y = v /\ n = m
      <4>1. CASE x = a /\ y = b
        <5>1. n > 0 /\ At(i, a, b, n + 1) /\ n + 1 \in Nat
          BY <3>1, <4>1 DEF Took
        <5>2. n + 1 = 1
          BY <2>1, <5>1 DEF NowhereElse
        <5> QED
          BY <5>1, <5>2
      <4>2. CASE ~ (x = a /\ y = b)
        <5>1. ~ At(i, x, y, n)
          BY <2>1, <4>2 DEF NowhereElse
        <5> QED
          BY <3>1, <4>2, <5>1 DEF Took
      <4> QED
        BY <4>1, <4>2
    <3> QED
      BY <1>2, <3>1
  <2>2. CASE ~ At(i, a, b, 1)
    <3>1. ASSUME NEW x \in Ranks, NEW y \in Ranks, NEW n \in Nat, At(i, x, y, n)'
          PROVE  At(i, x, y, IF x = a /\ y = b THEN n + 1 ELSE n)
      BY <2>2, <3>1 DEF Took
    <3>2. /\ At(i, c, d, IF c = a /\ d = b THEN k + 1 ELSE k)
          /\ At(i, e, f, IF e = a /\ f = b THEN l + 1 ELSE l)
      BY <1>2, <3>1
    <3>3. c = e /\ d = f /\ (IF c = a /\ d = b THEN k + 1 ELSE k)
                                = IF e = a /\ f = b THEN l + 1 ELSE l
      <4>1. /\ (IF c = a /\ d = b THEN k + 1 ELSE k) \in Nat
            /\ (IF e = a /\ f = b THEN l + 1 ELSE l) \in Nat
        OBVIOUS
      <4> QED
        BY <3>2, <4>1 DEF NowhereElse
    <3> QED
      BY <3>3
  <2> QED
    BY <2>1, <2>2
<1>3. Somewhere'
  BY <1>1 DEF Somewhere
<1>4. NowhereElse'
  BY <1>2 DEF NowhereElse
<1> QED
  BY <1>3, <1>4
-----------------------------------------------------------------------------
(***************************************************************************)
(* What At says of each pair of ranks, and when it does not change.        *)
(***************************************************************************)
Holds(msg, i) == msg.tag = "DATA" /\ i = msg.body

Places ==
    /\ \A i, k :
          /\ At(i, DealerRank, DealerRank, k)
                <=> k = 0 /\ DealerHolds /\ i \in block.first .. block.last
          /\ At(i, FarmerRank, FarmerRank, k) <=> k \in DOMAIN given /\ given[k] = i
          /\ At(i, OutputRank, OutputRank, k)
                <=> k \in DOMAIN written /\ written[k].kind = "item" /\ written[k].data = i
    /\ \A w \in Workers : \A i, k :
          /\ At(i, w, w, k) <=> k = 0 /\ i \in wblock[w].first .. wblock[w].last
          /\ At(i, DealerRank, w, k) <=>
                /\ k \in DOMAIN chan[DealerRank][w]
                /\ chan[DealerRank][w][k].tag = "DATA"
                /\ i \in chan[DealerRank][w][k].body.first .. chan[DealerRank][w][k].body.last
          /\ At(i, w, FarmerRank, k) <=>
                k \in DOMAIN chan[w][FarmerRank] /\ Holds(chan[w][FarmerRank][k], i)
          /\ At(i, w, OutputRank, k) <=>
                k \in DOMAIN chan[w][OutputRank] /\ Holds(chan[w][OutputRank][k], i)

\* No item is between any other two ranks.
NoOtherPlaces ==
    \A a, b \in Ranks : \A i, k :
        At(i, a, b, k) => \/ a = b
                          \/ a = DealerRank /\ b \in Workers
                          \/ a \in Workers /\ b \in {FarmerRank, OutputRank}

LEMMA BroughtFacts ==
    \A r, msg, i : /\ msg.tag # "DATA" => Brought(r, msg) = {}
                   /\ msg.tag = "DATA" /\ r = DealerRank =>
                         Brought(r, msg) = msg.body.first .. msg.body.last
                   /\ msg.tag = "DATA" /\ r # DealerRank => Brought(r, msg) = {msg.body}
BY DEF Brought

LEMMA PlacesAre == Places
<1>1. ASSUME NEW i, NEW k
      PROVE  /\ At(i, DealerRank, DealerRank, k)
                   <=> k = 0 /\ DealerHolds /\ i \in block.first .. block.last
             /\ At(i, FarmerRank, FarmerRank, k) <=> k \in DOMAIN given /\ given[k] = i
             /\ At(i, OutputRank, OutputRank, k)
                   <=> k \in DOMAIN written /\ written[k].kind = "item" /\ written[k].data = i
  BY RankFacts DEF At, InHand, DealerHolds
<1>2. ASSUME NEW w \in Workers, NEW i, NEW k
      PROVE  /\ At(i, w, w, k) <=> k = 0 /\ i \in wblock[w].first .. wblock[w].last
             /\ At(i, DealerRank, w, k) <=>
                   /\ k \in DOMAIN chan[DealerRank][w]
                   /\ chan[DealerRank][w][k].tag = "DATA"
                   /\ i \in chan[DealerRank][w][k].body.first .. chan[DealerRank][w][k].body.last
             /\ At(i, w, FarmerRank, k) <=>
                   k \in DOMAIN chan[w][FarmerRank] /\ Holds(chan[w][FarmerRank][k], i)
             /\ At(i, w, OutputRank, k) <=>
                   k \in DOMAIN chan[w][OutputRank] /\ Holds(chan[w][OutputRank][k], i)
  <2>1. w # DealerRank /\ w # FarmerRank /\ w # OutputRank
    BY RankFacts
  <2>2. At(i, w, w, k) <=> k = 0 /\ i \in wblock[w].first .. wblock[w].last
    BY <2>1 DEF At, InHand
  <2>3. At(i, DealerRank, w, k) <=>
              k \in DOMAIN chan[DealerRank][w] /\ i \in Brought(DealerRank, chan[DealerRank][w][k])
    BY <2>1, RankFacts DEF At
  <2>4. \A b \in {FarmerRank, OutputRank} :
           At(i, w, b, k) <=> k \in DOMAIN chan[w][b] /\ i \in Brought(w, chan[w][b][k])
    BY <2>1 DEF At
  <2> QED
    BY <2>1, <2>2, <2>3, <2>4, BroughtFacts DEF Holds
<1> QED
  BY <1>1, <1>2 DEF Places

LEMMA PlacesNext == Places'
BY PlacesAre, PTL

LEMMA PlacesFacts == RawInv => Places /\ NoOtherPlaces
<1> SUFFICES ASSUME RawInv PROVE NoOtherPlaces
  BY PlacesAre
<1>1. ASSUME NEW a \in Ranks, NEW b \in Ranks, NEW i, NEW k, At(i, a, b, k)
      PROVE  \/ a = b
             \/ a = DealerRank /\ b \in Workers
             \/ a \in Workers /\ b \in {FarmerRank, OutputRank}
  <2>1. CASE a # b
    <3>1. a # FarmerRank /\ k \in DOMAIN chan[a][b] /\ i \in Brought(a, chan[a][b][k])
      BY <1>1, <2>1 DEF At
    <3>2. chan[a][b] # <<>>
      BY <3>1
    <3>3. ~ (a \in Workers /\ b = DealerRank)
      <4>1. SUFFICES ASSUME a \in Workers, b = DealerRank PROVE FALSE
        OBVIOUS
      <4>2. chan[a][b] \in Seq(Message("REQUEST", {a}))
        BY <4>1 DEF RawInv, TypeOK, MessagesOK
      <4>3. chan[a][b][k].tag = "REQUEST"
        <5>1. chan[a][b][k] \in Message("REQUEST", {a})
          BY <3>1, <4>2
        <5> QED
          BY <5>1 DEF Message
      <4>4. Brought(a, chan[a][b][k]) = {}
        BY <4>3, BroughtFacts
      <4> QED
        BY <3>1, <4>4
    <3> QED
      BY <3>1, <3>2, <3>3 DEF RawInv, Unused
  <2> QED
    BY <2>1
<1> QED
  BY <1>1 DEF NoOtherPlaces

Undisturbed(c, d) ==
    /\ c # d => chan'[c][d] = chan[c][d]
    /\ c = d /\ c = DealerRank => block' = block /\ (DealerHolds' <=> DealerHolds)
    /\ c = d /\ c = FarmerRank => given' = given
    /\ c = d /\ c = OutputRank => written' = written
    /\ c = d /\ c \in Workers => wblock'[c] = wblock[c]

LEMMA AtKept ==
    ASSUME NEW c \in Ranks, NEW d \in Ranks, Undisturbed(c, d)
    PROVE  \A i, k : At(i, c, d, k)' <=> At(i, c, d, k)
<1>1. CASE c # d
  BY <1>1 DEF At, Brought, Undisturbed
<1>2. CASE c = d
  <2>1. InHand(c)' = InHand(c)
    BY <1>2, RankFacts DEF InHand, DealerHolds, Undisturbed
  <2> QED
    BY <1>2, <2>1, RankFacts DEF At, Undisturbed
<1> QED
  BY <1>1, <1>2

\* Only what the dealer has read is anywhere.
LEMMA AtRead ==
    ASSUME RawInv, GivenAsNumbered, NEW a \in Ranks, NEW b \in Ranks, NEW i, NEW k, At(i, a, b, k)
    PROVE  i \in 1 .. pos
<1> USE PlacesFacts, RankFacts DEF Places, NoOtherPlaces
<1>1. pos \in Nat
  BY DEF RawInv, TypeOK, DealerTypeOK
<1>2. CASE a = b /\ a = DealerRank
  <2>1. DealerHolds /\ i \in block.first .. block.last /\ WithinRead(block) /\ block \in Block
    BY <1>2 DEF RawInv, DealerOK, TypeOK, DealerTypeOK
  <2> QED
    BY <1>1, <2>1 DEF WithinRead, Block
<1>3. CASE a = b /\ a = FarmerRank
  BY <1>3 DEF GivenAsNumbered
<1>4. CASE a = b /\ a = OutputRank
  BY <1>4 DEF RawInv, PassedOnWritten
<1>5. CASE a = b /\ a \in Workers
  <2>1. i \in wblock[a].first .. wblock[a].last /\ wblock[a] \in Block
    BY <1>5 DEF RawInv, TypeOK, WorkersTypeOK
  <2>2. WorkerHolds(a)
    <3>1. ~ (wblock[a].first > wblock[a].last)
      BY <2>1 DEF Block
    <3> QED
      BY <1>5, <3>1 DEF RawInv, WorkerOK
  <2>3. WithinRead(wblock[a])
    BY <1>5, <2>2 DEF RawInv, WorkerOK
  <2> QED
    BY <1>1, <2>1, <2>3 DEF WithinRead, Block
<1>6. CASE a = DealerRank /\ b \in Workers
  <2>1. /\ k \in DOMAIN chan[DealerRank][b] /\ chan[DealerRank][b][k].tag = "DATA"
        /\ i \in chan[DealerRank][b][k].body.first .. chan[DealerRank][b][k].body.last
    BY <1>6
  <2>2. WithinRead(chan[DealerRank][b][k].body)
    BY <1>6, <2>1 DEF RawInv, BlocksSent
  <2>3. chan[DealerRank][b][k].body \in Block
    BY <1>6, <2>1, Dealt DEF RawInv, TypeOK
  <2> QED
    BY <1>1, <2>1, <2>2, <2>3 DEF WithinRead, Block
<1>7. CASE a \in Workers /\ b = FarmerRank
  BY <1>7 DEF RawInv, EventsSent, Holds
<1>8. CASE a \in Workers /\ b = OutputRank
  BY <1>8 DEF RawInv, PassedOnSent, Holds
<1> QED
  BY <1>2, <1>3, <1>4, <1>5, <1>6, <1>7, <1>8
-----------------------------------------------------------------------------
(***************************************************************************)
(* What a message that is sent or taken does to the items.                 *)
(***************************************************************************)
LEMMA NothingMoves ==
    ASSUME Somewhere, NowhereElse, pos' = pos,
           \A i \in 1 .. pos : \A c, d \in Ranks, k \in Nat : At(i, c, d, k)' <=> At(i, c, d, k)
    PROVE  Somewhere' /\ NowhereElse'
<1>1. ASSUME NEW i \in 1 .. pos PROVE \E c, d \in Ranks, k \in Nat : At(i, c, d, k)'
  BY DEF Somewhere
<1>2. ASSUME NEW i \in 1 .. pos, NEW c \in Ranks, NEW d \in Ranks, NEW k \in Nat,
             NEW e \in Ranks, NEW f \in Ranks, NEW l \in Nat,
             At(i, c, d, k)', At(i, e, f, l)'
      PROVE  c = e /\ d = f /\ k = l
  BY <1>2 DEF NowhereElse
<1>3. Somewhere'
  BY <1>1 DEF Somewhere
<1>4. NowhereElse'
  BY <1>2 DEF NowhereElse
<1> QED
  BY <1>3, <1>4

\* The farmer's messages to the outputter are not where At looks.
LEMMA FarmerTalks ==
    ASSUME Somewhere, NowhereElse, pos' = pos,
           \A c, d \in Ranks : c # FarmerRank \/ d # OutputRank => Undisturbed(c, d)
    PROVE  Somewhere' /\ NowhereElse'
<1>1. ASSUME NEW i \in 1 .. pos, NEW c \in Ranks, NEW d \in Ranks, NEW k \in Nat
      PROVE  At(i, c, d, k)' <=> At(i, c, d, k)
  <2>1. CASE c = FarmerRank /\ d = OutputRank
    BY <2>1, RankFacts DEF At
  <2>2. CASE c # FarmerRank \/ d # OutputRank
    BY <2>2, AtKept
  <2> QED
    BY <2>1, <2>2
<1> QED
  BY <1>1, NothingMoves

LEMMA Streams ==
    ASSUME RawInv, NEW a \in Ranks, NEW b \in Ranks, Talk(a, b)
    PROVE  a # b /\ chan[a][b] \in Seq(Kind(a, b)) /\ Channels
<1>1. TalkOK
  BY TalkIsMessages DEF RawInv, TypeOK
<1> QED
  BY <1>1, RankFacts DEF TalkOK, Talk

\* Only these places change.
OnlyBetween(a, b) == \A c, d \in Ranks : ~ (c = a /\ d = b) => Undisturbed(c, d)
OnlyThere(a, b, u) ==
    \A c, d \in Ranks : ~ (c = a /\ d = b) /\ ~ (c = u /\ d = u) => Undisturbed(c, d)

\* A message with this tag and body brings the items of S.
Brings(a, tag, body, S) == \A msg : msg.tag = tag /\ msg.body = body => Brought(a, msg) = S

\* The items of S leave the hands of rank a, or come to place m of rank u.
Leave(a, S) == \A i \in 1 .. pos, k \in Nat : At(i, a, a, k)' <=> At(i, a, a, k) /\ i \notin S
Come(u, m, S) == \A i \in 1 .. pos, k \in Nat : At(i, u, u, k)' <=> At(i, u, u, k) \/ (k = m /\ i \in S)

LEMMA SendOnce ==
    ASSUME RawInv, Somewhere, NowhereElse, pos' = pos,
           NEW a \in Ranks \ {FarmerRank}, NEW b \in Ranks, Talk(a, b),
           NEW tag, NEW body, Sends(a, b, tag, body),
           NEW S, Brings(a, tag, body, S), \A i \in S : At(i, a, a, 0), Leave(a, S),
           OnlyThere(a, b, a)
    PROVE  Somewhere' /\ NowhereElse'
<1>1. a # b /\ chan[a][b] \in Seq(Kind(a, b))
  BY Streams
<1>2. PICK m \in Nat : m = Len(chan[a][b]) + 1
  BY <1>1
<1>3. /\ DOMAIN chan[a][b] = 1 .. m - 1 /\ DOMAIN chan'[a][b] = 1 .. m
      /\ \A k \in 1 .. m - 1 : chan'[a][b][k] = chan[a][b][k]
      /\ chan'[a][b][m].tag = tag /\ chan'[a][b][m].body = body
  <2>1. PICK msg : chan'[a][b] = Append(chan[a][b], msg) /\ msg.tag = tag /\ msg.body = body
    BY DEF Sends
  <2>2. chan[a][b] \in Seq(Kind(a, b) \union {msg})
    BY <1>1
  <2>3. /\ Len(chan[a][b]) \in Nat /\ DOMAIN chan[a][b] = 1 .. Len(chan[a][b])
    BY <1>1
  <2> QED
    BY <1>2, <2>1, <2>2, <2>3, Appended
<1>4. Empty(a, b, m)
  BY <1>1, <1>2, <1>3 DEF Empty, At
<1>5. ASSUME NEW i \in 1 .. pos, NEW c \in Ranks, NEW d \in Ranks, NEW k \in Nat
      PROVE  At(i, c, d, k)' <=> IF c = a /\ d = b /\ k = m THEN i \in S
                                 ELSE At(i, c, d, k) /\ (c = a /\ d = a => i \notin S)
  <2>1. CASE c = a /\ d = b /\ k = m
    <3>1. k \in DOMAIN chan'[a][b] /\ Brought(a, chan'[a][b][k]) = S
      BY <1>2, <1>3, <2>1 DEF Brings
    <3> QED
      BY <1>1, <2>1, <3>1 DEF At, Brought
  <2>2. CASE c = a /\ d = b /\ k # m
    <3>1. k \in DOMAIN chan'[a][b] <=> k \in DOMAIN chan[a][b]
      BY <1>2, <1>3, <2>2
    <3>2. k \in DOMAIN chan[a][b] => chan'[a][b][k] = chan[a][b][k]
      BY <1>3
    <3> QED
      BY <1>1, <2>2, <3>1, <3>2 DEF At, Brought
  <2>3. CASE c = a /\ d = a
    BY <1>1, <2>3 DEF Leave
  <2>4. CASE ~ (c = a /\ d \in {a, b})
    BY <2>4, AtKept DEF OnlyThere
  <2> QED
    BY <2>1, <2>2, <2>3, <2>4
<1>6. Put(a, b, m, S)
  BY <1>5 DEF Put
<1> QED
  BY <1>1, <1>4, <1>6, PutOnce

LEMMA TakeOnce ==
    ASSUME RawInv, Somewhere, NowhereElse, pos' = pos,
           NEW a \in Ranks \ {FarmerRank}, NEW b \in Ranks, Talk(a, b), Takes(a, b),
           NEW u \in Ranks, NEW m \in Nat,
           Empty(u, u, m), Come(u, m, Brought(a, chan[a][b][1])), OnlyThere(a, b, u)
    PROVE  Somewhere' /\ NowhereElse'
<1>1. a # b /\ chan[a][b] \in Seq(Kind(a, b))
  BY Streams
<1>2. PICK n \in Nat : n = Len(chan[a][b])
  BY <1>1
<1>3. /\ DOMAIN chan[a][b] = 1 .. n /\ n > 0 /\ DOMAIN chan'[a][b] = 1 .. n - 1
      /\ \A k \in 1 .. n - 1 : chan'[a][b][k] = chan[a][b][k + 1]
  BY <1>1, <1>2, Taken DEF Takes
<1>4. Empty(a, b, 0)
  BY <1>1, <1>2, <1>3 DEF Empty, At
<1>5. \A i : At(i, a, b, 1) <=> i \in Brought(a, chan[a][b][1])
  <2>1. 1 \in DOMAIN chan[a][b]
    BY <1>2, <1>3
  <2> QED
    BY <1>1, <2>1 DEF At
<1>6. ASSUME NEW i \in 1 .. pos, NEW c \in Ranks, NEW d \in Ranks, NEW k \in Nat
      PROVE  At(i, c, d, k)' <=> IF c = a /\ d = b THEN k > 0 /\ At(i, a, b, k + 1)
                                 ELSE \/ At(i, c, d, k)
                                      \/ c = u /\ d = u /\ k = m /\ At(i, a, b, 1)
  <2>1. CASE c = a /\ d = b
    <3>1. k \in DOMAIN chan'[a][b] <=> k > 0 /\ k + 1 \in DOMAIN chan[a][b]
      BY <1>2, <1>3
    <3>2. k \in DOMAIN chan'[a][b] => chan'[a][b][k] = chan[a][b][k + 1]
      BY <1>3
    <3> QED
      BY <1>1, <2>1, <3>1, <3>2 DEF At, Brought
  <2>2. CASE c = u /\ d = u
    <3>1. At(i, u, u, k)' <=> At(i, u, u, k) \/ (k = m /\ At(i, a, b, 1))
      BY <1>5 DEF Come
    <3>2. ~ (c = a /\ d = b)
      BY <1>1, <2>2
    <3> QED
      BY <2>2, <3>1, <3>2
  <2>3. CASE ~ (c = a /\ d = b) /\ ~ (c = u /\ d = u)
    BY <2>3, AtKept DEF OnlyThere
  <2> QED
    BY <2>1, <2>2, <2>3
<1>7. Took(a, b, u, u, m)
  BY <1>6 DEF Took
<1> QED
  BY <1>1, <1>4, <1>7, TookOnce

\* A message that is no data: a header, a request or an end.
LEMMA QuietTake ==
    ASSUME RawInv, Somewhere, NowhereElse, pos' = pos,
           NEW a \in Ranks \ {FarmerRank}, NEW b \in Ranks, Talk(a, b), Takes(a, b),
           chan[a][b][1].tag # "DATA",
           OnlyBetween(a, b)
    PROVE  Somewhere' /\ NowhereElse'
<1>1. Brought(a, chan[a][b][1]) = {} /\ a # b
  BY BroughtFacts, Streams
<1>2. Empty(OutputRank, OutputRank, 0)
  <2>1. 0 \notin DOMAIN written
    BY DEF RawInv, TypeOK, OutputTypeOK
  <2> QED
    BY <2>1, PlacesFacts DEF Places, Empty
<1>3. ASSUME NEW i \in 1 .. pos, NEW k \in Nat
      PROVE  At(i, OutputRank, OutputRank, k)' <=>
                \/ At(i, OutputRank, OutputRank, k)
                \/ k = 0 /\ i \in Brought(a, chan[a][b][1])
  <2>1. Undisturbed(OutputRank, OutputRank)
    BY <1>1, RankFacts DEF OnlyBetween
  <2> QED
    BY <1>1, <2>1, RankFacts, AtKept
<1>4. Come(OutputRank, 0, Brought(a, chan[a][b][1]))
  BY <1>3 DEF Come
<1>5. OnlyThere(a, b, OutputRank)
  BY DEF OnlyThere, OnlyBetween
<1> QED
  BY <1>2, <1>4, <1>5, RankFacts, TakeOnce

LEMMA QuietSend ==
    ASSUME RawInv, Somewhere, NowhereElse, pos' = pos,
           NEW a \in Ranks \ {FarmerRank}, NEW b \in Ranks, Talk(a, b),
           NEW tag, NEW body, Sends(a, b, tag, body), tag # "DATA",
           OnlyBetween(a, b)
    PROVE  Somewhere' /\ NowhereElse'
<1>1. a # b
  BY Streams
<1>2. Brings(a, tag, body, {})
  BY BroughtFacts DEF Brings
<1>3. Leave(a, {})
  <2>1. Undisturbed(a, a)
    BY <1>1 DEF OnlyBetween
  <2> QED
    BY <2>1, AtKept DEF Leave
<1>4. OnlyThere(a, b, a)
  BY DEF OnlyThere, OnlyBetween
<1> QED
  BY <1>2, <1>3, <1>4, SendOnce
-----------------------------------------------------------------------------
(***************************************************************************)
(* The worker's steps.                                                     *)
(***************************************************************************)
LEMMA WorkerElse ==
    ASSUME UNCHANGED <<dealerVars, farmerVars, outputVars>>, NEW w \in Workers,
           NEW a \in Ranks, NEW b \in Ranks,
           \A c, d \in Ranks : c # a \/ d # b => chan'[c][d] = chan[c][d],
           \A v \in Workers \ {w} : wblock'[v] = wblock[v]
    PROVE  /\ pos' = pos /\ OnlyThere(a, b, w)
           /\ wblock'[w] = wblock[w] => OnlyBetween(a, b)
<1>1. pos' = pos /\ block' = block /\ dpc' = dpc /\ given' = given /\ written' = written
  BY DEF dealerVars, farmerVars, sorterVars, outputVars
<1>2. DealerHolds' <=> DealerHolds
  BY <1>1 DEF DealerHolds
<1>3. OnlyThere(a, b, w)
  BY <1>1, <1>2, RankFacts DEF OnlyThere, Undisturbed
<1>4. wblock'[w] = wblock[w] => OnlyBetween(a, b)
  BY <1>1, <1>2, RankFacts DEF OnlyBetween, Undisturbed
<1> QED
  BY <1>1, <1>3, <1>4

LEMMA WorkerSendsQuietly ==
    ASSUME RawInv, Somewhere, NowhereElse, UNCHANGED <<dealerVars, farmerVars, outputVars>>,
           NEW w \in Workers, NEW b \in Ranks, Talk(w, b), NEW tag, NEW body, tag # "DATA",
           Send(w, b, tag, body), wblock' = wblock
    PROVE  Somewhere' /\ NowhereElse'
<1>1. w \in Ranks \ {FarmerRank}
  BY RankFacts
<1>2. Sends(w, b, tag, body)
  BY <1>1, Streams, SendEffect
<1>3. \A c, d \in Ranks : c # w \/ d # b => chan'[c][d] = chan[c][d]
  BY <1>2 DEF Sends
<1>4. pos' = pos /\ OnlyBetween(w, b)
  BY <1>1, <1>3, WorkerElse
<1> QED
  BY <1>1, <1>2, <1>4, QuietSend

LEMMA WorkerSendsItem ==
    ASSUME RawInv, Somewhere, NowhereElse, UNCHANGED <<dealerVars, farmerVars, outputVars>>,
           NEW w \in Workers, NEW b \in Ranks, Talk(w, b), NEW item, item = wblock[w].first,
           WorkerHolds(w), Send(w, b, "DATA", item), NextItem(w)
    PROVE  Somewhere' /\ NowhereElse'
<1>1. w \in Ranks \ {FarmerRank} /\ w # DealerRank
  BY RankFacts
<1>2. Sends(w, b, "DATA", item)
  BY <1>1, Streams, SendEffect
<1>3. \A c, d \in Ranks : c # w \/ d # b => chan'[c][d] = chan[c][d]
  BY <1>2 DEF Sends
<1>4. /\ wblock' = [wblock EXCEPT ![w].first = @ + 1]
      /\ DOMAIN wblock = Workers
      /\ wblock[w] \in Block /\ WithinRead(wblock[w])
  BY WorkerTypes DEF NextItem, WorkerPart, WorkerOK
<1>5. pos' = pos /\ OnlyThere(w, b, w)
  BY <1>1, <1>3, <1>4, WorkerElse
<1>6. Brings(w, "DATA", item, {item})
  BY <1>1, BroughtFacts DEF Brings
<1>7. At(item, w, w, 0)
  BY <1>4, PlacesAre DEF Places, WithinRead, Block
<1>8. Leave(w, {item})
  <2>1. /\ wblock'[w].first = item + 1 /\ wblock'[w].last = wblock[w].last
        /\ item \in Nat /\ wblock[w].last \in Nat
    BY <1>4 DEF Block
  <2>2. \A i : i \in wblock'[w].first .. wblock'[w].last
                  <=> i \in wblock[w].first .. wblock[w].last /\ i # item
    BY <2>1
  <2> QED
    BY <2>2, PlacesAre, PlacesNext DEF Leave, Places
<1> QED
  BY <1>1, <1>2, <1>5, <1>6, <1>7, <1>8, SendOnce

LEMMA WorkerGetsHeader ==
    ASSUME RawInv, Somewhere, NowhereElse, UNCHANGED <<dealerVars, farmerVars, outputVars>>,
           NEW w \in Workers, WorkerGetHeader(w)
    PROVE  Somewhere' /\ NowhereElse'
<1>1. /\ Arrived(DealerRank, w, {"HEADER"}) /\ chan' = Received(DealerRank, w) /\ wblock' = wblock
  BY DEF WorkerGetHeader
<1>2. /\ Talk(DealerRank, w) /\ w \in Ranks
      /\ DealerRank \in Ranks \ {FarmerRank} /\ MessagesOK /\ Unused
  BY TalkFacts, RankFacts, WorkerTypes
<1>3. Takes(DealerRank, w)
  BY <1>1, <1>2, Streams, ReceiveEffect
<1>4. chan[DealerRank][w][1].tag # "DATA"
  <2>1. chan[DealerRank][w][1].tag \in {"HEADER"}
    BY <1>1, <1>2, TalkTaken
  <2> QED
    BY <2>1
<1>5. \A c, d \in Ranks : c # DealerRank \/ d # w => chan'[c][d] = chan[c][d]
  BY <1>3 DEF Takes
<1>6. pos' = pos /\ OnlyBetween(DealerRank, w)
  BY <1>1, <1>2, <1>5, WorkerElse
<1> QED
  BY <1>2, <1>3, <1>4, <1>6, QuietTake

LEMMA WorkerGetsBlock ==
    ASSUME RawInv, Somewhere, NowhereElse, UNCHANGED <<dealerVars, farmerVars, outputVars>>,
           NEW w \in Workers, WorkerGetData(w)
    PROVE  Somewhere' /\ NowhereElse'
<1>1. /\ wpc[w] = "data" /\ Arrived(DealerRank, w, {"DATA"}) /\ chan' = Received(DealerRank, w)
      /\ wblock' = [wblock EXCEPT ![w] = FirstBody(DealerRank, w)]
  BY DEF WorkerGetData
<1>2. /\ Talk(DealerRank, w) /\ w \in Ranks /\ w # DealerRank
      /\ DealerRank \in Ranks \ {FarmerRank} /\ MessagesOK /\ Unused
  BY TalkFacts, RankFacts, WorkerTypes
<1>3. Takes(DealerRank, w)
  BY <1>1, <1>2, Streams, ReceiveEffect
<1>4. chan[DealerRank][w][1].tag = "DATA" /\ Head(chan[DealerRank][w]) = chan[DealerRank][w][1]
  <2>1. chan[DealerRank][w][1].tag \in {"DATA"} /\ Shorter(DealerRank, w)
    BY <1>1, <1>2, TalkTaken
  <2> QED
    BY <2>1 DEF Shorter
<1>5. PICK taken : taken = chan[DealerRank][w][1].body
  OBVIOUS
<1>6. wblock'[w] = taken /\ \A v \in Workers \ {w} : wblock'[v] = wblock[v]
  BY <1>1, <1>4, <1>5, WorkerTypes DEF FirstBody
<1>7. \A c, d \in Ranks : c # DealerRank \/ d # w => chan'[c][d] = chan[c][d]
  BY <1>3 DEF Takes
<1>8. pos' = pos /\ OnlyThere(DealerRank, w, w)
  BY <1>2, <1>6, <1>7, WorkerElse
<1>9. \A i : i \notin wblock[w].first .. wblock[w].last
  <2>1. wblock[w].first > wblock[w].last /\ wblock[w] \in Block
    BY <1>1, WorkerTypes DEF WorkerPart, WorkerOK, WorkerHolds
  <2> QED
    BY <2>1 DEF Block
<1>10. Empty(w, w, 0)
  BY <1>9, PlacesAre DEF Places, Empty
<1>11. Come(w, 0, Brought(DealerRank, chan[DealerRank][w][1]))
  <2>1. \A i : i \in Brought(DealerRank, chan[DealerRank][w][1]) <=> i \in taken.first .. taken.last
    BY <1>4, <1>5, BroughtFacts
  <2>2. \A i, k : ~ At(i, w, w, k)
    BY <1>9, PlacesAre DEF Places
  <2>3. \A i, k : At(i, w, w, k)' <=> k = 0 /\ i \in taken.first .. taken.last
    BY <1>6, PlacesNext DEF Places
  <2> QED
    BY <2>1, <2>2, <2>3 DEF Come
<1> QED
  BY <1>2, <1>3, <1>8, <1>10, <1>11, TakeOnce

LEMMA WorkerOnce ==
    ASSUME RawInv, Somewhere, NowhereElse, UNCHANGED <<dealerVars, farmerVars, outputVars>>,
           NEW w \in Workers, WorkerNext(w)
    PROVE  Somewhere' /\ NowhereElse'
<1>1. /\ Talk(w, DealerRank) /\ Talk(w, FarmerRank) /\ Talk(w, OutputRank)
      /\ DealerRank \in Ranks /\ FarmerRank \in Ranks /\ OutputRank \in Ranks
  BY TalkFacts, RankFacts
<1>2. PICK item, trigger : item = wblock[w].first /\ trigger = wtrigger[w]
  OBVIOUS
<1>3. CASE WorkerRequest(w)
  <2>1. Send(w, DealerRank, "REQUEST", w) /\ wblock' = wblock
    BY <1>3 DEF WorkerRequest
  <2> QED
    BY <1>1, <2>1, WorkerSendsQuietly
<1>4. CASE WorkerSendHeader(w)
  <2>1. Send(w, FarmerRank, "HEADER", trigger) /\ wblock' = wblock
    BY <1>2, <1>4 DEF WorkerSendHeader
  <2> QED
    BY <1>1, <2>1, WorkerSendsQuietly
<1>5. CASE WorkerForwardHeader(w)
  <2>1. Send(w, OutputRank, "PASSTHROUGH", 0) /\ wblock' = wblock
    BY <1>5 DEF WorkerForwardHeader
  <2> QED
    BY <1>1, <2>1, WorkerSendsQuietly
<1>6. CASE WorkerSendEnd(w)
  <2>1. Send(w, FarmerRank, "END", 0) /\ wblock' = wblock
    BY <1>6 DEF WorkerSendEnd
  <2> QED
    BY <1>1, <2>1, WorkerSendsQuietly
<1>7. CASE WorkerSendData(w)
  <2>1. Send(w, FarmerRank, "DATA", item) /\ NextItem(w) /\ WorkerHolds(w)
    BY <1>2, <1>7 DEF WorkerSendData, WorkerHolds
  <2> QED
    BY <1>1, <1>2, <2>1, WorkerSendsItem
<1>8. CASE WorkerForwardData(w)
  <2>1. Send(w, OutputRank, "DATA", item) /\ NextItem(w) /\ WorkerHolds(w)
    BY <1>2, <1>8 DEF WorkerForwardData, WorkerHolds
  <2> QED
    BY <1>1, <1>2, <2>1, WorkerSendsItem
<1> QED
  BY <1>3, <1>4, <1>5, <1>6, <1>7, <1>8, WorkerGetsHeader, WorkerGetsBlock DEF WorkerNext
-----------------------------------------------------------------------------
(***************************************************************************)
(* The dealer's steps.                                                     *)
(***************************************************************************)
LEMMA DealerElse ==
    ASSUME UNCHANGED <<workerVars, farmerVars, outputVars>>, NEW a \in Ranks, NEW b \in Ranks,
           \A c, d \in Ranks : c # a \/ d # b => chan'[c][d] = chan[c][d]
    PROVE  /\ OnlyThere(a, b, DealerRank)
           /\ block' = block /\ (DealerHolds' <=> DealerHolds) => OnlyBetween(a, b)
<1>1. wblock' = wblock /\ given' = given /\ written' = written
  BY DEF workerVars, farmerVars, sorterVars, outputVars
<1>2. OnlyThere(a, b, DealerRank)
  BY <1>1, RankFacts DEF OnlyThere, Undisturbed
<1>3. block' = block /\ (DealerHolds' <=> DealerHolds) => OnlyBetween(a, b)
  BY <1>1, RankFacts DEF OnlyBetween, Undisturbed
<1> QED
  BY <1>2, <1>3

LEMMA DealerSendsQuietly ==
    ASSUME RawInv, Somewhere, NowhereElse, UNCHANGED <<workerVars, farmerVars, outputVars>>,
           pos' = pos, block' = block, DealerHolds' <=> DealerHolds,
           NEW w \in Workers, NEW body, Send(DealerRank, w, "HEADER", body)
    PROVE  Somewhere' /\ NowhereElse'
<1>1. Talk(DealerRank, w) /\ DealerRank \in Ranks \ {FarmerRank} /\ w \in Ranks
  BY RankFacts, TalkFacts
<1>2. Sends(DealerRank, w, "HEADER", body)
  BY <1>1, Streams, SendEffect
<1>3. \A c, d \in Ranks : c # DealerRank \/ d # w => chan'[c][d] = chan[c][d]
  BY <1>2 DEF Sends
<1>4. OnlyBetween(DealerRank, w)
  BY <1>1, <1>3, DealerElse
<1> QED
  BY <1>1, <1>2, <1>4, QuietSend

LEMMA DealerSendsBlock ==
    ASSUME RawInv, Somewhere, NowhereElse, UNCHANGED <<workerVars, farmerVars, outputVars>>,
           DealerSendData
    PROVE  Somewhere' /\ NowhereElse'
<1>1. /\ dpc = "sendData" /\ dpc' = "read" /\ pos' = pos /\ block' = block
  BY DEF DealerSendData
<1>2. PICK w \in Workers : w = dest
  BY DEF RawInv, TypeOK, DealerTypeOK
<1>b. PICK body : body = block
  OBVIOUS
<1>3. Talk(DealerRank, w) /\ DealerRank \in Ranks \ {FarmerRank} /\ w \in Ranks
  BY RankFacts, TalkFacts
<1>4. Sends(DealerRank, w, "DATA", body)
  <2>1. Send(DealerRank, w, "DATA", body)
    BY <1>2, <1>b DEF DealerSendData
  <2> QED
    BY <1>3, <2>1, Streams, SendEffect
<1>5. \A c, d \in Ranks : c # DealerRank \/ d # w => chan'[c][d] = chan[c][d]
  BY <1>4 DEF Sends
<1>6. OnlyThere(DealerRank, w, DealerRank)
  BY <1>3, <1>5, DealerElse
<1>7. PICK S : S = body.first .. body.last
  OBVIOUS
<1>8. Brings(DealerRank, "DATA", body, S)
  BY <1>7, BroughtFacts DEF Brings
<1>9. \A i, k : At(i, DealerRank, DealerRank, k) <=> k = 0 /\ i \in S
  BY <1>1, <1>b, <1>7, PlacesAre DEF Places, DealerHolds
<1>10. \A i, k : ~ At(i, DealerRank, DealerRank, k)'
  BY <1>1, PlacesNext DEF Places, DealerHolds
<1>11. Leave(DealerRank, S)
  BY <1>9, <1>10 DEF Leave
<1> QED
  BY <1>1, <1>3, <1>4, <1>6, <1>8, <1>9, <1>11, SendOnce

LEMMA DealerGetsRequest ==
    ASSUME RawInv, Somewhere, NowhereElse, UNCHANGED <<workerVars, farmerVars, outputVars>>,
           DealerGetRequest
    PROVE  Somewhere' /\ NowhereElse'
<1>1. /\ dpc \in {"request", "eofRequest"} /\ pos' = pos /\ block' = block
      /\ dpc' = IF dpc = "request" THEN "sendHeader" ELSE "sendEof"
  BY DEF DealerGetRequest
<1>2. PICK w \in Workers : Arrived(w, DealerRank, {"REQUEST"}) /\ chan' = Received(w, DealerRank)
  BY DEF DealerGetRequest
<1>3. /\ Talk(w, DealerRank) /\ w \in Ranks \ {FarmerRank} /\ DealerRank \in Ranks
      /\ MessagesOK /\ Unused
  BY TalkFacts, RankFacts, WorkerTypes
<1>4. Takes(w, DealerRank)
  BY <1>2, <1>3, Streams, ReceiveEffect
<1>5. chan[w][DealerRank][1].tag # "DATA"
  <2>1. chan[w][DealerRank][1].tag \in {"REQUEST"}
    BY <1>2, <1>3, TalkTaken
  <2> QED
    BY <2>1
<1>6. \A c, d \in Ranks : c # w \/ d # DealerRank => chan'[c][d] = chan[c][d]
  BY <1>4 DEF Takes
<1>7. DealerHolds' <=> DealerHolds
  BY <1>1 DEF DealerHolds
<1>8. OnlyBetween(w, DealerRank)
  BY <1>1, <1>3, <1>6, <1>7, DealerElse
<1> QED
  BY <1>1, <1>3, <1>4, <1>5, <1>8, QuietTake

\* The items of a block that is read are nowhere yet.
LEMMA DealerReadsOnce ==
    ASSUME RawInv, Somewhere, NowhereElse, GivenAsNumbered,
           UNCHANGED <<workerVars, farmerVars, outputVars>>, DealerRead
    PROVE  Somewhere' /\ NowhereElse'
<1>1. PICK last \in pos + 1 .. Len(file) : block' = [first |-> pos + 1, last |-> last] /\ pos' = last
  BY DEF DealerRead
<1>2. dpc = "read" /\ dpc' = "request" /\ chan' = chan
  BY DEF DealerRead
<1>3. pos \in Nat /\ last \in Nat /\ pos < last
  BY <1>1 DEF RawInv, TypeOK, DealerTypeOK
<1>4. \A i : i \in 1 .. pos' <=> i \in 1 .. pos \/ i \in pos + 1 .. last
  BY <1>1, <1>3
<1>5. OnlyThere(DealerRank, FarmerRank, DealerRank) /\ Undisturbed(DealerRank, FarmerRank)
  BY <1>2, RankFacts, DealerElse DEF Undisturbed
<1>6. \A i, k : /\ ~ At(i, DealerRank, DealerRank, k)
                /\ At(i, DealerRank, DealerRank, k)' <=> k = 0 /\ i \in pos + 1 .. last
  BY <1>1, <1>2, PlacesAre, PlacesNext DEF Places, DealerHolds
<1>7. ASSUME NEW c \in Ranks, NEW d \in Ranks, NEW i, NEW k
      PROVE  At(i, c, d, k)' <=> \/ At(i, c, d, k)
                                 \/ c = DealerRank /\ d = DealerRank /\ k = 0 /\ i \in pos + 1 .. last
  <2>1. CASE c = DealerRank /\ d = DealerRank
    BY <1>6, <2>1
  <2>2. CASE ~ (c = DealerRank /\ d = DealerRank)
    <3>1. Undisturbed(c, d)
      BY <1>5, <2>2 DEF OnlyThere
    <3> QED
      BY <2>2, <3>1, AtKept
  <2> QED
    BY <2>1, <2>2
<1>8. ASSUME NEW c \in Ranks, NEW d \in Ranks, NEW i, NEW k, At(i, c, d, k)
      PROVE  i \in 1 .. pos
  BY <1>8, AtRead
<1>9. \A i \in pos + 1 .. last : \A c, d \in Ranks, k \in Nat : ~ At(i, c, d, k)
  BY <1>3, <1>8
<1>10. ASSUME NEW i \in 1 .. pos' PROVE \E c, d \in Ranks, k \in Nat : At(i, c, d, k)'
  <2>1. CASE i \in 1 .. pos
    <3>1. PICK c \in Ranks, d \in Ranks, k \in Nat : At(i, c, d, k)
      BY <2>1 DEF Somewhere
    <3>2. At(i, c, d, k)'
      BY <1>7, <3>1
    <3> QED
      BY <3>2
  <2>2. CASE i \in pos + 1 .. last
    <3>1. At(i, DealerRank, DealerRank, 0)' /\ DealerRank \in Ranks /\ 0 \in Nat
      BY <1>6, <2>2, RankFacts
    <3> QED
      BY <3>1
  <2> QED
    BY <1>4, <2>1, <2>2
<1>11. ASSUME NEW i \in 1 .. pos', NEW c \in Ranks, NEW d \in Ranks, NEW k \in Nat,
              NEW e \in Ranks, NEW f \in Ranks, NEW l \in Nat,
              At(i, c, d, k)', At(i, e, f, l)'
       PROVE  c = e /\ d = f /\ k = l
  <2>1. CASE i \in 1 .. pos
    <3>1. i \notin pos + 1 .. last
      BY <1>3, <2>1
    <3>2. At(i, c, d, k) /\ At(i, e, f, l)
      BY <1>7, <1>11, <3>1
    <3> QED
      BY <2>1, <3>2 DEF NowhereElse
  <2>2. CASE i \in pos + 1 .. last
    <3>1. ~ At(i, c, d, k) /\ ~ At(i, e, f, l)
      BY <1>9, <2>2
    <3> QED
      BY <1>7, <1>11, <3>1
  <2> QED
    BY <1>4, <2>1, <2>2
<1>12. Somewhere'
  BY <1>10 DEF Somewhere
<1>13. NowhereElse'
  BY <1>11 DEF NowhereElse
<1> QED
  BY <1>12, <1>13

LEMMA DealerOnce ==
    ASSUME RawInv, Somewhere, NowhereElse, GivenAsNumbered,
           UNCHANGED <<workerVars, farmerVars, outputVars>>, DealerNext
    PROVE  Somewhere' /\ NowhereElse'
<1>1. PICK w \in Workers : w = dest
  BY DEF RawInv, TypeOK, DealerTypeOK
<1>t. PICK trigger : trigger = firstTrigger
  OBVIOUS
<1>2. ASSUME chan' = chan, pos' = pos, block' = block, DealerHolds' <=> DealerHolds
      PROVE  Somewhere' /\ NowhereElse'
  <2>1. OnlyBetween(DealerRank, FarmerRank) /\ Undisturbed(DealerRank, FarmerRank)
    BY <1>2, RankFacts, DealerElse DEF Undisturbed
  <2>2. \A c, d \in Ranks : Undisturbed(c, d)
    BY <2>1 DEF OnlyBetween
  <2>3. ASSUME NEW c \in Ranks, NEW d \in Ranks PROVE \A i, k : At(i, c, d, k)' <=> At(i, c, d, k)
    BY <2>2, AtKept
  <2> QED
    BY <1>2, <2>3, NothingMoves
<1>3. CASE DealerEof
  <2>1. /\ chan' = chan /\ pos' = pos /\ block' = block /\ dpc = "read" /\ dpc' = "eofRequest"
    BY <1>3 DEF DealerEof
  <2> QED
    BY <1>2, <2>1 DEF DealerHolds
<1>4. CASE DealerThrow
  <2>1. /\ chan' = chan /\ pos' = pos /\ block' = block /\ dpc = "read" /\ dpc' = "finalize"
    BY <1>4 DEF DealerThrow
  <2> QED
    BY <1>2, <2>1 DEF DealerHolds
<1>5. CASE DealerSendHeader
  <2>1. /\ pos' = pos /\ block' = block /\ dpc = "sendHeader" /\ dpc' = "sendData"
        /\ Send(DealerRank, w, "HEADER", [end |-> FALSE, blockNum |-> trigger])
    BY <1>1, <1>t, <1>5 DEF DealerSendHeader
  <2>2. DealerHolds' <=> DealerHolds
    BY <2>1 DEF DealerHolds
  <2> QED
    BY <2>1, <2>2, DealerSendsQuietly
<1>6. CASE DealerSendEof
  <2>1. /\ pos' = pos /\ block' = block /\ dpc = "sendEof" /\ dpc' \in {"finalize", "eofRequest"}
        /\ Send(DealerRank, w, "HEADER", [end |-> TRUE, blockNum |-> 0])
    BY <1>1, <1>6 DEF DealerSendEof
  <2>2. DealerHolds' <=> DealerHolds
    BY <2>1 DEF DealerHolds
  <2> QED
    BY <2>1, <2>2, DealerSendsQuietly
<1> QED
  BY <1>3, <1>4, <1>5, <1>6, DealerReadsOnce, DealerGetsRequest, DealerSendsBlock DEF DealerNext
-----------------------------------------------------------------------------
(***************************************************************************)
(* The numbers in a file with few events.                                  *)
(***************************************************************************)
LEMMA NumBound ==
    ASSUME FewEvents, file \in Files, NEW i \in 1 .. Len(file), file[i] = "physics"
    PROVE  Num(i) \in Nat /\ Num(i) < CounterMod
<1>1. file \in Seq(ItemKinds)
  BY RawAssumption
<1>2. Len(file) \in Nat /\ DOMAIN file = 1 .. Len(file) /\ i \in Nat \ {0}
  BY <1>1
<1> DEFINE All == {j \in DOMAIN file : file[j] = "physics"}
<1>3. All = PhysicsIn(1, Len(file)) /\ Len(file) + 1 \in Nat \ {0} /\ Len(file) + 1 - 1 = Len(file)
  BY <1>2 DEF PhysicsIn
<1>4. Cardinality(All) = Num(Len(file) + 1) /\ Cardinality(All) <= CounterMod
  <2>1. Cardinality(All) = Num(Len(file) + 1)
    <3>1. Num(Len(file) + 1) = Cardinality(PhysicsIn(1, Len(file)))
      BY <1>3 DEF Num
    <3> HIDE DEF All
    <3> QED
      BY <1>3, <3>1
  <2>2. Cardinality(All) <= CounterMod
    BY DEF FewEvents
  <2> QED
    BY <2>1, <2>2
<1>5. Num(i) \in Nat /\ Num(i + 1) = Num(i) + 1
  BY <1>1, <1>2, NumType, NumStep
<1>6. Num(i + 1) <= Num(Len(file) + 1) /\ Num(Len(file) + 1) \in Nat
  <2>1. i + 1 \in Nat \ {0} /\ i + 1 <= Len(file) + 1
    BY <1>2
  <2> QED
    BY <1>1, <1>3, <2>1, NumGrows, NumType
<1> HIDE DEF All
<1>7. CounterMod \in Nat
  BY RawAssumption
<1> QED
  BY <1>4, <1>5, <1>6, <1>7

\* No two events have one number.
LEMMA NumUnique ==
    ASSUME file \in Seq(ItemKinds), NEW i \in Nat \ {0}, NEW j \in Nat \ {0},
           file[i] = "physics", file[j] = "physics", Num(i) = Num(j)
    PROVE  i = j
<1>1. ASSUME NEW a \in Nat \ {0}, NEW b \in Nat \ {0}, file[a] = "physics", a < b
      PROVE  Num(a) < Num(b)
  <2>1. Num(a + 1) = Num(a) + 1 /\ Num(a) \in Nat /\ Num(b) \in Nat
    BY <1>1, NumStep, NumType
  <2>2. a + 1 \in Nat \ {0} /\ a + 1 <= b
    BY <1>1
  <2>3. Num(a + 1) <= Num(b)
    BY <2>2, NumGrows
  <2> QED
    BY <2>1, <2>3
<1>2. Num(i) \in Nat /\ Num(j) \in Nat
  BY NumType
<1>3. ~ (i < j) /\ ~ (j < i)
  BY <1>1, <1>2
<1> QED
  BY <1>3
-----------------------------------------------------------------------------
(***************************************************************************)
(* The farmer's steps.  An event it takes has the number that its place in *)
(* the file gives it, and this number is new to the sorter: the event that *)
(* has it is here, and nowhere else.                                       *)
(***************************************************************************)
Fresh(w, t, i) ==
    /\ chan[w][FarmerRank][1].tag = "DATA" /\ chan[w][FarmerRank][1].body = i
    /\ Takes(w, FarmerRank)
    /\ t \in Triggers /\ i \in 1 .. pos /\ file[i] = "physics" /\ Num(i) = t
    /\ t \notin DOMAIN given
    /\ [trigger |-> t, event |-> i] \in Item
    /\ AddItem([trigger |-> t, event |-> i])

LEMMA FreshEvent ==
    ASSUME FewEvents, RawInv, NowhereElse, GivenAsNumbered, FarmerGetData, UNCHANGED outputVars
    PROVE  \E w \in Workers : \E t, i : Fresh(w, t, i)
<1>1. FarmerOK
  BY RawInvFarmer
<1>2. PICK w \in Workers : w = fheader.source
  BY <1>1 DEF FarmerOK, EndsTypeOK, FarmerTypeOK
<1>3. PICK t, i : t = fheader.trigger /\ i = chan[fheader.source][FarmerRank][1].body
  OBVIOUS
<1>4. /\ chan[w][FarmerRank][1].tag = "DATA" /\ chan[w][FarmerRank][1].body = i
      /\ Takes(w, FarmerRank)
      /\ [trigger |-> t, event |-> i] \in Item
      /\ AddItem([trigger |-> t, event |-> i])
  BY <1>1, <1>2, <1>3, FarmerGetDataOK DEF Takes
<1>5. 1 \in DOMAIN chan[w][FarmerRank]
  <2>1. chan[w][FarmerRank] \in Seq(EventMessages) /\ chan[w][FarmerRank] # <<>>
    BY <1>4 DEF RawInv, TypeOK, MessagesOK, StreamsOK, Takes
  <2> QED
    BY <2>1
<1>6. /\ i \in 1 .. pos /\ file[i] = "physics" /\ RightFor(Before(w, 1).body, i)
  BY <1>4, <1>5 DEF RawInv, EventsSent
<1>7. Before(w, 1).body = t
  BY <1>2, <1>3 DEF Before, FarmerGetData
<1>8. i \in 1 .. Len(file) /\ file \in Files /\ file \in Seq(ItemKinds) /\ pos \in Nat
  BY <1>6 DEF RawInv, TypeOK, DealerTypeOK
<1>9. Num(i) = t
  BY <1>6, <1>7, <1>8, NumBound DEF RightFor
<1>10. t \in Triggers /\ t \in Nat
  BY <1>1, <1>3 DEF FarmerOK, EndsTypeOK, FarmerTypeOK, Triggers
<1>11. t \notin DOMAIN given
  <2>1. SUFFICES ASSUME t \in DOMAIN given PROVE FALSE
    OBVIOUS
  <2>2. given[t] \in 1 .. pos /\ file[given[t]] = "physics" /\ Num(given[t]) = t
    BY <2>1 DEF GivenAsNumbered
  <2>3. given[t] = i
    <3>1. given[t] \in Nat \ {0} /\ i \in Nat \ {0}
      BY <1>6, <1>8, <2>2
    <3> QED
      BY <1>6, <1>8, <1>9, <2>2, <3>1, NumUnique
  <2>4. At(i, FarmerRank, FarmerRank, t) /\ At(i, w, FarmerRank, 1)
    BY <1>4, <1>5, <2>1, <2>3, PlacesAre DEF Places, Holds
  <2>5. w \in Ranks /\ FarmerRank \in Ranks /\ w # FarmerRank /\ 1 \in Nat
    BY RankFacts
  <2> QED
    BY <1>6, <1>10, <2>4, <2>5 DEF NowhereElse
<1>12. Fresh(w, t, i)
  BY <1>4, <1>6, <1>9, <1>10, <1>11 DEF Fresh
<1> QED
  BY <1>12

LEMMA FarmerElse ==
    ASSUME UNCHANGED <<dealerVars, workerVars, outputVars>>, NEW a \in Ranks, NEW b \in Ranks,
           \A c, d \in Ranks : c # a \/ d # b => chan'[c][d] = chan[c][d]
    PROVE  /\ pos' = pos /\ OnlyThere(a, b, FarmerRank)
           /\ given' = given => OnlyBetween(a, b)
<1>1. /\ pos' = pos /\ block' = block /\ dpc' = dpc
      /\ wblock' = wblock /\ written' = written
  BY DEF dealerVars, workerVars, outputVars
<1>2. DealerHolds' <=> DealerHolds
  BY <1>1 DEF DealerHolds
<1>3. OnlyThere(a, b, FarmerRank)
  BY <1>1, <1>2, RankFacts DEF OnlyThere, Undisturbed
<1>4. given' = given => OnlyBetween(a, b)
  BY <1>1, <1>2, RankFacts DEF OnlyBetween, Undisturbed
<1> QED
  BY <1>1, <1>3, <1>4

LEMMA FarmerTakesQuietly ==
    ASSUME RawInv, Somewhere, NowhereElse, UNCHANGED <<dealerVars, workerVars, outputVars>>,
           given' = given, NEW w \in Workers, NEW tag, tag # "DATA", StreamTaken(w, tag)
    PROVE  Somewhere' /\ NowhereElse'
<1>1. Talk(w, FarmerRank) /\ w \in Ranks \ {FarmerRank} /\ FarmerRank \in Ranks
  BY TalkFacts, RankFacts
<1>2. Takes(w, FarmerRank) /\ chan[w][FarmerRank][1].tag # "DATA"
  BY DEF StreamTaken
<1>3. \A c, d \in Ranks : c # w \/ d # FarmerRank => chan'[c][d] = chan[c][d]
  BY <1>2 DEF Takes
<1>4. pos' = pos /\ OnlyBetween(w, FarmerRank)
  BY <1>1, <1>3, FarmerElse
<1> QED
  BY <1>1, <1>2, <1>4, QuietTake

LEMMA FarmerSendsOn ==
    ASSUME RawInv, Somewhere, NowhereElse, UNCHANGED <<dealerVars, workerVars, outputVars>>,
           given' = given, NEW tag, NEW body, Send(FarmerRank, OutputRank, tag, body)
    PROVE  Somewhere' /\ NowhereElse'
<1>1. Talk(FarmerRank, OutputRank) /\ FarmerRank \in Ranks /\ OutputRank \in Ranks
  BY TalkFacts, RankFacts
<1>2. Sends(FarmerRank, OutputRank, tag, body)
  BY <1>1, Streams, SendEffect
<1>3. \A c, d \in Ranks : c # FarmerRank \/ d # OutputRank => chan'[c][d] = chan[c][d]
  BY <1>2 DEF Sends
<1>4. pos' = pos /\ OnlyBetween(FarmerRank, OutputRank)
  BY <1>1, <1>3, FarmerElse
<1>5. \A c, d \in Ranks : c # FarmerRank \/ d # OutputRank => Undisturbed(c, d)
  BY <1>4 DEF OnlyBetween
<1> QED
  BY <1>4, <1>5, FarmerTalks

LEMMA FarmerTakesEvent ==
    ASSUME RawInv, Somewhere, NowhereElse, UNCHANGED <<dealerVars, workerVars, outputVars>>,
           NEW w \in Workers, NEW t, NEW i, Fresh(w, t, i)
    PROVE  Somewhere' /\ NowhereElse'
<1>1. Talk(w, FarmerRank) /\ w \in Ranks \ {FarmerRank} /\ FarmerRank \in Ranks /\ w # DealerRank
  BY TalkFacts, RankFacts
<1>2. /\ Takes(w, FarmerRank) /\ chan[w][FarmerRank][1].tag = "DATA"
      /\ chan[w][FarmerRank][1].body = i /\ t \in Nat /\ t \notin DOMAIN given
  BY DEF Fresh, Triggers
<1>3. \A c, d \in Ranks : c # w \/ d # FarmerRank => chan'[c][d] = chan[c][d]
  BY <1>2 DEF Takes
<1>4. pos' = pos /\ OnlyThere(w, FarmerRank, FarmerRank)
  BY <1>1, <1>3, FarmerElse
<1>5. given' = Holding(given, [trigger |-> t, event |-> i])
  BY DEF Fresh, AddItem
<1>6. \A j, k : k \in DOMAIN given' /\ given'[k] = j
                   <=> (k \in DOMAIN given /\ given[k] = j) \/ (k = t /\ j = i)
  BY <1>2, <1>5 DEF Holding
<1>7. Brought(w, chan[w][FarmerRank][1]) = {i}
  BY <1>1, <1>2, BroughtFacts
<1>8. Empty(FarmerRank, FarmerRank, t)
  BY <1>2, PlacesAre DEF Empty, Places
<1>9. Come(FarmerRank, t, {i})
  BY <1>6, PlacesAre, PlacesNext DEF Come, Places
<1> QED
  BY <1>1, <1>2, <1>4, <1>7, <1>8, <1>9, TakeOnce

LEMMA FarmerOnce ==
    ASSUME FewEvents, RawInv, Somewhere, NowhereElse, GivenAsNumbered,
           UNCHANGED <<dealerVars, workerVars, outputVars>>, FarmerNext
    PROVE  Somewhere' /\ NowhereElse'
<1>1. FarmerOK /\ UNCHANGED outputVars
  BY RawInvFarmer
<1>2. CASE FarmerGetHeader
  <2>1. PICK w \in Workers : StreamTaken(w, "HEADER")
    BY <1>1, <1>2, FarmerTakesHeader
  <2>2. given' = given
    BY <1>2 DEF FarmerGetHeader, sorterVars
  <2> QED
    BY <2>1, <2>2, FarmerTakesQuietly
<1>3. CASE FarmerGetData
  BY <1>1, <1>3, FreshEvent, FarmerTakesEvent
<1>4. CASE FarmerGetEnd
  <2>1. PICK w \in Workers : StreamTaken(w, "END")
    BY <1>1, <1>4, FarmerTakesEnd
  <2>2. given' = given
    BY <1>4 DEF FarmerGetEnd, sorterVars, Flush
  <2> QED
    BY <2>1, <2>2, FarmerTakesQuietly
<1>5. PICK trigger, event : trigger = emitted[fsent + 1].trigger /\ event = emitted[fsent + 1].event
  OBVIOUS
<1>6. CASE FarmerEmitHeader
  <2>1. Send(FarmerRank, OutputRank, "HEADER", trigger) /\ given' = given
    BY <1>5, <1>6 DEF FarmerEmitHeader, sorterVars
  <2> QED
    BY <2>1, FarmerSendsOn
<1>7. CASE FarmerEmitData
  <2>1. Send(FarmerRank, OutputRank, "DATA", event) /\ given' = given
    BY <1>5, <1>7 DEF FarmerEmitData, sorterVars
  <2> QED
    BY <2>1, FarmerSendsOn
<1>8. CASE FarmerSendEnd
  <2>1. Send(FarmerRank, OutputRank, "END", 0) /\ given' = given
    BY <1>8 DEF FarmerSendEnd, sorterVars
  <2> QED
    BY <2>1, FarmerSendsOn
<1> QED
  BY <1>2, <1>3, <1>4, <1>6, <1>7, <1>8 DEF FarmerNext
-----------------------------------------------------------------------------
(***************************************************************************)
(* The outputter's steps.                                                  *)
(***************************************************************************)
LEMMA OutputElse ==
    ASSUME UNCHANGED <<dealerVars, workerVars, farmerVars>>, NEW a \in Ranks, NEW b \in Ranks,
           \A c, d \in Ranks : c # a \/ d # b => chan'[c][d] = chan[c][d]
    PROVE  /\ pos' = pos /\ OnlyThere(a, b, OutputRank)
           /\ written' = written => OnlyBetween(a, b)
<1>1. /\ pos' = pos /\ block' = block /\ dpc' = dpc
      /\ wblock' = wblock /\ given' = given
  BY DEF dealerVars, workerVars, farmerVars, sorterVars
<1>2. DealerHolds' <=> DealerHolds
  BY <1>1 DEF DealerHolds
<1>3. OnlyThere(a, b, OutputRank)
  BY <1>1, <1>2, RankFacts DEF OnlyThere, Undisturbed
<1>4. written' = written => OnlyBetween(a, b)
  BY <1>1, <1>2, RankFacts DEF OnlyBetween, Undisturbed
<1> QED
  BY <1>1, <1>3, <1>4

\* What comes from the farmer moves no item, whether it is written or not.
LEMMA OutputHears ==
    ASSUME RawInv, Somewhere, NowhereElse, UNCHANGED <<dealerVars, workerVars, farmerVars>>,
           Takes(FarmerRank, OutputRank),
           \A i, k : At(i, OutputRank, OutputRank, k)' <=> At(i, OutputRank, OutputRank, k)
    PROVE  Somewhere' /\ NowhereElse'
<1>1. \A c, d \in Ranks : c # FarmerRank \/ d # OutputRank => chan'[c][d] = chan[c][d]
  BY DEF Takes
<1>2. pos' = pos /\ OnlyThere(FarmerRank, OutputRank, OutputRank)
  BY <1>1, RankFacts, OutputElse
<1>3. ASSUME NEW i \in 1 .. pos, NEW c \in Ranks, NEW d \in Ranks, NEW k \in Nat
      PROVE  At(i, c, d, k)' <=> At(i, c, d, k)
  <2>1. CASE c = FarmerRank /\ d = OutputRank
    BY <2>1, RankFacts DEF At
  <2>2. CASE c = OutputRank /\ d = OutputRank
    BY <2>2
  <2>3. CASE ~ (c = FarmerRank /\ d = OutputRank) /\ ~ (c = OutputRank /\ d = OutputRank)
    BY <1>2, <2>3, AtKept DEF OnlyThere
  <2> QED
    BY <2>1, <2>2, <2>3
<1> QED
  BY <1>2, <1>3, NothingMoves

LEMMA OutputTalkers ==
    ASSUME RawInv, NEW r \in Ranks, chan[r][OutputRank] # <<>>
    PROVE  r = FarmerRank \/ r \in Workers
BY RankFacts DEF RawInv, Unused

LEMMA OutputOnce ==
    ASSUME RawInv, Somewhere, NowhereElse, UNCHANGED <<dealerVars, workerVars, farmerVars>>,
           OutputNext
    PROVE  Somewhere' /\ NowhereElse'
<1>1. FarmerOK /\ Delivery /\ UNCHANGED farmerVars /\ Channels
  BY RawInvFarmer DEF FarmerOK, EndsTypeOK
<1>2. written \in Seq(FileRecord)
  BY OutputTypeRecord DEF RawInv, TypeOK
<1>3. CASE OutputGetHeader
  <2>1. PICK r \in Sources : /\ Arrived(r, OutputRank, {"HEADER", "PASSTHROUGH"})
                             /\ chan' = Received(r, OutputRank)
    BY <1>3 DEF OutputGetHeader, OutputRank
  <2>2. written' = written
    BY <1>3 DEF OutputGetHeader
  <2>3. Takes(r, OutputRank) /\ r \in Ranks /\ chan[r][OutputRank] # <<>> /\ OutputRank \in Ranks
    BY <1>1, <2>1, RankFacts, ReceiveEffect DEF Arrived
  <2>4. CASE r = FarmerRank
    <3>1. \A i, k : At(i, OutputRank, OutputRank, k)' <=> At(i, OutputRank, OutputRank, k)
      BY <2>2, PlacesAre, PlacesNext DEF Places
    <3> QED
      BY <2>3, <2>4, <3>1, OutputHears
  <2>5. CASE r \in Workers
    <3>1. Talk(r, OutputRank) /\ r \in Ranks \ {FarmerRank} /\ MessagesOK /\ Unused
      BY <2>5, TalkFacts, RankFacts, WorkerTypes
    <3>2. chan[r][OutputRank][1].tag # "DATA"
      <4>1. chan[r][OutputRank][1].tag \in {"HEADER", "PASSTHROUGH"}
        BY <2>1, <2>3, <3>1, TalkTaken
      <4> QED
        BY <4>1
    <3>3. \A c, d \in Ranks : c # r \/ d # OutputRank => chan'[c][d] = chan[c][d]
      BY <2>3 DEF Takes
    <3>4. pos' = pos /\ OnlyBetween(r, OutputRank)
      BY <2>2, <2>3, <3>3, OutputElse
    <3> QED
      BY <2>3, <3>1, <3>2, <3>4, QuietTake
  <2> QED
    BY <2>3, <2>4, <2>5, OutputTalkers
<1>4. CASE OutputEvent
  <2>1. Takes(FarmerRank, OutputRank)
    BY <1>1, <1>4, OutputEventOK
  <2>2. PICK record : written' = Append(written, record) /\ record.kind = "event"
    BY <1>4 DEF OutputEvent
  <2>3. \A i, k : At(i, OutputRank, OutputRank, k)' <=> At(i, OutputRank, OutputRank, k)
    <3>1. /\ DOMAIN written' = 1 .. Len(written) + 1 /\ DOMAIN written = 1 .. Len(written)
          /\ Len(written) \in Nat
          /\ \A k \in 1 .. Len(written) : written'[k] = written[k]
          /\ written'[Len(written) + 1] = record
      <4>1. written \in Seq(FileRecord \union {record})
        BY <1>2
      <4> QED
        BY <2>2, <4>1, Appended
    <3>2. \A k : k \in DOMAIN written' <=> k \in DOMAIN written \/ k = Len(written) + 1
      BY <3>1
    <3>3. "event" # "item"
      OBVIOUS
    <3> QED
      BY <2>2, <3>1, <3>2, <3>3, PlacesAre, PlacesNext DEF Places
  <2> QED
    BY <2>1, <2>3, OutputHears
<1>5. CASE OutputGetEnd
  <2>1. Takes(FarmerRank, OutputRank)
    BY <1>1, <1>5, OutputGetEndOK
  <2>2. written' = written
    BY <1>5 DEF OutputGetEnd
  <2>3. \A i, k : At(i, OutputRank, OutputRank, k)' <=> At(i, OutputRank, OutputRank, k)
    BY <2>2, PlacesAre, PlacesNext DEF Places
  <2> QED
    BY <2>1, <2>3, OutputHears
<1>6. CASE OutputItem
  <2>1. PICK r \in Ranks : r = oheader.source /\ r # OutputRank /\ r # FarmerRank
    BY <1>1, <1>6, OutputItemOK, RankFacts
  <2>2. PICK i : i = chan[oheader.source][OutputRank][1].body
    OBVIOUS
  <2>3. /\ Takes(r, OutputRank) /\ chan[r][OutputRank][1].tag = "DATA"
        /\ chan[r][OutputRank][1].body = i
        /\ written' = Append(written, [kind |-> "item", trigger |-> 0, data |-> i])
    BY <1>1, <1>6, <2>1, <2>2, OutputItemOK DEF Takes
  <2>4. /\ r \in Workers /\ Talk(r, OutputRank) /\ r \in Ranks \ {FarmerRank}
        /\ OutputRank \in Ranks /\ r # DealerRank
    <3>1. r \in Workers
      BY <2>1, <2>3, OutputTalkers DEF Takes
    <3> QED
      BY <3>1, TalkFacts, RankFacts
  <2>5. \A c, d \in Ranks : c # r \/ d # OutputRank => chan'[c][d] = chan[c][d]
    BY <2>3 DEF Takes
  <2>6. pos' = pos /\ OnlyThere(r, OutputRank, OutputRank)
    BY <2>4, <2>5, OutputElse
  <2>7. Brought(r, chan[r][OutputRank][1]) = {i}
    BY <2>3, <2>4, BroughtFacts
  <2>8. PICK m \in Nat : m = Len(written) + 1
    BY <1>2
  <2>9. PICK record : record = [kind |-> "item", trigger |-> 0, data |-> i]
    OBVIOUS
  <2>10. /\ DOMAIN written' = 1 .. m /\ DOMAIN written = 1 .. m - 1
         /\ \A k \in 1 .. m - 1 : written'[k] = written[k]
         /\ written'[m] = record
    <3>1. written \in Seq(FileRecord \union {record})
      BY <1>2
    <3>2. Len(written) = m - 1 /\ Len(written) + 1 = m
      BY <1>2, <2>8
    <3> QED
      BY <2>3, <2>9, <3>1, <3>2, Appended
  <2>11. \A k : k \in DOMAIN written' <=> k \in DOMAIN written \/ k = m
    BY <2>8, <2>10
  <2>12. m \notin DOMAIN written
    BY <2>8, <2>10
  <2>13. \A j, k : k \in DOMAIN written' /\ written'[k].kind = "item" /\ written'[k].data = j
                     <=> \/ k \in DOMAIN written /\ written[k].kind = "item" /\ written[k].data = j
                         \/ k = m /\ j = i
    BY <2>9, <2>10, <2>11, <2>12
  <2>14. Come(OutputRank, m, {i})
    BY <2>13, PlacesAre, PlacesNext DEF Come, Places
  <2>15. Empty(OutputRank, OutputRank, m)
    BY <2>12, PlacesAre DEF Empty, Places
  <2> QED
    BY <2>3, <2>4, <2>6, <2>7, <2>14, <2>15, TakeOnce
<1> QED
  BY <1>3, <1>4, <1>5, <1>6 DEF OutputNext
-----------------------------------------------------------------------------
(***************************************************************************)
(* The sorter is used as TriggerSorter demands, step by step.              *)
(***************************************************************************)
LEMMA SorterSteps ==
    ASSUME FewEvents, RawInv, NowhereElse, GivenAsNumbered, [Next]_vars
    PROVE  [SorterNext]_sorterVars
<1>1. FarmerControl
  BY DEF RawInv
<1>2. CASE FarmerStep
  <2>1. FarmerNext /\ UNCHANGED outputVars
    BY <1>2 DEF FarmerStep
  <2>2. CASE FarmerGetData
    <3>1. PICK w \in Workers : \E t, i : Fresh(w, t, i)
      BY <2>1, <2>2, FreshEvent
    <3>2. PICK t, i : Fresh(w, t, i)
      BY <3>1
    <3>3. /\ [trigger |-> t, event |-> i] \in Item /\ t \notin DOMAIN given
          /\ AddItem([trigger |-> t, event |-> i])
      BY <3>2 DEF Fresh
    <3>4. ~ flushed
      BY <1>1, <2>2 DEF FarmerControl, FarmerGetData
    <3> QED
      BY <3>3, <3>4 DEF SorterNext
  <2>3. CASE FarmerGetEnd
    <3>1. ~ flushed
      BY <1>1, <2>3 DEF FarmerControl, FarmerGetEnd
    <3>2. Flush \/ UNCHANGED sorterVars
      BY <2>3 DEF FarmerGetEnd
    <3> QED
      BY <3>1, <3>2 DEF SorterNext
  <2>4. CASE FarmerGetHeader \/ FarmerEmitHeader \/ FarmerEmitData \/ FarmerSendEnd
    BY <2>4 DEF FarmerGetHeader, FarmerEmitHeader, FarmerEmitData, FarmerSendEnd
  <2> QED
    BY <2>1, <2>2, <2>3, <2>4 DEF FarmerNext
<1>3. CASE UNCHANGED farmerVars
  BY <1>3 DEF farmerVars
<1>4. FarmerStep \/ UNCHANGED farmerVars
  BY DEF Next, DealerStep, OutputStep, WorkerStep, Finished, vars
<1> QED
  BY <1>2, <1>3, <1>4

LEMMA FileKept == [Next]_vars => file' = file
BY DEF Next, DealerStep, DealerNext, DealerRead, DealerEof, DealerThrow, DealerGetRequest,
       DealerSendHeader, DealerSendData, DealerSendEof, FarmerStep, OutputStep, WorkerStep,
       Finished, vars, dealerVars

LEMMA GivenStep ==
    ASSUME FewEvents, RawInv, RawInv', NowhereElse, GivenAsNumbered, [Next]_vars
    PROVE  GivenAsNumbered'
<1>1. pos \in Nat /\ pos' \in Nat /\ file' = file
  BY FileKept DEF RawInv, TypeOK, DealerTypeOK
<1>2. pos <= pos'
  <2>1. DealerRead => pos < pos'
    <3>1. ASSUME DealerRead PROVE pos < pos'
      <4>1. PICK last \in pos + 1 .. Len(file) : pos' = last
        BY <3>1 DEF DealerRead
      <4> QED
        BY <1>1, <4>1 DEF RawInv, TypeOK, DealerTypeOK
    <3> QED
      BY <3>1
  <2>2. DealerRead \/ pos' = pos
    BY DEF Next, DealerStep, DealerNext, DealerEof, DealerThrow, DealerGetRequest,
           DealerSendHeader, DealerSendData, DealerSendEof, FarmerStep, OutputStep, WorkerStep,
           Finished, vars, dealerVars
  <2> QED
    BY <1>1, <2>1, <2>2
<1>3. ASSUME NEW t \in DOMAIN given', given'[t] \in 1 .. pos, file[given'[t]] = "physics",
             Num(given'[t]) = t
      PROVE  /\ given'[t] \in 1 .. pos' /\ file'[given'[t]] = "physics"
             /\ Num(given[t])' = t
  <2>1. given'[t] \in 1 .. pos'
    BY <1>1, <1>2, <1>3
  <2>2. Num(given[t])' = Num(given'[t])
    BY <1>1 DEF Num, PhysicsIn
  <2> QED
    BY <1>1, <1>3, <2>1, <2>2
<1>4. CASE given' = given
  <2>1. ASSUME NEW t \in DOMAIN given'
        PROVE  given'[t] \in 1 .. pos /\ file[given'[t]] = "physics" /\ Num(given'[t]) = t
    BY <1>4 DEF GivenAsNumbered
  <2> QED
    BY <1>3, <2>1 DEF GivenAsNumbered
<1>5. CASE FarmerStep /\ FarmerGetData
  <2>1. UNCHANGED outputVars
    BY <1>5 DEF FarmerStep
  <2>2. PICK w \in Workers : \E t, i : Fresh(w, t, i)
    BY <1>5, <2>1, FreshEvent
  <2>3. PICK t, i : Fresh(w, t, i)
    BY <2>2
  <2>4. /\ given' = Holding(given, [trigger |-> t, event |-> i])
        /\ i \in 1 .. pos /\ file[i] = "physics" /\ Num(i) = t
    BY <2>3 DEF Fresh, AddItem
  <2>5. ASSUME NEW s \in DOMAIN given'
        PROVE  given'[s] \in 1 .. pos /\ file[given'[s]] = "physics" /\ Num(given'[s]) = s
    <3>1. CASE s = t
      <4>1. given'[s] = i
        BY <2>4, <3>1 DEF Holding
      <4> QED
        BY <2>4, <3>1, <4>1
    <3>2. CASE s # t
      <4>1. s \in DOMAIN given /\ given'[s] = given[s]
        BY <2>4, <3>2 DEF Holding
      <4> QED
        BY <4>1 DEF GivenAsNumbered
    <3> QED
      BY <3>1, <3>2
  <2> QED
    BY <1>3, <2>5 DEF GivenAsNumbered
<1>6. given' = given \/ (FarmerStep /\ FarmerGetData)
  <2>1. FarmerStep \/ UNCHANGED farmerVars
    BY DEF Next, DealerStep, OutputStep, WorkerStep, Finished, vars
  <2>2. FarmerStep => FarmerGetData \/ given' = given
    BY DEF FarmerStep, FarmerNext, FarmerGetHeader, FarmerGetEnd, FarmerEmitHeader,
           FarmerEmitData, FarmerSendEnd, Flush, sorterVars
  <2> QED
    BY <2>1, <2>2 DEF farmerVars, sorterVars
<1> QED
  BY <1>4, <1>5, <1>6

LEMMA OnceStep ==
    ASSUME FewEvents, RawInv, Somewhere, NowhereElse, GivenAsNumbered, [Next]_vars
    PROVE  Somewhere' /\ NowhereElse'
<1>1. CASE DealerStep
  BY <1>1, DealerOnce DEF DealerStep
<1>2. CASE FarmerStep
  BY <1>2, FarmerOnce DEF FarmerStep
<1>3. CASE OutputStep
  BY <1>3, OutputOnce DEF OutputStep
<1>4. ASSUME NEW w \in Workers, WorkerStep(w) PROVE Somewhere' /\ NowhereElse'
  BY <1>4, WorkerOnce DEF WorkerStep
<1>5. CASE UNCHANGED vars
  <2>1. /\ chan' = chan /\ block' = block /\ dpc' = dpc /\ pos' = pos
        /\ wblock' = wblock /\ given' = given /\ written' = written
    BY <1>5 DEF vars, dealerVars, workerVars, farmerVars, sorterVars, outputVars
  <2>2. \A c, d \in Ranks : Undisturbed(c, d)
    BY <2>1 DEF Undisturbed, DealerHolds
  <2>3. ASSUME NEW c \in Ranks, NEW d \in Ranks PROVE \A i, k : At(i, c, d, k)' <=> At(i, c, d, k)
    BY <2>2, AtKept
  <2> QED
    BY <2>1, <2>3, NothingMoves
<1> QED
  BY <1>1, <1>2, <1>3, <1>4, <1>5 DEF Next, Finished
-----------------------------------------------------------------------------
(***************************************************************************)
(* When the sorter is flushed it has been given every event of the file.   *)
(***************************************************************************)
EverythingGiven == DOMAIN given = {t \in Triggers : t < Num(Len(file) + 1)}

\* Every number below that of the end of the file is the number of an event.
LEMMA NumOnto ==
    ASSUME file \in Seq(ItemKinds), NEW t \in Nat, t < Num(Len(file) + 1)
    PROVE  \E i \in 1 .. Len(file) : file[i] = "physics" /\ Num(i) = t
<1>1. PICK n \in Nat : n = Len(file)
  OBVIOUS
<1>2. n + 1 \in Nat \ {0} /\ n + 1 - 1 = n
  OBVIOUS
<1>3. PICK S : S = PhysicsIn(1, n)
  OBVIOUS
<1>4. S \in SUBSET Nat /\ S \subseteq 1 .. n /\ IsFiniteSet(S) /\ \A i \in S : file[i] = "physics"
  <2>1. IsFiniteSet(S) /\ 1 \in Nat
    BY <1>3, PhysicsFinite
  <2> QED
    BY <1>3, <2>1 DEF PhysicsIn
<1>5. Cardinality(S) = Num(n + 1)
  BY <1>2, <1>3 DEF Num
<1>6. t + 1 \in 1 .. Cardinality(S) /\ Cardinality(S) \in Nat
  <2>1. Cardinality(S) \in Nat
    BY <1>4, FS_CardinalityType
  <2> QED
    BY <1>1, <1>5, <2>1
<1>7. PICK i \in S : Cardinality({y \in S : y <= i}) = t + 1
  BY <1>4, <1>6, InOrderMembers
<1>8. i \in Nat \ {0} /\ i <= n /\ file[i] = "physics"
  BY <1>4
<1>9. Num(i + 1) = t + 1
  <2>1. {y \in S : y <= i} = PhysicsIn(1, i)
    BY <1>3, <1>8 DEF PhysicsIn
  <2>2. PICK j : j = i + 1 /\ j - 1 = i
    BY <1>8
  <2>3. Num(i + 1) = Cardinality(PhysicsIn(1, i))
    BY <2>2 DEF Num
  <2> QED
    BY <1>7, <2>1, <2>3
<1>10. Num(i + 1) = Num(i) + 1 /\ Num(i) \in Nat
  BY <1>8, NumStep, NumType
<1> QED
  BY <1>1, <1>8, <1>9, <1>10

LEMMA AllGiven ==
    ASSUME RawInv, Somewhere, GivenAsNumbered, flushed
    PROVE  EverythingGiven
<1>1. file \in Seq(ItemKinds) /\ pos \in Nat /\ Len(file) \in Nat
  BY DEF RawInv, TypeOK, DealerTypeOK
<1>2. \A w \in Workers : Ended(w)
  <2>1. Cardinality({w \in Workers : ~ Ended(w)}) = 0
    BY DEF RawInv, EndsLeftOK, FarmerControl
  <2>2. IsFiniteSet({w \in Workers : ~ Ended(w)})
    <3>1. IsFiniteSet(Workers)
      BY FS_Interval, MPIAssumption DEF Workers
    <3>2. {w \in Workers : ~ Ended(w)} \in SUBSET Workers
      OBVIOUS
    <3> QED
      BY <3>1, <3>2, FS_Subset
  <2> QED
    BY <2>1, <2>2, FS_EmptySet
<1>3. Over
  <2>1. 3 \in Workers
    BY MPIAssumption DEF Workers
  <2> QED
    BY <1>2, <2>1 DEF RawInv, WorkerOK, Ended
<1>4. ASSUME NEW i \in 1 .. Len(file), file[i] = "physics"
      PROVE  \E t \in DOMAIN given : given[t] = i
  <2>1. PICK a \in Ranks, b \in Ranks, k \in Nat : At(i, a, b, k)
    BY <1>3, <1>4 DEF Somewhere, Over
  <2> USE PlacesFacts, RankFacts DEF Places, NoOtherPlaces
  <2>2. CASE a = b /\ a = DealerRank
    BY <1>3, <2>1, <2>2 DEF Over, DealerHolds
  <2>3. CASE a = b /\ a = FarmerRank
    BY <2>1, <2>3
  <2>4. CASE a = b /\ a = OutputRank
    BY <1>4, <2>1, <2>4 DEF RawInv, PassedOnWritten
  <2>5. CASE a = b /\ a \in Workers
    <3>1. i \in wblock[a].first .. wblock[a].last /\ wblock[a] \in Block
      BY <2>1, <2>5 DEF RawInv, TypeOK, WorkersTypeOK
    <3>2. wblock[a].first > wblock[a].last
      BY <1>2, <2>5 DEF RawInv, WorkerOK, WorkerHolds, Ended
    <3> QED
      BY <3>1, <3>2 DEF Block
  <2>6. CASE a = DealerRank /\ b \in Workers
    <3>1. Silent(b)
      BY <1>2, <2>6 DEF RawInv, Protocol, Ended
    <3> QED
      BY <2>1, <2>6, <3>1 DEF Silent
  <2>7. CASE a \in Workers /\ b = FarmerRank
    BY <1>2, <2>1, <2>7 DEF Ended
  <2>8. CASE a \in Workers /\ b = OutputRank
    BY <1>4, <2>1, <2>8 DEF RawInv, PassedOnSent, Holds
  <2> QED
    BY <2>1, <2>2, <2>3, <2>4, <2>5, <2>6, <2>7, <2>8
<1>5. ASSUME NEW t \in Triggers, t < Num(Len(file) + 1) PROVE t \in DOMAIN given
  <2>1. t \in Nat
    BY DEF Triggers
  <2>2. PICK i \in 1 .. Len(file) : file[i] = "physics" /\ Num(i) = t
    BY <1>1, <1>5, <2>1, NumOnto
  <2>3. PICK s \in DOMAIN given : given[s] = i
    BY <1>4, <2>2
  <2> QED
    BY <2>2, <2>3 DEF GivenAsNumbered
<1>6. ASSUME NEW t \in DOMAIN given PROVE t \in Triggers /\ t < Num(Len(file) + 1)
  <2>1. t \in Triggers
    BY DEF RawInv, TypeOK, FarmerTypeOK, SorterTypeOK, Holdings
  <2>2. PICK i \in 1 .. pos : file[i] = "physics" /\ Num(i) = t
    BY DEF GivenAsNumbered
  <2>3. i \in Nat \ {0} /\ i + 1 \in Nat \ {0} /\ Len(file) + 1 \in Nat \ {0} /\ i + 1 <= Len(file) + 1
    BY <1>1, <1>3 DEF Over
  <2>4. Num(i + 1) <= Num(Len(file) + 1) /\ Num(Len(file) + 1) \in Nat
    BY <1>1, <2>3, NumGrows, NumType
  <2>5. Num(i + 1) = Num(i) + 1 /\ Num(i) \in Nat
    BY <1>1, <2>2, <2>3, NumStep, NumType
  <2> QED
    BY <2>1, <2>2, <2>4, <2>5
<1> QED
  BY <1>5, <1>6 DEF EverythingGiven

LEMMA AllGivenNext == RawInv' /\ Somewhere' /\ GivenAsNumbered' /\ flushed' => EverythingGiven'
<1>1. RawInv /\ Somewhere /\ GivenAsNumbered /\ flushed => EverythingGiven
  BY AllGiven
<1> QED
  BY <1>1, PTL

\* Nothing waits for the flush, so it changes nothing, and all is emitted in sequence.
LEMMA FlushIsIdle ==
    ASSUME FewEvents, SorterInv, ~ flushed, Flush, EverythingGiven', file' = file, file \in Files
    PROVE  emitted' = emitted /\ Len(emitted) = Num(Len(file) + 1)
<1>1. file \in Seq(ItemKinds) /\ Len(file) \in Nat
  BY RawAssumption
<1>2. PICK n \in Nat : n = Num(Len(file) + 1)
  <2>1. Len(file) + 1 \in Nat \ {0}
    BY <1>1
  <2> QED
    BY <1>1, <2>1, NumType
<1>3. n <= CounterMod /\ CounterMod <= MaxTrigger /\ MaxTrigger \in Nat /\ CounterMod \in Nat
  <2> DEFINE All == {j \in DOMAIN file : file[j] = "physics"}
  <2>1. All = PhysicsIn(1, Len(file)) /\ Len(file) + 1 - 1 = Len(file)
    BY <1>1 DEF PhysicsIn
  <2>2. Cardinality(All) <= CounterMod
    BY DEF FewEvents
  <2>3. n = Cardinality(PhysicsIn(1, Len(file)))
    BY <1>2, <2>1 DEF Num
  <2> HIDE DEF All
  <2> QED
    BY <2>1, <2>2, <2>3, RawAssumption, MaxTriggerAssumption
<1>4. DOMAIN given = {t \in Triggers : t < n}
  <2>1. given' = given /\ Num(Len(file) + 1)' = Num(Len(file) + 1)
    BY DEF Flush, Num, PhysicsIn
  <2> QED
    BY <1>2, <2>1 DEF EverythingGiven
<1>5. DOMAIN m_items = {}
  <2>1. n \in 0 .. MaxTrigger + 1
    BY <1>3
  <2> QED
    BY <1>4, <2>1, InvNeedsNoFlush DEF NoNeedToFlush
<1>6. emitted \in Seq(Item) /\ Len(emitted) \in Nat
  BY DEF SorterInv, SorterTypeOK
<1>7. emitted' = emitted
  <2>1. Cardinality(DOMAIN m_items) = 0
    BY <1>5, FS_EmptySet
  <2>2. PICK keys : emitted' = emitted \o [k \in 1 .. Cardinality(DOMAIN m_items) |->
                                              HeldItem(m_items, keys[k])]
    BY DEF Flush
  <2>3. PICK rest \in [1 .. 0 -> Item] : emitted' = emitted \o rest
    <3>1. [k \in 1 .. 0 |-> HeldItem(m_items, keys[k])] \in [1 .. 0 -> Item]
      OBVIOUS
    <3> QED
      BY <2>1, <2>2, <3>1
  <2>4. rest \in Seq(Item) /\ Len(rest) = 0
    <3>1. rest \in Seq(Item)
      OBVIOUS
    <3> QED
      BY <3>1
  <2>5. rest = <<>>
    BY <2>4
  <2> QED
    BY <1>6, <2>3, <2>5
<1>8. \A t \in Triggers : t < n <=> t < Len(emitted)
  BY <1>4, <1>5 DEF SorterInv, Running
<1>9. Len(emitted) = n
  BY <1>3, <1>6, <1>8 DEF Triggers
<1> QED
  BY <1>2, <1>7, <1>9

LEMMA CountedInvInit == FewEvents /\ Init => CountedInv
<1> SUFFICES ASSUME Init PROVE CountedInv
  OBVIOUS
<1>1. RawInv /\ SorterInv
  BY RawInvInit, SorterInvInit DEF Init, FarmerInit
<1>2. pos = 0 /\ DOMAIN given = {} /\ emitted = <<>> /\ flushed = FALSE
  BY EmptyHolding DEF Init, FarmerInit, SorterInit
<1>3. Somewhere /\ NowhereElse
  BY <1>2 DEF Somewhere, NowhereElse
<1>4. GivenAsNumbered /\ InSequence /\ AllEmitted
  BY <1>2 DEF GivenAsNumbered, InSequence, AllEmitted
<1> QED
  BY <1>1, <1>3, <1>4 DEF CountedInv

LEMMA CountedInvNext == FewEvents /\ CountedInv /\ [Next]_vars => CountedInv'
<1> SUFFICES ASSUME FewEvents, CountedInv, [Next]_vars PROVE CountedInv'
  OBVIOUS
<1>1. RawInv /\ SorterInv /\ Somewhere /\ NowhereElse /\ GivenAsNumbered /\ InSequence /\ AllEmitted
  BY DEF CountedInv
<1>2. RawInv'
  BY <1>1, RawInvNext
<1>3. [SorterNext]_sorterVars
  BY <1>1, SorterSteps
<1>4. SorterInv'
  BY <1>1, <1>3, SorterInvNext
<1>5. Somewhere' /\ NowhereElse'
  BY <1>1, OnceStep
<1>6. GivenAsNumbered'
  BY <1>1, <1>2, GivenStep
<1>7. file' = file /\ file \in Files
  BY <1>1, FileKept DEF RawInv
<1>8. InSequence' /\ AllEmitted'
  <2>1. CASE ~ flushed'
    <3>1. \A e \in DOMAIN emitted' : emitted'[e].trigger = e - 1
      BY <1>4, <2>1 DEF SorterInv, Running
    <3> QED
      BY <2>1, <3>1 DEF InSequence, AllEmitted
  <2>2. CASE flushed
    <3>1. UNCHANGED sorterVars
      BY <1>3, <2>2 DEF SorterNext
    <3> QED
      BY <1>1, <1>7, <3>1 DEF sorterVars, InSequence, AllEmitted, Num, PhysicsIn
  <2>3. CASE ~ flushed /\ flushed'
    <3>1. Flush
      BY <1>3, <2>3 DEF SorterNext, sorterVars, AddItem
    <3>2. EverythingGiven'
      BY <1>2, <1>5, <1>6, <2>3, AllGivenNext
    <3>3. emitted' = emitted /\ Len(emitted) = Num(Len(file) + 1)
      BY <1>1, <1>7, <2>3, <3>1, <3>2, FlushIsIdle
    <3>4. Num(Len(file) + 1)' = Num(Len(file) + 1)
      BY <1>7 DEF Num, PhysicsIn
    <3> QED
      BY <1>1, <3>3, <3>4 DEF InSequence, AllEmitted
  <2> QED
    BY <2>1, <2>2, <2>3
<1> QED
  BY <1>2, <1>4, <1>5, <1>6, <1>8 DEF CountedInv
-----------------------------------------------------------------------------
(***************************************************************************)
(* In a run with few events the farmer hands in every trigger number once, *)
(* and nothing after the flush, however the workers interleave: what the   *)
(* theorems about SorterSpec say holds of the sorter in the farmer.        *)
(***************************************************************************)
THEOREM RawUsesSorterProperly ==
    ASSUME FewEvents
    PROVE  Spec => UsesSorterProperly
<1>1. Init => CountedInv
  BY CountedInvInit
<1>2. CountedInv /\ [Next]_vars => CountedInv'
  BY CountedInvNext
<1>3. Init => SorterInit
  BY DEF Init, FarmerInit
<1>4. CountedInv /\ [Next]_vars => [SorterNext]_sorterVars
  BY SorterSteps DEF CountedInv
<1> QED
  BY <1>1, <1>2, <1>3, <1>4, PTL DEF Spec, UsesSorterProperly

(***************************************************************************)
(* Every step of a run with few events is a step of EventStream, or none.  *)
(***************************************************************************)
Physics == {i \in DOMAIN file : file[i] = "physics"}

LEMMA PhysicsFacts ==
    ASSUME file \in Seq(ItemKinds)
    PROVE  /\ Physics \in SUBSET Nat /\ IsFiniteSet(Physics) /\ EventsOf(file) = InOrder(Physics)
           /\ Cardinality(Physics) = Num(Len(file) + 1)
           /\ Len(EventsOf(file)) = Cardinality(Physics)
           /\ \A i \in Physics : Cardinality({y \in Physics : y <= i}) = Num(i) + 1
<1>1. PICK n \in Nat : n = Len(file) /\ Physics = PhysicsIn(1, n) /\ DOMAIN file = 1 .. n
  BY DEF Physics, PhysicsIn
<1>2. Physics \in SUBSET Nat /\ IsFiniteSet(Physics)
  <2>1. PICK one \in Nat : one = 1
    OBVIOUS
  <2>2. IsFiniteSet(PhysicsIn(one, n))
    BY <1>1, <2>1, PhysicsFinite
  <2>3. IsFiniteSet(Physics)
    BY <1>1, <2>1, <2>2
  <2> QED
    BY <1>1, <2>3 DEF Physics
<1>3. EventsOf(file) = InOrder(Physics)
  BY DEF EventsOf, Physics
<1>4. Cardinality(Physics) = Num(Len(file) + 1)
  <2>1. PICK m : m = n + 1 /\ m - 1 = n
    OBVIOUS
  <2> QED
    BY <1>1, <2>1 DEF Num
<1>5. Len(EventsOf(file)) = Cardinality(Physics)
  BY <1>2, <1>3, InOrderMembers
<1>6. ASSUME NEW i \in Physics PROVE Cardinality({y \in Physics : y <= i}) = Num(i) + 1
  <2>1. i \in Nat \ {0} /\ file[i] = "physics" /\ i <= n
    BY <1>1 DEF Physics
  <2>2. {y \in Physics : y <= i} = PhysicsIn(1, i)
    BY <1>1, <2>1 DEF PhysicsIn
  <2>3. PICK j : j = i + 1 /\ j - 1 = i
    BY <2>1
  <2>4. Num(i + 1) = Cardinality(PhysicsIn(1, i))
    BY <2>3 DEF Num
  <2> QED
    BY <2>1, <2>2, <2>4, NumStep
<1> QED
  BY <1>2, <1>3, <1>4, <1>5, <1>6

\* The next event to be written is the next event of the file.
LEMMA NextEvent ==
    ASSUME CountedInv, NEW n \in Nat, n + 1 \in DOMAIN emitted
    PROVE  /\ emitted[n + 1].trigger = n /\ n < Len(EventsOf(file))
           /\ emitted[n + 1].event = EventsOf(file)[n + 1]
<1>1. SorterInv /\ GivenAsNumbered /\ InSequence /\ file \in Seq(ItemKinds) /\ pos \in 0 .. Len(file)
  BY DEF CountedInv, RawInv, TypeOK, DealerTypeOK
<1>2. emitted[n + 1].trigger = n
  BY <1>1 DEF InSequence
<1>3. PICK i : i = emitted[n + 1].event
  OBVIOUS
<1>4. n \in DOMAIN given /\ given[n] = i
  BY <1>1, <1>2, <1>3 DEF SorterInv, Faithful
<1>5. i \in 1 .. pos /\ file[i] = "physics" /\ Num(i) = n
  BY <1>1, <1>4 DEF GivenAsNumbered
<1>6. i \in Physics
  BY <1>1, <1>5 DEF Physics
<1>7. Cardinality({y \in Physics : y <= i}) = n + 1 /\ n + 1 \in Nat
  BY <1>1, <1>5, <1>6, PhysicsFacts
<1>8. n + 1 \in 1 .. Cardinality(Physics) /\ InOrder(Physics)[n + 1] = i
  BY <1>1, <1>6, <1>7, PhysicsFacts, InOrderUnique
<1>9. Cardinality(Physics) \in Nat
  BY <1>1, PhysicsFacts, FS_CardinalityType
<1> QED
  BY <1>1, <1>2, <1>3, <1>8, <1>9, PhysicsFacts

StreamStep == [Stream!Next]_<<EventsOf(file), WrittenEvents, opc = "finalize">>

LEMMA EventIsDelivered ==
    ASSUME CountedInv, OutputEvent, UNCHANGED <<dealerVars, workerVars, farmerVars>>
    PROVE  Stream!Deliver
<1>1. FarmerOK /\ Delivery /\ UNCHANGED farmerVars
  BY RawInvFarmer DEF CountedInv
<1>2. PICK n \in Nat : n = Cardinality(EventPlaces) /\ Len(WrittenEvents) = n
  <2>1. EventsAreRecords
    BY EventsWritten, OutputTypeRecord DEF CountedInv, RawInv, TypeOK
  <2> QED
    BY <2>1 DEF EventsAreRecords
<1>3. /\ n + 1 \in DOMAIN emitted
      /\ WrittenEvents' = Append(WrittenEvents, [trigger |-> emitted[n + 1].trigger,
                                                 data |-> emitted[n + 1].event])
  BY <1>1, <1>2, OutputEventOK
<1>4. /\ emitted[n + 1].trigger = n /\ n < Len(EventsOf(file))
      /\ emitted[n + 1].event = EventsOf(file)[n + 1]
  BY <1>3, NextEvent
<1>5. file' = file /\ EventsOf(file)' = EventsOf(file)
  BY DEF dealerVars, EventsOf
<1>6. ~ (opc = "finalize") /\ ~ (opc' = "finalize")
  BY DEF OutputEvent
<1> QED
  BY <1>2, <1>3, <1>4, <1>5, <1>6 DEF Stream!Deliver

LEMMA EndIsClose ==
    ASSUME CountedInv, CountedInv', OutputGetEnd, UNCHANGED <<dealerVars, workerVars, farmerVars>>
    PROVE  Stream!Close
<1>1. file' = file /\ written' = written /\ opc = "header" /\ opc' = "finalize"
  BY DEF dealerVars, OutputGetEnd
<1>2. EventsOf(file)' = EventsOf(file) /\ WrittenEvents' = WrittenEvents
  BY <1>1 DEF EventsOf, WrittenEvents, EventPlaces
<1>3. /\ fpc' = "finalize" /\ Cardinality(EventPlaces)' = Len(emitted')
      /\ Cardinality(EventPlaces)' = Cardinality(EventPlaces)
  <2>1. OutputControl'
    BY DEF CountedInv, RawInv, Delivery
  <2>2. EventPlaces' = EventPlaces
    BY <1>1 DEF EventPlaces
  <2> QED
    BY <1>1, <2>1, <2>2 DEF OutputControl
<1>4. Len(emitted') = Num(Len(file) + 1)
  <2>1. flushed' /\ AllEmitted'
    BY <1>3 DEF CountedInv, RawInv, FarmerControl
  <2>2. Num(Len(file) + 1)' = Num(Len(file) + 1)
    BY <1>1 DEF Num, PhysicsIn
  <2> QED
    BY <2>1, <2>2 DEF AllEmitted
<1>5. Len(WrittenEvents) = Cardinality(EventPlaces)
  BY EventsWritten, OutputTypeRecord DEF CountedInv, RawInv, TypeOK, EventsAreRecords
<1>6. Len(EventsOf(file)) = Num(Len(file) + 1)
  BY PhysicsFacts DEF CountedInv, RawInv, TypeOK, DealerTypeOK
<1> QED
  BY <1>1, <1>2, <1>3, <1>4, <1>5, <1>6 DEF Stream!Close

LEMMA RawStreamStep ==
    ASSUME CountedInv, CountedInv', [Next]_vars
    PROVE  StreamStep
<1>1. file' = file /\ EventsOf(file)' = EventsOf(file)
  BY FileKept DEF EventsOf
<1>2. CASE UNCHANGED outputVars
  <2>1. opc' = opc /\ WrittenEvents' = WrittenEvents
    BY <1>2 DEF outputVars, WrittenEvents, EventPlaces
  <2> QED
    BY <1>1, <2>1 DEF StreamStep
<1>3. CASE OutputStep
  <2>1. OutputNext /\ UNCHANGED <<dealerVars, workerVars, farmerVars>> /\ UNCHANGED farmerVars
    BY <1>3 DEF OutputStep
  <2>2. FarmerOK /\ Delivery
    BY RawInvFarmer DEF CountedInv
  <2>3. CASE OutputEvent
    BY <2>1, <2>3, EventIsDelivered DEF StreamStep, Stream!Next
  <2>4. CASE OutputGetEnd
    BY <2>1, <2>4, EndIsClose DEF StreamStep, Stream!Next
  <2>5. CASE OutputItem
    <3>1. WrittenEvents' = WrittenEvents /\ opc = "item" /\ opc' = "header"
      BY <2>1, <2>2, <2>5, OutputItemOK DEF OutputItem
    <3>2. ~ (opc = "finalize") /\ ~ (opc' = "finalize")
      BY <3>1
    <3> QED
      BY <1>1, <3>1, <3>2 DEF StreamStep
  <2>6. CASE OutputGetHeader
    <3>1. written' = written /\ opc = "header" /\ opc' \in {"event", "item"}
      BY <2>6 DEF OutputGetHeader
    <3>2. ~ (opc = "finalize") /\ ~ (opc' = "finalize")
      BY <3>1
    <3>3. WrittenEvents' = WrittenEvents
      BY <3>1 DEF WrittenEvents, EventPlaces
    <3> QED
      BY <1>1, <3>2, <3>3 DEF StreamStep
  <2> QED
    BY <2>1, <2>3, <2>4, <2>5, <2>6 DEF OutputNext
<1> QED
  BY <1>2, <1>3 DEF Next, DealerStep, FarmerStep, WorkerStep, Finished, vars

LEMMA StreamBegins == Init => Stream!Init
<1> SUFFICES ASSUME Init PROVE Stream!Init
  OBVIOUS
<1>1. opc = "header" /\ written = <<>>
  BY DEF Init, OutputInit
<1>2. EventPlaces = {} /\ Cardinality(EventPlaces) = 0
  BY <1>1, FS_EmptySet DEF EventPlaces
<1>3. WrittenEvents \in Seq(EventRecord) /\ Len(WrittenEvents) = 0
  <2>1. written \in Seq(FileRecord)
    BY <1>1
  <2> QED
    BY <1>2, <2>1, EventsWritten DEF EventsAreRecords
<1>4. WrittenEvents = <<>>
  BY <1>3
<1>5. (opc = "finalize") = FALSE
  BY <1>1
<1> QED
  BY <1>4, <1>5 DEF Stream!Init

(***************************************************************************)
(* A raw run with few events implements the plain stream, whatever the     *)
(* number of workers and the cut into blocks: the k-th event written is    *)
(* the k-th event of the input under the number k - 1, and the outputter   *)
(* ends only when all of them are in the file.                             *)
(***************************************************************************)
THEOREM RawImplementsStream ==
    ASSUME FewEvents
    PROVE  Spec => ImplementsStream
<1>1. Init => CountedInv
  BY CountedInvInit
<1>2. CountedInv /\ [Next]_vars => CountedInv'
  BY CountedInvNext
<1>3. Init => Stream!Init
  BY StreamBegins
<1>4. CountedInv /\ CountedInv' /\ [Next]_vars
         => [Stream!Next]_<<EventsOf(file), WrittenEvents, opc = "finalize">>
  BY RawStreamStep DEF StreamStep
<1> QED
  BY <1>1, <1>2, <1>3, <1>4, PTL DEF Spec, ImplementsStream, Stream!Spec
-----------------------------------------------------------------------------
(***************************************************************************)
(* The five kinds of places that Copies counts.                            *)
(***************************************************************************)
Holders(i) == {r \in Ranks : i \in InHand(r)}

InMessages(i) == {p \in Ranks \X Ranks : \E k \in DOMAIN chan[p[1]][p[2]] :
                                             i \in Brought(p[1], chan[p[1]][p[2]][k])}

InMap(i) == {t \in DOMAIN m_items : m_items[t] = i}

Unsent(i) == {k \in fsent + 1 .. Len(emitted) : emitted[k].event = i}

InFile(i) == {k \in DOMAIN written : written[k].data = i}

\* The e-th emitted item is a message to the outputter.
OnItsWay(e) == Cardinality(EventPlaces) < e /\ e <= fsent

FarmerToOutput == <<FarmerRank, OutputRank>>

Single(S) == \E x : S = {x}

OnePlace(i) ==
    \/ Single(Holders(i)) /\ InMessages(i) = {} /\ InMap(i) = {}
          /\ Unsent(i) = {} /\ InFile(i) = {}
    \/ Holders(i) = {} /\ Single(InMessages(i)) /\ InMap(i) = {}
          /\ Unsent(i) = {} /\ InFile(i) = {}
    \/ Holders(i) = {} /\ InMessages(i) = {} /\ Single(InMap(i))
          /\ Unsent(i) = {} /\ InFile(i) = {}
    \/ Holders(i) = {} /\ InMessages(i) = {} /\ InMap(i) = {}
          /\ Single(Unsent(i)) /\ InFile(i) = {}
    \/ Holders(i) = {} /\ InMessages(i) = {} /\ InMap(i) = {}
          /\ Unsent(i) = {} /\ Single(InFile(i))

LEMMA OneCopy == \A i : OnePlace(i) => Copies(i) = 1
<1> SUFFICES ASSUME NEW i, OnePlace(i) PROVE Copies(i) = 1
  OBVIOUS
<1>1. Copies(i) = Cardinality(Holders(i)) + Cardinality(InMessages(i)) + Cardinality(InMap(i))
                    + Cardinality(Unsent(i)) + Cardinality(InFile(i))
  BY DEF Copies, Holders, InMessages, InMap, Unsent, InFile
<1>2. Cardinality({}) = 0 /\ \A S : Single(S) => Cardinality(S) = 1
  BY FS_EmptySet, FS_Singleton DEF Single
<1> QED
  BY <1>1, <1>2 DEF OnePlace

\* The dealer's and the workers' places are those of At.
LEMMA HeldAt ==
    ASSUME RawInv, NEW i
    PROVE  /\ \A r \in Holders(i) : r \in Ranks /\ r # FarmerRank /\ r # OutputRank
                                       /\ At(i, r, r, 0)
           /\ \A r \in Ranks : r # FarmerRank /\ r # OutputRank /\ At(i, r, r, 0)
                                  => r \in Holders(i)
<1>1. ASSUME NEW r \in Holders(i)
      PROVE  r \in Ranks /\ r # FarmerRank /\ r # OutputRank /\ At(i, r, r, 0)
  <2>1. r \in Ranks /\ i \in InHand(r)
    BY DEF Holders
  <2>2. r # FarmerRank /\ r # OutputRank
    BY <2>1, RankFacts DEF InHand
  <2> QED
    BY <2>1, <2>2 DEF At
<1>2. ASSUME NEW r \in Ranks, r # FarmerRank, r # OutputRank, At(i, r, r, 0)
      PROVE  r \in Holders(i)
  BY <1>2 DEF At, Holders
<1> QED
  BY <1>1, <1>2

LEMMA SentAt ==
    ASSUME RawInv, NEW i
    PROVE  /\ \A p \in InMessages(i) :
                 p = FarmerToOutput \/ \E a, b \in Ranks, k \in Nat :
                                           p = <<a, b>> /\ a # b /\ At(i, a, b, k)
           /\ \A a, b \in Ranks : \A k : a # b /\ At(i, a, b, k) => <<a, b>> \in InMessages(i)
<1>1. ASSUME NEW p \in InMessages(i), p # FarmerToOutput
      PROVE  \E a, b \in Ranks, k \in Nat : p = <<a, b>> /\ a # b /\ At(i, a, b, k)
  <2>1. PICK a \in Ranks, b \in Ranks :
            p = <<a, b>> /\ \E k \in DOMAIN chan[a][b] : i \in Brought(a, chan[a][b][k])
    BY DEF InMessages
  <2>6. PICK k \in DOMAIN chan[a][b] : i \in Brought(a, chan[a][b][k])
    BY <2>1
  <2>2. chan[a][b] # <<>>
    BY <2>1
  <2>3. a # b /\ a # FarmerRank
    BY <1>1, <2>1, <2>2, RankFacts DEF RawInv, Unused, FarmerToOutput
  <2>4. At(i, a, b, k)
    BY <2>1, <2>3, <2>6 DEF At
  <2>5. k \in Nat
    <3>1. \/ a = DealerRank /\ b \in Workers
          \/ a \in Workers /\ b = DealerRank
          \/ a \in Workers /\ b \in {FarmerRank, OutputRank}
      BY <1>1, <2>1, <2>2 DEF RawInv, Unused, FarmerToOutput
    <3>2. \E T : chan[a][b] \in Seq(T)
      <4>1. CASE b \in {FarmerRank, OutputRank} /\ a \in Workers
        <5>1. a \in Sources \ {FarmerRank}
          BY <2>1, <4>1, RankFacts DEF Sources, OutputRank
        <5> QED
          BY <4>1, <5>1 DEF RawInv, TypeOK, MessagesOK, StreamsOK
      <4>2. CASE ~ (b \in {FarmerRank, OutputRank} /\ a \in Workers)
        BY <3>1, <4>2 DEF RawInv, TypeOK, MessagesOK
      <4> QED
        BY <4>1, <4>2
    <3> QED
      BY <2>1, <3>2
  <2> QED
    BY <2>1, <2>3, <2>4, <2>5
<1>2. ASSUME NEW a \in Ranks, NEW b \in Ranks, NEW k, a # b, At(i, a, b, k)
      PROVE  <<a, b>> \in InMessages(i)
  <2>1. k \in DOMAIN chan[a][b] /\ i \in Brought(a, chan[a][b][k])
    BY <1>2 DEF At
  <2>2. <<a, b>> \in Ranks \X Ranks /\ <<a, b>>[1] = a /\ <<a, b>>[2] = b
    OBVIOUS
  <2> QED
    BY <2>1, <2>2 DEF InMessages
<1> QED
  BY <1>1, <1>2

\* The messages from the farmer to the outputter bring the emitted items that are on their way.
LEMMA EventsOnTheirWay ==
    ASSUME RawInv, NEW i
    PROVE  /\ FarmerToOutput \in InMessages(i)
                 <=> \E e \in DOMAIN emitted : OnItsWay(e) /\ emitted[e].event = i
           /\ Cardinality(EventPlaces) \in Nat /\ fsent \in Nat
           /\ Cardinality(EventPlaces) <= fsent /\ fsent <= Len(emitted)
<1> DEFINE queue == chan[FarmerRank][OutputRank]
           n == Cardinality(EventPlaces)
<1>1. /\ Delivery /\ FarmerControl /\ emitted \in Seq(Item) /\ fsent \in Nat
      /\ queue \in Seq(EventMessages)
  BY RawInvFarmer DEF RawInv, TypeOK, MessagesOK, StreamsOK, FarmerTypeOK, SorterTypeOK
<1>2. n \in Nat
  BY EventsWritten, OutputTypeRecord DEF RawInv, TypeOK, EventsAreRecords
<1>3. PICK s \in {0, 1}, t \in {0, 1} : SentOut = 2 * fsent + s /\ TakenIn = 2 * n + t
  BY DEF SentOut, TakenIn
<1>4. Len(queue) \in Nat /\ DOMAIN queue = 1 .. Len(queue)
      /\ 2 * fsent + s = 2 * n + t + Len(queue)
  BY <1>1, <1>3 DEF Delivery
<1>5. FarmerToOutput \in InMessages(i) <=> \E k \in DOMAIN queue : queue[k].tag = "DATA" /\ queue[k].body = i
  <2>1. FarmerToOutput \in Ranks \X Ranks /\ FarmerToOutput[1] = FarmerRank
        /\ FarmerToOutput[2] = OutputRank
    BY RankFacts DEF FarmerToOutput
  <2>2. FarmerToOutput \in InMessages(i) <=> \E k \in DOMAIN queue : i \in Brought(FarmerRank, queue[k])
    BY <2>1 DEF InMessages
  <2>3. \A msg : i \in Brought(FarmerRank, msg) <=> msg.tag = "DATA" /\ msg.body = i
    BY BroughtFacts, RankFacts
  <2> QED
    BY <2>2, <2>3
<1>6. \A k \in DOMAIN queue : Carries(queue[k], 2 * n + t + k)
  BY <1>1, <1>3 DEF Delivery
<1>7. fsent <= Len(emitted) /\ Len(emitted) \in Nat /\ DOMAIN emitted = 1 .. Len(emitted)
  BY <1>1 DEF FarmerControl
<1> HIDE DEF queue, n
<1>8. n <= fsent
  BY <1>1, <1>2, <1>4
<1>9. ASSUME NEW k \in DOMAIN queue, queue[k].tag = "DATA", queue[k].body = i
      PROVE  \E e \in DOMAIN emitted : n < e /\ e <= fsent /\ emitted[e].event = i
  <2>1. PICK e \in DOMAIN emitted : 2 * n + t + k = 2 * e /\ emitted[e].event = i
    BY <1>6, <1>9 DEF Carries
  <2>2. e \in Nat /\ k \in 1 .. Len(queue)
    BY <1>4, <1>7
  <2>3. n < e /\ e <= fsent
    BY <1>1, <1>2, <1>4, <2>1, <2>2
  <2> QED
    BY <2>1, <2>3
<1>10. ASSUME NEW e \in DOMAIN emitted, n < e, e <= fsent, emitted[e].event = i
       PROVE  \E k \in DOMAIN queue : queue[k].tag = "DATA" /\ queue[k].body = i
  <2>1. e \in Nat
    BY <1>7
  <2>2. PICK k \in Nat : 2 * n + t + k = 2 * e /\ k \in 1 .. Len(queue)
    <3>1. 2 * e - (2 * n + t) \in 1 .. Len(queue)
      BY <1>1, <1>2, <1>4, <1>10, <2>1
    <3>2. 2 * n + t + (2 * e - (2 * n + t)) = 2 * e
      BY <1>2, <2>1
    <3>3. 2 * e - (2 * n + t) \in Nat
      BY <1>4, <3>1
    <3> QED
      BY <3>1, <3>2, <3>3
  <2>3. Carries(queue[k], 2 * e) /\ k \in DOMAIN queue
    BY <1>4, <1>6, <2>2
  <2>4. \A f \in DOMAIN emitted : f \in Nat /\ 2 * e # 2 * f - 1 /\ (2 * e = 2 * f => e = f)
    BY <1>7, <2>1
  <2>5. 2 * e # 2 * Len(emitted) + 1
    BY <1>7, <2>1
  <2>6. queue[k].tag = "DATA" /\ \E f \in DOMAIN emitted : 2 * e = 2 * f /\ queue[k].body = emitted[f].event
    BY <2>3, <2>4, <2>5 DEF Carries
  <2> QED
    BY <1>10, <2>3, <2>4, <2>6
<1> QED
  BY <1>1, <1>2, <1>5, <1>7, <1>8, <1>9, <1>10 DEF OnItsWay, n

\* The records with item i: passed on, or the n-th event and the n-th emitted item.
LEMMA RecordsOf ==
    ASSUME RawInv, NEW i, NEW k
    PROVE  k \in InFile(i) <=>
              \/ At(i, OutputRank, OutputRank, k)
              \/ \E n \in 1 .. Cardinality(EventPlaces) :
                    /\ n \in DOMAIN emitted /\ emitted[n].event = i
                    /\ InOrder(EventPlaces)[n] = k
<1>1. written \in Seq(FileRecord) /\ EventsAreRecords /\ WrittenAsEmitted
  BY EventsWritten, OutputTypeRecord DEF RawInv, TypeOK, Delivery
<1>2. \A n \in 1 .. Cardinality(EventPlaces) :
         /\ n \in DOMAIN emitted
         /\ InOrder(EventPlaces)[n] \in EventPlaces
         /\ written[InOrder(EventPlaces)[n]].data = emitted[n].event
  BY <1>1 DEF EventsAreRecords, WrittenAsEmitted
<1>3. At(i, OutputRank, OutputRank, k)
         <=> k \in DOMAIN written /\ written[k].kind = "item" /\ written[k].data = i
  BY PlacesAre DEF Places
<1>4. ASSUME k \in InFile(i), written[k].kind # "item"
      PROVE  \E n \in 1 .. Cardinality(EventPlaces) :
                emitted[n].event = i /\ InOrder(EventPlaces)[n] = k
  <2>1. k \in DOMAIN written /\ written[k].data = i
    BY <1>4 DEF InFile
  <2>2. k \in EventPlaces
    <3>1. written[k] \in FileRecord
      BY <1>1, <2>1
    <3> QED
      BY <1>4, <2>1, <3>1 DEF FileRecord, EventPlaces
  <2>3. PICK n : n = Cardinality({y \in EventPlaces : y <= k})
    OBVIOUS
  <2>4. n \in Nat /\ EventPlaces \in SUBSET Nat /\ IsFiniteSet(EventPlaces)
    BY <1>1, <2>3, BelowFinite DEF EventsAreRecords
  <2>5. n \in 1 .. Cardinality(EventPlaces) /\ InOrder(EventPlaces)[n] = k
    BY <2>2, <2>3, <2>4, InOrderUnique
  <2> QED
    BY <1>2, <2>1, <2>5
<1>5. ASSUME k \in InFile(i), written[k].kind = "item"
      PROVE  At(i, OutputRank, OutputRank, k)
  BY <1>3, <1>5 DEF InFile
<1>6. ASSUME At(i, OutputRank, OutputRank, k) PROVE k \in InFile(i)
  BY <1>3, <1>6 DEF InFile
<1>7. ASSUME NEW n \in 1 .. Cardinality(EventPlaces), emitted[n].event = i,
             InOrder(EventPlaces)[n] = k
      PROVE  k \in InFile(i)
  <2>1. k \in EventPlaces /\ written[k].data = i
    BY <1>2, <1>7
  <2> QED
    BY <2>1 DEF EventPlaces, InFile
<1> QED
  BY <1>2, <1>4, <1>5, <1>6, <1>7

(***************************************************************************)
(* An item that the farmer does not have is in no place behind it.         *)
(***************************************************************************)
LEMMA NotGiven ==
    ASSUME CountedInv, NEW i, \A t \in DOMAIN given : given[t] # i
    PROVE  /\ \A e \in DOMAIN emitted : emitted[e].event # i
           /\ InMap(i) = {} /\ Unsent(i) = {}
           /\ FarmerToOutput \notin InMessages(i)
           /\ \A k : k \in InFile(i) <=> At(i, OutputRank, OutputRank, k)
<1>1. Faithful /\ RawInv
  BY DEF CountedInv, SorterInv
<1>2. \A e \in DOMAIN emitted : emitted[e].event # i
  BY <1>1 DEF Faithful
<1>3. InMap(i) = {}
  BY <1>1 DEF Faithful, InMap
<1>4. Unsent(i) = {}
  <2>1. fsent \in Nat /\ emitted \in Seq(Item)
    BY <1>1 DEF RawInv, TypeOK, FarmerTypeOK, SorterTypeOK
  <2>2. fsent + 1 .. Len(emitted) \subseteq DOMAIN emitted
    BY <2>1
  <2> QED
    BY <1>2, <2>2 DEF Unsent
<1>5. FarmerToOutput \notin InMessages(i)
  BY <1>1, <1>2, EventsOnTheirWay
<1>6. \A k : k \in InFile(i) <=> At(i, OutputRank, OutputRank, k)
  BY <1>1, <1>2, RecordsOf
<1> QED
  BY <1>2, <1>3, <1>4, <1>5, <1>6

(***************************************************************************)
(* An item that the farmer has is waiting in the map, or it was emitted    *)
(* once and is not sent yet, on its way or in the file.                    *)
(***************************************************************************)
LEMMA Given ==
    ASSUME CountedInv, NEW i \in 1 .. pos, NEW t \in DOMAIN given, given[t] = i
    PROVE  OnePlace(i)
<1>1. RawInv /\ SorterInv /\ NothingLost /\ GivenAsNumbered /\ NowhereElse
  BY InvLosesNothing DEF CountedInv
<1>2. t \in Nat /\ At(i, FarmerRank, FarmerRank, t)
  <2>1. t \in Triggers
    BY <1>1 DEF SorterInv, SorterTypeOK, Holdings
  <2> QED
    BY <2>1, PlacesAre DEF Triggers, Places
<1>3. ASSUME NEW a \in Ranks, NEW b \in Ranks, NEW k \in Nat, At(i, a, b, k)
      PROVE  a = FarmerRank /\ b = FarmerRank /\ k = t
  BY <1>1, <1>2, <1>3, RankFacts DEF NowhereElse
<1>4. \A u \in DOMAIN given : given[u] = i => u = t
  BY <1>1 DEF GivenAsNumbered
<1>5. Holders(i) = {}
  <2>1. \A r \in Holders(i) : r \in Ranks /\ r # FarmerRank /\ At(i, r, r, 0) /\ 0 \in Nat
    BY <1>1, HeldAt
  <2> QED
    BY <1>3, <2>1
<1>6. \A p \in InMessages(i) : p = FarmerToOutput
  BY <1>1, <1>3, SentAt
<1>7. \A k : ~ At(i, OutputRank, OutputRank, k)
  <2>1. ASSUME NEW k, At(i, OutputRank, OutputRank, k) PROVE FALSE
    <3>1. k \in DOMAIN written /\ written \in Seq(FileRecord)
      BY <1>1, <2>1, PlacesAre, OutputTypeRecord DEF RawInv, TypeOK, Places
    <3>2. k \in Nat
      BY <3>1
    <3> QED
      BY <1>3, <2>1, <3>2, RankFacts
  <2> QED
    BY <2>1
<1>8. /\ Cardinality(EventPlaces) \in Nat /\ fsent \in Nat
      /\ Cardinality(EventPlaces) <= fsent /\ fsent <= Len(emitted)
      /\ FarmerToOutput \in InMessages(i)
            <=> \E e \in DOMAIN emitted : OnItsWay(e) /\ emitted[e].event = i
  BY <1>1, EventsOnTheirWay
<1>9. emitted \in Seq(Item) /\ DOMAIN emitted = 1 .. Len(emitted) /\ Len(emitted) \in Nat
  BY <1>1 DEF SorterInv, SorterTypeOK
<1>10. \A e \in DOMAIN emitted : emitted[e].event = i <=> emitted[e].trigger = t
  BY <1>1, <1>4 DEF SorterInv, Faithful
<1>11. InMap(i) \subseteq {t} /\ (t \in DOMAIN m_items => t \in InMap(i))
  BY <1>1, <1>4 DEF NothingLost, SorterInv, Faithful, InMap
<1>12. CASE t \in DOMAIN m_items
  <2>1. \A e \in DOMAIN emitted : emitted[e].event # i
    BY <1>1, <1>10, <1>12 DEF NothingLost, EmittedTriggers
  <2>2. InMap(i) = {t}
    BY <1>11, <1>12
  <2>3. InMessages(i) = {}
    BY <1>6, <1>8, <2>1
  <2>4. Unsent(i) = {}
    BY <1>8, <1>9, <2>1 DEF Unsent
  <2>5. InFile(i) = {}
    BY <1>1, <1>7, <2>1, RecordsOf
  <2> QED
    BY <1>5, <2>2, <2>3, <2>4, <2>5 DEF OnePlace, Single
<1>13. CASE t \notin DOMAIN m_items
  <2>1. InMap(i) = {}
    BY <1>11, <1>13 DEF InMap
  <2>2. PICK e \in DOMAIN emitted : emitted[e].trigger = t
    BY <1>1, <1>13 DEF NothingLost, EmittedTriggers
  <2>3. \A f \in DOMAIN emitted : emitted[f].event = i <=> f = e
    <3>1. CountedInv
      OBVIOUS
    <3>2. \A f \in DOMAIN emitted : emitted[f].trigger = f - 1
      BY DEF CountedInv, InSequence
    <3> QED
      BY <1>9, <1>10, <2>2, <3>2
  <2>4. e \in Nat /\ e <= Len(emitted) /\ e > 0
    BY <1>9
  <2>5. CASE e > fsent
    <3>1. Unsent(i) = {e}
      BY <1>8, <1>9, <2>3, <2>4, <2>5 DEF Unsent
    <3>2. InMessages(i) = {}
      BY <1>6, <1>8, <2>3, <2>4, <2>5 DEF OnItsWay
    <3>3. InFile(i) = {}
      <4>1. e \notin 1 .. Cardinality(EventPlaces)
        BY <1>8, <2>4, <2>5
      <4> QED
        BY <1>1, <1>7, <2>3, <4>1, RecordsOf
    <3> QED
      BY <1>5, <2>1, <3>1, <3>2, <3>3 DEF OnePlace, Single
  <2>6. CASE OnItsWay(e)
    <3>1. Unsent(i) = {}
      BY <1>8, <1>9, <2>3, <2>4, <2>6 DEF Unsent, OnItsWay
    <3>2. InMessages(i) = {FarmerToOutput}
      BY <1>6, <1>8, <2>3, <2>6
    <3>3. InFile(i) = {}
      <4>1. e \notin 1 .. Cardinality(EventPlaces)
        BY <1>8, <2>4, <2>6 DEF OnItsWay
      <4> QED
        BY <1>1, <1>7, <2>3, <4>1, RecordsOf
    <3> QED
      BY <1>5, <2>1, <3>1, <3>2, <3>3 DEF OnePlace, Single
  <2>7. CASE e <= Cardinality(EventPlaces)
    <3>1. Unsent(i) = {}
      BY <1>8, <1>9, <2>3, <2>4, <2>7 DEF Unsent
    <3>2. InMessages(i) = {}
      BY <1>6, <1>8, <2>3, <2>4, <2>7 DEF OnItsWay
    <3>3. e \in 1 .. Cardinality(EventPlaces)
      BY <1>8, <2>4, <2>7
    <3>4. \A k : k \in InFile(i) <=> k = InOrder(EventPlaces)[e]
      BY <1>1, <1>7, <2>3, <3>3, RecordsOf
    <3>5. InFile(i) = {InOrder(EventPlaces)[e]}
      BY <3>4
    <3> QED
      BY <1>5, <2>1, <3>1, <3>2, <3>5 DEF OnePlace, Single
  <2> QED
    BY <1>8, <2>4, <2>5, <2>6, <2>7 DEF OnItsWay
<1> QED
  BY <1>12, <1>13


LEMMA OneOfEach ==
    ASSUME CountedInv, NEW i \in 1 .. pos
    PROVE  OnePlace(i)
<1>1. RawInv /\ GivenAsNumbered /\ Places /\ NoOtherPlaces
  BY PlacesFacts DEF CountedInv
<1>2. PICK a \in Ranks, b \in Ranks, k \in Nat : At(i, a, b, k)
  BY DEF CountedInv, Somewhere
<1>3. ASSUME NEW c \in Ranks, NEW d \in Ranks, NEW l \in Nat, At(i, c, d, l)
      PROVE  c = a /\ d = b /\ l = k
  BY <1>2, <1>3 DEF CountedInv, NowhereElse
<1>4. CASE a = FarmerRank /\ b = FarmerRank
  <2>1. k \in DOMAIN given /\ given[k] = i
    BY <1>1, <1>2, <1>4 DEF Places
  <2> QED
    BY <2>1, Given
<1>5. CASE ~ (a = FarmerRank /\ b = FarmerRank)
  <2>1. \A t \in DOMAIN given : given[t] # i
    <3>1. SUFFICES ASSUME NEW t \in DOMAIN given, given[t] = i PROVE FALSE
      OBVIOUS
    <3>2. t \in Nat
      BY DEF CountedInv, SorterInv, SorterTypeOK, Holdings, Triggers
    <3>3. At(i, FarmerRank, FarmerRank, t)
      BY <1>1, <3>1 DEF Places
    <3> QED
      BY <1>3, <1>5, <3>2, <3>3, RankFacts
  <2>2. /\ InMap(i) = {} /\ Unsent(i) = {}
        /\ FarmerToOutput \notin InMessages(i)
        /\ \A l : l \in InFile(i) <=> At(i, OutputRank, OutputRank, l)
    BY <2>1, NotGiven
  <2>3. \A l : At(i, OutputRank, OutputRank, l) => l \in Nat
    <3>1. written \in Seq(FileRecord)
      BY <1>1, OutputTypeRecord DEF RawInv, TypeOK
    <3> QED
      BY <1>1, <3>1 DEF Places
  <2>4. \A r \in Holders(i) : r = a /\ r = b /\ r # OutputRank
    <3>1. \A r \in Holders(i) : r \in Ranks /\ r # OutputRank /\ At(i, r, r, 0)
      BY <1>1, HeldAt
    <3> QED
      BY <1>3, <3>1
  <2>5. \A p \in InMessages(i) : p = <<a, b>> /\ a # b
    <3>1. \A p \in InMessages(i) : \E c, d \in Ranks, l \in Nat :
             p = <<c, d>> /\ c # d /\ At(i, c, d, l)
      BY <1>1, <2>2, SentAt
    <3> QED
      BY <1>3, <3>1
  <2>6. \A l \in InFile(i) : a = OutputRank /\ b = OutputRank /\ l = k
    BY <1>3, <2>2, <2>3, RankFacts
  <2>7. CASE a # b
    <3>1. <<a, b>> \in InMessages(i)
      BY <1>1, <1>2, <2>7, SentAt
    <3>2. InMessages(i) = {<<a, b>>}
      BY <2>5, <3>1
    <3>3. Holders(i) = {} /\ InFile(i) = {}
      BY <2>4, <2>6, <2>7
    <3> QED
      BY <2>2, <3>2, <3>3 DEF OnePlace, Single
  <2>8. CASE a = b /\ a = OutputRank
    <3>1. k \in InFile(i)
      BY <1>2, <2>2, <2>8
    <3>2. InFile(i) = {k}
      BY <2>6, <3>1
    <3>3. Holders(i) = {} /\ InMessages(i) = {}
      BY <2>4, <2>5, <2>8
    <3> QED
      BY <2>2, <3>2, <3>3 DEF OnePlace, Single
  <2>9. CASE a = b /\ a # OutputRank
    <3>1. a # FarmerRank /\ k = 0
      <4>1. a # FarmerRank
        BY <1>5, <2>9
      <4>2. a = DealerRank \/ a \in Workers
        BY <2>9, <4>1, RankFacts
      <4> QED
        BY <1>1, <1>2, <2>9, <4>1, <4>2 DEF Places
    <3>2. a \in Holders(i)
      BY <1>1, <1>2, <2>9, <3>1, HeldAt
    <3>3. Holders(i) = {a}
      BY <2>4, <3>2
    <3>4. InFile(i) = {} /\ InMessages(i) = {}
      BY <2>5, <2>6, <2>9
    <3> QED
      BY <2>2, <3>3, <3>4 DEF OnePlace, Single
  <2> QED
    BY <2>7, <2>8, <2>9
<1> QED
  BY <1>4, <1>5

(***************************************************************************)
(* In a run with few events no hand-over between the ranks drops a ring    *)
(* item or duplicates it, for any number of workers and any cut into       *)
(* blocks: each one read is in exactly one place from the dealer's hands   *)
(* to the file.                                                            *)
(***************************************************************************)
THEOREM RawExactlyOnce ==
    ASSUME FewEvents
    PROVE  Spec => []ExactlyOnce
<1>1. Init => CountedInv
  BY CountedInvInit
<1>2. CountedInv /\ [Next]_vars => CountedInv'
  BY CountedInvNext
<1>3. CountedInv => ExactlyOnce
  BY OneOfEach, OneCopy DEF ExactlyOnce
<1> QED
  BY <1>1, <1>2, <1>3, PTL DEF Spec
=============================================================================
