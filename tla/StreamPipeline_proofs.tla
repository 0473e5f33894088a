------------------------ MODULE StreamPipeline_proofs -------------------------
(***************************************************************************)
(* Theorems about StreamPipeline for every value of its constants: its     *)
(* types, and that every behaviour of it is one of Stream, for all sizes   *)
(* of the channel, the pool and the batch, all strategies and all streams. *)
(* The invariant says where each event of an open message is: what is told *)
(* is a beginning of its message, and what a task, or the batch and `rest` *)
(* together, still hold is the rest of it, in order.                       *)
(***************************************************************************)
EXTENDS StreamPipeline, FiniteSetTheorems, SequenceTheorems, TLAPS

-----------------------------------------------------------------------------
(* Types. Beside StreamTypeOK: where the variables come from, and who holds *)
(* a message.                                                              *)

Places == {"waiting", "acquiring", "adding", "flushing", "closing", "done"}

Meters ==
    [queue : Seq(Nat), started : Nat, counted : Nat, window : Nat, missed : BOOLEAN]

Kinds ==
    /\ \E s \in Scenarios : setup = s.setup /\ feed = s.feed
    /\ consumer \in [at : Places, msg : Nat]
    /\ meter \in Meters

MeterOK(m) == Len(m.queue) <= MeterBound /\ m.window <= m.counted

Holding ==
    /\ reader = "sending" => pos # 0
    /\ consumer.at \in {"acquiring", "adding", "flushing"} => consumer.msg # NoMsg
    /\ consumer.at = "acquiring" => Immediate

TypeInv == StreamTypeOK /\ Kinds /\ Holding

\* The stream and its set-up are those of a scenario.
LEMMA FeedType ==
    ASSUME Kinds
    PROVE  /\ Len(feed) \in Nat /\ DOMAIN feed = 1..Len(feed)
           /\ setup.attempts \in Nat /\ setup.size \in Nat
           /\ setup.strategy \in {"Block", "Drop", "Retry"}
           /\ \A i \in 1..Len(feed) : /\ Len(EventsOf(feed[i])) \in Nat
                                      /\ IsFiniteSet(Whole(i))
                                      /\ Cardinality(Whole(i)) \in Nat
<1>1. PICK s \in Scenarios : setup = s.setup /\ feed = s.feed
  BY DEF Kinds
<1>2. /\ Len(feed) \in Nat /\ DOMAIN feed = 1..Len(feed)
      /\ setup.attempts \in Nat /\ setup.size \in Nat
      /\ setup.strategy \in {"Block", "Drop", "Retry"}
      /\ \A i \in 1..Len(feed) : Len(EventsOf(feed[i])) \in Nat
  BY <1>1, ScenariosAssumption
<1>3. ASSUME NEW i \in 1..Len(feed)
      PROVE  IsFiniteSet(Whole(i)) /\ Cardinality(Whole(i)) \in Nat
  BY <1>2, FS_Interval, FS_CardinalityType DEF Whole
<1> QED
  BY <1>2, <1>3

\* What is measured keeps the record of the metrics in shape.
LEMMA MeasuredType ==
    ASSUME NEW m \in Meters, NEW what \in Nat, MeterOK(m)
    PROVE  Measured(m, what) \in Meters /\ MeterOK(Measured(m, what))
<1>1. CASE ~setup.metrics
  BY <1>1 DEF Measured
<1>2. CASE setup.metrics /\ Len(m.queue) < MeterBound
  <2> DEFINE q == Append(m.queue, what)
  <2>1. m.queue \in Seq(Nat) /\ Len(m.queue) < MeterBound
    BY <1>2 DEF Meters
  <2>2. q \in Seq(Nat) /\ Len(q) = Len(m.queue) + 1 /\ Len(m.queue) \in Nat
    BY <2>1
  <2>3. Len(q) <= MeterBound
    BY <2>1, <2>2, SizesAssumption
  <2>4. Measured(m, what) = [m EXCEPT !.queue = q]
    BY <1>2 DEF Measured
  <2> HIDE DEF q
  <2> QED
    BY <2>2, <2>3, <2>4 DEF Meters, MeterOK
<1>3. CASE setup.metrics /\ ~(Len(m.queue) < MeterBound)
  <2>1. Measured(m, what) = [m EXCEPT !.missed = TRUE]
    BY <1>3 DEF Measured
  <2> QED
    BY <2>1 DEF Meters, MeterOK
<1> QED
  BY <1>1, <1>2, <1>3

\* So does an update.
LEMMA UpdateType ==
    ASSUME Kinds, NEW m \in Meters, NEW i \in 1..Len(feed), MeterOK(m)
    PROVE  Update(m, i) \in Meters /\ MeterOK(Update(m, i))
<1>1. Done(Cardinality(Whole(i))) \in Nat
  BY FeedType DEF Done
<1> QED
  BY <1>1, MeasuredType DEF Update

\* All variables start in their types.
LEMMA TypeInit == Init => TypeInv
<1> SUFFICES ASSUME Init PROVE TypeInv
  OBVIOUS
<1>1. Kinds
  BY DEF Init, Kinds, Places, Meters, NoMsg
<1>2. DOMAIN tasks = {} /\ Cardinality(DOMAIN tasks) = 0
  BY FS_EmptySet DEF Init
<1>3. channel \in Seq(1..pos) /\ Len(channel) = 0
  BY DEF Init
<1>4. MeterOK(meter)
  BY SizesAssumption DEF Init, MeterOK
<1> QED
  BY <1>1, <1>2, <1>3, <1>4, FeedType, SizesAssumption
     DEF Init, TypeInv, StreamTypeOK, Holding, NoMsg, MeterOK

\* A set of messages is finite, and grows or shrinks by one at most.
LEMMA PoolSizes ==
    ASSUME NEW n \in Nat, NEW S \in SUBSET (1..n), NEW i
    PROVE  /\ IsFiniteSet(S) /\ Cardinality(S) \in Nat
           /\ Cardinality(S \cup {i}) <= Cardinality(S) + 1
           /\ Cardinality(S \ {i}) <= Cardinality(S)
<1>1. IsFiniteSet(1..n)
  BY FS_Interval
<1>2. IsFiniteSet(S)
  BY <1>1, FS_Subset
<1>3. Cardinality(S) \in Nat
  BY <1>2, FS_CardinalityType
<1>4. Cardinality(S \cup {i}) <= Cardinality(S) + 1
  BY <1>2, <1>3, FS_AddElement
<1>5. Cardinality(S \ {i}) <= Cardinality(S)
  BY <1>2, <1>3, FS_RemoveElement
<1> QED
  BY <1>2, <1>3, <1>4, <1>5

\* Counting an update, and starting the window anew.
LEMMA CountedType ==
    ASSUME meter \in Meters, MeterOK(meter), Aggregate \/ WindowTick
    PROVE  meter' \in Meters /\ MeterOK(meter')
<1>1. CASE Aggregate
  <2> DEFINE what == Head(meter.queue)
             n == IF what = Begun THEN 0 ELSE what - 1
             q == Tail(meter.queue)
  <2>1. /\ what \in Nat /\ q \in Seq(Nat)
        /\ Len(q) <= MeterBound
    BY <1>1, SizesAssumption DEF Aggregate, Meters, MeterOK
  <2>2. n \in Nat
    BY <2>1 DEF Begun
  <2>3. meter' = [meter EXCEPT !.queue = q, !.started = IF what = Begun THEN @ + 1 ELSE @,
                               !.counted = @ + n, !.window = @ + n]
    BY <1>1 DEF Aggregate
  <2> DEFINE started == IF what = Begun THEN meter.started + 1 ELSE meter.started
             counted == meter.counted + n
             window == meter.window + n
  <2>4. started \in Nat /\ counted \in Nat /\ window \in Nat /\ window <= counted
    <3>1. /\ meter.started \in Nat /\ meter.counted \in Nat /\ meter.window \in Nat
          /\ meter.window <= meter.counted
      BY DEF Meters, MeterOK
    <3> HIDE DEF n
    <3> QED
      BY <2>2, <3>1
  <2>5. meter' = [meter EXCEPT !.queue = q, !.started = started,
                               !.counted = counted, !.window = window]
    BY <2>3
  <2> HIDE DEF what, n, q, started, counted, window
  <2> QED
    BY <2>1, <2>4, <2>5 DEF Meters, MeterOK
<1>2. CASE WindowTick
  <2>1. meter' = [meter EXCEPT !.window = 0]
    BY <1>2 DEF WindowTick
  <2> QED
    BY <2>1 DEF Meters, MeterOK
<1> QED
  BY <1>1, <1>2

\* One step for each action; feed and setup never change, so that Kinds is about
\* the same scenario before and after.
LEMMA TypeStep == TypeInv /\ [Next]_vars => TypeInv'
<1> SUFFICES ASSUME TypeInv, [Next]_vars PROVE TypeInv'
  OBVIOUS
<1> USE DEF TypeInv, StreamTypeOK, Kinds, Holding, MeterOK, Immediate
<1>0. /\ Len(feed) \in Nat /\ pos \in Nat /\ setup.attempts \in Nat
      /\ meter \in Meters /\ MeterOK(meter)
  BY FeedType
<1>1. CASE Read
  <2>1. channel \in Seq(1..(pos + 1))
    BY <1>0
  <2> QED
    BY <1>0, <1>1, <2>1 DEF Read, work
<1>2. CASE Send
  <2>1. channel' \in Seq(1..pos) /\ Len(channel') <= Channel
    BY <1>0, <1>2, SizesAssumption DEF Send
  <2> QED
    BY <1>0, <1>2, <2>1 DEF Send, work
<1>3. CASE Full
  BY <1>0, <1>3 DEF Full, work
<1>4. CASE SendFails
  BY <1>0, <1>4 DEF SendFails, work
<1>5. CASE ReaderAborted
  BY <1>0, <1>5 DEF ReaderAborted, work
<1>6. CASE StreamEnds
  BY <1>0, <1>6 DEF StreamEnds, work
<1>7. CASE Receive
  <2>1. /\ Head(channel) \in 1..pos
        /\ Tail(channel) \in Seq(1..pos) /\ Len(Tail(channel)) <= Channel
    <3>1. channel \in Seq(1..pos) /\ channel # <<>> /\ Len(channel) <= Channel
      BY <1>7 DEF Receive
    <3> HIDE DEF TypeInv, StreamTypeOK, Kinds, Holding, MeterOK
    <3>2. /\ Head(channel) \in 1..pos /\ Tail(channel) \in Seq(1..pos)
          /\ Len(Tail(channel)) = Len(channel) - 1
      BY <3>1, HeadTailProperties
    <3>3. Len(channel) \in Nat
      BY <3>1
    <3> QED
      BY <3>1, <3>2, <3>3, SizesAssumption
  <2>2. Measured(meter, Begun) \in Meters /\ MeterOK(Measured(meter, Begun))
    BY <1>0, MeasuredType DEF Begun
  <2>3. meter' \in Meters /\ MeterOK(meter')
    BY <1>0, <1>7, <2>2 DEF Receive
  <2>4. /\ consumer' \in [at : Places, msg : Nat] /\ consumer'.msg \in 0..pos
        /\ taken' \in 0..pos
        /\ consumer'.at = "acquiring" => Immediate
        /\ consumer'.at \in {"acquiring", "adding", "flushing"} => consumer'.msg # NoMsg
        /\ Immediate => rest' = <<>> /\ batch' = <<>>
    <3>1. Head(channel) \in Nat \ {0} /\ Head(channel) \in 0..pos
      BY <1>0, <2>1
    <3>2. CASE Immediate
      BY <1>7, <3>1, <3>2 DEF Receive, Places, NoMsg
    <3>3. CASE ~Immediate
      BY <1>7, <3>1, <3>3 DEF Receive, Places, NoMsg
    <3> QED
      BY <3>2, <3>3
  <2> QED
    BY <1>0, <1>7, <2>1, <2>3, <2>4 DEF Receive, Places
<1>8. CASE Spawn
  <2>1. DOMAIN tasks \in SUBSET (1..pos)
    OBVIOUS
  <2>2. /\ Cardinality(DOMAIN tasks \cup {consumer.msg}) <= Cardinality(DOMAIN tasks) + 1
        /\ Cardinality(DOMAIN tasks) \in Nat /\ Cardinality(DOMAIN tasks \cup {consumer.msg}) \in Nat
    <3>1. DOMAIN tasks \cup {consumer.msg} \in SUBSET (1..pos)
      BY <1>0, <1>8 DEF Spawn, NoMsg
    <3> QED
      BY <1>0, <2>1, <3>1, PoolSizes
  <2>3. DOMAIN tasks' = DOMAIN tasks \cup {consumer.msg}
    BY <1>8 DEF Spawn
  <2>4. Cardinality(DOMAIN tasks') <= Workers
    BY <1>8, <2>2, <2>3, SizesAssumption DEF Spawn
  <2>5. consumer.msg \in 1..pos
    BY <1>0, <1>8 DEF Spawn, NoMsg
  <2> QED
    BY <1>0, <1>8, <2>3, <2>4, <2>5 DEF Spawn, pipe, Places, NoMsg
<1>9. ASSUME NEW i \in DOMAIN tasks, Task(i)
      PROVE  TypeInv'
  <2>1. DOMAIN tasks \in SUBSET (1..pos) /\ DOMAIN tasks \ {i} \in SUBSET (1..pos)
    OBVIOUS
  <2>2. Cardinality(DOMAIN tasks \ {i}) <= Workers
    <3>1. /\ Cardinality(DOMAIN tasks \ {i}) <= Cardinality(DOMAIN tasks)
          /\ Cardinality(DOMAIN tasks) \in Nat /\ Cardinality(DOMAIN tasks \ {i}) \in Nat
      BY <1>0, <2>1, PoolSizes
    <3> QED
      BY <3>1, SizesAssumption
  <2>3. i \in 1..Len(feed) /\ Immediate
    BY <1>0
  <2>4. CASE Parse(i)
    <3>1. meter' \in Meters /\ MeterOK(meter')
      BY <1>0, <2>4, MeasuredType DEF Parse, Begun
    <3>2. /\ DOMAIN tasks' \subseteq 1..pos /\ Cardinality(DOMAIN tasks') <= Workers
          /\ parsed' \subseteq DOMAIN tasks'
      BY <2>2, <2>4 DEF Parse, Ended
    <3> QED
      BY <1>0, <2>3, <2>4, <3>1, <3>2 DEF Parse, pipe
  <2>5. CASE Tell(i)
    BY <1>0, <2>3, <2>5 DEF Tell, pipe
  <2>6. CASE Finish(i)
    <3>1. meter' \in Meters /\ MeterOK(meter')
      BY <1>0, <2>3, <2>6, UpdateType DEF Finish
    <3>2. /\ DOMAIN tasks' \subseteq 1..pos /\ Cardinality(DOMAIN tasks') <= Workers
          /\ parsed' \subseteq DOMAIN tasks'
      BY <2>2, <2>6 DEF Finish, Ended
    <3> QED
      BY <1>0, <2>3, <2>6, <3>1, <3>2 DEF Finish, pipe
  <2> QED
    BY <1>9, <2>4, <2>5, <2>6 DEF Task
<1>10. CASE Add
  BY <1>0, <1>10 DEF Add, pipe, Places
<1>11. CASE Flush
  BY <1>0, <1>11 DEF Flush, pipe
<1>12. CASE Flushed
  BY <1>0, <1>12 DEF Flushed, pipe, Places
<1>13. CASE Added
  <2>1. consumer.msg \in 1..Len(feed)
    BY <1>0, <1>13 DEF Added, NoMsg
  <2>2. meter' \in Meters /\ MeterOK(meter')
    BY <1>0, <1>13, <2>1, UpdateType DEF Added
  <2> QED
    BY <1>0, <1>13, <2>2 DEF Added, pipe, Places, NoMsg
<1>14. CASE Close
  BY <1>0, <1>14 DEF Close, pipe, Places, NoMsg
<1>15. CASE Closed
  BY <1>0, <1>15 DEF Closed, pipe, Places
<1>16. CASE ConsumerAborted
  BY <1>0, <1>16 DEF ConsumerAborted, pipe, Places, NoMsg
<1>17. CASE Aggregate
  <2>1. meter' \in Meters /\ MeterOK(meter')
    BY <1>0, <1>17, CountedType
  <2> QED
    BY <1>0, <1>17, <2>1 DEF Aggregate, pipe, work
<1>18. CASE WindowTick
  <2>1. meter' \in Meters /\ MeterOK(meter')
    BY <1>0, <1>18, CountedType
  <2> QED
    BY <1>0, <1>18, <2>1 DEF WindowTick, pipe, work
<1>19. CASE Stop
  BY <1>0, <1>19 DEF Stop, pipe, work
<1>20. CASE UNCHANGED vars
  BY <1>0, <1>20 DEF vars, pipe, work
<1> QED
  BY <1>1, <1>2, <1>3, <1>4, <1>5, <1>6, <1>7, <1>8, <1>9, <1>10, <1>11, <1>12, <1>13,
     <1>14, <1>15, <1>16, <1>17, <1>18, <1>19, <1>20
     DEF Next, Reader, Consumer, Metrics, Environment

\* The variables keep to their kinds, and the pool and the channel to their sizes.
THEOREM StreamTypeCorrect == Spec => []StreamTypeOK
<1>1. TypeInv => StreamTypeOK
  BY DEF TypeInv
<1> QED
  BY TypeInit, TypeStep, <1>1, PTL DEF Spec

-----------------------------------------------------------------------------
(* The promise of Stream                                                   *)


Size(i) == Len(EventsOf(feed[i]))
Left(i, d) == [k \in 1..(Size(i) - d) |-> <<i, d + k>>]

\* The channel holds messages in the order of the stream, none taken up yet.
Arrivals ==
    /\ \A n \in DOMAIN channel :
          /\ channel[n] > taken /\ channel[n] > consumer.msg
          /\ reader = "sending" => channel[n] < pos
    /\ \A m, n \in DOMAIN channel : m < n => channel[m] < channel[n]
    /\ reader = "sending" => taken < pos /\ consumer.msg < pos
    /\ consumer.at = "acquiring" => consumer.msg > taken
    /\ consumer.at \in {"adding", "flushing"} => consumer.msg = taken /\ ~Immediate
    /\ consumer.at \in {"waiting", "closing", "done"} => consumer.msg = NoMsg
    /\ heard \in Seq(Nat \X Nat)
    /\ \A n \in DOMAIN heard : heard[n][1] <= taken

\* A task has told a beginning of its message and holds the rest.
Holds(i, d) == ToldOf(i) = 1..d /\ tasks[i] = Left(i, d)
Tasked == \A i \in DOMAIN tasks : i <= taken /\ \E d \in 0..Size(i) : Holds(i, d)

-----------------------------------------------------------------------------
(* The rest of a message, and what telling an event adds to what is told.   *)

\* The rest of a message is a sequence,
LEMMA LeftSeq ==
    ASSUME NEW i \in Nat, NEW d \in Nat, Size(i) \in Nat, d <= Size(i)
    PROVE  /\ Left(i, d) \in Seq(Nat \X Nat)
           /\ Len(Left(i, d)) = Size(i) - d
           /\ \A k \in 1..(Size(i) - d) : Left(i, d)[k] = <<i, d + k>>
<1> DEFINE n == Size(i) - d
<1>1. n \in Nat
  OBVIOUS
<1>2. \A k \in 1..n : <<i, d + k>> \in Nat \X Nat
  OBVIOUS
<1>3. Left(i, d) \in [1..n -> Nat \X Nat]
  BY <1>2 DEF Left
<1>4. Left(i, d) \in Seq(Nat \X Nat) /\ Len(Left(i, d)) = n
  BY <1>1, <1>3
<1> QED
  BY <1>4 DEF Left

\* which begins with the event after the last and goes on behind it.
LEMMA LeftIs ==
    ASSUME NEW i \in Nat, NEW d \in Nat, Size(i) \in Nat, d <= Size(i)
    PROVE  /\ Left(i, d) # <<>> <=> d < Size(i)
           /\ d < Size(i) =>
                 Head(Left(i, d)) = <<i, d + 1>> /\ Tail(Left(i, d)) = Left(i, d + 1)
<1>1. /\ Left(i, d) \in Seq(Nat \X Nat) /\ Len(Left(i, d)) = Size(i) - d
      /\ \A k \in 1..(Size(i) - d) : Left(i, d)[k] = <<i, d + k>>
  BY LeftSeq
<1>2. Left(i, d) # <<>> <=> d < Size(i)
  BY <1>1
<1>3. ASSUME d < Size(i)
      PROVE  Head(Left(i, d)) = <<i, d + 1>> /\ Tail(Left(i, d)) = Left(i, d + 1)
  <2>1. /\ Tail(Left(i, d)) \in Seq(Nat \X Nat)
        /\ Len(Tail(Left(i, d))) = Size(i) - d - 1
        /\ \A k \in 1..(Size(i) - d - 1) : Tail(Left(i, d))[k] = Left(i, d)[k + 1]
    BY <1>1, <1>2, <1>3, HeadTailProperties
  <2>2. /\ Left(i, d + 1) \in Seq(Nat \X Nat) /\ Len(Left(i, d + 1)) = Size(i) - d - 1
        /\ \A k \in 1..(Size(i) - d - 1) : Left(i, d + 1)[k] = <<i, (d + 1) + k>>
    <3>1. d + 1 \in Nat /\ d + 1 <= Size(i) /\ Size(i) - (d + 1) = Size(i) - d - 1
      BY <1>3
    <3> DEFINE e == d + 1
    <3>2. e \in Nat /\ e <= Size(i)
      BY <3>1
    <3> HIDE DEF e
    <3>3. /\ Left(i, e) \in Seq(Nat \X Nat) /\ Len(Left(i, e)) = Size(i) - e
          /\ \A k \in 1..(Size(i) - e) : Left(i, e)[k] = <<i, e + k>>
      BY <3>2, LeftSeq
    <3> QED
      BY <3>1, <3>3 DEF e
  <2>3. \A k \in 1..(Size(i) - d - 1) : Left(i, d)[k + 1] = <<i, (d + 1) + k>>
    <3> TAKE k \in 1..(Size(i) - d - 1)
    <3>1. k + 1 \in 1..(Size(i) - d) /\ d + (k + 1) = (d + 1) + k
      OBVIOUS
    <3> QED
      BY <1>1, <3>1
  <2>4. Tail(Left(i, d)) = Left(i, d + 1)
    BY <2>1, <2>2, <2>3, SeqEqual
  <2>5. Head(Left(i, d)) = Left(i, d)[1]
    BY <1>1, <1>2, <1>3
  <2> QED
    BY <1>1, <1>3, <2>4, <2>5
<1> QED
  BY <1>2, <1>3

\* Where nothing is heard, nothing more is told.
LEMMA ToldSame ==
    ASSUME feed' = feed, heard' = heard
    PROVE  \A j : ToldOf(j)' = ToldOf(j)
BY DEF ToldOf, Whole

\* The next event of a message adds itself to what is told of it, and nothing else.
LEMMA ToldMore ==
    ASSUME feed' = feed, heard \in Seq(Nat \X Nat),
           NEW i \in Nat, NEW d \in Nat, Size(i) \in Nat, d < Size(i),
           ToldOf(i) = 1..d, heard' = Append(heard, <<i, d + 1>>)
    PROVE  /\ ToldOf(i)' = 1..(d + 1)
           /\ \A j : j # i => ToldOf(j)' = ToldOf(j)
<1>1. /\ DOMAIN heard' = 1..(Len(heard) + 1) /\ DOMAIN heard = 1..Len(heard)
      /\ Len(heard) \in Nat
      /\ \A n \in 1..Len(heard) : heard'[n] = heard[n]
      /\ heard'[Len(heard) + 1] = <<i, d + 1>>
  OBVIOUS
<1>2. \A j, k : (\E n \in DOMAIN heard' : heard'[n] = <<j, k>>)
                  <=> (\E n \in DOMAIN heard : heard[n] = <<j, k>>) \/ <<j, k>> = <<i, d + 1>>
  <2> TAKE j, k
  <2>1. ASSUME NEW n \in DOMAIN heard', heard'[n] = <<j, k>>
        PROVE  (\E m \in DOMAIN heard : heard[m] = <<j, k>>) \/ <<j, k>> = <<i, d + 1>>
    <3>1. n \in 1..Len(heard) \/ n = Len(heard) + 1
      BY <1>1
    <3> QED
      BY <1>1, <2>1, <3>1
  <2>2. ASSUME NEW n \in DOMAIN heard, heard[n] = <<j, k>>
        PROVE  \E m \in DOMAIN heard' : heard'[m] = <<j, k>>
    <3>1. n \in DOMAIN heard'
      BY <1>1
    <3> QED
      BY <1>1, <2>2, <3>1
  <2>3. Len(heard) + 1 \in DOMAIN heard'
    BY <1>1
  <2> QED
    BY <1>1, <2>1, <2>2, <2>3
<1>3. \A j : Whole(j)' = Whole(j)
  BY DEF Whole
<1>4. \A j : ToldOf(j)' = {k \in Whole(j) : \E n \in DOMAIN heard' : heard'[n] = <<j, k>>}
  BY <1>3 DEF ToldOf
<1>5. \A j : j # i => ToldOf(j)' = ToldOf(j)
  BY <1>2, <1>4 DEF ToldOf
<1>6. d + 1 \in Whole(i)
  BY DEF Whole, Size
<1>7. \A k : <<i, k>> = <<i, d + 1>> <=> k = d + 1
  OBVIOUS
<1>8. ToldOf(i)' = ToldOf(i) \cup {d + 1}
  <2>1. \A k : k \in ToldOf(i)' <=> k \in ToldOf(i) \/ k = d + 1
    <3> TAKE k
    <3>1. k \in ToldOf(i)' <=> k \in Whole(i) /\ \E n \in DOMAIN heard' : heard'[n] = <<i, k>>
      BY <1>4
    <3>2. k \in ToldOf(i) <=> k \in Whole(i) /\ \E n \in DOMAIN heard : heard[n] = <<i, k>>
      BY DEF ToldOf
    <3> QED
      BY <1>2, <1>6, <1>7, <3>1, <3>2
  <2> QED
    BY <2>1
<1>9. ToldOf(i)' = 1..(d + 1)
  BY <1>8
<1> QED
  BY <1>5, <1>9

\* Of a message that is not taken up nothing is told.
LEMMA ToldNone ==
    ASSUME Arrivals, taken \in Nat, NEW i \in Nat, i > taken
    PROVE  ToldOf(i) = {}
<1>1. \A n \in DOMAIN heard : heard[n][1] \in Nat
  BY DEF Arrivals
<1> QED
  BY <1>1 DEF Arrivals, ToldOf

-----------------------------------------------------------------------------
(* The batch: its events follow on each other, each message to its end      *)
(* before the next begins, and `rest` follows on the batch.                 *)

Complete(e) == e[2] = Size(e[1])
Follows(d, e) ==
    \/ e[1] = d[1] /\ e[2] = d[2] + 1
    \/ e[1] > d[1] /\ Complete(d) /\ e[2] = 1

Batched ==
    /\ batch \in Seq(Nat \X Nat)
    /\ \A n \in DOMAIN batch : batch[n][1] \in 1..taken /\ batch[n][2] \in 1..Size(batch[n][1])
    /\ \A n \in DOMAIN batch : n > 1 => Follows(batch[n - 1], batch[n])
    /\ \A m, n \in DOMAIN batch : m < n => batch[m][1] <= batch[n][1]
    /\ batch # <<>> =>
          /\ ToldOf(batch[1][1]) = 1..(batch[1][2] - 1)
          /\ \A n \in DOMAIN batch : batch[n][1] # batch[1][1] => ToldOf(batch[n][1]) = {}

\* Of message i, d events were handed on: the last of them ends the batch, or is told.
Current(i, d) ==
    \/ /\ d > 0 /\ ~Direct(feed[i]) /\ batch # <<>>
       /\ batch[Len(batch)] = <<i, d>>
    \/ /\ ToldOf(i) = 1..d
       /\ batch # <<>> => batch[Len(batch)][1] < i /\ Complete(batch[Len(batch)])
       /\ d = 0 \/ batch = <<>> \/ Direct(feed[i])

Busy == consumer.at \in {"adding", "flushing"}

Adding ==
    /\ Busy => \E d \in 0..Size(consumer.msg) :
                  rest = Left(consumer.msg, d) /\ Current(consumer.msg, d)
    /\ ~Busy /\ batch # <<>> => Complete(batch[Len(batch)])
    /\ setup.size = 0 => batch = <<>>
    /\ consumer.at \in {"waiting", "adding"} /\ setup.size > 0 => Len(batch) < setup.size

PromiseInv ==
    /\ TypeInv /\ Arrivals
    /\ Immediate => Tasked
    /\ ~Immediate => Batched /\ Adding

\* The first n numbers are n.
LEMMA FirstN ==
    ASSUME NEW n \in Nat
    PROVE  IsFiniteSet(1..n) /\ Cardinality(1..n) = n
<1>1. 1 \in Int /\ n \in Int
  OBVIOUS
<1>2. IsFiniteSet(1..n) /\ Cardinality(1..n) = IF 1 > n THEN 0 ELSE n - 1 + 1
  BY <1>1, FS_Interval
<1> QED
  BY <1>2

\* What every step can count on.
LEMMA Facts ==
    ASSUME PromiseInv
    PROVE  /\ Len(feed) \in Nat /\ DOMAIN feed = 1..Len(feed)
           /\ \A i \in 1..Len(feed) : Size(i) \in Nat /\ Cardinality(Whole(i)) = Size(i)
           /\ pos \in Nat /\ pos <= Len(feed) /\ taken \in Nat /\ taken <= pos
           /\ consumer.msg \in Nat /\ consumer.msg <= pos
           /\ setup.size \in Nat
           /\ channel \in Seq(1..pos)
           /\ heard \in Seq(Nat \X Nat)
           /\ DOMAIN tasks \subseteq 1..pos
           /\ parsed \subseteq DOMAIN tasks
<1>1. /\ Len(feed) \in Nat /\ DOMAIN feed = 1..Len(feed) /\ setup.size \in Nat
      /\ \A i \in 1..Len(feed) : Size(i) \in Nat
  BY FeedType DEF PromiseInv, TypeInv, Size
<1>2. \A i \in 1..Len(feed) : Cardinality(Whole(i)) = Size(i)
  <2> TAKE i \in 1..Len(feed)
  <2>1. Cardinality(1..Size(i)) = Size(i)
    BY <1>1, FirstN
  <2> QED
    BY <2>1 DEF Whole, Size
<1> QED
  BY <1>1, <1>2 DEF PromiseInv, TypeInv, StreamTypeOK, Arrivals

\* What is heard stays in kind when an event of a message taken up is told.
LEMMA HeardGrows ==
    ASSUME Arrivals, taken' = taken, NEW i \in Nat, NEW k \in Nat, i <= taken,
           heard' = Append(heard, <<i, k>>)
    PROVE  heard' \in Seq(Nat \X Nat) /\ \A n \in DOMAIN heard' : heard'[n][1] <= taken'
<1>1. heard \in Seq(Nat \X Nat) /\ \A n \in DOMAIN heard : heard[n][1] <= taken
  BY DEF Arrivals
<1>2. heard' \in Seq(Nat \X Nat)
  BY <1>1
<1>3. /\ DOMAIN heard' = 1..(Len(heard) + 1) /\ DOMAIN heard = 1..Len(heard)
      /\ Len(heard) \in Nat
      /\ \A n \in 1..Len(heard) : heard'[n] = heard[n]
      /\ heard'[Len(heard) + 1] = <<i, k>>
  BY <1>1
<1>4. ASSUME NEW n \in DOMAIN heard'
      PROVE  heard'[n][1] <= taken'
  <2>1. CASE n \in 1..Len(heard)
    BY <1>1, <1>3, <2>1
  <2>2. CASE n = Len(heard) + 1
    BY <1>3, <2>2
  <2> QED
    BY <1>3, <2>1, <2>2
<1> QED
  BY <1>2, <1>4

\* Who takes the head of the rest of a message takes the event after the last.
LEMMA HeadOfTask ==
    ASSUME PromiseInv, Immediate, NEW i \in DOMAIN tasks
    PROVE  /\ i \in 1..Len(feed) /\ i <= taken /\ i \in Nat
           /\ \E d \in 0..Size(i) :
                 /\ Holds(i, d) /\ Size(i) \in Nat /\ d \in Nat
                 /\ tasks[i] # <<>> <=> d < Size(i)
                 /\ d < Size(i) =>
                       Head(tasks[i]) = <<i, d + 1>> /\ Tail(tasks[i]) = Left(i, d + 1)
<1>1. i \in 1..Len(feed) /\ i <= taken /\ Size(i) \in Nat /\ i \in Nat
  BY Facts DEF PromiseInv, Tasked
<1>2. PICK d \in 0..Size(i) : Holds(i, d)
  BY DEF PromiseInv, Tasked
<1>3. d \in Nat /\ d <= Size(i)
  BY <1>1, <1>2
<1>4. /\ Left(i, d) # <<>> <=> d < Size(i)
      /\ d < Size(i) => Head(Left(i, d)) = <<i, d + 1>> /\ Tail(Left(i, d)) = Left(i, d + 1)
  BY <1>1, <1>3, LeftIs
<1>5. tasks[i] = Left(i, d)
  BY <1>2 DEF Holds
<1> QED
  BY <1>1, <1>2, <1>3, <1>4, <1>5

\* So does the batch consumer, of the message in hand.
LEMMA HeadOfRest ==
    ASSUME PromiseInv, ~Immediate, Busy
    PROVE  /\ consumer.msg \in 1..Len(feed) /\ consumer.msg = taken
           /\ \E d \in 0..Size(taken) :
                 /\ rest = Left(taken, d) /\ Current(taken, d)
                 /\ Size(taken) \in Nat /\ d \in Nat
                 /\ rest # <<>> <=> d < Size(taken)
                 /\ d < Size(taken) =>
                       Head(rest) = <<taken, d + 1>> /\ Tail(rest) = Left(taken, d + 1)
<1>1. consumer.msg \in 1..Len(feed) /\ consumer.msg = taken /\ Size(taken) \in Nat
  BY Facts DEF PromiseInv, TypeInv, Holding, Arrivals, Busy, NoMsg
<1>2. PICK d \in 0..Size(taken) : rest = Left(taken, d) /\ Current(taken, d)
  BY <1>1 DEF PromiseInv, Adding
<1>3. d \in Nat /\ d <= Size(taken) /\ taken \in Nat
  BY <1>1, <1>2, Facts
<1>4. /\ Left(taken, d) # <<>> <=> d < Size(taken)
      /\ d < Size(taken) =>
            Head(Left(taken, d)) = <<taken, d + 1>> /\ Tail(Left(taken, d)) = Left(taken, d + 1)
  BY <1>1, <1>3, LeftIs
<1> QED
  BY <1>1, <1>2, <1>3, <1>4

(* One lemma for each part of the invariant.                                *)

\* No step brings the channel out of order.
LEMMA ArrivalsStep == PromiseInv /\ [Next]_vars => Arrivals'
<1> SUFFICES ASSUME PromiseInv, [Next]_vars PROVE Arrivals'
  OBVIOUS
<1>0. /\ pos \in Nat /\ taken \in Nat /\ taken <= pos
      /\ consumer.msg \in Nat /\ consumer.msg <= pos
      /\ channel \in Seq(1..pos) /\ Len(channel) \in Nat
      /\ DOMAIN channel = 1..Len(channel)
      /\ \A n \in DOMAIN channel : channel[n] \in 1..pos
      /\ consumer \in [at : Places, msg : Nat]
      /\ reader \in {"reading", "sending", "done"}
      /\ Arrivals
  BY Facts DEF PromiseInv, TypeInv, StreamTypeOK, Kinds
<1>1. CASE Read
  BY <1>0, <1>1 DEF Read, work, Arrivals, Immediate
<1>2. CASE Send
  <2>1. /\ DOMAIN channel' = 1..(Len(channel) + 1)
        /\ \A n \in 1..Len(channel) : channel'[n] = channel[n]
        /\ channel'[Len(channel) + 1] = pos
    BY <1>0, <1>2 DEF Send
  <2>2. pos > taken /\ pos > consumer.msg /\ \A n \in DOMAIN channel : channel[n] < pos
    BY <1>0, <1>2 DEF Send, Arrivals
  <2>3. ASSUME NEW n \in DOMAIN channel'
        PROVE  channel'[n] > taken /\ channel'[n] > consumer.msg
    <3>1. CASE n \in 1..Len(channel)
      BY <1>0, <2>1, <3>1 DEF Arrivals
    <3>2. CASE n = Len(channel) + 1
      BY <2>1, <2>2, <3>2
    <3> QED
      BY <1>0, <2>1, <3>1, <3>2
  <2>4. ASSUME NEW m \in DOMAIN channel', NEW n \in DOMAIN channel', m < n
        PROVE  channel'[m] < channel'[n]
    <3>1. m \in 1..Len(channel)
      BY <1>0, <2>1, <2>4
    <3>2. CASE n \in 1..Len(channel)
      BY <1>0, <2>1, <2>4, <3>1, <3>2 DEF Arrivals
    <3>3. CASE n = Len(channel) + 1
      BY <1>0, <2>1, <2>2, <3>1, <3>3
    <3> QED
      BY <1>0, <2>1, <3>2, <3>3
  <2> QED
    BY <1>0, <1>2, <2>3, <2>4 DEF Send, work, Arrivals, Immediate
<1>3. CASE Full \/ SendFails \/ ReaderAborted \/ StreamEnds
  BY <1>0, <1>3 DEF Full, SendFails, ReaderAborted, StreamEnds, work, Arrivals, Immediate
<1>4. CASE Receive
  <2>1. /\ channel # <<>> /\ Head(channel) = channel[1] /\ 1 \in DOMAIN channel
        /\ DOMAIN channel' = 1..(Len(channel) - 1)
        /\ \A n \in 1..(Len(channel) - 1) : channel'[n] = channel[n + 1]
    <3>1. channel # <<>> /\ channel' = Tail(channel)
      BY <1>4 DEF Receive
    <3>2. /\ Tail(channel) \in Seq(1..pos) /\ Len(Tail(channel)) = Len(channel) - 1
          /\ \A n \in 1..(Len(channel) - 1) : Tail(channel)[n] = channel[n + 1]
      BY <1>0, <3>1, HeadTailProperties
    <3> QED
      BY <1>0, <3>1, <3>2
  <2>2. channel[1] > taken /\ channel[1] \in 1..pos
    BY <1>0, <2>1 DEF Arrivals
  <2>3. ASSUME NEW n \in DOMAIN channel'
        PROVE  /\ channel'[n] > channel[1] /\ channel'[n] > taken /\ channel'[n] > 0
               /\ reader = "sending" => channel'[n] < pos
    <3>1. n + 1 \in DOMAIN channel /\ n + 1 > 1 /\ channel'[n] = channel[n + 1]
      BY <1>0, <2>1
    <3>2. channel[n + 1] > channel[1]
      BY <1>0, <2>1, <3>1 DEF Arrivals
    <3>3. reader = "sending" => channel[n + 1] < pos
      BY <1>0, <3>1 DEF Arrivals
    <3>4. channel[n + 1] \in Nat /\ channel[1] \in Nat
      BY <1>0, <2>1, <3>1
    <3> QED
      BY <1>0, <2>2, <3>1, <3>2, <3>3, <3>4
  <2>4. ASSUME NEW m \in DOMAIN channel', NEW n \in DOMAIN channel', m < n
        PROVE  channel'[m] < channel'[n]
    <3>1. \A k \in DOMAIN channel' :
             k \in Nat /\ k + 1 \in DOMAIN channel /\ channel'[k] = channel[k + 1]
      <4>1. Len(channel) \in Nat /\ DOMAIN channel = 1..Len(channel)
        BY <1>0
      <4> QED
        BY <2>1, <4>1
    <3>2. m + 1 < n + 1
      BY <2>4, <3>1
    <3> QED
      BY <1>0, <3>1, <3>2 DEF Arrivals
  <2>5. reader = "sending" => channel[1] < pos
    BY <1>0, <2>1 DEF Arrivals
  <2>6. /\ UNCHANGED <<pos, reader, heard, setup, feed>>
        /\ \/ /\ consumer' = [at |-> "acquiring", msg |-> channel[1]] /\ taken' = taken
           \/ /\ consumer' = [at |-> "done", msg |-> NoMsg] /\ taken' = taken
           \/ /\ consumer' = [at |-> "adding", msg |-> channel[1]] /\ taken' = channel[1]
              /\ ~Immediate
    BY <1>4, <2>1 DEF Receive
  <2>7. \A n \in DOMAIN heard : heard[n][1] <= taken'
    <3>1. \A n \in DOMAIN heard : heard[n][1] \in Nat /\ heard[n][1] <= taken
      BY <1>0 DEF Arrivals
    <3> QED
      BY <1>0, <2>2, <2>6, <3>1
  <2> QED
    BY <1>0, <2>2, <2>3, <2>4, <2>5, <2>6, <2>7 DEF Arrivals, NoMsg, Immediate
<1>5. CASE Spawn
  <2>1. \A n \in DOMAIN heard : heard[n][1] \in Nat /\ heard[n][1] <= taken
    BY <1>0 DEF Arrivals
  <2>2. consumer.msg > taken
    BY <1>0, <1>5 DEF Spawn, Arrivals
  <2>3. \A n \in DOMAIN heard : heard[n][1] <= consumer.msg
    BY <1>0, <2>1, <2>2
  <2> QED
    BY <1>0, <1>5, <2>2, <2>3 DEF Spawn, pipe, Arrivals, NoMsg, Immediate
<1>6. ASSUME NEW i \in DOMAIN tasks, Task(i)
      PROVE  Arrivals'
  <2>1. CASE Parse(i)
    BY <1>0, <2>1 DEF Parse, pipe, Arrivals, Immediate
  <2>2. CASE Tell(i)
    <3>1. Immediate
      BY DEF PromiseInv, TypeInv, StreamTypeOK
    <3>2. PICK d \in Nat : Head(tasks[i]) = <<i, d + 1>>
      BY <2>2, <3>1, HeadOfTask DEF Tell
    <3>3. i \in Nat /\ i <= taken
      BY <3>1, HeadOfTask
    <3>4. heard' = Append(heard, <<i, d + 1>>) /\ taken' = taken /\ d + 1 \in Nat
      BY <2>2, <3>2 DEF Tell
    <3>5. heard' \in Seq(Nat \X Nat) /\ \A n \in DOMAIN heard' : heard'[n][1] <= taken'
      BY <1>0, <3>3, <3>4, HeardGrows
    <3> QED
      BY <1>0, <2>2, <3>5 DEF Tell, pipe, Arrivals, Immediate
  <2>3. CASE Finish(i)
    BY <1>0, <2>3 DEF Finish, pipe, Arrivals, Immediate
  <2> QED
    BY <1>6, <2>1, <2>2, <2>3 DEF Task
<1>7. CASE Add
  <2>1. ~Immediate /\ Busy
    BY <1>0, <1>7 DEF Add, Busy, Arrivals
  <2>2. heard' \in Seq(Nat \X Nat) /\ \A n \in DOMAIN heard' : heard'[n][1] <= taken'
    <3>1. CASE heard' = heard
      BY <1>0, <1>7, <3>1 DEF Add, Arrivals
    <3>2. CASE heard' # heard
      <4>1. PICK d \in Nat : Head(rest) = <<taken, d + 1>>
        BY <1>7, <2>1, HeadOfRest DEF Add
      <4>2. heard' = Append(heard, <<taken, d + 1>>) /\ taken' = taken /\ d + 1 \in Nat
        BY <1>7, <3>2, <4>1 DEF Add
      <4>3. taken \in Nat /\ taken <= taken /\ Arrivals
        BY <1>0
      <4> QED
        BY <4>2, <4>3, HeardGrows
    <3> QED
      BY <3>1, <3>2
  <2>3. consumer'.msg = consumer.msg /\ consumer'.at \in {"adding", "flushing"}
    BY <1>0, <1>7 DEF Add
  <2> QED
    BY <1>0, <1>7, <2>1, <2>2, <2>3 DEF Add, pipe, Arrivals, Immediate
<1>8. CASE Flush
  <2>1. ~Immediate /\ batch # <<>>
    BY <1>8 DEF Flush, PromiseInv, TypeInv, StreamTypeOK
  <2>2. /\ batch \in Seq(Nat \X Nat) /\ 1 \in DOMAIN batch /\ batch[1][1] <= taken
        /\ Head(batch) = batch[1]
    BY <1>0, <2>1 DEF PromiseInv, Batched
  <2>3. PICK i \in Nat, k \in Nat : batch[1] = <<i, k>> /\ i <= taken
    BY <2>2
  <2>4. heard' = Append(heard, <<i, k>>) /\ taken' = taken
    BY <1>8, <2>2, <2>3 DEF Flush
  <2>5. heard' \in Seq(Nat \X Nat) /\ \A n \in DOMAIN heard' : heard'[n][1] <= taken'
    BY <1>0, <2>3, <2>4, HeardGrows
  <2> QED
    BY <1>0, <1>8, <2>5 DEF Flush, pipe, Arrivals, Immediate
<1>9. CASE Flushed \/ Closed
  <2>1. consumer'.msg = consumer.msg
    BY <1>0, <1>9 DEF Flushed, Closed
  <2>2. \/ consumer.at = "flushing" /\ consumer'.at = "adding"
        \/ consumer.at = "closing" /\ consumer'.at = "done"
    BY <1>0, <1>9 DEF Flushed, Closed
  <2>3. UNCHANGED <<setup, feed, pipe, taken, heard>>
    BY <1>9 DEF Flushed, Closed
  <2> QED
    BY <1>0, <2>1, <2>2, <2>3 DEF pipe, Arrivals, Immediate
<1>10. CASE Added \/ Close \/ ConsumerAborted
  <2>1. consumer'.msg = NoMsg /\ consumer'.at \in {"waiting", "closing", "done"}
    BY <1>10 DEF Added, Close, ConsumerAborted
  <2>2. /\ UNCHANGED <<setup, feed, pipe, taken, heard>>
    BY <1>10 DEF Added, Close, ConsumerAborted
  <2> QED
    BY <1>0, <2>1, <2>2 DEF pipe, Arrivals, Immediate, NoMsg
<1>11. CASE Aggregate \/ WindowTick \/ Stop \/ UNCHANGED vars
  BY <1>0, <1>11 DEF Aggregate, WindowTick, Stop, vars, pipe, work, Arrivals, Immediate
<1> QED
  BY <1>1, <1>2, <1>3, <1>4, <1>5, <1>6, <1>7, <1>8, <1>9, <1>10, <1>11
     DEF Next, Reader, Consumer, Metrics, Environment

\* The sizes are those of the stream.
LEMMA SizeSame ==
    ASSUME feed' = feed
    PROVE  \A i : Size(i)' = Size(i) /\ \A d : Left(i, d)' = Left(i, d)
BY DEF Size, Left

\* A step that tells nothing leaves the tasks what they hold.
LEMMA TaskedKept ==
    ASSUME PromiseInv, Immediate, feed' = feed, heard' = heard, taken' = taken,
           DOMAIN tasks' \subseteq DOMAIN tasks, \A j \in DOMAIN tasks' : tasks'[j] = tasks[j]
    PROVE  Tasked'
<1> SUFFICES ASSUME NEW i \in DOMAIN tasks'
             PROVE  i <= taken' /\ \E d \in 0..Size(i)' : Holds(i, d)'
  BY DEF Tasked
<1>1. i \in DOMAIN tasks /\ tasks'[i] = tasks[i]
  OBVIOUS
<1>2. PICK d \in 0..Size(i) : i <= taken /\ Holds(i, d)
  BY <1>1 DEF PromiseInv, Tasked
<1>3. ToldOf(i)' = ToldOf(i) /\ Size(i)' = Size(i) /\ Left(i, d)' = Left(i, d)
  BY ToldSame, SizeSame
<1> QED
  BY <1>1, <1>2, <1>3 DEF Holds

\* A task tells the head of what it holds, and holds the rest.
LEMMA TaskedStep == PromiseInv /\ [Next]_vars /\ Immediate => Tasked'
<1> SUFFICES ASSUME PromiseInv, [Next]_vars, Immediate PROVE Tasked'
  OBVIOUS
<1>0. /\ rest = <<>> /\ batch = <<>> /\ consumer.at \notin {"adding", "flushing"}
      /\ taken \in Nat /\ Arrivals /\ Tasked
  BY Facts DEF PromiseInv, TypeInv, StreamTypeOK, Arrivals
<1>1. CASE \/ Read \/ Send \/ Full \/ SendFails \/ ReaderAborted \/ StreamEnds
           \/ Close \/ Closed \/ ConsumerAborted \/ Aggregate \/ WindowTick \/ Stop
           \/ UNCHANGED vars
  <2>1. UNCHANGED <<feed, heard, taken, tasks>>
    BY <1>1 DEF Read, Send, Full, SendFails, ReaderAborted, StreamEnds, Close, Closed,
       ConsumerAborted, Aggregate, WindowTick, Stop, vars, work
  <2> QED
    BY <2>1, TaskedKept
<1>2. CASE Receive
  <2>1. UNCHANGED <<feed, heard, taken, tasks>>
    BY <1>2 DEF Receive
  <2> QED
    BY <2>1, TaskedKept
<1>3. CASE Spawn
  <2> DEFINE msg == consumer.msg
  <2>1. /\ msg > taken /\ msg \in Nat /\ msg \in 1..Len(feed)
        /\ Size(msg) \in Nat
    BY <1>3, Facts DEF Spawn, PromiseInv, Arrivals
  <2>2. /\ DOMAIN tasks' = DOMAIN tasks \cup {msg} /\ taken' = msg
        /\ UNCHANGED <<feed, heard>>
        /\ tasks' = [i \in DOMAIN tasks \cup {msg} |-> IF i = msg THEN Events(i) ELSE tasks[i]]
    BY <1>3 DEF Spawn
  <2>3. SUFFICES ASSUME NEW i \in DOMAIN tasks'
                 PROVE  i <= taken' /\ \E d \in 0..Size(i)' : Holds(i, d)'
    BY DEF Tasked
  <2>4. ToldOf(i)' = ToldOf(i) /\ Size(i)' = Size(i) /\ \A d : Left(i, d)' = Left(i, d)
    BY <2>2, ToldSame, SizeSame
  <2>5. CASE i = msg
    <3>1. i > taken /\ i \in Nat /\ Size(i) \in Nat
      BY <2>1, <2>5
    <3>2. ToldOf(i) = {}
      BY <1>0, <3>1, ToldNone
    <3>3. tasks'[i] = Events(i)
      BY <2>2, <2>5
    <3>4. Events(i) = Left(i, 0)
      BY <3>1 DEF Events, Left, Whole, Size
    <3>5. Holds(i, 0)'
      BY <2>4, <3>2, <3>3, <3>4 DEF Holds
    <3> QED
      BY <2>2, <2>4, <2>5, <3>1, <3>5
  <2>6. CASE i # msg
    <3>1. i \in DOMAIN tasks /\ tasks'[i] = tasks[i]
      BY <2>2, <2>6
    <3>2. PICK d \in 0..Size(i) : i <= taken /\ Holds(i, d)
      BY <1>0, <3>1 DEF Tasked
    <3>3. i \in Nat
      BY <3>1, HeadOfTask
    <3>4. i <= taken'
      BY <1>0, <2>1, <2>2, <3>2, <3>3
    <3> QED
      BY <2>4, <3>1, <3>2, <3>4 DEF Holds
  <2> QED
    BY <2>5, <2>6
<1>4. ASSUME NEW i \in DOMAIN tasks, Task(i)
      PROVE  Tasked'
  <2>1. CASE Parse(i)
    BY <2>1, TaskedKept DEF Parse, Ended
  <2>2. CASE Tell(i)
    <3>1. PICK d \in 0..Size(i) :
                 /\ Holds(i, d) /\ Size(i) \in Nat /\ d \in Nat
                 /\ tasks[i] # <<>> <=> d < Size(i)
                 /\ d < Size(i) =>
                       Head(tasks[i]) = <<i, d + 1>> /\ Tail(tasks[i]) = Left(i, d + 1)
      BY HeadOfTask
    <3>2. i \in Nat /\ i <= taken
      BY HeadOfTask
    <3>3. /\ d < Size(i) /\ heard' = Append(heard, <<i, d + 1>>)
          /\ tasks' = [tasks EXCEPT ![i] = Left(i, d + 1)]
          /\ UNCHANGED <<feed, taken>>
      BY <2>2, <3>1 DEF Tell
    <3>4. ToldOf(i)' = 1..(d + 1) /\ \A j : j # i => ToldOf(j)' = ToldOf(j)
      BY <1>0, <3>1, <3>2, <3>3, ToldMore DEF Holds, Arrivals
    <3>5. SUFFICES ASSUME NEW j \in DOMAIN tasks'
                   PROVE  j <= taken' /\ \E e \in 0..Size(j)' : Holds(j, e)'
      BY DEF Tasked
    <3>6. Size(j)' = Size(j) /\ \A e : Left(j, e)' = Left(j, e)
      BY <3>3, SizeSame
    <3>7. CASE j = i
      <4>1. tasks'[i] = Left(i, d + 1)
        BY <3>3
      <4>2. d + 1 \in 0..Size(i)
        BY <3>1, <3>3
      <4>3. Holds(i, d + 1)'
        BY <3>4, <3>6, <3>7, <4>1 DEF Holds
      <4> QED
        BY <3>2, <3>3, <3>6, <3>7, <4>2, <4>3
    <3>8. CASE j # i
      <4>1. j \in DOMAIN tasks /\ tasks'[j] = tasks[j]
        BY <3>3, <3>8
      <4>2. PICK e \in 0..Size(j) : j <= taken /\ Holds(j, e)
        BY <1>0, <4>1 DEF Tasked
      <4> QED
        BY <3>3, <3>4, <3>6, <3>8, <4>1, <4>2 DEF Holds
    <3> QED
      BY <3>7, <3>8
  <2>3. CASE Finish(i)
    BY <2>3, TaskedKept DEF Finish, Ended
  <2> QED
    BY <1>4, <2>1, <2>2, <2>3 DEF Task
<1>5. CASE Add \/ Flush \/ Flushed \/ Added
  BY <1>0, <1>5 DEF Add, Flush, Flushed, Added, Arrivals
<1> QED
  BY <1>1, <1>2, <1>3, <1>4, <1>5 DEF Next, Reader, Consumer, Metrics, Environment

\* What Batched says of the last event, of the first, and of the places.
LEMMA BatchFacts ==
    ASSUME PromiseInv, ~Immediate
    PROVE  /\ batch \in Seq(Nat \X Nat) /\ Len(batch) \in Nat /\ DOMAIN batch = 1..Len(batch)
           /\ batch # <<>> => 1 \in DOMAIN batch /\ Len(batch) \in DOMAIN batch
           /\ \A n \in DOMAIN batch :
                 /\ batch[n] = <<batch[n][1], batch[n][2]>>
                 /\ batch[n][1] \in Nat /\ batch[n][2] \in Nat \ {0}
                 /\ batch[n][1] \in 1..Len(feed) /\ batch[n][1] <= taken
                 /\ batch[n][2] <= Size(batch[n][1]) /\ Size(batch[n][1]) \in Nat
                 /\ batch[1][1] <= batch[n][1] /\ batch[n][1] <= batch[Len(batch)][1]
           /\ taken \in Nat
           /\ Batched /\ Adding /\ Arrivals
<1>1. /\ batch \in Seq(Nat \X Nat) /\ Len(batch) \in Nat /\ DOMAIN batch = 1..Len(batch)
      /\ batch # <<>> => 1 \in DOMAIN batch /\ Len(batch) \in DOMAIN batch
      /\ taken \in Nat /\ taken <= Len(feed) /\ Len(feed) \in Nat
      /\ Batched /\ Adding /\ Arrivals
  <2>1. Batched /\ Adding /\ Arrivals
    BY DEF PromiseInv
  <2>2. batch \in Seq(Nat \X Nat)
    BY <2>1 DEF Batched
  <2>3. /\ Len(batch) \in Nat /\ DOMAIN batch = 1..Len(batch)
        /\ batch # <<>> => 1 \in DOMAIN batch /\ Len(batch) \in DOMAIN batch
    BY <2>2
  <2>4. taken \in Nat /\ taken <= Len(feed) /\ Len(feed) \in Nat
    BY Facts
  <2> QED
    BY <2>1, <2>2, <2>3, <2>4
<1>2. ASSUME NEW n \in DOMAIN batch
      PROVE  /\ batch[n] = <<batch[n][1], batch[n][2]>>
             /\ batch[n][1] \in Nat /\ batch[n][2] \in Nat \ {0}
             /\ batch[n][1] \in 1..Len(feed) /\ batch[n][1] <= taken
             /\ batch[n][2] <= Size(batch[n][1]) /\ Size(batch[n][1]) \in Nat
  <2>1. batch[n] \in Nat \X Nat
    BY <1>1
  <2>2. batch[n][1] \in 1..taken /\ batch[n][2] \in 1..Size(batch[n][1])
    BY <1>1 DEF Batched
  <2>3. batch[n][1] \in 1..Len(feed)
    BY <1>1, <2>2
  <2>4. Size(batch[n][1]) \in Nat
    BY <2>3, Facts
  <2> QED
    BY <1>1, <2>1, <2>2, <2>3, <2>4
<1>3. ASSUME NEW n \in DOMAIN batch
      PROVE  batch[1][1] <= batch[n][1] /\ batch[n][1] <= batch[Len(batch)][1]
  <2>1. 1 \in DOMAIN batch /\ Len(batch) \in DOMAIN batch /\ n \in 1..Len(batch)
    BY <1>1
  <2>2. n = 1 \/ 1 < n
    BY <2>1
  <2>3. n = Len(batch) \/ n < Len(batch)
    BY <1>1, <2>1
  <2>4. batch[1][1] \in Nat /\ batch[n][1] \in Nat /\ batch[Len(batch)][1] \in Nat
    BY <1>2, <2>1
  <2>5. \A m, k \in DOMAIN batch : m < k => batch[m][1] <= batch[k][1]
    BY <1>1 DEF Batched
  <2> QED
    BY <2>1, <2>2, <2>3, <2>4, <2>5
<1> QED
  BY <1>1, <1>2, <1>3

\* A step that tells and batches nothing leaves the batch in order.
LEMMA BatchedKept ==
    ASSUME PromiseInv, ~Immediate, feed' = feed, heard' = heard, batch' = batch,
           taken' \in Nat, taken <= taken'
    PROVE  Batched'
<1>1. \A j : ToldOf(j)' = ToldOf(j)
  BY ToldSame
<1>2. \A j : Size(j)' = Size(j)
  BY SizeSame
<1>3. \A n \in DOMAIN batch : batch[n][1] \in 1..taken'
  BY BatchFacts DEF Batched
<1> QED
  BY <1>1, <1>2, <1>3, BatchFacts DEF Batched, Follows, Complete

\* An empty batch is in order.
LEMMA BatchedEmpty == batch' = <<>> => Batched'
BY DEF Batched

\* An event that passes the batch by.
LEMMA AddToldStep ==
    ASSUME PromiseInv, ~Immediate, Add, Direct(feed[consumer.msg]) \/ setup.size = 0
    PROVE  Batched' /\ Adding'
<1> DEFINE i == taken
<1>1. Busy /\ consumer.msg = taken /\ i \in 1..Len(feed) /\ i \in Nat
  BY HeadOfRest DEF Add, Busy
<1>2. PICK d \in 0..Size(i) :
         /\ rest = Left(i, d) /\ Current(i, d) /\ Size(i) \in Nat /\ d \in Nat
         /\ rest # <<>> <=> d < Size(i)
         /\ d < Size(i) => Head(rest) = <<i, d + 1>> /\ Tail(rest) = Left(i, d + 1)
  BY <1>1, HeadOfRest
<1>3. /\ d < Size(i) /\ rest' = Left(i, d + 1) /\ heard' = Append(heard, <<i, d + 1>>)
      /\ UNCHANGED <<feed, setup, batch, consumer, taken>>
  BY <1>1, <1>2 DEF Add
<1>4. /\ ToldOf(i) = 1..d
      /\ batch # <<>> => batch[Len(batch)][1] < i /\ Complete(batch[Len(batch)])
      /\ batch = <<>> \/ Direct(feed[i])
  <2>1. ~(~Direct(feed[i]) /\ batch # <<>>)
    BY <1>1, BatchFacts DEF Adding
  <2> QED
    BY <1>2, <2>1 DEF Current
<1>5. ToldOf(i)' = 1..(d + 1) /\ \A j : j # i => ToldOf(j)' = ToldOf(j)
  BY <1>1, <1>2, <1>3, <1>4, BatchFacts, ToldMore DEF Arrivals
<1>6. \A n \in DOMAIN batch : batch[n][1] # i
  <2> TAKE n \in DOMAIN batch
  <2>1. batch # <<>> /\ batch[n][1] <= batch[Len(batch)][1] /\ Len(batch) \in DOMAIN batch
    BY BatchFacts
  <2>2. batch[n][1] \in Nat /\ batch[Len(batch)][1] \in Nat
    BY <2>1, BatchFacts
  <2> QED
    BY <1>1, <1>4, <2>1, <2>2
<1>7. \A j : Size(j)' = Size(j) /\ \A e : Left(j, e)' = Left(j, e)
  BY <1>3, SizeSame
<1>8. Batched'
  <2>1. \A n \in DOMAIN batch : ToldOf(batch[n][1])' = ToldOf(batch[n][1])
    BY <1>3, <1>5, <1>6
  <2>2. batch # <<>> => ToldOf(batch[1][1])' = ToldOf(batch[1][1])
    BY <1>3, <2>1, BatchFacts
  <2> QED
    BY <1>3, <1>7, <2>1, <2>2, BatchFacts DEF Batched, Follows, Complete
<1>9. Current(i, d + 1)'
  BY <1>3, <1>4, <1>5, <1>7 DEF Current, Complete
<1>10. d + 1 \in 0..Size(i)'
  BY <1>2, <1>3, <1>7
<1>11. Adding'
  BY <1>1, <1>3, <1>7, <1>9, <1>10, BatchFacts DEF Adding, Busy
<1> QED
  BY <1>8, <1>11

\* An event that goes into the batch.
LEMMA AddBatchedStep ==
    ASSUME PromiseInv, ~Immediate, Add, ~(Direct(feed[consumer.msg]) \/ setup.size = 0)
    PROVE  Batched' /\ Adding'
<1> DEFINE i == taken
           L == Len(batch)
<1>1. Busy /\ consumer.msg = taken /\ i \in 1..Len(feed) /\ i \in Nat /\ consumer.at = "adding"
  BY HeadOfRest DEF Add, Busy
<1>2. PICK d \in 0..Size(i) :
         /\ rest = Left(i, d) /\ Current(i, d) /\ Size(i) \in Nat /\ d \in Nat
         /\ rest # <<>> <=> d < Size(i)
         /\ d < Size(i) => Head(rest) = <<i, d + 1>> /\ Tail(rest) = Left(i, d + 1)
  BY <1>1, HeadOfRest
<1>3. /\ d < Size(i) /\ rest' = Left(i, d + 1) /\ batch' = Append(batch, <<i, d + 1>>)
      /\ UNCHANGED <<feed, setup, heard, taken>>
      /\ consumer'.msg = consumer.msg
      /\ consumer'.at = "flushing" \/ (consumer'.at = "adding" /\ ~(L + 1 >= setup.size))
  <2>1. consumer \in [at : Places, msg : Nat]
    BY DEF PromiseInv, TypeInv, Kinds
  <2>2. /\ d < Size(i) /\ rest' = Left(i, d + 1) /\ batch' = Append(batch, <<i, d + 1>>)
        /\ UNCHANGED <<feed, setup, heard, taken>>
    BY <1>1, <1>2 DEF Add
  <2>3. PICK timeout \in BOOLEAN :
           consumer' = IF L + 1 >= setup.size \/ timeout
                       THEN [consumer EXCEPT !.at = "flushing"] ELSE consumer
    BY DEF Add
  <2>4. /\ consumer'.msg = consumer.msg
        /\ consumer'.at = "flushing" \/ (consumer'.at = "adding" /\ ~(L + 1 >= setup.size))
    BY <1>1, <2>1, <2>3
  <2> QED
    BY <2>2, <2>4
<1>4. /\ batch' \in Seq(Nat \X Nat) /\ DOMAIN batch' = 1..(L + 1) /\ L \in Nat
      /\ Len(batch') = L + 1 /\ batch'[L + 1] = <<i, d + 1>>
      /\ \A n \in 1..L : batch'[n] = batch[n]
      /\ DOMAIN batch = 1..L
      /\ batch # <<>> <=> L >= 1
  <2>1. batch \in Seq(Nat \X Nat) /\ <<i, d + 1>> \in Nat \X Nat
    BY <1>1, <1>2, BatchFacts
  <2> QED
    BY <1>3, <2>1
<1>5. /\ \A j : ToldOf(j)' = ToldOf(j)
      /\ \A j : Size(j)' = Size(j) /\ \A e : Left(j, e)' = Left(j, e)
  BY <1>3, ToldSame, SizeSame
<1>6. ASSUME batch # <<>>
      PROVE  /\ Follows(batch[L], <<i, d + 1>>)
             /\ i # batch[1][1] => ToldOf(i) = {}
  <2>1. L \in DOMAIN batch /\ 1 \in DOMAIN batch
    BY <1>6, BatchFacts
  <2>2. CASE d > 0 /\ batch[L] = <<i, d>>
    <3>1. batch[L][1] = i /\ batch[L][2] = d
      BY <2>2
    <3>2. i # batch[1][1] => ToldOf(i) = {}
      BY <1>6, <2>1, <3>1, BatchFacts DEF Batched
    <3> QED
      BY <3>1, <3>2 DEF Follows
  <2>3. CASE d = 0 /\ ToldOf(i) = 1..d /\ batch[L][1] < i /\ Complete(batch[L])
    BY <1>1, <2>1, <2>3, BatchFacts DEF Follows
  <2> QED
    BY <1>1, <1>2, <1>6, <2>2, <2>3 DEF Current
<1>7. ASSUME NEW n \in DOMAIN batch'
      PROVE  batch'[n][1] \in 1..taken' /\ batch'[n][2] \in 1..Size(batch'[n][1])
  <2>1. CASE n \in 1..L
    BY <1>3, <1>4, <2>1, BatchFacts DEF Batched
  <2>2. CASE n = L + 1
    BY <1>1, <1>2, <1>3, <1>4, <2>2
  <2> QED
    BY <1>4, <2>1, <2>2
<1>8. ASSUME NEW n \in DOMAIN batch', n > 1
      PROVE  Follows(batch'[n - 1], batch'[n])
  <2>1. CASE n \in 1..L
    <3>1. n \in DOMAIN batch /\ n - 1 \in 1..L
      <4>1. n \in Nat /\ n > 1 /\ n <= L /\ L \in Nat /\ DOMAIN batch = 1..L
        BY <1>4, <1>8, <2>1
      <4> QED
        BY <4>1
    <3>2. Follows(batch[n - 1], batch[n])
      BY <1>8, <3>1, BatchFacts DEF Batched
    <3> QED
      BY <1>4, <2>1, <3>1, <3>2
  <2>2. CASE n = L + 1
    <3>1. L >= 1 /\ n - 1 = L /\ L \in 1..L
      BY <1>4, <1>8, <2>2
    <3> QED
      BY <1>4, <1>6, <2>2, <3>1
  <2> QED
    BY <1>4, <2>1, <2>2
<1>9. ASSUME NEW m \in DOMAIN batch', NEW n \in DOMAIN batch', m < n
      PROVE  batch'[m][1] <= batch'[n][1]
  <2>1. m \in 1..L
    BY <1>4, <1>9
  <2>2. CASE n \in 1..L
    BY <1>4, <1>9, <2>1, <2>2, BatchFacts DEF Batched
  <2>3. CASE n = L + 1
    BY <1>4, <2>1, <2>3, BatchFacts
  <2> QED
    BY <1>4, <2>2, <2>3
<1>10. /\ ToldOf(batch'[1][1]) = 1..(batch'[1][2] - 1)
       /\ \A n \in DOMAIN batch' : batch'[n][1] # batch'[1][1] => ToldOf(batch'[n][1]) = {}
  <2>1. CASE batch = <<>>
    <3>1. L = 0 /\ batch'[1] = <<i, d + 1>> /\ DOMAIN batch' = 1..1
      BY <1>4, <2>1
    <3>2. ToldOf(i) = 1..d
      BY <1>2, <2>1 DEF Current
    <3> QED
      BY <1>2, <3>1, <3>2
  <2>2. CASE batch # <<>>
    <3>1. 1 \in DOMAIN batch /\ batch'[1] = batch[1]
      BY <1>4, <2>2
    <3>2. /\ ToldOf(batch[1][1]) = 1..(batch[1][2] - 1)
          /\ \A n \in DOMAIN batch : batch[n][1] # batch[1][1] => ToldOf(batch[n][1]) = {}
      BY <2>2, BatchFacts DEF Batched
    <3>3. ASSUME NEW n \in DOMAIN batch', batch'[n][1] # batch[1][1]
          PROVE  ToldOf(batch'[n][1]) = {}
      <4>1. CASE n \in 1..L
        <5>1. n \in DOMAIN batch /\ batch'[n] = batch[n]
          BY <1>4, <4>1
        <5> QED
          BY <3>2, <3>3, <5>1
      <4>2. CASE n = L + 1
        BY <1>4, <1>6, <2>2, <3>3, <4>2
      <4>3. n \in 1..L \/ n = L + 1
        BY <1>4
      <4> QED
        BY <4>1, <4>2, <4>3
    <3> QED
      BY <3>1, <3>2, <3>3
  <2> QED
    BY <2>1, <2>2
<1>11. Batched'
  <2>1. \A e, f : Follows(e, f)' <=> Follows(e, f)
    BY <1>5 DEF Follows, Complete
  <2> QED
    BY <1>4, <1>5, <1>7, <1>8, <1>9, <1>10, <2>1 DEF Batched, Follows, Complete
<1>12. Current(i, d + 1)'
  <2>1. d + 1 > 0 /\ batch' # <<>> /\ batch'[Len(batch')] = <<i, d + 1>>
    BY <1>2, <1>4
  <2> QED
    BY <1>1, <1>3, <2>1 DEF Current
<1>13. d + 1 \in 0..Size(i)'
  BY <1>2, <1>3, <1>5
<1>14. Adding'
  <2>1. Busy' /\ consumer'.msg = taken'
    BY <1>1, <1>3 DEF Busy
  <2>2. \E e \in 0..Size(consumer.msg)' : rest' = Left(consumer.msg, e)' /\ Current(consumer.msg, e)'
    BY <1>1, <1>3, <1>5, <1>12, <1>13, <2>1 DEF Left, Current, Size
  <2>3. setup'.size # 0 /\ (consumer'.at = "adding" => Len(batch') < setup'.size)
    <3>1. setup' = setup /\ setup.size \in Nat /\ setup.size # 0
      BY <1>3, Facts
    <3>2. consumer'.at = "adding" => ~(L + 1 >= setup.size)
      BY <1>3
    <3> QED
      BY <1>4, <3>1, <3>2
  <2> QED
    BY <1>3, <2>1, <2>2, <2>3 DEF Adding
<1> QED
  BY <1>11, <1>14

\* The first event of the batch is told.
LEMMA FlushFacts ==
    ASSUME PromiseInv, ~Immediate, Flush
    PROVE  /\ batch # <<>> /\ 1 \in DOMAIN batch /\ batch' = Tail(batch)
           /\ UNCHANGED <<feed, setup, consumer, rest, taken>>
           /\ batch' \in Seq(Nat \X Nat)
           /\ DOMAIN batch' = 1..(Len(batch) - 1) /\ Len(batch') = Len(batch) - 1
           /\ \A n \in 1..(Len(batch) - 1) : n + 1 \in DOMAIN batch /\ batch'[n] = batch[n + 1]
           /\ \E i \in Nat, k \in Nat \ {0} :
                 /\ batch[1] = <<i, k>> /\ heard' = Append(heard, <<i, k>>)
                 /\ ToldOf(i) = 1..(k - 1) /\ ToldOf(i)' = 1..k
                 /\ \A j : j # i => ToldOf(j)' = ToldOf(j)
<1>1. /\ batch # <<>> /\ batch' = Tail(batch) /\ heard' = Append(heard, Head(batch))
      /\ UNCHANGED <<feed, setup, consumer, rest, taken>>
  BY DEF Flush
<1>2. /\ batch \in Seq(Nat \X Nat) /\ 1 \in DOMAIN batch /\ Len(batch) \in Nat
      /\ DOMAIN batch = 1..Len(batch)
  BY <1>1, BatchFacts
<1>3. Head(batch) = batch[1]
  BY <1>1, <1>2
<1>4. /\ batch' \in Seq(Nat \X Nat) /\ Len(batch') = Len(batch) - 1
      /\ \A n \in 1..(Len(batch) - 1) : batch'[n] = batch[n + 1]
  BY <1>1, <1>2, HeadTailProperties
<1>5. DOMAIN batch' = 1..(Len(batch) - 1)
  BY <1>4
<1>6. \A n \in 1..(Len(batch) - 1) : n + 1 \in DOMAIN batch
  BY <1>2
<1>7. PICK i \in Nat, d \in Nat :
         batch[1] = <<i, d + 1>> /\ d < Size(i) /\ Size(i) \in Nat /\ ToldOf(i) = 1..d
  <2>1. PICK i \in Nat, k \in Nat \ {0} :
           batch[1] = <<i, k>> /\ k <= Size(i) /\ Size(i) \in Nat
    BY <1>2, BatchFacts
  <2>2. ToldOf(i) = 1..(k - 1)
    BY <1>1, <2>1, BatchFacts DEF Batched
  <2>3. k - 1 \in Nat /\ k - 1 < Size(i) /\ (k - 1) + 1 = k
    BY <2>1
  <2> QED
    BY <2>1, <2>2, <2>3
<1>8. heard' = Append(heard, <<i, d + 1>>)
  BY <1>1, <1>3, <1>7
<1>9. ToldOf(i)' = 1..(d + 1) /\ \A j : j # i => ToldOf(j)' = ToldOf(j)
  BY <1>1, <1>7, <1>8, BatchFacts, ToldMore DEF Arrivals
<1>10. d + 1 \in Nat \ {0} /\ (d + 1) - 1 = d
  OBVIOUS
<1>11. \E j \in Nat, k \in Nat \ {0} :
          /\ batch[1] = <<j, k>> /\ heard' = Append(heard, <<j, k>>)
          /\ ToldOf(j) = 1..(k - 1) /\ ToldOf(j)' = 1..k
          /\ \A m : m # j => ToldOf(m)' = ToldOf(m)
  BY <1>7, <1>8, <1>9, <1>10
<1> QED
  BY <1>1, <1>2, <1>4, <1>5, <1>6, <1>11

\* flush takes the first event of the batch, the one that its message comes to next.
LEMMA FlushStep ==
    ASSUME PromiseInv, ~Immediate, Flush
    PROVE  Batched' /\ Adding'
<1> DEFINE L == Len(batch)
<1>1. /\ batch # <<>> /\ 1 \in DOMAIN batch /\ UNCHANGED <<feed, setup, consumer, rest, taken>>
      /\ batch' \in Seq(Nat \X Nat) /\ DOMAIN batch' = 1..(L - 1) /\ Len(batch') = L - 1
      /\ \A n \in 1..(L - 1) : n + 1 \in DOMAIN batch /\ batch'[n] = batch[n + 1]
      /\ L \in Nat /\ DOMAIN batch = 1..L /\ L \in DOMAIN batch
  BY FlushFacts, BatchFacts
<1>2. PICK i \in Nat, k \in Nat \ {0} :
         /\ batch[1] = <<i, k>> /\ ToldOf(i) = 1..(k - 1) /\ ToldOf(i)' = 1..k
         /\ \A j : j # i => ToldOf(j)' = ToldOf(j)
  BY FlushFacts
<1>3. \A j : Size(j)' = Size(j) /\ \A e : Left(j, e)' = Left(j, e)
  BY <1>1, SizeSame
<1>10. /\ \A n \in DOMAIN batch : n > 1 => Follows(batch[n - 1], batch[n])
       /\ \A m, n \in DOMAIN batch : m < n => batch[m][1] <= batch[n][1]
       /\ \A n \in DOMAIN batch : batch[n][1] # batch[1][1] => ToldOf(batch[n][1]) = {}
  BY <1>1, BatchFacts DEF Batched
<1>4. /\ \A n \in DOMAIN batch' : batch'[n][1] \in 1..taken' /\ batch'[n][2] \in 1..Size(batch'[n][1])
      /\ \A n \in DOMAIN batch' : n > 1 => Follows(batch'[n - 1], batch'[n])
      /\ \A m, n \in DOMAIN batch' : m < n => batch'[m][1] <= batch'[n][1]
  <2>1. \A n \in DOMAIN batch' : batch'[n][1] \in 1..taken' /\ batch'[n][2] \in 1..Size(batch'[n][1])
    BY <1>1, BatchFacts DEF Batched
  <2>2. ASSUME NEW n \in DOMAIN batch', n > 1
        PROVE  Follows(batch'[n - 1], batch'[n])
    <3>1. /\ n \in 1..(L - 1) /\ n - 1 \in 1..(L - 1) /\ n + 1 \in DOMAIN batch
          /\ (n - 1) + 1 = n /\ (n + 1) - 1 = n /\ n + 1 > 1
      <4>1. n \in 1..(L - 1) /\ L \in Nat /\ n > 1
        BY <1>1, <2>2
      <4>2. n + 1 \in DOMAIN batch
        BY <1>1, <4>1
      <4> QED
        BY <4>1, <4>2
    <3>2. batch'[n] = batch[n + 1] /\ batch'[n - 1] = batch[n]
      BY <1>1, <3>1
    <3>3. Follows(batch[(n + 1) - 1], batch[n + 1])
      BY <1>10, <3>1
    <3> QED
      BY <3>1, <3>2, <3>3
  <2>3. ASSUME NEW m \in DOMAIN batch', NEW n \in DOMAIN batch', m < n
        PROVE  batch'[m][1] <= batch'[n][1]
    <3>1. /\ m + 1 \in DOMAIN batch /\ n + 1 \in DOMAIN batch /\ m + 1 < n + 1
          /\ batch'[m] = batch[m + 1] /\ batch'[n] = batch[n + 1]
      <4>1. m \in 1..(L - 1) /\ n \in 1..(L - 1)
        BY <1>1
      <4>2. m + 1 < n + 1
        BY <1>1, <2>3, <4>1
      <4> QED
        BY <1>1, <4>1, <4>2
    <3> QED
      BY <1>10, <3>1
  <2> QED
    BY <2>1, <2>2, <2>3
<1>5. ASSUME batch' # <<>>
      PROVE  /\ ToldOf(batch[1][1])' = 1..(batch'[1][2] - 1)
             /\ \A n \in DOMAIN batch' : batch'[n][1] # batch'[1][1] => ToldOf(batch[n][1])' = {}
  <2>1. L >= 2 /\ 1 \in 1..(L - 1) /\ 2 \in DOMAIN batch /\ batch'[1] = batch[2]
    BY <1>1, <1>5
  <2>2. PICK j \in Nat, e \in Nat \ {0} : batch[2] = <<j, e>>
    BY <2>1, BatchFacts
  <2>3. Follows(batch[1], batch[2])
    <3>1. Follows(batch[2 - 1], batch[2])
      BY <1>10, <2>1
    <3> QED
      BY <3>1
  <2>4. \A n \in DOMAIN batch : batch[n][1] # i => ToldOf(batch[n][1]) = {}
    <3>1. batch[1][1] = i
      BY <1>2
    <3> QED
      BY <1>10, <3>1
  <2>5. ToldOf(j)' = 1..(e - 1)
    <3>1. CASE j = i /\ e = k + 1
      BY <1>2, <3>1
    <3>2. CASE j > i /\ e = 1
      <4>1. j # i /\ batch[2][1] = j
        BY <2>2, <3>2
      <4>2. ToldOf(j) = {}
        BY <2>1, <2>4, <4>1
      <4>3. ToldOf(j)' = ToldOf(j)
        BY <1>2, <4>1
      <4> QED
        BY <3>2, <4>2, <4>3
    <3> QED
      BY <1>2, <2>2, <2>3, <3>1, <3>2 DEF Follows
  <2>6. j >= i
    BY <1>2, <2>2, <2>3 DEF Follows
  <2>7. ASSUME NEW n \in DOMAIN batch', NEW m \in Nat, m = batch'[n][1], m # j
        PROVE  ToldOf(m)' = {}
    <3>1. n + 1 \in DOMAIN batch /\ batch[n + 1][1] = m /\ n \in 1..(L - 1)
      BY <1>1, <2>7
    <3>2. m >= j
      <4>1. n = 1 \/ 2 < n + 1
        BY <1>1, <3>1
      <4>2. CASE n = 1
        BY <2>1, <2>2, <2>7, <4>2
      <4>3. CASE 2 < n + 1
        <5>1. batch[2][1] <= batch[n + 1][1]
          BY <1>10, <2>1, <3>1, <4>3
        <5> QED
          BY <2>2, <3>1, <5>1
      <4> QED
        BY <4>1, <4>2, <4>3
    <3>3. m # i
      BY <2>6, <2>7, <3>2
    <3> QED
      BY <1>2, <2>4, <3>1, <3>3
  <2>8. \A n \in DOMAIN batch' : batch'[n][1] \in Nat
    BY <1>1
  <2> QED
    BY <2>1, <2>2, <2>5, <2>7, <2>8
<1>6. Batched'
  <2>1. \A e, f : Follows(e, f)' <=> Follows(e, f)
    BY <1>3 DEF Follows, Complete
  <2> QED
    BY <1>1, <1>3, <1>4, <1>5, <2>1 DEF Batched, Follows, Complete
<1>7. ASSUME batch' # <<>>
      PROVE  batch'[Len(batch')] = batch[L]
  <2>1. L - 1 \in 1..(L - 1) /\ (L - 1) + 1 = L
    BY <1>1, <1>7
  <2> QED
    BY <1>1, <2>1
<1>8. ASSUME Busy
      PROVE  \E d \in 0..Size(taken) : rest = Left(taken, d) /\ Current(taken, d)'
  <2>1. PICK t \in Nat : t = taken
    BY BatchFacts
  <2>2. PICK d \in 0..Size(t) : rest = Left(t, d) /\ Current(t, d) /\ d \in Nat
    BY <1>8, <2>1, HeadOfRest
  <2>3. i <= batch[L][1] /\ batch[L][1] \in Nat
    <3>1. L \in DOMAIN batch /\ batch[1][1] = i
      BY <1>1, <1>2
    <3>2. \A n \in DOMAIN batch : batch[n][1] \in Nat /\ batch[1][1] <= batch[n][1]
      BY BatchFacts
    <3> QED
      BY <3>1, <3>2
  <2>6. SUFFICES \/ /\ d > 0 /\ ~Direct(feed[t]) /\ batch' # <<>>
                    /\ batch'[Len(batch')] = <<t, d>>
                 \/ /\ ToldOf(t)' = 1..d
                    /\ batch' # <<>> =>
                          batch'[Len(batch')][1] < t /\ Complete(batch'[Len(batch')])
                    /\ d = 0 \/ batch' = <<>> \/ Direct(feed[t])
    <3>1. Current(t, d)'
      BY <1>1, <1>3, <2>6 DEF Current, Complete
    <3> QED
      BY <1>1, <2>1, <2>2, <3>1
  <2>4. CASE d > 0 /\ ~Direct(feed[t]) /\ batch[L] = <<t, d>>
    <3>1. CASE batch' # <<>>
      BY <1>7, <2>4, <3>1
    <3>2. CASE batch' = <<>>
      <4>1. L = 1
        BY <1>1, <3>2
      <4>2. i = t /\ k = d
        BY <1>2, <2>4, <4>1
      <4>3. ToldOf(t)' = 1..d
        BY <1>2, <4>2
      <4> QED
        BY <3>2, <4>3
    <3> QED
      BY <3>1, <3>2
  <2>5. CASE /\ ToldOf(t) = 1..d /\ batch[L][1] < t /\ Complete(batch[L])
             /\ d = 0 \/ Direct(feed[t])
    <3>1. t # i
      BY <2>1, <2>3, <2>5
    <3>2. ToldOf(t)' = 1..d
      BY <1>2, <2>5, <3>1
    <3> QED
      BY <1>7, <2>5, <3>2
  <2> QED
    BY <1>1, <2>2, <2>4, <2>5 DEF Current
<1>9. Adding'
  <2>1. consumer.at \in {"flushing", "closing"}
    BY DEF Flush
  <2>2. ~Busy /\ batch' # <<>> => Complete(batch'[Len(batch')])
    BY <1>1, <1>7, BatchFacts DEF Adding
  <2>3. setup.size # 0
    BY <1>1, BatchFacts DEF Adding
  <2>4. Busy => consumer.msg = taken
    BY HeadOfRest
  <2> QED
    BY <1>1, <1>3, <1>8, <2>1, <2>2, <2>3, <2>4 DEF Adding, Busy, Complete, Left, Current, Size
<1> QED
  BY <1>6, <1>9

\* What is received comes after all that was taken up.
LEMMA HeadOfChannel ==
    ASSUME PromiseInv, channel # <<>>
    PROVE  Head(channel) \in Nat /\ Head(channel) > taken /\ Head(channel) \in 1..Len(feed)
<1>1. channel \in Seq(1..pos)
  BY Facts
<1>2. 1 \in 1..Len(channel) /\ 1 \in DOMAIN channel /\ Head(channel) = channel[1]
  BY <1>1
<1>3. channel[1] > taken
  BY <1>2 DEF PromiseInv, Arrivals
<1>4. channel[1] \in 1..pos
  BY <1>1, <1>2, ElementOfSeq
<1> QED
  BY <1>2, <1>3, <1>4, Facts

\* No step of the batch consumer brings the batch or the rest out of order.
LEMMA BatchStep == PromiseInv /\ [Next]_vars /\ ~Immediate => Batched' /\ Adding'
<1> SUFFICES ASSUME PromiseInv, [Next]_vars, ~Immediate PROVE Batched' /\ Adding'
  OBVIOUS
<1>0. /\ tasks = <<>> /\ consumer.at # "acquiring" /\ Batched /\ Adding /\ taken \in Nat
      /\ consumer \in [at : Places, msg : Nat]
  BY Facts DEF PromiseInv, TypeInv, StreamTypeOK, Holding, Kinds
<1>1. CASE \/ Read \/ Send \/ Full \/ SendFails \/ ReaderAborted \/ StreamEnds
           \/ Aggregate \/ WindowTick \/ Stop \/ UNCHANGED vars
  <2>1. UNCHANGED <<setup, feed, consumer, rest, batch, taken, heard>>
    BY <1>1 DEF Read, Send, Full, SendFails, ReaderAborted, StreamEnds, Aggregate,
       WindowTick, Stop, vars, work
  <2>2. Batched'
    BY <1>0, <2>1, BatchedKept
  <2>3. \A j : ToldOf(j)' = ToldOf(j) /\ Size(j)' = Size(j) /\ \A d : Left(j, d)' = Left(j, d)
    BY <2>1, ToldSame, SizeSame
  <2>4. Adding'
    BY <1>0, <2>1, <2>3 DEF Adding, Busy, Current, Complete
  <2> QED
    BY <2>2, <2>4
<1>2. CASE Receive
  <2>1. PICK msg \in Nat : msg = Head(channel) /\ msg > taken /\ msg \in 1..Len(feed)
    <3>1. channel # <<>>
      BY <1>2 DEF Receive
    <3> QED
      BY <3>1, HeadOfChannel
  <2>2. consumer.at = "waiting" /\ UNCHANGED <<feed, setup, heard>>
    BY <1>2 DEF Receive
  <2>3. CASE Panics(msg)
    <3>1. batch' = <<>> /\ consumer'.at = "done"
      BY <1>2, <2>1, <2>3 DEF Receive, Immediate
    <3> QED
      BY <3>1, BatchedEmpty DEF Adding, Busy
  <2>4. CASE ~Panics(msg)
    <3>1. /\ consumer' = [at |-> "adding", msg |-> msg] /\ rest' = Events(msg)
          /\ taken' = msg /\ batch' = batch
      BY <1>2, <2>1, <2>4 DEF Receive, Immediate
    <3>2. Batched'
      BY <1>0, <2>1, <2>2, <3>1, BatchedKept
    <3>3. ToldOf(msg) = {} /\ Size(msg) \in Nat
      BY <1>0, <2>1, ToldNone, Facts DEF PromiseInv
    <3>4. Events(msg) = Left(msg, 0)
      BY <3>3 DEF Events, Left, Whole, Size
    <3>5. batch # <<>> => batch[Len(batch)][1] < msg /\ Complete(batch[Len(batch)])
      <4>1. ASSUME batch # <<>>
            PROVE  batch[Len(batch)][1] <= taken /\ batch[Len(batch)][1] \in Nat
        BY <4>1, BatchFacts
      <4>2. ASSUME batch # <<>>
            PROVE  batch[Len(batch)][1] < msg
        BY <1>0, <2>1, <4>1, <4>2
      <4>3. batch # <<>> => Complete(batch[Len(batch)])
        BY <1>0, <2>2 DEF Adding, Busy
      <4> QED
        BY <4>2, <4>3
    <3>6. /\ \A j : ToldOf(j)' = ToldOf(j)
          /\ \A j : Size(j)' = Size(j) /\ \A d : Left(j, d)' = Left(j, d)
      BY <2>2, ToldSame, SizeSame
    <3>7. Current(msg, 0)'
      BY <2>2, <3>1, <3>3, <3>5, <3>6 DEF Current, Complete
    <3>8. \E d \in 0..Size(consumer.msg)' : rest' = Left(consumer.msg, d)' /\ Current(consumer.msg, d)'
      <4>1. 0 \in 0..Size(msg) /\ rest' = Left(msg, 0)'
        BY <3>1, <3>3, <3>4, <3>6
      <4> QED
        BY <2>2, <3>1, <3>6, <3>7, <4>1 DEF Current, Left, Size
    <3>9. Adding'
      BY <1>0, <2>2, <3>1, <3>8 DEF Adding, Busy
    <3> QED
      BY <3>2, <3>9
  <2> QED
    BY <2>3, <2>4
<1>3. CASE Spawn \/ (\E i \in DOMAIN tasks : Task(i))
  BY <1>0, <1>3 DEF Spawn
<1>4. CASE Add
  BY <1>4, AddToldStep, AddBatchedStep
<1>5. CASE Flush
  BY <1>5, FlushStep
<1>6. CASE Flushed \/ Added \/ Close \/ Closed
  <2>1. UNCHANGED <<setup, feed, rest, batch, taken, heard>>
    BY <1>6 DEF Flushed, Added, Close, Closed
  <2>2. Batched'
    BY <1>0, <2>1, BatchedKept
  <2>3. \A j : ToldOf(j)' = ToldOf(j) /\ Size(j)' = Size(j) /\ \A d : Left(j, d)' = Left(j, d)
    BY <2>1, ToldSame, SizeSame
  <2>4. \A i, d : Current(i, d)' <=> Current(i, d)
    BY <2>1, <2>3 DEF Current, Complete
  <2>5. \A e : Complete(e)' <=> Complete(e)
    BY <2>3 DEF Complete
  <2>6. setup.size \in Nat
    BY Facts
  <2>7. CASE Flushed
    <3>1. batch = <<>> /\ Busy /\ Busy' /\ consumer'.msg = consumer.msg
      BY <1>0, <2>7 DEF Flushed, Busy
    <3>2. Len(batch) = 0
      BY <3>1
    <3>3. \E d \in 0..Size(consumer.msg)' : rest' = Left(consumer.msg, d)' /\ Current(consumer.msg, d)'
      BY <1>0, <2>1, <2>3, <2>4, <3>1 DEF Adding, Left, Size, Current
    <3> QED
      BY <2>1, <2>2, <2>6, <3>1, <3>2, <3>3 DEF Adding
  <2>8. CASE Added
    <3>1. Busy /\ rest = <<>> /\ consumer.at = "adding" /\ consumer'.at = "waiting"
      BY <2>8 DEF Added, Busy
    <3>2. batch # <<>> => Complete(batch[Len(batch)])
      <4>1. PICK t \in Nat : t = taken
        BY BatchFacts
      <4>2. PICK d \in Nat : /\ Current(t, d) /\ d \in 0..Size(t) /\ Size(t) \in Nat
                             /\ rest # <<>> <=> d < Size(t)
        BY <3>1, <4>1, HeadOfRest
      <4>3. d = Size(t)
        BY <3>1, <4>2
      <4>4. CASE batch[Len(batch)] = <<t, d>>
        BY <4>3, <4>4 DEF Complete
      <4> QED
        BY <4>2, <4>4 DEF Current
    <3> QED
      BY <1>0, <2>1, <2>2, <2>5, <3>1, <3>2 DEF Adding, Busy
  <2>9. CASE Close \/ Closed
    <3>1. ~Busy /\ ~Busy' /\ consumer'.at \in {"closing", "done"}
      BY <1>0, <2>9 DEF Close, Closed, Busy, Immediate
    <3> QED
      BY <1>0, <2>1, <2>2, <2>5, <3>1 DEF Adding
  <2> QED
    BY <1>6, <2>7, <2>8, <2>9
<1>7. CASE ConsumerAborted
  <2>1. batch' = <<>> /\ consumer'.at = "done"
    BY <1>7 DEF ConsumerAborted
  <2> QED
    BY <2>1, BatchedEmpty DEF Adding, Busy
<1> QED
  BY <1>1, <1>2, <1>3, <1>4, <1>5, <1>6, <1>7
     DEF Next, Reader, Consumer, Metrics, Environment

\* At first nothing is held.
LEMMA PromiseInvInit == Init => PromiseInv
<1> SUFFICES ASSUME Init PROVE PromiseInv
  OBVIOUS
<1>1. Arrivals
  BY DEF Init, Arrivals, NoMsg
<1>2. Tasked
  BY DEF Init, Tasked
<1>3. Batched
  BY DEF Init, Batched
<1>4. TypeInv
  BY TypeInit
<1>5. Len(batch) = 0 /\ setup.size \in Nat
  BY <1>4, FeedType DEF Init, TypeInv
<1>6. Adding
  BY <1>5 DEF Init, Adding, Busy
<1> QED
  BY <1>1, <1>2, <1>3, <1>4, <1>6 DEF PromiseInv

\* Every step keeps the invariant.
LEMMA PromiseInvStep == PromiseInv /\ [Next]_vars => PromiseInv'
<1> SUFFICES ASSUME PromiseInv, [Next]_vars PROVE PromiseInv'
  OBVIOUS
<1>1. TypeInv' /\ Arrivals'
  BY TypeStep, ArrivalsStep DEF PromiseInv
<1>2. setup' = setup
  BY DEF Next, Reader, Consumer, Task, Metrics, Environment, Read, Send, Full, SendFails,
     ReaderAborted, Receive, Spawn, Add, Flush, Flushed, Added, Close, Closed, ConsumerAborted,
     Parse, Tell, Finish, Aggregate, WindowTick, StreamEnds, Stop, vars
<1>3. Immediate' <=> Immediate
  BY <1>2 DEF Immediate
<1> QED
  BY <1>1, <1>3, TaskedStep, BatchStep DEF PromiseInv

-----------------------------------------------------------------------------
(* The refinement: a step opens a message, tells an event of an open one,   *)
(* or closes some.                                                         *)

Sizes == [i \in DOMAIN feed |-> Cardinality(Whole(i))]
Slots == IF Immediate THEN Workers ELSE IF setup.size = 0 THEN 1 ELSE setup.size
OpenNow == [i \in Opened |-> Cardinality(ToldOf(i))]

\* Both modules count with the same Cardinality.
LEMMA SameCardinality == \A S : Promise!Cardinality(S) = Cardinality(S)
BY DEF Promise!Cardinality, Cardinality

\* What the mapping gives Stream as its sizes and places.
LEMMA SizesFacts ==
    ASSUME PromiseInv
    PROVE  /\ Sizes \in Seq(Nat) /\ Len(Sizes) = Len(feed)
           /\ \A i \in 1..Len(feed) : Sizes[i] = Size(i)
           /\ Slots \in Nat \ {0}
<1>1. /\ Len(feed) \in Nat /\ DOMAIN feed = 1..Len(feed) /\ setup.size \in Nat
      /\ \A i \in 1..Len(feed) : Size(i) \in Nat /\ Cardinality(Whole(i)) = Size(i)
  BY Facts
<1>2. Sizes \in [1..Len(feed) -> Nat]
  BY <1>1 DEF Sizes
<1>3. Sizes \in Seq(Nat) /\ Len(Sizes) = Len(feed)
  BY <1>1, <1>2
<1>4. \A i \in 1..Len(feed) : Sizes[i] = Size(i)
  BY <1>1 DEF Sizes
<1>5. Slots \in Nat \ {0}
  BY <1>1, SizesAssumption DEF Slots
<1> QED
  BY <1>3, <1>4, <1>5

\* They do not change.
LEMMA Fixed ==
    ASSUME feed' = feed, setup' = setup
    PROVE  Sizes' = Sizes /\ Slots' = Slots
BY DEF Sizes, Slots, Whole, Immediate

\* A step that only puts a message away is a step of Stream or none.
LEMMA Quiet ==
    ASSUME feed' = feed, setup' = setup, heard' = heard, taken' = taken,
           Opened' \subseteq Opened
    PROVE  [Promise!Next]_(Promise!vars)
<1> DEFINE S == Opened \ Opened'
<1>1. \A j : ToldOf(j)' = ToldOf(j)
  BY ToldSame
<1>2. Sizes' = Sizes /\ Slots' = Slots
  BY Fixed
<1>3. OpenNow' = [j \in DOMAIN OpenNow \ S |-> OpenNow[j]] /\ DOMAIN OpenNow = Opened
  <2>1. DOMAIN OpenNow = Opened /\ Opened \ S = Opened'
    BY DEF OpenNow
  <2>2. OpenNow' = [j \in Opened' |-> Cardinality(ToldOf(j))]
    BY <1>1 DEF OpenNow
  <2>3. \A j \in Opened' : OpenNow[j] = Cardinality(ToldOf(j))
    BY DEF OpenNow
  <2> QED
    BY <2>1, <2>2, <2>3
<1>4. CASE S = {}
  <2>1. Opened' = Opened
    BY <1>4
  <2>2. OpenNow' = OpenNow
    BY <1>1, <2>1 DEF OpenNow
  <2>3. UNCHANGED <<Sizes, Slots, taken + 1, OpenNow, heard>>
    BY <1>2, <2>2
  <2> QED
    BY <2>3 DEF Promise!vars, Sizes, Slots, OpenNow
<1>5. CASE S # {}
  <2>1. /\ S \subseteq DOMAIN OpenNow /\ OpenNow' = [j \in DOMAIN OpenNow \ S |-> OpenNow[j]]
        /\ UNCHANGED <<Sizes, Slots, taken + 1, heard>>
    BY <1>2, <1>3
  <2>2. Promise!Close(S)
    BY <1>5, <2>1 DEF Promise!Close, Promise!Without, Sizes, Slots, OpenNow
  <2>3. S \in SUBSET DOMAIN OpenNow
    BY <2>1
  <2> QED
    BY <2>2, <2>3 DEF Promise!Next, OpenNow
<1> QED
  BY <1>4, <1>5

\* Taking up a message, where there is a place, opens it.
LEMMA Opening ==
    ASSUME PromiseInv, feed' = feed, setup' = setup, heard' = heard,
           NEW i \in 1..Len(feed), i > taken, taken' = i, ToldOf(i) = {},
           Opened' = Opened \cup {i}, Cardinality(Opened) < Slots
    PROVE  Promise!Next
<1>1. \A j : ToldOf(j)' = ToldOf(j)
  BY ToldSame
<1>2. Sizes' = Sizes /\ Slots' = Slots
  BY Fixed
<1>3. Cardinality(ToldOf(i)) = 0
  BY FS_EmptySet
<1>4. OpenNow' = [j \in Opened \cup {i} |-> Cardinality(ToldOf(j))]
  BY <1>1 DEF OpenNow
<1>5. OpenNow' = [j \in DOMAIN OpenNow \cup {i} |-> IF j = i THEN 0 ELSE OpenNow[j]]
  <2>1. DOMAIN OpenNow = Opened /\ \A j \in Opened : OpenNow[j] = Cardinality(ToldOf(j))
    BY DEF OpenNow
  <2> QED
    BY <1>3, <1>4, <2>1
<1>6. i \in (taken + 1)..Len(Sizes) /\ i \in 1..Len(Sizes)
  BY Facts, SizesFacts
<1>7. Cardinality(DOMAIN OpenNow) < Slots
  BY DEF OpenNow
<1>8. (taken + 1)' = i + 1 /\ UNCHANGED <<Sizes, Slots, heard>>
  BY <1>2
<1>9. Promise!Open(i)
  BY <1>5, <1>6, <1>7, <1>8, SameCardinality DEF Promise!Open, Sizes, Slots, OpenNow
<1> QED
  BY <1>6, <1>9 DEF Promise!Next, Sizes

\* Telling the next event of an open message tells it in Stream too, and may close it.
LEMMA Telling ==
    ASSUME PromiseInv, feed' = feed, setup' = setup, taken' = taken,
           NEW i \in 1..Len(feed), i \in Opened, NEW d \in Nat, d < Size(i),
           ToldOf(i) = 1..d, ToldOf(i)' = 1..(d + 1),
           \A j : j # i => ToldOf(j)' = ToldOf(j),
           heard' = Append(heard, <<i, d + 1>>),
           Opened' = Opened \/ (Opened' = Opened \ {i} /\ d + 1 = Size(i))
    PROVE  Promise!Next
<1>1. Sizes' = Sizes /\ Slots' = Slots /\ Sizes[i] = Size(i) /\ i \in 1..Len(Sizes)
  BY Fixed, SizesFacts
<1>2. Cardinality(ToldOf(i)) = d
  BY FirstN
<1>3. Cardinality(ToldOf(i)') = d + 1
  <2> DEFINE e == d + 1
  <2>1. e \in Nat
    OBVIOUS
  <2> HIDE DEF e
  <2>2. Cardinality(1..e) = e
    BY <2>1, FirstN
  <2> QED
    BY <2>2 DEF e
<1>4. DOMAIN OpenNow = Opened /\ OpenNow[i] = d
      /\ \A j \in Opened : OpenNow[j] = Cardinality(ToldOf(j))
  BY <1>2 DEF OpenNow
<1>5. OpenNow' = [j \in Opened' |-> IF j = i THEN d + 1 ELSE Cardinality(ToldOf(j))]
  BY <1>3 DEF OpenNow
<1>6. \/ OpenNow' = [OpenNow EXCEPT ![i] = @ + 1]
      \/ /\ OpenNow[i] + 1 = Sizes[i]
         /\ OpenNow' = [j \in DOMAIN OpenNow \ {i} |-> OpenNow[j]]
  <2>1. CASE Opened' = Opened
    <3>1. OpenNow' = [j \in Opened |-> IF j = i THEN d + 1 ELSE OpenNow[j]]
      BY <1>4, <1>5, <2>1
    <3>2. [OpenNow EXCEPT ![i] = @ + 1]
             = [j \in Opened |-> IF j = i THEN d + 1 ELSE OpenNow[j]]
      BY <1>4 DEF OpenNow
    <3> QED
      BY <3>1, <3>2
  <2>2. CASE Opened' = Opened \ {i} /\ d + 1 = Size(i)
    BY <1>1, <1>4, <1>5, <2>2
  <2> QED
    BY <2>1, <2>2
<1>7. OpenNow[i] < Sizes[i] /\ heard' = Append(heard, <<i, OpenNow[i] + 1>>)
  BY <1>1, <1>4
<1>8. UNCHANGED <<Sizes, Slots, taken + 1>> /\ i \in DOMAIN OpenNow
  BY <1>1, <1>4
<1>9. Promise!Tell(i)
  BY <1>6, <1>7, <1>8 DEF Promise!Tell, Promise!Without, Sizes, Slots, OpenNow
<1> QED
  BY <1>1, <1>9 DEF Promise!Next, Sizes

\* The pool: a message is open while its task runs.
LEMMA PoolStep ==
    PromiseInv /\ [Next]_vars /\ Immediate => [Promise!Next]_(Promise!vars)
<1> SUFFICES ASSUME PromiseInv, [Next]_vars, Immediate
             PROVE  [Promise!Next]_(Promise!vars)
  OBVIOUS
<1>0. /\ rest = <<>> /\ batch = <<>> /\ ~Busy /\ Opened = DOMAIN tasks
      /\ taken \in Nat /\ Arrivals
  BY Facts DEF PromiseInv, TypeInv, StreamTypeOK, Arrivals, Busy, Opened
<1>1. setup' = setup /\ feed' = feed /\ Opened' = DOMAIN tasks'
  <2>1. setup' = setup /\ feed' = feed
    BY DEF Next, Reader, Consumer, Task, Metrics, Environment, Read, Send, Full, SendFails,
       ReaderAborted, Receive, Spawn, Add, Flush, Flushed, Added, Close, Closed, ConsumerAborted,
       Parse, Tell, Finish, Aggregate, WindowTick, StreamEnds, Stop, vars
  <2> QED
    BY <2>1 DEF Opened, Immediate
<1>2. CASE Spawn
  <2>1. PICK i \in Nat : i = consumer.msg /\ i \in 1..Len(feed) /\ i > taken
    <3>1. consumer.msg > taken
      BY <1>0, <1>2 DEF Spawn, Arrivals
    <3> QED
      BY <1>0, <3>1, Facts
  <2>2. /\ taken' = i /\ heard' = heard /\ Opened' = Opened \cup {i}
        /\ Cardinality(Opened) < Slots
    BY <1>0, <1>1, <1>2, <2>1 DEF Spawn, Slots
  <2>3. ToldOf(i) = {}
    BY <1>0, <2>1, ToldNone
  <2> QED
    BY <1>1, <2>1, <2>2, <2>3, Opening
<1>3. CASE \E i \in DOMAIN tasks : Tell(i)
  <2>1. PICK i \in DOMAIN tasks : Tell(i)
    BY <1>3
  <2>2. /\ heard' = Append(heard, Head(tasks[i])) /\ taken' = taken /\ tasks[i] # <<>>
        /\ Opened' = Opened
    BY <1>0, <1>1, <2>1 DEF Tell
  <2>3. i \in 1..Len(feed) /\ i \in Opened /\ i \in Nat
    BY <1>0, HeadOfTask
  <2>4. PICK d \in Nat : /\ ToldOf(i) = 1..d /\ d < Size(i) /\ Size(i) \in Nat
                         /\ Head(tasks[i]) = <<i, d + 1>>
    BY <2>2, HeadOfTask DEF Holds
  <2>5. heard' = Append(heard, <<i, d + 1>>)
    BY <2>2, <2>4
  <2>6. ToldOf(i)' = 1..(d + 1) /\ \A j : j # i => ToldOf(j)' = ToldOf(j)
    BY <1>0, <1>1, <2>3, <2>4, <2>5, ToldMore DEF Arrivals
  <2> QED
    BY <1>1, <2>2, <2>3, <2>4, <2>5, <2>6, Telling
<1>4. CASE \E i \in DOMAIN tasks : Parse(i) \/ Finish(i)
  <2>1. heard' = heard /\ taken' = taken /\ DOMAIN tasks' \subseteq DOMAIN tasks
    BY <1>4 DEF Parse, Finish, Ended
  <2> QED
    BY <1>0, <1>1, <2>1, Quiet
<1>5. CASE \/ Read \/ Send \/ Full \/ SendFails \/ ReaderAborted \/ StreamEnds \/ Receive
           \/ Flushed \/ Added \/ Close \/ Closed \/ ConsumerAborted
           \/ Aggregate \/ WindowTick \/ Stop \/ UNCHANGED vars
  <2>1. heard' = heard /\ taken' = taken /\ tasks' = tasks
    BY <1>5 DEF Read, Send, Full, SendFails, ReaderAborted, StreamEnds, Receive, Flushed, Added,
       Close, Closed, ConsumerAborted, Aggregate, WindowTick, Stop, vars, work, pipe
  <2> QED
    BY <1>0, <1>1, <2>1, Quiet
<1>6. CASE Add \/ Flush
  BY <1>0, <1>6 DEF Add, Flush
<1> QED
  BY <1>2, <1>3, <1>4, <1>5, <1>6 DEF Next, Reader, Consumer, Task, Metrics, Environment

\* A batch that is not full leaves a place for one message more.
LEMMA BatchRoom ==
    ASSUME PromiseInv, ~Immediate, consumer.at = "waiting"
    PROVE  Opened = {batch[n][1] : n \in DOMAIN batch} /\ Cardinality(Opened) < Slots
<1>1. /\ batch \in Seq(Nat \X Nat) /\ Len(batch) \in Nat /\ DOMAIN batch = 1..Len(batch)
      /\ Adding /\ Arrivals
  BY BatchFacts
<1>2. Opened = {batch[n][1] : n \in DOMAIN batch}
  BY <1>1 DEF Opened, Arrivals
<1>3. IsFiniteSet(Opened) /\ Cardinality(Opened) <= Len(batch)
  <2> DEFINE f == [n \in 1..Len(batch) |-> batch[n][1]]
  <2>1. f \in Surjection(1..Len(batch), Opened)
    <3>1. f \in [1..Len(batch) -> Opened]
      BY <1>1, <1>2
    <3>2. \A t \in Opened : \E n \in 1..Len(batch) : f[n] = t
      BY <1>1, <1>2
    <3> QED
      BY <3>1, <3>2 DEF Surjection
  <2>2. IsFiniteSet(1..Len(batch)) /\ Cardinality(1..Len(batch)) = Len(batch)
    BY <1>1, FirstN
  <2> HIDE DEF f
  <2> QED
    BY <2>1, <2>2, FS_Surjection
<1>4. setup.size \in Nat
  BY Facts
<1>5. CASE setup.size = 0
  <2>1. Opened = {} /\ Slots = 1
    BY <1>1, <1>2, <1>5 DEF Adding, Slots
  <2> QED
    BY <1>2, <2>1, FS_EmptySet
<1>6. CASE setup.size # 0
  <2>1. Len(batch) < setup.size /\ Slots = setup.size
    BY <1>1, <1>4, <1>6 DEF Adding, Slots
  <2>2. Cardinality(Opened) \in Nat
    BY <1>3, FS_CardinalityType
  <2> QED
    BY <1>1, <1>2, <1>3, <1>4, <2>1, <2>2
<1> QED
  BY <1>5, <1>6

\* The callback of a batch is called with its first event, which may be the last
\* of its message that is still held.
LEMMA FlushTells ==
    ASSUME PromiseInv, ~Immediate, Flush
    PROVE  Promise!Next
<1> DEFINE L == Len(batch)
<1>1. /\ batch # <<>> /\ 1 \in DOMAIN batch /\ DOMAIN batch' = 1..(L - 1)
      /\ \A n \in 1..(L - 1) : n + 1 \in DOMAIN batch /\ batch'[n] = batch[n + 1]
      /\ UNCHANGED <<feed, setup, consumer, rest, taken>>
  BY FlushFacts
<1>2. L \in Nat /\ DOMAIN batch = 1..L /\ Batched /\ Adding
  BY BatchFacts
<1>3. PICK i \in Nat, k \in Nat \ {0} :
         /\ batch[1] = <<i, k>> /\ heard' = Append(heard, <<i, k>>)
         /\ ToldOf(i) = 1..(k - 1) /\ ToldOf(i)' = 1..k
         /\ \A j : j # i => ToldOf(j)' = ToldOf(j)
  BY FlushFacts
<1>4. /\ i \in 1..Len(feed) /\ i \in Opened /\ Size(i) \in Nat /\ k <= Size(i)
  <2>1. i \in 1..Len(feed) /\ Size(i) \in Nat /\ k <= Size(i)
    <3>1. batch[1][1] = i /\ batch[1][2] = k
      BY <1>3
    <3>2. /\ batch[1][1] \in 1..Len(feed) /\ Size(batch[1][1]) \in Nat
          /\ batch[1][2] <= Size(batch[1][1])
      BY <1>1, BatchFacts
    <3> QED
      BY <3>1, <3>2
  <2>2. i \in Opened
    BY <1>1, <1>3 DEF Opened
  <2> QED
    BY <2>1, <2>2
<1>5. /\ Opened = ({consumer.msg} \ {NoMsg}) \cup {batch[n][1] : n \in 1..L}
      /\ Opened' = ({consumer.msg} \ {NoMsg}) \cup {batch'[n][1] : n \in 1..(L - 1)}
  BY <1>1, <1>2 DEF Opened, Immediate
<1>6. Opened = Opened' \cup {i}
  <2>1. \A n \in 1..L : n = 1 \/ (n - 1 \in 1..(L - 1) /\ batch'[n - 1] = batch[n])
    <3> TAKE n \in 1..L
    <3>1. CASE n # 1
      <4>1. n - 1 \in 1..(L - 1) /\ (n - 1) + 1 = n
        BY <1>2, <3>1
      <4> QED
        BY <1>1, <4>1
    <3> QED
      BY <3>1
  <2>2. \A n \in 1..(L - 1) : n + 1 \in 1..L /\ batch'[n] = batch[n + 1]
    BY <1>1, <1>2
  <2>3. Opened \subseteq Opened' \cup {i}
    BY <1>3, <1>5, <2>1
  <2>4. Opened' \subseteq Opened
    BY <1>5, <2>2
  <2> QED
    BY <1>4, <2>3, <2>4
<1>7. i \in Opened' \/ k = Size(i)
  <2> SUFFICES ASSUME i \notin Opened' PROVE Complete(batch[1])
    BY <1>3 DEF Complete
  <2>1. CASE L > 1
    <3>1. 1 \in 1..(L - 1) /\ 2 \in DOMAIN batch /\ batch'[1] = batch[2]
      BY <1>1, <1>2, <2>1
    <3>2. batch[2][1] # i
      BY <1>5, <3>1
    <3>3. Follows(batch[1], batch[2])
      <4>1. PICK n \in Nat : n = 2
        OBVIOUS
      <4>2. n \in DOMAIN batch /\ n > 1 /\ n - 1 = 1
        BY <3>1, <4>1
      <4>3. Follows(batch[n - 1], batch[n])
        BY <1>2, <4>2 DEF Batched
      <4> QED
        BY <4>1, <4>2, <4>3
    <3> QED
      BY <1>3, <3>2, <3>3 DEF Follows
  <2>2. CASE ~(L > 1)
    <3>1. L = 1
      BY <1>1, <1>2, <2>2
    <3>2. CASE ~Busy
      BY <1>1, <1>2, <3>1, <3>2 DEF Adding
    <3>3. CASE Busy
      <4>1. PICK t \in Nat : t = taken
        BY Facts
      <4>2. consumer.msg = t /\ t \in 1..Len(feed)
        BY <3>3, <4>1, HeadOfRest
      <4>3. t # i
        BY <1>5, <4>2 DEF NoMsg
      <4>4. PICK d \in Nat : Current(t, d)
        BY <3>3, <4>1, HeadOfRest
      <4> QED
        BY <1>1, <1>3, <3>1, <4>3, <4>4 DEF Current
    <3> QED
      BY <3>2, <3>3
  <2> QED
    BY <2>1, <2>2
<1>8. PICK d \in Nat : k = d + 1
  BY <1>3
<1>9. /\ d < Size(i) /\ ToldOf(i) = 1..d /\ ToldOf(i)' = 1..(d + 1)
      /\ heard' = Append(heard, <<i, d + 1>>)
  <2>1. k - 1 = d /\ d < Size(i)
    BY <1>4, <1>8
  <2> QED
    BY <1>3, <1>8, <2>1
<1>10. Opened' = Opened \/ (Opened' = Opened \ {i} /\ d + 1 = Size(i))
  BY <1>6, <1>7, <1>8
<1> QED
  BY <1>1, <1>3, <1>4, <1>9, <1>10, Telling

\* add_event tells an event or puts it by.
LEMMA AddTells ==
    ASSUME PromiseInv, ~Immediate, Add
    PROVE  [Promise!Next]_(Promise!vars)
<1>0. /\ consumer.at = "adding" /\ rest # <<>> /\ Busy /\ Adding /\ Arrivals
      /\ feed' = feed /\ setup' = setup /\ taken' = taken
  BY BatchFacts DEF Add, Busy
<1>1. PICK t \in Nat : t = taken
  BY BatchFacts
<1>2. consumer.msg = t /\ t \in 1..Len(feed)
  BY <1>0, <1>1, HeadOfRest
<1>3. PICK d \in Nat : /\ Current(t, d) /\ d < Size(t) /\ Size(t) \in Nat
                       /\ Head(rest) = <<t, d + 1>>
  BY <1>0, <1>1, HeadOfRest
<1>4. t \in Opened
  BY <1>2 DEF Opened, NoMsg
<1>5. CASE Direct(feed[consumer.msg]) \/ setup.size = 0
  <2>1. /\ heard' = Append(heard, <<t, d + 1>>) /\ batch' = batch /\ consumer' = consumer
    BY <1>3, <1>5 DEF Add
  <2>2. ToldOf(t) = 1..d
    BY <1>0, <1>2, <1>3, <1>5 DEF Current, Adding
  <2>3. ToldOf(t)' = 1..(d + 1) /\ \A j : j # t => ToldOf(j)' = ToldOf(j)
    BY <1>0, <1>3, <2>1, <2>2, ToldMore DEF Arrivals
  <2>4. Opened' = Opened
    BY <1>0, <2>1 DEF Opened, Immediate
  <2> QED
    BY <1>0, <1>2, <1>3, <1>4, <2>1, <2>2, <2>3, <2>4, Telling
<1>6. CASE ~(Direct(feed[consumer.msg]) \/ setup.size = 0)
  <2>1. /\ heard' = heard /\ batch' = Append(batch, <<t, d + 1>>)
        /\ consumer'.msg = consumer.msg
    <3>1. consumer \in [at : Places, msg : Nat]
      BY DEF PromiseInv, TypeInv, Kinds
    <3> QED
      BY <1>3, <1>6, <3>1 DEF Add
  <2>2. /\ batch \in Seq(Nat \X Nat) /\ Len(batch) \in Nat /\ DOMAIN batch = 1..Len(batch)
    BY BatchFacts
  <2>3. /\ DOMAIN batch' = 1..(Len(batch) + 1) /\ batch'[Len(batch) + 1] = <<t, d + 1>>
        /\ \A n \in 1..Len(batch) : batch'[n] = batch[n]
    BY <2>1, <2>2
  <2>4. \A n \in DOMAIN batch' : batch'[n][1] = t \/ (n \in DOMAIN batch /\ batch'[n] = batch[n])
    <3> TAKE n \in DOMAIN batch'
    <3>1. n \in 1..Len(batch) \/ n = Len(batch) + 1
      BY <2>2, <2>3
    <3> QED
      BY <2>2, <2>3, <3>1
  <2>5. Opened' = ({consumer.msg} \ {NoMsg}) \cup {batch'[n][1] : n \in DOMAIN batch'}
    BY <1>0, <2>1 DEF Opened, Immediate
  <2>6. Opened' \subseteq Opened
    <3>1. ASSUME NEW n \in DOMAIN batch'
          PROVE  batch'[n][1] \in Opened
      BY <1>4, <2>4 DEF Opened
    <3> QED
      BY <2>5, <3>1 DEF Opened
  <2> QED
    BY <1>0, <2>1, <2>6, Quiet
<1> QED
  BY <1>5, <1>6

\* The batch consumer: a message is open while the consumer has it, and while
\* some of it is in the batch.
LEMMA ConsumerStep ==
    PromiseInv /\ [Next]_vars /\ ~Immediate => [Promise!Next]_(Promise!vars)
<1> SUFFICES ASSUME PromiseInv, [Next]_vars, ~Immediate
             PROVE  [Promise!Next]_(Promise!vars)
  OBVIOUS
<1>0. tasks = <<>> /\ consumer.at # "acquiring" /\ consumer \in [at : Places, msg : Nat]
  BY DEF PromiseInv, TypeInv, StreamTypeOK, Holding, Kinds
<1>1. CASE \/ Read \/ Send \/ Full \/ SendFails \/ ReaderAborted \/ StreamEnds
           \/ Aggregate \/ WindowTick \/ Stop \/ UNCHANGED vars
  <2>1. UNCHANGED <<setup, feed, consumer, batch, tasks, taken, heard>>
    BY <1>1 DEF Read, Send, Full, SendFails, ReaderAborted, StreamEnds, Aggregate,
       WindowTick, Stop, vars, work
  <2>2. Opened' = Opened
    BY <2>1 DEF Opened, Immediate
  <2> QED
    BY <2>1, <2>2, Quiet
<1>2. CASE Receive
  <2>1. /\ consumer.at = "waiting" /\ channel # <<>>
        /\ UNCHANGED <<feed, setup, heard, tasks>>
    BY <1>2 DEF Receive
  <2>2. PICK msg \in Nat : msg = Head(channel) /\ msg > taken /\ msg \in 1..Len(feed)
    BY <2>1, HeadOfChannel
  <2>3. CASE Panics(msg)
    <3>1. batch' = <<>> /\ consumer'.msg = NoMsg /\ taken' = taken
      BY <1>2, <2>2, <2>3 DEF Receive, Immediate
    <3>2. Opened' \subseteq Opened
      BY <2>1, <3>1 DEF Opened, Immediate
    <3> QED
      BY <2>1, <3>1, <3>2, Quiet
  <2>4. CASE ~Panics(msg)
    <3>1. consumer'.msg = msg /\ taken' = msg /\ batch' = batch
      BY <1>2, <2>2, <2>4 DEF Receive, Immediate
    <3>2. Opened = {batch[n][1] : n \in DOMAIN batch} /\ Cardinality(Opened) < Slots
      BY <2>1, BatchRoom
    <3>3. Opened' = ({msg} \ {NoMsg}) \cup {batch[n][1] : n \in DOMAIN batch}
      BY <2>1, <3>1 DEF Opened, Immediate
    <3>4. Opened' = Opened \cup {msg}
      BY <2>2, <3>2, <3>3 DEF NoMsg
    <3>5. ToldOf(msg) = {}
      BY <2>2, BatchFacts, ToldNone
    <3> QED
      BY <2>1, <2>2, <3>1, <3>2, <3>4, <3>5, Opening
  <2> QED
    BY <2>3, <2>4
<1>3. CASE Spawn \/ (\E i \in DOMAIN tasks : Task(i))
  BY <1>0, <1>3 DEF Spawn
<1>4. CASE Flushed \/ Added \/ Close \/ Closed
  <2>1. UNCHANGED <<setup, feed, batch, tasks, taken, heard>>
    BY <1>4 DEF Flushed, Added, Close, Closed
  <2>2. consumer'.msg \in {consumer.msg, NoMsg}
    BY <1>0, <1>4 DEF Flushed, Added, Close, Closed
  <2>3. Opened' \subseteq Opened
    BY <2>1, <2>2 DEF Opened, Immediate
  <2> QED
    BY <2>1, <2>3, Quiet
<1>5. CASE ConsumerAborted
  <2>1. UNCHANGED <<setup, feed, taken, heard>> /\ batch' = <<>> /\ consumer'.msg = NoMsg
    BY <1>5 DEF ConsumerAborted
  <2>2. Opened' \subseteq Opened
    BY <2>1 DEF Opened, Immediate
  <2> QED
    BY <2>1, <2>2, Quiet
<1> QED
  BY <1>1, <1>2, <1>3, <1>4, <1>5, AddTells, FlushTells
     DEF Next, Reader, Consumer, Metrics, Environment

\* Where the pipeline starts, Stream starts.
LEMMA PromiseInit == Init => Promise!Init
<1> SUFFICES ASSUME Init PROVE Promise!Init
  OBVIOUS
<1>1. Sizes \in Seq(Nat) /\ Slots \in Nat \ {0}
  BY PromiseInvInit, SizesFacts
<1>2. Opened = {}
  BY DEF Init, Opened, NoMsg
<1>3. OpenNow = <<>>
  BY <1>2 DEF OpenNow
<1>4. taken + 1 = 1 /\ heard = <<>>
  BY DEF Init, NoMsg
<1> QED
  BY <1>1, <1>3, <1>4 DEF Promise!Init, Sizes, Slots, OpenNow

\* Whatever the sizes, the strategy and the stream, the callback hears messages
\* opened in the order of the stream, no more at a time than the pool has places
\* or a batch has events, and each told event by event in order, to its end or
\* until it is given up (yellowstone.rs, batch.rs, streamhandler.rs).
THEOREM StreamKeepsPromise == Spec => Promised
<1>1. Init => PromiseInv
  BY PromiseInvInit
<1>2. PromiseInv /\ [Next]_vars => PromiseInv'
  BY PromiseInvStep
<1>3. PromiseInv /\ [Next]_vars => [Promise!Next]_(Promise!vars)
  BY PoolStep, ConsumerStep
<1> QED
  BY <1>1, <1>2, <1>3, PromiseInit, PTL DEF Spec, Promised, Promise!Spec
===============================================================================
