-------------------------- MODULE StreamAccount_proofs -------------------------
(***************************************************************************)
(* What becomes of the messages of a stream, their events and the count of *)
(* them, for every value of the constants of StreamPipeline. All rests on  *)
(* the invariant of StreamPipeline_proofs: who holds the rest of a message *)
(* hands on the event that comes next. So an event is told once (HeardInv) *)
(* and behind all that were handed on before (OrderInv); a message waits,  *)
(* or is gone with nobody to tell of it, or its events are where they can  *)
(* be found (AccountInv); and as the message in hand is whole (InHand),    *)
(* what is handed on grows by its size when it is done (MeterInv).         *)
(***************************************************************************)
EXTENDS StreamPipeline_proofs, Induction

-----------------------------------------------------------------------------
(* The places of a sequence when it grows at its end or shrinks at its front *)

\* The last place is new, the others are as they were.
LEMMA AppendPlaces ==
    ASSUME NEW S, NEW q \in Seq(S), NEW e \in S
    PROVE  /\ Len(q) \in Nat /\ Len(q) + 1 \in DOMAIN Append(q, e)
           /\ Append(q, e)[Len(q) + 1] = e
           /\ \A n \in DOMAIN q : n \in DOMAIN Append(q, e) /\ Append(q, e)[n] = q[n]
           /\ \A n \in DOMAIN Append(q, e) :
                 (n \in DOMAIN q /\ Append(q, e)[n] = q[n]) \/ n = Len(q) + 1
<1> DEFINE more == Append(q, e)
           L == Len(q)
<1>1. /\ L \in Nat /\ DOMAIN more = 1..(L + 1) /\ DOMAIN q = 1..L
      /\ \A n \in 1..L : more[n] = q[n]
      /\ more[L + 1] = e
  OBVIOUS
<1> HIDE DEF more, L
<1>2. L + 1 \in 1..(L + 1) /\ \A n \in 1..(L + 1) : n \in 1..L \/ n = L + 1
  BY <1>1
<1>3. \A n \in 1..L : n \in 1..(L + 1)
  BY <1>1
<1> QED
  BY <1>1, <1>2, <1>3 DEF more, L

\* The first place goes, the others move up.
LEMMA TailPlaces ==
    ASSUME NEW S, NEW q \in Seq(S), q # <<>>
    PROVE  /\ Tail(q) \in Seq(S) /\ Head(q) = q[1] /\ 1 \in DOMAIN q
           /\ \A n \in DOMAIN q :
                 n = 1 \/ (n - 1 \in DOMAIN Tail(q) /\ Tail(q)[n - 1] = q[n])
           /\ \A n \in DOMAIN Tail(q) : n + 1 \in DOMAIN q /\ q[n + 1] = Tail(q)[n]
<1> DEFINE r == Tail(q)
           L == Len(q)
<1>1. /\ DOMAIN r = 1..(L - 1) /\ DOMAIN q = 1..L /\ L \in Nat \ {0} /\ r \in Seq(S)
      /\ \A n \in 1..(L - 1) : r[n] = q[n + 1]
      /\ Head(q) = q[1]
  BY HeadTailProperties
<1> HIDE DEF r, L
<1>2. ASSUME NEW n \in 1..L, n # 1
      PROVE  n - 1 \in 1..(L - 1) /\ r[n - 1] = q[n]
  <2>1. n - 1 \in 1..(L - 1) /\ (n - 1) + 1 = n
    BY <1>1, <1>2
  <2> QED
    BY <1>1, <2>1
<1>3. \A n \in 1..(L - 1) : n + 1 \in 1..L
  BY <1>1
<1>4. 1 \in 1..L
  BY <1>1
<1> QED
  BY <1>1, <1>2, <1>3, <1>4 DEF r

-----------------------------------------------------------------------------
(* What is heard                                                           *)

\* The callback hears events of the stream, each once.
Real == \A n \in DOMAIN heard : heard[n][1] \in 1..pos /\ heard[n][2] \in Whole(heard[n][1])
Apart == \A m, n \in DOMAIN heard : m # n => heard[m] # heard[n]
HeardInv == Real /\ Apart

\* An event that is told is the next of its message.
Tells(i, d) ==
    /\ i \in 1..taken /\ d \in Nat /\ Size(i) \in Nat /\ d < Size(i)
    /\ ToldOf(i) = 1..d /\ heard' = Append(heard, <<i, d + 1>>)

\* Whoever adds an event knows where in its message it stands.
LEMMA AddFacts ==
    ASSUME PromiseInv, ~Immediate, Add
    PROVE  /\ Busy /\ consumer.msg = taken /\ taken \in 1..Len(feed)
           /\ \E d \in Nat :
                 /\ d < Size(taken) /\ Size(taken) \in Nat /\ Current(taken, d)
                 /\ rest = Left(taken, d) /\ rest' = Left(taken, d + 1)
                 /\ Head(rest) = <<taken, d + 1>>
                 /\ Direct(feed[taken]) \/ setup.size = 0 => ToldOf(taken) = 1..d
<1>1. Busy /\ consumer.msg = taken /\ taken \in 1..Len(feed)
  BY HeadOfRest DEF Add, Busy
<1>2. PICK d \in 0..Size(taken) :
         /\ rest = Left(taken, d) /\ Current(taken, d) /\ Size(taken) \in Nat /\ d \in Nat
         /\ rest # <<>> <=> d < Size(taken)
         /\ d < Size(taken) => Head(rest) = <<taken, d + 1>> /\ Tail(rest) = Left(taken, d + 1)
  BY <1>1, HeadOfRest
<1>3. rest # <<>> /\ rest' = Tail(rest)
  BY DEF Add
<1>4. Direct(feed[taken]) \/ setup.size = 0 => ToldOf(taken) = 1..d
  <2>1. Direct(feed[taken]) \/ setup.size = 0 => ~(~Direct(feed[taken]) /\ batch # <<>>)
    BY BatchFacts DEF Adding
  <2> QED
    BY <1>2, <2>1 DEF Current
<1> QED
  BY <1>1, <1>2, <1>3, <1>4

\* Whatever step is taken, what it tells is the next event of a message.
LEMMA Hearing ==
    ASSUME PromiseInv, [Next]_vars
    PROVE  /\ feed' = feed /\ setup' = setup /\ pos' \in Nat /\ pos <= pos'
           /\ heard' = heard \/ \E i, d : Tells(i, d)
<1>1. CASE \/ Read \/ Send \/ Full \/ SendFails \/ ReaderAborted \/ StreamEnds
           \/ Aggregate \/ WindowTick \/ Stop \/ UNCHANGED vars
  BY <1>1, Facts DEF Read, Send, Full, SendFails, ReaderAborted, StreamEnds, Aggregate,
     WindowTick, Stop, vars, pipe
<1>2. CASE \/ Receive \/ Spawn \/ Flushed \/ Added \/ Close \/ Closed \/ ConsumerAborted
  BY <1>2, Facts DEF Receive, Spawn, Flushed, Added, Close, Closed, ConsumerAborted, pipe
<1>3. ASSUME NEW i \in DOMAIN tasks, Task(i)
      PROVE  /\ UNCHANGED <<feed, setup, pos>>
             /\ heard' = heard \/ \E d : Tells(i, d)
  <2>1. CASE Parse(i) \/ Finish(i)
    BY <2>1 DEF Parse, Finish, pipe
  <2>2. CASE Tell(i)
    <3>1. Immediate
      BY DEF PromiseInv, TypeInv, StreamTypeOK
    <3>2. PICK d \in 0..Size(i) :
             /\ Holds(i, d) /\ Size(i) \in Nat /\ d \in Nat
             /\ tasks[i] # <<>> <=> d < Size(i)
             /\ d < Size(i) => Head(tasks[i]) = <<i, d + 1>> /\ Tail(tasks[i]) = Left(i, d + 1)
      BY <3>1, HeadOfTask
    <3>3. i \in 1..taken
      BY <3>1, HeadOfTask, Facts
    <3> QED
      BY <2>2, <3>2, <3>3 DEF Tell, Tells, Holds, pipe
  <2> QED
    BY <1>3, <2>1, <2>2 DEF Task
<1>4. ASSUME Add
      PROVE  /\ UNCHANGED <<feed, setup, pos>>
             /\ heard' = heard \/ \E d : Tells(taken, d)
  <2>1. UNCHANGED <<feed, setup, pos>> /\ ~Immediate
    BY <1>4 DEF Add, pipe, PromiseInv, TypeInv, StreamTypeOK
  <2>2. PICK d \in Nat :
           /\ d < Size(taken) /\ Size(taken) \in Nat /\ Head(rest) = <<taken, d + 1>>
           /\ Direct(feed[taken]) \/ setup.size = 0 => ToldOf(taken) = 1..d
    BY <1>4, <2>1, AddFacts
  <2>3. consumer.msg = taken /\ taken \in 1..taken
    BY <1>4, <2>1, AddFacts
  <2> QED
    BY <1>4, <2>1, <2>2, <2>3 DEF Add, Tells
<1>5. ASSUME Flush
      PROVE  UNCHANGED <<feed, setup, pos>> /\ \E i, d : Tells(i, d)
  <2>1. UNCHANGED <<feed, setup, pos>> /\ ~Immediate
    BY <1>5 DEF Flush, pipe, PromiseInv, TypeInv, StreamTypeOK
  <2>2. PICK i \in Nat, k \in Nat \ {0} :
           /\ batch[1] = <<i, k>> /\ heard' = Append(heard, <<i, k>>)
           /\ ToldOf(i) = 1..(k - 1) /\ 1 \in DOMAIN batch
    BY <1>5, <2>1, FlushFacts
  <2>3. i \in 1..taken /\ k <= Size(i) /\ Size(i) \in Nat
    <3>1. batch[1][1] \in 1..taken
      BY <2>1, <2>2 DEF PromiseInv, Batched
    <3>2. batch[1][2] <= Size(batch[1][1]) /\ Size(batch[1][1]) \in Nat
      BY <2>1, <2>2, BatchFacts
    <3>3. batch[1][1] = i /\ batch[1][2] = k
      BY <2>2
    <3> QED
      BY <3>1, <3>2, <3>3
  <2>4. k - 1 \in Nat /\ k - 1 < Size(i) /\ (k - 1) + 1 = k
    BY <2>3
  <2>5. Tells(i, k - 1)
    BY <2>2, <2>3, <2>4 DEF Tells
  <2> QED
    BY <2>1, <2>5
<1> QED
  BY <1>1, <1>2, <1>3, <1>4, <1>5, Facts DEF Next, Reader, Consumer, Metrics, Environment

\* Nothing is told that is not of the stream, and nothing twice.
LEMMA HeardStep == PromiseInv /\ HeardInv /\ [Next]_vars => HeardInv'
<1> SUFFICES ASSUME PromiseInv, HeardInv, [Next]_vars PROVE HeardInv'
  OBVIOUS
<1>1. /\ feed' = feed /\ pos' \in Nat /\ pos <= pos' /\ pos \in Nat /\ taken <= pos /\ taken \in Nat
      /\ heard \in Seq(Nat \X Nat)
      /\ \A i : Whole(i)' = Whole(i)
  BY Hearing, Facts DEF Whole
<1>2. CASE heard' = heard
  BY <1>1, <1>2 DEF HeardInv, Real, Apart
<1>3. ASSUME NEW i, NEW d, Tells(i, d) PROVE HeardInv'
  <2>1. /\ DOMAIN heard' = 1..(Len(heard) + 1) /\ DOMAIN heard = 1..Len(heard)
        /\ Len(heard) \in Nat
        /\ \A n \in 1..Len(heard) : heard'[n] = heard[n]
        /\ heard'[Len(heard) + 1] = <<i, d + 1>>
    BY <1>1, <1>3 DEF Tells
  <2>2. d + 1 \in Whole(i) /\ d + 1 \notin 1..d /\ i \in 1..pos'
    BY <1>1, <1>3 DEF Tells, Whole, Size
  <2>3. \A n \in 1..Len(heard) : heard[n] # <<i, d + 1>>
    <3>1. d + 1 \notin ToldOf(i)
      BY <1>3, <2>2 DEF Tells
    <3> QED
      BY <2>1, <2>2, <3>1 DEF ToldOf
  <2>4. Real'
    <3> SUFFICES ASSUME NEW n \in DOMAIN heard'
                 PROVE  heard'[n][1] \in 1..pos' /\ heard'[n][2] \in Whole(heard'[n][1])
      BY <1>1 DEF Real
    <3>1. CASE n = Len(heard) + 1
      BY <2>1, <2>2, <3>1
    <3>2. CASE n \in 1..Len(heard)
      <4>1. heard[n][1] \in 1..pos /\ heard[n][2] \in Whole(heard[n][1])
        BY <2>1, <3>2 DEF HeardInv, Real
      <4> QED
        BY <1>1, <2>1, <3>2, <4>1
    <3> QED
      BY <2>1, <3>1, <3>2
  <2>5. Apart'
    <3> SUFFICES ASSUME NEW m \in DOMAIN heard', NEW n \in DOMAIN heard', m # n
                 PROVE  heard'[m] # heard'[n]
      BY DEF Apart
    <3>1. m \in 1..Len(heard) \/ m = Len(heard) + 1
      BY <2>1
    <3>2. n \in 1..Len(heard) \/ n = Len(heard) + 1
      BY <2>1
    <3> QED
      BY <2>1, <2>3, <3>1, <3>2 DEF HeardInv, Apart
  <2> QED
    BY <2>4, <2>5 DEF HeardInv
<1> QED
  BY <1>2, <1>3, Hearing

-----------------------------------------------------------------------------
(* The order of the batches                                                *)

Earlier(d, e) == d[1] < e[1] \/ (d[1] = e[1] /\ d[2] < e[2])
Through(n) == n \in DOMAIN heard /\ ~Direct(feed[heard[n][1]])

OrderInv ==
    /\ \A m, n : Through(m) /\ Through(n) /\ m < n => Earlier(heard[m], heard[n])
    /\ \A m : Through(m) => \A n \in DOMAIN batch : Earlier(heard[m], batch[n])
    /\ \A m, n \in DOMAIN batch : m < n => Earlier(batch[m], batch[n])

\* All that was handed on before an event of the message in hand stands before it.
LEMMA NextIsLast ==
    ASSUME PromiseInv, ~Immediate, HeardInv, OrderInv, taken \in Nat,
           NEW d \in Nat, d < Size(taken), Size(taken) \in Nat, Current(taken, d)
    PROVE  /\ \A m : Through(m) => Earlier(heard[m], <<taken, d + 1>>)
           /\ \A n \in DOMAIN batch : Earlier(batch[n], <<taken, d + 1>>)
<1> DEFINE e == <<taken, d + 1>>
           L == Len(batch)
<1>1. /\ L \in Nat /\ DOMAIN batch = 1..L
      /\ batch # <<>> => L \in DOMAIN batch
      /\ \A n \in DOMAIN batch :
            batch[n][1] \in Nat /\ batch[n][2] \in Nat /\ batch[n] = <<batch[n][1], batch[n][2]>>
  BY BatchFacts
<1>2. ASSUME batch # <<>> PROVE Earlier(batch[L], e)
  <2>1. batch[L] = <<taken, d>> \/ (batch[L][1] < taken)
    BY <1>2 DEF Current
  <2> QED
    BY <2>1 DEF Earlier
<1>3. ASSUME NEW n \in DOMAIN batch PROVE Earlier(batch[n], e)
  <2>1. batch # <<>> /\ L \in DOMAIN batch /\ (n = L \/ n < L)
    BY <1>1
  <2>2. CASE n = L
    BY <1>2, <2>1, <2>2
  <2>3. CASE n < L
    <3>1. Earlier(batch[n], batch[L])
      BY <2>1, <2>3 DEF OrderInv
    <3> QED
      BY <1>1, <1>2, <2>1, <3>1 DEF Earlier
  <2> QED
    BY <2>1, <2>2, <2>3
<1>4. ASSUME NEW m, Through(m) PROVE Earlier(heard[m], e)
  <2>1. /\ heard[m][1] \in Nat /\ heard[m][2] \in Nat /\ heard[m][1] <= taken
        /\ heard[m] = <<heard[m][1], heard[m][2]>> /\ heard[m][2] \in Whole(heard[m][1])
    <3>1. heard \in Seq(Nat \X Nat) /\ m \in DOMAIN heard
      BY <1>4 DEF Through, PromiseInv, Arrivals
    <3>2. heard[m] \in Nat \X Nat
      BY <3>1
    <3> QED
      BY <3>1, <3>2 DEF PromiseInv, Arrivals, HeardInv, Real
  <2>2. CASE heard[m][1] < taken
    BY <2>2 DEF Earlier
  <2>3. CASE heard[m][1] = taken
    <3>1. CASE batch # <<>> /\ batch[L] = <<taken, d>>
      <4>1. Earlier(heard[m], batch[L])
        BY <1>1, <1>4, <3>1 DEF OrderInv
      <4> QED
        BY <2>1, <2>3, <3>1, <4>1 DEF Earlier
    <3>2. CASE ToldOf(taken) = 1..d
      <4>1. heard[m][2] \in ToldOf(taken)
        BY <1>4, <2>1, <2>3 DEF ToldOf, Through
      <4> QED
        BY <2>1, <2>3, <3>2, <4>1 DEF Earlier
    <3> QED
      BY <3>1, <3>2 DEF Current
  <2> QED
    BY <2>1, <2>2, <2>3
<1> QED
  BY <1>3, <1>4

\* An event that is told behind all others.
LEMMA OrderTold ==
    ASSUME PromiseInv, OrderInv, feed' = feed, NEW e \in Nat \X Nat, heard' = Append(heard, e),
           batch' = batch, DOMAIN batch = {} \/ Direct(feed[e[1]]),
           Direct(feed[e[1]]) \/ \A m : Through(m) => Earlier(heard[m], e)
    PROVE  OrderInv'
<1>1. /\ DOMAIN heard' = 1..(Len(heard) + 1) /\ DOMAIN heard = 1..Len(heard)
      /\ Len(heard) \in Nat
      /\ \A n \in 1..Len(heard) : heard'[n] = heard[n]
      /\ heard'[Len(heard) + 1] = e
  BY Facts
<1>2. \A m : Through(m)' =>
         \/ Through(m) /\ m \in 1..Len(heard) /\ heard'[m] = heard[m]
         \/ m = Len(heard) + 1 /\ ~Direct(feed[e[1]]) /\ heard'[m] = e
  BY <1>1 DEF Through
<1>3. ASSUME NEW m, NEW n, Through(m)', Through(n)', m < n
      PROVE  Earlier(heard'[m], heard'[n])
  <2>1. m \in 1..Len(heard) /\ Through(m) /\ heard'[m] = heard[m]
    BY <1>1, <1>2, <1>3
  <2> QED
    BY <1>2, <1>3, <2>1 DEF OrderInv
<1>4. ASSUME NEW m, Through(m)', NEW n \in DOMAIN batch'
      PROVE  Earlier(heard'[m], batch'[n])
  BY <1>2, <1>4 DEF OrderInv
<1>5. \A m, n \in DOMAIN batch' : m < n => Earlier(batch'[m], batch'[n])
  BY DEF OrderInv
<1> QED
  BY <1>3, <1>4, <1>5 DEF OrderInv, Earlier

\* An event that the batch gives to the callback.
LEMMA OrderFlush ==
    ASSUME PromiseInv, OrderInv, ~Immediate, Flush
    PROVE  OrderInv'
<1> DEFINE L == Len(batch)
           H == Len(heard)
<1>1. /\ feed' = feed /\ 1 \in DOMAIN batch /\ DOMAIN batch' = 1..(L - 1) /\ L \in Nat
      /\ DOMAIN batch = 1..L
      /\ \A n \in 1..(L - 1) : n + 1 \in DOMAIN batch /\ batch'[n] = batch[n + 1]
  BY FlushFacts, BatchFacts
<1>2. PICK e \in Nat \X Nat : e = batch[1] /\ heard' = Append(heard, e)
  BY FlushFacts
<1>3. /\ DOMAIN heard' = 1..(H + 1) /\ DOMAIN heard = 1..H /\ H \in Nat
      /\ \A n \in 1..H : heard'[n] = heard[n]
      /\ heard'[H + 1] = e
  BY <1>2, Facts
<1>4. \A m : Through(m)' => \/ Through(m) /\ m \in 1..H /\ heard'[m] = heard[m]
                            \/ m = H + 1 /\ heard'[m] = e
  BY <1>1, <1>3 DEF Through
<1>5. ASSUME NEW m, NEW n, Through(m)', Through(n)', m < n
      PROVE  Earlier(heard'[m], heard'[n])
  <2>1. m \in 1..H /\ Through(m) /\ heard'[m] = heard[m]
    BY <1>3, <1>4, <1>5
  <2> QED
    BY <1>1, <1>2, <1>4, <1>5, <2>1 DEF OrderInv
<1>6. ASSUME NEW m, Through(m)', NEW n \in DOMAIN batch'
      PROVE  Earlier(heard'[m], batch'[n])
  <2>1. n + 1 \in DOMAIN batch /\ batch'[n] = batch[n + 1] /\ 1 < n + 1
    BY <1>1
  <2> QED
    BY <1>1, <1>2, <1>4, <1>6, <2>1 DEF OrderInv
<1>7. ASSUME NEW m \in DOMAIN batch', NEW n \in DOMAIN batch', m < n
      PROVE  Earlier(batch'[m], batch'[n])
  <2>1. /\ n + 1 \in DOMAIN batch /\ batch'[n] = batch[n + 1]
        /\ m + 1 \in DOMAIN batch /\ batch'[m] = batch[m + 1] /\ m + 1 < n + 1
    BY <1>1, <1>7
  <2> QED
    BY <2>1 DEF OrderInv
<1> QED
  BY <1>5, <1>6, <1>7 DEF OrderInv, Earlier

\* An event that is added: behind all that was handed on.
LEMMA OrderAdd ==
    ASSUME PromiseInv, OrderInv, HeardInv, ~Immediate, Add
    PROVE  OrderInv'
<1> DEFINE L == Len(batch)
<1>1. PICK t \in Nat : t = taken /\ consumer.msg = t
  BY AddFacts, BatchFacts
<1>2. PICK d \in Nat :
         /\ d < Size(taken) /\ Size(taken) \in Nat /\ Current(taken, d)
         /\ Head(rest) = <<taken, d + 1>>
  BY AddFacts
<1>3. PICK e \in Nat \X Nat : e = <<t, d + 1>>
  <2>1. <<t, d + 1>> \in Nat \X Nat
    OBVIOUS
  <2> QED
    BY <2>1
<1>4. /\ \A m : Through(m) => Earlier(heard[m], e)
      /\ \A n \in DOMAIN batch : Earlier(batch[n], e)
  BY <1>1, <1>2, <1>3, NextIsLast
<1>5. feed' = feed /\ batch \in Seq(Nat \X Nat)
  BY BatchFacts DEF Add
<1>6. CASE Direct(feed[consumer.msg]) \/ setup.size = 0
  <2>1. heard' = Append(heard, e) /\ batch' = batch
    BY <1>1, <1>2, <1>3, <1>6 DEF Add
  <2>2. DOMAIN batch = {} \/ Direct(feed[e[1]])
    BY <1>1, <1>3, <1>6, BatchFacts DEF Adding
  <2> QED
    BY <1>4, <1>5, <2>1, <2>2, OrderTold
<1>7. CASE ~(Direct(feed[consumer.msg]) \/ setup.size = 0)
  <2>1. heard' = heard /\ batch' = Append(batch, e)
    BY <1>1, <1>2, <1>3, <1>7 DEF Add
  <2>2. /\ DOMAIN batch' = 1..(L + 1) /\ DOMAIN batch = 1..L /\ L \in Nat
        /\ \A n \in 1..L : batch'[n] = batch[n]
        /\ batch'[L + 1] = e
    BY <1>5, <2>1
  <2>3. \A m : Through(m)' <=> Through(m)
    BY <1>5, <2>1 DEF Through
  <2>4. ASSUME NEW m, Through(m), NEW n \in DOMAIN batch'
        PROVE  Earlier(heard[m], batch'[n])
    <3>1. n \in DOMAIN batch \/ n = L + 1
      BY <2>2
    <3> QED
      BY <1>4, <2>2, <2>4, <3>1 DEF OrderInv
  <2>5. ASSUME NEW m \in DOMAIN batch', NEW n \in DOMAIN batch', m < n
        PROVE  Earlier(batch'[m], batch'[n])
    <3>1. m \in DOMAIN batch /\ (n \in DOMAIN batch \/ n = L + 1)
      BY <2>2, <2>5
    <3> QED
      BY <1>4, <2>2, <2>5, <3>1 DEF OrderInv
  <2> QED
    BY <2>1, <2>3, <2>4, <2>5 DEF OrderInv, Earlier
<1> QED
  BY <1>6, <1>7

\* What goes through the batch is told in its order.
LEMMA OrderStep ==
    PromiseInv /\ HeardInv /\ OrderInv /\ ~Immediate /\ [Next]_vars => OrderInv'
<1> SUFFICES ASSUME PromiseInv, HeardInv, OrderInv, ~Immediate, [Next]_vars PROVE OrderInv'
  OBVIOUS
<1>0. tasks = <<>> /\ consumer.at # "acquiring"
  BY DEF PromiseInv, TypeInv, StreamTypeOK, Holding
<1>1. ASSUME UNCHANGED <<feed, heard>>, batch' = batch \/ batch' = <<>> PROVE OrderInv'
  BY <1>1 DEF OrderInv, Through, Earlier
<1>2. CASE \/ Read \/ Send \/ Full \/ SendFails \/ ReaderAborted \/ StreamEnds
           \/ Aggregate \/ WindowTick \/ Stop \/ UNCHANGED vars
  BY <1>1, <1>2 DEF Read, Send, Full, SendFails, ReaderAborted, StreamEnds, Aggregate,
     WindowTick, Stop, vars, work
<1>3. CASE Receive \/ Flushed \/ Added \/ Close \/ Closed \/ ConsumerAborted
  BY <1>1, <1>3 DEF Receive, Flushed, Added, Close, Closed, ConsumerAborted
<1>4. CASE Spawn \/ \E i \in DOMAIN tasks : Task(i)
  BY <1>0, <1>4 DEF Spawn
<1>5. CASE Add \/ Flush
  BY <1>5, OrderAdd, OrderFlush
<1> QED
  BY <1>2, <1>3, <1>4, <1>5 DEF Next, Reader, Consumer, Metrics, Environment

-----------------------------------------------------------------------------
(* What becomes of a message                                               *)

Over ==
    \/ stopping /\ (reader = "done" \/ consumer.at = "done")
    \/ ~Immediate /\ consumer.at = "done" /\ \E f \in 1..pos : Panics(f)

Waits ==
    InChannel \cup (IF reader = "sending" THEN {pos} ELSE {})
      \cup (IF consumer.at = "acquiring" THEN {consumer.msg} ELSE {})

Gone(i) == Silent(feed[i]) \/ Malformed(feed[i]) \/ Panics(i) \/ i \in dropped

\* Nobody has the message, so that nobody will tell of it.
Nowhere(i) ==
    /\ i \notin Waits /\ i # consumer.msg /\ i \notin DOMAIN tasks
    /\ \A n \in DOMAIN batch : batch[n][1] # i

Placed(i) == ToldOf(i) \cup HeldOf(i) \cup BatchedOf(i) \cup LeftOf(i)

Fate(i) ==
    \/ i \in Waits /\ consumer.at # "done"
    \/ Gone(i) /\ ToldOf(i) = {} /\ Nowhere(i)
    \/ Over
    \/ Placed(i) = Whole(i)

\* The consumer ends with an empty batch and nothing left to receive, or for a reason.
Endings ==
    /\ ~Busy => rest = <<>>
    /\ consumer.at = "closing" => reader = "done" /\ channel = <<>> /\ ~Immediate
    /\ consumer.at = "done" => Over \/ (reader = "done" /\ channel = <<>> /\ batch = <<>>)

Unparsed == \A i \in DOMAIN tasks \ parsed : ToldOf(i) = {}
NoneDropped == setup.strategy = "Block" => dropped = {}

AccountInv == NoneDropped /\ Endings /\ Unparsed /\ \A i \in 1..pos : Fate(i)

\* Events of message i in a sequence.
In(q, i) == {k \in Whole(i) : \E n \in DOMAIN q : q[n] = <<i, k>>}

\* One event more in a sequence, at its end,
LEMMA InAppend ==
    ASSUME NEW q \in Seq(Nat \X Nat), NEW e \in Nat \X Nat, NEW i
    PROVE  In(Append(q, e), i) = In(q, i) \cup {k \in Whole(i) : e = <<i, k>>}
<1> DEFINE more == Append(q, e)
           last == Len(q) + 1
<1>1. /\ last \in DOMAIN more /\ more[last] = e
      /\ \A n \in DOMAIN q : n \in DOMAIN more /\ more[n] = q[n]
      /\ \A n \in DOMAIN more : (n \in DOMAIN q /\ more[n] = q[n]) \/ n = last
  BY AppendPlaces
<1> HIDE DEF more, last
<1>2. \A k : (\E n \in DOMAIN more : more[n] = <<i, k>>)
                <=> (\E n \in DOMAIN q : q[n] = <<i, k>>) \/ e = <<i, k>>
  BY <1>1
<1> QED
  BY <1>2 DEF In, more

\* or at its front.
LEMMA InTail ==
    ASSUME NEW q \in Seq(Nat \X Nat), q # <<>>, NEW i
    PROVE  In(q, i) = In(Tail(q), i) \cup {k \in Whole(i) : Head(q) = <<i, k>>}
<1> DEFINE r == Tail(q)
           first == Head(q)
<1>1. /\ first = q[1] /\ 1 \in DOMAIN q
      /\ \A n \in DOMAIN q : n = 1 \/ (n - 1 \in DOMAIN r /\ r[n - 1] = q[n])
      /\ \A n \in DOMAIN r : n + 1 \in DOMAIN q /\ q[n + 1] = r[n]
  BY TailPlaces
<1> HIDE DEF r, first
<1>2. \A k : (\E n \in DOMAIN q : q[n] = <<i, k>>)
                <=> (\E n \in DOMAIN r : r[n] = <<i, k>>) \/ first = <<i, k>>
  BY <1>1
<1> QED
  BY <1>2 DEF In, r, first

\* A beginning and the rest of a message are the whole of it.
LEMMA WholeTask ==
    ASSUME NEW i \in Nat, NEW d \in Nat, Size(i) \in Nat, d <= Size(i)
    PROVE  1..d \cup {Left(i, d)[n][2] : n \in DOMAIN Left(i, d)} = Whole(i)
<1>1. DOMAIN Left(i, d) = 1..(Size(i) - d)
  BY LeftSeq
<1>2. \A n \in 1..(Size(i) - d) : Left(i, d)[n][2] = d + n
  <2>1. \A n \in 1..(Size(i) - d) : Left(i, d)[n] = <<i, d + n>>
    BY LeftSeq
  <2> QED
    BY <2>1
<1>3. ASSUME NEW k \in Whole(i), k > d
      PROVE  \E n \in DOMAIN Left(i, d) : k = Left(i, d)[n][2]
  <2>1. k - d \in 1..(Size(i) - d) /\ d + (k - d) = k
    BY <1>3 DEF Whole, Size
  <2> QED
    BY <1>1, <1>2, <2>1
<1>4. ASSUME NEW n \in DOMAIN Left(i, d)
      PROVE  Left(i, d)[n][2] \in Whole(i)
  BY <1>1, <1>2 DEF Whole, Size
<1>5. 1..d \subseteq Whole(i) /\ \A k \in Whole(i) : k \in 1..d \/ k > d
  BY DEF Whole, Size
<1> QED
  BY <1>3, <1>4, <1>5

\* The message that leaves the channel is its first,
LEMMA ChannelTail ==
    ASSUME PromiseInv, channel # <<>>, channel' = Tail(channel)
    PROVE  /\ InChannel \subseteq InChannel' \cup {Head(channel)}
           /\ InChannel' \subseteq InChannel
           /\ Head(channel) \in InChannel
<1>0. channel \in Seq(1..pos)
  BY Facts
<1>1. /\ Head(channel) = channel[1] /\ 1 \in DOMAIN channel
      /\ \A n \in DOMAIN channel :
            n = 1 \/ (n - 1 \in DOMAIN channel' /\ channel'[n - 1] = channel[n])
      /\ \A n \in DOMAIN channel' : n + 1 \in DOMAIN channel /\ channel[n + 1] = channel'[n]
  BY <1>0, TailPlaces
<1>2. ASSUME NEW n \in DOMAIN channel PROVE channel[n] \in InChannel' \cup {Head(channel)}
  BY <1>1 DEF InChannel
<1>3. \A n \in DOMAIN channel' : channel'[n] \in InChannel
  BY <1>1 DEF InChannel
<1> QED
  BY <1>1, <1>2, <1>3 DEF InChannel

\* and the one that enters its last.
LEMMA ChannelAppend ==
    ASSUME PromiseInv, reader = "sending", channel' = Append(channel, pos)
    PROVE  InChannel' = InChannel \cup {pos}
<1>0. channel \in Seq(1..pos) /\ pos \in 1..pos
  BY Facts DEF PromiseInv, TypeInv, Holding
<1> DEFINE last == Len(channel) + 1
<1>1. /\ last \in DOMAIN channel' /\ channel'[last] = pos
      /\ \A n \in DOMAIN channel : n \in DOMAIN channel' /\ channel'[n] = channel[n]
      /\ \A n \in DOMAIN channel' :
            (n \in DOMAIN channel /\ channel'[n] = channel[n]) \/ n = last
  BY <1>0, AppendPlaces
<1> HIDE DEF last
<1> QED
  BY <1>1 DEF InChannel

\* What waits has not been taken up, and nothing was told of it.
LEMMA WaitsAhead ==
    ASSUME PromiseInv
    PROVE  /\ \A i \in Waits : i \in 1..pos /\ i > taken /\ ToldOf(i) = {}
           /\ \A i \in DOMAIN tasks : i <= taken
           /\ \A n \in DOMAIN batch : batch[n][1] <= taken
<1>1. Arrivals /\ TypeInv /\ pos \in Nat /\ taken \in Nat
  BY Facts DEF PromiseInv
<1>2. \A n \in DOMAIN channel : channel[n] \in 1..pos /\ channel[n] > taken
  BY <1>1, Facts, ElementOfSeq DEF Arrivals
<1>3. \A i \in Waits : i \in 1..pos /\ i > taken
  BY <1>1, <1>2, Facts DEF Waits, InChannel, Arrivals, TypeInv, Holding, NoMsg
<1>4. \A i \in Waits : ToldOf(i) = {}
  BY <1>1, <1>3, ToldNone
<1>5. CASE Immediate
  BY <1>1, <1>3, <1>4, <1>5 DEF PromiseInv, Tasked, TypeInv, StreamTypeOK
<1>6. CASE ~Immediate
  BY <1>1, <1>3, <1>4, <1>6, BatchFacts DEF TypeInv, StreamTypeOK
<1> QED
  BY <1>5, <1>6

\* An end is for good.
LEMMA OverStays ==
    ASSUME PromiseInv, [Next]_vars, Over
    PROVE  Over'
<1>1. /\ stopping => stopping'
      /\ reader = "done" => reader' = "done"
      /\ consumer.at = "done" => consumer'.at = "done"
  <2>1. CASE \/ Read \/ Send \/ Full \/ SendFails \/ ReaderAborted \/ StreamEnds
             \/ Aggregate \/ WindowTick \/ Stop \/ UNCHANGED vars
    BY <2>1 DEF Read, Send, Full, SendFails, ReaderAborted, StreamEnds, Aggregate,
       WindowTick, Stop, vars, work, pipe
  <2>2. CASE \/ Receive \/ Spawn \/ Flushed \/ Added \/ Close \/ Closed \/ ConsumerAborted
    BY <2>2 DEF Receive, Spawn, Flushed, Added, Close, Closed, ConsumerAborted, pipe
  <2>3. CASE Add \/ Flush
    BY <2>3 DEF Add, Flush, pipe
  <2>4. ASSUME NEW i \in DOMAIN tasks, Task(i)
        PROVE  UNCHANGED <<stopping, reader, consumer>>
    BY <2>4 DEF Task, Parse, Tell, Finish, pipe
  <2> QED
    BY <2>1, <2>2, <2>3, <2>4 DEF Next, Reader, Consumer, Metrics, Environment
<1>2. feed' = feed /\ setup' = setup /\ pos' \in Nat /\ pos <= pos' /\ pos \in Nat
  BY Hearing, Facts
<1>3. (\E f \in 1..pos : Panics(f)) => \E f \in 1..pos' : Panics(f)'
  <2>1. \A f \in 1..pos : f \in 1..pos' /\ (Panics(f) => Panics(f)')
    BY <1>2 DEF Panics
  <2> QED
    BY <2>1
<1> QED
  BY <1>1, <1>2, <1>3 DEF Over, Immediate

\* What is told stays told.
LEMMA ToldStays ==
    ASSUME PromiseInv, [Next]_vars
    PROVE  /\ \A i : Whole(i)' = Whole(i) /\ ToldOf(i) \subseteq ToldOf(i)'
           /\ \A i : ToldOf(i)' \subseteq Whole(i)
           /\ \A i : (\A d : ~Tells(i, d)) => ToldOf(i)' = ToldOf(i)
<1>1. \A i : Whole(i)' = Whole(i)
  BY Hearing DEF Whole
<1>2. CASE heard' = heard
  BY <1>1, <1>2 DEF ToldOf
<1>3. ASSUME NEW j, NEW d, Tells(j, d)
      PROVE  \A i : /\ ToldOf(i) \subseteq ToldOf(i)'
                    /\ i # j => ToldOf(i)' = ToldOf(i)
  <2>1. /\ DOMAIN heard' = 1..(Len(heard) + 1) /\ DOMAIN heard = 1..Len(heard)
        /\ Len(heard) \in Nat
        /\ \A n \in 1..Len(heard) : heard'[n] = heard[n]
        /\ heard'[Len(heard) + 1] = <<j, d + 1>>
    BY <1>3, Facts DEF Tells
  <2>2. \A n \in DOMAIN heard : n \in DOMAIN heard' /\ heard'[n] = heard[n]
    BY <2>1
  <2>3. \A n \in DOMAIN heard' : heard'[n] = <<j, d + 1>> \/ n \in DOMAIN heard
    BY <2>1
  <2> QED
    BY <1>1, <2>2, <2>3 DEF ToldOf
<1>4. \A i : ToldOf(i)' \subseteq Whole(i)
  BY <1>1 DEF ToldOf
<1> QED
  BY <1>1, <1>2, <1>3, <1>4, Hearing

\* The reader, the metrics and the environment move no event.
LEMMA AccountOuter ==
    ASSUME PromiseInv, AccountInv, [Next]_vars,
           \/ Read \/ Send \/ Full \/ SendFails \/ ReaderAborted \/ StreamEnds
           \/ Aggregate \/ WindowTick \/ Stop \/ UNCHANGED vars
    PROVE  AccountInv'
<1>1. UNCHANGED <<setup, feed, consumer, rest, batch, tasks, parsed, taken, heard>>
  BY DEF Read, Send, Full, SendFails, ReaderAborted, StreamEnds, Aggregate,
     WindowTick, Stop, vars, work
<1>2. \A i : /\ ToldOf(i)' = ToldOf(i) /\ Whole(i)' = Whole(i) /\ Placed(i)' = Placed(i)
             /\ Panics(i)' <=> Panics(i)
  BY <1>1 DEF Placed, ToldOf, HeldOf, BatchedOf, LeftOf, Whole, Panics
<1>3. Immediate' <=> Immediate
  BY <1>1 DEF Immediate
<1>4. /\ pos \in Nat /\ Len(feed) \in Nat /\ consumer.msg <= pos /\ consumer.msg \in Nat
      /\ Arrivals /\ taken <= pos /\ taken \in Nat
      /\ Endings /\ Unparsed /\ NoneDropped /\ \A i \in 1..pos : Fate(i)
  BY Facts DEF PromiseInv, AccountInv
<1>5. NoneDropped' /\ dropped \subseteq dropped'
  BY <1>4 DEF NoneDropped, Read, Send, Full, SendFails, ReaderAborted, StreamEnds, Aggregate,
     WindowTick, Stop, vars, work
<1>6. Unparsed'
  BY <1>1, <1>2, <1>4 DEF Unparsed
<1>7. Endings'
  <2>1. Over => Over'
    BY OverStays
  <2>2. CASE Read \/ Send \/ SendFails
    <3>1. reader # "done" /\ Busy' = Busy
      BY <1>1, <2>2 DEF Read, Send, SendFails, Busy
    <3> QED
      BY <1>1, <1>4, <2>1, <3>1 DEF Endings
  <2>3. CASE Full \/ Aggregate \/ WindowTick \/ Stop \/ UNCHANGED vars
    <3>1. channel' = channel /\ (reader = "done" => reader' = "done")
      BY <2>3 DEF Full, Aggregate, WindowTick, Stop, vars, pipe
    <3> QED
      BY <1>1, <1>4, <1>3, <2>1, <3>1 DEF Endings, Busy
  <2>4. CASE ReaderAborted \/ StreamEnds
    <3>1. channel' = channel /\ reader' = "done"
      BY <2>4 DEF ReaderAborted, StreamEnds
    <3> QED
      BY <1>1, <1>4, <1>3, <2>1, <3>1 DEF Endings, Busy
  <2> QED
    BY <2>2, <2>3, <2>4
<1>8. ASSUME NEW i \in 1..pos' PROVE Fate(i)'
  <2>1. \A j : Gone(j) => Gone(j)'
    BY <1>1, <1>2, <1>5 DEF Gone
  <2>2. CASE Over
    BY <2>2, OverStays DEF Fate
  <2>3. ASSUME i \in 1..pos, Placed(i) = Whole(i) PROVE Fate(i)'
    BY <1>2, <2>3 DEF Fate
  <2>4. CASE Aggregate \/ WindowTick \/ Stop \/ UNCHANGED vars
    <3>1. UNCHANGED <<pos, channel, reader>>
      BY <2>4 DEF Aggregate, WindowTick, Stop, vars, pipe
    <3>2. Waits' = Waits /\ i \in 1..pos
      BY <1>1, <3>1 DEF Waits, InChannel
    <3> QED
      BY <1>1, <1>2, <1>4, <2>1, <2>2, <2>3, <3>2 DEF Fate, Nowhere
  <2>5. CASE Read
    <3>1. /\ reader = "reading" /\ pos' = pos + 1 /\ channel' = channel
          /\ reader' \in {"reading", "done", "sending"}
          /\ reader' = "sending" \/ Silent(feed[pos + 1]) \/ Malformed(feed[pos + 1])
      BY <2>5 DEF Read
    <3>2. Waits' = Waits \cup (IF reader' = "sending" THEN {pos + 1} ELSE {})
      BY <1>1, <3>1 DEF Waits, InChannel
    <3>3. CASE i = pos + 1
      <4>1. ToldOf(i) = {} /\ i > taken
        BY <1>4, <3>3, ToldNone
      <4>2. /\ i \notin Waits /\ i # consumer.msg /\ i \notin DOMAIN tasks
            /\ \A n \in DOMAIN batch : batch[n][1] # i
        BY <1>4, <3>3, <4>1, WaitsAhead
      <4>3. CASE reader' = "sending"
        <5>1. i \in Waits'
          BY <3>2, <3>3, <4>3
        <5>2. consumer.at # "done" \/ Over
          BY <1>4, <3>1 DEF Endings
        <5> QED
          BY <1>1, <2>2, <5>1, <5>2 DEF Fate
      <4>4. CASE reader' # "sending"
        <5>1. Gone(i)'
          BY <1>1, <3>1, <3>3, <4>4 DEF Gone
        <5>2. Nowhere(i)'
          BY <1>1, <3>2, <4>2, <4>4 DEF Nowhere
        <5> QED
          BY <1>2, <4>1, <5>1, <5>2 DEF Fate
      <4> QED
        BY <4>3, <4>4
    <3>4. CASE i # pos + 1
      <4>1. i \in 1..pos
        BY <1>4, <3>1, <3>4
      <4>2. i \in Waits' <=> i \in Waits
        BY <3>2, <3>4
      <4> QED
        BY <1>1, <1>2, <1>4, <2>1, <2>2, <2>3, <4>1, <4>2 DEF Fate, Nowhere
    <3> QED
      BY <3>3, <3>4
  <2>6. CASE Send
    <3>1. /\ reader = "sending" /\ pos' = pos /\ channel' = Append(channel, pos)
          /\ reader' = "reading"
      BY <2>6 DEF Send
    <3>2. Waits' = Waits
      BY <1>1, <3>1, ChannelAppend DEF Waits
    <3> QED
      BY <1>1, <1>2, <1>4, <2>1, <2>2, <2>3, <3>1, <3>2 DEF Fate, Nowhere
  <2>7. CASE Full
    <3>1. /\ reader = "sending" /\ pos' = pos /\ channel' = channel
          /\ \/ reader' = reader
             \/ reader' = "reading" /\ dropped' = dropped \cup {pos}
      BY <2>7 DEF Full
    <3>2. CASE reader' = reader
      <4>1. Waits' = Waits
        BY <1>1, <3>1, <3>2 DEF Waits, InChannel
      <4> QED
        BY <1>1, <1>2, <1>4, <2>1, <2>2, <2>3, <3>1, <4>1 DEF Fate, Nowhere
    <3>3. CASE reader' = "reading" /\ dropped' = dropped \cup {pos}
      <4>1. Waits = Waits' \cup {pos}
        BY <1>1, <3>1, <3>3 DEF Waits, InChannel
      <4>2. pos \notin Waits' /\ pos > taken /\ pos > consumer.msg /\ ToldOf(pos) = {}
        <5>1. /\ \A n \in DOMAIN channel : channel[n] < pos
              /\ taken < pos /\ consumer.msg < pos
          BY <1>4, <3>1 DEF Arrivals
        <5>2. pos \notin InChannel
          BY <1>4, <5>1 DEF InChannel
        <5>3. pos \notin Waits'
          BY <1>1, <1>4, <3>1, <3>3, <5>1, <5>2 DEF Waits, InChannel
        <5> QED
          BY <1>4, <4>1, <5>1, <5>3, WaitsAhead
      <4>3. CASE i = pos
        <5>1. /\ i # consumer.msg /\ i \notin DOMAIN tasks
              /\ \A n \in DOMAIN batch : batch[n][1] # i
          BY <1>4, <4>2, <4>3, WaitsAhead
        <5>2. Gone(i)' /\ Nowhere(i)' /\ ToldOf(i)' = {}
          BY <1>1, <1>2, <3>3, <4>2, <4>3, <5>1 DEF Gone, Nowhere
        <5> QED
          BY <5>2 DEF Fate
      <4>4. CASE i # pos
        BY <1>1, <1>2, <1>4, <2>1, <2>2, <2>3, <3>1, <4>1, <4>4 DEF Fate, Nowhere
      <4> QED
        BY <4>3, <4>4
    <3> QED
      BY <3>1, <3>2, <3>3
  <2>8. CASE SendFails \/ ReaderAborted \/ StreamEnds
    <3>1. /\ pos' = pos /\ channel' = channel /\ reader' = "done" /\ stopping' = stopping
          /\ \/ consumer.at = "done"
             \/ stopping
             \/ reader = "reading"
      BY <2>8 DEF SendFails, ReaderAborted, StreamEnds
    <3>2. Waits' \subseteq Waits /\ (reader = "reading" => Waits' = Waits)
      BY <1>1, <3>1 DEF Waits, InChannel
    <3>3. stopping => Fate(i)'
      BY <3>1 DEF Fate, Over
    <3> QED
      BY <1>1, <1>2, <1>4, <2>1, <2>2, <2>3, <3>1, <3>2, <3>3 DEF Fate, Nowhere
  <2> QED
    BY <2>4, <2>5, <2>6, <2>7, <2>8
<1> QED
  BY <1>5, <1>6, <1>7, <1>8 DEF AccountInv

\* One task for each message.
LEMMA AccountTasks ==
    ASSUME PromiseInv, AccountInv, [Next]_vars, Immediate,
           \/ Receive \/ Spawn \/ Close \/ ConsumerAborted
           \/ \E i \in DOMAIN tasks : Task(i)
    PROVE  AccountInv'
<1>1. /\ UNCHANGED <<setup, feed, pos, reader, rest, batch, stopping, dropped>>
      /\ rest = <<>> /\ batch = <<>>
  <2>1. rest = <<>> /\ batch = <<>>
    BY DEF PromiseInv, TypeInv, StreamTypeOK
  <2>2. CASE Receive \/ Spawn \/ Close \/ ConsumerAborted
    BY <2>1, <2>2 DEF Receive, Spawn, Close, ConsumerAborted, pipe
  <2>3. ASSUME NEW i \in DOMAIN tasks, Task(i)
        PROVE  UNCHANGED <<setup, feed, pos, reader, rest, batch, stopping, dropped>>
    BY <2>3 DEF Task, Parse, Tell, Finish, pipe
  <2> QED
    BY <2>1, <2>2, <2>3
<1>2. /\ pos \in Nat /\ taken \in Nat /\ taken <= pos
      /\ Endings /\ Unparsed /\ NoneDropped /\ \A i \in 1..pos : Fate(i)
      /\ consumer.at \in Places /\ parsed \subseteq DOMAIN tasks
      /\ Arrivals
  BY Facts DEF PromiseInv, AccountInv, TypeInv, Kinds
<1>3. /\ Immediate'
      /\ \A i : Size(i)' = Size(i) /\ Whole(i)' = Whole(i) /\ \A d : Left(i, d)' = Left(i, d)
      /\ \A i : Gone(i)' <=> Gone(i)
  BY <1>1, SizeSame DEF Immediate, Whole, Gone, Panics
<1>4. /\ \A i : HeldOf(i) = {} /\ BatchedOf(i) = {}
      /\ \A i : HeldOf(i)' = {} /\ BatchedOf(i)' = {}
  BY <1>1 DEF HeldOf, BatchedOf
<1>5. Arrivals' /\ Tasked' /\ DOMAIN tasks' \subseteq 1..pos
  BY <1>1, <1>3, PromiseInvStep DEF PromiseInv, TypeInv, StreamTypeOK
<1>6. Over => Over'
  BY OverStays
\* A running task has its message whole.
<1>7. ASSUME NEW i \in DOMAIN tasks' PROVE Fate(i)'
  <2>1. PICK d \in 0..Size(i) : ToldOf(i)' = 1..d /\ tasks'[i] = Left(i, d)
    BY <1>3, <1>5 DEF Tasked, Holds
  <2>2. i \in Nat /\ d \in Nat /\ Size(i) \in Nat /\ d <= Size(i)
    BY <1>2, <1>5, <2>1, Facts
  <2>3. 1..d \cup {tasks'[i][n][2] : n \in DOMAIN tasks'[i]} = Whole(i)
    BY <2>1, <2>2, WholeTask
  <2>4. LeftOf(i)' = {tasks'[i][n][2] : n \in DOMAIN tasks'[i]}
    BY DEF LeftOf
  <2> QED
    BY <1>3, <1>4, <2>1, <2>3, <2>4 DEF Fate, Placed
\* One that has none keeps what was told of it.
<1>8. ASSUME NEW i, i \notin DOMAIN tasks, i \notin DOMAIN tasks', Placed(i) = Whole(i)
      PROVE  Fate(i)'
  <2>1. ToldOf(i) = Whole(i)
    BY <1>4, <1>8 DEF Placed, LeftOf
  <2>2. ToldOf(i)' = Whole(i) /\ LeftOf(i)' = {}
    BY <1>8, <2>1, ToldStays DEF LeftOf
  <2> QED
    BY <1>3, <1>4, <2>2 DEF Fate, Placed
<1>9. CASE Receive
  <2>1. /\ consumer.at = "waiting" /\ channel # <<>> /\ channel' = Tail(channel)
        /\ consumer' = [at |-> "acquiring", msg |-> Head(channel)]
        /\ UNCHANGED <<tasks, parsed, heard>>
    BY <1>9 DEF Receive
  <2>2. Waits' = Waits
    BY <1>1, <2>1, ChannelTail DEF Waits
  <2>3. Head(channel) \in Waits
    BY <2>1, ChannelTail DEF Waits
  <2>4. \A i : ToldOf(i)' = ToldOf(i)
    BY <1>1, <2>1, ToldSame
  <2>5. NoneDropped' /\ Unparsed'
    BY <1>1, <1>2, <2>1, <2>4 DEF NoneDropped, Unparsed
  <2>6. Endings'
    BY <1>1, <2>1 DEF Endings
  <2>7. ASSUME NEW i \in 1..pos PROVE Fate(i)'
    <3>1. CASE i \in Waits
      BY <2>1, <2>2, <3>1 DEF Fate
    <3>2. CASE Gone(i) /\ ToldOf(i) = {} /\ Nowhere(i)
      BY <1>1, <1>3, <2>1, <2>2, <2>3, <2>4, <3>2 DEF Fate, Nowhere
    <3>3. CASE Placed(i) = Whole(i)
      BY <1>7, <1>8, <2>1, <3>3
    <3>4. CASE Over
      BY <1>6, <3>4 DEF Fate
    <3> QED
      BY <1>2, <3>1, <3>2, <3>3, <3>4 DEF Fate
  <2> QED
    BY <1>1, <2>5, <2>6, <2>7 DEF AccountInv
<1>10. CASE Spawn
  <2>1. /\ consumer.at = "acquiring" /\ consumer' = [at |-> "waiting", msg |-> NoMsg]
        /\ DOMAIN tasks' = DOMAIN tasks \cup {consumer.msg}
        /\ UNCHANGED <<channel, parsed, heard>>
    BY <1>10 DEF Spawn, pipe
  <2>2. Waits = Waits' \cup {consumer.msg}
    BY <1>1, <2>1 DEF Waits, InChannel
  <2>3. \A i : ToldOf(i)' = ToldOf(i)
    BY <1>1, <2>1, ToldSame
  <2>4. ToldOf(consumer.msg) = {}
    BY <2>2, WaitsAhead
  <2>5. NoneDropped' /\ Unparsed'
    BY <1>1, <1>2, <2>1, <2>3, <2>4 DEF NoneDropped, Unparsed
  <2>6. Endings'
    BY <1>1, <2>1 DEF Endings
  <2>7. ASSUME NEW i \in 1..pos PROVE Fate(i)'
    <3>1. CASE i \in DOMAIN tasks'
      BY <1>7, <3>1
    <3>2. CASE i \notin DOMAIN tasks' /\ i \in Waits
      BY <2>1, <2>2, <3>2 DEF Fate
    <3>3. CASE i \notin DOMAIN tasks' /\ Gone(i) /\ ToldOf(i) = {} /\ Nowhere(i)
      <4>1. i # NoMsg
        BY DEF NoMsg
      <4> QED
        BY <1>1, <1>3, <2>1, <2>2, <2>3, <3>3, <4>1 DEF Fate, Nowhere
    <3>4. CASE i \notin DOMAIN tasks' /\ Placed(i) = Whole(i)
      BY <1>8, <2>1, <3>4
    <3>5. CASE Over
      BY <1>6, <3>5 DEF Fate
    <3> QED
      BY <1>2, <3>1, <3>2, <3>3, <3>4, <3>5 DEF Fate
  <2> QED
    BY <1>1, <2>5, <2>6, <2>7 DEF AccountInv
<1>11. ASSUME NEW t \in DOMAIN tasks, Task(t)
       PROVE  AccountInv'
  <2>1. /\ UNCHANGED <<consumer, channel>>
        /\ DOMAIN tasks' \subseteq DOMAIN tasks /\ DOMAIN tasks \subseteq DOMAIN tasks' \cup {t}
        /\ parsed \ {t} \subseteq parsed'
    BY <1>11 DEF Task, Parse, Tell, Finish, Ended, pipe
  <2>2. Waits' = Waits
    BY <1>1, <2>1 DEF Waits, InChannel
  <2>3. /\ \A i : i # t => ToldOf(i)' = ToldOf(i)
        /\ t \in DOMAIN tasks' \ parsed' => ToldOf(t)' = ToldOf(t) /\ t \notin parsed
        /\ t \notin DOMAIN tasks' =>
              /\ ToldOf(t)' = ToldOf(t)
              /\ \/ t \notin parsed /\ Panics(t)
                 \/ tasks[t] = <<>>
    <3>1. CASE Parse(t)
      <4>1. heard' = heard
        BY <3>1 DEF Parse
      <4> QED
        BY <1>1, <3>1, <4>1, ToldSame DEF Parse, Ended
    <3>2. CASE Finish(t)
      <4>1. heard' = heard
        BY <3>2 DEF Finish
      <4> QED
        BY <1>1, <3>2, <4>1, ToldSame DEF Finish, Ended
    <3>3. CASE Tell(t)
      <4>1. t \in parsed' /\ DOMAIN tasks' = DOMAIN tasks /\ heard' = Append(heard, Head(tasks[t]))
            /\ tasks[t] # <<>>
        BY <3>3 DEF Tell
      <4>2. PICK d \in Nat : d < Size(t) /\ Head(tasks[t]) = <<t, d + 1>>
        BY <4>1, HeadOfTask
      <4>3. ASSUME NEW i, NEW k, Tells(i, k) PROVE i = t
        <5>1. heard' = Append(heard, <<i, k + 1>>) /\ heard' = Append(heard, <<t, d + 1>>)
              /\ heard \in Seq(Nat \X Nat)
          BY <4>1, <4>2, <4>3, Facts DEF Tells
        <5>2. <<i, k + 1>> = <<t, d + 1>>
          <6>1. heard'[Len(heard) + 1] = <<i, k + 1>> /\ heard'[Len(heard) + 1] = <<t, d + 1>>
            BY <5>1
          <6> QED
            BY <6>1
        <5> QED
          BY <5>2
      <4> QED
        BY <4>1, <4>3, ToldStays
    <3> QED
      BY <1>11, <3>1, <3>2, <3>3 DEF Task
  <2>4. NoneDropped' /\ Endings'
    BY <1>1, <1>2, <1>3, <1>6, <2>1 DEF NoneDropped, Endings, Busy
  <2>5. Unparsed'
    BY <1>2, <2>1, <2>3 DEF Unparsed
  <2>6. ASSUME NEW i \in 1..pos PROVE Fate(i)'
    <3>1. CASE i \in DOMAIN tasks'
      BY <1>7, <3>1
    <3>2. CASE i = t /\ t \notin DOMAIN tasks'
      <4>1. CASE t \notin parsed /\ Panics(t)
        <5>1. ToldOf(t) = {}
          BY <1>2, <4>1 DEF Unparsed
        <5>2. Gone(t)
          BY <4>1 DEF Gone
        <5>3. t \notin Waits /\ t # consumer.msg
          <6>1. t <= taken /\ t \in Nat
            BY WaitsAhead, Facts
          <6>2. consumer.msg = NoMsg \/ consumer.msg > taken
            BY <1>2 DEF Arrivals, Places
          <6> QED
            BY <1>2, <6>1, <6>2, WaitsAhead, Facts DEF NoMsg
        <5> QED
          BY <1>1, <1>3, <2>1, <2>2, <2>3, <3>2, <5>1, <5>2, <5>3 DEF Fate, Nowhere
      <4>2. CASE tasks[t] = <<>>
        <5>1. PICK d \in 0..Size(t) : ToldOf(t) = 1..d /\ d = Size(t)
          BY <4>2, HeadOfTask DEF Holds
        <5>2. ToldOf(t)' = Whole(t) /\ LeftOf(t)' = {}
          BY <2>3, <3>2, <5>1 DEF LeftOf, Whole, Size
        <5> QED
          BY <1>3, <1>4, <3>2, <5>2 DEF Fate, Placed
      <4> QED
        BY <2>3, <3>2, <4>1, <4>2
    <3>3. CASE i \notin DOMAIN tasks /\ i \in Waits /\ consumer.at # "done"
      BY <2>1, <2>2, <3>3 DEF Fate
    <3>4. CASE i \notin DOMAIN tasks /\ Gone(i) /\ ToldOf(i) = {} /\ Nowhere(i)
      BY <1>1, <1>3, <2>1, <2>2, <2>3, <3>4 DEF Fate, Nowhere
    <3>5. CASE i \notin DOMAIN tasks /\ Placed(i) = Whole(i)
      BY <1>8, <2>1, <3>5
    <3>6. CASE Over
      BY <1>6, <3>6 DEF Fate
    <3> QED
      BY <1>2, <2>1, <3>1, <3>2, <3>3, <3>4, <3>5, <3>6 DEF Fate
  <2> QED
    BY <1>1, <2>4, <2>5, <2>6 DEF AccountInv
<1>12. CASE Close \/ ConsumerAborted
  <2>1. /\ consumer' = [at |-> "done", msg |-> NoMsg] /\ UNCHANGED <<channel, tasks, parsed, heard>>
        /\ \/ stopping
           \/ consumer.at = "waiting" /\ channel = <<>> /\ reader = "done"
    BY <1>12 DEF Close, ConsumerAborted, pipe
  <2>2. \A i : ToldOf(i)' = ToldOf(i)
    BY <1>1, <2>1, ToldSame
  <2>3. stopping => Over'
    BY <1>1, <2>1 DEF Over
  <2>4. NoneDropped' /\ Unparsed'
    BY <1>1, <1>2, <2>1, <2>2 DEF NoneDropped, Unparsed
  <2>5. Endings'
    BY <1>1, <2>1, <2>3 DEF Endings
  <2>6. ASSUME NEW i \in 1..pos PROVE Fate(i)'
    <3>1. CASE stopping
      BY <2>3, <3>1 DEF Fate
    <3>2. CASE consumer.at = "waiting" /\ channel = <<>> /\ reader = "done"
      <4>1. Waits = {} /\ Waits' = {}
        BY <1>1, <2>1, <3>2 DEF Waits, InChannel
      <4>2. i # NoMsg
        BY DEF NoMsg
      <4> QED
        BY <1>1, <1>2, <1>3, <1>6, <1>7, <1>8, <2>1, <2>2, <4>1, <4>2 DEF Fate, Nowhere
    <3> QED
      BY <2>1, <3>1, <3>2
  <2> QED
    BY <1>1, <2>4, <2>5, <2>6 DEF AccountInv
<1> QED
  BY <1>9, <1>10, <1>11, <1>12

\* What passes from one hand to the next keeps its place in the message.
LEMMA PlacedKept ==
    ASSUME PromiseInv, ~Immediate, Add \/ Flush, NEW i
    PROVE  Placed(i)' = Placed(i)
<1>1. /\ feed' = feed /\ tasks' = tasks /\ tasks = <<>>
      /\ heard \in Seq(Nat \X Nat) /\ batch \in Seq(Nat \X Nat)
  BY Facts, BatchFacts DEF Add, Flush, PromiseInv, TypeInv, StreamTypeOK
<1>2. LeftOf(i) = {} /\ LeftOf(i)' = {} /\ Whole(i)' = Whole(i)
  BY <1>1 DEF LeftOf, Whole
<1>3. /\ ToldOf(i) = In(heard, i) /\ HeldOf(i) = In(rest, i) /\ BatchedOf(i) = In(batch, i)
      /\ ToldOf(i)' = In(heard', i) /\ HeldOf(i)' = In(rest', i) /\ BatchedOf(i)' = In(batch', i)
  BY <1>2 DEF ToldOf, HeldOf, BatchedOf, In
<1>4. \A q \in Seq(Nat \X Nat), e \in Nat \X Nat :
         In(Append(q, e), i) = In(q, i) \cup {k \in Whole(i) : e = <<i, k>>}
  BY InAppend
<1>5. CASE Add
  <2>1. PICK t \in Nat : t = taken
    BY BatchFacts
  <2>2. PICK d \in Nat :
           /\ d < Size(t) /\ Size(t) \in Nat /\ rest = Left(t, d) /\ Head(rest) = <<t, d + 1>>
    BY <1>5, <2>1, AddFacts
  <2>3. rest \in Seq(Nat \X Nat) /\ rest # <<>> /\ rest' = Tail(rest)
    BY <1>5, <2>2, LeftSeq DEF Add
  <2>4. Head(rest) \in Nat \X Nat
    BY <2>2
  <2>5. In(rest, i) = In(rest', i) \cup {k \in Whole(i) : Head(rest) = <<i, k>>}
    BY <2>3, InTail
  <2>6. CASE heard' = Append(heard, Head(rest)) /\ batch' = batch
    <3>1. In(Append(heard, Head(rest)), i) = In(heard, i) \cup {k \in Whole(i) : Head(rest) = <<i, k>>}
      BY <1>1, <1>4, <2>4
    <3> QED
      BY <1>2, <1>3, <2>5, <2>6, <3>1 DEF Placed
  <2>7. CASE batch' = Append(batch, Head(rest)) /\ heard' = heard
    <3>1. In(Append(batch, Head(rest)), i) = In(batch, i) \cup {k \in Whole(i) : Head(rest) = <<i, k>>}
      BY <1>1, <1>4, <2>4
    <3> QED
      BY <1>2, <1>3, <2>5, <2>7, <3>1 DEF Placed
  <2> QED
    BY <1>5, <2>6, <2>7 DEF Add
<1>6. CASE Flush
  <2>1. /\ batch # <<>> /\ batch' = Tail(batch) /\ heard' = Append(heard, Head(batch))
        /\ rest' = rest
    BY <1>6 DEF Flush
  <2>2. Head(batch) \in Nat \X Nat
    BY <1>1, <2>1, HeadTailProperties
  <2>3. In(batch, i) = In(batch', i) \cup {k \in Whole(i) : Head(batch) = <<i, k>>}
    BY <1>1, <2>1, InTail
  <2>4. In(Append(heard, Head(batch)), i) = In(heard, i) \cup {k \in Whole(i) : Head(batch) = <<i, k>>}
    BY <1>1, <1>4, <2>2
  <2> QED
    BY <1>2, <1>3, <2>1, <2>3, <2>4 DEF Placed
<1> QED
  BY <1>5, <1>6

\* An event that is told is the one that was appended.
LEMMA TellsOnly ==
    ASSUME PromiseInv, NEW e, heard' = heard \/ heard' = Append(heard, e), NEW i, NEW d, Tells(i, d)
    PROVE  e = <<i, d + 1>>
<1>1. heard \in Seq(Nat \X Nat) /\ heard' = Append(heard, <<i, d + 1>>)
  BY Facts DEF Tells
<1>2. Len(heard') = Len(heard) + 1 /\ Len(heard) \in Nat /\ heard'[Len(heard) + 1] = <<i, d + 1>>
  BY <1>1
<1>3. heard' = Append(heard, e) => heard'[Len(heard) + 1] = e
  BY <1>1
<1> QED
  BY <1>2, <1>3

\* One consumer for all messages.
LEMMA AccountBatch ==
    ASSUME PromiseInv, AccountInv, [Next]_vars, ~Immediate,
           \/ Receive \/ Add \/ Flush \/ Flushed \/ Added \/ Close \/ Closed
           \/ ConsumerAborted
    PROVE  AccountInv'
<1>1. /\ UNCHANGED <<setup, feed, pos, reader, stopping, dropped, tasks, parsed>>
      /\ tasks = <<>> /\ consumer.at # "acquiring"
  BY DEF Receive, Add, Flush, Flushed, Added, Close, Closed, ConsumerAborted, pipe,
     PromiseInv, TypeInv, StreamTypeOK, Holding
<1>2. /\ pos \in Nat /\ taken \in Nat /\ taken <= pos
      /\ Endings /\ Unparsed /\ NoneDropped /\ \A i \in 1..pos : Fate(i)
      /\ Arrivals /\ PromiseInv'
      /\ consumer \in [at : Places, msg : Nat]
  BY Facts, PromiseInvStep DEF PromiseInv, AccountInv, TypeInv, Kinds
<1>3. /\ ~Immediate'
      /\ \A i : Whole(i)' = Whole(i)
      /\ \A i : Gone(i)' <=> Gone(i)
  BY <1>1 DEF Immediate, Whole, Gone, Panics
<1>4. Over => Over'
  BY OverStays
<1>5. NoneDropped' /\ Unparsed'
  BY <1>1, <1>2 DEF NoneDropped, Unparsed
<1>6. CASE Over'
  <2>1. ~Busy' => rest' = <<>>
    BY <1>1, <1>2 DEF Endings, Busy, Receive, Add, Flush, Flushed, Added, Close, Closed,
       ConsumerAborted, Immediate
  <2>2. consumer'.at = "closing" => reader' = "done" /\ channel' = <<>>
    BY <1>1, <1>2 DEF Endings, Receive, Add, Flush, Flushed, Added, Close, Closed,
       ConsumerAborted, pipe, Immediate
  <2> QED
    BY <1>1, <1>3, <1>5, <1>6, <2>1, <2>2 DEF AccountInv, Endings, Fate
<1>7. CASE Add \/ Flush
  <2>1. /\ UNCHANGED <<channel, taken>> /\ consumer'.msg = consumer.msg
        /\ consumer.at # "done" /\ consumer'.at \notin {"done", "acquiring"}
        /\ Busy \/ consumer.at = "closing"
        /\ consumer.at = "closing" => consumer'.at = "closing" /\ rest' = rest
        /\ Busy => Busy'
    BY <1>1, <1>2, <1>7 DEF Add, Flush, pipe, Busy
  <2>2. Waits' = Waits
    BY <1>1, <2>1 DEF Waits, InChannel
  <2>3. Endings'
    BY <1>1, <1>2, <1>3, <2>1 DEF Endings, Busy
  <2>4. PICK e \in Nat \X Nat :
           /\ heard' = heard \/ heard' = Append(heard, e)
           /\ \A n \in DOMAIN batch' : batch'[n] = e \/ \E m \in DOMAIN batch : batch'[n] = batch[m]
           /\ e[1] = consumer.msg \/ \E m \in DOMAIN batch : e = batch[m]
    <3>1. CASE Flush
      <4>1. /\ 1 \in DOMAIN batch
            /\ \A n \in DOMAIN batch' : n + 1 \in DOMAIN batch /\ batch'[n] = batch[n + 1]
        BY <3>1, FlushFacts
      <4>2. PICK e \in Nat \X Nat : e = batch[1] /\ heard' = Append(heard, e)
        BY <3>1, FlushFacts
      <4>3. \A n \in DOMAIN batch' : \E m \in DOMAIN batch : batch'[n] = batch[m]
        BY <4>1
      <4> QED
        BY <4>1, <4>2, <4>3
    <3>2. CASE Add
      <4>1. PICK t \in Nat : t = taken /\ consumer.msg = t
        BY <3>2, AddFacts, BatchFacts
      <4>2. PICK d \in Nat : Head(rest) = <<t, d + 1>>
        BY <3>2, <4>1, AddFacts
      <4>3. <<t, d + 1>> \in Nat \X Nat /\ batch \in Seq(Nat \X Nat)
        BY BatchFacts
      <4>4. CASE heard' = Append(heard, <<t, d + 1>>) /\ batch' = batch
        BY <4>1, <4>3, <4>4
      <4>5. CASE heard' = heard /\ batch' = Append(batch, <<t, d + 1>>)
        <5> DEFINE e == <<t, d + 1>>
        <5>1. e \in Nat \X Nat /\ batch' = Append(batch, e) /\ heard' = heard /\ e[1] = t
          BY <4>3, <4>5
        <5> HIDE DEF e
        <5>2. \A n \in DOMAIN batch' :
                 batch'[n] = e \/ (n \in DOMAIN batch /\ batch'[n] = batch[n])
          BY <4>3, <5>1, AppendPlaces
        <5> QED
          BY <4>1, <5>1, <5>2
      <4> QED
        BY <3>2, <4>2, <4>4, <4>5 DEF Add
    <3> QED
      BY <1>7, <3>1, <3>2
  <2>5. ASSUME NEW i, Nowhere(i), ToldOf(i) = {} PROVE Nowhere(i)' /\ ToldOf(i)' = {}
    <3>1. e[1] # i
      BY <2>4, <2>5 DEF Nowhere
    <3>2. \A d : ~Tells(i, d)
      BY <2>4, <3>1, TellsOnly
    <3>3. ToldOf(i)' = {}
      BY <2>5, <3>2, ToldStays
    <3> QED
      BY <1>1, <2>1, <2>2, <2>4, <2>5, <3>1, <3>3 DEF Nowhere
  <2>6. ASSUME NEW i \in 1..pos PROVE Fate(i)'
    <3>1. Placed(i)' = Placed(i)
      BY <1>7, PlacedKept
    <3> QED
      BY <1>2, <1>3, <1>4, <2>1, <2>2, <2>5, <3>1 DEF Fate
  <2> QED
    BY <1>1, <1>5, <2>3, <2>6 DEF AccountInv
<1>8. CASE Receive /\ ~Over'
  <2> DEFINE msg == Head(channel)
  <2>1. /\ consumer.at = "waiting" /\ channel # <<>> /\ channel' = Tail(channel)
        /\ UNCHANGED <<heard>> /\ msg \in 1..pos
    BY <1>8, Facts, HeadTailProperties DEF Receive
  <2>2. ~Panics(msg)
    <3>1. Panics(msg) => consumer'.at = "done"
      BY <1>8 DEF Receive, Immediate
    <3>2. Panics(msg) => Over'
      BY <1>1, <1>3, <2>1, <3>1 DEF Over, Panics
    <3> QED
      BY <1>8, <3>2
  <2>3. /\ consumer' = [at |-> "adding", msg |-> msg] /\ rest' = Events(msg) /\ batch' = batch
    BY <1>8, <2>2 DEF Receive, Immediate
  <2>4. /\ Waits \subseteq Waits' \cup {msg} /\ Waits' \subseteq Waits /\ msg \in Waits
    BY <1>1, <2>1, <2>3, ChannelTail DEF Waits
  <2>5. rest = <<>>
    BY <1>2, <2>1 DEF Endings, Busy
  <2>6. \A i : ToldOf(i)' = ToldOf(i) /\ BatchedOf(i)' = BatchedOf(i) /\ LeftOf(i)' = LeftOf(i)
    BY <1>1, <2>1, <2>3 DEF ToldOf, BatchedOf, LeftOf, Whole
  <2>7. \A i : HeldOf(i) = {} /\ LeftOf(i) = {}
    BY <1>1, <2>5 DEF HeldOf, LeftOf
  <2>8. \A i : HeldOf(i)' = IF i = msg THEN Whole(i) ELSE {}
    <3>1. DOMAIN rest' = Whole(msg) /\ \A k \in Whole(msg) : rest'[k] = <<msg, k>>
      BY <2>3 DEF Events
    <3> QED
      BY <1>3, <3>1 DEF HeldOf
  <2>9. ASSUME NEW i \in 1..pos PROVE Fate(i)'
    <3>1. CASE i = msg
      <4>1. ToldOf(i) \cup BatchedOf(i) \subseteq Whole(i)
        BY DEF ToldOf, BatchedOf
      <4> QED
        BY <1>3, <2>6, <2>7, <2>8, <3>1, <4>1 DEF Fate, Placed
    <3>2. CASE i # msg
      <4>1. Placed(i)' = Placed(i)
        BY <2>6, <2>7, <2>8, <3>2 DEF Placed
      <4>2. i \in Waits <=> i \in Waits'
        BY <2>4, <3>2
      <4>3. Nowhere(i) => Nowhere(i)'
        BY <1>1, <2>3, <3>2, <4>2 DEF Nowhere
      <4> QED
        BY <1>2, <1>3, <1>4, <2>3, <2>6, <4>1, <4>2, <4>3 DEF Fate
    <3> QED
      BY <3>1, <3>2
  <2>10. Endings'
    BY <2>3 DEF Endings, Busy
  <2> QED
    BY <1>1, <1>5, <2>9, <2>10 DEF AccountInv
<1>9. CASE (Flushed \/ Added \/ Close \/ Closed) /\ ~Over'
  <2>1. /\ UNCHANGED <<channel, heard, batch, rest>>
        /\ consumer'.at # "acquiring" /\ consumer'.msg \in {consumer.msg, NoMsg}
        /\ Closed \/ consumer'.at # "done"
    BY <1>2, <1>9 DEF Flushed, Added, Close, Closed, pipe, Immediate
  <2>2. Waits' = Waits /\ (Closed => Waits = {})
    BY <1>1, <1>2, <2>1 DEF Waits, InChannel, Closed, Endings
  <2>3. \A i : ToldOf(i)' = ToldOf(i) /\ Placed(i)' = Placed(i)
    BY <1>1, <2>1 DEF Placed, ToldOf, HeldOf, BatchedOf, LeftOf, Whole
  <2>4. ASSUME NEW i \in 1..pos PROVE Fate(i)'
    <3>1. Nowhere(i) => Nowhere(i)'
      BY <1>1, <2>1, <2>2 DEF Nowhere, NoMsg
    <3> QED
      BY <1>2, <1>3, <1>4, <2>1, <2>2, <2>3, <3>1 DEF Fate
  <2>5. Endings'
    BY <1>1, <1>2, <1>3, <1>9, <2>1 DEF Endings, Busy, Flushed, Added, Close, Closed, Immediate
  <2> QED
    BY <1>1, <1>5, <2>4, <2>5 DEF AccountInv
<1>10. ConsumerAborted => Over'
  BY DEF ConsumerAborted, Over
<1> QED
  BY <1>6, <1>7, <1>8, <1>9, <1>10

\* No step loses sight of a message.
LEMMA AccountStep == PromiseInv /\ AccountInv /\ [Next]_vars => AccountInv'
<1> SUFFICES ASSUME PromiseInv, AccountInv, [Next]_vars PROVE AccountInv'
  OBVIOUS
<1>1. CASE Immediate
  <2>1. Busy => FALSE
    BY <1>1 DEF PromiseInv, Arrivals, Busy
  <2>2. ~(Add \/ Flush \/ Flushed \/ Added \/ Closed)
    BY <1>1, <2>1 DEF Busy, Add, Flush, Flushed, Added, Closed, AccountInv, Endings
  <2> QED
    BY <1>1, <2>2, AccountOuter, AccountTasks
       DEF Next, Reader, Consumer, Metrics, Environment
<1>2. CASE ~Immediate
  <2>1. ~Spawn /\ ~(\E i \in DOMAIN tasks : Task(i))
    BY <1>2 DEF Spawn, PromiseInv, TypeInv, StreamTypeOK, Holding
  <2> QED
    BY <1>2, <2>1, AccountOuter, AccountBatch
       DEF Next, Reader, Consumer, Metrics, Environment
<1> QED
  BY <1>1, <1>2

\* At first no message was taken and nothing told.
LEMMA AccountInit == Init => AccountInv /\ HeardInv /\ OrderInv
<1> SUFFICES ASSUME Init PROVE AccountInv /\ HeardInv /\ OrderInv
  OBVIOUS
<1>1. HeardInv /\ OrderInv
  BY DEF Init, HeardInv, Real, Apart, OrderInv, Through
<1>2. AccountInv
  BY DEF Init, AccountInv, NoneDropped, Endings, Unparsed, Busy
<1> QED
  BY <1>1, <1>2


-----------------------------------------------------------------------------
(* Counting the events that are handed on                                  *)

\* Sets that map onto each other one to one are of one size.
LEMMA SameSize ==
    ASSUME NEW S, NEW T, IsFiniteSet(S), NEW f \in [S -> T],
           \A a, b \in S : f[a] = f[b] => a = b,
           \A t \in T : \E a \in S : f[a] = t
    PROVE  IsFiniteSet(T) /\ Cardinality(T) = Cardinality(S)
<1>1. f \in Bijection(S, T)
  <2>1. f \in Injection(S, T)
    BY DEF Injection, IsInjective
  <2>2. f \in Surjection(S, T)
    BY DEF Surjection
  <2> QED
    BY <2>1, <2>2 DEF Bijection
<1>2. ExistsBijection(S, T)
  BY <1>1 DEF ExistsBijection
<1> QED
  BY <1>2, FS_Bijection

\* The places of a sequence whose messages are not in B, and those of message i.
Outside(q, B) == {n \in DOMAIN q : q[n][1] \notin B}
OfMessage(q, i) == {n \in DOMAIN q : q[n][1] = i}
Tally(q, B) == Cardinality(Outside(q, B))

\* Finitely many places.
LEMMA PlacesFinite ==
    ASSUME NEW q \in Seq(Nat \X Nat), NEW B, NEW i
    PROVE  /\ IsFiniteSet(Outside(q, B)) /\ Tally(q, B) \in Nat
           /\ IsFiniteSet(OfMessage(q, i)) /\ Cardinality(OfMessage(q, i)) \in Nat
<1>1. IsFiniteSet(1..Len(q)) /\ DOMAIN q = 1..Len(q)
  BY FirstN
<1>2. Outside(q, B) \subseteq 1..Len(q) /\ OfMessage(q, i) \subseteq 1..Len(q)
  BY <1>1 DEF Outside, OfMessage
<1>3. IsFiniteSet(Outside(q, B)) /\ IsFiniteSet(OfMessage(q, i))
  BY <1>1, <1>2, FS_Subset
<1> QED
  BY <1>3, FS_CardinalityType DEF Tally

\* One event more at the end,
LEMMA TallyAppend ==
    ASSUME NEW q \in Seq(Nat \X Nat), NEW e \in Nat \X Nat, NEW B
    PROVE  Tally(Append(q, e), B) = Tally(q, B) + IF e[1] \in B THEN 0 ELSE 1
<1> DEFINE more == Append(q, e)
           L == Len(q)
<1>1. /\ DOMAIN more = 1..(L + 1) /\ DOMAIN q = 1..L /\ L \in Nat
      /\ \A n \in 1..L : more[n] = q[n]
      /\ more[L + 1] = e
  OBVIOUS
<1> HIDE DEF more
<1>2. IsFiniteSet(Outside(q, B)) /\ Tally(q, B) \in Nat /\ L + 1 \notin Outside(q, B)
  <2>1. IsFiniteSet(Outside(q, B)) /\ Tally(q, B) \in Nat
    BY PlacesFinite
  <2>2. L + 1 \notin Outside(q, B)
    BY <1>1 DEF Outside
  <2> QED
    BY <2>1, <2>2
<1>3. CASE e[1] \in B
  <2>1. Outside(more, B) = Outside(q, B)
    BY <1>1, <1>3 DEF Outside
  <2> QED
    BY <1>2, <1>3, <2>1 DEF Tally, more
<1>4. CASE e[1] \notin B
  <2>1. Outside(more, B) = Outside(q, B) \cup {L + 1}
    BY <1>1, <1>4 DEF Outside
  <2>2. Cardinality(Outside(q, B) \cup {L + 1}) = Cardinality(Outside(q, B)) + 1
    BY <1>2, FS_AddElement
  <2> QED
    BY <1>2, <1>4, <2>1, <2>2 DEF Tally, more
<1> QED
  BY <1>3, <1>4

\* and one less at the front.
LEMMA TallyTail ==
    ASSUME NEW q \in Seq(Nat \X Nat), q # <<>>, NEW B
    PROVE  Tally(q, B) = Tally(Tail(q), B) + IF Head(q)[1] \in B THEN 0 ELSE 1
<1> DEFINE r == Tail(q)
           L == Len(q)
           up == [n \in Outside(r, B) |-> n + 1]
<1>1. /\ DOMAIN r = 1..(L - 1) /\ DOMAIN q = 1..L /\ L \in Nat \ {0} /\ r \in Seq(Nat \X Nat)
      /\ \A n \in 1..(L - 1) : r[n] = q[n + 1]
      /\ Head(q) = q[1]
  BY HeadTailProperties
<1> HIDE DEF r
<1>2. IsFiniteSet(Outside(r, B)) /\ Tally(r, B) \in Nat
  BY <1>1, PlacesFinite
<1>3. /\ up \in [Outside(r, B) -> Outside(q, B) \ {1}]
      /\ \A a, b \in Outside(r, B) : up[a] = up[b] => a = b
      /\ \A n \in Outside(q, B) \ {1} : \E a \in Outside(r, B) : up[a] = n
  <2>1. ASSUME NEW n \in Outside(r, B) PROVE n \in Nat /\ n + 1 \in Outside(q, B) \ {1}
    <3>1. n \in 1..(L - 1) /\ r[n][1] \notin B
      BY <1>1, <2>1 DEF Outside
    <3>2. n \in Nat /\ n + 1 \in 1..L /\ n + 1 # 1 /\ r[n] = q[n + 1]
      BY <1>1, <3>1
    <3> QED
      BY <1>1, <3>1, <3>2 DEF Outside
  <2>2. ASSUME NEW n \in Outside(q, B) \ {1} PROVE n - 1 \in Outside(r, B) /\ (n - 1) + 1 = n
    <3>1. n \in 1..L /\ n # 1 /\ q[n][1] \notin B
      BY <1>1, <2>2 DEF Outside
    <3>2. n - 1 \in 1..(L - 1) /\ (n - 1) + 1 = n
      BY <1>1, <3>1
    <3> QED
      BY <1>1, <3>1, <3>2 DEF Outside
  <2> QED
    BY <2>1, <2>2
<1>4. Cardinality(Outside(q, B) \ {1}) = Tally(r, B)
  <2> DEFINE S == Outside(r, B)
             T == Outside(q, B) \ {1}
  <2>1. /\ IsFiniteSet(S) /\ up \in [S -> T]
        /\ \A a, b \in S : up[a] = up[b] => a = b
        /\ \A n \in T : \E a \in S : up[a] = n
    BY <1>2, <1>3
  <2> HIDE DEF up, S, T
  <2>2. Cardinality(T) = Cardinality(S)
    BY <2>1, SameSize
  <2> QED
    BY <2>2 DEF S, T, Tally
<1>5. /\ IsFiniteSet(Outside(q, B)) /\ Tally(q, B) \in Nat
      /\ 1 \in Outside(q, B) <=> Head(q)[1] \notin B
  <2>1. IsFiniteSet(Outside(q, B)) /\ Tally(q, B) \in Nat
    BY PlacesFinite
  <2>2. 1 \in DOMAIN q
    BY <1>1
  <2> QED
    BY <1>1, <2>1, <2>2 DEF Outside
<1>6. Cardinality(Outside(q, B) \ {1})
        = IF 1 \in Outside(q, B) THEN Tally(q, B) - 1 ELSE Tally(q, B)
  BY <1>5, FS_RemoveElement DEF Tally
<1> QED
  BY <1>2, <1>4, <1>5, <1>6 DEF r

\* Which messages are set apart matters only for those that are there.
LEMMA TallyAlike ==
    ASSUME NEW q, NEW B, NEW C, \A n \in DOMAIN q : q[n][1] \in B <=> q[n][1] \in C
    PROVE  Tally(q, B) = Tally(q, C)
<1>1. Outside(q, B) = Outside(q, C)
  BY DEF Outside
<1> QED
  BY <1>1 DEF Tally

\* A message that is set apart no more brings in its events.
LEMMA TallyMore ==
    ASSUME NEW q \in Seq(Nat \X Nat), NEW B, NEW C, NEW i,
           \A n \in DOMAIN q : q[n][1] \in B <=> q[n][1] \in C \/ q[n][1] = i,
           i \notin C
    PROVE  Tally(q, C) = Tally(q, B) + Cardinality(OfMessage(q, i))
<1>1. Outside(q, C) = Outside(q, B) \cup OfMessage(q, i)
  BY DEF Outside, OfMessage
<1>2. Outside(q, B) \cap OfMessage(q, i) = {}
  BY DEF Outside, OfMessage
<1>3. /\ IsFiniteSet(Outside(q, B)) /\ Tally(q, B) \in Nat
      /\ IsFiniteSet(OfMessage(q, i)) /\ Cardinality(OfMessage(q, i)) \in Nat
  BY PlacesFinite
<1> DEFINE S == Outside(q, B)
           T == OfMessage(q, i)
<1>4. Cardinality(S \cup T) = Cardinality(S) + Cardinality(T) - Cardinality(S \cap T)
  <2> HIDE DEF S, T
  <2> QED
    BY <1>3, FS_Union DEF S, T
<1>5. Cardinality(S \cap T) = 0
  BY <1>2, FS_EmptySet
<1>6. Tally(q, C) = Cardinality(S) + Cardinality(T) /\ Tally(q, B) = Cardinality(S)
  BY <1>1, <1>3, <1>4, <1>5 DEF Tally
<1> QED
  BY <1>6

\* Where each event stands once, places are as many as events.
LEMMA OfMessageIn ==
    ASSUME NEW q \in Seq(Nat \X Nat), NEW i, \A m, n \in DOMAIN q : m # n => q[m] # q[n],
           \A n \in DOMAIN q : q[n][1] = i => q[n][2] \in Whole(i)
    PROVE  IsFiniteSet(In(q, i)) /\ Cardinality(In(q, i)) = Cardinality(OfMessage(q, i))
<1> DEFINE f == [n \in OfMessage(q, i) |-> q[n][2]]
<1>1. \A n \in DOMAIN q : q[n] = <<q[n][1], q[n][2]>>
  <2>1. \A n \in DOMAIN q : q[n] \in Nat \X Nat
    OBVIOUS
  <2> QED
    BY <2>1
<1>2. f \in [OfMessage(q, i) -> In(q, i)]
  BY <1>1 DEF OfMessage, In
<1>3. \A a, b \in OfMessage(q, i) : f[a] = f[b] => a = b
  BY <1>1 DEF OfMessage
<1>4. ASSUME NEW k \in In(q, i) PROVE \E a \in OfMessage(q, i) : f[a] = k
  <2>1. PICK n \in DOMAIN q : q[n] = <<i, k>>
    BY DEF In
  <2>2. n \in OfMessage(q, i) /\ f[n] = k
    BY <2>1 DEF OfMessage
  <2> QED
    BY <2>2
<1>5. IsFiniteSet(OfMessage(q, i))
  BY PlacesFinite
<1> HIDE DEF f
<1> QED
  BY <1>2, <1>3, <1>4, <1>5, SameSize

-----------------------------------------------------------------------------
(* Summing up the queue of the metrics                                     *)

\* The events that an update stands for.
Worth(w) == IF w = Begun THEN 0 ELSE w - 1
Sums(q, f) ==
    /\ f \in [0..Len(q) -> Nat] /\ f[0] = 0
    /\ \A n \in 1..Len(q) : f[n] = f[n - 1] + Worth(q[n])
Adds(q) == [n \in 1..Len(q) |-> [sum \in Nat |-> sum + Worth(q[n])]]

\* The sums iterate the steps.
LEMMA SumsIterate ==
    ASSUME NEW q \in Seq(Nat), NEW f
    PROVE  /\ Len(q) \in Nat
           /\ \A n \in 1..Len(q) : q[n] \in Nat /\ Worth(q[n]) \in Nat
           /\ Adds(q) \in [1..Len(q) -> [Nat -> Nat]]
           /\ Sums(q, f) <=> Iterates(f, 0, Adds(q), Len(q), Nat)
<1>1. Len(q) \in Nat /\ \A n \in 1..Len(q) : q[n] \in Nat /\ Worth(q[n]) \in Nat
  BY DEF Worth, Begun
<1>2. Adds(q) \in [1..Len(q) -> [Nat -> Nat]]
  BY <1>1 DEF Adds
<1>3. ASSUME f \in [0..Len(q) -> Nat], NEW n \in 1..Len(q)
      PROVE  Adds(q)[n][f[n - 1]] = f[n - 1] + Worth(q[n])
  <2>1. n - 1 \in 0..Len(q)
    BY <1>1
  <2> QED
    BY <1>3, <2>1 DEF Adds
<1> QED
  BY <1>1, <1>2, <1>3 DEF Sums, Iterates

\* There is one sequence of sums,
LEMMA SumsExist ==
    ASSUME NEW q \in Seq(Nat)
    PROVE  \E f : Sums(q, f)
<1> DEFINE n == Len(q)
           step == Adds(q)
<1>1. n \in Nat /\ step \in [1..n -> [Nat -> Nat]]
  BY SumsIterate
<1>2. \A f : Sums(q, f) <=> Iterates(f, 0, step, n, Nat)
  BY SumsIterate
<1> HIDE DEF n, step
<1>3. \E f : Iterates(f, 0, step, n, Nat)
  BY <1>1, IteratesExists
<1> QED
  BY <1>2, <1>3

\* and Queued is the last of it: the recursive function it is defined by exists.
LEMMA QueuedIs ==
    ASSUME NEW q \in Seq(Nat), NEW f, Sums(q, f)
    PROVE  Queued(q) = f[Len(q)] /\ Queued(q) \in Nat
<1> DEFINE L == Len(q)
           Is(g) ==
               g = [n \in 0..Len(q) |->
                       IF n = 0 THEN 0 ELSE g[n - 1] + IF q[n] = Begun THEN 0 ELSE q[n] - 1]
<1>0. L \in Nat /\ \A n \in 1..L : q[n] \in Nat /\ Worth(q[n]) \in Nat
  BY SumsIterate
<1>1. Is(f)
  <2>1. \A n \in 0..L : n = 0 \/ n \in 1..L
    BY <1>0
  <2> QED
    BY <1>0, <2>1 DEF Sums, Worth
<1>2. ASSUME NEW g, Is(g)
      PROVE  Sums(q, g)
  <2> DEFINE T == {n \in 0..L : g[n] \in Nat}
  <2>1. 0 \in T
    BY <1>0, <1>2
  <2>2. \A n \in 1..L : g[n] = g[n - 1] + Worth(q[n])
    <3>1. \A n \in 1..L : n \in 0..L /\ n # 0
      OBVIOUS
    <3> QED
      BY <1>2, <3>1 DEF Worth
  <2>3. ASSUME NEW n \in 0 .. L - 1, n \in T
        PROVE  n + 1 \in T
    <3>1. n + 1 \in 1..L /\ n + 1 \in 0..L /\ (n + 1) - 1 = n
      BY <1>0
    <3>2. g[n + 1] = g[n] + Worth(q[n + 1])
      BY <2>2, <3>1
    <3>3. g[n] \in Nat /\ Worth(q[n + 1]) \in Nat
      BY <1>0, <2>3, <3>1
    <3>4. g[n + 1] \in Nat
      BY <3>2, <3>3
    <3> QED
      BY <3>1, <3>4
  <2>4. 0..L \subseteq T
    <3> HIDE DEF T, L
    <3> QED
      BY <1>0, <2>1, <2>3, AllUpTo
  <2>5. g \in [0..L -> Nat] /\ g[0] = 0
    BY <1>0, <1>2, <2>4
  <2> QED
    BY <2>2, <2>5 DEF Sums
<1> DEFINE h == CHOOSE g : Is(g)
<1>3. Is(h)
  BY <1>1
<1>4. h = f
  <2>1. Sums(q, h)
    BY <1>2, <1>3
  <2> HIDE DEF h
  <2> DEFINE n == Len(q)
             step == Adds(q)
  <2>2. n \in Nat /\ Iterates(f, 0, step, n, Nat) /\ Iterates(h, 0, step, n, Nat)
    BY <2>1, SumsIterate
  <2> HIDE DEF n, step
  <2> QED
    BY <2>2, IteratesUnique
<1>5. Queued(q) = h[Len(q)]
  BY DEF Queued
<1>6. f[L] \in Nat
  BY <1>0 DEF Sums
<1> HIDE DEF h
<1> QED
  BY <1>4, <1>5, <1>6

\* Nothing is in an empty queue; the last one in adds what it is worth,
LEMMA QueuedAppend ==
    ASSUME NEW q \in Seq(Nat), NEW w \in Nat
    PROVE  /\ Queued(<<>>) = 0
           /\ Queued(q) \in Nat
           /\ Queued(Append(q, w)) = Queued(q) + Worth(w)
<1> DEFINE L == Len(q)
           more == Append(q, w)
<1>1. PICK f : Sums(q, f)
  BY SumsExist
<1>2. Queued(q) = f[L] /\ Queued(q) \in Nat
  BY <1>1, QueuedIs
<1>3. /\ L \in Nat /\ more \in Seq(Nat) /\ Len(more) = L + 1
      /\ \A n \in 1..L : more[n] = q[n]
      /\ more[L + 1] = w
  BY AppendProperties
<1>4. Worth(w) \in Nat
  BY DEF Worth, Begun
<1> DEFINE g == [n \in 0..(L + 1) |-> IF n <= L THEN f[n] ELSE f[L] + Worth(w)]
<1> HIDE DEF L, more
<1>5. Sums(more, g)
  <2>1. f \in [0..L -> Nat] /\ f[0] = 0 /\ \A n \in 1..L : f[n] = f[n - 1] + Worth(q[n])
    BY <1>1 DEF Sums, L
  <2>2. g \in [0..(L + 1) -> Nat] /\ g[0] = 0
    <3>1. \A n \in 0..(L + 1) : n <= L => n \in 0..L
      BY <1>3
    <3>2. f[L] + Worth(w) \in Nat
      BY <1>3, <1>4, <2>1
    <3> QED
      BY <1>3, <2>1, <3>1, <3>2
  <2>3. ASSUME NEW n \in 1..(L + 1)
        PROVE  g[n] = g[n - 1] + Worth(more[n])
    <3>1. n \in 0..(L + 1) /\ n - 1 \in 0..(L + 1) /\ n - 1 <= L
      BY <1>3
    <3>2. g[n - 1] = f[n - 1]
      BY <3>1
    <3>3. CASE n <= L
      <4>1. n \in 1..L /\ g[n] = f[n]
        BY <1>3, <3>1, <3>3
      <4> QED
        BY <1>3, <2>1, <3>2, <4>1
    <3>4. CASE n = L + 1
      <4>1. g[n] = f[L] + Worth(w) /\ g[n - 1] = f[L] /\ more[n] = w
        BY <1>3, <3>1, <3>2, <3>4
      <4> QED
        BY <4>1
    <3> QED
      BY <1>3, <3>3, <3>4
  <2> QED
    BY <1>3, <2>2, <2>3 DEF Sums
<1>6. Queued(more) = g[L + 1]
  <2> HIDE DEF g
  <2> QED
    BY <1>3, <1>5, QueuedIs
<1>7. g[L + 1] = f[L] + Worth(w)
  BY <1>3
<1>8. Queued(<<>>) = 0
  <2> DEFINE z == [n \in 0..0 |-> 0]
             none == <<>>
  <2>1. none \in Seq(Nat) /\ Len(none) = 0
    OBVIOUS
  <2>2. z[0] = 0 /\ Sums(none, z)
    BY <2>1 DEF Sums
  <2> HIDE DEF z, none
  <2>3. Queued(none) = z[Len(none)]
    BY <2>1, <2>2, QueuedIs
  <2> QED
    BY <2>1, <2>2, <2>3 DEF none
<1> QED
  BY <1>2, <1>6, <1>7, <1>8 DEF more

\* and the first one out takes it away.
LEMMA QueuedTail ==
    ASSUME NEW q \in Seq(Nat), q # <<>>
    PROVE  /\ Queued(q) = Worth(Head(q)) + Queued(Tail(q))
           /\ Queued(Tail(q)) \in Nat /\ Worth(Head(q)) \in Nat
<1> DEFINE L == Len(q)
           r == Tail(q)
<1>1. /\ L \in Nat \ {0} /\ r \in Seq(Nat) /\ Len(r) = L - 1
      /\ \A n \in 1..(L - 1) : r[n] = q[n + 1]
      /\ Head(q) = q[1] /\ Head(q) \in Nat
  BY HeadTailProperties
<1>2. Worth(Head(q)) \in Nat
  BY <1>1 DEF Worth, Begun
<1>3. PICK f : Sums(r, f)
  BY <1>1, SumsExist
<1>4. Queued(r) = f[L - 1] /\ Queued(r) \in Nat
  BY <1>1, <1>3, QueuedIs
<1> DEFINE w == Worth(Head(q))
           g == [n \in 0..L |-> IF n = 0 THEN 0 ELSE w + f[n - 1]]
<1> HIDE DEF L, r, w
<1>5. Sums(q, g)
  <2>1. /\ f \in [0..(L - 1) -> Nat] /\ f[0] = 0
        /\ \A n \in 1..(L - 1) : f[n] = f[n - 1] + Worth(r[n])
    BY <1>1, <1>3 DEF Sums
  <2>2. g \in [0..L -> Nat] /\ g[0] = 0
    <3>1. \A n \in 0..L : n = 0 \/ (n - 1 \in 0..(L - 1) /\ f[n - 1] \in Nat)
      BY <1>1, <2>1
    <3>2. \A n \in 0..L : n # 0 => w + f[n - 1] \in Nat
      BY <1>2, <3>1 DEF w
    <3> QED
      BY <1>1, <3>2
  <2>3. ASSUME NEW n \in 1..L
        PROVE  g[n] = g[n - 1] + Worth(q[n])
    <3>1. n \in 0..L /\ n - 1 \in 0..L /\ n - 1 \in 0..(L - 1) /\ n # 0
      BY <1>1
    <3>2. g[n] = w + f[n - 1]
      BY <3>1
    <3>3. CASE n = 1
      <4>1. g[n - 1] = 0 /\ f[n - 1] = 0 /\ q[n] = Head(q)
        BY <1>1, <2>1, <3>1, <3>3
      <4> QED
        BY <1>2, <3>2, <4>1 DEF w
    <3>4. CASE n # 1
      <4>1. n - 1 \in 1..(L - 1) /\ n - 1 # 0 /\ (n - 1) + 1 = n /\ (n - 1) - 1 \in 0..(L - 1)
        BY <1>1, <3>1, <3>4
      <4>2. g[n - 1] = w + f[(n - 1) - 1]
        BY <3>1, <4>1
      <4>3. f[n - 1] = f[(n - 1) - 1] + Worth(q[n])
        BY <1>1, <2>1, <4>1
      <4>4. f[(n - 1) - 1] \in Nat /\ f[n - 1] \in Nat /\ w \in Nat
        BY <1>2, <2>1, <3>1, <4>1 DEF w
      <4>5. Worth(q[n]) \in Nat
        <5>1. n \in 1..Len(q)
          BY DEF L
        <5> QED
          BY <5>1, SumsIterate
      <4> QED
        BY <3>2, <4>2, <4>3, <4>4, <4>5
    <3> QED
      BY <3>3, <3>4
  <2> QED
    BY <2>2, <2>3 DEF Sums, L
<1>6. Queued(q) = g[L]
  <2> HIDE DEF g
  <2> QED
    BY <1>5, QueuedIs DEF L
<1>7. g[L] = w + f[L - 1]
  BY <1>1
<1> QED
  BY <1>2, <1>4, <1>6, <1>7 DEF r, w

-----------------------------------------------------------------------------
(* The metrics                                                             *)

\* The message in hand is whole: told, batched or still to be added.
InHand == \A i : Busy /\ i = consumer.msg => Placed(i) = Whole(i)

BusyWith == DOMAIN tasks \cup {consumer.msg}
HandedOn == Tally(heard, BusyWith) + Tally(batch, BusyWith)

\* What the metrics were told: they count d events, or fewer if they missed some.
ToldTo(m) == m.counted + Queued(m.queue)
Agrees(m, d) == IF m.missed THEN ToldTo(m) <= d ELSE ToldTo(m) = d

MeterInv == setup.metrics /\ (Immediate \/ consumer.at # "done") => Agrees(meter, HandedOn)

\* A message to the metrics arrives, or is missed.
LEMMA AgreesMeasured ==
    ASSUME setup.metrics, NEW m \in Meters, NEW d \in Nat, Agrees(m, d), NEW w \in Nat
    PROVE  Agrees(Measured(m, w), d + Worth(w))
<1>1. m.queue \in Seq(Nat) /\ m.counted \in Nat /\ Worth(w) \in Nat
  BY DEF Meters, Worth, Begun
<1>2. Queued(m.queue) \in Nat /\ Queued(Append(m.queue, w)) = Queued(m.queue) + Worth(w)
  BY <1>1, QueuedAppend
<1>3. CASE Len(m.queue) < MeterBound
  <2>1. Measured(m, w) = [m EXCEPT !.queue = Append(m.queue, w)]
    BY <1>3 DEF Measured
  <2>2. /\ Measured(m, w).queue = Append(m.queue, w)
        /\ Measured(m, w).counted = m.counted /\ Measured(m, w).missed = m.missed
    BY <2>1 DEF Meters
  <2> QED
    BY <1>1, <1>2, <2>2 DEF Agrees, ToldTo
<1>4. CASE ~(Len(m.queue) < MeterBound)
  <2>1. Measured(m, w) = [m EXCEPT !.missed = TRUE]
    BY <1>4 DEF Measured
  <2>2. /\ Measured(m, w).queue = m.queue
        /\ Measured(m, w).counted = m.counted /\ Measured(m, w).missed = TRUE
    BY <2>1 DEF Meters
  <2> QED
    BY <1>1, <1>2, <2>2 DEF Agrees, ToldTo
<1> QED
  BY <1>3, <1>4

\* The update of a message stands for its events.
LEMMA AgreesUpdate ==
    ASSUME PromiseInv, setup.metrics, NEW m \in Meters, NEW d \in Nat, Agrees(m, d),
           NEW i \in 1..Len(feed)
    PROVE  Agrees(Update(m, i), d + Size(i))
<1>1. Size(i) \in Nat /\ Cardinality(Whole(i)) = Size(i)
  BY Facts
<1>2. CASE Direct(feed[i]) /\ Whole(i) = {}
  <2>1. Size(i) = 0
    BY <1>1, <1>2, FS_EmptySet
  <2> QED
    BY <1>2, <2>1 DEF Update
<1>3. CASE ~(Direct(feed[i]) /\ Whole(i) = {})
  <2>1. Update(m, i) = Measured(m, Size(i) + 1)
    BY <1>1, <1>3 DEF Update, Done
  <2>2. Size(i) + 1 \in Nat /\ Worth(Size(i) + 1) = Size(i)
    BY <1>1 DEF Worth, Begun
  <2> QED
    BY <2>1, <2>2, AgreesMeasured
<1> QED
  BY <1>2, <1>3

\* What is counted leaves the queue.
LEMMA AgreesCounted ==
    ASSUME meter \in Meters, NEW d \in Nat, Agrees(meter, d), Aggregate \/ WindowTick
    PROVE  Agrees(meter', d)
<1>1. meter.queue \in Seq(Nat) /\ meter.counted \in Nat
  BY DEF Meters
<1>2. CASE Aggregate
  <2>1. /\ meter.queue # <<>>
        /\ meter'.queue = Tail(meter.queue) /\ meter'.missed = meter.missed
        /\ meter'.counted = meter.counted + Worth(Head(meter.queue))
    BY <1>2 DEF Aggregate, Meters, Worth
  <2>2. /\ Queued(meter.queue) = Worth(Head(meter.queue)) + Queued(Tail(meter.queue))
        /\ Queued(Tail(meter.queue)) \in Nat /\ Worth(Head(meter.queue)) \in Nat
    BY <1>1, <2>1, QueuedTail
  <2> QED
    BY <1>1, <2>1, <2>2 DEF Agrees, ToldTo
<1>3. CASE WindowTick
  BY <1>3 DEF WindowTick, Agrees, ToldTo, Meters
<1> QED
  BY <1>2, <1>3

\* A message that was added to its end is told or in the batch, each event once.
LEMMA HandedAll ==
    ASSUME PromiseInv, HeardInv, OrderInv, InHand, ~Immediate, Busy, rest = <<>>
    PROVE  /\ Cardinality(OfMessage(heard, taken)) + Cardinality(OfMessage(batch, taken))
                = Size(taken)
           /\ taken \in 1..Len(feed) /\ consumer.msg = taken
<1>1. consumer.msg = taken /\ taken \in 1..Len(feed) /\ taken \in Nat
  BY HeadOfRest, Facts
<1>2. PICK d \in Nat : Size(taken) \in Nat /\ Current(taken, d) /\ d = Size(taken)
  BY HeadOfRest
<1>3. heard \in Seq(Nat \X Nat) /\ batch \in Seq(Nat \X Nat)
  BY Facts, BatchFacts
<1>4. /\ In(heard, taken) = ToldOf(taken) /\ In(batch, taken) = BatchedOf(taken)
      /\ HeldOf(taken) = {} /\ LeftOf(taken) = {}
  <2>1. tasks = <<>>
    BY DEF PromiseInv, TypeInv, StreamTypeOK
  <2> QED
    BY <2>1 DEF In, ToldOf, BatchedOf, HeldOf, LeftOf
<1>5. /\ IsFiniteSet(In(heard, taken))
      /\ Cardinality(In(heard, taken)) = Cardinality(OfMessage(heard, taken))
  <2>1. /\ \A m, n \in DOMAIN heard : m # n => heard[m] # heard[n]
        /\ \A n \in DOMAIN heard : heard[n][1] = taken => heard[n][2] \in Whole(taken)
    BY DEF HeardInv, Real, Apart
  <2> QED
    BY <1>3, <2>1, OfMessageIn
<1>6. /\ IsFiniteSet(In(batch, taken))
      /\ Cardinality(In(batch, taken)) = Cardinality(OfMessage(batch, taken))
  <2>1. ASSUME NEW m \in DOMAIN batch, NEW n \in DOMAIN batch, m # n
        PROVE  batch[m] # batch[n]
    <3>1. m < n \/ n < m
      BY <1>3, <2>1
    <3>2. Earlier(batch[m], batch[n]) \/ Earlier(batch[n], batch[m])
      BY <3>1 DEF OrderInv
    <3>3. batch[m][1] \in Nat /\ batch[m][2] \in Nat
      BY BatchFacts
    <3> QED
      BY <3>2, <3>3 DEF Earlier
  <2>2. \A n \in DOMAIN batch : batch[n][1] = taken => batch[n][2] \in Whole(taken)
    BY DEF PromiseInv, Batched, Whole, Size
  <2> QED
    BY <1>3, <2>1, <2>2, OfMessageIn
<1>7. Whole(taken) = 1..Size(taken) /\ Cardinality(Whole(taken)) = Size(taken)
  BY <1>1, Facts DEF Whole, Size
<1>8. CASE ~Direct(feed[taken])
  <2>1. In(heard, taken) \cap In(batch, taken) = {}
    <3> SUFFICES ASSUME NEW k \in In(heard, taken), k \in In(batch, taken) PROVE FALSE
      OBVIOUS
    <3>1. PICK m \in DOMAIN heard : heard[m] = <<taken, k>>
      BY DEF In
    <3>2. PICK n \in DOMAIN batch : batch[n] = <<taken, k>>
      BY DEF In
    <3>3. Earlier(heard[m], batch[n])
      BY <1>8, <3>1, <3>2 DEF OrderInv, Through
    <3>4. k \in Nat
      BY DEF In, Whole
    <3> QED
      BY <1>1, <3>1, <3>2, <3>3, <3>4 DEF Earlier
  <2>2. In(heard, taken) \cup In(batch, taken) = Whole(taken)
    BY <1>1, <1>4 DEF InHand, Placed
  <2> DEFINE S == In(heard, taken)
             T == In(batch, taken)
  <2>3. Cardinality(S \cup T) = Cardinality(S) + Cardinality(T) - Cardinality(S \cap T)
    <3> HIDE DEF S, T
    <3> QED
      BY <1>5, <1>6, FS_Union DEF S, T
  <2>4. /\ Cardinality(S) \in Nat /\ Cardinality(T) \in Nat /\ Cardinality(S \cap T) = 0
    BY <1>5, <1>6, <2>1, FS_CardinalityType, FS_EmptySet
  <2>5. Cardinality(S \cup T) = Size(taken)
    BY <1>7, <2>2
  <2>6. Cardinality(S) + Cardinality(T) = Size(taken)
    BY <2>3, <2>4, <2>5
  <2> QED
    BY <1>1, <1>5, <1>6, <2>6
<1>9. CASE Direct(feed[taken])
  <2>1. /\ ToldOf(taken) = Whole(taken)
        /\ batch # <<>> => batch[Len(batch)][1] < taken
    BY <1>2, <1>7, <1>9 DEF Current
  <2>2. \A n \in DOMAIN batch : batch[n][1] < taken
    BY <1>1, <2>1, BatchFacts DEF PromiseInv, Adding
  <2>3. OfMessage(batch, taken) = {}
    BY <1>1, <2>2 DEF OfMessage
  <2> QED
    BY <1>1, <1>2, <1>4, <1>5, <1>7, <2>1, <2>3, FS_EmptySet
<1> QED
  BY <1>1, <1>8, <1>9

\* The message in hand stays whole.
LEMMA InHandStep == PromiseInv /\ InHand /\ [Next]_vars => InHand'
<1> SUFFICES ASSUME PromiseInv, InHand, [Next]_vars, Busy', NEW i, i = consumer'.msg
             PROVE  Placed(i)' = Whole(i)'
  BY DEF InHand
<1>0. consumer \in [at : Places, msg : Nat]
  BY DEF PromiseInv, TypeInv, Kinds
<1>1. ASSUME UNCHANGED <<feed, rest, batch, tasks, heard>>, consumer.msg = i, Busy
      PROVE  Placed(i)' = Whole(i)'
  BY <1>1 DEF InHand, Placed, ToldOf, HeldOf, BatchedOf, LeftOf, Whole
<1>2. CASE \/ Read \/ Send \/ Full \/ SendFails \/ ReaderAborted \/ StreamEnds
           \/ Aggregate \/ WindowTick \/ Stop \/ UNCHANGED vars
  BY <1>1, <1>2 DEF Read, Send, Full, SendFails, ReaderAborted, StreamEnds, Aggregate,
     WindowTick, Stop, vars, work, Busy
<1>3. CASE Immediate
  <2>1. PromiseInv' /\ Immediate'
    BY <1>3, PromiseInvStep, Hearing DEF Immediate
  <2> QED
    BY <2>1 DEF PromiseInv, Arrivals, Busy
<1>4. CASE ~Immediate /\ (Receive \/ Spawn \/ \E t \in DOMAIN tasks : Task(t))
  <2>1. tasks = <<>> /\ Receive
    BY <1>4 DEF PromiseInv, TypeInv, StreamTypeOK, Holding, Spawn
  <2>2. UNCHANGED <<feed, tasks>> /\ rest' = Events(i)
    BY <1>4, <2>1 DEF Receive, Busy
  <2>3. DOMAIN rest' = Whole(i) /\ \A k \in Whole(i) : rest'[k] = <<i, k>>
    BY <2>2 DEF Events
  <2>4. Whole(i)' = Whole(i) /\ HeldOf(i)' = Whole(i)
    BY <2>2, <2>3 DEF HeldOf, Whole
  <2>5. ToldOf(i)' \subseteq Whole(i)' /\ BatchedOf(i)' \subseteq Whole(i)' /\ LeftOf(i)' = {}
    BY <2>1, <2>2 DEF ToldOf, BatchedOf, LeftOf
  <2> QED
    BY <2>4, <2>5 DEF Placed
<1>5. CASE ~Immediate /\ (Add \/ Flush)
  <2>1. feed' = feed /\ consumer.msg = i /\ Busy
    BY <1>0, <1>5 DEF Add, Flush, Busy
  <2>2. Placed(i)' = Placed(i)
    BY <1>5, PlacedKept
  <2> QED
    BY <2>1, <2>2 DEF InHand, Whole
<1>6. CASE Flushed \/ Added \/ Close \/ Closed \/ ConsumerAborted
  <2>1. Flushed
    BY <1>0, <1>6 DEF Flushed, Added, Close, Closed, ConsumerAborted, Busy
  <2> QED
    BY <1>0, <1>1, <2>1 DEF Flushed, Busy
<1> QED
  BY <1>2, <1>3, <1>4, <1>5, <1>6 DEF Next, Reader, Consumer, Metrics, Environment

\* What the tallies range over: events of messages that were taken up.
LEMMA TallyFacts ==
    ASSUME PromiseInv, HeardInv
    PROVE  /\ heard \in Seq(Nat \X Nat) /\ batch \in Seq(Nat \X Nat)
           /\ \A n \in DOMAIN heard : heard[n][1] \in Nat \ {0} /\ heard[n][1] <= taken
           /\ \A n \in DOMAIN batch : batch[n][1] \in Nat \ {0} /\ batch[n][1] <= taken
           /\ \A B : Tally(heard, B) \in Nat /\ Tally(batch, B) \in Nat
           /\ HandedOn \in Nat /\ meter \in Meters
           /\ Immediate => batch = <<>>
           /\ ~Immediate => tasks = <<>>
<1>1. heard \in Seq(Nat \X Nat) /\ batch \in Seq(Nat \X Nat)
  <2>1. CASE Immediate
    BY <2>1, Facts DEF PromiseInv, TypeInv, StreamTypeOK
  <2>2. CASE ~Immediate
    BY <2>2, Facts, BatchFacts
  <2> QED
    BY <2>1, <2>2
<1>2. \A n \in DOMAIN heard : heard[n][1] \in Nat \ {0} /\ heard[n][1] <= taken
  BY Facts DEF HeardInv, Real, PromiseInv, Arrivals
<1>3. \A n \in DOMAIN batch : batch[n][1] \in Nat \ {0} /\ batch[n][1] <= taken
  <2>1. CASE Immediate
    BY <2>1 DEF PromiseInv, TypeInv, StreamTypeOK
  <2>2. CASE ~Immediate
    BY <2>2, BatchFacts
  <2> QED
    BY <2>1, <2>2
<1>4. \A B : Tally(heard, B) \in Nat /\ Tally(batch, B) \in Nat
  BY <1>1, PlacesFinite
<1>5. HandedOn \in Nat
  BY <1>4 DEF HandedOn
<1> QED
  BY <1>1, <1>2, <1>3, <1>4, <1>5 DEF PromiseInv, TypeInv, Kinds, StreamTypeOK

\* Who is busy with what has not been taken up makes no difference.
LEMMA HandedOnKept ==
    ASSUME PromiseInv, HeardInv, heard' = heard, batch' = batch,
           \A i \in 1..taken : i \in BusyWith <=> i \in BusyWith'
    PROVE  HandedOn' = HandedOn
<1>1. /\ \A n \in DOMAIN heard : heard[n][1] \in BusyWith <=> heard[n][1] \in BusyWith'
      /\ \A n \in DOMAIN batch : batch[n][1] \in BusyWith <=> batch[n][1] \in BusyWith'
  <2>1. /\ \A n \in DOMAIN heard : heard[n][1] \in 1..taken
        /\ \A n \in DOMAIN batch : batch[n][1] \in 1..taken
    <3>1. taken \in Nat
      BY Facts
    <3>2. /\ \A n \in DOMAIN heard : heard[n][1] \in Nat \ {0} /\ heard[n][1] <= taken
          /\ \A n \in DOMAIN batch : batch[n][1] \in Nat \ {0} /\ batch[n][1] <= taken
      BY TallyFacts
    <3> QED
      BY <3>1, <3>2
  <2> QED
    BY <2>1
<1>2. Tally(heard, BusyWith) = Tally(heard, BusyWith') /\ Tally(batch, BusyWith) = Tally(batch, BusyWith')
  <2> DEFINE B == BusyWith
             C == BusyWith'
  <2>1. /\ \A n \in DOMAIN heard : heard[n][1] \in B <=> heard[n][1] \in C
        /\ \A n \in DOMAIN batch : batch[n][1] \in B <=> batch[n][1] \in C
    BY <1>1
  <2> HIDE DEF B, C
  <2>2. Tally(heard, B) = Tally(heard, C)
    BY <2>1, TallyAlike
  <2>3. Tally(batch, B) = Tally(batch, C)
    BY <2>1, TallyAlike
  <2> QED
    BY <2>2, <2>3 DEF B, C
<1>3. Tally(heard, BusyWith)' = Tally(heard, BusyWith') /\ Tally(batch, BusyWith)' = Tally(batch, BusyWith')
  BY DEF Tally, Outside
<1> QED
  BY <1>2, <1>3 DEF HandedOn

\* The events of a message that was parsed are counted when its task is done.
LEMMA MeterTasks ==
    ASSUME PromiseInv, HeardInv, AccountInv, MeterInv, Immediate, setup.metrics,
           NEW i \in DOMAIN tasks, Task(i)
    PROVE  Agrees(meter', HandedOn')
<1>1. /\ Agrees(meter, HandedOn) /\ i \in 1..taken /\ i \in 1..Len(feed)
      /\ batch = <<>> /\ meter \in Meters /\ HandedOn \in Nat
      /\ heard \in Seq(Nat \X Nat)
  BY HeadOfTask, TallyFacts, Facts DEF MeterInv
<1>2. consumer.msg # i
  <2>1. consumer.msg = NoMsg \/ consumer.msg > taken
    <3>1. consumer.at \in Places
      BY DEF PromiseInv, TypeInv, Kinds
    <3> QED
      BY <3>1 DEF PromiseInv, Arrivals, Places
  <2> QED
    BY <1>1, <2>1, Facts DEF NoMsg
<1>3. ASSUME DOMAIN tasks' = DOMAIN tasks \ {i}, UNCHANGED <<heard, batch, consumer, feed>>
      PROVE  HandedOn' = HandedOn + Cardinality(OfMessage(heard, i))
  <2> DEFINE B == BusyWith
             C == BusyWith'
  <2>1. i \notin C /\ \A j : j \in B <=> j \in C \/ j = i
    BY <1>2, <1>3 DEF BusyWith
  <2> HIDE DEF B, C
  <2>2. Tally(heard, C) = Tally(heard, B) + Cardinality(OfMessage(heard, i))
    <3>1. \A n \in DOMAIN heard : heard[n][1] \in B <=> heard[n][1] \in C \/ heard[n][1] = i
      BY <2>1
    <3> QED
      BY <1>1, <2>1, <3>1, TallyMore
  <2>3. Tally(batch, C) = Tally(batch, B)
    BY <1>1 DEF Tally, Outside
  <2>4. HandedOn' = Tally(heard, C) + Tally(batch, C)
    BY <1>3 DEF HandedOn, C, Tally, Outside
  <2>5. HandedOn = Tally(heard, B) + Tally(batch, B)
    BY DEF HandedOn, B
  <2>6. /\ Tally(heard, B) \in Nat /\ Tally(batch, B) \in Nat
        /\ Cardinality(OfMessage(heard, i)) \in Nat
    BY <1>1, TallyFacts, PlacesFinite
  <2> QED
    BY <2>2, <2>3, <2>4, <2>5, <2>6
<1>4. /\ IsFiniteSet(ToldOf(i)) /\ Cardinality(ToldOf(i)) = Cardinality(OfMessage(heard, i))
  <2>1. In(heard, i) = ToldOf(i)
    BY DEF In, ToldOf
  <2>2. /\ \A m, n \in DOMAIN heard : m # n => heard[m] # heard[n]
        /\ \A n \in DOMAIN heard : heard[n][1] = i => heard[n][2] \in Whole(i)
    BY DEF HeardInv, Real, Apart
  <2> QED
    BY <1>1, <2>1, <2>2, OfMessageIn
<1>5. CASE Parse(i)
  <2>1. /\ UNCHANGED <<heard, batch, consumer, feed>> /\ meter' = Measured(meter, Begun)
    BY <1>5 DEF Parse
  <2>2. Agrees(meter', HandedOn)
    <3>1. Begun \in Nat /\ Worth(Begun) = 0
      BY DEF Begun, Worth
    <3>2. Agrees(Measured(meter, Begun), HandedOn + Worth(Begun))
      BY <1>1, <3>1, AgreesMeasured
    <3> QED
      BY <1>1, <2>1, <3>1, <3>2
  <2>3. HandedOn' = HandedOn
    <3>1. CASE Panics(i)
      <4>1. DOMAIN tasks' = DOMAIN tasks \ {i}
        BY <1>5, <3>1 DEF Parse, Ended
      <4>2. ToldOf(i) = {}
        BY <1>5 DEF Parse, AccountInv, Unparsed
      <4>3. Cardinality(OfMessage(heard, i)) = 0
        BY <1>4, <4>2, FS_EmptySet
      <4> QED
        BY <1>1, <1>3, <2>1, <4>1, <4>3
    <3>2. CASE ~Panics(i)
      <4>1. UNCHANGED <<heard, batch, tasks, consumer>>
        BY <1>5, <2>1, <3>2 DEF Parse
      <4> QED
        BY <4>1 DEF HandedOn, BusyWith, Tally, Outside
    <3> QED
      BY <3>1, <3>2
  <2> QED
    BY <2>2, <2>3
<1>6. CASE Tell(i)
  <2>1. /\ tasks[i] # <<>> /\ heard' = Append(heard, Head(tasks[i])) /\ DOMAIN tasks' = DOMAIN tasks
        /\ UNCHANGED <<batch, consumer, meter>>
    BY <1>6 DEF Tell
  <2>2. PICK e \in Nat \X Nat : e = Head(tasks[i]) /\ e[1] = i
    <3>1. PICK d \in Nat : Head(tasks[i]) = <<i, d + 1>>
      BY <2>1, HeadOfTask
    <3>2. i \in Nat /\ <<i, d + 1>> \in Nat \X Nat
      BY HeadOfTask
    <3> QED
      BY <3>1, <3>2
  <2>3. BusyWith' = BusyWith /\ e[1] \in BusyWith
    BY <2>1, <2>2 DEF BusyWith
  <2>4. Tally(Append(heard, e), BusyWith) = Tally(heard, BusyWith)
    <3> DEFINE B == BusyWith
    <3>1. e[1] \in B
      BY <2>3
    <3> HIDE DEF B
    <3>2. Tally(heard, B) \in Nat
      BY TallyFacts
    <3>3. Tally(Append(heard, e), B) = Tally(heard, B) + IF e[1] \in B THEN 0 ELSE 1
      BY <1>1, TallyAppend
    <3>4. Tally(Append(heard, e), B) = Tally(heard, B)
      BY <3>1, <3>2, <3>3
    <3> QED
      BY <3>4 DEF B
  <2>5. HandedOn' = HandedOn
    BY <2>1, <2>2, <2>3, <2>4 DEF HandedOn, Tally, Outside
  <2> QED
    BY <1>1, <2>1, <2>5
<1>7. CASE Finish(i)
  <2>1. /\ UNCHANGED <<heard, batch, consumer, feed>> /\ meter' = Update(meter, i)
        /\ DOMAIN tasks' = DOMAIN tasks \ {i} /\ tasks[i] = <<>>
    BY <1>7 DEF Finish, Ended
  <2>2. ToldOf(i) = 1..Size(i) /\ Size(i) \in Nat
    BY <2>1, HeadOfTask DEF Holds
  <2>3. Cardinality(OfMessage(heard, i)) = Size(i)
    BY <1>4, <2>2, FirstN
  <2>4. HandedOn' = HandedOn + Size(i)
    BY <1>3, <2>1, <2>3
  <2> QED
    BY <1>1, <2>1, <2>4, AgreesUpdate
<1> QED
  BY <1>5, <1>6, <1>7 DEF Task

\* An event that goes to the batch, or from there to the callback, is no less handed on.
LEMMA MeterBatch ==
    ASSUME PromiseInv, HeardInv, ~Immediate, Add \/ Flush
    PROVE  HandedOn' = HandedOn
<1>1. /\ heard \in Seq(Nat \X Nat) /\ batch \in Seq(Nat \X Nat)
      /\ \A B : Tally(heard, B) \in Nat /\ Tally(batch, B) \in Nat
      /\ consumer \in [at : Places, msg : Nat]
  BY TallyFacts DEF PromiseInv, TypeInv, Kinds
<1> DEFINE B == BusyWith
<1>2. BusyWith' = B
  BY <1>1 DEF Add, Flush, BusyWith
<1>3. consumer.msg \in B
  BY DEF BusyWith
<1> HIDE DEF B
<1>4. /\ HandedOn = Tally(heard, B) + Tally(batch, B)
      /\ HandedOn' = Tally(heard', B) + Tally(batch', B)
  BY <1>2 DEF HandedOn, B, Tally, Outside
<1>5. \A q \in Seq(Nat \X Nat), e \in Nat \X Nat :
         Tally(Append(q, e), B) = Tally(q, B) + IF e[1] \in B THEN 0 ELSE 1
  BY TallyAppend
<1>6. CASE Add
  <2>1. PICK t \in Nat : t = taken /\ consumer.msg = t
    BY <1>6, AddFacts, BatchFacts
  <2>2. PICK d \in Nat : Head(rest) = <<t, d + 1>>
    BY <1>6, <2>1, AddFacts
  <2>3. PICK e \in Nat \X Nat : e = Head(rest) /\ e[1] = t
    BY <2>2
  <2>4. Tally(Append(heard, e), B) = Tally(heard, B) /\ Tally(Append(batch, e), B) = Tally(batch, B)
    <3>1. e[1] \in B
      BY <1>3, <2>1, <2>3
    <3> QED
      BY <1>1, <1>5, <3>1
  <2>5. \/ heard' = Append(heard, e) /\ batch' = batch
        \/ heard' = heard /\ batch' = Append(batch, e)
    BY <1>6, <2>3 DEF Add
  <2> QED
    BY <1>4, <2>4, <2>5
<1>7. CASE Flush
  <2>1. batch # <<>> /\ heard' = Append(heard, Head(batch)) /\ batch' = Tail(batch)
    BY <1>7 DEF Flush
  <2>2. PICK e \in Nat \X Nat : e = Head(batch)
    BY <1>1, <2>1, HeadTailProperties
  <2>3. Tally(Append(heard, e), B) = Tally(heard, B) + IF e[1] \in B THEN 0 ELSE 1
    BY <1>1, <1>5
  <2>4. /\ Tally(batch, B) = Tally(Tail(batch), B) + IF Head(batch)[1] \in B THEN 0 ELSE 1
        /\ Tail(batch) \in Seq(Nat \X Nat)
    BY <1>1, <2>1, TallyTail, HeadTailProperties
  <2>5. Tally(Tail(batch), B) \in Nat
    BY <2>4, PlacesFinite
  <2> DEFINE w == IF e[1] \in B THEN 0 ELSE 1
  <2>6. /\ Tally(heard', B) = Tally(heard, B) + w
        /\ Tally(batch, B) = Tally(batch', B) + w
        /\ w \in Nat /\ Tally(batch', B) \in Nat
    BY <2>1, <2>2, <2>3, <2>4, <2>5
  <2> HIDE DEF w
  <2>7. Tally(heard, B) \in Nat
    BY <1>1
  <2> QED
    BY <1>4, <2>6, <2>7
<1> QED
  BY <1>6, <1>7

\* The metrics count what is handed on, whatever step is taken.
LEMMA MeterStep ==
    /\ PromiseInv /\ HeardInv /\ AccountInv /\ InHand /\ (~Immediate => OrderInv)
    /\ MeterInv /\ [Next]_vars
    => MeterInv'
<1> SUFFICES ASSUME PromiseInv, HeardInv, AccountInv, InHand, ~Immediate => OrderInv,
                    MeterInv, [Next]_vars,
                    setup'.metrics, Immediate' \/ consumer'.at # "done"
             PROVE  Agrees(meter', HandedOn')
  BY DEF MeterInv, Agrees, ToldTo
<1>0. /\ setup' = setup /\ feed' = feed /\ (Immediate' <=> Immediate) /\ setup.metrics
      /\ HandedOn \in Nat /\ meter \in Meters /\ taken \in Nat
      /\ consumer \in [at : Places, msg : Nat]
      /\ Immediate => batch = <<>> /\ ~Busy
      /\ ~Immediate => tasks = <<>> /\ consumer.at # "acquiring"
  BY Hearing, TallyFacts, Facts DEF Immediate, PromiseInv, TypeInv, Kinds, Arrivals, Busy, Holding
<1>1. consumer.at # "done" => Agrees(meter, HandedOn)
  BY <1>0 DEF MeterInv
<1>2. Immediate => Agrees(meter, HandedOn)
  BY <1>0 DEF MeterInv
<1>3. CASE \/ Read \/ Send \/ Full \/ SendFails \/ ReaderAborted \/ StreamEnds
           \/ Aggregate \/ WindowTick \/ Stop \/ UNCHANGED vars
  <2>1. /\ UNCHANGED <<heard, batch, consumer, tasks>>
        /\ UNCHANGED meter \/ Aggregate \/ WindowTick
    BY <1>3 DEF Read, Send, Full, SendFails, ReaderAborted, StreamEnds, Aggregate,
       WindowTick, Stop, vars, work
  <2>2. HandedOn' = HandedOn
    BY <2>1 DEF HandedOn, BusyWith, Tally, Outside
  <2>3. Agrees(meter, HandedOn)
    BY <1>0, <1>1, <1>2, <2>1
  <2>4. CASE UNCHANGED meter
    BY <2>2, <2>3, <2>4
  <2>5. CASE Aggregate \/ WindowTick
    BY <1>0, <2>2, <2>3, <2>5, AgreesCounted
  <2> QED
    BY <2>1, <2>4, <2>5
<1>4. CASE Immediate /\ (Receive \/ Spawn \/ Close \/ ConsumerAborted)
  <2>1. /\ meter' = meter /\ heard' = heard /\ batch' = batch
        /\ consumer.msg = NoMsg \/ consumer.msg > taken
        /\ consumer'.msg = NoMsg \/ consumer'.msg > taken
        /\ tasks' = tasks \/ DOMAIN tasks' = DOMAIN tasks \cup {consumer.msg}
    <3>1. consumer.msg = NoMsg \/ consumer.msg > taken
      BY <1>0, <1>4 DEF PromiseInv, Arrivals, Places, Busy
    <3>2. CASE Receive
      <4>1. /\ consumer' = [at |-> "acquiring", msg |-> Head(channel)]
            /\ UNCHANGED <<meter, heard, batch, tasks>>
        BY <1>4, <3>2 DEF Receive
      <4>2. 1 \in DOMAIN channel /\ Head(channel) = channel[1]
        BY <3>2, Facts DEF Receive
      <4>3. Head(channel) > taken
        BY <4>2 DEF PromiseInv, Arrivals
      <4> QED
        BY <3>1, <4>1, <4>3
    <3>3. CASE Spawn \/ Close \/ ConsumerAborted
      BY <1>0, <1>4, <3>1, <3>3 DEF Spawn, Close, ConsumerAborted
    <3> QED
      BY <1>4, <3>2, <3>3
  <2>2. \A i \in 1..taken : i \in BusyWith <=> i \in BusyWith'
    <3> SUFFICES ASSUME NEW i \in 1..taken
                 PROVE  i \in BusyWith <=> i \in BusyWith'
      OBVIOUS
    <3>1. i # consumer.msg /\ i # consumer'.msg
      BY <1>0, <2>1 DEF NoMsg
    <3> QED
      BY <2>1, <3>1 DEF BusyWith
  <2>3. HandedOn' = HandedOn
    BY <2>1, <2>2, HandedOnKept
  <2> QED
    BY <1>2, <1>4, <2>1, <2>3
<1>5. ASSUME NEW i \in DOMAIN tasks, Task(i) PROVE Agrees(meter', HandedOn')
  <2>1. Immediate
    BY <1>0
  <2> QED
    BY <1>0, <1>5, <2>1, MeterTasks
<1>6. CASE ~Immediate /\ Receive
  <2>1. /\ consumer.at = "waiting" /\ meter' = Measured(meter, Begun)
        /\ consumer' = [at |-> "adding", msg |-> Head(channel)]
        /\ UNCHANGED <<heard, batch, tasks>>
    BY <1>0, <1>6 DEF Receive
  <2>2. consumer.msg = NoMsg /\ consumer'.msg > taken
    <3>1. 1 \in DOMAIN channel /\ Head(channel) = channel[1]
      BY <1>6, Facts DEF Receive
    <3> QED
      BY <2>1, <3>1 DEF PromiseInv, Arrivals
  <2>3. \A i \in 1..taken : i \in BusyWith <=> i \in BusyWith'
    BY <1>0, <2>1, <2>2 DEF BusyWith, NoMsg
  <2>4. HandedOn' = HandedOn
    BY <2>1, <2>3, HandedOnKept
  <2>5. Begun \in Nat /\ Worth(Begun) = 0
    BY DEF Begun, Worth
  <2>6. Agrees(Measured(meter, Begun), HandedOn + Worth(Begun))
    BY <1>0, <1>1, <2>1, <2>5, AgreesMeasured
  <2> QED
    BY <1>0, <2>1, <2>4, <2>5, <2>6
<1>7. CASE ~Immediate /\ (Add \/ Flush)
  <2>1. meter' = meter /\ consumer.at # "done"
    BY <1>7 DEF Add, Flush
  <2>2. HandedOn' = HandedOn
    BY <1>7, MeterBatch
  <2> QED
    BY <1>1, <2>1, <2>2
<1>8. CASE ~Immediate /\ Added
  <2>1. /\ consumer.at = "adding" /\ rest = <<>> /\ consumer' = [at |-> "waiting", msg |-> NoMsg]
        /\ meter' = Update(meter, consumer.msg) /\ UNCHANGED <<heard, batch, tasks>>
    BY <1>8 DEF Added
  <2>2. /\ Cardinality(OfMessage(heard, taken)) + Cardinality(OfMessage(batch, taken)) = Size(taken)
        /\ taken \in 1..Len(feed) /\ consumer.msg = taken
    BY <1>8, <2>1, HandedAll DEF Busy
  <2> DEFINE B == {taken}
             C == {NoMsg}
  <2>3. /\ HandedOn = Tally(heard, B) + Tally(batch, B)
        /\ HandedOn' = Tally(heard, C) + Tally(batch, C)
    <3>1. BusyWith = B /\ BusyWith' = C
      BY <1>0, <1>8, <2>1, <2>2 DEF BusyWith
    <3> QED
      BY <2>1, <3>1 DEF HandedOn, Tally, Outside
  <2>4. /\ taken \notin C
        /\ \A n \in DOMAIN heard : heard[n][1] \in B <=> heard[n][1] \in C \/ heard[n][1] = taken
        /\ \A n \in DOMAIN batch : batch[n][1] \in B <=> batch[n][1] \in C \/ batch[n][1] = taken
    <3>1. /\ taken # NoMsg
          /\ \A n \in DOMAIN heard : heard[n][1] # NoMsg
          /\ \A n \in DOMAIN batch : batch[n][1] # NoMsg
      BY <2>2, TallyFacts DEF NoMsg
    <3> QED
      BY <3>1
  <2> HIDE DEF B, C
  <2>5. heard \in Seq(Nat \X Nat) /\ batch \in Seq(Nat \X Nat)
    BY TallyFacts
  <2>6. Tally(heard, C) = Tally(heard, B) + Cardinality(OfMessage(heard, taken))
    BY <2>4, <2>5, TallyMore
  <2>7. Tally(batch, C) = Tally(batch, B) + Cardinality(OfMessage(batch, taken))
    BY <2>4, <2>5, TallyMore
  <2>8. /\ Tally(heard, B) \in Nat /\ Tally(batch, B) \in Nat
        /\ Cardinality(OfMessage(heard, taken)) \in Nat
        /\ Cardinality(OfMessage(batch, taken)) \in Nat
    BY <2>5, PlacesFinite
  <2>9. HandedOn' = HandedOn + Size(taken)
    BY <2>2, <2>3, <2>6, <2>7, <2>8
  <2> QED
    BY <1>0, <1>1, <2>1, <2>2, <2>9, AgreesUpdate
<1>9. CASE ~Immediate /\ (Flushed \/ Close \/ Closed \/ ConsumerAborted)
  <2>1. /\ consumer.at # "done" /\ consumer'.msg = consumer.msg
        /\ UNCHANGED <<heard, batch, tasks, meter>>
    BY <1>0, <1>9 DEF Flushed, Close, Closed, ConsumerAborted, PromiseInv, Arrivals
  <2>2. HandedOn' = HandedOn
    BY <2>1 DEF HandedOn, BusyWith, Tally, Outside
  <2> QED
    BY <1>1, <2>1, <2>2
<1>10. CASE Immediate /\ (Add \/ Flush \/ Flushed \/ Added \/ Closed)
  BY <1>0, <1>10 DEF Add, Flush, Flushed, Added, Closed, Busy, AccountInv, Endings
<1>11. CASE ~Immediate /\ Spawn
  BY <1>0, <1>11 DEF Spawn
<1> QED
  BY <1>3, <1>4, <1>5, <1>6, <1>7, <1>8, <1>9, <1>10, <1>11
     DEF Next, Reader, Consumer, Metrics, Environment

\* At first nothing was handed on and nothing counted.
LEMMA MeterInit == Init => MeterInv /\ InHand
<1> SUFFICES ASSUME Init PROVE MeterInv /\ InHand
  OBVIOUS
<1>1. Tally(heard, BusyWith) = 0 /\ Tally(batch, BusyWith) = 0
  <2>1. Outside(heard, BusyWith) = {} /\ Outside(batch, BusyWith) = {}
    BY DEF Init, Outside
  <2> QED
    BY <2>1, FS_EmptySet DEF Tally
<1>2. Queued(<<>>) = 0
  <2>1. <<>> \in Seq(Nat) /\ 0 \in Nat
    OBVIOUS
  <2> QED
    BY <2>1, QueuedAppend
<1>3. Agrees(meter, HandedOn)
  BY <1>1, <1>2 DEF Init, Agrees, ToldTo, HandedOn
<1> QED
  BY <1>3 DEF MeterInv, InHand, Init, Busy

-----------------------------------------------------------------------------
(* The theorems                                                            *)

\* Who holds what, what was told, in which order, the fates, and the count.
StreamInv ==
    /\ PromiseInv /\ HeardInv /\ AccountInv /\ (~Immediate => OrderInv)
    /\ InHand /\ MeterInv

\* All of it holds at first, and every step keeps it.
LEMMA StreamInvariant == Spec => []StreamInv
<1>1. Init => StreamInv
  BY PromiseInvInit, AccountInit, MeterInit DEF StreamInv
<1>2. StreamInv /\ [Next]_vars => StreamInv'
  <2> SUFFICES ASSUME StreamInv, [Next]_vars PROVE StreamInv'
    OBVIOUS
  <2>1. PromiseInv' /\ HeardInv' /\ AccountInv' /\ InHand' /\ MeterInv'
    BY PromiseInvStep, HeardStep, AccountStep, InHandStep, MeterStep DEF StreamInv
  <2>2. Immediate' <=> Immediate
    BY Hearing DEF StreamInv, Immediate
  <2>3. ~Immediate => OrderInv'
    BY OrderStep DEF StreamInv
  <2> QED
    BY <2>1, <2>2, <2>3 DEF StreamInv
<1> QED
  BY <1>1, <1>2, PTL DEF Spec

\* Every message that the reader has taken is told in full or on its way, once,
\* or gone for a reason (streamhandler.rs, yellowstone.rs).
THEOREM AccountedHolds == Spec => []Accounted
<1>1. StreamInv => Accounted
  <2> SUFFICES ASSUME PromiseInv, HeardInv, AccountInv PROVE Accounted
    BY DEF StreamInv
  <2>1. /\ setup.strategy = "Block" => dropped = {}
        /\ \A m, n \in DOMAIN heard : m # n => heard[m] # heard[n]
    BY DEF AccountInv, NoneDropped, HeardInv, Apart
  <2>2. \A i \in Waits : ToldOf(i) = {}
    BY WaitsAhead
  <2>3. ASSUME ~Over, consumer.at = "done", NEW i PROVE HeldOf(i) \cup BatchedOf(i) = {}
    <3>1. rest = <<>> /\ batch = <<>>
      BY <2>3 DEF AccountInv, Endings, Busy
    <3> QED
      BY <3>1 DEF HeldOf, BatchedOf
  <2>4. ASSUME NEW i \in 1..pos
        PROVE  \/ i \in Waits /\ consumer.at # "done" /\ ToldOf(i) = {}
               \/ Gone(i) /\ ToldOf(i) = {}
               \/ Over
               \/ /\ ToldOf(i) \cup HeldOf(i) \cup BatchedOf(i) \cup LeftOf(i) = Whole(i)
                  /\ consumer.at = "done" => HeldOf(i) \cup BatchedOf(i) = {}
    <3>1. Fate(i)
      BY DEF AccountInv
    <3> QED
      BY <2>2, <2>3, <3>1 DEF Fate, Placed
  <2> QED
    BY <2>1, <2>4 DEF Accounted, Waits, Gone, Over
<1> QED
  BY <1>1, StreamInvariant, PTL

\* The one consumer tells what goes through the batch in the order of the stream
\* (yellowstone.rs:243, batch.rs).
THEOREM BatchOrderHolds == Spec => []BatchOrder
<1>1. StreamInv => BatchOrder
  <2> SUFFICES ASSUME ~Immediate, OrderInv PROVE BatchOrder
    BY DEF StreamInv, BatchOrder
  <2> DEFINE through == {n \in DOMAIN heard : ~Direct(feed[heard[n][1]])}
  <2>1. \A n \in through : Through(n)
    BY DEF Through
  <2>2. /\ \A m, n \in through : m < n => Earlier(heard[m], heard[n])
        /\ \A m \in through, n \in DOMAIN batch : Earlier(heard[m], batch[n])
        /\ \A m, n \in DOMAIN batch : m < n => Earlier(batch[m], batch[n])
    BY <2>1 DEF OrderInv
  <2> QED
    BY <2>2 DEF BatchOrder, Earlier
<1> QED
  BY <1>1, StreamInvariant, PTL

\* The metrics count each event that is handed on and none that is not, short of
\* what they miss when their own channel is full (metrics.rs:388-440).
THEOREM MeterTrueHolds == Spec => []MeterTrue
<1>1. StreamInv => MeterTrue
  <2> SUFFICES ASSUME MeterInv, setup.metrics, Immediate \/ consumer.at # "done"
               PROVE  IF meter.missed THEN ToldTo(meter) <= HandedOn
                                      ELSE ToldTo(meter) = HandedOn
    BY DEF StreamInv, MeterTrue, ToldTo, HandedOn, Tally, Outside, BusyWith
  <2> QED
    BY DEF MeterInv, Agrees
<1> QED
  BY <1>1, StreamInvariant, PTL

=============================================================================
