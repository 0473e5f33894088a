--------------------------- MODULE StreamPipeline ---------------------------
(***************************************************************************)
(* A Yellowstone subscription from the stream to the callback: the reader  *)
(* and its back pressure (StreamHandler), the bounded channel, and behind  *)
(* it either a dispatcher with a task for each message                     *)
(* (subscribe_events_immediate) or one consumer that collects events in    *)
(* batches (subscribe_events_advanced, EventBatchProcessor); beside them   *)
(* the metrics. Messages are numbered as they come.                        *)
(*                                                                         *)
(* What a message holds is left to the constants: EventsOf the events that *)
(* are made of it, Fatal if parsing it panics, Malformed if converting it  *)
(* does, Silent if it is only for the connection, Direct if its event      *)
(* passes the batch by. A scenario is a configuration of the client and a  *)
(* stream.                                                                 *)
(***************************************************************************)
EXTENDS Naturals, Sequences, FiniteSets

CONSTANTS
    Scenarios,      \* records [setup, feed]
    Channel,        \* backpressure.channel_size
    Workers,        \* processor_concurrency
    MeterBound,     \* METRICSCHANNELBOUND
    EventsOf(_), Fatal(_), Malformed(_), Silent(_), Direct(_)

ASSUME SizesAssumption == Channel \in Nat \ {0} /\ Workers \in Nat \ {0} /\ MeterBound \in Nat

\* The server sends finitely many events in a message, and the presets are in Nat.
ASSUME ScenariosAssumption ==
    \A s \in Scenarios :
        /\ s.setup.strategy \in {"Block", "Drop", "Retry"}
        /\ s.setup.attempts \in Nat /\ s.setup.size \in Nat
        /\ Len(s.feed) \in Nat /\ DOMAIN s.feed = 1..Len(s.feed)
        /\ \A i \in DOMAIN s.feed : Len(EventsOf(s.feed[i])) \in Nat

VARIABLES
    setup,          \* [strategy, attempts, mode, size, metrics]
    feed,           \* the messages of the stream
    pos,            \* how many of them the reader has taken
    reader,         \* "reading", "sending" the last one taken, or "done"
    tries,          \* attempts to send it
    channel,
    consumer,       \* [at, msg]: see Receive
    rest,           \* batch: the events of msg that are still to be added
    batch,          \* EventBatchProcessor.batch
    tasks,          \* immediate: the events each running task still has to tell
    parsed,         \* immediate: the running tasks that have parsed their message
    stopping,       \* SubscriptionHandle::stop was called
    heard,          \* what the callback got
    taken,          \* history: the last message a task or the batch consumer took up
    dropped,        \* history: messages given up on a full channel
    meter           \* [queue, started, counted, window]; missed is history

pipe == <<pos, reader, tries, channel>>
work == <<consumer, rest, batch, tasks, parsed, taken>>
vars == <<setup, feed, pipe, work, stopping, heard, dropped, meter>>

Immediate == setup.mode = "immediate"
NoMsg == 0

Whole(i) == 1..Len(EventsOf(feed[i]))
Events(i) == [k \in Whole(i) |-> <<i, k>>]
Panics(i) == Fatal(feed[i])

Init ==
    /\ \E s \in Scenarios : setup = s.setup /\ feed = s.feed
    /\ pos = 0 /\ reader = "reading" /\ tries = 0 /\ channel = <<>>
    /\ consumer = [at |-> "waiting", msg |-> NoMsg]
    /\ rest = <<>> /\ batch = <<>> /\ tasks = <<>> /\ parsed = {} /\ taken = NoMsg
    /\ stopping = FALSE /\ heard = <<>> /\ dropped = {}
    /\ meter = [queue |-> <<>>, started |-> 0, counted |-> 0, window |-> 0, missed |-> FALSE]

-----------------------------------------------------------------------------
(* The reader *)

\* Pings are answered at once; the answer may fail, and ends the reader.
Read ==
    /\ reader = "reading" /\ pos < Len(feed)
    /\ pos' = pos + 1
    /\ tries' = 0
    /\ IF Silent(feed[pos + 1]) THEN reader' \in {"reading", "done"}
       ELSE IF Malformed(feed[pos + 1]) THEN reader' = "done"
       ELSE reader' = "sending"
    /\ UNCHANGED <<setup, feed, channel, work, stopping, heard, dropped, meter>>

\* handle_backpressure, whatever the strategy: there is room.
Send ==
    /\ reader = "sending" /\ consumer.at # "done"
    /\ Len(channel) < Channel
    /\ channel' = Append(channel, pos)
    /\ reader' = "reading"
    /\ UNCHANGED <<setup, feed, pos, tries, work, stopping, heard, dropped, meter>>

\* There is none: Block waits, Drop gives up, Retry counts its attempts.
Full ==
    /\ reader = "sending" /\ consumer.at # "done"
    /\ Len(channel) = Channel
    /\ setup.strategy # "Block"
    /\ IF setup.strategy = "Retry" /\ tries + 1 < setup.attempts
       THEN tries' = tries + 1 /\ UNCHANGED <<reader, dropped>>
       ELSE dropped' = dropped \cup {pos} /\ reader' = "reading" /\ UNCHANGED tries
    /\ UNCHANGED <<setup, feed, pos, channel, work, stopping, heard, meter>>

\* Mutant: a blocked send does not notice.
SendFailsUnlessBlocked ==
    /\ reader = "sending" /\ consumer.at = "done" /\ setup.strategy # "Block"
    /\ reader' = "done"
    /\ UNCHANGED <<setup, feed, pos, tries, channel, work, stopping, heard, dropped, meter>>

\* The receiver is gone.
SendFails ==
    /\ reader = "sending" /\ consumer.at = "done"
    /\ reader' = "done"
    /\ UNCHANGED <<setup, feed, pos, tries, channel, work, stopping, heard, dropped, meter>>

\* The stream ends or breaks; nothing opens it again.
StreamEnds ==
    /\ reader = "reading"
    /\ reader' = "done"
    /\ UNCHANGED <<setup, feed, pos, tries, channel, work, stopping, heard, dropped, meter>>

-----------------------------------------------------------------------------
(* Metrics *)

\* Mutant: nothing bounds the queue.
MeasuredUnbounded(m, what) ==
    IF ~setup.metrics THEN m ELSE [m EXCEPT !.queue = Append(@, what)]

\* try_send: what finds the channel full is not counted.
Measured(m, what) ==
    IF ~setup.metrics THEN m
    ELSE IF Len(m.queue) < MeterBound THEN [m EXCEPT !.queue = Append(@, what)]
    ELSE [m EXCEPT !.missed = TRUE]

Begun == 0                      \* MetricsMsg::IncProcess
Done(n) == n + 1                \* MetricsMsg::Update of n events

Aggregate ==
    /\ meter.queue # <<>>
    /\ LET what == Head(meter.queue)
           n == IF what = Begun THEN 0 ELSE what - 1
       IN meter' = [meter EXCEPT !.queue = Tail(@),
                                 !.started = IF what = Begun THEN @ + 1 ELSE @,
                                 !.counted = @ + n, !.window = @ + n]
    /\ UNCHANGED <<setup, feed, pipe, work, stopping, heard, dropped>>

\* The window is a second old, and starts anew.
WindowTick ==
    /\ meter.window > 0
    /\ meter' = [meter EXCEPT !.window = 0]
    /\ UNCHANGED <<setup, feed, pipe, work, stopping, heard, dropped>>

-----------------------------------------------------------------------------
(* The dispatcher and its tasks *)

\* Mutant: a message counts for one event.
UpdateOne(m, msg) ==
    IF Direct(feed[msg]) /\ Whole(msg) = {} THEN m ELSE Measured(m, Done(1))

\* An account that gives no event leaves out the update.
Update(m, msg) ==
    IF Direct(feed[msg]) /\ Whole(msg) = {} THEN m
    ELSE Measured(m, Done(Cardinality(Whole(msg))))

\* rx.recv(): the dispatcher then waits for a permit ("acquiring"), the batch
\* consumer parses; a panic there ends it, with what its batch holds.
Receive ==
    /\ consumer.at = "waiting" /\ channel # <<>>
    /\ channel' = Tail(channel)
    /\ LET msg == Head(channel)
       IN IF Immediate
          THEN consumer' = [at |-> "acquiring", msg |-> msg] /\ UNCHANGED <<rest, batch, taken, meter>>
          ELSE /\ meter' = Measured(meter, Begun)
               /\ IF Panics(msg)
                  THEN /\ consumer' = [at |-> "done", msg |-> NoMsg]
                       /\ batch' = <<>> /\ UNCHANGED <<rest, taken>>
                  ELSE /\ consumer' = [at |-> "adding", msg |-> msg]
                       /\ rest' = Events(msg) /\ taken' = msg /\ UNCHANGED batch
    /\ UNCHANGED <<setup, feed, pos, reader, tries, tasks, parsed, stopping, heard, dropped>>

\* Mutant: a task is started without a permit.
SpawnFreely ==
    /\ consumer.at = "acquiring"
    /\ tasks' = [i \in DOMAIN tasks \cup {consumer.msg} |->
                    IF i = consumer.msg THEN Events(i) ELSE tasks[i]]
    /\ taken' = consumer.msg
    /\ consumer' = [at |-> "waiting", msg |-> NoMsg]
    /\ UNCHANGED <<setup, feed, pipe, rest, batch, parsed, stopping, heard, dropped, meter>>

Spawn ==
    /\ consumer.at = "acquiring"
    /\ Cardinality(DOMAIN tasks) < Workers
    /\ tasks' = [i \in DOMAIN tasks \cup {consumer.msg} |->
                    IF i = consumer.msg THEN Events(i) ELSE tasks[i]]
    /\ taken' = consumer.msg
    /\ consumer' = [at |-> "waiting", msg |-> NoMsg]
    /\ UNCHANGED <<setup, feed, pipe, rest, batch, parsed, stopping, heard, dropped, meter>>

Ended(i) == tasks' = [j \in DOMAIN tasks \ {i} |-> tasks[j]]

\* A panic gives the permit back.
Parse(i) ==
    /\ i \in DOMAIN tasks \ parsed
    /\ meter' = Measured(meter, Begun)
    /\ IF Panics(i) THEN Ended(i) /\ UNCHANGED parsed
       ELSE parsed' = parsed \cup {i} /\ UNCHANGED tasks
    /\ UNCHANGED <<setup, feed, pipe, consumer, rest, batch, taken, stopping, heard, dropped>>

Tell(i) ==
    /\ i \in parsed /\ tasks[i] # <<>>
    /\ heard' = Append(heard, Head(tasks[i]))
    /\ tasks' = [tasks EXCEPT ![i] = Tail(@)]
    /\ UNCHANGED <<setup, feed, pipe, consumer, rest, batch, parsed, taken, stopping, dropped, meter>>

Finish(i) ==
    /\ i \in parsed /\ tasks[i] = <<>>
    /\ meter' = Update(meter, i)
    /\ Ended(i)
    /\ parsed' = parsed \ {i}
    /\ UNCHANGED <<setup, feed, pipe, consumer, rest, batch, taken, stopping, heard, dropped>>

-----------------------------------------------------------------------------
(* The batch consumer *)

\* add_event, unless the event passes the batch by or there are no batches
\* (size 0 stands for batch.enabled = false). The timeout is looked at only here.
Add ==
    /\ consumer.at = "adding" /\ rest # <<>>
    /\ rest' = Tail(rest)
    /\ IF Direct(feed[consumer.msg]) \/ setup.size = 0
       THEN heard' = Append(heard, Head(rest)) /\ UNCHANGED <<batch, consumer>>
       ELSE /\ batch' = Append(batch, Head(rest))
            /\ \E timeout \in BOOLEAN :
                  consumer' = IF Len(batch) + 1 >= setup.size \/ timeout
                              THEN [consumer EXCEPT !.at = "flushing"] ELSE consumer
            /\ UNCHANGED heard
    /\ UNCHANGED <<setup, feed, pipe, tasks, parsed, taken, stopping, dropped, meter>>

\* Mutant: the batch is told from its end.
FlushLast ==
    /\ consumer.at \in {"flushing", "closing"} /\ batch # <<>>
    /\ heard' = Append(heard, batch[Len(batch)])
    /\ batch' = SubSeq(batch, 1, Len(batch) - 1)
    /\ UNCHANGED <<setup, feed, pipe, consumer, rest, tasks, parsed, taken, stopping, dropped, meter>>

\* flush: the callback of the batch is called with one event after the other.
Flush ==
    /\ consumer.at \in {"flushing", "closing"} /\ batch # <<>>
    /\ heard' = Append(heard, Head(batch))
    /\ batch' = Tail(batch)
    /\ UNCHANGED <<setup, feed, pipe, consumer, rest, tasks, parsed, taken, stopping, dropped, meter>>

Flushed ==
    /\ consumer.at = "flushing" /\ batch = <<>>
    /\ consumer' = [consumer EXCEPT !.at = "adding"]
    /\ UNCHANGED <<setup, feed, pipe, rest, batch, tasks, parsed, taken, stopping, heard, dropped, meter>>

Added ==
    /\ consumer.at = "adding" /\ rest = <<>>
    /\ consumer' = [at |-> "waiting", msg |-> NoMsg]
    /\ meter' = Update(meter, consumer.msg)
    /\ UNCHANGED <<setup, feed, pipe, rest, batch, tasks, parsed, taken, stopping, heard, dropped>>

-----------------------------------------------------------------------------
(* The end *)

\* Mutant: what the batch holds is forgotten.
CloseUnflushed ==
    /\ consumer.at = "waiting" /\ channel = <<>> /\ reader = "done"
    /\ consumer' = [at |-> "done", msg |-> NoMsg]
    /\ UNCHANGED <<setup, feed, pipe, rest, batch, tasks, parsed, taken, stopping, heard, dropped, meter>>

\* Mutant: the consumer leaves with the reader, whatever is still in the channel.
CloseWithReader ==
    /\ consumer.at = "waiting" /\ reader = "done"
    /\ consumer' = [at |-> IF Immediate THEN "done" ELSE "closing", msg |-> NoMsg]
    /\ UNCHANGED <<setup, feed, pipe, rest, batch, tasks, parsed, taken, stopping, heard, dropped, meter>>

\* The sender is gone and the channel empty: the batch consumer flushes.
Close ==
    /\ consumer.at = "waiting" /\ channel = <<>> /\ reader = "done"
    /\ consumer' = [at |-> IF Immediate THEN "done" ELSE "closing", msg |-> NoMsg]
    /\ UNCHANGED <<setup, feed, pipe, rest, batch, tasks, parsed, taken, stopping, heard, dropped, meter>>

Closed ==
    /\ consumer.at = "closing" /\ batch = <<>>
    /\ consumer' = [consumer EXCEPT !.at = "done"]
    /\ UNCHANGED <<setup, feed, pipe, rest, batch, tasks, parsed, taken, stopping, heard, dropped, meter>>

\* SubscriptionHandle::stop aborts the reader and the consumer, each at its next
\* await; tasks that run are let run.
Stop ==
    /\ ~stopping
    /\ stopping' = TRUE
    /\ UNCHANGED <<setup, feed, pipe, work, heard, dropped, meter>>

ReaderAborted ==
    /\ stopping /\ reader # "done"
    /\ reader' = "done"
    /\ UNCHANGED <<setup, feed, pos, tries, channel, work, stopping, heard, dropped, meter>>

ConsumerAborted ==
    /\ stopping /\ consumer.at \in {"waiting", "acquiring"}
    /\ consumer' = [at |-> "done", msg |-> NoMsg]
    /\ batch' = <<>>
    /\ UNCHANGED <<setup, feed, pipe, rest, tasks, parsed, taken, stopping, heard, dropped, meter>>

-----------------------------------------------------------------------------
Reader == Read \/ Send \/ Full \/ SendFails \/ ReaderAborted
Consumer ==
    Receive \/ Spawn \/ Add \/ Flush \/ Flushed \/ Added \/ Close \/ Closed \/ ConsumerAborted
Task(i) == Parse(i) \/ Tell(i) \/ Finish(i)
Metrics == Aggregate \/ WindowTick
Environment == StreamEnds \/ Stop

Next ==
    Reader \/ Consumer \/ (\E i \in DOMAIN tasks : Task(i)) \/ Metrics \/ Environment

\* The runtime polls every task that can go on.
Fairness == WF_vars(Reader) /\ WF_vars(Consumer) /\ WF_vars(\E i \in DOMAIN tasks : Task(i))

Spec == Init /\ [][Next]_vars /\ Fairness

-----------------------------------------------------------------------------
(* Properties *)

Numbers == UNION {DOMAIN s.feed : s \in Scenarios}

ToldOf(i) == {k \in Whole(i) : \E n \in DOMAIN heard : heard[n] = <<i, k>>}
HeldOf(i) == {k \in Whole(i) : \E n \in DOMAIN rest : rest[n] = <<i, k>>}
BatchedOf(i) == {k \in Whole(i) : \E n \in DOMAIN batch : batch[n] = <<i, k>>}
LeftOf(i) == IF i \in DOMAIN tasks THEN {tasks[i][n][2] : n \in DOMAIN tasks[i]} ELSE {}
InChannel == {channel[n] : n \in DOMAIN channel}

\* Each variable keeps to its kind: one reader with one message in hand, a channel
\* and a pool of tasks within their sizes (yellowstone.rs).
StreamTypeOK ==
    /\ pos \in 0..Len(feed)
    /\ reader \in {"reading", "sending", "done"}
    /\ setup.strategy \in {"Block", "Drop", "Retry"}
    /\ tries \in 0..setup.attempts
    /\ channel \in Seq(1..pos) /\ Len(channel) <= Channel
    /\ consumer.at \in {"waiting", "acquiring", "adding", "flushing", "closing", "done"}
    /\ consumer.msg \in 0..pos /\ taken \in 0..pos
    /\ DOMAIN tasks \subseteq 1..pos /\ Cardinality(DOMAIN tasks) <= Workers
    /\ parsed \subseteq DOMAIN tasks
    /\ dropped \subseteq 1..pos
    /\ Immediate => rest = <<>> /\ batch = <<>>
    /\ ~Immediate => tasks = <<>>
    /\ Len(meter.queue) <= MeterBound /\ meter.window <= meter.counted

\* Nothing is lost unseen: of a message that the reader has taken, every event is
\* told or still on its way, once, unless the message is gone for a reason: given up on
\* a full channel (never when Block waits), unreadable, or lost with a
\* consumer that a panic or stop() ended (streamhandler.rs, yellowstone.rs).
Accounted ==
    LET ended ==
            \/ stopping /\ (reader = "done" \/ consumer.at = "done")
            \/ ~Immediate /\ consumer.at = "done" /\ \E f \in 1..pos : Panics(f)
        waits == InChannel \cup (IF reader = "sending" THEN {pos} ELSE {})
                   \cup (IF consumer.at = "acquiring" THEN {consumer.msg} ELSE {})
        gone(i) == Silent(feed[i]) \/ Malformed(feed[i]) \/ Panics(i) \/ i \in dropped
    IN /\ setup.strategy = "Block" => dropped = {}
       /\ \A m, n \in DOMAIN heard : m # n => heard[m] # heard[n]
       /\ \A i \in 1..pos :
             \/ i \in waits /\ consumer.at # "done" /\ ToldOf(i) = {}
             \/ gone(i) /\ ToldOf(i) = {}
             \/ ended
             \/ /\ ToldOf(i) \cup HeldOf(i) \cup BatchedOf(i) \cup LeftOf(i) = Whole(i)
                /\ consumer.at = "done" => HeldOf(i) \cup BatchedOf(i) = {}

\* The single consumer "keeps the order of the batches" (yellowstone.rs:243): the
\* events of transactions are told in the order of the stream, and behind them in
\* the batch stand only later ones, though accounts and blocks pass the batch by.
BatchOrder ==
    LET behind(d, e) == d[1] < e[1] \/ (d[1] = e[1] /\ d[2] < e[2])
        through == {n \in DOMAIN heard : ~Direct(feed[heard[n][1]])}
    IN ~Immediate =>
          /\ \A m, n \in through : m < n => behind(heard[m], heard[n])
          /\ \A m \in through, n \in DOMAIN batch : behind(heard[m], batch[n])
          /\ \A m, n \in DOMAIN batch : m < n => behind(batch[m], batch[n])

\* The events that the updates of a queue stand for.
Queued(queue) ==
    LET sum[n \in 0..Len(queue)] ==
            IF n = 0 THEN 0
            ELSE sum[n - 1] + IF queue[n] = Begun THEN 0 ELSE queue[n] - 1
    IN sum[Len(queue)]

\* The metrics never count an event that was not handed on, and miss none unless
\* their own channel was full: what is counted or queued are the events of the
\* messages that are done with (metrics.rs:388-440). A batch that is lost was
\* counted before.
MeterTrue ==
    LET busy == DOMAIN tasks \cup {consumer.msg}
        done == Cardinality({n \in DOMAIN heard : heard[n][1] \notin busy})
                  + Cardinality({n \in DOMAIN batch : batch[n][1] \notin busy})
        told == meter.counted + Queued(meter.queue)
    IN setup.metrics /\ (Immediate \/ consumer.at # "done") =>
          IF meter.missed THEN told <= done ELSE told = done

\* What is in the channel is told, whatever the other tasks do: a task that
\* panics gives its place back (yellowstone.rs:217-240). The end of the consumer
\* forfeits it, and in a batch it may rest until the batch is full: the timeout is
\* only looked at when an event is added (batch.rs:33).
Drained ==
    \A i \in Numbers :
        (i \in InChannel) ~>
            \/ i \in DOMAIN feed /\ i \notin InChannel
                 /\ (Panics(i) \/ ToldOf(i) \cup BatchedOf(i) = Whole(i))
            \/ stopping
            \/ ~Immediate /\ consumer.at = "done"

\* The reader is never stuck with a message: there will be room, or it gives up,
\* or it learns that nobody receives any more (streamhandler.rs:88-138).
Flowing == (reader = "sending") ~> (reader # "sending")

-----------------------------------------------------------------------------
(* The promise of Stream: a message is open while a task or the batch      *)
(* consumer has it.                                                        *)

Opened ==
    IF Immediate THEN DOMAIN tasks
    ELSE ({consumer.msg} \ {NoMsg}) \cup {batch[n][1] : n \in DOMAIN batch}

Promise == INSTANCE Stream WITH
    sizes <- [i \in DOMAIN feed |-> Cardinality(Whole(i))],
    slots <- IF Immediate THEN Workers ELSE IF setup.size = 0 THEN 1 ELSE setup.size,
    next <- taken + 1,
    open <- [i \in Opened |-> Cardinality(ToldOf(i))]

\* Whichever way a subscription is made, its callback hears what Stream promises:
\* messages are opened in the order of the stream, no more than there are places
\* for, and each tells its events in order.
Promised == Promise!Spec

=============================================================================
