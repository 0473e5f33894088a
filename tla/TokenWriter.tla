---------------------------- MODULE TokenWriter -----------------------------
(***************************************************************************)
(* The table `tokens` and the task that writes it: tokenwriter drains a    *)
(* bounded channel of updates into `pending`, one merged update per token, *)
(* and tokensflush writes all of them in one statement.                    *)
(*                                                                         *)
(* An update of an enrichment carries what one look at the chain found:    *)
(* price, lastbase, lastquote, decimals and supply come and go together    *)
(* and are the number of that look. 0 stands for None and for NULL.        *)
(***************************************************************************)
EXTENDS Naturals, Sequences, FiniteSets

CONSTANTS
    Tokens,         \* rows of the table tokens, by uuid
    Channel,        \* capacity of the channel (32768 in the code)
    MaxBatch,       \* POSTGRESTOKENSMAXBATCH
    FlushMayFail    \* may the database refuse a batch?

ASSUME WriterAssumption ==
    /\ Channel \in Nat \ {0} /\ MaxBatch \in Nat \ {0}
    /\ FlushMayFail \in BOOLEAN

VARIABLES
    rows,       \* the tokens that have a row
    table,      \* the columns of each row that the writer writes
    channel,    \* tokentx
    pending,    \* the merged update of each token in the writer's map
    batch,      \* what the statement under way is to write
    writer,     \* where the writer is in its loop
    serial,     \* history: the table, had each update been written when sent
    lost        \* history: the tokens with an update in a refused batch

writervars == <<rows, table, channel, pending, batch, writer, serial, lost>>

Blank == [price |-> 0, supply |-> 0, init |-> 0, txs |-> 0]
Fields == [price : Nat, supply : Nat, init : Nat, txs : Nat]

Update(token, values) == [token |-> token, values |-> values]

WriterTypeOK ==
    /\ rows \subseteq Tokens
    /\ table \in [Tokens -> Fields] /\ serial \in [Tokens -> Fields]
    /\ channel \in Seq([token : Tokens, values : Fields])
    /\ Len(channel) <= Channel
    /\ \A m \in {pending, batch} :
          DOMAIN m \subseteq Tokens /\ \A t \in DOMAIN m : m[t] \in Fields
    /\ writer \in {"drain", "flush"}
    /\ lost \subseteq Tokens

WriterInit ==
    /\ rows = {}
    /\ table = [t \in Tokens |-> Blank]
    /\ channel = <<>>
    /\ pending = <<>> /\ batch = <<>>
    /\ writer = "drain"
    /\ serial = [t \in Tokens |-> Blank]
    /\ lost = {}

Or(a, b) == IF a # 0 THEN a ELSE b

\* Mutant: keeps the first price of a batch.
mergeFirst(old, new) ==
    [price |-> Or(old.price, new.price), supply |-> Or(new.supply, old.supply),
     init |-> Or(new.init, old.init), txs |-> old.txs + new.txs]

\* An update joins what is pending for its token: the later value wins.
merge(old, new) ==
    [price |-> Or(new.price, old.price), supply |-> Or(new.supply, old.supply),
     init |-> Or(new.init, old.init), txs |-> old.txs + new.txs]

\* An update reaches the row: COALESCE lets the later price win, and the earlier
\* supply and initial pool.
apply(row, new) ==
    [price |-> Or(new.price, row.price), supply |-> Or(row.supply, new.supply),
     init |-> Or(row.init, new.init), txs |-> row.txs + new.txs]

\* Mutant: a channel without a bound.
sendUnbounded(token, values) ==
    /\ channel' = Append(channel, Update(token, values))
    /\ serial' = [serial EXCEPT ![token] = apply(@, values)]

\* tokentx.send, which waits for room.
send(token, values) ==
    /\ Len(channel) < Channel
    /\ channel' = Append(channel, Update(token, values))
    /\ serial' = [serial EXCEPT ![token] = apply(@, values)]

-----------------------------------------------------------------------------
(* tokenwriter *)

Drain ==
    /\ writer = "drain"
    /\ channel # <<>> /\ Cardinality(DOMAIN pending) < MaxBatch
    /\ LET t == Head(channel).token
           new == Head(channel).values
       IN pending' = [u \in DOMAIN pending \cup {t} |->
                          IF u # t THEN pending[u]
                          ELSE merge(IF t \in DOMAIN pending THEN pending[t] ELSE Blank,
                                     new)]
    /\ channel' = Tail(channel)
    /\ UNCHANGED <<rows, table, batch, writer, serial, lost>>

\* The writer leaves the channel only when it has run dry, or the map is full.
Drained == channel = <<>> \/ Cardinality(DOMAIN pending) >= MaxBatch

\* Mutant: waits for half a batch, however long it takes.
StartFlushHalf ==
    /\ writer = "drain" /\ Drained
    /\ pending # <<>> /\ Cardinality(DOMAIN pending) >= MaxBatch \div 2
    /\ batch' = pending /\ pending' = <<>>
    /\ writer' = "flush"
    /\ UNCHANGED <<rows, table, channel, serial, lost>>

\* Half a batch is there, or the last flush was POSTGRESTOKENSFLUSHMS ago: as
\* far as a model without time goes, a flush may start at any time, and must
\* start some time.
StartFlush ==
    /\ writer = "drain" /\ Drained
    /\ pending # <<>>
    /\ batch' = pending /\ pending' = <<>>
    /\ writer' = "flush"
    /\ UNCHANGED <<rows, table, channel, serial, lost>>

\* Mutant: writes the transactions of the batch over those of the row.
FlushOver ==
    /\ writer = "flush"
    /\ table' = [t \in Tokens |->
          IF t \in DOMAIN batch \cap rows
          THEN [apply(table[t], batch[t]) EXCEPT !.txs = batch[t].txs]
          ELSE table[t]]
    /\ batch' = <<>> /\ writer' = "drain"
    /\ UNCHANGED <<rows, channel, pending, serial, lost>>

\* tokensflush: one UPDATE for all tokens of the batch.
Flush ==
    /\ writer = "flush"
    /\ table' = [t \in Tokens |->
          IF t \in DOMAIN batch \cap rows THEN apply(table[t], batch[t]) ELSE table[t]]
    /\ batch' = <<>> /\ writer' = "drain"
    /\ UNCHANGED <<rows, channel, pending, serial, lost>>

\* The statement fails, and its updates are gone.
FlushRefused ==
    /\ writer = "flush"
    /\ FlushMayFail
    /\ lost' = lost \cup DOMAIN batch
    /\ batch' = <<>> /\ writer' = "drain"
    /\ UNCHANGED <<rows, table, channel, pending, serial>>

WriterStep == Drain \/ StartFlush \/ Flush \/ FlushRefused

\* The writer is a task of its own, and the time of a flush comes.
WriterFairness == WF_writervars(WriterStep) /\ SF_writervars(StartFlush)

-----------------------------------------------------------------------------
(* What the row of a token will be once all that is under way is written *)

Waiting(m, t) == IF t \in DOMAIN m THEN m[t] ELSE Blank

\* A row after some updates, one by one; those of other tokens leave it alone.
After(t, base, updates) ==
    LET row[n \in 0..Len(updates)] ==
            IF n = 0 THEN base
            ELSE IF updates[n].token # t THEN row[n - 1]
            ELSE apply(row[n - 1], updates[n].values)
    IN row[Len(updates)]

Outlook(t) ==
    After(t, apply(apply(table[t], Waiting(batch, t)), Waiting(pending, t)), channel)

Settled(t) ==
    /\ t \notin DOMAIN pending \cup DOMAIN batch
    /\ \A i \in DOMAIN channel : channel[i].token # t
=============================================================================
