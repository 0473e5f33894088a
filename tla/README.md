# A TLA+ model of GhostReaver

GhostReaver is a Solana trading bot: it follows new tokens over a Yellowstone
gRPC stream, buys some of them, keeps each trade until a rule says to sell, and
writes everything to PostgreSQL. These modules model how a transaction of the stream
becomes events and rows, and the parts in which several tasks work on the same money
and on the same token rows; they are model-checked on small instances with TLC, and
the invariants are proved, for all instances, with TLAPS.

    TradeStore ── OrderDesk ── MCOrderDesk (TLC)     TradeFollow ── MCTradeFollow (TLC)
                      │    └── OrderDesk_proofs (TLAPS)    │   └── TradeFollow_proofs (TLAPS)
                      │            └── OrderDeskTables_proofs (TLAPS)
                   Account  (what the desk promises)   Position  (what a keeper promises)

    TokenWriter ── TokenIngest ── MCTokenIngest (TLC)
                        └── TokenIngest_proofs (TLAPS, with Induction)

    EventTables ── EventParser ──┐
                                 ├── EventStream ── MCStream (TLC)
                StreamPipeline ──┘        └── EventStream_proofs (TLAPS, with StreamAccount_proofs)
                  │        └── StreamPipeline_proofs ── StreamAccount_proofs (TLAPS, with Induction)
               Stream  (what a subscription promises)

All paths below are relative to `src/src/` unless they start with `config/`.

## The system

| Component | State | Operations | Talks to |
|---|---|---|---|
| `streaming/` (gRPC client, channel, worker pool, batches, metrics) | bounded channel, semaphore, batch, subscription handle | subscribe, back pressure, dispatch, stop | calls the event callback |
| `streaming/events` (parsers, merge) | none between transactions | bytes to events, merge of inner instructions | called by the worker pool |
| `main.rs` (`GhostReaver`) | none | startup, one spawned task per event, shutdown watcher `spawnexit` | `Storage`, `TradeMonitor::signalclose` |
| `utils/storage.rs` (`Storage`) | the tables `tokens trades ticks market wallet locks signature`; process-wide caches `POSTGRESOPENTRADE`, `POSTGRESTOKENSCACHE`, `POSTGRESLASTENRICH`, `POSTGRESLASTTICK`; two writer tasks with channels | one method per statement | spawns enrichment, then `handlerorder` |
| `trading/scanner.rs`, pool readers | none | token price and pools over RPC, with retries | RPC |
| `trading/monitor.rs`, `handlerorder` | the permit `OPENFLIGHT`, mint locks | checks, buy, debit, insert | `Storage`, `jupiter.rs`; spawns a keeper |
| `trading/monitor.rs`, `handlerfollow`, `handlerclose` | the locals of one keeper task; a receiver of the close broadcast | partial and trailing sells, close | `Storage`, `jupiter.rs` |
| `trading/jupiter.rs` | none | quote, sign, send | HTTP, RPC |
| `core/client.rs`, `utils/loader.rs`, `utils/scripts.rs` | none | RPC health, YAML, formatting | |

What is hard here is that everything is a tokio task on a multi-threaded runtime:
one task per event, up to `POSTGRESSEMAPHORE` order handlers, one keeper per open
trade, the watcher and the writers. They share rows, caches and one wallet figure,
and every `.await` lets the others in. Errors of `Storage` calls are mostly
ignored (`let _ =`, `if let Ok`), and a swap may settle although its client
reports an error. `PROJECT.json` lists the hazards line by line.

What makes each component correct:

- *handlerorder*: the limits `opentrades` and `maxtrades` and the one trade per
  mint hold at the moment of the buy; a settled buy gets a row; retries after
  an error that settled all the same stay bounded; every order is decided.
- *tables and cache*: the wallet table follows the quotes of the settled swaps, a closed
  row is final and its total is what the sells were quoted, the open-trade count equals
  the open rows.
- *keepers*: never sell more than is held, keep cost and thresholds consistent
  over partial sells, never keep a trade beyond its bounds, end in time.
- *shutdown*: exits only when nothing is open.
- *ingest and writers*: merging and batching updates changes nothing but when they
  are written; every update is written; a token is handed on once, with its price.
- *streaming*: a message is lost only where a strategy, a panic or `stop` says so;
  the single consumer keeps the order; nobody waits for ever.
- *parsers*: an event tells of its own instruction and nothing else, whatever stands
  beside it in the transaction; a full instruction never panics the task.

## The modules

**TradeStore** is the tables `trades`, `wallet`, `locks` and the cache
`POSTGRESOPENTRADE`. An operator carries the name of the `Storage` method and does
what one SQL statement of it does; `tradecreate` and `tradeclose`, which write the
table and then the cache, are split into what runs between awaits (`countopen`,
`countclosed`, `countremove`).

**OrderDesk** puts all `handlerorder` calls, all keepers and the watcher over
TradeStore. `pc[o]` runs through the handler:

    idle -> lock -> gate -> count -> total -> exists -> funds -> buy
         -> reread -> debit -> create -> bump -> release -> hold

and then through the keeper: `preread pcredit pbook` around a partial sell, `sell
settle close uncount remove` around `handlerclose`; `rejected`, `stuck`, `closed`
are ends. One action is the code between two awaits:

| Actions | Code |
|---|---|
| `Arrive` | `Storage::tokenhandler`, a handler slot is taken |
| `MintLock`, `MintUnlock` | `MintOpenGuard`; its `let Some(_) =` binds nothing, so the unlock is spawned at once |
| `TakePermit` | `OPENFLIGHT` |
| `ScreenOut` ... `CheckFunds` | the checks, in the code's order; a failed read counts as passed where the code has `if let Ok` |
| `BuyFilled`, `BuyOutOfRange`, `BuyError` | the buy loop |
| `RereadWallet`, `Debit`, `CreateTrade`, `BumpCache`, `Release` | booking the buy |
| `PartialSell` ... `PartialBook` | a partial sell's reads and writes |
| `StartClose` ... `RemoveCount` | `handlerclose` and `tradeclose` |
| `WatchOpen`, `WatchTotal`, `Exit` | `spawnexit` |

`chain` and `bought` are the outside world: what the settled swaps did to the wallet, and
how often an order bought. The code books what Jupiter quotes (`outAmount` and the route
fee, jupiter.rs:264-280, 330-336, 355) and never what a swap settles at: slippage,
priority and network fees are in no figure of the tables, and nothing reads the chain again to
reconcile them. So a settled swap moves `chain` by its quote and any member of `Misses` beside it, while
the tables can at best follow the quotes: `quoted` is what the wallet would hold had every
settled swap met its quote, and `earned` what the settled sells of a trade were quoted
(both are history). `WalletAgrees` and `TotalsAreFills` compare the tables with
these; that the table is off the chain by the sum of the misses is how the program is. `Faults` is the set
of `Storage` calls that may fail in an instance,
`Landed` says whether a swap may settle behind an error. The mutexes inside
`TradeMonitor` (`tradelock`, `openlocks`, `closelocks`) are left out because they
exclude nobody: `tokenhandler` makes a `TradeMonitor` for each call, and the close
locks are taken with `let _ =`, which drops the guard at once.

**Account** is the abstract specification: positions that are bought, drawn down
and given up in single steps, with all limits tested at the very step that buys. Its
`funds` are those on the chain, quotes and misses.
`OrderDesk!A` maps `position[o]` to held from the settled buy to the settled (or
abandoned) close, whatever the tables say meanwhile.

**TradeFollow** is one keeper with the decisions OrderDesk leaves open. A turn of
the loop of `handlerfollow` is `ReadPrice, CheckDrain, CheckTrailing, Partial*,
Trailing*, CheckExit, Sleep | Receive`; `tick` holds what the turn computed from
the price before it sold anything, because the code goes on using that. Money is
in integers and ratios are percentages; shares are rounded down where the code has
fractions, and the instance is chosen so that every share in it is exact. The keeper
books the quote of a sell, whatever it is: the tick's price is one with the sell slippage
already taken off (monitor.rs:1031), so a quote may well be above it. `Slips` is what a
quote may be below the price, per unit, and less than 0 where it is above. `peak`
is a history variable. The keeper's database writes are in OrderDesk,
and so are sells that settle behind an error and a wallet that cannot be read. Exit reasons
are the code's strings; `Withdraw` is the one `signalclose` is called with.

**Position** is the abstract specification of a keeper: it reduces, then ends once
with exactly what is left, or gives up.

**TokenWriter** is the table `tokens` and its writer: `send` is `tokentx.send`,
`Drain` one turn of the `try_recv` loop, `StartFlush` the end of that loop with a
flush, `Flush` and `FlushRefused` what becomes of its one statement. `merge` and
`apply` are the two ways in which a later update meets an earlier one, in the map
and in the row. Time is left out: a flush may start as soon as the channel is dry
or the map full. `Outlook` is what a row will be once everything under way is
written, `serial` (a history variable) what it would be with no writer in between.
Not modelled: a writer that cannot get its connection at startup and ends.

**TokenIngest** is one task for each event of the stream over TokenWriter:

    creation: idle -> enrich -> send -> order -> done
    swap:     idle -> select -> count -> throttle [-> first] -> enrich -> send -> order -> done

`InsertToken` is the insert of `tokenadvance`; `SeeSwap, SelectToken, CountSwap,
Throttle, FirstThrottle` are `tokenchange`; `Enrich, SendEnriched, Order` the task
both spawn. `OpenTrade` and `CloseTrade` are all of OrderDesk that this needs: a
trade comes after an order. An update carries the number of the look at the chain
that its price, pools, decimals and supply come from. A statement that fails here
is an event that never came. One token stands for its mint, program and pool;
`POSTGRESTOKENSCACHE` is left out, since a hit and a miss find the same row.

**EventTables** is what the six protocol parsers know: a record for each instruction
(its discriminator, what its guard asks for, how far it is then read, the accounts that
its id and its event are made of), for each log (the accounts and amounts that it brings)
and for each account. Numbers are those of the code; the fields of an event that nothing
else looks at are left out.

**EventParser** is `parse_transaction` with the generic parser, the merge of all
protocols (`MutilEventParser`) and `process_events`, as operators over those tables. It
keeps the order of the code: events of the transaction's own instructions, then those of
called ones; logs merged into them by id and place; transfers taken from behind; then
developer flags and swap amounts. `ParsePanics` says of which transactions the parser
panics: the guards of nine layouts are shorter than what is read after them, and a
transfer is read without one. The hashed id of `set_id` is the pair of type and key.

**StreamPipeline** is one subscription: the reader with `handle_backpressure`, the
channel, and either the dispatcher with its tasks (`subscribe_events_immediate`) or the
batch consumer (`subscribe_events_advanced`), the metrics and `stop`.

| Actions | Code |
|---|---|
| `Read`, `Send`, `Full`, `SendFails`, `StreamEnds` | `handle_stream_message`, `handle_backpressure`, the reader's loop |
| `Receive`, `Spawn` | the dispatcher: `recv`, then a permit |
| `Parse`, `Tell`, `Finish` | `process_event_transaction_with_metrics`, one task |
| `Receive`, `Add`, `Flush`, `Flushed`, `Added` | `process_event_transaction_with_batch`, `EventBatchProcessor` |
| `Close`, `Closed` | the end of the loop with the last flush |
| `Stop`, `ReaderAborted`, `ConsumerAborted` | `YellowstoneGrpc::stop`: each task ends at its next await, tasks already spawned run on |
| `Aggregate`, `WindowTick` | the metrics task |

What a message holds is left to constants, so that the pipeline can be proved about.
`taken`, `dropped` and `missed` are history. The average processing time, the monitoring
task and a second subscription of one client (which would keep the parser of the first:
`parser_cache` is a OnceCell) are left out.

**Stream** is the abstract specification of a subscription: messages are opened in the
order of the stream, a bounded number at a time, and tell their events in order.
`StreamPipeline!Promise` maps an open message to one that a task, the consumer or the batch
holds.

**EventStream** puts the two together and adds what main.rs does with them: the
protocols and filters of `subgrpc`, the presets of the client's configuration, and
`eventcallback` with the guards and keys of `tokeninsert*` and `tokenupdate*`.

**MCTradeFollow** gives TradeFollow quotes on both sides of the price.

**MCStream** is a catalogue of transactions, each a case that a parser or the order of a
transaction makes: equal trades of one pool, logs before transfers, creations and
purchases at different depths, instructions that lack what the parser reads. Each call
has its *truth* beside it: what it does on the chain, who it is by and who made what it
trades. No operator of the parser looks at the truth, and the properties compare it with the event.
What ran before what is read off the places in the transaction (`Ran`), not off the
parser's order. Short instructions are no invention:
programs have gained accounts over time, and a transaction may carry any bytes.

## The runs

| Run | Question | Result |
|---|---|---|
| `desk_pair` | 3 orders, 3 mints, 2 trades at a time, prices and closes may fail, swaps settle at their quote or below: limits, one trade per mint, booking, cache, `Account` | holds, 1,180,804 states |
| `desk_serial` | 3 orders, 2 mints, 1 trade at a time, mint locks may fail, swaps settle at their quote or below: wallet, totals, closed rows, shutdown | holds, 827,838 states |
| `desk_faults` | 2 orders of 1 mint, seven calls may fail, swaps may settle behind an error and are repeated: types and retry limits, number of buys, every order decided | holds, 326,742 states |
| `follow` | a keeper over all sequences of 6 prices with quotes above and below them, failing swaps and a full broadcast | holds, 897,876 states |
| `ingest` | a token whose creation comes twice and that is traded, with failing enrichments and batches: staleness, what an order finds, no second order, is the merged table the serial one, every update lands | holds, 218,200 states |
| `stream` | a catalogue of 55 messages, each alone with and without main's filter, four streams through six configurations, two metered ones: amounts, swaps, flags, ids, rows; loss, order, progress; `Stream` | holds, 45,419 states |
| `desk_maxtrades` | does `maxtrades` bound the trades of a session? | no |
| `desk_wallet` | does the wallet table follow the quotes with 2 trades at a time? | no |
| `desk_exit` | is no trade open when the watcher logs that all are completed, with 2 trades at a time? | no |
| `desk_timeclose` | is every trade closed in the end? | no |
| `follow_trailing` | does a Trailing close mean that the price fell? | no |
| `stream_dev` | has every PumpFun trade by who created a token before it the developer's flag? | no |

The six refuted properties restate `config/bot.yaml`, the README, a comment or a log message;
`findings` in PROJECT.json quotes them. In short: `maxtrades` counts closed trades
only; `handlerclose` writes back a balance read before its sell loop; the
watcher's two reads are not a snapshot, and an order may insert its row between them; a
missing price ends a keeper without a
close; `trailinghigh` is raised with a value from before a partial sell, so the
next tick sells the rest at an unchanged price; a creation by a called instruction is
met after the purchase that follows it, which so lacks the flag. The first three need `opentrades`
of at least 2; `config/bot.yaml` ships 1, for which `desk_serial` shows the wallet
and the shutdown to be right.

Two more disagreements were read off the code and need no run: `main.status`
(config/bot.yaml:10) is loaded and used nowhere, and a trade whose sells all fail is
closed with the reason that started the close, not "MaxRetries" (config/bot.yaml:122
against trading/monitor.rs:1594).

### Bounds

- *Three orders* are an order at a check, one between its buy and its row, and a
  keeper closing: the three parties of every race found here. Limits of 1 and 2
  make both "full" and "one more" reachable. With `OpenTrades = 2, MaxTrades = 1`
  the session bound of 2 is below the number of orders. `desk_serial` gives the
  wallet enough for one buy and a little, so that orders are rejected for lack of
  funds as well.
- *Attempts* is 2 in `desk_faults` and for the keeper, so that a retry and the last
  attempt happen, and a buy that settled behind an error is repeated; elsewhere, where an
  error means that nothing was swapped, it is 1. To keep the retries small
  `desk_faults` has free swaps: sells that bring nothing and no fees or misses; the
  money is in the two other runs.
- *Misses* are 0 and -1 in `desk_pair` and `desk_serial`: a swap settles at its quote or below
  it, so that the table and the chain part. The theorems have any.
- *Slips* of the keeper are 1 and -1: each sell is quoted one unit below the price or above it.
- *MaxPartials* bounds the partial sells in OrderDesk: 0 where they do not matter,
  else 1, which already interleaves a credit with a close.
- *One mint* in `desk_faults` makes both orders compete for it.
- *Prices* of the keeper lie below the stop-loss, below and above the entry, and at
  the levels that trigger a partial sell and one and two trailing sells in one turn.
  Units of 8 halve exactly three times. `TrailingStop < TrailingDrop` makes both
  trailing exits reachable.
- *TimeClose* is 3 units of clock and a unit may hold any number of turns.
  *Capacity* 2 stands for the 64 of the broadcast.
- `ingest` has two creations of one token and two swaps in it, with two states of
  the pool: an enrichment of each kind may overlap, and a swap be throttled.
  *Channel* 2 makes senders wait. *MaxBatch* 4 is more than the tokens there are, so
  that only the timer flushes: a map that several tokens fill is left to the theorems, which
  have any tokens and any size of the map.
- `stream` has a channel of 1, two workers, metrics of 1 and batches of 2 (`batch_size`):
  with streams of three and four messages each of them is full at times, and a batch
  holds events of two messages. The three attempts of `Retry` are those of the presets.
  Streams are chosen to hold a panic in a task, a broken message, a block beside
  transactions, and messages of two events.
- Orders and mints are interchangeable, so `desk_pair` and `desk_serial` use symmetry
  (safety only).

### Fairness

`FairSpec` of OrderDesk: WF of each order's and each closing keeper's step, because
the runtime schedules every ready task and all waits inside are bounded (swaps
return, sleeps end); SF of `TakePermit`, because tokio's semaphore serves waiters in
order. No fairness is assumed of arrivals, partial sells or lost prices. That a
keeper starts to close is `timeclose`, shown by `KeeperEnds` in TradeFollow, whose
only assumptions are that its task runs and that time goes by.

`FairSpec` of TokenIngest: WF of each task once its event has come; WF of the writer;
SF of `StartFlush`, because a flush is due POSTGRESTOKENSFLUSHMS after the last one and
the drain loop ends with the messages, of which an instance has finitely many. An
endless supply of messages for few tokens would keep that loop going: it counts the
tokens in the map. `ingest` does not check for deadlock: when all events are
handled and written the model stops, as the program waits.

`Spec` of StreamPipeline: WF of the reader, of the consumer and of the tasks together,
because the runtime polls every task that can go on and a semaphore permit is given back
even by a panic. None is assumed of the stream, which may end at any time, of `stop`, or of
the metrics. `stream` does not check for deadlock: when a subscription has ended, everything
rests.

## What the parsers do that one might not expect

Read off the code and shown by the model, without a document that says otherwise:

- A guard shorter than the reads behind it, or `InitializeMultisig` behind a trade (its tag
  is that of a system transfer, with fewer bytes), panics the task; the events of the
  whole transaction are lost. With batches the panic ends the consumer, with
  what its batch holds, and the reader only learns at its next send (`OverrunsKnown`,
  `Accounted`).
- The list of events has the transaction's own instructions first and the called ones
  behind them. A creation that is called by another program so comes after a trade of the
  transaction's own that ran later, which is not flagged as the developer's (`stream_dev`
  refutes the comment on the flag with it); and a called trade is flagged even if the
  transaction's own creation follows it. `DevFlagged` says where the flag is right
  and where it errs (`TakenAsBefore`).
- In a PumpFun bundle a stranger's purchase of the new token counts as the developer's,
  since the creator in the log is in the list; purchases of tokens that others made do not.
- The swap of an AMM V4 sale and of a trade whose log stands before its transfers is
  left out; it is never wrong.
- PumpSwap pools are stored only with WSOL as base. Updates for the AMM V4 and
  CLMM pools come from accounts, which main's filter does not ask for.

## The proofs

The theorems about OrderDesk hold for any finite set of orders, any mints, limits,
attempts, quotes and misses, and any failing calls but those an assumption excludes:

| Theorem | Shows | Assumes |
|---|---|---|
| `TypeCorrect` | `[]TypeOK` | |
| `BuysBoundedHolds` | `[]BuysBounded` | |
| `ClosedIsFinalHolds` | `ClosedIsFinal` | |
| `OpenBoundHolds`, `SessionBoundHolds`, `OneTradePerMintHolds` | `[]OpenBound` ... | `NoLimitFaults` |
| `CacheAgreesHolds` | `[]CacheAgrees` | `NoLimitFaults` |
| `BoughtIsBookedHolds` | `[]BoughtIsBooked` | `NoBookingFaults` |
| `DeskImplementsAccount` | `ImplementsAccount` | `NoLimitFaults`, `NoBookingFaults` |
| `TotalsAreFillsHolds` | `[]TotalsAreFills` | `NoSaleFaults` |
| `ExitIsCleanHolds` | `[]ExitIsClean` | `NoLimitFaults`, `OpenTrades = 1` |
| `WalletAgreesHolds` | `[]WalletAgrees` | `NoLimitFaults`, `NoWalletFaults`, `OpenTrades = 1` |

`NoLimitFaults`: the three reads of the checks do not fail (the code takes a failed read
for a passed check). The others say that an error of the swap client means that nothing was
swapped, and name the calls that must succeed: between a buy and its row
(`NoBookingFaults`), in booking and finding partial sells (`NoSaleFaults`), on the wallet
(`NoWalletFaults`). Without them the code does go wrong: a buy whose insert fails
is forgotten, a partial sell settled behind an error is in no total. `OpenTrades = 1` is what `config/bot.yaml` ships; with 2, `desk_wallet`
and `desk_exit` refute the last two
(`AllCompleted` is the part of `ExitIsClean` that the log message claims).

- *Types.* `TypeOK` bounds `tries` by `Tries`, which is not inductive by itself; `TypeInv`
  adds that a task inside a retry loop is below the bound. `BuyInv` compares what an order
  has bought with what it has tried.
- *Limits.* `RowInv` ties a task's place to its row; `LimitInv` says what an order past a
  check still knows: there is room for one more open row, for one more row of the session,
  and no row of its mint. Nobody else inserts a row meanwhile: `PermitHeld`, an invariant of
  the proof, says that OPENFLIGHT is held by exactly the order that is past it; a close only
  makes room, and moves a row from open to closed without changing the sum the session
  bound is about (`RowCounts`). The mint locks appear nowhere in the proof.
- *Closed rows.* `RowWriters`: a step writes the row of the one task that takes it, from one
  of three places, and `RowInv` says that a closed row's task is in none of them.
- *Account.* `Book` adds `BookInv`, that exactly those past their buy have bought. The
  crux is `BuyerMay`: Account tests its limits on what is held at the very step that
  buys, the code on rows, steps earlier. Who has bought has a row unless it is between the
  two, where only the permit's holder can be (`BuyerHasRow`); so the held positions are
  among the open rows and all positions among the rows, and `LimitInv` bounds those. The
  other steps change no position (`OtherSteps`) or are sells (`SellMoves`).
- *Totals.* `FillInv` follows `earned`, `realized` and `fill` through the keeper: all
  three are quotes.
- *Cache.* `CacheInv` gives the cell of a mint as a function of its row's place (`Cell`).
  One row a mint makes it an invariant: `tradeclose` removes an entry in a step of its own,
  which is right only because no second trade of the mint can have bumped it in between.
- *Shutdown.* `WatchInv`: past its second read the watcher has counted `MaxTrades` closed
  rows, which stay (`FinalStep`). The session bound then leaves no room for an open row, nor
  for an order past its checks.
- *Wallet.* `OneIsBusy`: with one trade at a time a single task is buying or keeping.
  `Ledger` says what its fill owes the table, against `quoted`, and that a balance in hand is
  still current. The theorem holds whatever the swaps settle at; it says that no update is lost
  or made twice, not that the table is what the chain holds.

`StreamPipeline_proofs` and `StreamAccount_proofs` are about any channel, pool and metrics
queue of at least the sizes in `SizesAssumption`, any scenario with finitely many messages
and events (`ScenariosAssumption`), and any parser: `EventsOf`, `Fatal`, `Malformed`,
`Silent` and `Direct` are left open.

- `StreamTypeCorrect` (`Spec => []StreamTypeOK`). `TypeInv` adds the scenario that the
  variables come from, and who holds a message: without it nothing says that a message in
  hand is one of the stream, or that only the pool waits for permits.
- `StreamKeepsPromise` (`Spec => Promised`): a subscription implements `Stream`. The
  refinement maps an open message to the number of its events that are told, so the
  invariant `PromiseInv` has to know where the others are, and in which order. `Arrivals`:
  the channel holds messages in the order of the stream, all later than what was taken up.
  `Tasked`: a task has told a beginning of its message and holds the rest. `Batched` and
  `Adding`: the events of a batch follow on each other, each message to its end before
  the next begins; `rest` follows on the batch; and a consumer that waits has room in it.
  A step is then one of three: `Quiet` closes messages or does nothing that Stream
  sees, `Opening` takes one up, `Telling` tells one event. The hard case is
  `Flush`, whose event may be the last that is held of its message: the message then
  closes, and `Follows` says that it has been told to its end.
- `AccountedHolds` (`Spec => []Accounted`). `AccountInv` gives each message that was read its
  `Fate`: it waits and nothing of it is told, it is gone for a reason and nothing of it is told,
  or its events are where they can be found: told, held by its task, in the batch or in
  `rest`. Each step moves one event from one of these places to the next, which is where
  `PromiseInv` is needed: a holder's next event is the one after those told. That no event is
  told twice is `HeardInv`, from the same fact. `Endings` says what the consumer's end leaves.
- `BatchOrderHolds` (`Spec => []BatchOrder`). `OrderInv` adds to it that what was told or
  batched lies before everything still to be added (`NextIsLast`); an account or a block, which
  passes the batch by, is told in between without being compared.
- `MeterTrueHolds` (`Spec => []MeterTrue`). `InHand`: the message at work is whole, so that
  its end hands on exactly as many events as its update says (`HandedAll`); `MeterInv`
  follows the sum of the metrics queue when an update is queued, taken or missed.
  The sum is a recursive function over the queue, `Queued`: `QueuedIs` shows that the function
  exists and what its values are, `QueuedAppend` and `QueuedTail` what a step does to it.

`TokenIngest_proofs` is about any tokens, any events and any capacities and thresholds that
`TokenIngest` and `TokenWriter` assume, and writes that may be refused.

- `IngestTypeCorrect` (`Spec => []TypeOK`).
- `OrderedOnceHolds` (`Spec => []OrderedOnce`). `OnceInv`: of the creations of one token at
  most one has found no row and inserted it; only that one goes on to an order.
- `AsIfSerialHolds` (`Spec => []AsIfSerial`), the promise of the writer. `SerialInv` says it of
  the row that everything under way leads to, which is `apply` repeated along the channel
  (`AfterAppend`, `AfterTail`, by induction over the messages). Receiving a message is then
  harmless because `apply` of a `merge` is `apply` twice (`MergeIsApply`), but only for
  updates that agree on the initial pool: the map keeps the later one and the row the earlier.
  `PoolInv` supplies that: every initial pool under way is that of the one creation that
  `OnceInv` admits.
- `PriceIsNewestHolds` (`Spec => []PriceIsNewest`). `FreshInv`: as long as enrichments of a
  token do not overlap, one that has not yet sent its price has seen the chain after all that
  were sent, and the last price applied is the newest.
- `OrderedIsPricedHolds` (`Spec => []OrderedIsPriced`). `PricedInv`: the price and the pool
  are in `serial` before the order, and no later update takes them away.

`Induction` holds what the proofs about sequences share: a set of numbers that holds 0 and with
each number the next holds all of them (`AllNaturals`, `AllUpTo`), and that a step
repeated n times has one and only one result (`IteratesExists`, `IteratesUnique`), which is
what a recursive function over a sequence computes.

`TradeFollow_proofs` is about any prices, slips, shares, triggers, limits and
broadcast capacity that `FollowAssumption` admits; a share may be rounded.

- `FollowTypeCorrect` (`Spec => []TypeOK`). `Held`: what is left is in the wallet and is at
  least one unit, since a share is less than the whole (`ShareLess`).
- `KeeperImplementsPosition` (`Spec => ImplementsPosition`), from `Held`: the keeper's
  `units` and the wallet's `held` agree, so that the close sells exactly what is left.
- `TrailingFromPeakHolds` (`Spec => []TrailingFromPeak`). `HighInv`: until the first
  partial sell all units are held and the high is no more than all of them at `peak`, so a
  fall of the value is a fall of the price (`FallOfPrice`).
- `CostBasisHolds` and `SellsEarnedHolds` (`Spec => []CostBasis`, `[]SellsEarned`).
  `GainInv`: the basis is the entry price of the units left, so splitting it leaves no
  remainder (`SplitCost`). What a turn computed is of some number of units, perhaps more
  than are left after its first sell, but of their own cost, so its gain is a gain of the
  price (`GainOfUnit`). That is why the second sell of a turn is earned as well.
- `KeptInBandHolds` (`Spec => []KeptInBand`). The stop-loss half assumes `NarrowSlips`: no quote is
  below the price by `PartialTrigger + StopLoss` percent of the entry or more; it may be above it
  by any amount. `config/bot.yaml` promises much less of `orders.sellslippage`, but `swapsell`
  does not pass that on, and Jupiter chooses the limit (`dynamicSlippage`); so this is an assumption
  about the swap. `SoldWell`: every unit that was sold in part brought in more than the stop-loss asks of
  it. `TurnInv`: the exit looks at what the turn computed before its sells, so a keeper that waits
  stood inside the band by that. The take-profit half has an exception that the code needs:
  a sell that is quoted more than the price may lift the trade above its take-profit, and only
  the next turn sees it.

`EventStream_proofs` is about any messages that `FeedAssumption` admits. It assumes that a
feed is what the parsers make of messages that the filter lets through, and of a
transaction (`Known`) that it is well-formed and that the programs took its instructions:

- *Calls.* The type that a call is meant to have is that of its discriminator; a full call is
  as long as its program asks for (`CallKnown`); one that its parser takes names its mints
  where the parser looks for them (`MintsKnown`), tells its amounts as they are
  (`AmountsKnown`) and is signed by somebody (`SignersKnown`).
- *Logs* (`LogsKnown`). A program writes the log of a call behind it and before its next
  call, with the amounts and the id of the call; the logs of other programs do not have that id;
  the trades of one program all log in the same version. A log of a new PumpSwap pool
  names the mints of the call that names the same pool (`PoolsKnown`).
- *Transfers* (`SwapsKnown`). What goes between the accounts of trader and pool that a call
  names, behind it and until another program runs, is what the trader gives and gets;
  PumpFun and PumpSwap trade in the direction of their discriminator. A call whose truth
  says `legs` has these transfers where the parser looks for them.
- *Makers* (`DevsKnown`). A call names who trades or creates, and a creation who made the
  token (`NamesKnown`); the log of a creation names the same (`MakersKnown`), and the log of a
  trade the maker of the token that is traded (`CoinMakers`). Nothing is assumed of which
  creation comes before which trade.

TLC checks that each message of the catalogue satisfies this, so that no conjunct shuts out
the cases the catalogue is there for: calls without logs or transfers, logs of another program
that decode as well, equal trades of one pool. How many instructions, logs and transfers there
are, in which order and at what depth, is left open.

- `OverrunsKnownHolds` (`Spec => []OverrunsKnown`). `SafeOrHasty`, by the tables: outside
  nine types the guard of a parser covers all its reads. `MoveCut`: among the transfers
  of one tag the reads are longer than the guard, and `FollowingIs` says that nothing but
  transfers is read behind a call. `PanicCause` puts them together for a transaction.
- `OneEachHolds` (`Spec => []OneEach`). `OneLayout`: the discriminators of a program differ, so
  that an instruction makes one event or none (`ItemEvents`). `ConcatPlaces` follows the
  places of a concatenation back to its parts (`FlatEvents`): the indexes of the events
  are those of the calls, each once (`TransactionEvents`). The merge of logs, the
  swap and the developer's flag change neither the type nor the index of an event, nor how
  many there are (`MergeKeeps`, `SwapKeeps`, `ProcessKeeps`); and that each event of a message
  that is told is heard once is `Accounted`, proved before (`HeardIs`).
- `RowsKeyedHolds` (`Spec => []RowsKeyed`). The mints of an event come from its call, unless a
  log brings others: `MintStays` says that it never does. A log that is merged has the type of
  the event, so it is one that its layout awaits (`OneType`, `ToldIs`); most logs bring no
  mint, those of PumpFun carry it in the id by which they were found (`KeyPlaces`), and
  that of a new PumpSwap pool is `PoolsKnown`. `RouteKeyed` then goes through what the callback does
  with each event: both mints of a creation are there, and the one that is not WSOL is taken.
- `OwnAmountsHolds` (`Spec => []OwnAmounts`). The list of logs keeps the order of the
  transaction and leaves out nothing that is awaited (`ToldInOrder`). The parser takes the
  first log behind a call that has its type and id; a log of the same program before the own
  one would be that of a call in between, which writes its own first (`OwnFirst`), and the id
  keeps the other programs away. So the merged amounts are those of the call, and without a
  log that can be read those of its arguments remain (`AmountsOwn`).
- `DevFlaggedHolds` (`Spec => []DevFlagged`). Which creations count for a trade is said by what
  ran before it on the chain and by the two exceptions of `TakenAsBefore`; `TakenIsMet` shows
  that these are the creations that the parser meets before it, the events standing with
  the transaction's own first and what they call behind (`EventsRanked`). `ProcessFlags` is the
  invariant of the fold in `process_events`: at each event the list of developers holds whoever
  the PumpFun creations before it named, and Bonk's creator is that of its last pool.
  `CreatedIs` and `CreatedFound` go between these events and the calls that create,
  `TraderIs` says who an event's trade is by; then there is a case for each program and
  direction (`PumpFunYes`, `PumpFunOnly`, `BonkYes`, `BonkOnly`).
- `LegsToldHolds` (`Spec => []LegsTold`). `TransfersIs`: what the parser looks at behind a call
  is `TransfersOf`. `SwapFollows` opens the fold that takes these transfers one by one;
  its invariant is `Fair`: each field of the swap is unset or what the call does (`LegFair`,
  `SwapFair`). It holds at the start since the mints named by an event are those of its
  direction (`NamedFair`). A transfer overwrites the one before it, and every transfer on a side
  is of the same amount, so what was once told stays (`SwapIs`). The amounts of PumpFun and
  PumpSwap are replaced at the end by those of the event (`SettledIs`), which are its own by
  `AmountsOwn`.

With these every invariant and every action property of a passing run is a theorem, and so
are the refinements. Only model-checked are the five liveness properties (`OrdersEnd`,
`KeeperEnds`, `UpdatesLand`, `Flowing`, `Drained`): liveness under fairness is out of the
prover's reach.

## The plan

1. Done: TradeStore, OrderDesk, Account, TradeFollow, Position, TokenWriter,
   TokenIngest, the stream from bytes to rows (StreamPipeline, Stream, EventTables,
   EventParser, EventStream), and the theorems above.
2. `TickWriter`: the tick writer and `tickupdate`; several pools of one mint and the
   token cache, with its eviction under shard locks, in TokenIngest.
3. `Restart` (lock rows that survive a crash), `retrybackoff` as a pure algorithm, the
   callbacks of a stopped subscription beside those of a new one.
4. Proofs: those of the later modules, with their models.

## Not modelled

On purpose: the decoding of single fields (an instruction is taken apart into what its
parser asks for and uses), floating-point pool prices, HTTP and gRPC themselves, YAML
loading, CSV formatting, build scripts. `streaming/subsystem.rs` is not called; the object
pools of `streaming/events/common/types.rs` only save allocations. What the plan has
left is not modelled yet.
