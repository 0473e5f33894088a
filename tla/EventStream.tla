----------------------------- MODULE EventStream ------------------------------
(***************************************************************************)
(* The subscription of main.rs: what it asks the Geyser server for, what   *)
(* the parsers make of the messages, how they come through the pipeline,   *)
(* and what the callback does with each event. A feed is a sequence of     *)
(* messages, each with what the parsers make of it (see Delivered).        *)
(*                                                                         *)
(* A message has a kind: tx (see EventParser), account, block, ping, or    *)
(* broken (a transaction whose conversion panics). A call in a transaction *)
(* also has its truth: what it does on the chain, which only properties    *)
(* look at. It is a record                                                 *)
(*   mints       the two mints of the pool, or the one of the token        *)
(*   from, to    the mints that the trader gives and gets                  *)
(*   paid, got   and how much of them                                      *)
(*   type        its event type; full, whether it has all the accounts and *)
(*               bytes that the program asks for today                     *)
(*   legs        whether its transfers stand where the parser looks for    *)
(*               them, in the direction that it takes for granted, and the *)
(*               log that tells the amounts of PumpFun and PumpSwap does   *)
(*   who         who trades on PumpFun or Bonk, or creates a token there   *)
(*   maker       who is named as the maker of the token that PumpFun or    *)
(*               Bonk creates or PumpFun trades                            *)
(* and a log is of the call with that index; full, whether it has all the  *)
(* bytes that today's log of its name has.                                 *)
(***************************************************************************)
EXTENDS StreamPipeline, EventParser

-----------------------------------------------------------------------------
(* The presets of StreamClientConfig, but for the sizes and waits; main.rs *)
(* takes the first. Batches of size 0 are none. The default is the first   *)
(* with larger batches.                                                    *)

Presets(size) ==
    LET Preset(strategy, batches) ==
            [strategy |-> strategy, attempts |-> 3, size |-> IF batches THEN size ELSE 0,
             metrics |-> FALSE]
    IN [high_performance |-> Preset("Retry", TRUE), low_latency |-> Preset("Retry", FALSE),
        lossless_blocking |-> Preset("Block", TRUE)]

-----------------------------------------------------------------------------
(* What is asked for *)

\* main.rs: the protocols, and the owners and accounts of both filters.
Programs == {"pumpfun", "pumpswap", "bonk", "raydiumcpmm", "raydiumclmm", "raydiumamm"}

Selected ==
    {"BonkInitialize", "BonkInitializeV2", "BonkBuyExactIn", "BonkBuyExactOut",
     "BonkSellExactIn", "BonkSellExactOut", "PumpFunCreateToken", "PumpFunBuy",
     "PumpFunSell", "PumpSwapCreatePool", "PumpSwapBuy", "PumpSwapSell",
     "PumpSwapWithdraw", "RaydiumAmmV4Initialize2", "RaydiumAmmV4SwapBaseIn",
     "RaydiumAmmV4SwapBaseOut", "RaydiumAmmV4Withdraw", "RaydiumClmmCreatePool",
     "RaydiumClmmSwap", "RaydiumClmmSwapV2", "RaydiumClmmDecreaseLiquidityV2",
     "RaydiumClmmClosePosition", "RaydiumCpmmInitialize", "RaydiumCpmmSwapBaseInput",
     "RaydiumCpmmSwapBaseOutput", "RaydiumCpmmWithdraw"}

AccountTypes == {c.type : c \in AccountTable}
BlockTypes == {"BlockMeta"}

\* The filter of main.rs, and none at all (event_type_filter: None).
Included ==
    [main |-> Selected,
     none |-> {l.type : l \in AllLayouts} \cup AccountTypes \cup BlockTypes]

\* EventTypeFilter, as the request asks it; the server sends no failed
\* transactions and those that mention one of the programs.
Asks ==
    [filter \in DOMAIN Included |->
        [tx |-> Included[filter] \ (AccountTypes \cup BlockTypes) # {},
         account |-> Included[filter] \cap AccountTypes # {},
         block |-> Included[filter] \cap BlockTypes # {}]]

ItemsOf(tx) == Range(tx.outer) \cup UNION {Range(tx.inner[i]) : i \in DOMAIN tx.inner}

Subscribed(filter, m) ==
    CASE m.kind = "tx" ->
            /\ Asks[filter].tx /\ ~m.tx.failed
            /\ {item.program : item \in ItemsOf(m.tx)} \cap Programs # {}
      [] m.kind = "account" -> Asks[filter].account /\ m.owner \in Programs
      [] m.kind = "block" -> Asks[filter].block
      [] OTHER -> TRUE

-----------------------------------------------------------------------------
(* What a message holds *)

Table ==
    [main |-> ParserTable(Programs, Included["main"]),
     none |-> ParserTable(Programs, Included["none"])]

\* process_event_transaction_with_metrics, by the kind of the message. The
\* callback gets a block's event whatever the filter.
EventsIn(filter, m) ==
    CASE m.kind = "tx" -> ParseTransaction(Table[filter], m.tx)
      [] m.kind = "account" -> AccountEvents(Programs, Included[filter], m)
      [] m.kind = "block" -> <<[type |-> "BlockMeta", struct |-> "BlockMeta", program |-> "-"]>>
      [] OTHER -> <<>>

PanicsOn(filter, m) == m.kind = "tx" /\ ParsePanics(Table[filter], m.tx)

\* The parsers have no state, so a message can carry their result from the start.
Delivered(filter, m) ==
    [body |-> m, events |-> EventsIn(filter, m), fatal |-> PanicsOn(filter, m)]

Subscription(setting, messages) ==
    [setup |-> setting,
     feed |-> [i \in DOMAIN messages |-> Delivered(setting.filter, messages[i])]]

ParsedEvents(m) == m.events
ParserPanics(m) == m.fatal
ConversionPanics(m) == m.body.kind = "broken"
Ping(m) == m.body.kind = "ping"
NoTransaction(m) == m.body.kind \in {"account", "block"}

-----------------------------------------------------------------------------
(* What is known of the messages: the server sends what was asked for, and *)
(* the programs take the instructions and write the logs.                  *)

ItemAt(tx, index) ==
    IF Len(index) = 1 THEN tx.outer[index[1]] ELSE tx.inner[index[1]][index[2]]

Indexes(tx) ==
    {<<i>> : i \in DOMAIN tx.outer}
        \cup UNION {{<<i, j>> : j \in DOMAIN tx.inner[i]} : i \in DOMAIN tx.inner}
CallsOf(tx) == {index \in Indexes(tx) : ItemAt(tx, index).kind = "call"}
LogsOf(tx) == {index \in Indexes(tx) : ItemAt(tx, index).kind = "log"}

\* Types whose parser reads more than its guard asks for.
Hasty ==
    {"BonkInitialize", "BonkInitializeV2", "BonkMigrateToAmm", "BonkMigrateToCpswap",
     "PumpFunBuy", "PumpFunSell", "PumpFunCreateToken", "PumpSwapBuy", "PumpSwapSell"}

\* Sequences of instructions, and one of what each of them called.
Shaped(tx) ==
    LET Sequence(s) == s \in Seq(Range(s))
    IN /\ Sequence(tx.outer) /\ Sequence(tx.inner) /\ Len(tx.inner) = Len(tx.outer)
       /\ \A i \in DOMAIN tx.inner : Sequence(tx.inner[i])

\* The truth of a call is that of its discriminator. A full one is long enough for
\* an event, and for the reads behind the guard where these ask for more.
CallKnown(item) ==
    /\ \E l \in AllLayouts :
          l.program = item.program /\ l.disc = item.disc /\ l.type = item.truth.type
    /\ item.truth.full =>
          \A l \in Matching(AllLayouts, item) :
              ~Short(l, item) /\ (l.type \in Hasty => ~Overruns(l, item))

\* A call that its parser takes names the mints of its pool, two of them, at the
\* places where the parser looks for them; what PumpFun trades is never WSOL.
MintFields ==
    {"mint", "base_mint", "quote_mint", "coin_mint", "pc_mint", "token_mint0", "token_mint1",
     "token0_mint", "token1_mint", "input_mint", "output_mint"}

\* The layouts whose parser takes a call.
Taking(item) == {l \in Matching(AllLayouts, item) : ~Short(l, item)}

MintsKnown(item) ==
    \A l \in Taking(item) :
        LET named(f) == Account(l, item, l.at[f])
            fields == MintFields \cap DOMAIN l.at
        IN /\ \A f \in fields : named(f) \in item.truth.mints
           /\ \A f, g \in fields : f # g => named(f) # named(g)
           /\ l.program = "pumpfun" => \A f \in fields : named(f) # Wsol

\* Logs of trades.
Trading(name) == name # NoLog /\ Amounts \subseteq LogTable[name].copies

\* What a call tells of its amounts is so; one whose log tells none has none.
AmountsKnown(item) ==
    \A l \in Taking(item) :
        /\ l.known = "paid" => item.arg = item.truth.paid
        /\ l.known = "got" => item.arg = item.truth.got
        /\ l.log # NoLog /\ ~Trading(l.log) => item.truth.paid = 0 /\ item.truth.got = 0

\* The default key is the system program, which signs nothing; "nobody" is no key.
SignersKnown(item) ==
    \A l \in Taking(item) :
        \A f \in {"user", "payer"} \cap DOMAIN l.at :
            Account(l, item, l.at[f]) \notin {NoOne, "nobody"}

ItemKnown(item) ==
    /\ item.kind = "move" <=> item.program \in SystemPrograms
    /\ item.kind = "call" =>
          CallKnown(item) /\ MintsKnown(item) /\ AmountsKnown(item) /\ SignersKnown(item)

\* A pool of PumpSwap is one of the mints that its creation names: its address is
\* derived from them.
PoolsKnown(tx) ==
    \A c \in CallsOf(tx), g \in LogsOf(tx) :
        LET call == ItemAt(tx, c)
            log == ItemAt(tx, g)
            named(f) == Account(PumpSwapCreate, call, PumpSwapCreate.at[f])
        IN /\ PumpSwapCreate \in Matching(AllLayouts, call)
           /\ log.disc = PumpSwapCreateLog.disc /\ log.f.pool = named("pool")
           => \A f \in {"base_mint", "quote_mint"} : log.f[f] = named(f)

\* What an instruction called comes behind it, in the order of the calls.
Precedes(c, g) == c[1] = g[1] /\ Len(g) = 2 /\ (Len(c) = 1 \/ c[2] < g[2])

\* A program writes the log of a call before it returns, and no other call of it runs
\* meanwhile: it cannot be entered again. The log is the one its layout awaits, and
\* that of a trade has the amounts and the id of the call.
LogKnown(tx, g) ==
    LET log == ItemAt(tx, g)
        c == log.of
        call == ItemAt(tx, c)
    IN /\ log.log \in DOMAIN LogTable /\ log.disc = LogTable[log.log].disc
       /\ log.full <=> Decodes(log.log, log)
       /\ c \in CallsOf(tx) /\ call.program = log.program /\ Precedes(c, g)
       /\ \A d \in CallsOf(tx) :
             ItemAt(tx, d).program = log.program /\ Precedes(d, g) => d = c \/ Precedes(d, c)
       /\ \A l \in Matching(AllLayouts, call) : l.log = log.log
       /\ \A l \in {m \in Taking(call) : Trading(m.log)} :
             /\ log.f.paid = call.truth.paid /\ log.f.got = call.truth.got
             /\ LogEvent(l, log, g).key = Key(l, call)
             /\ l.log = "bonk_trade" => log.f.side = l.side

\* The log of another program, though it may decode too, never has the id of a trade:
\* other accounts stand where the id is read.
IdsApart(tx, g) ==
    LET log == ItemAt(tx, g)
    IN \A c \in CallsOf(tx) :
          \A l \in {m \in Taking(ItemAt(tx, c)) : Trading(m.log)} :
             /\ l.program # log.program
             /\ LogTable[l.log].disc = log.disc /\ Decodes(l.log, log)
             => LogEvent(l, log, g).key # Key(l, ItemAt(tx, c))

\* The call has a log that can be read.
LogRead(tx, c) == \E g \in LogsOf(tx) : ItemAt(tx, g).of = c /\ ItemAt(tx, g).full

\* Throughout a transaction a program has one version, and writes one kind of logs.
LogsAlike(tx) ==
    \A c, d \in CallsOf(tx) :
        \A l \in Matching(AllLayouts, ItemAt(tx, c)), m \in Matching(AllLayouts, ItemAt(tx, d)) :
            l.log = m.log /\ Trading(l.log) => (LogRead(tx, c) <=> LogRead(tx, d))

LogsKnown(tx) ==
    LogsAlike(tx) /\ \A g \in LogsOf(tx) : LogKnown(tx, g) /\ IdsApart(tx, g)

\* The transfers behind a call, until another program runs.
TransfersOf(tx, c) ==
    {ItemAt(tx, g) : g \in
        {h \in Indexes(tx) :
            /\ Precedes(c, h) /\ ItemAt(tx, h).kind = "move" /\ Told(ItemAt(tx, h))
            /\ \A b \in Indexes(tx) :
                  Precedes(c, b) /\ Precedes(b, h) => ItemAt(tx, b).program \in SystemPrograms}}

\* Events that name the mints of their swap, and those that name the accounts.
MintSwaps == {"PumpFunTradeEvent", "PumpSwapBuyEvent", "PumpSwapSellEvent"}
LegSwaps ==
    {"BonkTradeEvent", "RaydiumCpmmSwapEvent", "RaydiumClmmSwapV2Event", "RaydiumClmmSwapEvent",
     "RaydiumAmmV4SwapEvent"}

\* Who buys from PumpFun pays with WSOL; PumpSwap sells its base for its quote.
DirectionKnown(l, call) ==
    LET named(f) == Account(l, call, l.at[f])
        trade(from, to) == call.truth.from = from /\ call.truth.to = to
        buy == l.side = "buy"
    IN /\ l.struct = "PumpFunTradeEvent" =>
             IF buy THEN trade(Wsol, named("mint")) ELSE trade(named("mint"), Wsol)
       /\ l.struct = "PumpSwapBuyEvent" => trade(named("quote_mint"), named("base_mint"))
       /\ l.struct = "PumpSwapSellEvent" => trade(named("base_mint"), named("quote_mint"))

\* The two sides of a swap: an account of the trader, the pool's of the same mint, and
\* the mint where the event tells it.
Sides(l, call) ==
    LET legs == SwapHints([struct |-> l.struct, at |-> Addresses(l, call)])
    IN {[user |-> legs.user_from, vault |-> legs.from_vault, mint |-> legs.from_mint],
        [user |-> legs.user_to, vault |-> legs.to_vault, mint |-> legs.to_mint]}

\* What goes from the trader to the pool behind a call, on either side, is what the
\* trader gives, and what comes back is what the trader gets.
SwapKnown(tx, c, l) ==
    LET call == ItemAt(tx, c)
        t == call.truth
        sides == Sides(l, call)
        moves == TransfersOf(tx, c)
        Given(side) == {v \in moves : v.from = side.user /\ v.to = side.vault}
        Taken(side) == {v \in moves : v.from = side.vault /\ v.to = side.user}
    IN /\ DirectionKnown(l, call)
       /\ \A v \in moves : v.from # NoOne
       /\ \A side \in sides :
             /\ \A v \in Given(side) : v.amount = t.paid /\ side.mint \in {NoOne, t.from}
             /\ \A v \in Taken(side) : v.amount = t.got /\ side.mint \in {NoOne, t.to}
       /\ t.legs =>
             \/ l.struct \in MintSwaps /\ moves # {} /\ LogRead(tx, c)
             \/ /\ l.struct \in LegSwaps /\ t.paid # 0
                /\ \E side \in sides : Given(side) # {}
                /\ \E side \in sides : Taken(side) # {}
                /\ {side.user : side \in sides} \cap {side.vault : side \in sides} = {}

SwapsKnown(tx) == \A c \in CallsOf(tx) : \A l \in Taking(ItemAt(tx, c)) : SwapKnown(tx, c, l)

\* A call of PumpFun or Bonk names who trades or creates, and the maker of a new token.
NamesKnown(item) ==
    \A l \in Taking(item) :
        LET named(f) == Account(l, item, l.at[f])
            t == item.truth
        IN /\ l \in {PumpFunCreate, PumpFunBuy, PumpFunSell} => t.who = named("user")
           /\ l = PumpFunCreate => t.maker = item.creator
           /\ l \in BonkPools => t.who = named("creator") /\ t.maker = t.who
           /\ l \in BonkBuys \cup BonkSells => t.who = named("payer")

\* The log of a creation names them too. A mint of PumpFun is created once; the log
\* of a Bonk pool has no id, and no instruction creates two of them.
MakersKnown(tx, g) ==
    LET log == ItemAt(tx, g)
    IN \A c \in {d \in CallsOf(tx) : Precedes(d, g)} :
          LET call == ItemAt(tx, c)
          IN \A l \in Taking(call) \cap ({PumpFunCreate} \cup BonkPools) :
                /\ LogTable[l.log].disc = log.disc /\ Decodes(l.log, log)
                /\ LogEvent(l, log, g).key = Key(l, call)
                => /\ l = PumpFunCreate => log.f.user = call.truth.who
                   /\ log.f.creator = call.truth.maker

\* The maker of a token, as the logs of its trades tell.
CoinMakers(tx, mint) ==
    {ItemAt(tx, g).f.creator : g \in
        {h \in LogsOf(tx) : /\ ItemAt(tx, h).program = "pumpfun"
                            /\ ItemAt(tx, h).log = "pumpfun_trade"
                            /\ ItemAt(tx, h).f.mint = mint}}

DevsKnown(tx) ==
    /\ \A g \in LogsOf(tx) : MakersKnown(tx, g)
    /\ \A c \in CallsOf(tx) :
          LET call == ItemAt(tx, c)
          IN /\ NamesKnown(call)
             /\ \A l \in Taking(call) \cap {PumpFunBuy, PumpFunSell} :
                   CoinMakers(tx, Account(l, call, l.at.mint)) \subseteq {call.truth.maker}

Known(m) ==
    m.kind = "tx" =>
        /\ Shaped(m.tx) /\ PoolsKnown(m.tx) /\ LogsKnown(m.tx) /\ DevsKnown(m.tx)
        /\ SwapsKnown(m.tx)
        /\ \A index \in Indexes(m.tx) : ItemKnown(ItemAt(m.tx, index))

\* A feed is what the parsers make of the messages that the filter lets through.
ASSUME FeedAssumption ==
    \A s \in Scenarios :
        /\ s.setup.filter \in DOMAIN Included
        /\ \A i \in DOMAIN s.feed :
              LET m == s.feed[i]
              IN /\ m = Delivered(s.setup.filter, m.body)
                 /\ Subscribed(s.setup.filter, m.body) /\ Known(m.body)
                 /\ EventsOf(m) = ParsedEvents(m) /\ (Fatal(m) <=> ParserPanics(m))

-----------------------------------------------------------------------------
(* What the callback does with an event: a task that writes to the tables  *)
(* of Storage, or a close signal                                           *)

Row(e, mint, creator, pool, base, quote) ==
    {[op |-> "insert", program |-> e.program, mint |-> mint, creator |-> creator,
      pool |-> pool, basevault |-> base, quotevault |-> quote]}

\* tokeninsert*: Storage keeps pools against WSOL, and asks for it on one side.
LaunchRows(e) ==
    CASE e.struct = "BonkPoolCreateEvent" /\ e.at.quote_mint = Wsol ->
            Row(e, e.at.base_mint, e.at.creator, e.at.pool, e.at.base_vault, e.at.quote_vault)
      [] e.struct = "PumpFunCreateTokenEvent" ->
            Row(e, e.at.mint, e.at.creator, e.at.pool, e.at.pool, e.at.pool)
      [] e.struct = "PumpSwapCreatePoolEvent" /\ e.at.base_mint = Wsol ->
            Row(e, e.at.quote_mint, e.at.creator, e.at.pool, e.at.base_vault, e.at.quote_vault)
      [] OTHER -> {}

\* Mutant: the token is taken from the side that was asked for WSOL.
RaydiumRowsSwapped(e) ==
    CASE e.struct = "RaydiumAmmV4Initialize2Event" /\ e.at.pc_mint = Wsol ->
            Row(e, e.at.coin_mint, e.at.creator, e.at.pool, e.at.pool_pc, e.at.pool_coin)
      [] e.struct = "RaydiumClmmCreatePoolEvent" /\ e.at.token_mint0 = Wsol ->
            Row(e, e.at.token_mint0, e.at.creator, e.at.pool, e.at.token_vault0, e.at.token_vault1)
      [] e.struct = "RaydiumCpmmInitializeEvent" /\ e.at.token0_mint = Wsol ->
            Row(e, e.at.token1_mint, e.at.creator, e.at.pool, e.at.token0_vault, e.at.token1_vault)
      [] OTHER -> {}

RaydiumRows(e) ==
    CASE e.struct = "RaydiumAmmV4Initialize2Event" /\ e.at.pc_mint = Wsol ->
            Row(e, e.at.coin_mint, e.at.creator, e.at.pool, e.at.pool_pc, e.at.pool_coin)
      [] e.struct = "RaydiumClmmCreatePoolEvent" /\ e.at.token_mint0 = Wsol ->
            Row(e, e.at.token_mint1, e.at.creator, e.at.pool, e.at.token_vault0, e.at.token_vault1)
      [] e.struct = "RaydiumCpmmInitializeEvent" /\ e.at.token0_mint = Wsol ->
            Row(e, e.at.token1_mint, e.at.creator, e.at.pool, e.at.token0_vault, e.at.token1_vault)
      [] OTHER -> {}

\* tokenupdate*, each with the key it looks the token up by: tokenchange ignores
\* one that no row has.
Changes(e) ==
    LET Change(mint) == {[op |-> "update", program |-> e.program, mint |-> mint]}
    IN CASE e.struct = "BonkTradeEvent" -> Change(e.at.base_mint)
         [] e.struct = "PumpFunTradeEvent" -> Change(e.at.mint)
         [] e.struct \in {"PumpSwapBuyEvent", "PumpSwapSellEvent"} -> Change(e.at.quote_mint)
         [] e.struct \in {"AccountRaydiumAmmV4AmmInfo", "AccountRaydiumClmmPoolState"} ->
               Change(e.at.pubkey)
         [] e.struct = "RaydiumCpmmSwapEvent" -> Change(e.at.input_mint)
         [] OTHER -> {}

Launched(e) == LaunchRows(e) \cup RaydiumRows(e)

\* eventcallback: every other event is ignored, the other withdrawals with it.
Route(e) ==
    Launched(e) \cup Changes(e)
        \cup IF e.struct = "PumpSwapWithdrawEvent"
             THEN {[op |-> "close", program |-> e.program, mint |-> e.at.quote_mint]} ELSE {}

-----------------------------------------------------------------------------
(* Properties of what the callback hears *)

Chained(i) == feed[i].body
HeardEvent(n) == feed[heard[n][1]].events[heard[n][2]]
HeardCalls == {n \in DOMAIN heard : Chained(heard[n][1]).kind = "tx"}

Truth(n) == ItemAt(Chained(heard[n][1]).tx, HeardEvent(n).index).truth

\* An event never takes its amounts from another instruction of the transaction,
\* however many trades of one pool there are: it has those of its own log
\* or, without one that can be read, what the instruction itself says (traits.rs:284-318).
OwnAmounts ==
    \A n \in HeardCalls :
        LET e == HeardEvent(n)
            tx == Chained(heard[n][1]).tx
        IN IF LogRead(tx, e.index) THEN e.paid = Truth(n).paid /\ e.got = Truth(n).got
           ELSE e.paid \in {0, Truth(n).paid} /\ e.got \in {0, Truth(n).got}

\* The swap of an event is made of its own transfers only, and never shows
\* them the wrong way round. What it leaves out it leaves out where a log stands
\* before the transfers or an AMM V4 pool is sold its coin (types.rs:474-740).
LegsTold ==
    \A n \in HeardCalls :
        LET t == Truth(n)
            swap == HeardEvent(n).swap
        IN /\ swap # <<>> =>
                 /\ swap[1].from \in {NoOne, t.from} /\ swap[1].to \in {NoOne, t.to}
                 /\ swap[1].paid \in {0, t.paid} /\ swap[1].got \in {0, t.got}
           /\ t.legs => swap # <<>> /\ swap[1].paid = t.paid /\ swap[1].got = t.got

\* Of a transaction that is told to the end, every full instruction that was asked
\* for has made one event of its type, at whatever depth, and none has made
\* two (traits.rs:135-281): equal trades in one transaction are not one.
OneEach ==
    \A i \in {k \in 1..pos : Chained(k).kind = "tx" /\ ~Panics(k) /\ ToldOf(k) = Whole(k)} :
        LET tx == Chained(i).tx
            mine == {n \in DOMAIN heard : heard[n][1] = i}
            asked == {index \in CallsOf(tx) :
                         /\ ItemAt(tx, index).truth.full
                         /\ ItemAt(tx, index).truth.type \in Included[setup.filter]}
        IN /\ asked \subseteq {HeardEvent(n).index : n \in mine}
           /\ \A n \in mine : HeardEvent(n).type = Truth(n).type
           /\ \A m, n \in mine : HeardEvent(m).index = HeardEvent(n).index => m = n

\* On the chain an instruction runs before what it calls, and that before the next one.
Ran(b, c) == b[1] < c[1] \/ Precedes(b, c)

\* The parser knows that one ran before the other, but for one that was called while
\* the other was not; and it takes the transaction's own instructions to have run
\* before every called one, though many run later.
TakenAsBefore(b, c) ==
    \/ Ran(b, c) /\ ~(Len(b) = 2 /\ Len(c) = 1)
    \/ Ran(c, b) /\ Len(b) = 1 /\ Len(c) = 2

Creations ==
    [PumpFunTradeEvent |-> {"PumpFunCreateToken"},
     BonkTradeEvent |-> {"BonkInitialize", "BonkInitializeV2"}]

\* The creations of the program that are taken to have run before the trade.
CreatedBefore(tx, c, struct) ==
    {b \in CallsOf(tx) :
        ItemAt(tx, b).truth.type \in Creations[struct] /\ TakenAsBefore(b, c)}

\* The flag of the developer's trades (traits.rs:323-391). On PumpFun a trade has it
\* after a full creation by the trader, of whichever token; and only after one that
\* has the trader, or the maker of what is traded, for its user or its maker: a
\* stranger's purchase of the new token has it as well. On Bonk only the last pool
\* counts. After means on the chain, but for the orders in which the parser errs: a
\* trade that was not called lacks the flag when the creation was called, and a
\* called trade has it even where one that was not called follows.
DevFlagged ==
    \A n \in HeardCalls :
        LET e == HeardEvent(n)
            tx == Chained(heard[n][1]).tx
            t == Truth(n)
            Deed(b) == ItemAt(tx, b).truth
            before == CreatedBefore(tx, e.index, e.struct)
        IN CASE e.struct = "PumpFunTradeEvent" ->
                  /\ (\E b \in before : Deed(b).full /\ Deed(b).who = t.who) => e.dev
                  /\ e.dev => \E b \in before :
                                 ({Deed(b).who, Deed(b).maker} \cap {t.who, t.maker}) \ {NoOne} # {}
             [] e.struct = "BonkTradeEvent" ->
                  /\ (\E b \in before : /\ Deed(b).full /\ Deed(b).who = t.who
                                        /\ \A d \in before : d = b \/ TakenAsBefore(d, b)) => e.dev
                  /\ e.dev => \E b \in before :
                                 /\ Deed(b).who = t.who
                                 /\ \A d \in before : Deed(d).full => d = b \/ TakenAsBefore(d, b)
             [] OTHER -> ~e.dev

\* What the comment on the flag says of it: a trade of PumpFun by who created a token
\* before has it (events.rs:88). The code keeps to another order than the chain.
DevSeen ==
    \A n \in HeardCalls :
        LET e == HeardEvent(n)
            tx == Chained(heard[n][1]).tx
        IN /\ e.struct = "PumpFunTradeEvent"
           /\ \E b \in CallsOf(tx) :
                 /\ ItemAt(tx, b).truth.type = "PumpFunCreateToken" /\ ItemAt(tx, b).truth.full
                 /\ ItemAt(tx, b).truth.who = Truth(n).who /\ Ran(b, e.index)
           => e.dev

\* Shorter than a transfer of its tag.
CutShort(move) == move.bytes < CASE move.tag = 2 -> 12 [] move.tag = 12 -> 10 [] OTHER -> 9

\* Parsing panics, and the transaction is lost without a word, only for an
\* instruction of one of those types that lacks something, or for a transfer that
\* is cut short behind a call: a full instruction is safe in every parser.
OverrunsKnown ==
    \A i \in 1..pos :
        Panics(i) =>
            \E index \in Indexes(Chained(i).tx) :
                LET item == ItemAt(Chained(i).tx, index)
                IN \/ item.kind = "call" /\ ~item.truth.full /\ item.truth.type \in Hasty
                   \/ item.kind = "move" /\ CutShort(item)

\* What an event does to the tables concerns the token it is about: a row is opened
\* for the token, never for WSOL; an update or a close signal looks for one of
\* the two mints of the pool (main.rs:201-393, storage.rs:1493-1840).
RowsKeyed ==
    \A n \in HeardCalls :
        \A r \in Route(HeardEvent(n)) :
            r.mint \in IF r.op = "insert" THEN Truth(n).mints \ {Wsol} ELSE Truth(n).mints

=============================================================================
