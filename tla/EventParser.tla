---------------------------- MODULE EventParser -----------------------------
(***************************************************************************)
(* How a transaction becomes events: EventParser::parse_transaction with   *)
(* the generic parser, its merge of the six protocol parsers, the transfer *)
(* and swap data, and process_events; and how an account becomes one.      *)
(* Operators over the tables of EventTables; nothing here changes state.   *)
(*                                                                         *)
(* A transaction is a sequence `outer` of instructions and, place by       *)
(* place, a sequence `inner` of what each of them called. An item has a    *)
(* program and a kind:                                                     *)
(*   call   an instruction, its discriminator and data taken apart: data   *)
(*          counts the bytes behind the discriminator, text those of its   *)
(*          strings, accs its accounts, acc the ones that matter;          *)
(*   log    what a program tells of itself: f its fields, size its bytes   *)
(*          and value those that the fields take, poses whether it also    *)
(*          decodes as the other log of the same name;                     *)
(*   move   an instruction of the token or system program, by its tag.     *)
(***************************************************************************)
EXTENDS EventTables, Integers, FiniteSets, SequencesExt

NoOne == "default"                       \* Pubkey::default()
Wsol == "wsol"

AllLayouts ==
    BonkLayouts \cup PumpFunLayouts \cup PumpSwapLayouts \cup AmmLayouts
        \cup ClmmLayouts \cup CpmmLayouts

\* MutilEventParser::new: what is left of the parsers of some programs.
ParserTable(programs, include) ==
    {l \in AllLayouts : l.program \in programs /\ l.type \in include}

-----------------------------------------------------------------------------
(* An instruction *)

\* AMM swaps leave the target orders out, and get a default account for them.
Account(l, call, place) ==
    LET held(i) == IF i \in DOMAIN call.acc THEN call.acc[i] ELSE "other"
    IN IF l \in AmmSwaps /\ call.accs = 17
       THEN IF place = 4 THEN NoOne ELSE held(IF place < 4 THEN place ELSE place - 1)
       ELSE held(place)

CurveBytes == [constant |-> 26, fixed |-> 18, linear |-> 18]

\* Where the parameters of a new Bonk pool end: decimals and three strings,
\* the curve, the vesting.
BonkParams(call) == 13 + call.text + CurveBytes[call.curve] + 24

\* The parser gives up: a guard, or a read of its that finds nothing.
Short(l, call) ==
    \/ call.data < l.data
    \/ call.accs < l.accs
    \/ l \in BonkPools /\ (call.curve \notin DOMAIN CurveBytes \/ call.data < BonkParams(call))

\* The parser reads past the end, and the task that runs it panics.
Overruns(l, call) ==
    /\ ~Short(l, call)
    /\ \/ call.data < l.reads
       \/ call.accs < l.top
       \/ l = PumpFunCreate /\ call.data < 12 + call.text
       \/ l.type = "BonkInitializeV2" /\ call.data = BonkParams(call)

\* Only trades and new tokens of PumpFun have a creator beside their accounts:
\* behind the strings of the instruction, or not before the log tells.
Addresses(l, call) ==
    LET beside == IF l \in {PumpFunBuy, PumpFunSell, PumpFunCreate} THEN {"creator"} ELSE {}
        creator == IF l = PumpFunCreate /\ call.data >= 12 + call.text + 32
                   THEN call.creator ELSE NoOne
    IN [f \in DOMAIN l.at \cup beside |->
           IF f \in DOMAIN l.at THEN Account(l, call, l.at[f]) ELSE creator]

\* EventMetadata::set_id: the type and what the parser adds to it, of one
\* transaction. The accounts are read before a default one is put among them.
Key(l, call) ==
    [i \in 1..Len(l.id) |-> IF l.id[i] \in DOMAIN call.acc THEN call.acc[l.id[i]] ELSE "other"]
        \o (IF l.arg THEN <<call.arg>> ELSE <<>>)
        \o (IF l.log = "pumpfun_trade" THEN <<l.side>> ELSE <<>>)

Matching(table, item) ==
    {l \in table : item.kind = "call" /\ l.program = item.program /\ l.disc = item.disc}

\* What a parser makes of an instruction that is long enough.
InstructionEvent(l, call, index) ==
    [type |-> l.type, struct |-> l.struct, program |-> l.program, side |-> l.side,
     index |-> index, key |-> Key(l, call), at |-> Addresses(l, call),
     paid |-> IF l.known = "paid" THEN call.arg ELSE 0,
     got |-> IF l.known = "got" THEN call.arg ELSE 0,
     swap |-> <<>>, dev |-> FALSE]

\* parse_events_from_instruction: a program's discriminators differ, so there
\* is at most one event.
InstructionEvents(table, item, index) ==
    SetToSeq({InstructionEvent(l, item, index) :
                 l \in {m \in Matching(table, item) : ~Short(m, item)}})

-----------------------------------------------------------------------------
(* A log *)

Decodes(name, item) ==
    /\ item.size >= LogTable[name].size
    /\ IF item.log = name
       THEN LogTable[name].whole \/ item.value = LogTable[name].size
       ELSE item.poses

LogEvent(l, item, index) ==
    LET names == LogKeys[l.log]
    IN [type |-> l.type, index |-> index, item |-> item, copies |-> LogTable[l.log].copies,
        key |-> [i \in 1..Len(names) |-> item.f[names[i]]]]

\* parse_events_from_inner_instruction: one for each layout that awaits this log,
\* whatever program wrote it. A Bonk trade keeps to the layouts of its side.
LogEvents(table, item, index) ==
    LET awaiting ==
            {l \in table :
                /\ item.kind = "log" /\ l.log # NoLog
                /\ LogTable[l.log].disc = item.disc /\ Decodes(l.log, item)
                /\ l.log = "bonk_trade" => item.f.side = l.side}
    IN SetToSeq({LogEvent(l, item, index) : l \in awaiting})

-----------------------------------------------------------------------------
(* Transfers and swaps *)

SystemPrograms == {"token", "token2022", "system"}

\* By tag: the accounts without which it is passed over, the bytes it is read to.
MoveNeeds ==
    [tag \in {2, 3, 12} |->
        CASE tag = 2 -> [accs |-> 2, bytes |-> 12]
          [] tag = 3 -> [accs |-> 3, bytes |-> 9]
          [] tag = 12 -> [accs |-> 4, bytes |-> 10]]

\* Mutant: a transfer is looked for in all that follows.
FollowingAll(items, child) ==
    SelectSeq(SubSeq(items, child + 1, Len(items)), LAMBDA item : item.kind = "move")

\* The items behind a call, up to the next one of another program.
Following(items, child) ==
    LET after == SubSeq(items, child + 1, Len(items))
        ends == {k \in 1..Len(after) : after[k].program \notin SystemPrograms}
    IN IF ends = {} THEN after
       ELSE SubSeq(after, 1, (CHOOSE k \in ends : \A j \in ends : k <= j) - 1)

Told(move) == move.tag \in DOMAIN MoveNeeds /\ move.accs >= MoveNeeds[move.tag].accs

MoveOverruns(move) ==
    move.bytes = 0 \/ (Told(move) /\ move.bytes < MoveNeeds[move.tag].bytes)

Legs(inhand, onhand, out, in, from, to) ==
    [user_from |-> inhand, user_to |-> onhand, from_vault |-> out, to_vault |-> in,
     from_mint |-> from, to_mint |-> to]

\* What each event gives away of its swap. Bonk names base and quote, whichever
\* way the trade goes; a CLMM swap and an AMM swap know no mints.
SwapHints(e) ==
    CASE e.struct = "BonkTradeEvent" ->
            Legs(e.at.user_base, e.at.user_quote, e.at.base_vault, e.at.quote_vault,
                 e.at.base_mint, e.at.quote_mint)
      [] e.struct \in {"RaydiumCpmmSwapEvent", "RaydiumClmmSwapV2Event"} ->
            Legs(e.at.input, e.at.output, e.at.input_vault, e.at.output_vault,
                 e.at.input_mint, e.at.output_mint)
      [] e.struct = "RaydiumClmmSwapEvent" ->
            Legs(e.at.input, e.at.output, e.at.input_vault, e.at.output_vault, NoOne, NoOne)
      [] e.struct = "RaydiumAmmV4SwapEvent" ->
            Legs(e.at.user_source, e.at.user_destination, e.at.pool_pc, e.at.pool_coin,
                 NoOne, NoOne)
      [] OTHER -> Legs(NoOne, NoOne, NoOne, NoOne, NoOne, NoOne)

\* The mints that PumpFun and PumpSwap tell without looking at the transfers.
NamedMints(e) ==
    CASE e.struct = "PumpFunTradeEvent" ->
            IF e.side = "buy" THEN [from |-> Wsol, to |-> e.at.mint]
            ELSE [from |-> e.at.mint, to |-> Wsol]
      [] e.struct = "PumpSwapBuyEvent" -> [from |-> e.at.quote_mint, to |-> e.at.base_mint]
      [] e.struct = "PumpSwapSellEvent" -> [from |-> e.at.base_mint, to |-> e.at.quote_mint]
      [] OTHER -> [from |-> NoOne, to |-> NoOne]

\* A transfer is one of four: from the user or to the user, on either side.
TakeLeg(legs, swap, t) ==
    CASE t.from = legs.user_to /\ t.to = legs.to_vault ->
            [swap EXCEPT !.from = legs.to_mint, !.paid = t.amount]
      [] t.from = legs.from_vault /\ t.to = legs.user_from ->
            [swap EXCEPT !.to = legs.from_mint, !.got = t.amount]
      [] t.from = legs.user_from /\ t.to = legs.from_vault ->
            [swap EXCEPT !.from = legs.from_mint, !.paid = t.amount]
      [] t.from = legs.to_vault /\ t.to = legs.user_to ->
            [swap EXCEPT !.to = legs.to_mint, !.got = t.amount]
      [] OTHER -> swap

\* parse_transfer_datas_from_next_instructions: a swap of nothing is no swap.
WithSwap(e, items, child) ==
    LET behind == Following(items, child)
        told == {n \in DOMAIN behind : Told(behind[n])}
        mints == NamedMints(e)
        blank == [from |-> NoOne, to |-> NoOne, paid |-> 0, got |-> 0]
        start == [blank EXCEPT !.from = mints.from, !.to = mints.to]
        legs == SwapHints(e)
        swap[n \in 0..Len(behind)] ==
            IF n = 0 THEN start
            ELSE IF n \in told THEN TakeLeg(legs, swap[n - 1], behind[n]) ELSE swap[n - 1]
        all == swap[Len(behind)]
    IN IF told = {} \/ all = blank THEN e ELSE [e EXCEPT !.swap = <<all>>]

-----------------------------------------------------------------------------
(* A transaction *)

\* Of a failed one nothing is looked at but its own instructions.
Inner(tx, i) == IF tx.failed THEN <<>> ELSE tx.inner[i]

OuterEvents(table, tx, i) ==
    [k \in DOMAIN InstructionEvents(table, tx.outer[i], <<i>>) |->
        WithSwap(InstructionEvents(table, tx.outer[i], <<i>>)[k], Inner(tx, i), 0)]

NestedEvents(table, tx, i) ==
    LET items == Inner(tx, i)
        Of(j) == LET es == InstructionEvents(table, items[j], <<i, j>>)
                 IN [k \in DOMAIN es |-> WithSwap(es[k], items, j)]
    IN FlattenSeq([j \in DOMAIN items |-> Of(j)])

ToldEvents(table, tx) ==
    LET Of(i) == FlattenSeq([j \in DOMAIN Inner(tx, i) |->
                                LogEvents(table, Inner(tx, i)[j], <<i, j>>)])
    IN FlattenSeq([i \in DOMAIN tx.outer |-> Of(i)])

\* Mutant: a log may also stand before the call it is merged into.
BehindAny(log, e) == log.index[1] = e.index[1]

Behind(log, e) ==
    log.index[1] = e.index[1] /\ (Len(e.index) = 1 \/ log.index[2] > e.index[2])

\* The first log of the same id behind the call tells what the call did not.
MergeLogs(e, logs) ==
    LET own == {k \in DOMAIN logs :
                   logs[k].type = e.type /\ logs[k].key = e.key /\ Behind(logs[k], e)}
        f == logs[Min(own)].item.f
        copies == logs[Min(own)].copies
    IN IF own = {} THEN e
       ELSE [e EXCEPT !.at = [a \in DOMAIN e.at |-> IF a \in copies THEN f[a] ELSE e.at[a]],
                      !.paid = IF "paid" \in copies THEN f.paid ELSE @,
                      !.got = IF "got" \in copies THEN f.got ELSE @]

\* process_events: who created a token earlier in the transaction is its
\* developer, whichever token is traded; PumpFun and PumpSwap take the amounts of
\* their swap from the event. There is no bot wallet: main passes None.
ProcessEvent(acc, e) ==
    LET creates == e.struct = "PumpFunCreateTokenEvent"
        flagged ==
            \/ e.struct = "PumpFunTradeEvent" /\ {e.at.user, e.at.creator} \cap acc.devs # {}
            \/ e.struct = "BonkTradeEvent" /\ e.at.payer = acc.bonk
        filled ==
            IF e.swap # <<>> /\ e.struct \in {"PumpFunTradeEvent", "PumpSwapBuyEvent",
                                              "PumpSwapSellEvent"}
            THEN [e EXCEPT !.swap = <<[e.swap[1] EXCEPT !.paid = e.paid, !.got = e.got]>>] ELSE e
    IN [devs |-> IF creates THEN acc.devs \cup {e.at.user} \cup ({e.at.creator} \ {NoOne})
                 ELSE acc.devs,
        bonk |-> IF e.struct = "BonkPoolCreateEvent" THEN e.at.creator ELSE acc.bonk,
        done |-> Append(acc.done, [filled EXCEPT !.dev = flagged])]

ProcessEvents(events) ==
    LET acc[n \in 0..Len(events)] ==
            IF n = 0 THEN [devs |-> {}, bonk |-> "nobody", done |-> <<>>]
            ELSE ProcessEvent(acc[n - 1], events[n])
    IN acc[Len(events)].done

\* Mutant: the events in the order of the calls.
ParseTransactionDeep(table, tx) ==
    LET outer == FlattenSeq([i \in DOMAIN tx.outer |-> OuterEvents(table, tx, i)])
        nested == FlattenSeq([i \in DOMAIN tx.outer |-> NestedEvents(table, tx, i)])
        all == nested \o outer
        logs == ToldEvents(table, tx)
    IN ProcessEvents([k \in DOMAIN all |-> MergeLogs(all[k], logs)])

\* Mutant: of the events with one id only the first.
ParseTransactionOnce(table, tx) ==
    LET outer == FlattenSeq([i \in DOMAIN tx.outer |-> OuterEvents(table, tx, i)])
        nested == FlattenSeq([i \in DOMAIN tx.outer |-> NestedEvents(table, tx, i)])
        each == outer \o nested
        First(k) == \A j \in 1..(k - 1) : <<each[j].type, each[j].key>> # <<each[k].type, each[k].key>>
        all == [k \in 1..Cardinality({m \in DOMAIN each : First(m)}) |->
                   each[CHOOSE m \in DOMAIN each :
                          First(m) /\ Cardinality({j \in 1..m : First(j)}) = k]]
        logs == ToldEvents(table, tx)
    IN ProcessEvents([k \in DOMAIN all |-> MergeLogs(all[k], logs)])

\* parse_transaction: the events of its own instructions come first.
ParseTransaction(table, tx) ==
    LET outer == FlattenSeq([i \in DOMAIN tx.outer |-> OuterEvents(table, tx, i)])
        nested == FlattenSeq([i \in DOMAIN tx.outer |-> NestedEvents(table, tx, i)])
        all == outer \o nested
        logs == ToldEvents(table, tx)
    IN ProcessEvents([k \in DOMAIN all |-> MergeLogs(all[k], logs)])

\* The task that parses the transaction panics, and nothing comes of it: reading an
\* instruction, or the transfers behind what has made an event.
ParsePanics(table, tx) ==
    LET Reads(item, behind) ==
            \/ \E l \in Matching(table, item) : Overruns(l, item)
            \/ /\ InstructionEvents(table, item, <<>>) \o LogEvents(table, item, <<>>) # <<>>
               /\ \E m \in Range(behind) : MoveOverruns(m)
    IN \E i \in DOMAIN tx.outer :
        \/ Reads(tx.outer[i], Following(Inner(tx, i), 0))
        \/ \E j \in DOMAIN Inner(tx, i) :
              Reads(Inner(tx, i)[j], Following(Inner(tx, i), j))

-----------------------------------------------------------------------------
(* An account *)

\* parse_account_event: the first config of its owner and discriminator whose
\* parser takes the data.
AccountEvents(programs, include, account) ==
    LET fits == {c \in AccountTable :
                    /\ c.owner \in programs /\ c.type \in include
                    /\ c.owner = account.owner /\ c.disc = account.disc
                    /\ account.data >= c.size
                    /\ c.whole \/ account.value = c.size}
    IN SetToSeq({[type |-> c.type, struct |-> c.type, program |-> c.owner,
                  at |-> [pubkey |-> account.pubkey]] : c \in fits})

=============================================================================
