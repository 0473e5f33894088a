----------------------------- MODULE OrderDesk ------------------------------
(***************************************************************************)
(* The order desk: every call of TradeMonitor::handlerorder (the checks,   *)
(* the buy, the wallet debit, the insertion of the trade), the keeper task *)
(* handlerfollow it spawns for the trade (partial sells and the close by   *)
(* handlerclose) and the shutdown watcher spawned by GhostReaver::spawnexit*)
(* all over the tables and the cache of TradeStore.                        *)
(*                                                                         *)
(* Each action is the code between two await points: the tasks run on a    *)
(* multi-threaded runtime, so anything may run between two of them. What   *)
(* the prices decide (when a keeper sells, why it closes) is left open     *)
(* here and modelled in TradeFollow.                                       *)
(*                                                                         *)
(* The per-mint and per-trade mutexes of TradeMonitor are not modelled:    *)
(* tokenhandler makes a TradeMonitor, with locks of its own, for each      *)
(* call, and the close locks are taken with `let _ =`, which releases them *)
(* at once. OPENFLIGHT, one permit for the process, is what serialises.    *)
(***************************************************************************)
EXTENDS TradeStore

CONSTANTS
    OpenTrades,     \* main.opentrades, 0 for unlimited
    MaxTrades,      \* main.maxtrades, 0 for unlimited
    Attempts,       \* orders.attempts
    Slots,          \* permits of POSTGRESSEMAPHORE
    Amount,         \* orders.amount
    InputFee,       \* priority.inputfees, as the funds check counts it
    QuoteFees,      \* the fees a buy quote may report
    Proceeds,       \* the proceeds a sell quote may report
    Misses,         \* what a swap may settle at beside its quote
    MaxPartials,    \* bound: partial sells of one trade
    InitBalance,    \* the wallet at startup
    Landed,         \* may a swap settle although the client sees an error?
    Faults          \* the Storage calls that may fail

StorageCalls ==
    {"mintlock", "mintunlock", "tradescount", "tradestotal", "tradeexists",
     "walletbalance", "walletupdate", "tradecreate", "tokenprice",
     "tradepartialsell", "traderealized", "tradeclose"}

ASSUME DeskAssumption ==
    /\ OpenTrades \in Nat /\ MaxTrades \in Nat /\ Attempts \in Nat
    /\ Slots \in Nat \ {0} /\ MaxPartials \in Nat
    /\ Amount \in Nat /\ InputFee \in Nat /\ InitBalance \in Nat
    /\ QuoteFees \subseteq Nat /\ Proceeds \subseteq Nat /\ Misses \subseteq Int
    /\ Landed \in BOOLEAN
    /\ Faults \subseteq StorageCalls

VARIABLES
    pc,         \* where each order, and then its keeper, is
    tries,      \* swap attempts of the current retry loop
    seen,       \* oldbalance, the wallet as the task last read it
    fill,       \* the quote of the task's last swap: its cost, or its proceeds
    parts,      \* partial sells of the keeper
    permit,     \* the order that holds OPENFLIGHT
    unlocking,  \* the spawned tasks that will release a mint lock
    watch,      \* the shutdown watcher
    chain,      \* external: the SOL the swaps have really left the wallet
    quoted,     \* history: the SOL left, had every settled swap met its quote
    bought,     \* external: buys of each order that settled
    earned      \* history: the quotes of the settled sells of each trade

taskvars == <<tries, seen, fill, parts>>
chainvars == <<chain, quoted, bought, earned>>
vars == <<pc, taskvars, permit, unlocking, watch, chainvars, storevars>>

(* From the permit's acquisition to its release *)
Screening == {"count", "total", "exists", "funds"}
Buying == {"buy", "reread", "debit", "create"}
Opening == {"bump", "release"}
Critical == Screening \cup Buying \cup Opening

InOrder == {"lock", "gate"} \cup Critical
Keeping == {"hold", "preread", "pcredit", "pbook", "sell", "settle", "close"}
Closing == {"uncount", "remove"}
Over == {"rejected", "stuck", "closed"}

Places == {"idle"} \cup InOrder \cup Keeping \cup Closing \cup Over

\* Both retry loops count before they compare, so 0 attempts buy once.
Tries == IF Attempts = 0 THEN 1 ELSE Attempts

TypeOK ==
    /\ StoreTypeOK
    /\ pc \in [Orders -> Places]
    /\ tries \in [Orders -> 0..Tries]
    /\ seen \in [Orders -> Int]
    /\ fill \in [Orders -> Int]
    /\ parts \in [Orders -> 0..MaxPartials]
    /\ permit \in Orders \cup {None}
    /\ unlocking \subseteq Orders
    /\ watch \in {"sleep", "idle", "export", "exited"}
    /\ chain \in Int
    /\ quoted \in Int
    /\ bought \in [Orders -> Nat]
    /\ earned \in [Orders -> Int]

Init ==
    /\ StoreInit(InitBalance)
    /\ pc = [o \in Orders |-> "idle"]
    /\ tries = [o \in Orders |-> 0]
    /\ seen = [o \in Orders |-> 0]
    /\ fill = [o \in Orders |-> 0]
    /\ parts = [o \in Orders |-> 0]
    /\ permit = None
    /\ unlocking = {}
    /\ watch = "sleep"
    /\ chain = InitBalance
    /\ quoted = InitBalance
    /\ bought = [o \in Orders |-> 0]
    /\ earned = [o \in Orders |-> 0]

Goto(o, place) == pc' = [pc EXCEPT ![o] = place]
Abort(o) == Goto(o, "rejected") /\ permit' = None
Fails(call) == call \in Faults

\* The swap client returns the figures of its quote: a buy costs the input amount
\* and the quote's route fee, a sell brings the quote's output. What the swap settles
\* at is another matter: slippage, and the network and priority fees no quote has.
Spend(o, cost) ==
    /\ \E miss \in Misses : chain' = chain - cost + miss
    /\ quoted' = quoted - cost
    /\ bought' = [bought EXCEPT ![o] = @ + 1]
    /\ UNCHANGED earned
Earn(o, proceeds) ==
    /\ \E miss \in Misses : chain' = chain + proceeds + miss
    /\ quoted' = quoted + proceeds
    /\ earned' = [earned EXCEPT ![o] = @ + proceeds]
    /\ UNCHANGED bought

-----------------------------------------------------------------------------
(* handlerorder *)

\* tokenhandler: an event of mint[o] takes one of the handler slots.
Arrive(o) ==
    /\ pc[o] = "idle"
    /\ Cardinality({q \in Orders : pc[q] \in InOrder}) < Slots
    /\ Goto(o, "lock")
    /\ UNCHANGED <<taskvars, permit, unlocking, watch, chainvars, storevars>>

\* MintOpenGuard::acquire. The pattern of the `let` binds nothing, so the guard
\* is dropped as soon as it is taken: the task that deletes the lock row is
\* spawned here, not when the order ends.
MintLock(o) ==
    /\ pc[o] = "lock"
    /\ \/ /\ locks[mint[o]] = None
          /\ mintlock(mint[o], o)
          /\ unlocking' = unlocking \cup {o}
          /\ Goto(o, "gate")
       \/ /\ locks[mint[o]] # None \/ Fails("mintlock")
          /\ Goto(o, "rejected")
          /\ UNCHANGED <<unlocking, locks>>
    /\ UNCHANGED <<taskvars, permit, watch, chainvars,
                   mint, rowvars, opentrade, balance>>

MintUnlock(o) ==
    /\ o \in unlocking
    /\ unlocking' = unlocking \ {o}
    /\ \/ mintunlock(mint[o], o)
       \/ Fails("mintunlock") /\ UNCHANGED locks
    /\ UNCHANGED <<pc, taskvars, permit, watch, chainvars,
                   mint, rowvars, opentrade, balance>>

\* Mutant: OPENFLIGHT lets any number of orders through.
TakePermitUnguarded(o) ==
    /\ pc[o] = "gate"
    /\ permit' = o
    /\ Goto(o, "count")
    /\ UNCHANGED <<taskvars, unlocking, watch, chainvars, storevars>>

TakePermit(o) ==
    /\ pc[o] = "gate"
    /\ permit = None
    /\ permit' = o
    /\ Goto(o, "count")
    /\ UNCHANGED <<taskvars, unlocking, watch, chainvars, storevars>>

\* The event is older than rules.maxtokenage, or of a program not followed.
ScreenOut(o) ==
    /\ pc[o] = "count"
    /\ Abort(o)
    /\ UNCHANGED <<taskvars, unlocking, watch, chainvars, storevars>>

\* Mutant: > for >=.
CheckOpenTradesLate(o) ==
    /\ pc[o] = "count"
    /\ \/ /\ OpenTrades = 0 \/ tradescount <= OpenTrades
          /\ Goto(o, "total")
          /\ UNCHANGED permit
       \/ /\ OpenTrades > 0 /\ tradescount > OpenTrades
          /\ Abort(o)
    /\ UNCHANGED <<taskvars, unlocking, watch, chainvars, storevars>>

\* A read that fails is taken for a check that passes.
CheckOpenTrades(o) ==
    /\ pc[o] = "count"
    /\ \/ /\ OpenTrades = 0 \/ Fails("tradescount") \/ tradescount < OpenTrades
          /\ Goto(o, "total")
          /\ UNCHANGED permit
       \/ /\ OpenTrades > 0 /\ tradescount >= OpenTrades
          /\ Abort(o)
    /\ UNCHANGED <<taskvars, unlocking, watch, chainvars, storevars>>

\* Mutant: > for >=.
CheckMaxTradesLate(o) ==
    /\ pc[o] = "total"
    /\ \/ /\ MaxTrades = 0 \/ tradestotal <= MaxTrades
          /\ Goto(o, "exists")
          /\ UNCHANGED permit
       \/ /\ MaxTrades > 0 /\ tradestotal > MaxTrades
          /\ Abort(o)
    /\ UNCHANGED <<taskvars, unlocking, watch, chainvars, storevars>>

CheckMaxTrades(o) ==
    /\ pc[o] = "total"
    /\ \/ /\ MaxTrades = 0 \/ Fails("tradestotal") \/ tradestotal < MaxTrades
          /\ Goto(o, "exists")
          /\ UNCHANGED permit
       \/ /\ MaxTrades > 0 /\ tradestotal >= MaxTrades
          /\ Abort(o)
    /\ UNCHANGED <<taskvars, unlocking, watch, chainvars, storevars>>

CheckExists(o) ==
    /\ pc[o] = "exists"
    /\ \/ /\ Fails("tradeexists") \/ ~tradeexists(mint[o])
          /\ Goto(o, "funds")
          /\ UNCHANGED permit
       \/ /\ tradeexists(mint[o])
          /\ Abort(o)
    /\ UNCHANGED <<taskvars, unlocking, watch, chainvars, storevars>>

\* A wallet that cannot be read ends the order; the token's transactions, supply
\* and pools are read as well, but the list of causes to reject it stays empty.
CheckFunds(o) ==
    /\ pc[o] = "funds"
    /\ \/ /\ balance >= Amount + InputFee
          /\ tries' = [tries EXCEPT ![o] = 0]
          /\ Goto(o, "buy")
          /\ UNCHANGED permit
       \/ /\ balance < Amount + InputFee \/ Fails("walletbalance")
          /\ Abort(o)
          /\ UNCHANGED tries
    /\ UNCHANGED <<seen, fill, parts, unlocking, watch, chainvars, storevars>>

BuyFilled(o) ==
    /\ pc[o] = "buy"
    /\ \E fee \in QuoteFees :
          /\ Spend(o, Amount + fee)
          /\ fill' = [fill EXCEPT ![o] = Amount + fee]
    /\ Goto(o, "reread")
    /\ UNCHANGED <<tries, seen, parts, permit, unlocking, watch, storevars>>

\* The quote buys more tokens than the rules allow: no retry.
BuyOutOfRange(o) ==
    /\ pc[o] = "buy"
    /\ Abort(o)
    /\ UNCHANGED <<taskvars, unlocking, watch, chainvars, storevars>>

\* Mutant: compares before it counts, one attempt too many.
BuyErrorLate(o) ==
    /\ pc[o] = "buy"
    /\ tries' = [tries EXCEPT ![o] = @ + 1]
    /\ \/ UNCHANGED chainvars
       \/ Landed /\ \E fee \in QuoteFees : Spend(o, Amount + fee)
    /\ IF tries[o] >= Attempts
       THEN Abort(o)
       ELSE UNCHANGED <<pc, permit>>
    /\ UNCHANGED <<seen, fill, parts, unlocking, watch, storevars>>

\* Mutant: starts counting again instead of giving up.
BuyErrorEndless(o) ==
    /\ pc[o] = "buy"
    /\ tries' = [tries EXCEPT ![o] = IF @ >= Attempts THEN 0 ELSE @ + 1]
    /\ UNCHANGED <<pc, seen, fill, parts, permit, unlocking, watch,
                   chainvars, storevars>>

\* Any other error is retried. send_and_confirm reports an error for a
\* transaction it could not see confirmed, which may settle all the same.
BuyError(o) ==
    /\ pc[o] = "buy"
    /\ tries' = [tries EXCEPT ![o] = @ + 1]
    /\ \/ UNCHANGED chainvars
       \/ Landed /\ \E fee \in QuoteFees : Spend(o, Amount + fee)
    /\ IF tries[o] + 1 >= Attempts
       THEN Abort(o)
       ELSE UNCHANGED <<pc, permit>>
    /\ UNCHANGED <<seen, fill, parts, unlocking, watch, storevars>>

\* Mutant: checks once more, after the buy, that the wallet covers an order.
RereadWalletChecking(o) ==
    /\ pc[o] = "reread"
    /\ \/ /\ balance - fill[o] >= Amount + InputFee
          /\ seen' = [seen EXCEPT ![o] = balance]
          /\ Goto(o, "debit")
          /\ UNCHANGED permit
       \/ /\ balance - fill[o] < Amount + InputFee
          /\ Abort(o)
          /\ UNCHANGED seen
    /\ UNCHANGED <<tries, fill, parts, unlocking, watch, chainvars, storevars>>

\* A wallet that cannot be read ends the order, although the buy is done.
RereadWallet(o) ==
    /\ pc[o] = "reread"
    /\ \/ /\ seen' = [seen EXCEPT ![o] = balance]
          /\ Goto(o, "debit")
          /\ UNCHANGED permit
       \/ /\ Fails("walletbalance")
          /\ Abort(o)
          /\ UNCHANGED seen
    /\ UNCHANGED <<tries, fill, parts, unlocking, watch, chainvars, storevars>>

Debit(o) ==
    /\ pc[o] = "debit"
    /\ \/ walletupdate(seen[o] - fill[o])
       \/ Fails("walletupdate") /\ UNCHANGED balance
    /\ Goto(o, "create")
    /\ UNCHANGED <<taskvars, permit, unlocking, watch, chainvars,
                   mint, rowvars, opentrade, locks>>

CreateTrade(o) ==
    /\ pc[o] = "create"
    /\ \/ /\ tradecreate(o, fill[o])
          /\ Goto(o, "bump")
          /\ UNCHANGED permit
       \/ /\ Fails("tradecreate")
          /\ Abort(o)
          /\ UNCHANGED rowvars
    /\ UNCHANGED <<taskvars, unlocking, watch, chainvars,
                   mint, opentrade, balance, locks>>

BumpCache(o) ==
    /\ pc[o] = "bump"
    /\ countopen(mint[o])
    /\ Goto(o, "release")
    /\ UNCHANGED <<taskvars, permit, unlocking, watch, chainvars,
                   mint, rowvars, balance, locks>>

\* The permit and the slot are free, and the keeper task is spawned.
Release(o) ==
    /\ pc[o] = "release"
    /\ permit' = None
    /\ Goto(o, "hold")
    /\ UNCHANGED <<taskvars, unlocking, watch, chainvars, storevars>>

-----------------------------------------------------------------------------
(* handlerfollow *)

\* No price: the keeper returns, and the trade stays open.
LosePrice(o) ==
    /\ pc[o] = "hold"
    /\ Fails("tokenprice")
    /\ Goto(o, "stuck")
    /\ UNCHANGED <<taskvars, permit, unlocking, watch, chainvars, storevars>>

PartialSell(o) ==
    /\ pc[o] = "hold"
    /\ parts[o] < MaxPartials
    /\ parts' = [parts EXCEPT ![o] = @ + 1]
    /\ \E proceeds \in Proceeds :
          /\ Earn(o, proceeds)
          /\ \/ /\ fill' = [fill EXCEPT ![o] = proceeds]
                /\ Goto(o, "preread")
             \/ /\ Landed
                /\ UNCHANGED <<fill, pc>>
    /\ UNCHANGED <<tries, seen, permit, unlocking, watch, storevars>>

\* Mutant: credits the partial sell to the balance the order had read.
PartialRereadStale(o) ==
    /\ pc[o] = "preread"
    /\ Goto(o, "pcredit")
    /\ UNCHANGED <<taskvars, permit, unlocking, watch, chainvars, storevars>>

PartialReread(o) ==
    /\ pc[o] = "preread"
    /\ \/ /\ seen' = [seen EXCEPT ![o] = balance]
          /\ Goto(o, "pcredit")
       \/ /\ Fails("walletbalance")
          /\ Goto(o, "pbook")
          /\ UNCHANGED seen
    /\ UNCHANGED <<tries, fill, parts, permit, unlocking, watch,
                   chainvars, storevars>>

PartialCredit(o) ==
    /\ pc[o] = "pcredit"
    /\ \/ walletupdate(seen[o] + fill[o])
       \/ Fails("walletupdate") /\ UNCHANGED balance
    /\ Goto(o, "pbook")
    /\ UNCHANGED <<taskvars, permit, unlocking, watch, chainvars,
                   mint, rowvars, opentrade, locks>>

PartialBook(o) ==
    /\ pc[o] = "pbook"
    /\ \/ tradepartialsell(o, fill[o])
       \/ Fails("tradepartialsell") /\ UNCHANGED rowvars
    /\ Goto(o, "hold")
    /\ UNCHANGED <<taskvars, permit, unlocking, watch, chainvars,
                   mint, opentrade, balance, locks>>

-----------------------------------------------------------------------------
(* handlerclose *)

\* The wallet is read once, before the sell loop; a wallet that cannot be read
\* ends the keeper without a close.
StartClose(o) ==
    /\ pc[o] = "hold"
    /\ \/ /\ seen' = [seen EXCEPT ![o] = balance]
          /\ tries' = [tries EXCEPT ![o] = 0]
          /\ fill' = [fill EXCEPT ![o] = 0]
          /\ Goto(o, IF Attempts = 0 THEN "close" ELSE "sell")
       \/ /\ Fails("walletbalance")
          /\ Goto(o, "stuck")
          /\ UNCHANGED <<seen, tries, fill>>
    /\ UNCHANGED <<parts, permit, unlocking, watch, chainvars, storevars>>

SellFilled(o) ==
    /\ pc[o] = "sell"
    /\ \E proceeds \in Proceeds :
          /\ Earn(o, proceeds)
          /\ fill' = [fill EXCEPT ![o] = proceeds]
    /\ Goto(o, "settle")
    /\ UNCHANGED <<tries, seen, parts, permit, unlocking, watch, storevars>>

\* Mutant: compares before it counts, one attempt too many.
SellErrorLate(o) ==
    /\ pc[o] = "sell"
    /\ tries' = [tries EXCEPT ![o] = @ + 1]
    /\ Goto(o, IF tries[o] >= Attempts THEN "close" ELSE "sell")
    /\ UNCHANGED <<seen, fill, parts, permit, unlocking, watch,
                   chainvars, storevars>>

\* After the last attempt the trade is closed with a total of 0.
SellError(o) ==
    /\ pc[o] = "sell"
    /\ tries' = [tries EXCEPT ![o] = @ + 1]
    /\ \/ UNCHANGED chainvars
       \/ Landed /\ \E proceeds \in Proceeds : Earn(o, proceeds)
    /\ Goto(o, IF tries[o] + 1 >= Attempts THEN "close" ELSE "sell")
    /\ UNCHANGED <<seen, fill, parts, permit, unlocking, watch, storevars>>

\* Mutant: the total of the trade is what its last sell brought in.
SettleLast(o) ==
    /\ pc[o] = "settle"
    /\ walletupdate(seen[o] + fill[o])
    /\ Goto(o, "close")
    /\ UNCHANGED <<taskvars, permit, unlocking, watch, chainvars,
                   mint, rowvars, opentrade, locks>>

\* The wallet takes the proceeds; the row will take them with those of the
\* partial sells.
Settle(o) ==
    /\ pc[o] = "settle"
    /\ \/ fill' = [fill EXCEPT ![o] = @ + realized[o]]
       \/ Fails("traderealized") /\ UNCHANGED fill
    /\ \/ walletupdate(seen[o] + fill[o])
       \/ Fails("walletupdate") /\ UNCHANGED balance
    /\ Goto(o, "close")
    /\ UNCHANGED <<tries, seen, parts, permit, unlocking, watch, chainvars,
                   mint, rowvars, opentrade, locks>>

\* Mutant: goes on with the sell loop after a close.
CloseRowAgain(o) ==
    /\ pc[o] = "close"
    /\ tradeclose(o, fill[o])
    /\ Goto(o, "sell")
    /\ UNCHANGED <<taskvars, permit, unlocking, watch, chainvars,
                   mint, opentrade, balance, locks>>

CloseRow(o) ==
    /\ pc[o] = "close"
    /\ \/ /\ tradeclose(o, fill[o])
          /\ Goto(o, "uncount")
       \/ /\ Fails("tradeclose")
          /\ Goto(o, "closed")
          /\ UNCHANGED rowvars
    /\ UNCHANGED <<taskvars, permit, unlocking, watch, chainvars,
                   mint, opentrade, balance, locks>>

\* Mutant: leaves the cache alone.
UncountNever(o) ==
    /\ pc[o] = "uncount"
    /\ Goto(o, "closed")
    /\ UNCHANGED <<taskvars, permit, unlocking, watch, chainvars, storevars>>

Uncount(o) ==
    /\ pc[o] = "uncount"
    /\ \/ /\ opentrade[mint[o]] = None
          /\ Goto(o, "closed")
          /\ UNCHANGED opentrade
       \/ /\ opentrade[mint[o]] # None
          /\ countclosed(mint[o])
          /\ Goto(o, IF opentrade[mint[o]] > 1 THEN "closed" ELSE "remove")
    /\ UNCHANGED <<taskvars, permit, unlocking, watch, chainvars,
                   mint, rowvars, balance, locks>>

RemoveCount(o) ==
    /\ pc[o] = "remove"
    /\ countremove(mint[o])
    /\ Goto(o, "closed")
    /\ UNCHANGED <<taskvars, permit, unlocking, watch, chainvars,
                   mint, rowvars, balance, locks>>

-----------------------------------------------------------------------------
(* spawnexit: two reads, the export of the tables and exit(0). A read that    *)
(* fails counts as "not yet".                                                 *)

WatchOpen ==
    /\ watch = "sleep"
    /\ MaxTrades > 0
    /\ tradescount = 0
    /\ watch' = "idle"
    /\ UNCHANGED <<pc, taskvars, permit, unlocking, chainvars, storevars>>

WatchTotal ==
    /\ watch = "idle"
    /\ \/ tradestotal >= MaxTrades /\ watch' = "export"
       \/ /\ tradestotal < MaxTrades \/ Fails("tradestotal")
          /\ watch' = "sleep"
    /\ UNCHANGED <<pc, taskvars, permit, unlocking, chainvars, storevars>>

Exit ==
    /\ watch = "export"
    /\ watch' = "exited"
    /\ UNCHANGED <<pc, taskvars, permit, unlocking, chainvars, storevars>>

-----------------------------------------------------------------------------

OrderStep(o) ==
    \/ MintLock(o) \/ TakePermit(o) \/ ScreenOut(o)
    \/ CheckOpenTrades(o) \/ CheckMaxTrades(o) \/ CheckExists(o) \/ CheckFunds(o)
    \/ BuyFilled(o) \/ BuyOutOfRange(o) \/ BuyError(o)
    \/ RereadWallet(o) \/ Debit(o) \/ CreateTrade(o) \/ BumpCache(o) \/ Release(o)

SellStep(o) ==
    \/ PartialReread(o) \/ PartialCredit(o) \/ PartialBook(o)
    \/ StartClose(o) \/ SellFilled(o) \/ SellError(o) \/ Settle(o)
    \/ CloseRow(o) \/ Uncount(o) \/ RemoveCount(o)

KeeperStep(o) == LosePrice(o) \/ PartialSell(o) \/ SellStep(o)

WatchStep == WatchOpen \/ WatchTotal \/ Exit

Running == watch # "exited"

\* No order is under way, or the process has exited.
Terminated ==
    /\ ~Running \/ \A o \in Orders : pc[o] \in Over
    /\ UNCHANGED vars

Next ==
    \/ /\ Running
       /\ \/ \E o \in Orders :
                Arrive(o) \/ OrderStep(o) \/ MintUnlock(o) \/ KeeperStep(o)
          \/ WatchStep
    \/ Terminated

Spec == Init /\ [][Next]_vars

-----------------------------------------------------------------------------
(* Fairness: a task the runtime can run is run (WF), and the semaphore behind *)
(* OPENFLIGHT is first come first served, so a waiter does get the permit     *)
(* (SF). Nobody has to send events, and no partial sell has to happen; that   *)
(* a keeper closes in the end is orders.timeclose, which ends its loop.       *)

FairSpec ==
    /\ Spec
    /\ \A o \in Orders :
          /\ WF_vars(Running /\ OrderStep(o))
          /\ SF_vars(Running /\ TakePermit(o))
          /\ WF_vars(Running /\ SellStep(o))

-----------------------------------------------------------------------------
(* Properties *)

\* main.opentrades: never more rows are open than that, however the checks of
\* one order interleave with the inserts and closes of the others.
OpenBound == OpenTrades > 0 => tradescount <= OpenTrades

\* main.maxtrades, as far as handlerorder enforces it: the check counts closed
\* trades only, so a session can have OpenTrades - 1 trades more than MaxTrades.
SessionBound ==
    (OpenTrades > 0 /\ MaxTrades > 0) =>
        Cardinality(Rows) <= MaxTrades + OpenTrades - 1

\* A mint is traded once in a session (the tradeexists check of handlerorder,
\* which nothing but OPENFLIGHT makes atomic with the insert).
OneTradePerMint ==
    \A o, q \in Rows : o # q => mint[o] # mint[q]

\* No order ends between its buy and the row that stands for it: what was
\* bought is on its way to the table or in it, and was bought once.
BoughtIsBooked ==
    \A o \in Orders : bought[o] > 0 =>
        /\ bought[o] = 1
        /\ pc[o] \in {"reread", "debit", "create"} \/ status[o] # "none"

\* main.maxtrades as config/bot.yaml states it: the trades of a session.
SessionLimit == MaxTrades > 0 => Cardinality(Rows) <= MaxTrades

\* POSTGRESOPENTRADE counts the open rows of a mint whenever no tradecreate or
\* tradeclose of that mint is between its two writes: a count of 0 makes
\* tokenchange drop the price updates of the mint.
CacheAgrees ==
    \A m \in Mints :
        (\A o \in Orders : mint[o] = m => pc[o] \notin {"bump"} \cup Closing) =>
            Cardinality({o \in OpenRows : mint[o] = m})
                = IF opentrade[m] = None THEN 0 ELSE opentrade[m]

\* The wallet table holds what the settled swaps have left at their quotes, whenever
\* no task is between a swap and its walletupdate: no update is lost, and none is
\* made twice. handlerclose reads the balance before its sell loop, so this takes a
\* desk that keeps one trade at a time. That the table is off the chain by what the
\* swaps missed their quotes by is how the code is: it never reads the chain again.
WalletAgrees ==
    (\A o \in Orders :
        pc[o] \notin {"reread", "debit", "preread", "pcredit", "settle"}) =>
            balance = quoted

\* The total of a closed trade is what all its sells were quoted, the partial
\* ones included, or 0 when the last sell was given up.
TotalsAreFills ==
    \A o \in ClosedRows : total[o] \in {0, earned[o]}

\* When the watcher goes on to export the tables and to exit, no trade is open and
\* no order is at its buy or has bought without a row. This takes a desk that
\* keeps one trade at a time: the watcher's two reads are not one snapshot.
ExitIsClean ==
    watch \in {"export", "exited"} =>
        /\ OpenRows = {}
        /\ \A o \in Orders : pc[o] \notin Buying

\* "All {} trades completed": no trade is open when the watcher logs this.
AllCompleted ==
    [][watch = "idle" /\ watch' = "export" => OpenRows = {}]_vars

\* A closed row is final. tradeclose does not check that the row is open, so
\* this rests on each trade having a single keeper that closes it once.
ClosedIsFinal ==
    [][\A o \in ClosedRows :
          /\ o \in ClosedRows'
          /\ total'[o] = total[o] /\ realized'[o] = realized[o]]_vars

\* However often the swap client reports an error for a buy that settled, and
\* however often that buy is then repeated, an order buys at most orders.attempts
\* times.
BuysBounded ==
    \A o \in Orders : bought[o] <= Tries

\* Every order is decided: no failure of a Storage call or of a swap leaves an
\* order waiting for OPENFLIGHT, or holding it, for ever.
OrdersEnd ==
    \A o \in Orders : pc[o] \in InOrder ~> (pc[o] \notin InOrder \/ ~Running)

\* Every trade that is opened is closed, by its keeper.
TradesClose ==
    \A o \in Orders :
        status[o] = "open" ~> (status[o] = "closed" \/ ~Running)

\* The desk implements Account. A position exists from the settled buy to the
\* swap that ends it; the table lags behind both.
A == INSTANCE Account WITH
        position <- [o \in Orders |->
            IF bought[o] = 0 THEN "none"
            ELSE IF \/ pc[o] \in {"settle", "close", "closed"} \cup Closing
                 THEN "flat" ELSE "held"],
        token <- mint,
        funds <- chain

ImplementsAccount == A!ASpec
=============================================================================
