---------------------------- MODULE TradeFollow -----------------------------
(***************************************************************************)
(* The keeper of one trade: the loop of TradeMonitor::handlerfollow, which *)
(* reads a price, decides, sells in parts and waits, and handlerclose,     *)
(* which ends the trade. OrderDesk models the tables these write; here are *)
(* the decisions it leaves open.                                           *)
(*                                                                         *)
(* Money is in integers, `Entry` for a unit at the buy, and the ratios of  *)
(* config/bot.yaml are percentages. A price is what the loop calls         *)
(* shortprice: the token's price with the trade's spread and the slippage  *)
(* taken off. Shares are rounded down, where the code has fractions.       *)
(***************************************************************************)
EXTENDS Integers, Sequences

CONSTANTS
    Prices,             \* the prices a tick may read
    Slips,              \* what the quote of a sell is below the price, per unit;
                        \* below 0 where it is better
    Entry, Units,       \* price of a unit at the buy, units bought
    PartialTrigger, PartialShare,       \* partialtrigger, partialsell
    TrailingTrigger, TrailingShare,     \* trailingtrigger, trailingsell
    TrailingStop, TrailingDrop,
    TakeProfit, StopLoss,
    LiquidityWatch,     \* is orders.dropmax set?
    HoldTime,           \* rules.<program>exit
    TimeClose,          \* orders.timeclose
    Attempts,           \* orders.attempts
    Capacity,           \* of the close broadcast (64 in the code)
    PriceMayFail        \* may tokenprice fail or find no price?

Cost == Entry * Units

ASSUME FollowAssumption ==
    /\ Entry \in Nat \ {0} /\ Units \in Nat \ {0}
    /\ Prices \subseteq Nat /\ Slips \subseteq Int
    /\ {PartialShare, TrailingShare} \subseteq 0..99
    /\ {PartialTrigger, TrailingTrigger, TakeProfit, StopLoss} \subseteq Nat
    /\ {TrailingStop, TrailingDrop} \subseteq 0..100
    /\ {HoldTime, TimeClose, Attempts} \subseteq Nat
    /\ Capacity \in Nat \ {0}
    /\ {LiquidityWatch, PriceMayFail} \subseteq BOOLEAN

VARIABLES
    pc,         \* where the keeper is in its loop, or in handlerclose
    tick,       \* what this turn of the loop has computed from the price
    units,      \* tokenunits
    basis,      \* totaltrade, the cost of the units still held
    realized,   \* what partial sells have brought in
    trailing,   \* trailingstatus
    high,       \* trailinghigh
    partial,    \* partialsell, has the first partial sell been made?
    count,      \* trailcount, the trailing sells made since
    level,      \* nextlevel
    tries,      \* attempts of the current sell
    exit,       \* exitreason
    total,      \* trades.total, what the trade is closed with
    clock,      \* the time since the keeper started, up to TimeClose
    queue,      \* the commands in this receiver of the close broadcast
    lagged,     \* has the broadcast overwritten commands of this receiver?
    held,       \* external: the units in the wallet
    earned,     \* history: the quotes of the sells that were filled
    peak        \* history: the highest price the keeper has read

position == <<units, basis, realized>>
trail == <<trailing, high, partial, count, level>>
bus == <<queue, lagged>>
outside == <<held, earned>>
vars == <<pc, tick, position, trail, tries, exit, total, clock, bus, outside, peak>>

Looping == {"head", "drain", "trail", "partial", "trailing", "exit", "wait"}
Reasons == {"LiqDrain", "Trailing", "Takeprofit", "Stoploss", "Holdtime",
            "Withdraw", "Timeout"}

TypeOK ==
    /\ pc \in Looping \cup {"close", "closed", "gone"}
    /\ tick \in [price : {Entry} \cup Prices, out : Nat, basis : Nat,
                 pnl : Int, elapsed : 0..TimeClose]
    /\ units \in 0..Units /\ basis \in 0..Cost /\ realized \in Int
    /\ trailing \in BOOLEAN /\ high \in Nat
    /\ partial \in BOOLEAN /\ count \in Nat /\ level \in Nat
    /\ tries \in 0..Attempts
    /\ exit \in Reasons /\ total \in Int
    /\ clock \in 0..TimeClose
    /\ queue \in Seq({"mine", "other"}) /\ Len(queue) <= Capacity
    /\ lagged \in BOOLEAN
    /\ held \in 0..Units /\ earned \in Int
    /\ peak \in {Entry} \cup Prices

\* handlerorder subscribes and spawns the keeper once the row is inserted.
Init ==
    /\ pc = "head"
    /\ tick = [price |-> Entry, out |-> Cost, basis |-> Cost, pnl |-> 0,
               elapsed |-> 0]
    /\ units = Units /\ basis = Cost /\ realized = 0
    /\ trailing = FALSE /\ high = Cost
    /\ partial = FALSE /\ count = 0 /\ level = 0
    /\ tries = 0
    /\ exit = "Timeout" /\ total = 0
    /\ clock = 0
    /\ queue = <<>> /\ lagged = FALSE
    /\ held = Units /\ earned = 0
    /\ peak = Entry

\* value is at least pct percent above the cost
Reaches(value, cost, pct) ==
    IF cost > 0 THEN (value - cost) * 100 >= pct * cost ELSE pct <= 0
\* Mutant: any fall at all.
FallsAny(value, top, pct) == value <= top
\* value is at least pct percent below top
Falls(value, top, pct) == value * 100 <= top * (100 - pct)
\* The gain at which trailing sell number n + 1 is due.
\* Mutant: the level of the sell just made.
NextLevelFlat(n) == PartialTrigger + TrailingTrigger * n
NextLevel(n) == PartialTrigger + TrailingTrigger * (n + 1)
Share(pct) == (units * pct) \div 100
Higher(a, b) == IF a >= b THEN a ELSE b

Close(reason) == pc' = "close" /\ exit' = reason

-----------------------------------------------------------------------------
(* A turn of the loop *)

ReadPrice ==
    /\ pc = "head"
    /\ clock < TimeClose
    /\ \E price \in Prices :
          /\ tick' = [price |-> price, out |-> units * price, basis |-> basis,
                      pnl |-> realized + units * price - Cost,
                      elapsed |-> clock]
          /\ peak' = Higher(peak, price)
    /\ pc' = "drain"
    /\ UNCHANGED <<position, trail, tries, exit, total, clock, bus, outside>>

\* The keeper returns, and leaves the trade open.
LosePrice ==
    /\ pc = "head"
    /\ clock < TimeClose
    /\ PriceMayFail
    /\ pc' = "gone"
    /\ UNCHANGED <<tick, position, trail, tries, exit, total, clock, bus,
                   outside, peak>>

TimeOut ==
    /\ pc = "head"
    /\ clock >= TimeClose
    /\ Close("Timeout")
    /\ UNCHANGED <<tick, position, trail, tries, total, clock, bus, outside, peak>>

\* The pools of the token, whose liquidity is anybody's to take out.
CheckDrain ==
    /\ pc = "drain"
    /\ \/ LiquidityWatch /\ Close("LiqDrain")
       \/ pc' = "trail" /\ UNCHANGED exit
    /\ UNCHANGED <<tick, position, trail, tries, total, clock, bus, outside, peak>>

CheckTrailing ==
    /\ pc = "trail"
    /\ LET active == trailing \/ Reaches(tick.out, tick.basis, TrailingStop)
           top == IF active /\ ~trailing THEN tick.out ELSE high
       IN /\ trailing' = active
          /\ high' = top
          /\ IF active /\ Falls(tick.out, top, TrailingDrop)
             THEN Close("Trailing")
             ELSE pc' = "partial" /\ UNCHANGED exit
    /\ UNCHANGED <<tick, position, partial, count, level, tries, total, clock,
                   bus, outside, peak>>

\* Mutant: the rest of the units keeps the cost of all of them.
ReduceUnitsOnly(share) ==
    /\ \E slip \in Slips :
          /\ realized' = realized + share * (tick.price - slip)
          /\ earned' = earned + share * (tick.price - slip)
    /\ held' = held - share
    /\ units' = units - share
    /\ high' = (units - share) * tick.price
    /\ tries' = 0
    /\ UNCHANGED basis

\* A settled sell of part of the units, booked at its quote: less than the price of
\* the tick, or more, as that price has the slippage of the sell taken off. The rest
\* keeps its part of the cost, and trails from what it is worth at that price.
Reduce(share) ==
    /\ \E slip \in Slips :
          /\ realized' = realized + share * (tick.price - slip)
          /\ earned' = earned + share * (tick.price - slip)
    /\ held' = held - share
    /\ units' = units - share
    /\ basis' = (basis * (units - share)) \div units
    /\ high' = (units - share) * tick.price
    /\ tries' = 0

PartialDue ==
    /\ ~partial
    /\ tick.pnl * 100 >= PartialTrigger * Cost
    /\ Share(PartialShare) > 0
    /\ tries < Attempts

PartialFilled ==
    /\ pc = "partial"
    /\ PartialDue
    /\ Reduce(Share(PartialShare))
    /\ partial' = TRUE /\ count' = 0 /\ level' = NextLevel(0)
    /\ trailing' = TRUE
    /\ pc' = "trailing"
    /\ UNCHANGED <<tick, exit, total, clock, bus, peak>>

PartialError ==
    /\ pc = "partial"
    /\ PartialDue
    /\ tries' = tries + 1
    /\ UNCHANGED <<pc, tick, position, trail, exit, total, clock, bus, outside, peak>>

\* Not due, or given up until the next turn.
PartialSkip ==
    /\ pc = "partial"
    /\ ~PartialDue
    /\ tries' = 0
    /\ pc' = "trailing"
    /\ UNCHANGED <<tick, position, trail, exit, total, clock, bus, outside, peak>>

\* The condition of the while loop compares what the tick computed, the cost of
\* the units before the sells of this turn included.
TrailingDue ==
    /\ partial /\ level > 0
    /\ Reaches(tick.out, tick.basis, level)
    /\ Share(TrailingShare) > 0
    /\ tries < Attempts

TrailingFilled ==
    /\ pc = "trailing"
    /\ TrailingDue
    /\ Reduce(Share(TrailingShare))
    /\ count' = count + 1
    /\ level' = NextLevel(count + 1)
    /\ pc' = IF Reaches(units' * tick.price, basis', level')
             THEN "trailing" ELSE "exit"
    /\ UNCHANGED <<tick, trailing, partial, exit, total, clock, bus, peak>>

TrailingError ==
    /\ pc = "trailing"
    /\ TrailingDue
    /\ tries' = tries + 1
    /\ UNCHANGED <<pc, tick, position, trail, exit, total, clock, bus, outside, peak>>

TrailingSkip ==
    /\ pc = "trailing"
    /\ ~TrailingDue
    /\ tries' = 0
    /\ pc' = "exit"
    /\ UNCHANGED <<tick, position, trail, exit, total, clock, bus, outside, peak>>

\* Mutant: a trade that trails has no take-profit.
exitbundlerTrailing(top) ==
    IF trailing /\ Falls(tick.out, top, TrailingStop) THEN {"Trailing"}
    ELSE IF ~trailing /\ tick.pnl * 100 >= TakeProfit * Cost THEN {"Takeprofit"}
    ELSE IF tick.pnl * 100 <= -StopLoss * Cost THEN {"Stoploss"}
    ELSE IF ~trailing /\ tick.elapsed >= HoldTime THEN {"Holdtime"}
    ELSE {}

\* The reason to close at this tick, if there is one.
exitbundler(top) ==
    IF trailing /\ Falls(tick.out, top, TrailingStop) THEN {"Trailing"}
    ELSE IF tick.pnl * 100 >= TakeProfit * Cost THEN {"Takeprofit"}
    ELSE IF tick.pnl * 100 <= -StopLoss * Cost THEN {"Stoploss"}
    ELSE IF ~trailing /\ tick.elapsed >= HoldTime THEN {"Holdtime"}
    ELSE {}

\* The high is raised to what the units were worth at the start of the turn,
\* those sold since included.
CheckExit ==
    /\ pc = "exit"
    /\ LET top == IF trailing THEN Higher(high, tick.out) ELSE high IN
          /\ high' = top
          /\ \/ \E reason \in exitbundler(top) : Close(reason)
             \/ exitbundler(top) = {} /\ pc' = "wait" /\ UNCHANGED exit
    /\ UNCHANGED <<tick, position, trailing, partial, count, level, tries, total,
                   clock, bus, outside, peak>>

\* The timer: all that is left of the select once it has seen that the receiver
\* lags, and free to win over a command that comes in as it fires.
Sleep ==
    /\ pc = "wait"
    /\ lagged' \in {lagged, FALSE}
    /\ pc' = "head"
    /\ UNCHANGED <<tick, position, trail, tries, exit, total, clock, queue,
                   outside, peak>>

\* Mutant: waits on after the command of another trade.
ReceiveWaiting ==
    /\ pc = "wait"
    /\ queue # <<>> /\ ~lagged
    /\ queue' = Tail(queue)
    /\ IF Head(queue) = "mine" THEN Close("Withdraw") ELSE UNCHANGED <<pc, exit>>
    /\ UNCHANGED <<tick, position, trail, tries, total, clock, lagged, outside, peak>>

Receive ==
    /\ pc = "wait"
    /\ queue # <<>> /\ ~lagged
    /\ queue' = Tail(queue)
    /\ \/ Head(queue) = "mine" /\ Close("Withdraw")
       \/ Head(queue) # "mine" /\ pc' = "head" /\ UNCHANGED exit
    /\ UNCHANGED <<tick, position, trail, tries, total, clock, lagged, outside, peak>>

-----------------------------------------------------------------------------
(* handlerclose; its wallet and rows are in OrderDesk. *)

\* Mutant: sells what was bought.
CloseFilledWhole ==
    /\ pc = "close"
    /\ tries < Attempts
    /\ \E price \in Prices, slip \in Slips :
          /\ total' = realized + Units * (price - slip)
          /\ earned' = earned + Units * (price - slip)
    /\ held' = held - Units
    /\ pc' = "closed"
    /\ UNCHANGED <<tick, position, trail, tries, exit, clock, bus, peak>>

\* The swap is quoted when it is made, whatever the price of the last tick.
CloseFilled ==
    /\ pc = "close"
    /\ tries < Attempts
    /\ \E price \in Prices, slip \in Slips :
          /\ total' = realized + units * (price - slip)
          /\ earned' = earned + units * (price - slip)
    /\ held' = held - units
    /\ pc' = "closed"
    /\ UNCHANGED <<tick, position, trail, tries, exit, clock, bus, peak>>

CloseError ==
    /\ pc = "close"
    /\ tries < Attempts
    /\ tries' = tries + 1
    /\ UNCHANGED <<pc, tick, position, trail, exit, total, clock, bus, outside, peak>>

CloseGivenUp ==
    /\ pc = "close"
    /\ tries = Attempts
    /\ total' = 0
    /\ pc' = "closed"
    /\ UNCHANGED <<tick, position, trail, tries, exit, clock, bus, outside, peak>>

-----------------------------------------------------------------------------
(* Around the keeper *)

Living == pc \notin {"closed", "gone"}

\* Time goes by, whatever the keeper is waiting for. Bound: TimeClose.
Pass ==
    /\ Living
    /\ clock < TimeClose
    /\ clock' = clock + 1
    /\ UNCHANGED <<pc, tick, position, trail, tries, exit, total, bus, outside, peak>>

\* eventcallback calls signalclose for the mint of this trade, or of another. A
\* full broadcast drops its oldest command, and the receiver lags.
signalclose ==
    /\ Living /\ pc # "close"
    /\ \E whose \in {"mine", "other"} :
          IF Len(queue) < Capacity
          THEN queue' = Append(queue, whose) /\ UNCHANGED lagged
          ELSE queue' = Append(Tail(queue), whose) /\ lagged' = TRUE
    /\ UNCHANGED <<pc, tick, position, trail, tries, exit, total, clock, outside, peak>>

Done == ~Living /\ UNCHANGED vars

KeeperStep ==
    \/ ReadPrice \/ LosePrice \/ TimeOut
    \/ CheckDrain \/ CheckTrailing
    \/ PartialFilled \/ PartialError \/ PartialSkip
    \/ TrailingFilled \/ TrailingError \/ TrailingSkip
    \/ CheckExit \/ Sleep \/ Receive
    \/ CloseFilled \/ CloseError \/ CloseGivenUp

Next == KeeperStep \/ Pass \/ signalclose \/ Done

Spec == Init /\ [][Next]_vars

\* The keeper is a task of its own, and time goes by.
FairSpec == Spec /\ WF_vars(KeeperStep) /\ WF_vars(Pass)

-----------------------------------------------------------------------------
(* Properties *)

\* Partial sells leave the cost of a unit alone, so that the thresholds mean
\* the same gain after any number of them.
CostBasis == basis * Units = Cost * units

\* Every partial sell was earned: trailing sell number n is made only once a
\* price has been read that is PartialTrigger + n * TrailingTrigger percent
\* above the entry, however many of them one turn makes.
SellsEarned ==
    /\ partial => peak * 100 >= Entry * (100 + PartialTrigger)
    /\ count > 0 =>
          peak * 100 >= Entry * (100 + PartialTrigger + TrailingTrigger * count)

\* A trade that never sold in part is closed as Trailing only at a price that
\* is below the highest it has read, by the least of the two drops.
TrailingFromPeak ==
    (exit = "Trailing" /\ ~partial) =>
        \/ tick.price * 100 <= peak * (100 - TrailingDrop)
        \/ tick.price * 100 <= peak * (100 - TrailingStop)

\* config/bot.yaml of trailingstop: a decline from the peak price triggers it.
TrailingMeansDecline == exit = "Trailing" => tick.price < peak

\* No trade is kept at a price at which it stands at its stop-loss or, unless the
\* sells of the turn were quoted more than the price, at its take-profit: what is
\* computed before the sells of a turn still holds after them, but for a gain that
\* those sells made, which only the next turn sees. The stop-loss half takes quotes
\* that are less below the price than the first partial sell is above the stop-loss.
KeptInBand ==
    LET standing == realized + units * tick.price - Cost IN
    pc = "wait" =>
        /\ standing * 100 > -StopLoss * Cost
        /\ standing * 100 < TakeProfit * Cost \/ standing > tick.pnl

\* orders.timeclose ends the loop, whatever the price does and however many
\* commands for other trades come in.
KeeperEnds == <>~Living

\* The keeper implements Position.
P == INSTANCE Position WITH
        Whole <- Units,
        Rates <- {price - slip : price \in Prices, slip \in Slips},
        left <- held,
        income <- earned,
        over <- pc = "closed"

ImplementsPosition == P!PSpec
=============================================================================
