------------------------ MODULE OrderDeskTables_proofs ------------------------
(***************************************************************************)
(* That the tables and the cache tell the truth: a closed trade's total is *)
(* what its sells were quoted, the cache counts the open rows, with one    *)
(* trade at a time the wallet follows the swaps and the watcher exits with *)
(* nothing open.                                                           *)
(***************************************************************************)
EXTENDS OrderDesk_proofs

-----------------------------------------------------------------------------
(* Totals *)

\* Errors of the swap client mean that nothing was sold, and partial sells are
\* booked and found again.
NoSaleFaults ==
    ~Landed /\ Faults \cap {"tradepartialsell", "traderealized"} = {}

Unbooked == {"preread", "pcredit", "pbook", "settle"}
Ended == {"close", "closed"} \cup Closing

\* Until the close the row has all that was earned, but for the last fill.
Booked(o) ==
    /\ pc[o] \in Unbooked => earned[o] = realized[o] + fill[o]
    /\ pc[o] \notin Unbooked \cup Ended => earned[o] = realized[o]
    /\ pc[o] = "sell" => fill[o] = 0
    /\ pc[o] = "close" => fill[o] \in {0, earned[o]}
    /\ status[o] = "closed" => total[o] \in {0, earned[o]}

FillInv == \A o \in Orders : Booked(o)

\* Each fill is booked before the next sell.
LEMMA FillStep ==
    ASSUME NoSaleFaults
    PROVE  TypeInv /\ RowInv /\ FillInv /\ [Next]_vars => FillInv'
<1> SUFFICES ASSUME TypeInv, RowInv, FillInv, [Next]_vars PROVE FillInv'
  OBVIOUS
<1> /\ pc \in [Orders -> Places] /\ fill \in [Orders -> Int] /\ earned \in [Orders -> Int]
    /\ realized \in [Orders -> Int] /\ total \in [Orders -> Int]
    /\ status \in [Orders -> {"none", "open", "closed"}]
  BY DEF TypeInv, TypeOK, StoreTypeOK
<1>0. \A o \in Orders : /\ pc[o] \in Unwritten => status[o] = "none"
                        /\ pc[o] \in Written => status[o] = "open"
  BY DEF RowInv
<1> USE DEF FillInv, Booked, Unbooked, Ended, Closing, Goto, Abort, taskvars, chainvars,
        storevars, rowvars
<1>1. ASSUME NEW o \in Orders, Arrive(o) PROVE FillInv'
  BY <1>1 DEF Arrive
<1>2. ASSUME NEW o \in Orders, OrderStep(o) PROVE FillInv'
  <2>1. CASE MintLock(o) BY <2>1 DEF MintLock
  <2>2. CASE TakePermit(o) BY <2>2 DEF TakePermit
  <2>3. CASE ScreenOut(o) BY <2>3 DEF ScreenOut
  <2>4. CASE CheckOpenTrades(o) BY <2>4 DEF CheckOpenTrades
  <2>5. CASE CheckMaxTrades(o) BY <2>5 DEF CheckMaxTrades
  <2>6. CASE CheckExists(o) BY <2>6 DEF CheckExists
  <2>7. CASE CheckFunds(o) BY <2>7 DEF CheckFunds
  <2>8. CASE BuyFilled(o) BY <2>8 DEF BuyFilled, Spend
  <2>9. CASE BuyOutOfRange(o) BY <2>9 DEF BuyOutOfRange
  <2>10. CASE BuyError(o) BY <2>10 DEF BuyError, Spend
  <2>11. CASE RereadWallet(o) BY <2>11 DEF RereadWallet
  <2>12. CASE Debit(o) BY <2>12 DEF Debit
  <2>13. CASE CreateTrade(o) BY <2>13 DEF CreateTrade, tradecreate
  <2>14. CASE BumpCache(o) BY <2>14 DEF BumpCache
  <2>15. CASE Release(o) BY <2>15 DEF Release
  <2> QED
    BY <1>2, <2>1, <2>2, <2>3, <2>4, <2>5, <2>6, <2>7, <2>8, <2>9, <2>10,
       <2>11, <2>12, <2>13, <2>14, <2>15 DEF OrderStep
<1>3. ASSUME NEW o \in Orders, MintUnlock(o) PROVE FillInv'
  BY <1>3 DEF MintUnlock
<1>4. ASSUME NEW o \in Orders, KeeperStep(o) PROVE FillInv'
  <2>0. /\ Landed = FALSE /\ "tradepartialsell" \notin Faults /\ "traderealized" \notin Faults
    BY NoSaleFaults DEF NoSaleFaults
  <2>1. CASE LosePrice(o) BY <2>1 DEF LosePrice
  <2>2. CASE PartialSell(o) BY <1>0, <2>0, <2>2 DEF PartialSell, Earn, Written, Keeping
  <2>3. CASE PartialReread(o) BY <2>3 DEF PartialReread
  <2>4. CASE PartialCredit(o) BY <2>4 DEF PartialCredit
  <2>5. CASE PartialBook(o)
    BY <1>0, <2>0, <2>5 DEF PartialBook, tradepartialsell, Fails, Written, Keeping
  <2>6. CASE StartClose(o) BY <2>6 DEF StartClose
  <2>7. CASE SellFilled(o) BY <1>0, <2>7 DEF SellFilled, Earn, Written, Keeping
  <2>8. CASE SellError(o) BY <2>0, <2>8 DEF SellError
  <2>9. CASE Settle(o) BY <2>0, <2>9 DEF Settle, Fails
  <2>10. CASE CloseRow(o) BY <2>10 DEF CloseRow, tradeclose
  <2>11. CASE Uncount(o) BY <2>11 DEF Uncount
  <2>12. CASE RemoveCount(o) BY <2>12 DEF RemoveCount
  <2> QED
    BY <1>4, <2>1, <2>2, <2>3, <2>4, <2>5, <2>6, <2>7, <2>8, <2>9, <2>10,
       <2>11, <2>12 DEF KeeperStep, SellStep
<1>5. ASSUME WatchStep PROVE FillInv'
  BY <1>5 DEF WatchStep, WatchOpen, WatchTotal, Exit
<1>6. CASE UNCHANGED vars
  BY <1>6 DEF vars
<1> QED
  BY <1>1, <1>2, <1>3, <1>4, <1>5, <1>6 DEF Next, Terminated

\* However partial sells, retries and closes interleave, the total of a closed
\* trade is what all its sells were quoted, or 0 when the last was given up.
THEOREM TotalsAreFillsHolds ==
    ASSUME NoSaleFaults
    PROVE  Spec => []TotalsAreFills
<1> DEFINE Inv == TypeInv /\ RowInv /\ FillInv
<1>1. Init => Inv
  <2>1. Init => FillInv
    BY DEF Init, StoreInit, FillInv, Booked, Unbooked, Ended, Closing
  <2> QED
    BY <2>1, TypeInit, RowInit
<1>2. Inv /\ [Next]_vars => Inv'
  BY TypeStep, RowStep, FillStep, NoSaleFaults
<1>3. Inv => TotalsAreFills
  BY DEF FillInv, Booked, TotalsAreFills, ClosedRows
<1> QED
  BY <1>1, <1>2, <1>3, PTL DEF Spec
-----------------------------------------------------------------------------
(* Shutdown *)

\* The watcher goes on only after it has counted enough closed trades, and closed
\* trades stay closed.
WatchInv ==
    /\ watch # "sleep" => MaxTrades > 0
    /\ watch \in {"export", "exited"} => tradestotal >= MaxTrades

\* The number of closed trades only grows.
LEMMA ClosedStay ==
    ASSUME TypeInv, RowInv, [Next]_vars
    PROVE  tradestotal \in Nat /\ tradestotal' \in Nat /\ tradestotal <= tradestotal'
<1>1. StoreTypeOK /\ StoreTypeOK'
  BY TypeStep DEF TypeInv, TypeOK
<1>2. IsFiniteSet(ClosedRows') /\ tradestotal' \in Nat
  <2>1. ClosedRows' \in SUBSET Orders
    BY DEF ClosedRows
  <2> QED
    BY <2>1, FS_Subset, FS_CardinalityType, StoreAssumption DEF tradestotal
<1>3. ClosedRows \in SUBSET ClosedRows'
  BY FinalStep
<1> QED
  BY <1>1, <1>2, <1>3, RowCounts, FS_Subset DEF tradestotal

\* The watcher has seen no more than there was.
LEMMA WatchInvStep == TypeInv /\ RowInv /\ WatchInv /\ [Next]_vars => WatchInv'
<1> SUFFICES ASSUME TypeInv, RowInv, WatchInv, [Next]_vars PROVE WatchInv'
  OBVIOUS
<1>1. \/ watch' = watch
      \/ watch = "sleep" /\ watch' = "idle" /\ MaxTrades > 0
      \/ watch = "idle" /\ watch' = "export" /\ tradestotal >= MaxTrades
      \/ watch = "idle" /\ watch' = "sleep"
      \/ watch = "export" /\ watch' = "exited"
  <2>1. ASSUME NEW o \in Orders, Arrive(o) \/ OrderStep(o) \/ MintUnlock(o)
        PROVE  watch' = watch
    BY <2>1 DEF Arrive, MintUnlock, OrderStep, MintLock, TakePermit, ScreenOut,
       CheckOpenTrades, CheckMaxTrades, CheckExists, CheckFunds, BuyFilled, BuyOutOfRange,
       BuyError, RereadWallet, Debit, CreateTrade, BumpCache, Release
  <2>2. ASSUME NEW o \in Orders, KeeperStep(o)
        PROVE  watch' = watch
    BY <2>2 DEF KeeperStep, SellStep, LosePrice, PartialSell, PartialReread, PartialCredit,
       PartialBook, StartClose, SellFilled, SellError, Settle, CloseRow, Uncount,
       RemoveCount
  <2>3. CASE UNCHANGED vars
    BY <2>3 DEF vars
  <2> QED
    BY <2>1, <2>2, <2>3 DEF Next, Terminated, WatchStep, WatchOpen, WatchTotal, Exit
<1> QED
  BY <1>1, ClosedStay, DeskAssumption DEF WatchInv

\* With one trade at a time, as config/bot.yaml ships it, the process exits with
\* nothing open and nobody buying: MaxTrades closed trades are all it may have.
THEOREM ExitIsCleanHolds ==
    ASSUME NoLimitFaults, OpenTrades = 1
    PROVE  Spec => []ExitIsClean
<1> DEFINE Inv == DeskInv /\ WatchInv
<1>1. Init => Inv
  BY TypeInit, PermitInit, RowInit, LimitInit DEF Init, WatchInv, DeskInv
<1>2. Inv /\ [Next]_vars => Inv'
  BY TypeStep, PermitStep, RowStep, LimitStep, WatchInvStep, NoLimitFaults DEF DeskInv
<1>3. Inv => ExitIsClean
  <2> SUFFICES ASSUME Inv, watch \in {"export", "exited"}
               PROVE  /\ OpenRows = {}
                      /\ \A o \in Orders : pc[o] \notin Buying
    BY DEF ExitIsClean
  <2>1. MaxTrades > 0 /\ tradestotal >= MaxTrades
    BY DEF WatchInv
  <2>2. /\ IsFiniteSet(OpenRows) /\ tradescount \in Nat /\ tradestotal \in Nat
        /\ Cardinality(Rows) = tradescount + tradestotal
    BY RowCounts DEF DeskInv, TypeInv, TypeOK
  <2>3. /\ Cardinality(Rows) <= MaxTrades
        /\ \A o \in Orders : pc[o] \in PastTotal => Cardinality(Rows) < MaxTrades
    BY <2>1, <2>2, OpenTrades = 1, DeskAssumption DEF DeskInv, LimitInv
  <2>4. OpenRows = {}
    BY <2>1, <2>2, <2>3, FS_EmptySet, DeskAssumption DEF tradescount
  <2>5. \A o \in Orders : pc[o] \notin Buying
    BY <2>1, <2>2, <2>3, DeskAssumption DEF PastTotal, PastExists
  <2> QED
    BY <2>4, <2>5
<1> QED
  BY <1>1, <1>2, <1>3, PTL DEF Spec
-----------------------------------------------------------------------------
(* The cache *)

\* What POSTGRESOPENTRADE holds for the mint of a row, which one task writes.
Cell(o) ==
    IF pc[o] = "bump" \/ (pc[o] = "closed" /\ status[o] = "closed") THEN None
    ELSE IF pc[o] = "remove" THEN 0
    ELSE 1

CacheInv ==
    /\ \A m \in Mints : ~tradeexists(m) => opentrade[m] = None
    /\ \A o \in Rows : opentrade[mint[o]] = Cell(o)

\* The steps that touch neither the cache nor what it should hold.
Aside ==
    /\ mint' = mint /\ status' = status /\ opentrade' = opentrade
    /\ \A o \in Rows : Cell(o)' = Cell(o)

\* Who touches the cache or the rows it counts; the other steps stand aside.
LEMMA CacheSteps ==
    ASSUME TypeInv, RowInv, Next
    PROVE  \/ Aside
           \/ \E o \in Orders : \/ CreateTrade(o) \/ CloseRow(o) \/ BumpCache(o)
                                \/ Uncount(o) \/ RemoveCount(o)
<1> /\ pc \in [Orders -> Places]
    /\ status \in [Orders -> {"none", "open", "closed"}]
  BY DEF TypeInv, TypeOK, StoreTypeOK
<1>1. \A o \in Orders : pc[o] \in Unwritten => o \notin Rows
  BY DEF RowInv, Rows
<1> USE DEF Aside, Cell, storevars, rowvars
<1>2. ASSUME NEW o \in Orders, Arrive(o) PROVE Aside
  BY <1>1, <1>2 DEF Arrive, Goto, Unwritten
<1>3. ASSUME NEW o \in Orders, OrderStep(o), ~CreateTrade(o), ~BumpCache(o)
      PROVE  Aside
  <2>1. /\ mint' = mint /\ status' = status /\ opentrade' = opentrade
        /\ pc[o] \in {"lock", "gate", "release"} \cup Screening \cup Buying
        /\ \A q \in Orders \ {o} : pc'[q] = pc[q]
    BY <1>3 DEF OrderStep, MintLock, TakePermit, ScreenOut, CheckOpenTrades,
       CheckMaxTrades, CheckExists, CheckFunds, BuyFilled, BuyOutOfRange, BuyError,
       RereadWallet, Debit, Release, Goto, Abort, Screening, Buying
  <2>2. pc[o] = "release" => pc'[o] = "hold"
    BY <1>3 DEF OrderStep, MintLock, TakePermit, ScreenOut, CheckOpenTrades,
       CheckMaxTrades, CheckExists, CheckFunds, BuyFilled, BuyOutOfRange, BuyError,
       RereadWallet, Debit, Release, Goto
  <2>3. o \in Rows => pc[o] = "release"
    BY <1>1, <2>1 DEF Unwritten
  <2>4. \A q \in Rows : Cell(q)' = Cell(q)
    BY <2>1, <2>2, <2>3 DEF Rows
  <2> QED
    BY <2>1, <2>4
<1>4. ASSUME NEW o \in Orders, MintUnlock(o) PROVE Aside
  BY <1>4 DEF MintUnlock
<1>5. ASSUME NEW o \in Orders, KeeperStep(o), ~CloseRow(o), ~Uncount(o), ~RemoveCount(o)
      PROVE  Aside
  <2>1. /\ mint' = mint /\ status' = status /\ opentrade' = opentrade
        /\ pc[o] \in Keeping /\ pc'[o] \in Keeping \cup {"stuck"}
        /\ \A q \in Orders \ {o} : pc'[q] = pc[q]
    BY <1>5 DEF KeeperStep, SellStep, LosePrice, PartialSell, PartialReread, PartialCredit,
       PartialBook, tradepartialsell, StartClose, SellFilled, SellError, Settle, Goto,
       Keeping
  <2> QED
    BY <2>1 DEF Keeping, Rows
<1>6. ASSUME WatchStep PROVE Aside
  BY <1>6 DEF WatchStep, WatchOpen, WatchTotal, Exit
<1>7. CASE UNCHANGED vars
  BY <1>7 DEF vars
<1> QED
  BY <1>2, <1>3, <1>4, <1>5, <1>6, <1>7 DEF Next, Terminated, KeeperStep, SellStep

\* A task that writes the cell of its own mint writes no other.
LEMMA CellStep ==
    ASSUME TypeInv, OneTradePerMint, CacheInv, NEW o \in Rows,
           opentrade' = [opentrade EXCEPT ![mint[o]] = Cell(o)'],
           mint' = mint, status' = status,
           \A q \in Orders \ {o} : pc'[q] = pc[q]
    PROVE  CacheInv'
<1>1. /\ opentrade \in [Mints -> Nat \cup {None}] /\ mint \in [Orders -> Mints]
      /\ o \in Orders /\ Rows' = Rows
  BY DEF TypeInv, TypeOK, StoreTypeOK, Rows
<1>2. \A m \in Mints : ~tradeexists(m)' => opentrade'[m] = None
  <2> SUFFICES ASSUME NEW m \in Mints, ~tradeexists(m)' PROVE opentrade'[m] = None
    OBVIOUS
  <2>1. ~tradeexists(m) /\ m # mint[o]
    BY <1>1 DEF tradeexists
  <2> QED
    BY <1>1, <2>1 DEF CacheInv
<1>3. \A q \in Rows \ {o} : opentrade'[mint[q]] = Cell(q)'
  <2> SUFFICES ASSUME NEW q \in Rows \ {o} PROVE opentrade'[mint[q]] = Cell(q)'
    OBVIOUS
  <2>1. mint[q] # mint[o] /\ q \in Orders /\ mint[q] \in Mints
    BY <1>1 DEF OneTradePerMint, Rows
  <2>2. Cell(q)' = Cell(q)
    BY <2>1 DEF Cell
  <2> QED
    BY <1>1, <2>1, <2>2 DEF CacheInv
<1>4. opentrade'[mint[o]] = Cell(o)'
  BY <1>1
<1> QED
  BY <1>1, <1>2, <1>3, <1>4 DEF CacheInv

\* Each of those keeps the cache in step with the rows.
LEMMA CacheStep ==
    ASSUME NoLimitFaults
    PROVE  DeskInv /\ CacheInv /\ [Next]_vars => CacheInv'
<1> SUFFICES ASSUME DeskInv, CacheInv, [Next]_vars PROVE CacheInv'
  OBVIOUS
<1> /\ pc \in [Orders -> Places] /\ mint \in [Orders -> Mints]
    /\ status \in [Orders -> {"none", "open", "closed"}]
    /\ opentrade \in [Mints -> Nat \cup {None}]
    /\ TypeInv /\ RowInv /\ OneTradePerMint
  BY DEF DeskInv, LimitInv, TypeInv, TypeOK, StoreTypeOK
<1> USE StoreAssumption
<1>1. CASE Aside
  BY <1>1 DEF Aside, CacheInv, Rows, tradeexists
<1>2. ASSUME NEW o \in Orders, CreateTrade(o) PROVE CacheInv'
  <2>1. pc[o] = "create" /\ ~tradeexists(mint[o]) /\ o \notin Rows
    BY <1>2 DEF CreateTrade, DeskInv, LimitInv, PastExists, Buying, RowInv, Unwritten, Rows
  <2>2. /\ opentrade' = opentrade /\ mint' = mint
        /\ \A q \in Orders \ {o} : pc'[q] = pc[q] /\ status'[q] = status[q]
    BY <1>2 DEF CreateTrade, tradecreate, Goto, Abort, rowvars
  <2>3. /\ o \in Rows' => Cell(o)' = None
        /\ Rows' \ {o} = Rows
        /\ \A q \in Rows : Cell(q)' = Cell(q)
    BY <1>2, <2>1, <2>2 DEF CreateTrade, tradecreate, Goto, Abort, rowvars, Rows, Cell
  <2>4. \A m \in Mints : ~tradeexists(m)' => ~tradeexists(m)
    BY <2>2, <2>3 DEF tradeexists
  <2>5. opentrade[mint[o]] = None
    BY <2>1 DEF CacheInv
  <2> QED
    BY <2>2, <2>3, <2>4, <2>5 DEF CacheInv
<1>3. ASSUME NEW o \in Orders, CloseRow(o) PROVE CacheInv'
  <2>1. pc[o] = "close" /\ status[o] = "open" /\ o \in Rows
    BY <1>3 DEF CloseRow, RowInv, Written, Keeping, Rows
  <2>2. /\ opentrade' = opentrade /\ mint' = mint
        /\ \A q \in Orders \ {o} : pc'[q] = pc[q] /\ status'[q] = status[q]
        /\ \/ pc'[o] = "uncount" /\ status'[o] = "closed"
           \/ pc'[o] = "closed" /\ status'[o] = "open"
    BY <1>3, <2>1 DEF CloseRow, tradeclose, Goto, rowvars
  <2>3. Rows' = Rows /\ \A q \in Rows : Cell(q)' = Cell(q)
    BY <2>1, <2>2 DEF Rows, Cell
  <2> QED
    BY <2>2, <2>3 DEF CacheInv, tradeexists
<1>4. ASSUME NEW o \in Orders, BumpCache(o) PROVE CacheInv'
  <2>1. pc[o] = "bump" /\ o \in Rows /\ mint' = mint /\ status' = status
    BY <1>4 DEF BumpCache, RowInv, Written, Opening, Rows, rowvars
  <2>2. opentrade[mint[o]] = None
    BY <2>1 DEF CacheInv, Cell
  <2>3. opentrade' = [opentrade EXCEPT ![mint[o]] = 1]
    BY <1>4, <2>2 DEF BumpCache, countopen
  <2>4. pc'[o] = "release" /\ \A q \in Orders \ {o} : pc'[q] = pc[q]
    BY <1>4 DEF BumpCache, Goto
  <2>5. Cell(o)' = 1
    BY <2>4 DEF Cell
  <2> QED
    BY <2>1, <2>3, <2>4, <2>5, CellStep
<1>5. ASSUME NEW o \in Orders, Uncount(o) PROVE CacheInv'
  <2>1. pc[o] = "uncount" /\ o \in Rows /\ mint' = mint /\ status' = status
    BY <1>5 DEF Uncount, RowInv, Closing, Rows, rowvars
  <2>2. opentrade[mint[o]] = 1
    BY <2>1 DEF CacheInv, Cell
  <2>3. opentrade' = [opentrade EXCEPT ![mint[o]] = 0]
    BY <1>5, <2>2 DEF Uncount, countclosed
  <2>4. pc'[o] = "remove" /\ \A q \in Orders \ {o} : pc'[q] = pc[q]
    BY <1>5, <2>2 DEF Uncount, Goto
  <2>5. Cell(o)' = 0
    BY <2>4 DEF Cell
  <2> QED
    BY <2>1, <2>3, <2>4, <2>5, CellStep
<1>6. ASSUME NEW o \in Orders, RemoveCount(o) PROVE CacheInv'
  <2>1. /\ pc[o] = "remove" /\ o \in Rows /\ status[o] = "closed"
        /\ mint' = mint /\ status' = status
    BY <1>6 DEF RemoveCount, RowInv, Closing, Rows, rowvars
  <2>2. opentrade' = [opentrade EXCEPT ![mint[o]] = None]
    BY <1>6 DEF RemoveCount, countremove
  <2>3. pc'[o] = "closed" /\ \A q \in Orders \ {o} : pc'[q] = pc[q]
    BY <1>6 DEF RemoveCount, Goto
  <2>4. Cell(o)' = None
    BY <2>1, <2>3 DEF Cell
  <2> QED
    BY <2>1, <2>2, <2>3, <2>4, CellStep
<1>7. CASE UNCHANGED vars
  BY <1>7 DEF vars, storevars, rowvars, CacheInv, Rows, Cell, tradeexists
<1> QED
  BY <1>1, <1>2, <1>3, <1>4, <1>5, <1>6, <1>7, CacheSteps

\* POSTGRESOPENTRADE agrees with the open rows of every mint that no tradecreate or
\* tradeclose is at work on: the remove after the decrement never takes the count
\* of a later trade with it, as a mint has no second one.
THEOREM CacheAgreesHolds ==
    ASSUME NoLimitFaults
    PROVE  Spec => []CacheAgrees
<1> DEFINE Inv == DeskInv /\ CacheInv
<1>1. Init => Inv
  <2>1. Init => CacheInv
    BY DEF Init, StoreInit, CacheInv, Rows
  <2> QED
    BY <2>1, TypeInit, PermitInit, RowInit, LimitInit DEF DeskInv
<1>2. Inv /\ [Next]_vars => Inv'
  BY TypeStep, PermitStep, RowStep, LimitStep, CacheStep, NoLimitFaults DEF DeskInv
<1>3. Inv => CacheAgrees
  <2> SUFFICES ASSUME Inv, NEW m \in Mints,
                      \A o \in Orders : mint[o] = m => pc[o] \notin {"bump"} \cup Closing
               PROVE  Cardinality({o \in OpenRows : mint[o] = m})
                          = IF opentrade[m] = None THEN 0 ELSE opentrade[m]
    BY DEF CacheAgrees
  <2> DEFINE Open == {o \in OpenRows : mint[o] = m}
  <2>0. /\ pc \in [Orders -> Places]
        /\ status \in [Orders -> {"none", "open", "closed"}]
    BY DEF DeskInv, TypeInv, TypeOK, StoreTypeOK
  <2>1. CASE Open = {}
    <3>1. opentrade[m] = None
      <4>1. ASSUME NEW o \in Rows, mint[o] = m PROVE Cell(o) = None
        <5>1. o \in Orders /\ status[o] = "closed"
          BY <2>0, <2>1, <4>1 DEF Rows, OpenRows
        <5>2. pc[o] = "closed"
          BY <2>0, <4>1, <5>1 DEF DeskInv, RowInv, Unwritten, Written, Places, InOrder,
             Critical, Over
        <5> QED
          BY <5>1, <5>2 DEF Cell
      <4> QED
        BY <4>1 DEF CacheInv, tradeexists
    <3> QED
      BY <2>1, <3>1, FS_EmptySet
  <2>2. CASE Open # {}
    <3>1. PICK o \in Open : TRUE
      BY <2>2
    <3>2. o \in Orders /\ o \in Rows /\ status[o] = "open" /\ mint[o] = m
      BY <3>1 DEF OpenRows, Rows
    <3>3. Open = {o}
      BY <3>1, <3>2 DEF DeskInv, LimitInv, OneTradePerMint, OpenRows, Rows
    <3>4. opentrade[m] = 1
      <4>1. Cell(o) = 1
        BY <3>2 DEF Cell, Closing
      <4> QED
        BY <3>2, <4>1 DEF CacheInv
    <3>5. Cardinality(Open) = 1
      BY <3>3, FS_Singleton
    <3> QED
      BY <3>4, <3>5, StoreAssumption
  <2> QED
    BY <2>1, <2>2
<1> QED
  BY <1>1, <1>2, <1>3, PTL DEF Spec
-----------------------------------------------------------------------------
(* The wallet *)

\* Errors of the swap client mean that nothing was swapped, and the wallet can
\* always be read and written.
NoWalletFaults ==
    ~Landed /\ Faults \cap {"walletbalance", "walletupdate"} = {}

Busy == Buying \cup Keeping
Spent == {"reread", "debit"}
Gained == {"preread", "pcredit", "settle"}

\* With one trade at a time nobody buys while a keeper has a trade.
LEMMA OneIsBusy ==
    ASSUME DeskInv, OpenTrades = 1,
           NEW o \in Orders, pc[o] \in Busy, NEW q \in Orders, pc[q] \in Busy
    PROVE  o = q
<1>1. \A r \in Orders : pc[r] \in Keeping => r \in OpenRows
  BY DEF DeskInv, RowInv, Written, OpenRows
<1>2. IsFiniteSet(OpenRows) /\ tradescount \in Nat
  BY RowCounts DEF DeskInv, TypeInv, TypeOK
<1>3. /\ tradescount <= 1
      /\ \A r \in Orders : pc[r] \in Buying => tradescount = 0
  <2>1. Buying \subseteq PastOpen
    BY DEF PastOpen, PastTotal, PastExists
  <2> QED
    BY <1>2, <2>1, OpenTrades = 1 DEF DeskInv, LimitInv
<1>4. CASE pc[o] \in Buying /\ pc[q] \in Buying
  BY <1>4 DEF DeskInv, PermitHeld, Critical
<1>5. CASE pc[o] \in Keeping /\ pc[q] \in Keeping
  <2>1. {o, q} \in SUBSET OpenRows
    BY <1>1, <1>5
  <2>2. Cardinality({o, q}) <= 1
    BY <1>2, <1>3, <2>1, FS_Subset, FS_CardinalityType DEF tradescount
  <2>3. o # q => Cardinality({o, q}) = 2
    <3>1. SUFFICES ASSUME o # q PROVE Cardinality({o, q}) = 2
      OBVIOUS
    <3>2. IsFiniteSet({o}) /\ Cardinality({o}) = 1
      BY FS_Singleton
    <3>3. Cardinality({o} \cup {q}) = 2
      BY <3>1, <3>2, FS_AddElement
    <3>4. {o} \cup {q} = {o, q}
      OBVIOUS
    <3> QED
      BY <3>3, <3>4
  <2> QED
    BY <2>2, <2>3
<1>6. ASSUME NEW r \in Orders, pc[r] \in Keeping, NEW s \in Orders, pc[s] \in Buying
      PROVE  FALSE
  <2>1. OpenRows # {} /\ Cardinality(OpenRows) = 0
    BY <1>1, <1>3, <1>6 DEF tradescount
  <2> QED
    BY <1>2, <2>1, FS_EmptySet
<1> QED
  BY <1>4, <1>5, <1>6 DEF Busy

\* What the wallet table lacks of the quotes is the fill of the one task that is
\* between a swap and its walletupdate; a balance in hand is the current one.
Ledger(o) ==
    /\ pc[o] \in Spent => quoted = balance - fill[o]
    /\ pc[o] \in Gained => quoted = balance + fill[o]
    /\ pc[o] = "sell" => quoted = balance
    /\ pc[o] \in {"debit", "pcredit", "sell", "settle"} => seen[o] = balance

WalletInv ==
    /\ \A o \in Orders : Ledger(o)
    /\ (\A o \in Orders : pc[o] \notin Spent \cup Gained) => balance = quoted

\* A step of o, who alone may be between a swap and its update.
LEMMA LedgerStep ==
    ASSUME TypeInv, WalletInv, NEW o \in Orders,
           \A q \in Orders \ {o} :
              /\ pc'[q] = pc[q] /\ fill'[q] = fill[q] /\ seen'[q] = seen[q]
              /\ pc[q] \notin Busy \/ (quoted' = quoted /\ balance' = balance),
           Ledger(o)',
           \/ pc'[o] \in Spent \cup Gained
           \/ balance' = quoted'
           \/ balance' = balance /\ quoted' = quoted /\ pc[o] \notin Spent \cup Gained
    PROVE  WalletInv'
<1>1. \A q \in Orders \ {o} : Ledger(q)'
  BY DEF WalletInv, Ledger, Busy, Buying, Keeping, Spent, Gained
<1>2. (\A q \in Orders : pc'[q] \notin Spent \cup Gained) => balance' = quoted'
  BY DEF WalletInv
<1> QED
  BY <1>1, <1>2 DEF WalletInv

\* Where a step writes the wallet, settles a swap, or reads the wallet.
Trades(o) ==
    /\ pc[o] \in Busy
    /\ \A q \in Orders \ {o} : pc'[q] = pc[q] /\ fill'[q] = fill[q] /\ seen'[q] = seen[q]
    /\ Ledger(o)'
    /\ \/ pc'[o] \in Spent \cup Gained
       \/ balance' = quoted'
       \/ balance' = balance /\ quoted' = quoted /\ pc[o] \notin Spent \cup Gained

\* Every other step moves a task between places where nothing is outstanding.
Rests ==
    /\ quoted' = quoted /\ balance' = balance /\ fill' = fill /\ seen' = seen
    /\ \A q \in Orders : pc'[q] = pc[q]
                         \/ {pc[q], pc'[q]} \cap (Spent \cup Gained \cup {"sell"}) = {}
\* Who is busy with no swap outstanding has the wallet in agreement.
LEMMA NothingOutstanding ==
    ASSUME DeskInv, WalletInv, OpenTrades = 1,
           NEW o \in Orders, pc[o] \in Busy, pc[o] \notin Spent \cup Gained
    PROVE  balance = quoted
<1>1. \A q \in Orders : pc[q] \in Spent \cup Gained => pc[q] \in Busy
  BY DEF Spent, Gained, Busy, Buying, Keeping
<1>2. \A q \in Orders : pc[q] \notin Spent \cup Gained
  BY <1>1, OneIsBusy
<1> QED
  BY <1>2 DEF WalletInv

\* With one trade at a time the wallet rests or that trade moves it.
LEMMA WalletSteps ==
    ASSUME DeskInv, WalletInv, Next, NoWalletFaults, OpenTrades = 1
    PROVE  Rests \/ \E o \in Orders : Trades(o)
<1>1. /\ pc \in [Orders -> Places] /\ fill \in [Orders -> Int] /\ seen \in [Orders -> Int]
      /\ balance \in Int /\ quoted \in Int /\ realized \in [Orders -> Int]
      /\ Amount \in Nat /\ QuoteFees \subseteq Nat /\ Proceeds \subseteq Nat
  BY DeskAssumption DEF DeskInv, TypeInv, TypeOK, StoreTypeOK
<1>2. /\ Landed = FALSE /\ "walletbalance" \notin Faults /\ "walletupdate" \notin Faults
  BY DeskAssumption, NoWalletFaults DEF NoWalletFaults
<1>3. ASSUME NEW o \in Orders, pc[o] \in Busy, pc[o] \notin Spent \cup Gained
      PROVE  balance = quoted
  BY <1>3, NothingOutstanding
<1>4. \A o \in Orders : Ledger(o)
  BY DEF WalletInv
<1> USE <1>1 DEF Rests, Spent, Gained, Goto, Abort, Fails, taskvars, chainvars, storevars
<1>5. ASSUME NEW o \in Orders, Arrive(o) PROVE Rests
  BY <1>5 DEF Arrive
<1>6. ASSUME NEW o \in Orders, OrderStep(o) PROVE Rests \/ Trades(o)
  <2>1. CASE MintLock(o) BY <2>1 DEF MintLock
  <2>2. CASE TakePermit(o) BY <2>2 DEF TakePermit
  <2>3. CASE ScreenOut(o) BY <2>3 DEF ScreenOut
  <2>4. CASE CheckOpenTrades(o) BY <2>4 DEF CheckOpenTrades
  <2>5. CASE CheckMaxTrades(o) BY <2>5 DEF CheckMaxTrades
  <2>6. CASE CheckExists(o) BY <2>6 DEF CheckExists
  <2>7. CASE CheckFunds(o) BY <2>7 DEF CheckFunds
  <2>8. CASE BuyFilled(o)
    <3>1. pc[o] = "buy" /\ balance = quoted
      BY <1>3, <2>8 DEF BuyFilled, Busy, Buying
    <3>2. /\ pc' = [pc EXCEPT ![o] = "reread"] /\ seen' = seen /\ balance' = balance
          /\ \E fee \in QuoteFees : /\ quoted' = quoted - (Amount + fee)
                                    /\ fill' = [fill EXCEPT ![o] = Amount + fee]
      BY <2>8 DEF BuyFilled, Spend
    <3> QED
      BY <3>1, <3>2 DEF Trades, Ledger, Busy, Buying
  <2>9. CASE BuyOutOfRange(o) BY <2>9 DEF BuyOutOfRange
  <2>10. CASE BuyError(o) BY <1>2, <2>10 DEF BuyError
  <2>11. CASE RereadWallet(o)
    <3>1. /\ pc[o] = "reread" /\ pc' = [pc EXCEPT ![o] = "debit"]
          /\ seen' = [seen EXCEPT ![o] = balance]
          /\ fill' = fill /\ balance' = balance /\ quoted' = quoted
      BY <1>2, <2>11 DEF RereadWallet
    <3> QED
      BY <1>4, <3>1 DEF Trades, Ledger, Busy, Buying
  <2>12. CASE Debit(o)
    <3>1. /\ pc[o] = "debit" /\ pc' = [pc EXCEPT ![o] = "create"]
          /\ balance' = seen[o] - fill[o]
          /\ fill' = fill /\ seen' = seen /\ quoted' = quoted
      BY <1>2, <2>12 DEF Debit, walletupdate
    <3> QED
      BY <1>4, <3>1 DEF Trades, Ledger, Busy, Buying
  <2>13. CASE CreateTrade(o) BY <2>13 DEF CreateTrade
  <2>14. CASE BumpCache(o) BY <2>14 DEF BumpCache
  <2>15. CASE Release(o) BY <2>15 DEF Release
  <2> QED
    BY <1>6, <2>1, <2>2, <2>3, <2>4, <2>5, <2>6, <2>7, <2>8, <2>9, <2>10,
       <2>11, <2>12, <2>13, <2>14, <2>15 DEF OrderStep
<1>7. ASSUME NEW o \in Orders, MintUnlock(o) PROVE Rests
  BY <1>7 DEF MintUnlock
<1>8. ASSUME NEW o \in Orders, KeeperStep(o) PROVE Rests \/ Trades(o)
  <2>1. CASE LosePrice(o) BY <2>1 DEF LosePrice
  <2>2. CASE PartialSell(o)
    <3>1. pc[o] = "hold" /\ balance = quoted
      BY <1>3, <2>2 DEF PartialSell, Busy, Keeping
    <3>2. /\ pc' = [pc EXCEPT ![o] = "preread"] /\ seen' = seen /\ balance' = balance
          /\ \E proceeds \in Proceeds : /\ quoted' = quoted + proceeds
                                        /\ fill' = [fill EXCEPT ![o] = proceeds]
      BY <1>2, <2>2 DEF PartialSell, Earn
    <3> QED
      BY <3>1, <3>2 DEF Trades, Ledger, Busy, Keeping
  <2>3. CASE PartialReread(o)
    <3>1. /\ pc[o] = "preread" /\ pc' = [pc EXCEPT ![o] = "pcredit"]
          /\ seen' = [seen EXCEPT ![o] = balance]
          /\ fill' = fill /\ balance' = balance /\ quoted' = quoted
      BY <1>2, <2>3 DEF PartialReread
    <3> QED
      BY <1>4, <3>1 DEF Trades, Ledger, Busy, Keeping
  <2>4. CASE PartialCredit(o)
    <3>1. /\ pc[o] = "pcredit" /\ pc' = [pc EXCEPT ![o] = "pbook"]
          /\ balance' = seen[o] + fill[o]
          /\ fill' = fill /\ seen' = seen /\ quoted' = quoted
      BY <1>2, <2>4 DEF PartialCredit, walletupdate
    <3> QED
      BY <1>4, <3>1 DEF Trades, Ledger, Busy, Keeping
  <2>5. CASE PartialBook(o) BY <2>5 DEF PartialBook
  <2>6. CASE StartClose(o)
    <3>1. pc[o] = "hold" /\ balance = quoted
      BY <1>3, <2>6 DEF StartClose, Busy, Keeping
    <3>2. /\ seen' = [seen EXCEPT ![o] = balance] /\ fill' = [fill EXCEPT ![o] = 0]
          /\ balance' = balance /\ quoted' = quoted
          /\ \/ pc' = [pc EXCEPT ![o] = "close"]
             \/ pc' = [pc EXCEPT ![o] = "sell"]
      BY <1>2, <2>6 DEF StartClose
    <3> QED
      BY <3>1, <3>2 DEF Trades, Ledger, Busy, Keeping
  <2>7. CASE SellFilled(o)
    <3>1. pc[o] = "sell" /\ balance = quoted
      BY <1>3, <2>7 DEF SellFilled, Busy, Keeping
    <3>2. /\ pc' = [pc EXCEPT ![o] = "settle"] /\ seen' = seen /\ balance' = balance
          /\ \E proceeds \in Proceeds : /\ quoted' = quoted + proceeds
                                        /\ fill' = [fill EXCEPT ![o] = proceeds]
      BY <2>7 DEF SellFilled, Earn
    <3> QED
      BY <1>4, <3>1, <3>2 DEF Trades, Ledger, Busy, Keeping
  <2>8. CASE SellError(o)
    <3>1. /\ pc[o] = "sell" /\ fill' = fill /\ seen' = seen
          /\ balance' = balance /\ quoted' = quoted
          /\ \/ pc' = [pc EXCEPT ![o] = "close"]
             \/ pc' = [pc EXCEPT ![o] = "sell"]
      BY <1>2, <2>8 DEF SellError
    <3> QED
      BY <1>4, <3>1 DEF Trades, Ledger, Busy, Keeping
  <2>9. CASE Settle(o)
    <3>1. /\ pc[o] = "settle" /\ pc' = [pc EXCEPT ![o] = "close"]
          /\ balance' = seen[o] + fill[o] /\ seen' = seen /\ quoted' = quoted
          /\ \A q \in Orders \ {o} : fill'[q] = fill[q]
      BY <1>2, <2>9 DEF Settle, walletupdate
    <3> QED
      BY <1>4, <3>1 DEF Trades, Ledger, Busy, Keeping
  <2>10. CASE CloseRow(o) BY <2>10 DEF CloseRow
  <2>11. CASE Uncount(o) BY <2>11 DEF Uncount
  <2>12. CASE RemoveCount(o) BY <2>12 DEF RemoveCount
  <2> QED
    BY <1>8, <2>1, <2>2, <2>3, <2>4, <2>5, <2>6, <2>7, <2>8, <2>9, <2>10,
       <2>11, <2>12 DEF KeeperStep, SellStep
<1>9. ASSUME WatchStep PROVE Rests
  BY <1>9 DEF WatchStep, WatchOpen, WatchTotal, Exit
<1>10. CASE UNCHANGED vars
  BY <1>10 DEF vars
<1> QED
  BY <1>5, <1>6, <1>7, <1>8, <1>9, <1>10 DEF Next, Terminated

\* Either way the wallet lacks no more than that one fill.
LEMMA WalletStep ==
    ASSUME NoWalletFaults, OpenTrades = 1
    PROVE  DeskInv /\ WalletInv /\ [Next]_vars => WalletInv'
<1> SUFFICES ASSUME DeskInv, WalletInv, [Next]_vars PROVE WalletInv'
  OBVIOUS
<1>1. CASE Rests
  BY <1>1 DEF Rests, WalletInv, Ledger, Spent, Gained
<1>2. CASE UNCHANGED vars
  BY <1>2 DEF vars, taskvars, chainvars, storevars, Rests, WalletInv, Ledger
<1>3. ASSUME NEW o \in Orders, Trades(o) PROVE WalletInv'
  <2>1. \A q \in Orders \ {o} : pc[q] \notin Busy
    BY <1>3, OneIsBusy, OpenTrades = 1 DEF Trades
  <2> QED
    BY <1>3, <2>1, LedgerStep DEF Trades, DeskInv
<1> QED
  BY <1>1, <1>2, <1>3, WalletSteps, NoWalletFaults, OpenTrades = 1

\* With one trade at a time the wallet table follows the quotes of the settled swaps:
\* no update is lost or made twice, and the table lags only while a task is between its swap and its walletupdate.
THEOREM WalletAgreesHolds ==
    ASSUME NoLimitFaults, NoWalletFaults, OpenTrades = 1
    PROVE  Spec => []WalletAgrees
<1> DEFINE Inv == DeskInv /\ WalletInv
<1>1. Init => Inv
  <2>1. Init => WalletInv
    BY DEF Init, StoreInit, WalletInv, Ledger, Spent, Gained
  <2> QED
    BY <2>1, TypeInit, PermitInit, RowInit, LimitInit DEF DeskInv
<1>2. Inv /\ [Next]_vars => Inv'
  BY TypeStep, PermitStep, RowStep, LimitStep, WalletStep, NoLimitFaults, NoWalletFaults,
     OpenTrades = 1 DEF DeskInv
<1>3. Inv => WalletAgrees
  BY DEF WalletInv, WalletAgrees, Spent, Gained
<1> QED
  BY <1>1, <1>2, <1>3, PTL DEF Spec
=============================================================================
