--------------------------- MODULE OrderDesk_proofs ---------------------------
(* Theorems about OrderDesk for every value of its constants. *)
EXTENDS OrderDesk, FiniteSetTheorems, TLAPS

-----------------------------------------------------------------------------
(* Type correctness. The bound on tries needs the loops' own counting. *)

Retrying == \A o \in Orders : pc[o] \in {"buy", "sell"} => tries[o] < Tries

TypeInv == TypeOK /\ Retrying

\* Each try is one attempt more, up to the last.
LEMMA TriesType == Tries \in Nat /\ Tries > 0 /\ Attempts <= Tries
BY DeskAssumption DEF Tries

\* All variables start in their types.
LEMMA TypeInit == Init => TypeInv
<1> SUFFICES ASSUME Init PROVE TypeInv
  OBVIOUS
<1> USE DeskAssumption, StoreAssumption DEF Init, StoreInit
<1>1. StoreTypeOK
  BY DEF StoreTypeOK
<1>2. TypeOK
  BY <1>1, TriesType DEF TypeOK, Places
<1>3. Retrying
  BY DEF Retrying
<1> QED
  BY <1>2, <1>3 DEF TypeInv

\* No step leaves them.
LEMMA TypeStep == TypeInv /\ [Next]_vars => TypeInv'
<1> SUFFICES ASSUME TypeInv, [Next]_vars PROVE TypeInv'
  OBVIOUS
<1> USE DeskAssumption, StoreAssumption, TriesType
    DEF TypeInv, TypeOK, StoreTypeOK, Retrying, taskvars, chainvars,
        storevars, rowvars, Goto, Abort, Places, InOrder, Critical, Screening,
        Buying, Opening, Keeping, Closing, Over
<1>1. ASSUME NEW o \in Orders, Arrive(o) PROVE TypeInv'
  BY <1>1 DEF Arrive
<1>2. ASSUME NEW o \in Orders, OrderStep(o) PROVE TypeInv'
  <2>1. CASE MintLock(o) BY <2>1 DEF MintLock, mintlock
  <2>2. CASE TakePermit(o) BY <2>2 DEF TakePermit
  <2>3. CASE ScreenOut(o) BY <2>3 DEF ScreenOut
  <2>4. CASE CheckOpenTrades(o) BY <2>4 DEF CheckOpenTrades
  <2>5. CASE CheckMaxTrades(o) BY <2>5 DEF CheckMaxTrades
  <2>6. CASE CheckExists(o) BY <2>6 DEF CheckExists
  <2>7. CASE CheckFunds(o) BY <2>7 DEF CheckFunds
  <2>8. CASE BuyFilled(o) BY <2>8 DEF BuyFilled, Spend
  <2>9. CASE BuyOutOfRange(o) BY <2>9 DEF BuyOutOfRange
  <2>10. CASE BuyError(o) BY <2>10 DEF BuyError, Spend
  <2>11. CASE RereadWallet(o) BY <2>11 DEF RereadWallet
  <2>12. CASE Debit(o) BY <2>12 DEF Debit, walletupdate
  <2>13. CASE CreateTrade(o) BY <2>13 DEF CreateTrade, tradecreate
  <2>14. CASE BumpCache(o) BY <2>14 DEF BumpCache, countopen
  <2>15. CASE Release(o) BY <2>15 DEF Release
  <2> QED
    BY <1>2, <2>1, <2>2, <2>3, <2>4, <2>5, <2>6, <2>7, <2>8, <2>9, <2>10,
       <2>11, <2>12, <2>13, <2>14, <2>15 DEF OrderStep
<1>3. ASSUME NEW o \in Orders, MintUnlock(o) PROVE TypeInv'
  BY <1>3 DEF MintUnlock, mintunlock
<1>4. ASSUME NEW o \in Orders, KeeperStep(o) PROVE TypeInv'
  <2>1. CASE LosePrice(o) BY <2>1 DEF LosePrice
  <2>2. CASE PartialSell(o) BY <2>2 DEF PartialSell, Earn
  <2>3. CASE PartialReread(o) BY <2>3 DEF PartialReread
  <2>4. CASE PartialCredit(o) BY <2>4 DEF PartialCredit, walletupdate
  <2>5. CASE PartialBook(o) BY <2>5 DEF PartialBook, tradepartialsell
  <2>6. CASE StartClose(o) BY <2>6 DEF StartClose, Tries
  <2>7. CASE SellFilled(o) BY <2>7 DEF SellFilled, Earn
  <2>8. CASE SellError(o) BY <2>8 DEF SellError, Earn
  <2>9. CASE Settle(o) BY <2>9 DEF Settle, walletupdate
  <2>10. CASE CloseRow(o) BY <2>10 DEF CloseRow, tradeclose
  <2>11. CASE Uncount(o) BY <2>11 DEF Uncount, countclosed
  <2>12. CASE RemoveCount(o) BY <2>12 DEF RemoveCount, countremove
  <2> QED
    BY <1>4, <2>1, <2>2, <2>3, <2>4, <2>5, <2>6, <2>7, <2>8, <2>9, <2>10,
       <2>11, <2>12 DEF KeeperStep, SellStep
<1>5. ASSUME WatchStep PROVE TypeInv'
  BY <1>5 DEF WatchStep, WatchOpen, WatchTotal, Exit
<1>6. CASE UNCHANGED vars
  BY <1>6 DEF vars
<1> QED
  BY <1>1, <1>2, <1>3, <1>4, <1>5, <1>6 DEF Next, Terminated

\* Every variable keeps its type, no retry loop runs past its limit and no
\* keeper makes more partial sells than its bound.
THEOREM TypeCorrect == Spec => []TypeOK
<1>1. Spec => []TypeInv
  BY TypeInit, TypeStep, PTL DEF Spec
<1>2. TypeInv => TypeOK
  BY DEF TypeInv
<1> QED
  BY <1>1, <1>2, PTL

-----------------------------------------------------------------------------
(* OPENFLIGHT *)

\* It is held by the one order that is past it: what the limits rest on.
PermitHeld == \A o \in Orders : pc[o] \in Critical <=> permit = o

\* At first nobody holds OPENFLIGHT.
LEMMA PermitInit == Init => PermitHeld
BY StoreAssumption DEF Init, PermitHeld, Critical, Screening, Buying, Opening

\* It is taken free and given back by who has it.
LEMMA PermitStep == TypeInv /\ PermitHeld /\ [Next]_vars => PermitHeld'
<1> SUFFICES ASSUME TypeInv, PermitHeld, [Next]_vars PROVE PermitHeld'
  OBVIOUS
<1> pc \in [Orders -> Places]
  BY DEF TypeInv, TypeOK
<1> USE StoreAssumption
    DEF PermitHeld, Goto, Abort, Critical, Screening, Buying, Opening, Keeping,
        Closing, Over
<1>1. ASSUME NEW o \in Orders, Arrive(o) PROVE PermitHeld'
  BY <1>1 DEF Arrive
<1>2. ASSUME NEW o \in Orders, OrderStep(o) PROVE PermitHeld'
  <2>1. CASE MintLock(o) BY <2>1 DEF MintLock
  <2>2. CASE TakePermit(o) BY <2>2 DEF TakePermit
  <2>3. CASE ScreenOut(o) BY <2>3 DEF ScreenOut
  <2>4. CASE CheckOpenTrades(o) BY <2>4 DEF CheckOpenTrades
  <2>5. CASE CheckMaxTrades(o) BY <2>5 DEF CheckMaxTrades
  <2>6. CASE CheckExists(o) BY <2>6 DEF CheckExists
  <2>7. CASE CheckFunds(o) BY <2>7 DEF CheckFunds
  <2>8. CASE BuyFilled(o) BY <2>8 DEF BuyFilled
  <2>9. CASE BuyOutOfRange(o) BY <2>9 DEF BuyOutOfRange
  <2>10. CASE BuyError(o) BY <2>10 DEF BuyError
  <2>11. CASE RereadWallet(o) BY <2>11 DEF RereadWallet
  <2>12. CASE Debit(o) BY <2>12 DEF Debit
  <2>13. CASE CreateTrade(o) BY <2>13 DEF CreateTrade
  <2>14. CASE BumpCache(o) BY <2>14 DEF BumpCache
  <2>15. CASE Release(o) BY <2>15 DEF Release
  <2> QED
    BY <1>2, <2>1, <2>2, <2>3, <2>4, <2>5, <2>6, <2>7, <2>8, <2>9, <2>10,
       <2>11, <2>12, <2>13, <2>14, <2>15 DEF OrderStep
<1>3. ASSUME NEW o \in Orders, MintUnlock(o) PROVE PermitHeld'
  BY <1>3 DEF MintUnlock
<1>4. ASSUME NEW o \in Orders, KeeperStep(o) PROVE PermitHeld'
  <2>1. permit' = permit
    BY <1>4 DEF KeeperStep, SellStep, LosePrice, PartialSell, PartialReread,
       PartialCredit, PartialBook, StartClose, SellFilled, SellError, Settle,
       CloseRow, Uncount, RemoveCount
  <2>2. /\ pc[o] \notin Critical /\ pc'[o] \notin Critical
        /\ \A q \in Orders \ {o} : pc'[q] = pc[q]
    BY <1>4 DEF KeeperStep, SellStep, LosePrice, PartialSell, PartialReread,
       PartialCredit, PartialBook, StartClose, SellFilled, SellError, Settle,
       CloseRow, Uncount, RemoveCount
  <2> QED BY <2>1, <2>2
<1>5. ASSUME WatchStep PROVE PermitHeld'
  BY <1>5 DEF WatchStep, WatchOpen, WatchTotal, Exit
<1>6. CASE UNCHANGED vars
  BY <1>6 DEF vars
<1> QED
  BY <1>1, <1>2, <1>3, <1>4, <1>5, <1>6 DEF Next, Terminated

-----------------------------------------------------------------------------
(* Where an order or a keeper is tells what its row is. *)

Unwritten == {"idle", "lock", "gate", "rejected"} \cup Screening \cup Buying
Written == Opening \cup Keeping \cup {"stuck"}

RowInv == \A o \in Orders :
    /\ pc[o] \in Unwritten => status[o] = "none"
    /\ pc[o] \in Written => status[o] = "open"
    /\ pc[o] \in Closing => status[o] = "closed"
    /\ pc[o] = "closed" => status[o] # "none"

\* Everything but the two writes of `trades.total` leaves the rows alone, and
\* keeps each task on its side of them.
Writes(o) ==
    \/ /\ pc[o] = "create" /\ pc' = [pc EXCEPT ![o] = "bump"]
       /\ status' = [status EXCEPT ![o] = "open"]
    \/ /\ pc[o] = "close" /\ pc' = [pc EXCEPT ![o] = "uncount"]
       /\ status' = [status EXCEPT ![o] = "closed"]
    \/ /\ pc[o] = "close" /\ pc' = [pc EXCEPT ![o] = "closed"]
       /\ status' = status

Side(place) ==
    IF place \in Unwritten THEN Unwritten
    ELSE IF place \in Written THEN Written
    ELSE Closing \cup {"closed"}

\* A step writes one row, or moves orders along without one.
LEMMA RowSteps ==
    ASSUME TypeInv, Next
    PROVE  \/ \E o \in Orders : Writes(o)
           \/ /\ status' = status
              /\ \A o \in Orders :
                    pc'[o] \in Side(pc[o])
                    /\ (pc'[o] \in Closing => pc[o] \in Closing)
<1> DEFINE Calm == /\ status' = status
                   /\ \A o \in Orders :
                        pc'[o] \in Side(pc[o])
                        /\ (pc'[o] \in Closing => pc[o] \in Closing)
<1> pc \in [Orders -> Places]
  BY DEF TypeInv, TypeOK
<1> USE DEF Goto, Abort, rowvars, storevars, Side, Unwritten, Written, Places,
        InOrder, Critical, Screening, Buying, Opening, Keeping, Closing, Over
<1>1. ASSUME NEW o \in Orders, Arrive(o) PROVE Calm
  BY <1>1 DEF Arrive
<1>2. ASSUME NEW o \in Orders, OrderStep(o) PROVE Calm \/ Writes(o)
  <2>1. CASE MintLock(o) BY <2>1 DEF MintLock
  <2>2. CASE TakePermit(o) BY <2>2 DEF TakePermit
  <2>3. CASE ScreenOut(o) BY <2>3 DEF ScreenOut
  <2>4. CASE CheckOpenTrades(o) BY <2>4 DEF CheckOpenTrades
  <2>5. CASE CheckMaxTrades(o) BY <2>5 DEF CheckMaxTrades
  <2>6. CASE CheckExists(o) BY <2>6 DEF CheckExists
  <2>7. CASE CheckFunds(o) BY <2>7 DEF CheckFunds
  <2>8. CASE BuyFilled(o) BY <2>8 DEF BuyFilled
  <2>9. CASE BuyOutOfRange(o) BY <2>9 DEF BuyOutOfRange
  <2>10. CASE BuyError(o) BY <2>10 DEF BuyError
  <2>11. CASE RereadWallet(o) BY <2>11 DEF RereadWallet
  <2>12. CASE Debit(o) BY <2>12 DEF Debit
  <2>13. CASE CreateTrade(o) BY <2>13 DEF CreateTrade, tradecreate, Writes
  <2>14. CASE BumpCache(o) BY <2>14 DEF BumpCache
  <2>15. CASE Release(o) BY <2>15 DEF Release
  <2> QED
    BY <1>2, <2>1, <2>2, <2>3, <2>4, <2>5, <2>6, <2>7, <2>8, <2>9, <2>10,
       <2>11, <2>12, <2>13, <2>14, <2>15 DEF OrderStep
<1>3. ASSUME NEW o \in Orders, MintUnlock(o) PROVE Calm
  BY <1>3 DEF MintUnlock
<1>4. ASSUME NEW o \in Orders, KeeperStep(o) PROVE Calm \/ Writes(o)
  <2>1. CASE LosePrice(o) BY <2>1 DEF LosePrice
  <2>2. CASE PartialSell(o) BY <2>2 DEF PartialSell
  <2>3. CASE PartialReread(o) BY <2>3 DEF PartialReread
  <2>4. CASE PartialCredit(o) BY <2>4 DEF PartialCredit
  <2>5. CASE PartialBook(o) BY <2>5 DEF PartialBook, tradepartialsell
  <2>6. CASE StartClose(o) BY <2>6 DEF StartClose
  <2>7. CASE SellFilled(o) BY <2>7 DEF SellFilled
  <2>8. CASE SellError(o) BY <2>8 DEF SellError
  <2>9. CASE Settle(o) BY <2>9 DEF Settle
  <2>10. CASE CloseRow(o) BY <2>10 DEF CloseRow, tradeclose, Writes
  <2>11. CASE Uncount(o) BY <2>11 DEF Uncount
  <2>12. CASE RemoveCount(o) BY <2>12 DEF RemoveCount
  <2> QED
    BY <1>4, <2>1, <2>2, <2>3, <2>4, <2>5, <2>6, <2>7, <2>8, <2>9, <2>10,
       <2>11, <2>12 DEF KeeperStep, SellStep
<1>5. ASSUME WatchStep PROVE Calm
  BY <1>5 DEF WatchStep, WatchOpen, WatchTotal, Exit
<1>6. CASE UNCHANGED vars
  BY <1>6 DEF vars
<1> QED
  BY <1>1, <1>2, <1>3, <1>4, <1>5, <1>6 DEF Next, Terminated

\* At first there are no rows.
LEMMA RowInit == Init => RowInv
BY DEF Init, StoreInit, RowInv, Unwritten, Written, Screening, Buying, Opening,
   Keeping, Closing

\* Every write agrees with the place of its order.
LEMMA RowStep == TypeInv /\ RowInv /\ [Next]_vars => RowInv'
<1> SUFFICES ASSUME TypeInv, RowInv, [Next]_vars PROVE RowInv'
  OBVIOUS
<1> /\ pc \in [Orders -> Places]
    /\ status \in [Orders -> {"none", "open", "closed"}]
  BY DEF TypeInv, TypeOK, StoreTypeOK
<1> USE DEF RowInv, Unwritten, Written, Places, InOrder, Critical, Screening,
        Buying, Opening, Keeping, Closing, Over
<1>1. CASE UNCHANGED vars
  BY <1>1 DEF vars, storevars, rowvars
<1>2. ASSUME NEW o \in Orders, Writes(o) PROVE RowInv'
  BY <1>2 DEF Writes
<1>3. ASSUME status' = status,
             \A o \in Orders : /\ pc'[o] \in Side(pc[o])
                               /\ pc'[o] \in Closing => pc[o] \in Closing
      PROVE  RowInv'
  BY <1>3 DEF Side
<1> QED
  BY <1>1, <1>2, <1>3, RowSteps

-----------------------------------------------------------------------------
(* The limits. They rest on the reads of the checks: a read that fails counts *)
(* as a check passed.                                                         *)

NoLimitFaults ==
    Faults \cap {"tradescount", "tradestotal", "tradeexists"} = {}

PastExists == {"funds"} \cup Buying
PastTotal == {"exists"} \cup PastExists
PastOpen == {"total"} \cup PastTotal

\* What the order that is past a check still knows when it writes its row.
LimitInv ==
    /\ OpenTrades > 0 =>
          /\ tradescount <= OpenTrades
          /\ \A o \in Orders : pc[o] \in PastOpen => tradescount < OpenTrades
    /\ (OpenTrades > 0 /\ MaxTrades > 0) =>
          /\ Cardinality(Rows) <= MaxTrades + OpenTrades - 1
          /\ \A o \in Orders : pc[o] \in PastTotal =>
                Cardinality(Rows) < MaxTrades + OpenTrades - 1
    /\ \A o \in Orders : pc[o] \in PastExists => ~tradeexists(mint[o])
    /\ OneTradePerMint

\* The counts of rows are numbers, and add up.
LEMMA RowCounts ==
    ASSUME StoreTypeOK
    PROVE  /\ IsFiniteSet(OpenRows) /\ IsFiniteSet(ClosedRows)
           /\ IsFiniteSet(Rows)
           /\ tradescount \in Nat /\ tradestotal \in Nat
           /\ Cardinality(Rows) = tradescount + tradestotal
<1>1. OpenRows \in SUBSET Orders /\ ClosedRows \in SUBSET Orders
  BY DEF OpenRows, ClosedRows
<1>2. IsFiniteSet(OpenRows) /\ IsFiniteSet(ClosedRows)
  BY <1>1, FS_Subset, StoreAssumption
<1>3. tradescount \in Nat /\ tradestotal \in Nat
  BY <1>2, FS_CardinalityType DEF tradescount, tradestotal
<1>4. Rows = OpenRows \cup ClosedRows /\ OpenRows \cap ClosedRows = {}
  BY DEF StoreTypeOK, Rows, OpenRows, ClosedRows
<1>5. Cardinality(OpenRows \cap ClosedRows) = 0
  BY <1>4, FS_EmptySet
<1>6. /\ IsFiniteSet(Rows)
      /\ Cardinality(Rows) = Cardinality(OpenRows) + Cardinality(ClosedRows)
                                - Cardinality(OpenRows \cap ClosedRows)
  BY <1>2, <1>4, FS_Union
<1> QED
  BY <1>2, <1>3, <1>5, <1>6 DEF tradescount, tradestotal

\* The only steps past a check, with what the check has seen.
Passed(q) ==
    /\ pc'[q] \in PastOpen =>
          pc[q] \in PastOpen \/ OpenTrades = 0 \/ tradescount < OpenTrades
    /\ pc'[q] \in PastTotal =>
          \/ pc[q] \in PastTotal
          \/ pc[q] \in PastOpen /\ (MaxTrades = 0 \/ tradestotal < MaxTrades)
    /\ pc'[q] \in PastExists => pc[q] \in PastExists \/ ~tradeexists(mint[q])

\* Without faults of the limit checks, who passes them was within them.
LEMMA Passing ==
    ASSUME TypeInv, Next, NoLimitFaults
    PROVE  mint' = mint /\ \A q \in Orders : Passed(q)
<1> DEFINE Goal == mint' = mint /\ \A q \in Orders : Passed(q)
<1> pc \in [Orders -> Places]
  BY DEF TypeInv, TypeOK
<1> USE NoLimitFaults
    DEF NoLimitFaults, Passed, Fails, Goto, Abort, storevars, PastOpen,
        PastTotal, PastExists, Buying
<1>1. ASSUME NEW o \in Orders, Arrive(o) PROVE Goal
  BY <1>1 DEF Arrive
<1>2. ASSUME NEW o \in Orders, OrderStep(o) PROVE Goal
  <2>1. CASE MintLock(o) BY <2>1 DEF MintLock
  <2>2. CASE TakePermit(o) BY <2>2 DEF TakePermit
  <2>3. CASE ScreenOut(o) BY <2>3 DEF ScreenOut
  <2>4. CASE CheckOpenTrades(o) BY <2>4 DEF CheckOpenTrades
  <2>5. CASE CheckMaxTrades(o) BY <2>5 DEF CheckMaxTrades
  <2>6. CASE CheckExists(o) BY <2>6 DEF CheckExists
  <2>7. CASE CheckFunds(o) BY <2>7 DEF CheckFunds
  <2>8. CASE BuyFilled(o) BY <2>8 DEF BuyFilled
  <2>9. CASE BuyOutOfRange(o) BY <2>9 DEF BuyOutOfRange
  <2>10. CASE BuyError(o) BY <2>10 DEF BuyError
  <2>11. CASE RereadWallet(o) BY <2>11 DEF RereadWallet
  <2>12. CASE Debit(o) BY <2>12 DEF Debit
  <2>13. CASE CreateTrade(o) BY <2>13 DEF CreateTrade
  <2>14. CASE BumpCache(o) BY <2>14 DEF BumpCache
  <2>15. CASE Release(o) BY <2>15 DEF Release
  <2> QED
    BY <1>2, <2>1, <2>2, <2>3, <2>4, <2>5, <2>6, <2>7, <2>8, <2>9, <2>10,
       <2>11, <2>12, <2>13, <2>14, <2>15 DEF OrderStep
<1>3. ASSUME NEW o \in Orders, MintUnlock(o) PROVE Goal
  BY <1>3 DEF MintUnlock
<1>4. ASSUME NEW o \in Orders, KeeperStep(o) PROVE Goal
  <2>1. mint' = mint
    BY <1>4 DEF KeeperStep, SellStep, LosePrice, PartialSell, PartialReread,
       PartialCredit, PartialBook, StartClose, SellFilled, SellError, Settle,
       CloseRow, Uncount, RemoveCount
  <2>2. /\ pc'[o] \notin PastOpen
        /\ \A r \in Orders \ {o} : pc'[r] = pc[r]
    BY <1>4 DEF KeeperStep, SellStep, LosePrice, PartialSell, PartialReread,
       PartialCredit, PartialBook, StartClose, SellFilled, SellError, Settle,
       CloseRow, Uncount, RemoveCount
  <2> QED BY <2>1, <2>2
<1>5. ASSUME WatchStep PROVE Goal
  BY <1>5 DEF WatchStep, WatchOpen, WatchTotal, Exit
<1>6. CASE UNCHANGED vars
  BY <1>6 DEF vars
<1> QED
  BY <1>1, <1>2, <1>3, <1>4, <1>5, <1>6 DEF Next, Terminated

\* At first nobody is past the limits.
LEMMA LimitInit == Init => LimitInv
<1> SUFFICES ASSUME Init PROVE LimitInv
  OBVIOUS
<1>1. OpenRows = {} /\ Rows = {}
  BY DEF Init, StoreInit, OpenRows, Rows
<1>2. tradescount = 0 /\ Cardinality(Rows) = 0
  BY <1>1, FS_EmptySet DEF tradescount
<1>3. \A o \in Orders : pc[o] \notin PastOpen
  BY DEF Init, PastOpen, PastTotal, PastExists, Buying
<1> QED
  BY <1>1, <1>2, <1>3, DeskAssumption
     DEF LimitInv, OneTradePerMint, PastOpen, PastTotal, PastExists

\* What was within the limits stays so while OPENFLIGHT is held.
LEMMA LimitStep ==
    ASSUME NoLimitFaults
    PROVE  TypeInv /\ PermitHeld /\ RowInv /\ LimitInv /\ [Next]_vars
              => LimitInv'
<1> SUFFICES ASSUME TypeInv, PermitHeld, RowInv, LimitInv, [Next]_vars
             PROVE  LimitInv'
  OBVIOUS
<1> StoreTypeOK /\ pc \in [Orders -> Places]
  BY DEF TypeInv, TypeOK
<1> status \in [Orders -> {"none", "open", "closed"}]
  BY DEF StoreTypeOK
<1>0. StoreTypeOK'
  BY TypeStep DEF TypeInv, TypeOK
<1>1. CASE UNCHANGED vars
  BY <1>1 DEF vars, storevars, rowvars, LimitInv, OneTradePerMint,
     tradeexists, tradescount, OpenRows, Rows
<1>2. ASSUME Next, status' = status PROVE LimitInv'
  <2>1. OpenRows' = OpenRows /\ Rows' = Rows /\ tradescount' = tradescount
    BY <1>2 DEF OpenRows, Rows, tradescount
  <2>2. mint' = mint
    BY <1>2, Passing, NoLimitFaults DEF LimitInv
  <2>3. \A m : tradeexists(m)' = tradeexists(m)
    BY <2>1, <2>2 DEF tradeexists
  <2>4. OneTradePerMint'
    BY <2>1, <2>2 DEF LimitInv, OneTradePerMint
  <2> QED
    BY <1>2, <2>1, <2>2, <2>3, <2>4, Passing, RowCounts, NoLimitFaults,
       DeskAssumption DEF LimitInv, Passed, PastOpen, PastTotal
<1>3. ASSUME NEW o \in Orders, Next, Writes(o), pc[o] = "create"
      PROVE  LimitInv'
  <2> USE DEF Writes
  <2>1. status[o] = "none" /\ mint' = mint
    BY <1>3, Passing, NoLimitFaults DEF RowInv, Unwritten, Buying
  <2>2. /\ OpenRows' = OpenRows \cup {o} /\ o \notin OpenRows
        /\ Rows' = Rows \cup {o} /\ o \notin Rows
    BY <1>3, <2>1 DEF OpenRows, Rows
  <2>3. /\ tradescount' = tradescount + 1
        /\ Cardinality(Rows') = Cardinality(Rows) + 1
    BY <2>2, FS_AddElement, RowCounts DEF tradescount
  <2>4. \A q \in Orders : pc'[q] \notin PastOpen
    <3>1. \A q \in Orders \ {o} : pc[q] \notin Critical
      BY <1>3 DEF PermitHeld, Critical, Buying
    <3> QED
      BY <1>3, <3>1 DEF PastOpen, PastTotal, PastExists, Critical, Screening,
         Buying
  <2>5. OneTradePerMint'
    BY <1>3, <2>1, <2>2 DEF LimitInv, OneTradePerMint, tradeexists,
       PastExists, Buying
  <2>6. pc[o] \in PastExists /\ pc[o] \in PastTotal /\ pc[o] \in PastOpen
    BY <1>3 DEF PastOpen, PastTotal, PastExists, Buying
  <2> QED
    BY <2>3, <2>4, <2>5, <2>6, RowCounts, DeskAssumption
       DEF LimitInv, PastOpen, PastTotal
<1>4. ASSUME NEW o \in Orders, Next, Writes(o), status' # status,
             pc[o] = "close"
      PROVE  LimitInv'
  <2> USE DEF Writes
  <2>1. status[o] = "open" /\ mint' = mint
    BY <1>4, Passing, NoLimitFaults DEF RowInv, Written, Keeping
  <2>2. /\ OpenRows' = OpenRows \ {o} /\ o \in OpenRows
        /\ Rows' = Rows
    BY <1>4, <2>1 DEF OpenRows, Rows
  <2>3. tradescount' = tradescount - 1
    BY <2>2, FS_RemoveElement, RowCounts DEF tradescount
  <2>4. \A m : tradeexists(m)' = tradeexists(m)
    BY <2>1, <2>2 DEF tradeexists
  <2>5. OneTradePerMint'
    BY <2>1, <2>2 DEF LimitInv, OneTradePerMint
  <2>6. \A q \in Orders : pc'[q] \in PastOpen => pc'[q] = pc[q]
    BY <1>4 DEF PastOpen, PastTotal, PastExists, Buying
  <2> QED
    BY <2>1, <2>2, <2>3, <2>4, <2>5, <2>6, RowCounts, DeskAssumption
       DEF LimitInv, PastOpen, PastTotal
<1> QED
  BY <1>1, <1>2, <1>3, <1>4, RowSteps DEF Writes

DeskInv == TypeInv /\ PermitHeld /\ RowInv /\ LimitInv

\* Types, permit, rows and limits together are an invariant.
LEMMA DeskInvariant ==
    ASSUME NoLimitFaults
    PROVE  Spec => []DeskInv
<1>1. Init => DeskInv
  BY TypeInit, PermitInit, RowInit, LimitInit DEF DeskInv
<1>2. DeskInv /\ [Next]_vars => DeskInv'
  BY TypeStep, PermitStep, RowStep, LimitStep, NoLimitFaults DEF DeskInv
<1> QED
  BY <1>1, <1>2, PTL DEF Spec

\* main.opentrades holds for any number of orders and mints.
THEOREM OpenBoundHolds ==
    ASSUME NoLimitFaults
    PROVE  Spec => []OpenBound
<1>1. DeskInv => OpenBound
  BY DEF DeskInv, LimitInv, OpenBound
<1> QED
  BY <1>1, DeskInvariant, NoLimitFaults, PTL

\* A session never has more than MaxTrades + OpenTrades - 1 trades.
THEOREM SessionBoundHolds ==
    ASSUME NoLimitFaults
    PROVE  Spec => []SessionBound
<1>1. DeskInv => SessionBound
  BY DEF DeskInv, LimitInv, SessionBound
<1> QED
  BY <1>1, DeskInvariant, NoLimitFaults, PTL

\* No mint is traded twice.
THEOREM OneTradePerMintHolds ==
    ASSUME NoLimitFaults
    PROVE  Spec => []OneTradePerMint
<1>1. DeskInv => OneTradePerMint
  BY DEF DeskInv, LimitInv
<1> QED
  BY <1>1, DeskInvariant, NoLimitFaults, PTL

-----------------------------------------------------------------------------
(* A closed row is done with. *)

\* A step writes the row of the one task that takes it, and only from where that
\* row is not closed.
LEMMA RowWriters ==
    ASSUME TypeInv, Next
    PROVE  \/ status' = status /\ total' = total /\ realized' = realized
           \/ \E o \in Orders :
                 /\ pc[o] \in {"create", "pbook", "close"}
                 /\ \A q \in Orders \ {o} :
                       /\ status'[q] = status[q]
                       /\ total'[q] = total[q] /\ realized'[q] = realized[q]
<1> DEFINE Same == status' = status /\ total' = total /\ realized' = realized
           Writer(o) == /\ pc[o] \in {"create", "pbook", "close"}
                        /\ \A q \in Orders \ {o} :
                              /\ status'[q] = status[q]
                              /\ total'[q] = total[q] /\ realized'[q] = realized[q]
<1> /\ status \in [Orders -> {"none", "open", "closed"}]
    /\ total \in [Orders -> Int] /\ realized \in [Orders -> Int]
  BY DEF TypeInv, TypeOK, StoreTypeOK
<1> USE DEF rowvars, storevars
<1>1. ASSUME NEW o \in Orders, Arrive(o) PROVE Same
  BY <1>1 DEF Arrive
<1>2. ASSUME NEW o \in Orders, OrderStep(o) PROVE Same \/ Writer(o)
  <2>1. CASE CreateTrade(o)
    BY <2>1 DEF CreateTrade, tradecreate
  <2>2. CASE ~CreateTrade(o)
    BY <1>2, <2>2 DEF OrderStep, MintLock, TakePermit, ScreenOut, CheckOpenTrades,
       CheckMaxTrades, CheckExists, CheckFunds, BuyFilled, BuyOutOfRange, BuyError,
       RereadWallet, Debit, BumpCache, Release
  <2> QED
    BY <2>1, <2>2
<1>3. ASSUME NEW o \in Orders, MintUnlock(o) PROVE Same
  BY <1>3 DEF MintUnlock
<1>4. ASSUME NEW o \in Orders, KeeperStep(o) PROVE Same \/ Writer(o)
  <2>1. CASE PartialBook(o)
    BY <2>1 DEF PartialBook, tradepartialsell
  <2>2. CASE CloseRow(o)
    BY <2>2 DEF CloseRow, tradeclose
  <2>3. CASE ~PartialBook(o) /\ ~CloseRow(o)
    BY <1>4, <2>3 DEF KeeperStep, SellStep, LosePrice, PartialSell, PartialReread,
       PartialCredit, StartClose, SellFilled, SellError, Settle, Uncount, RemoveCount
  <2> QED
    BY <2>1, <2>2, <2>3
<1>5. ASSUME WatchStep PROVE Same
  BY <1>5 DEF WatchStep, WatchOpen, WatchTotal, Exit
<1>6. CASE UNCHANGED vars
  BY <1>6 DEF vars
<1> QED
  BY <1>1, <1>2, <1>3, <1>4, <1>5, <1>6 DEF Next, Terminated

\* A closed row is written no more.
LEMMA FinalStep ==
    ASSUME TypeInv, RowInv, [Next]_vars
    PROVE  \A o \in ClosedRows :
              /\ o \in ClosedRows'
              /\ total'[o] = total[o] /\ realized'[o] = realized[o]
<1>1. \A o \in ClosedRows : pc[o] \notin {"create", "pbook", "close"}
  BY DEF RowInv, ClosedRows, Unwritten, Written, Buying, Keeping
<1>2. CASE UNCHANGED vars
  BY <1>2 DEF vars, storevars, rowvars, ClosedRows
<1>3. CASE Next
  BY <1>1, <1>3, RowWriters DEF ClosedRows
<1> QED
  BY <1>2, <1>3

\* No step changes a closed row: tradeclose and tradepartialsell come from the one
\* keeper of the row, which has left its loop when the row is closed.
THEOREM ClosedIsFinalHolds == Spec => ClosedIsFinal
<1>1. Init => TypeInv /\ RowInv
  BY TypeInit, RowInit
<1>2. TypeInv /\ RowInv /\ [Next]_vars => (TypeInv /\ RowInv)'
  BY TypeStep, RowStep
<1>3. TypeInv /\ RowInv /\ [Next]_vars =>
          \A o \in ClosedRows :
             /\ o \in ClosedRows'
             /\ total'[o] = total[o] /\ realized'[o] = realized[o]
  BY FinalStep
<1> QED
  BY <1>1, <1>2, <1>3, PTL DEF Spec, ClosedIsFinal

-----------------------------------------------------------------------------
(* Buys *)

Unbought == {"idle", "lock", "gate"} \cup Screening
Empty == {"buy", "rejected"} \cup Unbought

\* What a step does to the buys of one order.
Buys(o) ==
    \/ /\ bought'[o] = bought[o]
       /\ pc'[o] \in Unbought => pc[o] \in Unbought
       /\ pc'[o] = "buy" =>
             \/ pc[o] = "buy" /\ tries'[o] = tries[o]
             \/ pc[o] = "funds" /\ tries'[o] = 0
       /\ pc[o] \in Empty => pc'[o] \in Empty
       /\ pc'[o] \in Empty =>
             pc[o] \in Empty \/ Faults \cap {"walletbalance", "tradecreate"} # {}
    \/ /\ pc[o] = "buy" /\ pc'[o] \in {"buy", "rejected"}
       /\ tries'[o] = tries[o] + 1
       /\ bought'[o] = bought[o] \/ (Landed /\ bought'[o] = bought[o] + 1)
    \/ /\ pc[o] = "buy" /\ pc'[o] = "reread"
       /\ bought'[o] = bought[o] + 1

\* Every step does one of these.
LEMMA BuySteps ==
    ASSUME TypeInv, Next
    PROVE  \A o \in Orders : Buys(o)
<1> DEFINE Goal == \A q \in Orders : Buys(q)
<1> /\ pc \in [Orders -> Places] /\ bought \in [Orders -> Nat]
    /\ tries \in [Orders -> 0..Tries]
  BY DEF TypeInv, TypeOK
<1> USE DEF Buys, Empty, Unbought, Screening, Goto, Abort, Fails, taskvars, chainvars
<1>1. ASSUME NEW o \in Orders, Arrive(o) PROVE Goal
  BY <1>1 DEF Arrive
<1>2. ASSUME NEW o \in Orders, OrderStep(o) PROVE Goal
  <2>1. CASE MintLock(o) BY <2>1 DEF MintLock
  <2>2. CASE TakePermit(o) BY <2>2 DEF TakePermit
  <2>3. CASE ScreenOut(o) BY <2>3 DEF ScreenOut
  <2>4. CASE CheckOpenTrades(o) BY <2>4 DEF CheckOpenTrades
  <2>5. CASE CheckMaxTrades(o) BY <2>5 DEF CheckMaxTrades
  <2>6. CASE CheckExists(o) BY <2>6 DEF CheckExists
  <2>7. CASE CheckFunds(o) BY <2>7 DEF CheckFunds
  <2>8. CASE BuyFilled(o) BY <2>8 DEF BuyFilled, Spend
  <2>9. CASE BuyOutOfRange(o) BY <2>9 DEF BuyOutOfRange
  <2>10. CASE BuyError(o) BY <2>10 DEF BuyError, Spend
  <2>11. CASE RereadWallet(o) BY <2>11 DEF RereadWallet
  <2>12. CASE Debit(o) BY <2>12 DEF Debit
  <2>13. CASE CreateTrade(o) BY <2>13 DEF CreateTrade
  <2>14. CASE BumpCache(o) BY <2>14 DEF BumpCache
  <2>15. CASE Release(o) BY <2>15 DEF Release
  <2> QED
    BY <1>2, <2>1, <2>2, <2>3, <2>4, <2>5, <2>6, <2>7, <2>8, <2>9, <2>10,
       <2>11, <2>12, <2>13, <2>14, <2>15 DEF OrderStep
<1>3. ASSUME NEW o \in Orders, MintUnlock(o) PROVE Goal
  BY <1>3 DEF MintUnlock
<1>4. ASSUME NEW o \in Orders, KeeperStep(o) PROVE Goal
  <2>1. /\ bought' = bought
        /\ pc[o] \notin Empty /\ pc'[o] \notin Empty
        /\ \A q \in Orders \ {o} : pc'[q] = pc[q] /\ tries'[q] = tries[q]
    BY <1>4 DEF KeeperStep, SellStep, LosePrice, PartialSell, PartialReread,
       PartialCredit, PartialBook, StartClose, SellFilled, SellError, Settle,
       CloseRow, Uncount, RemoveCount, Earn
  <2> QED BY <2>1
<1>5. ASSUME WatchStep PROVE Goal
  BY <1>5 DEF WatchStep, WatchOpen, WatchTotal, Exit
<1>6. CASE UNCHANGED vars
  BY <1>6 DEF vars
<1> QED
  BY <1>1, <1>2, <1>3, <1>4, <1>5, <1>6 DEF Next, Terminated

\* In its retry loop an order has bought no more often than it has tried.
BuyInv == \A o \in Orders :
    /\ bought[o] <= Tries
    /\ pc[o] \in Unbought => bought[o] = 0
    /\ pc[o] = "buy" => bought[o] <= tries[o]

\* No step buys without a try.
LEMMA BuyStep == TypeInv /\ BuyInv /\ [Next]_vars => BuyInv'
<1> SUFFICES ASSUME TypeInv, BuyInv, [Next]_vars, NEW o \in Orders
             PROVE  /\ bought'[o] <= Tries
                    /\ pc'[o] \in Unbought => bought'[o] = 0
                    /\ pc'[o] = "buy" => bought'[o] <= tries'[o]
  BY DEF BuyInv
<1>1. /\ bought[o] \in Nat /\ tries[o] \in Nat /\ Tries \in Nat
      /\ pc[o] = "buy" => tries[o] < Tries
  BY TriesType DEF TypeInv, TypeOK, Retrying
<1>2. CASE UNCHANGED vars
  BY <1>2 DEF vars, taskvars, chainvars, BuyInv
<1>3. CASE Next
  <2>1. Buys(o)
    BY <1>3, BuySteps
  <2> QED
    BY <1>1, <2>1 DEF Buys, BuyInv, Unbought, Screening
<1> QED
  BY <1>2, <1>3

\* An order buys at most orders.attempts times, even if every swap that its client
\* reports as failed has settled.
THEOREM BuysBoundedHolds == Spec => []BuysBounded
<1>1. Init => TypeInv /\ BuyInv
  <2>1. Init => BuyInv
    BY TriesType DEF Init, BuyInv
  <2> QED
    BY <2>1, TypeInit
<1>2. TypeInv /\ BuyInv /\ [Next]_vars => (TypeInv /\ BuyInv)'
  BY TypeStep, BuyStep
<1>3. TypeInv /\ BuyInv => BuysBounded
  BY DEF BuyInv, BuysBounded
<1> QED
  BY <1>1, <1>2, <1>3, PTL DEF Spec

\* Errors of the swap client mean that nothing was bought, and the two Storage
\* calls between a buy and its row succeed.
NoBookingFaults ==
    ~Landed /\ Faults \cap {"walletbalance", "tradecreate"} = {}

BookInv == \A o \in Orders : bought[o] = IF pc[o] \in Empty THEN 0 ELSE 1

\* Whoever is past the buy has bought once.
LEMMA BookStep ==
    ASSUME NoBookingFaults
    PROVE  TypeInv /\ BookInv /\ [Next]_vars => BookInv'
<1> SUFFICES ASSUME TypeInv, BookInv, [Next]_vars, NEW o \in Orders
             PROVE  bought'[o] = IF pc'[o] \in Empty THEN 0 ELSE 1
  BY DEF BookInv
<1>1. CASE UNCHANGED vars
  BY <1>1 DEF vars, chainvars, BookInv
<1>2. CASE Next
  <2>1. Buys(o) /\ bought[o] \in Nat
    BY <1>2, BuySteps DEF TypeInv, TypeOK
  <2> QED
    BY <2>1, NoBookingFaults
       DEF Buys, BookInv, Empty, Unbought, Screening, NoBookingFaults
<1> QED
  BY <1>1, <1>2

\* What an order has bought has its row, or is on the way to it.
THEOREM BoughtIsBookedHolds ==
    ASSUME NoBookingFaults
    PROVE  Spec => []BoughtIsBooked
<1> DEFINE Inv == TypeInv /\ RowInv /\ BookInv
<1>1. Init => Inv
  <2>1. Init => BookInv
    BY DEF Init, BookInv, Empty, Unbought
  <2> QED
    BY <2>1, TypeInit, RowInit
<1>2. Inv /\ [Next]_vars => Inv'
  BY TypeStep, RowStep, BookStep, NoBookingFaults
<1>3. Inv => BoughtIsBooked
  <2> SUFFICES ASSUME Inv, NEW o \in Orders, bought[o] > 0
               PROVE  /\ bought[o] = 1
                      /\ pc[o] \in {"reread", "debit", "create"} \/ status[o] # "none"
    BY DEF BoughtIsBooked
  <2>1. bought[o] \in Nat /\ pc[o] \in Places
    BY DEF TypeInv, TypeOK
  <2>2. bought[o] = 1 /\ pc[o] \notin Empty
    BY <2>1 DEF BookInv
  <2> QED
    BY <2>1, <2>2 DEF RowInv, Empty, Unbought, Places, InOrder, Critical, Buying, Over,
       Written, Opening
<1> QED
  BY <1>1, <1>2, <1>3, PTL DEF Spec

-----------------------------------------------------------------------------
(* The desk implements Account, where the Storage calls around a buy       *)
(* succeed.                                                                *)

(* The refinement mapping. *)

Position(o) ==
    IF bought[o] = 0 THEN "none"
    ELSE IF pc[o] \in {"settle", "close", "closed"} \cup Closing THEN "flat" ELSE "held"

Book == DeskInv /\ BookInv

\* Both modules count with the same Cardinality.
LEMMA SameCardinality == \A S : A!Cardinality(S) = Cardinality(S)
BY DEF A!Cardinality, Cardinality

\* Whoever has bought has a row, or holds OPENFLIGHT on the way to it.
LEMMA BuyerHasRow ==
    ASSUME Book, NEW o \in Orders, bought[o] # 0, pc[o] \notin Critical
    PROVE  o \in Rows /\ (Position(o) = "held" => o \in OpenRows)
<1>1. pc[o] \in Places /\ pc[o] \notin Empty
  BY DEF Book, DeskInv, TypeInv, TypeOK, BookInv
<1>2. pc[o] \in Keeping \cup {"stuck"} \cup Closing \cup {"closed"}
  BY <1>1 DEF Places, InOrder, Critical, Over, Empty, Unbought
<1> QED
  BY <1>2 DEF Book, DeskInv, RowInv, Written, Closing, Keeping, Rows, OpenRows, Position

\* The limits hold at the very moment of the buy.
LEMMA BuyerMay ==
    ASSUME Book, NEW o \in Orders, pc[o] = "buy"
    PROVE  A!MayBuy(o)
<1> DEFINE Mine == {q \in Orders : Position(q) = "held"}
           Had == {q \in Orders : Position(q) # "none"}
<1>1. \A q \in Orders : pc[q] \in Critical => q = o
  BY DEF Book, DeskInv, PermitHeld, Critical, Buying
<1>2. bought[o] = 0
  BY DEF Book, BookInv, Empty
<1>3. Mine \in SUBSET OpenRows /\ Had \in SUBSET Rows
  <2>1. ASSUME NEW q \in Orders, Position(q) # "none"
        PROVE  q \in Rows /\ (Position(q) = "held" => q \in OpenRows)
    <3>1. bought[q] # 0 /\ q # o
      BY <1>2, <2>1 DEF Position
    <3> QED
      BY <1>1, <3>1, BuyerHasRow
  <2> QED
    BY <2>1
<1>4. /\ IsFiniteSet(OpenRows) /\ IsFiniteSet(Rows)
      /\ tradescount \in Nat /\ Cardinality(OpenRows) = tradescount
      /\ Cardinality(Rows) \in Nat
  BY RowCounts, FS_CardinalityType DEF Book, DeskInv, TypeInv, TypeOK, tradescount
<1>5. /\ Cardinality(Mine) <= tradescount /\ Cardinality(Mine) \in Nat
      /\ Cardinality(Had) <= Cardinality(Rows) /\ Cardinality(Had) \in Nat
  BY <1>3, <1>4, FS_Subset, FS_CardinalityType
<1>6. pc[o] \in PastOpen /\ pc[o] \in PastTotal /\ pc[o] \in PastExists
  BY DEF PastOpen, PastTotal, PastExists, Buying
<1>7. OpenTrades > 0 => Cardinality(Mine) < OpenTrades
  BY <1>4, <1>5, <1>6, DeskAssumption DEF Book, DeskInv, LimitInv
<1>8. OpenTrades > 0 /\ MaxTrades > 0 => Cardinality(Had) < MaxTrades + OpenTrades - 1
  BY <1>4, <1>5, <1>6, DeskAssumption DEF Book, DeskInv, LimitInv
<1>9. \A q \in Had : mint[q] # mint[o]
  BY <1>3, <1>6 DEF Book, DeskInv, LimitInv, tradeexists
<1>10. Mine = A!Held /\ Had = A!Taken
  BY DEF A!Held, A!Taken, Position
<1> QED
  BY <1>7, <1>8, <1>9, <1>10, SameCardinality DEF A!MayBuy

Stutters == UNCHANGED <<[o \in Orders |-> Position(o)], mint, chain>>

\* A step of Account in its own words: o's position becomes p.
Moves(o, p) ==
    [q \in Orders |-> Position(q)]'
        = [[q \in Orders |-> Position(q)] EXCEPT ![o] = p]

\* A buy that is filled is a buy of the account.
LEMMA BuyMoves ==
    ASSUME Book, NEW o \in Orders, BuyFilled(o), mint' = mint
    PROVE  A!Buy(o)
<1>1. PICK fee \in QuoteFees, miss \in Misses :
                               /\ pc[o] = "buy"
                               /\ chain' = chain - (Amount + fee) + miss
                               /\ bought' = [bought EXCEPT ![o] = @ + 1]
                               /\ pc' = [pc EXCEPT ![o] = "reread"]
  BY DEF BuyFilled, Spend, Goto
<1>2. /\ bought \in [Orders -> Nat] /\ pc \in [Orders -> Places] /\ bought[o] = 0
  BY <1>1 DEF Book, BookInv, Empty, DeskInv, TypeInv, TypeOK
<1>3. Position(o) = "none" /\ Moves(o, "held")
  <2>1. bought'[o] = 1 /\ pc'[o] = "reread"
        /\ \A q \in Orders \ {o} : bought'[q] = bought[q] /\ pc'[q] = pc[q]
    BY <1>1, <1>2
  <2>2. Position(o)' = "held"
    BY <2>1 DEF Position, Closing
  <2>3. \A q \in Orders \ {o} : Position(q)' = Position(q)
    BY <2>1 DEF Position
  <2> QED
    BY <1>2, <2>2, <2>3 DEF Moves, Position
<1>4. A!MayBuy(o)
  BY <1>1, BuyerMay
<1> QED
  BY <1>1, <1>3, <1>4 DEF A!Buy, Moves, Position

\* Of the other steps of an order or a keeper only sells move anything.
LEMMA SellMoves ==
    ASSUME Book, ~Landed, NEW o \in Orders,
           PartialSell(o) \/ StartClose(o) \/ SellFilled(o) \/ SellError(o)
    PROVE  A!DrawDown(o) \/ A!GiveUp(o) \/ Stutters
<1>1. /\ bought \in [Orders -> Nat] /\ pc \in [Orders -> Places] /\ pc[o] \in {"hold", "sell"}
      /\ bought[o] = 1 /\ Position(o) = "held"
  <2>1. pc[o] \in {"hold", "sell"} /\ bought \in [Orders -> Nat] /\ pc \in [Orders -> Places]
    BY DEF PartialSell, StartClose, SellFilled, SellError, Book, DeskInv, TypeInv, TypeOK
  <2>2. bought[o] = 1
    BY <2>1 DEF Book, BookInv, Empty, Unbought, Screening
  <2> QED
    BY <2>1, <2>2 DEF Position, Closing
<1>2. bought' = bought /\ mint' = mint /\ \A q \in Orders \ {o} : pc'[q] = pc[q]
  BY <1>1 DEF PartialSell, StartClose, SellFilled, SellError, Earn, Goto, storevars, chainvars
<1>3. \A q \in Orders \ {o} : Position(q)' = Position(q)
  BY <1>2 DEF Position
<1>4. ASSUME pc'[o] \in {"hold", "sell", "preread", "stuck"}
      PROVE  [q \in Orders |-> Position(q)]' = [q \in Orders |-> Position(q)]
  <2>1. Position(o)' = "held"
    BY <1>1, <1>2, <1>4 DEF Position, Closing
  <2> QED
    BY <1>1, <1>3, <2>1
<1>5. ASSUME pc'[o] \in {"settle", "close"}
      PROVE  Moves(o, "flat")
  <2>1. Position(o)' = "flat"
    BY <1>1, <1>2, <1>5 DEF Position
  <2> QED
    BY <1>3, <2>1 DEF Moves
<1>6. CASE PartialSell(o)
  <2>1. /\ pc'[o] \in {"hold", "preread"}
        /\ \E proceeds \in Proceeds, miss \in Misses : chain' = chain + proceeds + miss
    BY <1>1, <1>6 DEF PartialSell, Earn, Goto
  <2>2. A!DrawDown(o)
    BY <1>1, <1>2, <1>4, <2>1 DEF A!DrawDown, Position
  <2> QED
    BY <2>2
<1>7. CASE SellFilled(o)
  <2>1. /\ pc'[o] = "settle"
        /\ \E proceeds \in Proceeds, miss \in Misses : chain' = chain + proceeds + miss
    BY <1>1, <1>7 DEF SellFilled, Earn, Goto
  <2>2. A!GiveUp(o)
    BY <1>1, <1>2, <1>5, <2>1 DEF A!GiveUp, Moves, Position
  <2> QED
    BY <2>2
<1>8. CASE StartClose(o) \/ SellError(o)
  <2>1. pc'[o] \in {"close", "sell", "stuck"} /\ chain' = chain
    BY <1>1, <1>8 DEF StartClose, SellError, Goto, chainvars
  <2>2. CASE pc'[o] = "close"
    <3>1. A!GiveUp(o)
      BY <1>1, <1>2, <1>5, <2>1, <2>2 DEF A!GiveUp, Moves, Position
    <3> QED
      BY <3>1
  <2>3. CASE pc'[o] # "close"
    BY <1>2, <1>4, <2>1, <2>3 DEF Stutters
  <2> QED
    BY <2>2, <2>3
<1> QED
  BY <1>6, <1>7, <1>8

\* Everything else leaves the positions, the mints and the account alone.
LEMMA OtherSteps ==
    ASSUME Book, ~Landed, Next
    PROVE  \/ Stutters
           \/ \E o \in Orders : \/ BuyFilled(o) /\ mint' = mint
                                \/ PartialSell(o) \/ StartClose(o)
                                \/ SellFilled(o) \/ SellError(o)
<1> DEFINE Flat == {"settle", "close", "closed"} \cup Closing
<1>0. /\ bought \in [Orders -> Nat] /\ pc \in [Orders -> Places]
  BY DEF Book, DeskInv, TypeInv, TypeOK
<1>1. ASSUME bought' = bought, mint' = mint, chain' = chain, NEW o \in Orders,
             \A q \in Orders \ {o} : pc'[q] = pc[q],
             pc[o] \in Flat <=> pc'[o] \in Flat
      PROVE  Stutters
  <2>1. Position(o)' = Position(o)
    BY <1>1 DEF Position, Closing
  <2>2. \A q \in Orders \ {o} : Position(q)' = Position(q)
    BY <1>1 DEF Position
  <2> QED
    BY <1>1, <2>1, <2>2 DEF Stutters
<1>2. ASSUME bought' = bought, mint' = mint, chain' = chain, pc' = pc
      PROVE  Stutters
  BY <1>2 DEF Stutters, Position
<1>3. ASSUME NEW o \in Orders, Arrive(o) PROVE Stutters
  <2>1. /\ bought' = bought /\ mint' = mint /\ chain' = chain
        /\ \A q \in Orders \ {o} : pc'[q] = pc[q]
        /\ pc[o] \notin Flat /\ pc'[o] \notin Flat
    BY <1>0, <1>3 DEF Arrive, Goto, storevars, chainvars, Closing
  <2> QED
    BY <1>1, <2>1
<1>4. ASSUME NEW o \in Orders, OrderStep(o), ~BuyFilled(o)
      PROVE  Stutters
  <2>1. bought' = bought /\ mint' = mint /\ chain' = chain
    BY <1>4 DEF OrderStep, MintLock, TakePermit, ScreenOut, CheckOpenTrades, CheckMaxTrades,
       CheckExists, CheckFunds, BuyOutOfRange, BuyError, RereadWallet, Debit, CreateTrade,
       BumpCache, Release, storevars, chainvars
  <2>2. /\ \A q \in Orders \ {o} : pc'[q] = pc[q]
        /\ pc[o] \notin Flat /\ pc'[o] \notin Flat
    BY <1>0, <1>4 DEF OrderStep, MintLock, TakePermit, ScreenOut, CheckOpenTrades,
       CheckMaxTrades, CheckExists, CheckFunds, BuyOutOfRange, BuyError, RereadWallet, Debit,
       CreateTrade, BumpCache, Release, Goto, Abort, Closing
  <2> QED
    BY <1>1, <2>1, <2>2
<1>5. ASSUME NEW o \in Orders, BuyFilled(o) PROVE mint' = mint
  BY <1>5 DEF BuyFilled, storevars
<1>6. ASSUME NEW o \in Orders, MintUnlock(o) PROVE Stutters
  BY <1>2, <1>6 DEF MintUnlock, chainvars
<1>7. ASSUME NEW o \in Orders,
             \/ LosePrice(o) \/ PartialReread(o) \/ PartialCredit(o) \/ PartialBook(o)
             \/ Settle(o) \/ CloseRow(o) \/ Uncount(o) \/ RemoveCount(o)
      PROVE  Stutters
  <2>1. bought' = bought /\ mint' = mint /\ chain' = chain
    BY <1>7 DEF LosePrice, PartialReread, PartialCredit, PartialBook, Settle, CloseRow,
       Uncount, RemoveCount, storevars, chainvars
  <2>2. /\ \A q \in Orders \ {o} : pc'[q] = pc[q]
        /\ pc[o] \in Flat <=> pc'[o] \in Flat
    BY <1>0, <1>7 DEF LosePrice, PartialReread, PartialCredit, PartialBook, Settle, CloseRow,
       Uncount, RemoveCount, Goto, Closing
  <2> QED
    BY <1>1, <2>1, <2>2
<1>8. ASSUME WatchStep PROVE Stutters
  BY <1>2, <1>8 DEF WatchStep, WatchOpen, WatchTotal, Exit, storevars, chainvars
<1>9. CASE UNCHANGED vars
  BY <1>2, <1>9 DEF vars, storevars, chainvars
<1> QED
  BY <1>3, <1>4, <1>5, <1>6, <1>7, <1>8, <1>9 DEF Next, Terminated, KeeperStep, SellStep

\* The invariant of the desk and what is booked hold throughout.
LEMMA BookInvariant ==
    ASSUME NoLimitFaults, NoBookingFaults
    PROVE  Spec => []Book
<1>1. Init => Book
  <2>1. Init => BookInv
    BY DEF Init, BookInv, Empty, Unbought
  <2> QED
    BY <2>1, TypeInit, PermitInit, RowInit, LimitInit DEF Book, DeskInv
<1>2. Book /\ [Next]_vars => Book'
  BY TypeStep, PermitStep, RowStep, LimitStep, BookStep, NoLimitFaults, NoBookingFaults
     DEF Book, DeskInv
<1> QED
  BY <1>1, <1>2, PTL DEF Spec

\* For any orders, mints and limits the desk is one account: whatever the tables
\* and caches say meanwhile, a position is opened only within the limits, once a
\* mint, and is never sold after it is flat.
THEOREM DeskImplementsAccount ==
    ASSUME NoLimitFaults, NoBookingFaults
    PROVE  Spec => ImplementsAccount
<1>1. Init => A!AInit
  <2> SUFFICES ASSUME Init PROVE A!AInit
    OBVIOUS
  <2>1. [o \in Orders |-> Position(o)] = [o \in Orders |-> "none"]
    BY DEF Init, Position
  <2>2. chain \in Int
    BY DeskAssumption DEF Init
  <2> QED
    BY <2>1, <2>2 DEF A!AInit, Position
<1>2. Book /\ [Next]_vars => [A!ANext]_(A!avars)
  <2> SUFFICES ASSUME Book, [Next]_vars PROVE [A!ANext]_(A!avars)
    OBVIOUS
  <2>1. CASE UNCHANGED vars
    BY <2>1 DEF vars, storevars, chainvars, A!avars
  <2>2. CASE Stutters
    BY <2>2 DEF Stutters, Position, A!avars
  <2>3. ASSUME NEW o \in Orders, BuyFilled(o), mint' = mint
        PROVE  A!ANext
    BY <2>3, BuyMoves DEF A!ANext
  <2>4. ASSUME NEW o \in Orders,
               PartialSell(o) \/ StartClose(o) \/ SellFilled(o) \/ SellError(o)
        PROVE  A!ANext \/ Stutters
    BY <2>4, SellMoves, NoBookingFaults DEF A!ANext, NoBookingFaults
  <2>5. ~Landed
    BY NoBookingFaults DEF NoBookingFaults
  <2> QED
    BY <2>1, <2>2, <2>3, <2>4, <2>5, OtherSteps
<1>3. Spec => []Book
  BY BookInvariant, NoLimitFaults, NoBookingFaults
<1> QED
  BY <1>1, <1>2, <1>3, PTL DEF Spec, ImplementsAccount, A!ASpec
===============================================================================
