-------------------------- MODULE TradeFollow_proofs --------------------------
(* Theorems about TradeFollow for every value of its constants. *)
EXTENDS TradeFollow, SequenceTheorems, TLAPS

-----------------------------------------------------------------------------
(* Shares *)

\* Part of a cost, by part of its units, is no more than the cost.
LEMMA PartOf ==
    ASSUME NEW a \in Nat, NEW b \in Nat, NEW c \in Nat \ {0}, b <= c
    PROVE  (a * b) \div c \in 0..a
<1> DEFINE q == (a * b) \div c
<1>1. a * b \in Nat /\ a * c \in Nat /\ a * b <= a * c
  OBVIOUS
<1>2. q \in Nat /\ c * q <= a * b
  BY <1>1
<1>3. c * q <= a * c
  BY <1>1, <1>2
<1>4. q <= a
  BY <1>2, <1>3
<1> QED
  BY <1>2, <1>4

\* A share of less than the whole leaves something.
LEMMA ShareLess ==
    ASSUME NEW n \in Nat \ {0}, NEW pct \in 0..99
    PROVE  (n * pct) \div 100 \in 0 .. n - 1
<1> DEFINE s == (n * pct) \div 100
<1>1. n * pct \in Nat /\ n * pct <= 99 * n
  OBVIOUS
<1>2. s \in Nat /\ 100 * s <= n * pct
  BY <1>1
<1>3. s < n
  BY <1>1, <1>2
<1> QED
  BY <1>2, <1>3
-----------------------------------------------------------------------------
(* Types. The units that are left are those in the wallet, and there is always *)
(* one: a partial sell is of a share of less than the whole.                   *)

Ticks == [price : {Entry} \cup Prices, out : Nat, basis : Nat, pnl : Int, elapsed : 0..TimeClose]

Held ==
    /\ units > 0
    /\ pc # "closed" => held = units
    /\ pc \in {"drain", "trail", "partial", "trailing"} => tick.price \in Prices

FollowInv == TypeOK /\ Held

\* What FollowAssumption says of each constant.
LEMMA Consts ==
    /\ Entry \in Nat \ {0} /\ Units \in Nat \ {0} /\ Prices \subseteq Nat /\ Slips \subseteq Int
    /\ PartialShare \in 0..99 /\ TrailingShare \in 0..99
    /\ PartialTrigger \in Nat /\ TrailingTrigger \in Nat
    /\ TakeProfit \in Nat /\ StopLoss \in Nat
    /\ TrailingStop \in 0..100 /\ TrailingDrop \in 0..100
    /\ TimeClose \in Nat /\ Attempts \in Nat /\ Capacity \in Nat \ {0}
    /\ Cost \in Nat \ {0}
<1>1. Entry \in Nat \ {0} /\ Units \in Nat \ {0}
  BY FollowAssumption
<1>2. Entry * Units \in Nat \ {0}
  BY <1>1
<1> QED
  BY <1>1, <1>2, FollowAssumption DEF Cost

\* A keeper starts with all that was bought.
LEMMA FollowInit == Init => FollowInv
<1> SUFFICES ASSUME Init PROVE FollowInv
  OBVIOUS
<1>1. tick \in [price : {Entry} \cup Prices, out : Nat, basis : Nat, pnl : Int,
               elapsed : 0..TimeClose]
  BY Consts DEF Init
<1>2. queue \in Seq({"mine", "other"}) /\ Len(queue) <= Capacity
  BY Consts DEF Init
<1>3. /\ pc = "head" /\ exit = "Timeout" /\ lagged = FALSE
      /\ trailing = FALSE /\ partial = FALSE /\ count = 0 /\ level = 0 /\ tries = 0
      /\ units = Units /\ basis = Cost /\ high = Cost /\ held = Units
      /\ realized = 0 /\ earned = 0 /\ total = 0 /\ clock = 0 /\ peak = Entry
  BY DEF Init
<1>4. TypeOK
  <2>1. /\ pc \in Looping \cup {"close", "closed", "gone"} /\ exit \in Reasons
        /\ trailing \in BOOLEAN /\ partial \in BOOLEAN /\ lagged \in BOOLEAN
    BY <1>3 DEF Looping, Reasons
  <2>2. /\ units \in 0..Units /\ held \in 0..Units /\ basis \in 0..Cost
        /\ realized \in Int /\ earned \in Int /\ total \in Int
        /\ high \in Nat /\ count \in Nat /\ level \in Nat
        /\ tries \in 0..Attempts /\ clock \in 0..TimeClose
    BY <1>3, Consts
  <2>3. peak \in {Entry} \cup Prices
    BY <1>3
  <2> QED
    BY <1>1, <1>2, <2>1, <2>2, <2>3 DEF TypeOK
<1> QED
  BY <1>3, <1>4, Consts DEF FollowInv, Held

\* A sell of a share that is not nothing.
LEMMA ReduceType ==
    ASSUME FollowInv, NEW pct \in 0..99, Share(pct) > 0, Reduce(Share(pct)),
           pc \in {"partial", "trailing"}
    PROVE  /\ Share(pct) \in 1 .. units - 1
           /\ units' \in 1..Units /\ held' = units'
           /\ basis' \in 0..Cost /\ high' \in Nat /\ tries' = 0
           /\ realized' \in Int /\ earned' \in Int
           /\ \E slip \in Slips : earned' = earned + Share(pct) * (tick.price - slip)
<1> DEFINE share == Share(pct)
<1>1. /\ units \in Nat \ {0} /\ units <= Units /\ Units \in Nat
      /\ basis \in Nat /\ basis <= Cost /\ Cost \in Nat
      /\ realized \in Int /\ earned \in Int /\ held = units
  BY Consts DEF FollowInv, TypeOK, Held
<1>0. tick.price \in Nat
  BY Consts DEF FollowInv, Held
<1>2. share \in 1 .. units - 1
  BY <1>0, <1>1, ShareLess DEF Share
<1> HIDE DEF share
<1>3. units - share \in Nat /\ units - share > 0 /\ units - share <= units
  BY <1>0, <1>1, <1>2
<1>4. /\ held' = held - share /\ units' = units - share
      /\ basis' = (basis * (units - share)) \div units
      /\ high' = (units - share) * tick.price /\ tries' = 0
      /\ \E slip \in Slips : /\ realized' = realized + share * (tick.price - slip)
                             /\ earned' = earned + share * (tick.price - slip)
  BY DEF Reduce, share
<1>5. basis' \in 0..basis
  BY <1>0, <1>1, <1>3, <1>4, PartOf
<1>6. realized' \in Int /\ earned' \in Int
  <2>1. PICK slip \in Slips : /\ realized' = realized + share * (tick.price - slip)
                              /\ earned' = earned + share * (tick.price - slip)
    BY <1>4
  <2>2. share * (tick.price - slip) \in Int
    BY <1>0, <1>1, <1>2, Consts
  <2> QED
    BY <1>0, <1>1, <2>1, <2>2
<1>7. high' \in Nat
  BY <1>0, <1>1, <1>3, <1>4
<1> QED
  BY <1>0, <1>1, <1>2, <1>3, <1>4, <1>5, <1>6, <1>7 DEF share

\* The next level is a percentage, however many trailing sells were made.
LEMMA LevelType == \A n \in Nat : NextLevel(n) \in Nat
<1> SUFFICES ASSUME NEW n \in Nat PROVE NextLevel(n) \in Nat
  OBVIOUS
<1>1. TrailingTrigger * (n + 1) \in Nat
  BY Consts
<1> QED
  BY <1>1, Consts DEF NextLevel

\* No step breaks the types, nor that what is left is what the wallet holds.
LEMMA FollowStep == FollowInv /\ [Next]_vars => FollowInv'
<1> SUFFICES ASSUME FollowInv, [Next]_vars PROVE FollowInv'
  OBVIOUS
<1> USE Consts DEF FollowInv, TypeOK, Held, Looping, Reasons, Close,
        position, trail, bus, outside
<1>1. CASE ReadPrice
  <2>1. PICK price \in Prices :
           /\ tick' = [price |-> price, out |-> units * price, basis |-> basis,
                       pnl |-> realized + units * price - Cost, elapsed |-> clock]
           /\ peak' = Higher(peak, price)
    BY <1>1 DEF ReadPrice
  <2>2. price \in Nat /\ units * price \in Nat
    OBVIOUS
  <2>3. realized + units * price - Cost \in Int
    BY <2>2
  <2>4. tick' \in [price : {Entry} \cup Prices, out : Nat, basis : Nat,
                   pnl : Int, elapsed : 0..TimeClose]
    BY <1>1, <2>1, <2>2, <2>3 DEF ReadPrice
  <2>5. peak' \in {Entry} \cup Prices
    BY <2>1 DEF Higher
  <2> QED
    BY <1>1, <2>4, <2>5 DEF ReadPrice
<1>2. CASE LosePrice BY <1>2 DEF LosePrice
<1>3. CASE TimeOut BY <1>3 DEF TimeOut
<1>4. CASE CheckDrain
  <2>1. pc' \in {"close", "trail"} /\ exit' \in Reasons
    BY <1>4 DEF CheckDrain
  <2> QED
    BY <1>4, <2>1 DEF CheckDrain
<1>5. CASE CheckTrailing
  <2>1. pc' \in {"close", "partial"} /\ exit' \in Reasons
    BY <1>5 DEF CheckTrailing
  <2>2. trailing' \in BOOLEAN /\ high' \in Nat
    <3>1. tick.out \in Nat /\ high \in Nat /\ trailing \in BOOLEAN
      OBVIOUS
    <3> QED
      BY <1>5, <3>1 DEF CheckTrailing
  <2>3. pc' = "partial" => tick'.price \in Prices
    BY <1>5 DEF CheckTrailing
  <2> QED
    BY <1>5, <2>1, <2>2, <2>3 DEF CheckTrailing
<1>6. CASE PartialFilled
  <2>1. Share(PartialShare) > 0 /\ Reduce(Share(PartialShare)) /\ pc = "partial"
    BY <1>6 DEF PartialFilled, PartialDue
  <2>2. /\ units' \in 1..Units /\ held' = units'
        /\ basis' \in 0..Cost /\ high' \in Nat /\ tries' = 0
        /\ realized' \in Int /\ earned' \in Int
    BY <2>1, ReduceType
  <2> QED
    BY <1>6, <2>2, LevelType DEF PartialFilled
<1>7. CASE PartialError BY <1>7 DEF PartialError, PartialDue
<1>8. CASE PartialSkip BY <1>8 DEF PartialSkip
<1>9. CASE TrailingFilled
  <2>1. Share(TrailingShare) > 0 /\ Reduce(Share(TrailingShare)) /\ pc = "trailing"
    BY <1>9 DEF TrailingFilled, TrailingDue
  <2>2. /\ units' \in 1..Units /\ held' = units'
        /\ basis' \in 0..Cost /\ high' \in Nat /\ tries' = 0
        /\ realized' \in Int /\ earned' \in Int
    BY <2>1, ReduceType
  <2>3. pc' \in {"trailing", "exit"} /\ level' \in Nat /\ count' \in Nat
    BY <1>9, LevelType DEF TrailingFilled
  <2>4. tick' = tick /\ tick.price \in Prices
    BY <1>9 DEF TrailingFilled
  <2> QED
    BY <1>9, <2>2, <2>3, <2>4 DEF TrailingFilled
<1>10. CASE TrailingError BY <1>10 DEF TrailingError, TrailingDue
<1>11. CASE TrailingSkip BY <1>11 DEF TrailingSkip
<1>12. CASE CheckExit
  <2>1. pc' \in {"close", "wait"} /\ exit' \in Reasons
    BY <1>12 DEF CheckExit, exitbundler
  <2>2. high' \in Nat
    BY <1>12 DEF CheckExit, Higher
  <2>3. /\ pc = "exit"
        /\ UNCHANGED <<tick, position, trailing, partial, count, level, tries, total,
                       clock, bus, outside, peak>>
    BY <1>12 DEF CheckExit
  <2> QED
    BY <2>1, <2>2, <2>3 DEF position, bus
<1>13. CASE Sleep BY <1>13 DEF Sleep
<1>14. CASE Receive
  <2>1. queue' \in Seq({"mine", "other"}) /\ Len(queue') <= Capacity
    BY <1>14, HeadTailProperties DEF Receive
  <2>2. pc' \in {"close", "head"} /\ exit' \in Reasons
    BY <1>14 DEF Receive
  <2> QED
    BY <1>14, <2>1, <2>2 DEF Receive
<1>15. CASE CloseFilled
  <2>1. PICK price \in Prices, slip \in Slips :
           /\ total' = realized + units * (price - slip)
           /\ earned' = earned + units * (price - slip)
    BY <1>15 DEF CloseFilled
  <2>2. units * (price - slip) \in Int
    OBVIOUS
  <2>3. total' \in Int /\ earned' \in Int
    BY <2>1, <2>2
  <2> QED
    BY <1>15, <2>3 DEF CloseFilled
<1>16. CASE CloseError BY <1>16 DEF CloseError
<1>17. CASE CloseGivenUp BY <1>17 DEF CloseGivenUp
<1>18. CASE Pass BY <1>18 DEF Pass
<1>19. CASE signalclose
  <2>1. PICK whose \in {"mine", "other"} :
           IF Len(queue) < Capacity
           THEN queue' = Append(queue, whose) /\ UNCHANGED lagged
           ELSE queue' = Append(Tail(queue), whose) /\ lagged' = TRUE
    BY <1>19 DEF signalclose
  <2>2. queue \in Seq({"mine", "other"}) /\ Len(queue) \in Nat
    OBVIOUS
  <2>3. CASE Len(queue) < Capacity
    <3>1. queue' \in Seq({"mine", "other"}) /\ Len(queue') <= Capacity
      <4> HIDE DEF FollowInv, TypeOK, Held
      <4>1. queue' = Append(queue, whose) /\ Len(queue') = Len(queue) + 1
        BY <2>1, <2>2, <2>3, AppendProperties
      <4> QED
        BY <2>2, <2>3, <4>1, AppendProperties, Consts
    <3> QED
      BY <1>19, <2>1, <2>3, <3>1 DEF signalclose
  <2>4. CASE ~(Len(queue) < Capacity)
    <3>1. queue # <<>> /\ Len(queue) = Capacity
      BY <2>2, <2>4
    <3>2. Tail(queue) \in Seq({"mine", "other"}) /\ Len(Tail(queue)) = Capacity - 1
      BY <2>2, <3>1, HeadTailProperties
    <3>3. queue' \in Seq({"mine", "other"}) /\ Len(queue') = Capacity
      <4> HIDE DEF FollowInv, TypeOK, Held
      <4>1. queue' = Append(Tail(queue), whose)
        BY <2>1, <2>4
      <4> QED
        BY <3>2, <4>1, AppendProperties, Consts
    <3> QED
      BY <1>19, <2>1, <2>4, <3>3 DEF signalclose
  <2> QED
    BY <2>3, <2>4
<1>20. CASE UNCHANGED vars
  BY <1>20 DEF vars
<1> QED
  BY <1>1, <1>2, <1>3, <1>4, <1>5, <1>6, <1>7, <1>8, <1>9, <1>10, <1>11, <1>12, <1>13,
     <1>14, <1>15, <1>16, <1>17, <1>18, <1>19, <1>20 DEF Next, KeeperStep, Done

\* The variables keep to their types: no retry runs past its limit, no sell is of more
\* than is held, and the broadcast holds no more than its capacity.
THEOREM FollowTypeCorrect == Spec => []TypeOK
<1>1. FollowInv => TypeOK
  BY DEF FollowInv
<1> QED
  BY FollowInit, FollowStep, <1>1, PTL DEF Spec
-----------------------------------------------------------------------------
(* The keeper implements Position. *)

\* A partial sell takes a part from the position at the price that was read.
LEMMA SellReduces ==
    ASSUME FollowInv, NEW pct \in 0..99, Share(pct) > 0, Reduce(Share(pct)),
           pc \in {"partial", "trailing"}, pc' # "closed"
    PROVE  P!Reduce
<1>1. /\ Share(pct) \in 1 .. units - 1
      /\ \E slip \in Slips : earned' = earned + Share(pct) * (tick.price - slip)
  BY ReduceType
<1>2. held = units /\ held' = held - Share(pct) /\ tick.price \in Prices
  BY DEF FollowInv, Held, Reduce
<1> QED
  BY <1>1, <1>2 DEF P!Reduce

\* Every step is one of Position: the sells of a share reduce, a filled close ends,
\* and the rest touches neither wallet nor earnings.
LEMMA PositionStep == FollowInv /\ [Next]_vars => [P!PNext]_(P!pvars)
<1> SUFFICES ASSUME FollowInv, [Next]_vars PROVE [P!PNext]_(P!pvars)
  OBVIOUS
<1>1. CASE PartialFilled
  <2>1. P!Reduce
    BY <1>1, Consts, SellReduces DEF PartialFilled, PartialDue
  <2> QED
    BY <2>1 DEF P!PNext
<1>2. CASE TrailingFilled
  <2>1. pc' # "closed"
    BY <1>2 DEF TrailingFilled
  <2>2. P!Reduce
    BY <1>2, <2>1, Consts, SellReduces DEF TrailingFilled, TrailingDue
  <2> QED
    BY <2>2 DEF P!PNext
<1>3. CASE CloseFilled
  <2>1. /\ pc = "close" /\ pc' = "closed" /\ held = units /\ held' = held - units
        /\ held \in Nat
    BY <1>3, Consts DEF CloseFilled, FollowInv, TypeOK, Held
  <2>2. \E price \in Prices, slip \in Slips : earned' = earned + held * (price - slip)
    BY <1>3, <2>1 DEF CloseFilled
  <2>3. P!End
    BY <2>1, <2>2 DEF P!End
  <2> QED
    BY <2>3 DEF P!PNext
<1>4. CASE CloseGivenUp
  <2>1. P!End
    BY <1>4 DEF CloseGivenUp, outside, P!End
  <2> QED
    BY <2>1 DEF P!PNext
<1>5. ASSUME held' = held, earned' = earned, (pc' = "closed") = (pc = "closed")
      PROVE  UNCHANGED P!pvars
  BY <1>5 DEF P!pvars
<1>6. CASE ReadPrice \/ LosePrice \/ TimeOut \/ CheckDrain \/ CheckTrailing
  BY <1>5, <1>6 DEF ReadPrice, LosePrice, TimeOut, CheckDrain, CheckTrailing, Close, outside
<1>7. CASE PartialError \/ PartialSkip \/ TrailingError \/ TrailingSkip \/ CheckExit
  BY <1>5, <1>7 DEF PartialError, PartialSkip, TrailingError, TrailingSkip, CheckExit, Close,
     outside
<1>8. CASE Sleep \/ Receive \/ CloseError \/ Pass \/ signalclose
  BY <1>5, <1>8 DEF Sleep, Receive, CloseError, Pass, signalclose, Close, outside
<1>9. CASE UNCHANGED vars
  BY <1>5, <1>9 DEF vars, outside
<1> QED
  BY <1>1, <1>2, <1>3, <1>4, <1>6, <1>7, <1>8, <1>9 DEF Next, KeeperStep, Done

\* Whatever the prices, the shares and the failing swaps: a keeper never sells more
\* than it holds nor all of it in parts, and ends its position once.
THEOREM KeeperImplementsPosition == Spec => ImplementsPosition
<1>1. Init => P!PInit
  BY DEF Init, P!PInit
<1> QED
  BY <1>1, FollowInit, FollowStep, PositionStep, PTL DEF Spec, ImplementsPosition, P!PSpec

-----------------------------------------------------------------------------
(* Trailing *)
\* Until a first partial sell all units are held, the high is no more than they were
\* ever worth, and what the turn has computed is of its price. A Trailing close fell.
HighInv ==
    ~partial =>
        /\ units = Units
        /\ high <= Units * peak
        /\ tick.price <= peak
        /\ tick.out = Units * tick.price

TrailInv ==
    HighInv /\ TrailingFromPeak /\ (exit = "Trailing" => pc \in {"close", "closed"})

\* What the provers do not find about products by themselves.
LEMMA TimesMonotone == \A a, b, c \in Nat : a <= b => c * a <= c * b
OBVIOUS

\* A fall of what is held is a fall of its price.
LEMMA FallOfPrice ==
    ASSUME NEW price \in Nat, NEW top \in Nat, NEW value \in Nat, NEW pct \in 0..100,
           value <= Units * top, Falls(Units * price, value, pct)
    PROVE  price * 100 <= top * (100 - pct)
<1> DEFINE keep == 100 - pct
<1>0. Units \in Nat \ {0} /\ keep \in Nat
  BY Consts
<1>1. (Units * price) * 100 <= value * keep
  BY DEF Falls
<1> HIDE DEF keep
<1>2. value * keep <= (Units * top) * keep
  BY <1>0
<1>3. Units * (price * 100) <= Units * (top * keep)
  <2>1. /\ (Units * price) * 100 = Units * (price * 100)
        /\ (Units * top) * keep = Units * (top * keep)
    BY <1>0
  <2>2. value * keep \in Nat
    BY <1>0
  <2> QED
    BY <1>0, <1>1, <1>2, <2>1, <2>2
<1>4. price * 100 \in Nat /\ top * keep \in Nat
  BY <1>0
<1> QED
  BY <1>0, <1>3, <1>4 DEF keep

\* The high stays below the peak until the first partial sell, and a Trailing close is
\* decided only below that high.
LEMMA TrailStep == FollowInv /\ TrailInv /\ [Next]_vars => TrailInv'
<1> SUFFICES ASSUME FollowInv, TrailInv, [Next]_vars PROVE TrailInv'
  OBVIOUS
<1>0. /\ tick.price \in Nat /\ tick.out \in Nat /\ peak \in Nat /\ high \in Nat
      /\ Units \in Nat /\ Units * tick.price \in Nat /\ Units * peak \in Nat
      /\ TrailingStop \in 0..100 /\ TrailingDrop \in 0..100
  <2>1. /\ tick \in Ticks /\ peak \in {Entry} \cup Prices /\ high \in Nat
    BY DEF FollowInv, TypeOK, Ticks
  <2>2. tick.price \in Nat /\ tick.out \in Nat /\ peak \in Nat
    BY <2>1, Consts DEF Ticks
  <2> QED
    BY <2>1, <2>2, Consts
\* What neither reads a price nor decides.
<1>1. ASSUME tick' = tick, peak' = peak, partial' = partial, exit' \in {exit, "Withdraw", "Timeout", "LiqDrain"},
             ~partial => units' = units /\ high' = high,
             pc \in {"close", "closed"} => pc' \in {"close", "closed"} /\ exit' = exit
      PROVE  TrailInv'
  BY <1>1 DEF TrailInv, HighInv, TrailingFromPeak
<1>2. CASE ReadPrice
  <2>1. PICK price \in Prices :
           /\ tick'.price = price /\ tick'.out = units * price
           /\ peak' = Higher(peak, price)
    BY <1>2 DEF ReadPrice
  <2>2. /\ pc = "head" /\ exit' = exit /\ partial' = partial /\ units' = units /\ high' = high
    BY <1>2 DEF ReadPrice, position, trail
  <2>3. price \in Nat /\ peak' \in Nat /\ peak <= peak' /\ price <= peak'
    BY <1>0, <2>1, Consts DEF Higher
  <2>4. Units * peak <= Units * peak' /\ Units * peak' \in Nat
    <3>1. \A top \in Nat : peak <= top => Units * peak <= Units * top /\ Units * top \in Nat
      BY <1>0, TimesMonotone
    <3> QED
      BY <2>3, <3>1
  <2>5. HighInv'
    BY <1>0, <2>1, <2>2, <2>3, <2>4 DEF HighInv, TrailInv
  <2> QED
    BY <2>2, <2>5 DEF TrailInv, TrailingFromPeak
<1>3. CASE CheckTrailing
  <2> DEFINE active == trailing \/ Reaches(tick.out, tick.basis, TrailingStop)
             top == IF active /\ ~trailing THEN tick.out ELSE high
  <2>1. /\ high' = top /\ partial' = partial /\ units' = units
        /\ tick' = tick /\ peak' = peak /\ pc = "trail"
        /\ \/ pc' = "partial" /\ exit' = exit
           \/ pc' = "close" /\ exit' = "Trailing" /\ Falls(tick.out, top, TrailingDrop)
    BY <1>3 DEF CheckTrailing, Close, position
  <2>2. top \in Nat
    BY <1>0
  <2>3. ~partial => top <= Units * peak
    <3>1. ~partial => high <= Units * peak /\ tick.out <= Units * peak
      <4>1. tick.price <= peak => Units * tick.price <= Units * peak
        BY <1>0
      <4> QED
        BY <4>1 DEF TrailInv, HighInv
    <3> QED
      BY <3>1
  <2> HIDE DEF top, active
  <2>4. HighInv'
    BY <2>1, <2>3 DEF TrailInv, HighInv
  <2>5. ~partial /\ exit' = "Trailing" => tick.price * 100 <= peak * (100 - TrailingDrop)
    <3>1. exit # "Trailing"
      BY <2>1 DEF TrailInv
    <3>2. ASSUME ~partial, exit' = "Trailing"
          PROVE  tick.price * 100 <= peak * (100 - TrailingDrop)
      <4>1. Falls(Units * tick.price, top, TrailingDrop) /\ top <= Units * peak
        BY <2>1, <2>3, <3>1, <3>2 DEF TrailInv, HighInv
      <4> QED
        BY <1>0, <2>2, <4>1, FallOfPrice
    <3> QED
      BY <3>2
  <2> QED
    BY <2>1, <2>4, <2>5 DEF TrailInv, TrailingFromPeak
<1>4. CASE CheckExit
  <2> DEFINE top == IF trailing THEN Higher(high, tick.out) ELSE high
  <2>1. /\ high' = top /\ partial' = partial /\ units' = units
        /\ tick' = tick /\ peak' = peak /\ pc = "exit"
    BY <1>4 DEF CheckExit, position
  <2>2. \/ pc' = "wait" /\ exit' = exit
        \/ pc' = "close" /\ exit' \in exitbundler(top)
    BY <1>4 DEF CheckExit, Close
  <2>3. top \in Nat
    BY <1>0 DEF Higher
  <2>4. ~partial => top <= Units * peak
    <3>1. ~partial => high <= Units * peak /\ tick.out <= Units * peak
      <4>1. tick.price <= peak => Units * tick.price <= Units * peak
        BY <1>0
      <4> QED
        BY <4>1 DEF TrailInv, HighInv
    <3> QED
      BY <3>1 DEF Higher
  <2> HIDE DEF top
  <2>5. HighInv'
    BY <2>1, <2>4 DEF TrailInv, HighInv
  <2>6. exit' = "Trailing" => pc' = "close" /\ Falls(tick.out, top, TrailingStop)
    BY <2>1, <2>2 DEF TrailInv, exitbundler
  <2>7. ~partial /\ exit' = "Trailing" => tick.price * 100 <= peak * (100 - TrailingStop)
    <3>1. ASSUME ~partial, exit' = "Trailing"
          PROVE  tick.price * 100 <= peak * (100 - TrailingStop)
      <4>1. Falls(Units * tick.price, top, TrailingStop) /\ top <= Units * peak
        BY <2>4, <2>6, <3>1 DEF TrailInv, HighInv
      <4> QED
        BY <1>0, <2>3, <4>1, FallOfPrice
    <3> QED
      BY <3>1
  <2> QED
    BY <2>1, <2>5, <2>6, <2>7 DEF TrailInv, TrailingFromPeak
<1>5. CASE PartialFilled
  <2>1. partial' /\ exit' = exit /\ pc = "partial"
    BY <1>5 DEF PartialFilled
  <2> QED
    BY <2>1 DEF TrailInv, HighInv, TrailingFromPeak
<1>6. CASE TrailingFilled
  <2>1. partial /\ partial' = partial /\ exit' = exit /\ pc = "trailing"
    BY <1>6 DEF TrailingFilled, TrailingDue
  <2> QED
    BY <2>1 DEF TrailInv, HighInv, TrailingFromPeak
<1>7. CASE LosePrice \/ TimeOut \/ CheckDrain \/ Sleep \/ Receive
  BY <1>1, <1>7 DEF LosePrice, TimeOut, CheckDrain, Sleep, Receive, Close, position, trail
<1>8. CASE PartialError \/ PartialSkip \/ TrailingError \/ TrailingSkip
  BY <1>1, <1>8 DEF PartialError, PartialSkip, TrailingError, TrailingSkip, position, trail
<1>9. CASE CloseFilled \/ CloseError \/ CloseGivenUp \/ Pass \/ signalclose
  BY <1>1, <1>9 DEF CloseFilled, CloseError, CloseGivenUp, Pass, signalclose, position, trail
<1>10. CASE UNCHANGED vars
  BY <1>1, <1>10 DEF vars, position, trail
<1> QED
  BY <1>2, <1>3, <1>4, <1>5, <1>6, <1>7, <1>8, <1>9, <1>10 DEF Next, KeeperStep, Done

\* For any prices and percentages: a trade that never sold in part is closed as
\* Trailing only below the highest price it has read, by one of the two drops.
THEOREM TrailingFromPeakHolds == Spec => []TrailingFromPeak
<1>1. Init => TrailInv
  <2> SUFFICES ASSUME Init PROVE TrailInv
    OBVIOUS
  <2>1. Cost = Units * Entry /\ Units * Entry \in Nat
    BY Consts DEF Cost
  <2> QED
    BY <2>1, Consts DEF Init, TrailInv, HighInv, TrailingFromPeak
<1>2. TrailInv => TrailingFromPeak
  BY DEF TrailInv
<1> QED
  BY <1>1, <1>2, FollowInit, FollowStep, TrailStep, PTL DEF Spec
-----------------------------------------------------------------------------
(* Costs and gains *)

\* A unit costs what it did at the buy, however many are left: the division that
\* splits the cost leaves no remainder, whatever the shares.
LEMMA SplitCost ==
    ASSUME NEW e \in Nat, NEW n \in Nat \ {0}, NEW m \in Nat
    PROVE  ((e * n) * m) \div n = e * m
<1>1. e * m \in Nat /\ (e * n) * m = n * (e * m)
  OBVIOUS
<1>2. \A k \in Nat : (n * k) \div n = k
  OBVIOUS
<1> QED
  BY <1>1, <1>2

\* A gain on several units is the same gain on one.
LEMMA GainOfUnit ==
    ASSUME NEW n \in Nat \ {0}, NEW price \in Nat, NEW pct \in Nat,
           (n * price - n * Entry) * 100 >= pct * (n * Entry)
    PROVE  price * 100 >= Entry * (100 + pct)
<1>0. Entry \in Nat
  BY Consts
<1>1. (n * price - n * Entry) * 100 = n * ((price - Entry) * 100)
  BY <1>0
<1>2. pct * (n * Entry) = n * (pct * Entry)
  BY <1>0
<1>3. (price - Entry) * 100 \in Int /\ pct * Entry \in Int
  BY <1>0
<1>4. n * ((price - Entry) * 100) >= n * (pct * Entry)
  BY <1>1, <1>2
<1>5. \A a, b \in Int : n * a >= n * b => a >= b
  OBVIOUS
<1>6. (price - Entry) * 100 >= pct * Entry
  BY <1>3, <1>4, <1>5
<1>7. (price - Entry) * 100 = price * 100 - Entry * 100 /\ Entry * (100 + pct) = Entry * 100 + pct * Entry
  BY <1>0
<1> QED
  BY <1>0, <1>3, <1>6, <1>7

\* What the turn has computed is of some number of units at its price, which may be
\* more than are left by now, but cost what they cost.
GainInv ==
    /\ basis = Entry * units
    /\ \E n \in 1..Units : tick.out = n * tick.price /\ tick.basis = n * Entry
    /\ tick.price <= peak
    /\ ~partial => /\ units = Units /\ realized = 0 /\ count = 0
                   /\ tick.pnl = Units * tick.price - Units * Entry
    /\ partial => level = NextLevel(count)
    /\ SellsEarned

\* Sells and steps that read no price.
GainKept ==
    /\ tick' = tick /\ peak' = peak
    /\ basis' = basis /\ units' = units /\ realized' = realized
    /\ partial' = partial /\ count' = count /\ level' = level

\* Sells keep the cost of a unit; a level is passed only by the gain of the price read.
LEMMA GainStep == FollowInv /\ GainInv /\ [Next]_vars => GainInv'
<1> SUFFICES ASSUME FollowInv, GainInv, [Next]_vars PROVE GainInv'
  OBVIOUS
<1>0. /\ tick.price \in Nat /\ peak \in Nat /\ units \in 1..Units /\ count \in Nat
      /\ Entry \in Nat \ {0} /\ Units \in Nat \ {0} /\ Cost = Units * Entry
  <2>1. tick \in Ticks /\ peak \in {Entry} \cup Prices /\ units \in 1..Units /\ count \in Nat
    BY Consts DEF FollowInv, TypeOK, Held, Ticks
  <2>2. tick.price \in Nat /\ peak \in Nat
    BY <2>1, Consts DEF Ticks
  <2> QED
    BY <2>1, <2>2, Consts DEF Cost
<1>1. CASE GainKept
  BY <1>1 DEF GainKept, GainInv, SellsEarned
<1>2. CASE ReadPrice
  <2>1. PICK price \in Prices :
           /\ tick'.price = price /\ tick'.out = units * price /\ tick'.basis = basis
           /\ tick'.pnl = realized + units * price - Cost
           /\ peak' = Higher(peak, price)
    BY <1>2 DEF ReadPrice
  <2>2. /\ basis' = basis /\ units' = units /\ realized' = realized
        /\ partial' = partial /\ count' = count /\ level' = level
    BY <1>2 DEF ReadPrice, position, trail
  <2>3. price \in Nat /\ peak' \in Nat /\ peak <= peak' /\ price <= peak'
    BY <1>0, <2>1, Consts DEF Higher
  <2>4. \E n \in 1..Units : tick'.out = n * tick'.price /\ tick'.basis = n * Entry
    <3>1. basis = units * Entry
      BY <1>0 DEF GainInv
    <3> QED
      BY <1>0, <2>1, <3>1
  <2>5. ~partial => tick'.pnl = Units * price - Units * Entry
    <3>1. Units * price \in Nat
      BY <1>0, <2>3
    <3> QED
      BY <1>0, <2>1, <3>1 DEF GainInv
  <2>6. SellsEarned'
    <3>0. /\ peak * 100 \in Nat
          /\ \A top \in Nat : peak <= top => peak * 100 <= top * 100 /\ top * 100 \in Nat
      BY <1>0
    <3>1. peak * 100 <= peak' * 100 /\ peak * 100 \in Nat /\ peak' * 100 \in Nat
      BY <2>3, <3>0
    <3>2. /\ Entry * (100 + PartialTrigger) \in Nat
          /\ Entry * (100 + PartialTrigger + TrailingTrigger * count) \in Nat
      <4>1. TrailingTrigger * count \in Nat
        BY <1>0, Consts
      <4> QED
        BY <4>1, Consts
    <3> QED
      BY <2>2, <3>1, <3>2 DEF GainInv, SellsEarned
  <2> QED
    BY <2>1, <2>2, <2>3, <2>4, <2>5, <2>6 DEF GainInv
<1>3. ASSUME NEW pct \in 0..99, Share(pct) > 0, Reduce(Share(pct)), pc \in {"partial", "trailing"}
      PROVE  basis' = Entry * units'
  <2>1. /\ units' = units - Share(pct) /\ basis' = (basis * (units - Share(pct))) \div units
        /\ units' \in 1..Units
    BY <1>3, ReduceType DEF Reduce
  <2>2. basis' = ((Entry * units) * units') \div units
    BY <2>1 DEF GainInv
  <2> QED
    BY <1>0, <2>1, <2>2, SplitCost
<1>4. CASE PartialFilled
  <2>1. /\ pc = "partial" /\ ~partial /\ Share(PartialShare) > 0 /\ Reduce(Share(PartialShare))
        /\ tick.pnl * 100 >= PartialTrigger * Cost
        /\ partial' = TRUE /\ count' = 0 /\ level' = NextLevel(0)
        /\ tick' = tick /\ peak' = peak
    BY <1>4 DEF PartialFilled, PartialDue
  <2>2. tick.price * 100 >= Entry * (100 + PartialTrigger)
    <3>1. (Units * tick.price - Units * Entry) * 100 >= PartialTrigger * (Units * Entry)
      BY <1>0, <2>1 DEF GainInv
    <3> QED
      BY <1>0, <3>1, Consts, GainOfUnit
  <2>3. peak * 100 >= Entry * (100 + PartialTrigger)
    <3>1. Entry * (100 + PartialTrigger) \in Nat /\ tick.price <= peak
      BY Consts DEF GainInv
    <3> QED
      BY <1>0, <2>2, <3>1
  <2>4. basis' = Entry * units'
    BY <1>3, <2>1, Consts
  <2> QED
    BY <2>1, <2>3, <2>4 DEF GainInv, SellsEarned
<1>5. CASE TrailingFilled
  <2>1. /\ pc = "trailing" /\ partial /\ Share(TrailingShare) > 0 /\ Reduce(Share(TrailingShare))
        /\ Reaches(tick.out, tick.basis, level)
        /\ partial' = partial /\ count' = count + 1 /\ level' = NextLevel(count + 1)
        /\ tick' = tick /\ peak' = peak
    BY <1>5 DEF TrailingFilled, TrailingDue
  <2>2. level = PartialTrigger + TrailingTrigger * (count + 1) /\ level \in Nat
    BY <1>0, <2>1, LevelType DEF GainInv, NextLevel
  <2>3. PICK n \in 1..Units : tick.out = n * tick.price /\ tick.basis = n * Entry
    BY DEF GainInv
  <2>4. tick.price * 100 >= Entry * (100 + level)
    <3>1. n * Entry > 0 /\ n \in Nat \ {0}
      BY <1>0, <2>3
    <3>2. (n * tick.price - n * Entry) * 100 >= level * (n * Entry)
      BY <2>1, <2>3, <3>1 DEF Reaches
    <3> QED
      BY <1>0, <2>2, <3>1, <3>2, GainOfUnit
  <2>5. peak * 100 >= Entry * (100 + level)
    <3>1. Entry * (100 + level) \in Nat /\ tick.price <= peak
      BY <1>0, <2>2 DEF GainInv
    <3> QED
      BY <1>0, <2>4, <3>1
  <2>6. SellsEarned'
    <3>1. 100 + level = 100 + PartialTrigger + TrailingTrigger * count'
      <4>1. TrailingTrigger * (count + 1) \in Nat
        BY <1>0, Consts
      <4> QED
        BY <2>1, <2>2, <4>1, Consts
    <3>2. peak * 100 >= Entry * (100 + PartialTrigger)
      BY <2>1 DEF GainInv, SellsEarned
    <3> QED
      BY <2>1, <2>5, <3>1, <3>2 DEF SellsEarned
  <2>7. basis' = Entry * units'
    BY <1>3, <2>1, Consts
  <2> QED
    BY <2>1, <2>6, <2>7 DEF GainInv
<1>6. CASE LosePrice \/ TimeOut \/ CheckDrain \/ CheckTrailing \/ CheckExit
  BY <1>1, <1>6 DEF GainKept, LosePrice, TimeOut, CheckDrain, CheckTrailing, CheckExit, position,
     trail
<1>7. CASE PartialError \/ PartialSkip \/ TrailingError \/ TrailingSkip \/ Sleep \/ Receive
  BY <1>1, <1>7 DEF GainKept, PartialError, PartialSkip, TrailingError, TrailingSkip, Sleep,
     Receive, position, trail
<1>8. CASE CloseFilled \/ CloseError \/ CloseGivenUp \/ Pass \/ signalclose
  BY <1>1, <1>8 DEF GainKept, CloseFilled, CloseError, CloseGivenUp, Pass, signalclose, position,
     trail
<1>9. CASE UNCHANGED vars
  BY <1>1, <1>9 DEF GainKept, vars, position, trail
<1> QED
  BY <1>2, <1>4, <1>5, <1>6, <1>7, <1>8, <1>9 DEF Next, KeeperStep, Done

\* At the buy the price is that of the entry and the gain is nothing.
LEMMA GainInit == Init => GainInv
<1> SUFFICES ASSUME Init PROVE GainInv
  OBVIOUS
<1>1. Cost = Units * Entry /\ Cost = Entry * Units /\ Units * Entry \in Nat /\ Units \in 1..Units
  BY Consts DEF Cost
<1>2. tick.out = Units * tick.price /\ tick.basis = Units * Entry /\ tick.pnl = 0
      /\ tick.price = Entry
  BY <1>1 DEF Init
<1> QED
  BY <1>1, <1>2, Consts DEF Init, GainInv, SellsEarned

\* Partial sells leave the cost of a unit alone, whatever share they sell and however
\* it is rounded.
THEOREM CostBasisHolds == Spec => []CostBasis
<1>1. FollowInv /\ GainInv => CostBasis
  <2>1. ASSUME FollowInv, GainInv PROVE CostBasis
    <3>1. units \in Nat /\ Entry \in Nat /\ Units \in Nat
      BY <2>1, Consts DEF FollowInv, TypeOK
    <3>2. (Entry * units) * Units = (Entry * Units) * units
      BY <3>1
    <3> QED
      BY <2>1, <3>2 DEF GainInv, CostBasis, Cost
  <2> QED
    BY <2>1
<1> QED
  BY <1>1, FollowInit, GainInit, FollowStep, GainStep, PTL DEF Spec

\* Every partial sell was earned by a price that has been read, whatever the shares,
\* although one turn may make several and computes its gain but once.
THEOREM SellsEarnedHolds == Spec => []SellsEarned
<1>1. GainInv => SellsEarned
  BY DEF GainInv
<1> QED
  BY <1>1, FollowInit, GainInit, FollowStep, GainStep, PTL DEF Spec
-----------------------------------------------------------------------------
(* The band *)

\* What a unit must bring in, in hundredths, for the trade to stay above its stop-loss.
Floor == Entry * (100 - StopLoss)

\* Each unit that was sold in part brought in more than that.
SoldWell ==
    IF units = Units THEN realized = 0 ELSE realized * 100 > Floor * (Units - units)

\* Where the trade stands at the price of this turn, after the sells it has made.
Standing == realized + units * tick.price - Cost

\* The gain computed at the start of a turn is right until it sells, and it sells at or
\* above the entry only.
TurnInv ==
    pc \in {"drain", "trail", "partial", "trailing", "exit", "wait"} =>
        \/ Standing = tick.pnl
        \/ tick.price >= Entry /\ units < Units

BandInv ==
    /\ SoldWell
    /\ TurnInv
    /\ pc = "wait" => tick.pnl * 100 > -StopLoss * Cost /\ tick.pnl * 100 < TakeProfit * Cost

\* No quote is below the price by as much as lies between the first partial sell and the
\* stop-loss; it may be above it by any amount.
NarrowSlips == \A slip \in Slips : slip * 100 < Entry * (PartialTrigger + StopLoss)

\* A sell at or above the first trigger brings in more than the stop-loss asks for.
LEMMA SellWell ==
    ASSUME FollowInv, SoldWell, NarrowSlips,
           NEW share \in 1 .. units - 1, NEW slip \in Slips, tick.price \in Nat,
           tick.price * 100 >= Entry * (100 + PartialTrigger),
           units' = units - share, realized' = realized + share * (tick.price - slip),
           tick' = tick
    PROVE  SoldWell' /\ tick.price >= Entry /\ units' < Units
<1> DEFINE price == tick.price
           rate == price - slip
           sold == Units - units
<1>0. /\ units \in 1..Units /\ Units \in Nat /\ Entry \in Nat \ {0} /\ slip \in Int
      /\ PartialTrigger \in Nat /\ StopLoss \in Nat /\ realized \in Int /\ Cost \in Nat
      /\ price \in Nat /\ Floor \in Int /\ sold \in Nat /\ share \in Nat \ {0} /\ rate \in Int
  <2>1. units \in 1..Units /\ realized \in Int
    BY Consts DEF FollowInv, TypeOK, Held
  <2>2. /\ Units \in Nat /\ Entry \in Nat \ {0} /\ slip \in Int /\ Cost \in Nat
        /\ PartialTrigger \in Nat /\ StopLoss \in Nat
    BY Consts
  <2>3. share \in Nat \ {0} /\ Floor \in Int /\ rate \in Int /\ sold \in Nat
    BY <2>1, <2>2 DEF Floor
  <2> QED
    BY <2>1, <2>2, <2>3
<1>1. rate * 100 > Floor
  <2>1. slip * 100 < Entry * (PartialTrigger + StopLoss)
    BY DEF NarrowSlips
  <2>2. /\ Entry * (PartialTrigger + StopLoss) = Entry * PartialTrigger + Entry * StopLoss
        /\ Entry * (100 + PartialTrigger) = Entry * 100 + Entry * PartialTrigger
        /\ Floor = Entry * 100 - Entry * StopLoss
        /\ Entry * PartialTrigger \in Nat /\ Entry * StopLoss \in Nat
    BY <1>0 DEF Floor
  <2> QED
    BY <1>0, <2>1, <2>2
<1>2. price >= Entry
  <2>1. Entry * (100 + PartialTrigger) = Entry * 100 + Entry * PartialTrigger
        /\ Entry * PartialTrigger \in Nat
    BY <1>0
  <2> QED
    BY <1>0, <2>1
<1>3. realized * 100 >= Floor * sold
  <2>1. CASE units = Units
    BY <1>0, <2>1 DEF SoldWell
  <2>2. CASE units # Units
    <3>1. realized * 100 > Floor * sold /\ Floor * sold \in Int
      BY <1>0, <2>2 DEF SoldWell
    <3> QED
      BY <1>0, <3>1
  <2> QED
    BY <2>1, <2>2
<1>4. share * (rate * 100) > share * Floor
  <2>1. \A a, b \in Int : a > b => share * a > share * b
    BY <1>0
  <2> QED
    BY <1>0, <1>1, <2>1
<1>5. SoldWell'
  <2>1. /\ units' = units - share /\ units' # Units /\ Units - units' = sold + share
        /\ Floor' = Floor
    BY <1>0 DEF Floor
  <2>2. realized' * 100 = realized * 100 + share * (rate * 100)
    <3>1. realized' = realized + share * rate /\ share * rate \in Int
      BY <1>0
    <3>2. (share * rate) * 100 = share * (rate * 100)
      BY <1>0
    <3> QED
      BY <1>0, <3>1, <3>2
  <2>3. Floor * (sold + share) = Floor * sold + share * Floor
    BY <1>0
  <2>4. Floor * sold \in Int /\ share * Floor \in Int /\ share * (rate * 100) \in Int
    BY <1>0
  <2>5. realized' * 100 > Floor * (sold + share)
    BY <1>0, <1>3, <1>4, <2>2, <2>3, <2>4
  <2> QED
    BY <2>1, <2>5 DEF SoldWell
<1> QED
  BY <1>0, <1>2, <1>5

\* A turn takes its gain from the price, and every sell of it keeps to the band.
LEMMA BandStep == NarrowSlips /\ FollowInv /\ GainInv /\ BandInv /\ [Next]_vars => BandInv'
<1> SUFFICES ASSUME NarrowSlips, FollowInv, GainInv, BandInv, [Next]_vars PROVE BandInv'
  OBVIOUS
<1>0. /\ tick.price \in Nat /\ tick.pnl \in Int /\ units \in 1..Units /\ count \in Nat
      /\ Entry \in Nat \ {0} /\ Units \in Nat \ {0} /\ Cost = Units * Entry
      /\ realized \in Int /\ PartialTrigger \in Nat /\ TrailingTrigger \in Nat
  <2>1. tick \in Ticks /\ units \in 1..Units /\ count \in Nat /\ realized \in Int
    BY Consts DEF FollowInv, TypeOK, Held, Ticks
  <2>2. tick.price \in Nat /\ tick.pnl \in Int
    BY <2>1, Consts DEF Ticks
  <2> QED
    BY <2>1, <2>2, Consts DEF Cost
\* What sells nothing, reads no price and does not begin to wait.
<1>1. ASSUME tick' = tick, units' = units, realized' = realized, pc' # "wait",
             pc \in {"drain", "trail", "partial", "trailing", "exit", "wait"}
             \/ pc' \notin {"drain", "trail", "partial", "trailing", "exit", "wait"}
      PROVE  BandInv'
  BY <1>1 DEF BandInv, SoldWell, TurnInv, Standing, Floor, Cost
\* A sell at a price at or above the first trigger.
<1>2. ASSUME NEW pct \in 0..99, Share(pct) > 0, Reduce(Share(pct)), pc \in {"partial", "trailing"},
             tick' = tick, pc' # "wait", tick.price * 100 >= Entry * (100 + PartialTrigger)
      PROVE  BandInv'
  <2>1. Share(pct) \in 1 .. units - 1
    BY <1>2, ReduceType
  <2>2. PICK slip \in Slips : realized' = realized + Share(pct) * (tick.price - slip)
    BY <1>2 DEF Reduce
  <2>3. units' = units - Share(pct)
    BY <1>2 DEF Reduce
  <2>4. SoldWell' /\ tick.price >= Entry /\ units' < Units
    BY <1>0, <1>2, <2>1, <2>2, <2>3, SellWell DEF BandInv
  <2>5. TurnInv'
    BY <1>2, <2>4 DEF TurnInv
  <2> QED
    BY <1>2, <2>4, <2>5 DEF BandInv
<1>3. CASE ReadPrice
  <2>1. /\ tick'.pnl = realized + units * tick'.price - Cost
        /\ units' = units /\ realized' = realized /\ pc' = "drain"
    BY <1>3 DEF ReadPrice, position
  <2> QED
    BY <2>1 DEF BandInv, SoldWell, TurnInv, Standing, Floor, Cost
<1>4. CASE PartialFilled
  <2>1. /\ pc = "partial" /\ ~partial /\ Share(PartialShare) > 0 /\ Reduce(Share(PartialShare))
        /\ tick.pnl * 100 >= PartialTrigger * Cost /\ tick' = tick /\ pc' = "trailing"
    BY <1>4 DEF PartialFilled, PartialDue
  <2>2. tick.price * 100 >= Entry * (100 + PartialTrigger)
    <3>1. (Units * tick.price - Units * Entry) * 100 >= PartialTrigger * (Units * Entry)
      BY <1>0, <2>1 DEF GainInv
    <3> QED
      BY <1>0, <3>1, GainOfUnit
  <2> QED
    BY <1>2, <2>1, <2>2, Consts
<1>5. CASE TrailingFilled
  <2>1. /\ pc = "trailing" /\ partial /\ Share(TrailingShare) > 0 /\ Reduce(Share(TrailingShare))
        /\ Reaches(tick.out, tick.basis, level) /\ tick' = tick /\ pc' \in {"trailing", "exit"}
    BY <1>5 DEF TrailingFilled, TrailingDue
  <2>2. level \in Nat /\ level >= PartialTrigger
    <3>1. level = PartialTrigger + TrailingTrigger * (count + 1) /\ TrailingTrigger * (count + 1) \in Nat
      BY <1>0, <2>1 DEF GainInv, NextLevel
    <3> QED
      BY <1>0, <3>1
  <2>3. PICK n \in 1..Units : tick.out = n * tick.price /\ tick.basis = n * Entry
    BY DEF GainInv
  <2>4. tick.price * 100 >= Entry * (100 + level)
    <3>1. n * Entry > 0 /\ n \in Nat \ {0}
      BY <1>0, <2>3
    <3>2. (n * tick.price - n * Entry) * 100 >= level * (n * Entry)
      BY <2>1, <2>3, <3>1 DEF Reaches
    <3> QED
      BY <1>0, <2>2, <3>1, <3>2, GainOfUnit
  <2>5. tick.price * 100 >= Entry * (100 + PartialTrigger)
    <3>1. Entry * (100 + PartialTrigger) <= Entry * (100 + level)
      BY <1>0, <2>2, TimesMonotone
    <3>2. Entry * (100 + PartialTrigger) \in Nat /\ Entry * (100 + level) \in Nat
      BY <1>0, <2>2
    <3> QED
      BY <1>0, <2>4, <3>1, <3>2
  <2> QED
    BY <1>2, <2>1, <2>5, Consts
<1>6. CASE CheckExit
  <2> DEFINE top == IF trailing THEN Higher(high, tick.out) ELSE high
  <2>1. /\ tick' = tick /\ units' = units /\ realized' = realized /\ pc = "exit"
        /\ pc' = "close" \/ (pc' = "wait" /\ exitbundler(top) = {})
    BY <1>6 DEF CheckExit, Close, position
  <2>2. ASSUME pc' = "wait"
        PROVE  tick.pnl * 100 > -StopLoss * Cost /\ tick.pnl * 100 < TakeProfit * Cost
    <3>1. ~(tick.pnl * 100 >= TakeProfit * Cost) /\ ~(tick.pnl * 100 <= -StopLoss * Cost)
      BY <2>1, <2>2 DEF exitbundler
    <3>2. TakeProfit * Cost \in Int /\ -StopLoss * Cost \in Int /\ tick.pnl * 100 \in Int
      BY <1>0, Consts
    <3> QED
      BY <3>1, <3>2
  <2> HIDE DEF top
  <2> QED
    BY <2>1, <2>2 DEF BandInv, SoldWell, TurnInv, Standing, Floor, Cost
<1>7. CASE LosePrice \/ TimeOut \/ CheckDrain \/ CheckTrailing
  BY <1>1, <1>7 DEF LosePrice, TimeOut, CheckDrain, CheckTrailing, Close, position
<1>8. CASE PartialError \/ PartialSkip \/ TrailingError \/ TrailingSkip \/ Sleep \/ Receive
  BY <1>1, <1>8 DEF PartialError, PartialSkip, TrailingError, TrailingSkip, Sleep, Receive, Close,
     position
<1>9. CASE CloseFilled \/ CloseError \/ CloseGivenUp
  BY <1>1, <1>9 DEF CloseFilled, CloseError, CloseGivenUp, position
<1>10. CASE Pass \/ signalclose \/ UNCHANGED vars
  <2>1. pc' = pc /\ tick' = tick /\ units' = units /\ realized' = realized
    BY <1>10 DEF Pass, signalclose, vars, position
  <2> QED
    BY <2>1 DEF BandInv, SoldWell, TurnInv, Standing, Floor, Cost
<1> QED
  BY <1>3, <1>4, <1>5, <1>6, <1>7, <1>8, <1>9, <1>10 DEF Next, KeeperStep, Done

\* A keeper that waits stands above its stop-loss, provided that no quote is below the
\* price by as much as lies between the first partial sell and the stop-loss
\* (NarrowSlips), and below its take-profit, unless its sells were quoted more than the
\* price, for any prices, quotes, shares and triggers: the gain that the exit looks at
\* is that of before the sells of the turn.
THEOREM KeptInBandHolds == ASSUME NarrowSlips PROVE Spec => []KeptInBand
<1>1. Init => BandInv
  <2> SUFFICES ASSUME Init PROVE BandInv
    OBVIOUS
  <2> QED
    BY DEF Init, BandInv, SoldWell, TurnInv
<1>2. FollowInv /\ BandInv => KeptInBand
  <2> SUFFICES ASSUME FollowInv, BandInv, pc = "wait"
               PROVE  /\ Standing * 100 > -StopLoss * Cost
                      /\ Standing * 100 < TakeProfit * Cost \/ Standing > tick.pnl
    BY DEF KeptInBand, Standing
  <2>0. /\ tick.price \in Nat /\ tick.pnl \in Int /\ units \in 1..Units /\ Units \in Nat
        /\ Entry \in Nat /\ realized \in Int /\ Cost = Units * Entry /\ StopLoss \in Nat
    <3>1. tick \in Ticks /\ units \in 1..Units /\ realized \in Int
      BY Consts DEF FollowInv, TypeOK, Held, Ticks
    <3>2. tick.price \in Nat /\ tick.pnl \in Int
      BY <3>1, Consts DEF Ticks
    <3> QED
      BY <3>1, <3>2, Consts DEF Cost
  <2>1. tick.pnl * 100 > -StopLoss * Cost /\ tick.pnl * 100 < TakeProfit * Cost
    BY DEF BandInv
  <2>2. CASE Standing = tick.pnl
    BY <2>1, <2>2
  <2>3. CASE tick.price >= Entry /\ units < Units
    <3> DEFINE sold == Units - units
    <3>0. sold \in Nat /\ Floor \in Int /\ units \in Nat
      BY <2>0 DEF Floor
    <3>1. realized * 100 > Floor * sold
      BY <2>0, <2>3 DEF BandInv, SoldWell
    <3>2. units * tick.price >= units * Entry
      BY <2>0, <2>3, TimesMonotone
    <3>3. /\ Cost = sold * Entry + units * Entry
          /\ Floor * sold = (sold * Entry) * 100 - StopLoss * (sold * Entry)
          /\ -StopLoss * Cost = -(StopLoss * (sold * Entry)) - StopLoss * (units * Entry)
      BY <2>0 DEF Floor
    <3>4. /\ units * Entry \in Nat /\ sold * Entry \in Nat /\ units * tick.price \in Nat
          /\ StopLoss * (sold * Entry) \in Nat /\ StopLoss * (units * Entry) \in Nat
      BY <2>0
    <3>5. Standing * 100 > -(StopLoss * (sold * Entry))
      BY <2>0, <3>1, <3>2, <3>3, <3>4 DEF Standing
    <3>6. Standing \in Int
      BY <2>0, <3>4 DEF Standing
    <3>7. Standing * 100 > -StopLoss * Cost
      BY <3>3, <3>4, <3>5, <3>6
    <3>8. Standing * 100 < TakeProfit * Cost \/ Standing > tick.pnl
      <4>1. TakeProfit * Cost \in Int
        BY <2>0, Consts
      <4> QED
        BY <2>0, <2>1, <3>6, <4>1
    <3> QED
      BY <3>7, <3>8
  <2> QED
    BY <2>2, <2>3 DEF BandInv, TurnInv
<1> QED
  BY <1>1, <1>2, FollowInit, GainInit, FollowStep, GainStep, BandStep, PTL DEF Spec
================================================================================
