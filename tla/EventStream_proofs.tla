------------------------- MODULE EventStream_proofs ---------------------------
(***************************************************************************)
(* Theorems about EventStream for every feed that FeedAssumption admits:   *)
(* any messages, as long as the programs take the instructions and write   *)
(* the logs that the parsers expect of them.                               *)
(***************************************************************************)
EXTENDS EventStream, StreamAccount_proofs

-----------------------------------------------------------------------------
(* The tables *)

\* A discriminator is that of one layout.
Once(layouts) == \A l, m \in layouts : l.disc = m.disc => l = m

\* The guard asks for all that is read.
Safe(l) == l.reads = l.data /\ l.top = l.accs

\* The layouts of Bonk.
LEMMA BonkSame ==
    /\ Once(BonkLayouts)
    /\ \A l \in BonkLayouts : l.program = "bonk" /\ (Safe(l) \/ l.type \in Hasty)
<1>1. /\ Once(BonkBuys)
      /\ \A l \in BonkBuys : l.disc \in {"buy_exact_in", "buy_exact_out"} /\ l.program = "bonk" /\ Safe(l)
  BY DEF Once, BonkBuys, BonkTrade, Plain, With, Safe
<1>2. /\ Once(BonkSells)
      /\ \A l \in BonkSells : l.disc \in {"sell_exact_in", "sell_exact_out"} /\ l.program = "bonk" /\ Safe(l)
  BY DEF Once, BonkSells, BonkTrade, Plain, With, Safe
<1>3. /\ Once(BonkPools)
      /\ \A l \in BonkPools : l.disc \in {"initialize", "initialize_v2"} /\ l.program = "bonk" /\ l.type \in Hasty
  BY DEF Once, BonkPools, Plain, With, Hasty
<1>4. /\ Once(BonkMigrations)
      /\ \A l \in BonkMigrations : l.disc \in {"migrate_to_amm", "migrate_to_cpswap"} /\ l.program = "bonk" /\ l.type \in Hasty
  BY DEF Once, BonkMigrations, Plain, With, Hasty
<1> QED
  BY <1>1, <1>2, <1>3, <1>4 DEF Once, BonkLayouts

\* The layouts of PumpFun.
LEMMA PumpFunSame ==
    /\ Once(PumpFunLayouts)
    /\ \A l \in PumpFunLayouts : l.program = "pumpfun" /\ (Safe(l) \/ l.type \in Hasty)
<1>1. /\ PumpFunBuy.disc = "buy" /\ PumpFunSell.disc = "sell" /\ PumpFunCreate.disc = "create"
      /\ PumpFunMigrate.disc = "migrate"
      /\ {PumpFunBuy.type, PumpFunSell.type, PumpFunCreate.type} \subseteq Hasty
      /\ \A l \in PumpFunLayouts : l.program = "pumpfun"
      /\ Safe(PumpFunMigrate)
  BY DEF PumpFunBuy, PumpFunSell, PumpFunCreate, PumpFunMigrate, Plain, With, Hasty, PumpFunLayouts, Safe
<1> QED
  BY <1>1 DEF Once, PumpFunLayouts

\* The layouts of PumpSwap.
LEMMA PumpSwapSame ==
    /\ Once(PumpSwapLayouts)
    /\ \A l \in PumpSwapLayouts : l.program = "pumpswap" /\ (Safe(l) \/ l.type \in Hasty)
<1>1. /\ Once(PumpSwapTrades)
      /\ \A l \in PumpSwapTrades : l.disc \in {"buy", "sell"} /\ l.program = "pumpswap" /\ l.type \in Hasty
  BY DEF Once, PumpSwapTrades, Plain, With, Hasty
<1>2. /\ Once(PumpSwapLiquidity)
      /\ \A l \in PumpSwapLiquidity : l.disc \in {"deposit", "withdraw"} /\ l.program = "pumpswap" /\ Safe(l)
  BY DEF Once, PumpSwapLiquidity, Plain, With, Safe
<1>3. PumpSwapCreate.disc = "create_pool" /\ PumpSwapCreate.program = "pumpswap" /\ Safe(PumpSwapCreate)
  BY DEF PumpSwapCreate, Plain, With, Safe
<1> QED
  BY <1>1, <1>2, <1>3 DEF Once, PumpSwapLayouts

\* The layouts of AMM V4.
LEMMA AmmSame ==
    /\ Once(AmmLayouts)
    /\ \A l \in AmmLayouts : l.program = "raydiumamm" /\ Safe(l)
<1>1. /\ Once(AmmSwaps)
      /\ \A l \in AmmSwaps : l.disc \in {"9", "11"} /\ l.program = "raydiumamm" /\ Safe(l)
  BY DEF Once, AmmSwaps, AmmPlain, Plain, With, Safe
<1>2. /\ Once(AmmInitialize)
      /\ \A l \in AmmInitialize : l.disc = "1" /\ l.program = "raydiumamm" /\ Safe(l)
  BY DEF Once, AmmInitialize, AmmPlain, Plain, With, Safe
<1>3. /\ Once(AmmDeposit)
      /\ \A l \in AmmDeposit : l.disc = "3" /\ l.program = "raydiumamm" /\ Safe(l)
  BY DEF Once, AmmDeposit, AmmPlain, Plain, With, Safe
<1>4. /\ Once(AmmWithdraws)
      /\ \A l \in AmmWithdraws : l.disc \in {"4", "7"} /\ l.program = "raydiumamm" /\ Safe(l)
  BY DEF Once, AmmWithdraws, AmmPlain, Plain, With, Safe
<1> QED
  BY <1>1, <1>2, <1>3, <1>4 DEF Once, AmmLayouts

\* The layouts of CLMM.
LEMMA ClmmSame ==
    /\ Once(ClmmLayouts)
    /\ \A l \in ClmmLayouts : l.program = "raydiumclmm" /\ Safe(l)
<1>1. /\ Once(ClmmPositions)
      /\ \A l \in ClmmPositions : l.disc \in {"open_position_v2", "open_position_22", "increase_liquidity_v2"}
                                  /\ l.program = "raydiumclmm" /\ Safe(l)
  BY DEF Once, ClmmPositions, ClmmPlain, Plain, Safe
<1>2. /\ Once(ClmmExits)
      /\ \A l \in ClmmExits : l.disc \in {"decrease_liquidity_v2", "close_position"} /\ l.program = "raydiumclmm" /\ Safe(l)
  BY DEF Once, ClmmExits, ClmmPlain, Plain, Safe
<1>3. /\ Once(ClmmCreate)
      /\ \A l \in ClmmCreate : l.disc = "create_pool" /\ l.program = "raydiumclmm" /\ Safe(l)
  BY DEF Once, ClmmCreate, ClmmPlain, Plain, Safe
<1>4. /\ Once(ClmmSwaps)
      /\ \A l \in ClmmSwaps : l.disc \in {"swap", "swap_v2"} /\ l.program = "raydiumclmm" /\ Safe(l)
  BY DEF Once, ClmmSwaps, ClmmPlain, Plain, Safe
<1> QED
  BY <1>1, <1>2, <1>3, <1>4 DEF Once, ClmmLayouts

\* The layouts of CPMM.
LEMMA CpmmSame ==
    /\ Once(CpmmLayouts)
    /\ \A l \in CpmmLayouts : l.program = "raydiumcpmm" /\ Safe(l)
<1>1. /\ Once(CpmmDeposit)
      /\ \A l \in CpmmDeposit : l.disc = "deposit" /\ l.program = "raydiumcpmm" /\ Safe(l)
  BY DEF Once, CpmmDeposit, CpmmPlain, Plain, Safe
<1>2. /\ Once(CpmmWithdraw)
      /\ \A l \in CpmmWithdraw : l.disc = "withdraw" /\ l.program = "raydiumcpmm" /\ Safe(l)
  BY DEF Once, CpmmWithdraw, CpmmPlain, Plain, Safe
<1>3. /\ Once(CpmmInitialize)
      /\ \A l \in CpmmInitialize : l.disc = "initialize" /\ l.program = "raydiumcpmm" /\ Safe(l)
  BY DEF Once, CpmmInitialize, CpmmPlain, Plain, Safe
<1>4. /\ Once(CpmmSwaps)
      /\ \A l \in CpmmSwaps : l.disc \in {"swap_base_in", "swap_base_out"} /\ l.program = "raydiumcpmm" /\ Safe(l)
  BY DEF Once, CpmmSwaps, CpmmPlain, Plain, With, Safe
<1> QED
  BY <1>1, <1>2, <1>3, <1>4 DEF Once, CpmmLayouts

\* A program and a discriminator name one layout.
LEMMA OneLayout ==
    ASSUME NEW l \in AllLayouts, NEW m \in AllLayouts, l.program = m.program, l.disc = m.disc
    PROVE  l = m
BY BonkSame, PumpFunSame, PumpSwapSame, AmmSame, ClmmSame, CpmmSame DEF Once, AllLayouts

\* Only parsers of the Hasty types read more than they asked for.
LEMMA SafeOrHasty == \A l \in AllLayouts : Safe(l) \/ l.type \in Hasty
BY BonkSame, PumpFunSame, PumpSwapSame, AmmSame, ClmmSame, CpmmSame DEF AllLayouts

-----------------------------------------------------------------------------
(* What a message of the feed is *)

\* Every message that the reader has taken is one that was asked for, whose
\* instructions the programs have taken, and carries what the parsers make of it.
LEMMA FeedIs ==
    ASSUME StreamInv, NEW i \in 1..pos
    PROVE  /\ i \in DOMAIN feed /\ setup.filter \in DOMAIN Included
           /\ feed[i] = Delivered(setup.filter, Chained(i))
           /\ Subscribed(setup.filter, Chained(i)) /\ Known(Chained(i))
           /\ EventsOf(feed[i]) = EventsIn(setup.filter, Chained(i))
           /\ Panics(i) <=> PanicsOn(setup.filter, Chained(i))
<1>1. Kinds /\ pos \in 0..Len(feed)
  BY DEF StreamInv, PromiseInv, TypeInv, StreamTypeOK
<1>2. i \in DOMAIN feed
  BY <1>1, FeedType
<1>3. PICK s \in Scenarios : setup = s.setup /\ feed = s.feed
  BY <1>1 DEF Kinds
<1>4. /\ setup.filter \in DOMAIN Included
      /\ feed[i] = Delivered(setup.filter, feed[i].body)
      /\ Subscribed(setup.filter, feed[i].body) /\ Known(feed[i].body)
      /\ EventsOf(feed[i]) = feed[i].events /\ (Fatal(feed[i]) <=> feed[i].fatal)
  BY <1>2, <1>3, FeedAssumption DEF ParsedEvents, ParserPanics
<1> DEFINE m == feed[i].body
<1>5. Delivered(setup.filter, m).events = EventsIn(setup.filter, m)
      /\ Delivered(setup.filter, m).fatal = PanicsOn(setup.filter, m)
  BY DEF Delivered
<1> HIDE DEF m
<1> QED
  BY <1>2, <1>4, <1>5 DEF m, Chained, Panics

\* The places of a transaction that was not left out.
LEMMA PlacesOf ==
    ASSUME NEW tx, Shaped(tx), ~tx.failed
    PROVE  /\ Len(tx.outer) \in Nat /\ DOMAIN tx.outer = 1..Len(tx.outer)
           /\ DOMAIN tx.inner = DOMAIN tx.outer
           /\ \A i \in DOMAIN tx.outer :
                 /\ Inner(tx, i) = tx.inner[i] /\ tx.inner[i] \in Seq(Range(tx.inner[i]))
                 /\ <<i>> \in Indexes(tx) /\ ItemAt(tx, <<i>>) = tx.outer[i]
                 /\ \A j \in DOMAIN tx.inner[i] :
                       /\ <<i, j>> \in Indexes(tx) /\ ItemAt(tx, <<i, j>>) = tx.inner[i][j]
<1>1. /\ tx.outer \in Seq(Range(tx.outer)) /\ tx.inner \in Seq(Range(tx.inner))
      /\ Len(tx.inner) = Len(tx.outer)
      /\ \A i \in DOMAIN tx.inner : tx.inner[i] \in Seq(Range(tx.inner[i]))
  BY DEF Shaped
<1>2. /\ Len(tx.outer) \in Nat /\ DOMAIN tx.outer = 1..Len(tx.outer)
      /\ DOMAIN tx.inner = 1..Len(tx.outer)
  BY <1>1
<1>3. ASSUME NEW i \in DOMAIN tx.outer
      PROVE  /\ Inner(tx, i) = tx.inner[i] /\ tx.inner[i] \in Seq(Range(tx.inner[i]))
             /\ <<i>> \in Indexes(tx) /\ ItemAt(tx, <<i>>) = tx.outer[i]
  <2>1. Len(<<i>>) = 1 /\ <<i>>[1] = i
    OBVIOUS
  <2> QED
    BY <1>1, <1>2, <1>3, <2>1 DEF Inner, Indexes, ItemAt
<1>4. ASSUME NEW i \in DOMAIN tx.outer, NEW j \in DOMAIN tx.inner[i]
      PROVE  <<i, j>> \in Indexes(tx) /\ ItemAt(tx, <<i, j>>) = tx.inner[i][j]
  <2>1. Len(<<i, j>>) = 2 /\ <<i, j>>[1] = i /\ <<i, j>>[2] = j
    OBVIOUS
  <2>2. i \in DOMAIN tx.inner
    BY <1>2
  <2> QED
    BY <2>1, <2>2 DEF Indexes, ItemAt
<1> QED
  BY <1>2, <1>3, <1>4

-----------------------------------------------------------------------------
(* Panics *)

\* The parser of a full call finds all it reads.
LEMMA CallSafe ==
    ASSUME NEW item, item.kind = "call", CallKnown(item),
           NEW table \in SUBSET AllLayouts, NEW l \in Matching(table, item), Overruns(l, item)
    PROVE  ~item.truth.full /\ item.truth.type \in Hasty
<1>1. PICK m \in AllLayouts :
         m.program = item.program /\ m.disc = item.disc /\ m.type = item.truth.type
  BY DEF CallKnown
<1>2. l \in AllLayouts /\ l.program = item.program /\ l.disc = item.disc
  BY DEF Matching
<1>3. l = m
  BY <1>1, <1>2, OneLayout
<1>4. l.type \in Hasty
  <2>1. CASE Safe(l)
    <3>1. ~(item.data < l.data) /\ ~(item.accs < l.accs)
      BY DEF Overruns, Short
    <3>2. ~(item.data < l.reads) /\ ~(item.accs < l.top)
      BY <2>1, <3>1 DEF Safe
    <3>3. l = PumpFunCreate \/ l.type = "BonkInitializeV2"
      BY <3>2 DEF Overruns
    <3> QED
      BY <3>3 DEF Hasty, PumpFunCreate, With, Plain
  <2> QED
    BY <1>2, <2>1, SafeOrHasty
<1>5. l \in Matching(AllLayouts, item)
  BY <1>2 DEF Matching
<1> QED
  BY <1>1, <1>3, <1>4, <1>5 DEF CallKnown

\* As far as no other program comes in between.
Reached(items, child, F) ==
    \A k \in 1..(Len(items) - child) :
        (\A j \in 1..k : items[child + j].program \in SystemPrograms) => k <= Len(F)

\* What follows a call are the instructions of the token and system programs up to the
\* first of another one.
LEMMA FollowingIs ==
    ASSUME NEW S, NEW items \in Seq(S), NEW child \in 0..Len(items),
           NEW F, F = Following(items, child)
    PROVE  /\ F \in Seq(S)
           /\ \A k \in 1..Len(F) : /\ child + k \in DOMAIN items /\ F[k] = items[child + k]
                                   /\ F[k].program \in SystemPrograms
           /\ Reached(items, child, F)
<1> DEFINE L == Len(items)
           after == SubSeq(items, child + 1, L)
           ends == {n \in 1..Len(after) : after[n].program \notin SystemPrograms}
<1>1. /\ L \in Nat /\ child \in Int /\ child + 1 \in Int /\ DOMAIN items = 1..L
      /\ \A n \in (child + 1)..L : items[n] \in S
  OBVIOUS
<1>2. /\ after \in Seq(S) /\ Len(after) = L - child /\ L - child \in Nat
      /\ \A n \in 1..(L - child) : after[n] = items[child + n]
  <2>1. /\ after \in Seq(S)
        /\ Len(after) = IF child + 1 <= L THEN L - (child + 1) + 1 ELSE 0
        /\ \A n \in 1..(L - (child + 1) + 1) : after[n] = items[(child + 1) + n - 1]
    <3> HIDE DEF L
    <3> QED
      BY <1>1, SubSeqProperties
  <2> HIDE DEF after, L
  <2>2. L - (child + 1) + 1 = L - child /\ (child + 1 <= L \/ L - child = 0)
    BY <1>1
  <2>3. \A n \in 1..(L - child) : (child + 1) + n - 1 = child + n
    BY <1>1
  <2>4. Len(after) = L - child
    BY <2>1, <2>2
  <2> QED
    BY <2>1, <2>2, <2>3, <2>4
<1>3. \A n \in 1..(L - child) : child + n \in DOMAIN items
  <2> HIDE DEF after, L
  <2>1. DOMAIN items = 1..L /\ L \in Nat /\ child \in Nat
    BY <1>1
  <2> QED
    BY <2>1
<1>6. L = Len(items)
  OBVIOUS
<1> HIDE DEF L, after
<1>4. CASE ends = {}
  <2>1. F = after
    BY <1>4 DEF Following, after, L
  <2>2. \A n \in 1..(L - child) : after[n].program \in SystemPrograms
    BY <1>2, <1>4
  <2> QED
    BY <1>2, <1>3, <1>6, <2>1, <2>2 DEF Reached
<1>5. CASE ends # {}
  <2> DEFINE e == CHOOSE n \in ends : \A j \in ends : n <= j
             cut == SubSeq(after, 1, e - 1)
  <2>1. e \in ends /\ \A j \in ends : e <= j
    <3>1. ends \in SUBSET Nat
      OBVIOUS
    <3>2. \E n \in ends : \A j \in ends : n <= j
      <4> HIDE DEF ends
      <4> QED
        BY <1>5, <3>1, LeastExists
    <3> QED
      BY <3>2
  <2>2. F = cut
    BY <1>5 DEF Following, after, L
  <2>3. /\ e \in 1..(L - child) /\ e \in Nat /\ e - 1 \in Int
        /\ \A n \in 1..(e - 1) : n \in 1..Len(after) /\ n \notin ends
    <3>1. e \in 1..Len(after) /\ Len(after) \in Nat
      BY <1>2, <2>1
    <3> HIDE DEF e, ends
    <3> QED
      BY <1>2, <2>1, <3>1
  <2>4. after[e].program \notin SystemPrograms
    BY <2>1
  <2>5. \A n \in 1..(e - 1) : n \in 1..(L - child) /\ after[n].program \in SystemPrograms
    BY <1>2, <2>3
  <2> HIDE DEF e, ends
  <2>6. \A n \in 1..(e - 1) : after[n] \in S
    BY <1>2, <2>3
  <2>7. /\ cut \in Seq(S)
        /\ Len(cut) = IF 1 <= e - 1 THEN (e - 1) - 1 + 1 ELSE 0
        /\ \A n \in 1..((e - 1) - 1 + 1) : cut[n] = after[1 + n - 1]
    BY <2>3, <2>6, SubSeqProperties
  <2> HIDE DEF cut
  <2>8. Len(cut) = e - 1
    BY <2>3, <2>7
  <2>9. \A n \in 1..(e - 1) : cut[n] = after[n]
    BY <2>3, <2>7
  <2>10. ASSUME NEW k \in 1..(L - child), \A j \in 1..k : items[child + j].program \in SystemPrograms
         PROVE  k <= e - 1
    <3>1. e \notin 1..k
      BY <1>2, <2>3, <2>4, <2>10
    <3> QED
      BY <1>2, <2>3, <3>1
  <2> QED
    BY <1>2, <1>3, <1>6, <2>2, <2>5, <2>7, <2>8, <2>9, <2>10 DEF Reached
<1> QED
  BY <1>4, <1>5

\* A transfer that is read past its end is shorter than one of its tag.
LEMMA MoveCut ==
    ASSUME NEW move, MoveOverruns(move)
    PROVE  CutShort(move)
<1>1. CASE move.bytes = 0
  BY <1>1 DEF CutShort
<1>2. CASE Told(move) /\ move.bytes < MoveNeeds[move.tag].bytes
  <2>1. move.tag \in {2, 3, 12}
    BY <1>2 DEF Told, MoveNeeds
  <2>2. /\ MoveNeeds[2].bytes = 12 /\ MoveNeeds[3].bytes = 9 /\ MoveNeeds[12].bytes = 10
    BY DEF MoveNeeds
  <2> QED
    BY <1>2, <2>1, <2>2 DEF CutShort
<1> QED
  BY <1>1, <1>2 DEF MoveOverruns

\* What the parsers read of one item and of what follows it.
Reads(table, item, behind) ==
    \/ \E l \in Matching(table, item) : Overruns(l, item)
    \/ \E m \in Range(behind) : MoveOverruns(m)

\* A cause for a panic that OverrunsKnown admits.
Cause(item) ==
    \/ item.kind = "call" /\ ~item.truth.full /\ item.truth.type \in Hasty
    \/ item.kind = "move" /\ CutShort(item)

\* A panic has such a cause, among the instructions of the transaction.
LEMMA PanicCause ==
    ASSUME NEW tx, Shaped(tx), ~tx.failed,
           \A index \in Indexes(tx) : ItemKnown(ItemAt(tx, index)),
           NEW table \in SUBSET AllLayouts, ParsePanics(table, tx)
    PROVE  \E index \in Indexes(tx) : Cause(ItemAt(tx, index))
<1>1. PICK i \in DOMAIN tx.outer :
         \/ Reads(table, tx.outer[i], Following(Inner(tx, i), 0))
         \/ \E j \in DOMAIN Inner(tx, i) :
               Reads(table, Inner(tx, i)[j], Following(Inner(tx, i), j))
  BY DEF ParsePanics, Reads
<1> DEFINE items == tx.inner[i]
<1>2. /\ Inner(tx, i) = items /\ items \in Seq(Range(items))
      /\ <<i>> \in Indexes(tx) /\ ItemAt(tx, <<i>>) = tx.outer[i]
      /\ \A j \in DOMAIN items : <<i, j>> \in Indexes(tx) /\ ItemAt(tx, <<i, j>>) = items[j]
  BY PlacesOf
<1> HIDE DEF items
<1>3. ASSUME NEW index \in Indexes(tx),
             \E l \in Matching(table, ItemAt(tx, index)) : Overruns(l, ItemAt(tx, index))
      PROVE  Cause(ItemAt(tx, index))
  <2>1. ItemAt(tx, index).kind = "call"
    BY <1>3 DEF Matching
  <2>2. CallKnown(ItemAt(tx, index))
    BY <2>1 DEF ItemKnown
  <2> QED
    BY <1>3, <2>1, <2>2, CallSafe DEF Cause
<1>4. ASSUME NEW child \in 0..Len(items), NEW m \in Range(Following(items, child)), MoveOverruns(m)
      PROVE  \E index \in Indexes(tx) : Cause(ItemAt(tx, index))
  <2>1. PICK k \in DOMAIN Following(items, child) : m = Following(items, child)[k]
    BY DEF Range
  <2> DEFINE F == Following(items, child)
  <2>5. F = Following(items, child)
    OBVIOUS
  <2> HIDE DEF F
  <2>6. /\ F \in Seq(Range(items))
        /\ \A n \in 1..Len(F) : /\ child + n \in DOMAIN items /\ F[n] = items[child + n]
                                /\ F[n].program \in SystemPrograms
    BY <1>2, <2>5, FollowingIs
  <2>2. PICK j \in DOMAIN items : m = items[j] /\ items[j].program \in SystemPrograms
    BY <2>1, <2>5, <2>6
  <2>3. ItemKnown(m) /\ m.program \in SystemPrograms
    BY <1>2, <2>2
  <2>4. Cause(m)
    BY <1>4, <2>3, MoveCut DEF ItemKnown, Cause
  <2> QED
    BY <1>2, <2>2, <2>4
<1>5. CASE Reads(table, tx.outer[i], Following(items, 0))
  <2>1. 0 \in 0..Len(items)
    BY <1>2
  <2> QED
    BY <1>2, <1>3, <1>4, <1>5, <2>1 DEF Reads
<1>6. ASSUME NEW j \in DOMAIN items, Reads(table, items[j], Following(items, j))
      PROVE  \E index \in Indexes(tx) : Cause(ItemAt(tx, index))
  <2>1. j \in 0..Len(items)
    BY <1>2
  <2> QED
    BY <1>2, <1>3, <1>4, <1>6, <2>1 DEF Reads
<1> QED
  BY <1>1, <1>2, <1>5, <1>6

\* No layout is in a table that is not one of the programs'.
LEMMA TablesOf ==
    ASSUME NEW filter \in DOMAIN Included
    PROVE  Table[filter] \in SUBSET AllLayouts
           /\ \A l \in AllLayouts : l.type \in Included[filter] => l \in Table[filter]
<1>1. filter \in {"main", "none"}
  BY DEF Included
<1>2. Table[filter] = ParserTable(Programs, Included[filter])
  BY <1>1 DEF Table
<1>3. \A l \in AllLayouts : l.program \in Programs
  BY BonkSame, PumpFunSame, PumpSwapSame, AmmSame, ClmmSame, CpmmSame DEF AllLayouts, Programs
<1> QED
  BY <1>2, <1>3 DEF ParserTable

\* Of all messages that the programs can be made to write, parsing panics only on those
\* whose calls lack something, in a parser that reads unasked, or with a transfer cut
\* short (parser.rs of the protocols, types.rs:474-740).
THEOREM OverrunsKnownHolds == Spec => []OverrunsKnown
<1>1. StreamInv => OverrunsKnown
  <2> SUFFICES ASSUME StreamInv, NEW i \in 1..pos, Panics(i)
               PROVE  \E index \in Indexes(Chained(i).tx) : Cause(ItemAt(Chained(i).tx, index))
    BY DEF OverrunsKnown, Cause
  <2> DEFINE m == Chained(i)
             f == setup.filter
  <2>1. f \in DOMAIN Included /\ Subscribed(f, m) /\ Known(m) /\ PanicsOn(f, m)
    BY FeedIs
  <2> HIDE DEF m, f
  <2>2. m.kind = "tx" /\ ParsePanics(Table[f], m.tx)
    BY <2>1 DEF PanicsOn
  <2>3. ~m.tx.failed
    BY <2>1, <2>2 DEF Subscribed
  <2>4. Shaped(m.tx) /\ \A index \in Indexes(m.tx) : ItemKnown(ItemAt(m.tx, index))
    BY <2>1, <2>2 DEF Known
  <2> QED
    BY <2>1, <2>2, <2>3, <2>4, TablesOf, PanicCause DEF m
<1> QED
  BY <1>1, StreamInvariant, PTL

-----------------------------------------------------------------------------
(* Sequences of events, and what they are put together from *)

IsSeq(s) == s \in Seq(Range(s))

\* A function on 1..n is a sequence.
LEMMA ListIsSeq ==
    ASSUME NEW S, NEW n \in Nat, NEW s \in [1..n -> S]
    PROVE  IsSeq(s) /\ Len(s) = n /\ DOMAIN s = 1..n
<1>1. DOMAIN s = 1..n
  OBVIOUS
<1>2. s \in [1..n -> Range(s)]
  BY <1>1 DEF Range
<1>3. s \in Seq(Range(s)) /\ Len(s) \in Nat /\ DOMAIN s = 1..Len(s)
  BY <1>2
<1>4. Len(s) = n
  <2> DEFINE L == Len(s)
  <2>1. L \in Nat /\ 1..L = 1..n
    BY <1>1, <1>3
  <2> HIDE DEF L
  <2>2. (n = 0 \/ n \in 1..n) /\ (L = 0 \/ L \in 1..L)
    BY <2>1
  <2>3. n <= L /\ L <= n
    BY <2>1, <2>2
  <2>4. L = n
    BY <2>1, <2>3
  <2> QED
    BY <2>4 DEF L
<1> QED
  BY <1>1, <1>3, <1>4 DEF IsSeq

\* The places of two sequences one behind the other.
LEMMA ConcatPlaces ==
    ASSUME NEW s, NEW t, IsSeq(s), IsSeq(t)
    PROVE  /\ IsSeq(s \o t) /\ Len(s) \in Nat /\ Len(t) \in Nat
           /\ DOMAIN s = 1..Len(s) /\ DOMAIN t = 1..Len(t)
           /\ DOMAIN (s \o t) = 1..(Len(s) + Len(t))
           /\ \A n \in 1..Len(s) : n \in DOMAIN (s \o t) /\ (s \o t)[n] = s[n]
           /\ \A n \in 1..Len(t) :
                 Len(s) + n \in DOMAIN (s \o t) /\ (s \o t)[Len(s) + n] = t[n]
           /\ \A n \in DOMAIN (s \o t) :
                 n \in 1..Len(s) \/ (n - Len(s) \in 1..Len(t) /\ n = Len(s) + (n - Len(s)))
<1> DEFINE S == Range(s) \cup Range(t)
           L == Len(s)
           M == Len(t)
           u == s \o t
<1>1. s \in Seq(S) /\ t \in Seq(S)
  BY SeqMonotonic DEF IsSeq
<1> HIDE DEF S
<1>2. L \in Nat /\ M \in Nat /\ DOMAIN s = 1..L /\ DOMAIN t = 1..M
  BY <1>1
<1>3. /\ u \in Seq(S) /\ Len(u) = L + M
      /\ \A n \in 1..(L + M) : u[n] = IF n <= L THEN s[n] ELSE t[n - L]
  BY <1>1, ConcatProperties
<1> HIDE DEF L, M, u
<1>4. DOMAIN u = 1..(L + M) /\ u \in [1..(L + M) -> S]
  BY <1>3
<1>5. L + M \in Nat
  BY <1>2
<1>6. IsSeq(u)
  <2> DEFINE N == L + M
  <2>1. N \in Nat /\ u \in [1..N -> S]
    BY <1>4, <1>5
  <2> HIDE DEF N
  <2> QED
    BY <2>1, ListIsSeq
<1>7. \A n \in 1..L : n \in 1..(L + M) /\ n <= L
  BY <1>2
<1>8. \A n \in 1..M : L + n \in 1..(L + M) /\ ~(L + n <= L) /\ (L + n) - L = n
  BY <1>2
<1>9. \A n \in 1..(L + M) : n \in 1..L \/ (n - L \in 1..M /\ n = L + (n - L))
  BY <1>2
<1> QED
  BY <1>2, <1>3, <1>4, <1>6, <1>7, <1>8, <1>9 DEF L, M, u

\* A set of one element makes a sequence of it, and the empty set an empty one.
LEMMA SetToSeqOne ==
    ASSUME NEW e
    PROVE  /\ IsSeq(SetToSeq({e})) /\ DOMAIN SetToSeq({e}) = {1} /\ SetToSeq({e})[1] = e
           /\ IsSeq(SetToSeq({})) /\ DOMAIN SetToSeq({}) = {}
<1> DEFINE All(S) == {f \in [1..Cardinality(S) -> S] : IsInjective(f)}
<1>1. \A S : All(S) # {} => SetToSeq(S) \in All(S)
  BY DEF SetToSeq
<1>2. Cardinality({e}) = 1 /\ Cardinality({}) = 0
  BY FS_Singleton, FS_EmptySet
<1>3. SetToSeq({e}) \in [1..1 -> {e}]
  <2>1. [n \in 1..1 |-> e] \in All({e})
    BY <1>2 DEF IsInjective
  <2> QED
    BY <1>1, <1>2, <2>1
<1>4. SetToSeq({}) \in [1..0 -> {}]
  <2>1. [n \in 1..0 |-> e] \in All({})
    BY <1>2 DEF IsInjective
  <2> QED
    BY <1>1, <1>2, <2>1
<1>5. 1..1 = {1} /\ 1..0 = {}
  OBVIOUS
<1> HIDE DEF All
<1>6. IsSeq(SetToSeq({e})) /\ IsSeq(SetToSeq({}))
  BY <1>3, <1>4, ListIsSeq
<1> QED
  BY <1>3, <1>4, <1>5, <1>6

Fits(table, item) == \E l \in Matching(table, item) : ~Short(l, item)

\* What an event is made with, and what its log may change of it.
Kept == {"type", "struct", "program", "index", "key"}
Filled == {"at", "paid", "got"}
Others == {"dev", "swap"}

\* The swap that the transfers behind a call make, with the layout that takes it.
Under(c) == IF Len(c) = 1 THEN 0 ELSE c[2]
SwapOf(l, tx, c) ==
    WithSwap(InstructionEvent(l, ItemAt(tx, c), c), tx.inner[c[1]], Under(c)).swap

\* The event of an item.
Made(table, tx, e) ==
    /\ Kept \cup Filled \cup Others \subseteq DOMAIN e
    /\ \E l \in Matching(table, ItemAt(tx, e.index)) :
          LET item == ItemAt(tx, e.index)
          IN /\ ~Short(l, item)
             /\ e.type = l.type /\ e.struct = l.struct /\ e.program = l.program
             /\ e.key = Key(l, item) /\ e.at = Addresses(l, item)
             /\ e.paid = (IF l.known = "paid" THEN item.arg ELSE 0)
             /\ e.got = (IF l.known = "got" THEN item.arg ELSE 0)
             /\ e.swap = SwapOf(l, tx, e.index)

\* The parser meets the transaction's own instructions before what they call.
MetBefore(b, c) ==
    \/ Len(b) = 1 /\ Len(c) = 2
    \/ Len(b) = Len(c) /\ b[1] < c[1]
    \/ Len(b) = 2 /\ Len(c) = 2 /\ b[1] = c[1] /\ b[2] < c[2]

\* The events of the items at I: one for each that fits, in the order of the parser.
EventsFor(s, I, table, tx) ==
    /\ IsSeq(s)
    /\ \A n \in DOMAIN s : s[n].index \in I /\ Made(table, tx, s[n])
    /\ \A m, n \in DOMAIN s : s[m].index = s[n].index => m = n
    /\ \A m, n \in DOMAIN s : m < n => MetBefore(s[m].index, s[n].index)
    /\ \A index \in I : Fits(table, ItemAt(tx, index)) => \E n \in DOMAIN s : s[n].index = index

\* Two such sequences may be put together.
LEMMA ConcatEvents ==
    ASSUME NEW table, NEW tx, NEW s, NEW t, NEW I, NEW J,
           EventsFor(s, I, table, tx), EventsFor(t, J, table, tx), I \cap J = {},
           \A x \in I, y \in J : MetBefore(x, y)
    PROVE  EventsFor(s \o t, I \cup J, table, tx)
<1> DEFINE u == s \o t
           L == Len(s)
<1>1. /\ IsSeq(u) /\ L \in Nat
      /\ \A n \in DOMAIN s : n \in DOMAIN u /\ u[n] = s[n]
      /\ \A n \in DOMAIN t : L + n \in DOMAIN u /\ u[L + n] = t[n]
      /\ \A n \in DOMAIN u : n \in DOMAIN s \/ (n - L \in DOMAIN t /\ n = L + (n - L))
  <2> DEFINE M == Len(t)
  <2>1. IsSeq(s) /\ IsSeq(t)
    BY DEF EventsFor
  <2>2. /\ IsSeq(u) /\ L \in Nat /\ DOMAIN s = 1..L /\ DOMAIN t = 1..M
        /\ \A n \in 1..L : n \in DOMAIN u /\ u[n] = s[n]
        /\ \A n \in 1..M : L + n \in DOMAIN u /\ u[L + n] = t[n]
        /\ \A n \in DOMAIN u : n \in 1..L \/ (n - L \in 1..M /\ n = L + (n - L))
    BY <2>1, ConcatPlaces
  <2> HIDE DEF u, L, M
  <2> QED
    BY <2>2
<1>7. DOMAIN s = 1..L /\ DOMAIN t \subseteq Nat \ {0}
  <2>1. IsSeq(s) /\ IsSeq(t)
    BY DEF EventsFor
  <2> QED
    BY <2>1 DEF IsSeq
<1> HIDE DEF u, L
<1>2. ASSUME NEW n \in DOMAIN u
      PROVE  \/ n \in DOMAIN s /\ u[n] = s[n] /\ u[n].index \in I
             \/ n - L \in DOMAIN t /\ u[n] = t[n - L] /\ u[n].index \in J /\ n = L + (n - L)
  <2>1. CASE n \in DOMAIN s
    BY <1>1, <2>1 DEF EventsFor
  <2>2. CASE n - L \in DOMAIN t /\ n = L + (n - L)
    <3>1. u[n] = t[n - L]
      BY <1>1, <2>2
    <3> QED
      BY <2>2, <3>1 DEF EventsFor
  <2> QED
    BY <1>1, <2>1, <2>2
<1>3. \A n \in DOMAIN u : u[n].index \in I \cup J /\ Made(table, tx, u[n])
  BY <1>2 DEF EventsFor
<1>4. ASSUME NEW m \in DOMAIN u, NEW n \in DOMAIN u, u[m].index = u[n].index
      PROVE  m = n
  <2>1. CASE u[m].index \in I
    <3>1. m \in DOMAIN s /\ n \in DOMAIN s /\ u[m] = s[m] /\ u[n] = s[n]
      BY <1>2, <1>4, <2>1
    <3> QED
      BY <1>4, <3>1 DEF EventsFor
  <2>2. CASE u[m].index \in J
    <3>1. /\ m - L \in DOMAIN t /\ n - L \in DOMAIN t /\ u[m] = t[m - L] /\ u[n] = t[n - L]
          /\ m = L + (m - L) /\ n = L + (n - L)
      BY <1>2, <1>4, <2>2
    <3>2. m - L = n - L
      BY <1>4, <3>1 DEF EventsFor
    <3> QED
      BY <3>1, <3>2
  <2> QED
    BY <1>2, <2>1, <2>2
<1>5. ASSUME NEW index \in I \cup J, Fits(table, ItemAt(tx, index))
      PROVE  \E n \in DOMAIN u : u[n].index = index
  <2>1. \/ \E n \in DOMAIN s : s[n].index = index
        \/ \E n \in DOMAIN t : t[n].index = index
    BY <1>5 DEF EventsFor
  <2> QED
    BY <1>1, <2>1
<1>6. ASSUME NEW m \in DOMAIN u, NEW n \in DOMAIN u, m < n
      PROVE  MetBefore(u[m].index, u[n].index)
  <2>1. CASE m \in DOMAIN s /\ n \in DOMAIN s
    BY <1>1, <1>6, <2>1 DEF EventsFor
  <2>2. CASE m \in DOMAIN s /\ n - L \in DOMAIN t
    <3>1. u[m] = s[m] /\ s[m].index \in I
      BY <1>1, <2>2 DEF EventsFor
    <3>2. u[n] = t[n - L] /\ t[n - L].index \in J
      <4>1. n \in DOMAIN s => n - L \notin Nat \ {0}
        BY <1>1, <1>7
      <4> QED
        BY <1>1, <1>7, <2>2, <4>1 DEF EventsFor
    <3> QED
      BY <3>1, <3>2
  <2>3. CASE m - L \in DOMAIN t /\ m = L + (m - L) /\ n - L \in DOMAIN t /\ n = L + (n - L)
    <3> DEFINE a == m - L
               b == n - L
    <3>1. a \in DOMAIN t /\ b \in DOMAIN t /\ m = L + a /\ n = L + b
      BY <2>3
    <3> HIDE DEF a, b
    <3>2. a < b
      BY <1>1, <1>6, <1>7, <3>1
    <3>3. u[m] = t[a] /\ u[n] = t[b]
      BY <1>1, <3>1
    <3> QED
      BY <3>1, <3>2, <3>3 DEF EventsFor
  <2>4. CASE m - L \in DOMAIN t /\ m = L + (m - L) /\ n \in DOMAIN s
    <3> DEFINE a == m - L
    <3>1. a \in Nat \ {0} /\ m = L + a /\ n \in 1..L
      BY <1>7, <2>4
    <3> HIDE DEF a
    <3>2. FALSE
      BY <1>1, <1>6, <3>1
    <3> QED
      BY <3>2
  <2> QED
    BY <1>1, <2>1, <2>2, <2>3, <2>4
<1> QED
  BY <1>1, <1>3, <1>4, <1>5, <1>6 DEF EventsFor, u

\* The recursive function by which FlattenSeq is defined.
IsFlat(f, seqs, m) ==
    f = [i \in 1..m |-> IF i = 1 THEN seqs[i] ELSE f[i - 1] \o seqs[i]]

\* It exists.
LEMMA FlatExists ==
    ASSUME NEW seqs, NEW n \in Nat
    PROVE  \E f : IsFlat(f, seqs, n)
<1> DEFINE T == {m \in 0..n : \E f : IsFlat(f, seqs, m)}
<1>1. 0 \in T
  <2>1. IsFlat([i \in 1..0 |-> 0], seqs, 0)
    BY DEF IsFlat
  <2> QED
    BY <2>1
<1>2. ASSUME NEW m \in 0 .. n - 1, m \in T
      PROVE  m + 1 \in T
  <2>1. PICK f : IsFlat(f, seqs, m)
    BY <1>2
  <2> DEFINE last == IF m = 0 THEN seqs[1] ELSE f[m] \o seqs[m + 1]
             g == [i \in 1..(m + 1) |-> IF i <= m THEN f[i] ELSE last]
             h == [i \in 1..(m + 1) |-> IF i = 1 THEN seqs[i] ELSE g[i - 1] \o seqs[i]]
  <2>2. \A i \in 1..m : f[i] = IF i = 1 THEN seqs[i] ELSE f[i - 1] \o seqs[i]
    BY <2>1 DEF IsFlat
  <2>3. ASSUME NEW i \in 1..(m + 1)
        PROVE  g[i] = IF i = 1 THEN seqs[i] ELSE g[i - 1] \o seqs[i]
    <3>1. CASE i <= m
      <4>1. i \in 1..m /\ g[i] = f[i] /\ (i # 1 => g[i - 1] = f[i - 1])
        BY <3>1
      <4> QED
        BY <2>2, <4>1
    <3>2. CASE i = m + 1
      <4>1. g[i] = last /\ (i = 1 <=> m = 0) /\ (i # 1 => g[i - 1] = f[m])
        BY <3>2
      <4> QED
        BY <3>2, <4>1
    <3> QED
      BY <3>1, <3>2
  <2>4. g = h
    <3> HIDE DEF last
    <3>1. \A i \in 1..(m + 1) : g[i] = h[i]
      <4> HIDE DEF g
      <4> QED
        BY <2>3
    <3> QED
      BY <3>1
  <2>5. IsFlat(g, seqs, m + 1)
    <3> HIDE DEF g
    <3> QED
      BY <2>4 DEF IsFlat
  <2> HIDE DEF g
  <2> QED
    BY <2>5
<1>3. 0..n \subseteq T
  <2> HIDE DEF T
  <2> QED
    BY <1>1, <1>2, AllUpTo
<1> QED
  BY <1>3

\* What is made of items apart from each other may be put together.
LEMMA FlatEvents ==
    ASSUME NEW table, NEW tx, NEW seqs, IsSeq(seqs), NEW I,
           \A i \in DOMAIN seqs : EventsFor(seqs[i], I[i], table, tx),
           \A i, j \in DOMAIN seqs : i # j => I[i] \cap I[j] = {},
           \A i, j \in DOMAIN seqs : i < j => \A x \in I[i], y \in I[j] : MetBefore(x, y)
    PROVE  EventsFor(FlattenSeq(seqs), UNION {I[i] : i \in DOMAIN seqs}, table, tx)
<1> DEFINE n == Len(seqs)
           f == CHOOSE g : g = [i \in 1..Len(seqs) |-> IF i = 1 THEN seqs[i] ELSE g[i - 1] \o seqs[i]]
           Upto(m) == UNION {I[i] : i \in 1..m}
           T == {m \in Nat : m # 0 => EventsFor(f[m], Upto(m), table, tx)}
<1>1. n \in Nat /\ DOMAIN seqs = 1..n
  BY DEF IsSeq
<1>2. FlattenSeq(seqs) = IF n = 0 THEN seqs ELSE f[n]
  BY DEF FlattenSeq
<1>3. IsFlat(f, seqs, n)
  BY <1>1, FlatExists DEF IsFlat
<1> HIDE DEF n, f
<1>4. \A i \in 1..n : f[i] = IF i = 1 THEN seqs[i] ELSE f[i - 1] \o seqs[i]
  BY <1>3 DEF IsFlat
<1>5. ASSUME NEW m \in 0 .. n - 1, m \in T
      PROVE  m + 1 \in T
  <2>1. m + 1 \in 1..n /\ m \in Nat /\ 1..(m + 1) = 1..m \cup {m + 1} /\ \A i \in 1..m : i \in 1..n /\ i # m + 1
    BY <1>1
  <2>2. Upto(m + 1) = Upto(m) \cup I[m + 1]
    BY <2>1
  <2>3. EventsFor(seqs[m + 1], I[m + 1], table, tx)
    BY <1>1, <2>1
  <2>4. Upto(m) \cap I[m + 1] = {}
    BY <1>1, <2>1
  <2>7. \A x \in Upto(m), y \in I[m + 1] : MetBefore(x, y)
    <3>1. \A i \in 1..m : i < m + 1 /\ i \in DOMAIN seqs /\ m + 1 \in DOMAIN seqs
      BY <1>1, <2>1
    <3> QED
      BY <3>1
  <2>5. CASE m = 0
    <3>1. f[m + 1] = seqs[m + 1] /\ Upto(m) = {}
      BY <1>4, <2>1, <2>5
    <3>2. Upto(m + 1) = I[m + 1]
      BY <2>2, <3>1
    <3> HIDE DEF Upto
    <3> QED
      BY <2>1, <2>3, <3>1, <3>2
  <2>6. CASE m # 0
    <3>1. (m + 1) - 1 = m /\ m + 1 # 1
      BY <2>1, <2>6
    <3>2. f[m + 1] = f[m] \o seqs[m + 1]
      BY <1>4, <2>1, <3>1
    <3>3. EventsFor(f[m], Upto(m), table, tx)
      BY <1>5, <2>6
    <3> HIDE DEF Upto
    <3>4. EventsFor(f[m + 1], Upto(m + 1), table, tx)
      BY <2>2, <2>3, <2>4, <2>7, <3>2, <3>3, ConcatEvents
    <3> QED
      BY <2>1, <3>4
  <2> QED
    BY <2>5, <2>6
<1>6. 0 \in T
  OBVIOUS
<1>7. n \in T
  <2> HIDE DEF T
  <2>1. 0..n \subseteq T
    BY <1>1, <1>5, <1>6, AllUpTo
  <2> QED
    BY <1>1, <2>1
<1>8. Upto(n) = UNION {I[i] : i \in DOMAIN seqs}
  BY <1>1
<1>9. CASE n = 0
  <2>1. DOMAIN seqs = {} /\ FlattenSeq(seqs) = seqs
    BY <1>1, <1>2, <1>9
  <2> QED
    BY <2>1 DEF EventsFor
<1>10. CASE n # 0
  <2> HIDE DEF Upto
  <2> QED
    BY <1>2, <1>7, <1>8, <1>10
<1> QED
  BY <1>9, <1>10

-----------------------------------------------------------------------------
(* The events of a transaction *)

\* A swap is put into an event and changes nothing else of it.
LEMMA SwapKeeps ==
    ASSUME NEW table, NEW tx, NEW index, NEW item, item = ItemAt(tx, index),
           NEW l \in Matching(table, item), ~Short(l, item),
           NEW items, items = tx.inner[index[1]], NEW child, child = Under(index),
           NEW e, e = InstructionEvent(l, item, index)
    PROVE  WithSwap(e, items, child).index = index /\ Made(table, tx, WithSwap(e, items, child))
<1> DEFINE d == WithSwap(e, items, child)
<1>1. d = e \/ \E x : d = [e EXCEPT !.swap = x]
  BY DEF WithSwap
<1>2. d.swap = SwapOf(l, tx, index)
  BY DEF SwapOf
<1>3. /\ Kept \cup Filled \cup Others \subseteq DOMAIN e
      /\ e.type = l.type /\ e.struct = l.struct /\ e.program = l.program
      /\ e.index = index /\ e.key = Key(l, item) /\ e.at = Addresses(l, item)
      /\ e.paid = (IF l.known = "paid" THEN item.arg ELSE 0)
      /\ e.got = (IF l.known = "got" THEN item.arg ELSE 0)
  BY DEF InstructionEvent, Kept, Filled, Others
<1> HIDE DEF d
<1>4. \A x : \A g \in Kept \cup Filled :
         /\ [e EXCEPT !.swap = x][g] = e[g]
         /\ DOMAIN [e EXCEPT !.swap = x] = DOMAIN e
  BY <1>3 DEF Kept, Filled
<1>5. /\ Kept \cup Filled \cup Others \subseteq DOMAIN d
      /\ d.type = e.type /\ d.struct = e.struct /\ d.program = e.program
      /\ d.index = e.index /\ d.key = e.key
      /\ d.at = e.at /\ d.paid = e.paid /\ d.got = e.got
  <2>1. \A g \in Kept \cup Filled : d[g] = e[g]
    BY <1>1, <1>4
  <2>2. DOMAIN d = DOMAIN e
    BY <1>1, <1>4 DEF Kept
  <2> QED
    BY <1>3, <2>1, <2>2 DEF Kept, Filled
<1>6. d.index = index
  BY <1>3, <1>5
<1>7. Made(table, tx, d)
  BY <1>2, <1>3, <1>5, <1>6 DEF Made
<1> QED
  BY <1>6, <1>7 DEF d

\* An item that fits makes one event, any other none.
LEMMA ItemEvents ==
    ASSUME NEW table \in SUBSET AllLayouts, NEW tx, NEW index,
           NEW items, items = tx.inner[index[1]], NEW child, child = Under(index),
           NEW item, item = ItemAt(tx, index),
           NEW es, es = InstructionEvents(table, item, index)
    PROVE  EventsFor([k \in DOMAIN es |-> WithSwap(es[k], items, child)], {index}, table, tx)
<1> DEFINE s == [k \in DOMAIN es |-> WithSwap(es[k], items, child)]
           fit == {m \in Matching(table, item) : ~Short(m, item)}
           made == {InstructionEvent(l, item, index) : l \in fit}
<1>1. es = SetToSeq(made)
  BY DEF InstructionEvents
<1>2. CASE fit = {}
  <2>1. made = {}
    BY <1>2
  <2>2. DOMAIN es = {}
    BY <1>1, <2>1, SetToSeqOne
  <2>3. DOMAIN s = {} /\ s \in [1..0 -> {}]
    BY <2>2
  <2>4. IsSeq(s)
    <3> HIDE DEF s
    <3> QED
      BY <2>3, ListIsSeq
  <2>5. ~Fits(table, item)
    BY <1>2 DEF Fits
  <2> HIDE DEF s
  <2> QED
    BY <2>3, <2>4, <2>5 DEF EventsFor, s
<1>3. CASE fit # {}
  <2>1. PICK l \in Matching(table, item) : ~Short(l, item)
    BY <1>3
  <2> DEFINE e == InstructionEvent(l, item, index)
             d == WithSwap(e, items, child)
  <2>2. made = {e}
    <3>1. \A m \in fit : m = l
      <4>1. \A m \in fit : /\ m \in AllLayouts /\ l \in AllLayouts
                           /\ m.program = l.program /\ m.disc = l.disc
        BY <2>1 DEF Matching
      <4> QED
        BY <4>1, OneLayout
    <3>2. l \in fit
      BY <2>1
    <3> HIDE DEF fit
    <3> QED
      BY <3>1, <3>2
  <2>3. DOMAIN es = {1} /\ es[1] = e
    BY <1>1, <2>2, SetToSeqOne
  <2>4. e = InstructionEvent(l, item, index)
    OBVIOUS
  <2> HIDE DEF e
  <2>5. d.index = index /\ Made(table, tx, d)
    BY <2>1, <2>4, SwapKeeps
  <2> HIDE DEF d
  <2>6. DOMAIN s = {1} /\ s[1] = d /\ s \in [1..1 -> {d}]
    BY <2>3 DEF d
  <2> HIDE DEF s
  <2>7. IsSeq(s)
    BY <2>6, ListIsSeq
  <2>8. EventsFor(s, {index}, table, tx)
    BY <2>5, <2>6, <2>7 DEF EventsFor
  <2> QED
    BY <2>8 DEF s
<1> QED
  BY <1>2, <1>3

\* The places of what was called by the instructions.
Nested(tx) == UNION {{<<i, j>> : j \in DOMAIN tx.inner[i]} : i \in DOMAIN tx.inner}
Outer(tx) == {<<i>> : i \in DOMAIN tx.outer}

\* The instructions make theirs,
LEMMA OuterFor ==
    ASSUME NEW table \in SUBSET AllLayouts, NEW tx, Shaped(tx), ~tx.failed
    PROVE  EventsFor(FlattenSeq([i \in DOMAIN tx.outer |-> OuterEvents(table, tx, i)]),
                     Outer(tx), table, tx)
<1> DEFINE seqs == [i \in DOMAIN tx.outer |-> OuterEvents(table, tx, i)]
           I == [i \in DOMAIN tx.outer |-> {<<i>>}]
<1>1. /\ Len(tx.outer) \in Nat /\ DOMAIN tx.outer = 1..Len(tx.outer)
      /\ \A i \in DOMAIN tx.outer : ItemAt(tx, <<i>>) = tx.outer[i]
  BY PlacesOf
<1>2. ASSUME NEW i \in DOMAIN seqs
      PROVE  EventsFor(seqs[i], I[i], table, tx)
  <2>1. seqs[i] = OuterEvents(table, tx, i) /\ I[i] = {<<i>>} /\ ItemAt(tx, <<i>>) = tx.outer[i]
    BY <1>1
  <2> HIDE DEF seqs, I
  <2> DEFINE item == tx.outer[i]
             index == <<i>>
             items == Inner(tx, i)
             es == InstructionEvents(table, item, index)
             s == [k \in DOMAIN es |-> WithSwap(es[k], items, 0)]
  <2>3. OuterEvents(table, tx, i) = s
    BY DEF OuterEvents
  <2>4. /\ item = ItemAt(tx, index) /\ es = InstructionEvents(table, item, index)
        /\ items = tx.inner[index[1]] /\ 0 = Under(index)
    <3>1. Len(<<i>>) = 1 /\ <<i>>[1] = i
      OBVIOUS
    <3>2. Inner(tx, i) = tx.inner[i]
      BY DEF Inner
    <3> QED
      BY <2>1, <3>1, <3>2 DEF Under
  <2> HIDE DEF item, index, items, es
  <2>5. EventsFor(s, {index}, table, tx)
    BY <2>4, ItemEvents
  <2>2. EventsFor(OuterEvents(table, tx, i), {<<i>>}, table, tx)
    BY <2>3, <2>5 DEF index
  <2> QED
    BY <2>1, <2>2
<1>3. \A i, j \in DOMAIN seqs : i # j => I[i] \cap I[j] = {}
  OBVIOUS
<1>7. \A i, j \in DOMAIN seqs : i < j => \A x \in I[i], y \in I[j] : MetBefore(x, y)
  BY DEF MetBefore
<1>4. IsSeq(seqs)
  <2> DEFINE n == Len(tx.outer)
  <2>1. n \in Nat /\ seqs \in [1..n -> Range(seqs)]
    BY <1>1 DEF Range
  <2> HIDE DEF n, seqs
  <2> QED
    BY <2>1, ListIsSeq
<1>5. UNION {I[i] : i \in DOMAIN seqs} = Outer(tx)
  BY DEF Outer
<1> HIDE DEF seqs, I
<1>6. EventsFor(FlattenSeq(seqs), UNION {I[i] : i \in DOMAIN seqs}, table, tx)
  BY <1>2, <1>3, <1>4, <1>7, FlatEvents
<1> QED
  BY <1>5, <1>6 DEF seqs

\* and so does what each of them called,
LEMMA CalledFor ==
    ASSUME NEW table \in SUBSET AllLayouts, NEW tx, Shaped(tx), ~tx.failed, NEW i \in DOMAIN tx.outer
    PROVE  EventsFor(NestedEvents(table, tx, i), {<<i, j>> : j \in DOMAIN tx.inner[i]}, table, tx)
<1> DEFINE items == tx.inner[i]
           Of(j) == LET es == InstructionEvents(table, items[j], <<i, j>>)
                    IN [k \in DOMAIN es |-> WithSwap(es[k], items, j)]
           seqs == [j \in DOMAIN items |-> Of(j)]
           I == [j \in DOMAIN items |-> {<<i, j>>}]
<1>1. /\ Inner(tx, i) = items /\ items \in Seq(Range(items))
      /\ \A j \in DOMAIN items : ItemAt(tx, <<i, j>>) = items[j]
  BY PlacesOf
<1>2. NestedEvents(table, tx, i) = FlattenSeq(seqs)
  BY <1>1 DEF NestedEvents
<1> HIDE DEF items
<1>3. ASSUME NEW j \in DOMAIN seqs
      PROVE  EventsFor(seqs[j], I[j], table, tx)
  <2>1. seqs[j] = Of(j) /\ I[j] = {<<i, j>>} /\ ItemAt(tx, <<i, j>>) = items[j]
    BY <1>1
  <2> HIDE DEF seqs, I
  <2> DEFINE item == items[j]
             index == <<i, j>>
             es == InstructionEvents(table, item, index)
             s == [k \in DOMAIN es |-> WithSwap(es[k], items, j)]
  <2>3. Of(j) = s
    OBVIOUS
  <2>4. /\ item = ItemAt(tx, index) /\ es = InstructionEvents(table, item, index)
        /\ items = tx.inner[index[1]] /\ j = Under(index)
    <3>1. Len(<<i, j>>) = 2 /\ <<i, j>>[1] = i /\ <<i, j>>[2] = j
      OBVIOUS
    <3> QED
      BY <2>1, <3>1 DEF Under, items
  <2> HIDE DEF Of, item, index, es
  <2>5. EventsFor(s, {index}, table, tx)
    BY <2>4, ItemEvents
  <2>2. EventsFor(Of(j), {<<i, j>>}, table, tx)
    BY <2>3, <2>5 DEF index
  <2> HIDE DEF Of
  <2> QED
    BY <2>1, <2>2
<1>4. \A j, k \in DOMAIN seqs : j # k => I[j] \cap I[k] = {}
  OBVIOUS
<1>8. \A j, k \in DOMAIN seqs : j < k => \A x \in I[j], y \in I[k] : MetBefore(x, y)
  BY DEF MetBefore
<1>5. DOMAIN seqs = DOMAIN items /\ UNION {I[j] : j \in DOMAIN seqs} = {<<i, j>> : j \in DOMAIN items}
  OBVIOUS
<1> HIDE DEF Of
<1>6. IsSeq(seqs)
  <2> DEFINE n == Len(items)
  <2>1. n \in Nat /\ DOMAIN items = 1..n
    BY <1>1
  <2>2. seqs \in [1..n -> Range(seqs)]
    BY <2>1 DEF Range
  <2> HIDE DEF n, seqs
  <2> QED
    BY <2>1, <2>2, ListIsSeq
<1> HIDE DEF seqs, I
<1>7. EventsFor(FlattenSeq(seqs), UNION {I[j] : j \in DOMAIN seqs}, table, tx)
  BY <1>3, <1>4, <1>6, <1>8, FlatEvents
<1> QED
  BY <1>2, <1>5, <1>7 DEF items

\* all of it,
LEMMA NestedFor ==
    ASSUME NEW table \in SUBSET AllLayouts, NEW tx, Shaped(tx), ~tx.failed
    PROVE  EventsFor(FlattenSeq([i \in DOMAIN tx.outer |-> NestedEvents(table, tx, i)]),
                     Nested(tx), table, tx)
<1> DEFINE seqs == [i \in DOMAIN tx.outer |-> NestedEvents(table, tx, i)]
           I == [i \in DOMAIN tx.outer |-> {<<i, j>> : j \in DOMAIN tx.inner[i]}]
<1>1. /\ Len(tx.outer) \in Nat /\ DOMAIN tx.outer = 1..Len(tx.outer)
      /\ DOMAIN tx.inner = DOMAIN tx.outer
  BY PlacesOf
<1>2. ASSUME NEW i \in DOMAIN seqs
      PROVE  EventsFor(seqs[i], I[i], table, tx)
  <2>1. seqs[i] = NestedEvents(table, tx, i) /\ I[i] = {<<i, j>> : j \in DOMAIN tx.inner[i]}
    OBVIOUS
  <2> QED
    BY <2>1, CalledFor
<1>3. \A i, j \in DOMAIN seqs : i # j => I[i] \cap I[j] = {}
  OBVIOUS
<1>7. \A i, j \in DOMAIN seqs : i < j => \A x \in I[i], y \in I[j] : MetBefore(x, y)
  BY DEF MetBefore
<1>4. IsSeq(seqs)
  <2> DEFINE n == Len(tx.outer)
  <2>1. n \in Nat /\ seqs \in [1..n -> Range(seqs)]
    BY <1>1 DEF Range
  <2> HIDE DEF n, seqs
  <2> QED
    BY <2>1, ListIsSeq
<1>5. UNION {I[i] : i \in DOMAIN seqs} = Nested(tx)
  <2>1. \A i \in DOMAIN seqs : I[i] = {<<i, j>> : j \in DOMAIN tx.inner[i]}
    OBVIOUS
  <2>2. \A x : x \in Nested(tx)
              <=> \E i \in DOMAIN tx.inner : x \in {<<i, j>> : j \in DOMAIN tx.inner[i]}
    BY DEF Nested
  <2>3. DOMAIN seqs = DOMAIN tx.inner
    BY <1>1
  <2> HIDE DEF seqs, I
  <2>4. \A x : x \in UNION {I[i] : i \in DOMAIN seqs} <=> \E i \in DOMAIN seqs : x \in I[i]
    OBVIOUS
  <2>5. \A x : x \in UNION {I[i] : i \in DOMAIN seqs} <=> x \in Nested(tx)
    BY <2>1, <2>2, <2>3, <2>4
  <2> QED
    BY <2>5
<1> HIDE DEF seqs, I
<1>6. EventsFor(FlattenSeq(seqs), UNION {I[i] : i \in DOMAIN seqs}, table, tx)
  BY <1>2, <1>3, <1>4, <1>7, FlatEvents
<1> QED
  BY <1>5, <1>6 DEF seqs

\* What stays of an event when it gets amounts, accounts of its log or a flag.
Keeps(e, d) == \A g \in Kept : g \in DOMAIN d /\ d[g] = e[g]

\* A log changes only the accounts and the amounts,
LEMMA MergeKeeps ==
    ASSUME NEW e, NEW logs, Kept \cup Filled \cup Others \subseteq DOMAIN e
    PROVE  /\ Keeps(e, MergeLogs(e, logs)) /\ MergeLogs(e, logs).swap = e.swap
           /\ Filled \cup Others \subseteq DOMAIN MergeLogs(e, logs)
<1> DEFINE d == MergeLogs(e, logs)
<1>1. d = e \/ \E a, p, q : d = [e EXCEPT !.at = a, !.paid = p, !.got = q]
  BY DEF MergeLogs
<1> HIDE DEF d
<1>2. \A a, p, q : \A g \in Kept \cup {"swap"} :
         /\ [e EXCEPT !.at = a, !.paid = p, !.got = q][g] = e[g]
         /\ g \in DOMAIN [e EXCEPT !.at = a, !.paid = p, !.got = q]
  BY DEF Kept, Others
<1>3. \A a, p, q : Filled \cup Others \subseteq DOMAIN [e EXCEPT !.at = a, !.paid = p, !.got = q]
  BY DEF Filled, Others
<1> QED
  BY <1>1, <1>2, <1>3 DEF d, Keeps

\* and what process_events does changes the swap and the flag.
SameFilled(e, d) == \A g \in Filled : d[g] = e[g]

Settles(e, d) ==
    d.swap = IF e.swap # <<>> /\ e.struct \in MintSwaps
             THEN <<[e.swap[1] EXCEPT !.paid = e.paid, !.got = e.got]>> ELSE e.swap

LEMMA ProcessOne ==
    ASSUME NEW acc, NEW e, Kept \cup Filled \cup Others \subseteq DOMAIN e
    PROVE  \E x : /\ ProcessEvent(acc, e).done = Append(acc.done, x)
                  /\ Keeps(e, x) /\ SameFilled(e, x) /\ Settles(e, x)
<1> DEFINE pair == <<[e.swap[1] EXCEPT !.paid = e.paid, !.got = e.got]>>
           d == IF e.swap # <<>> /\ e.struct \in MintSwaps THEN [e EXCEPT !.swap = pair] ELSE e
<1>1. \E b : ProcessEvent(acc, e).done = Append(acc.done, [d EXCEPT !.dev = b])
  BY DEF ProcessEvent, MintSwaps
<1>2. PICK b : ProcessEvent(acc, e).done = Append(acc.done, [d EXCEPT !.dev = b])
  BY <1>1
<1>6. pair = <<[e.swap[1] EXCEPT !.paid = e.paid, !.got = e.got]>>
  OBVIOUS
<1> HIDE DEF pair
<1>3. \A g \in Kept \cup Filled : g \in DOMAIN d /\ d[g] = e[g]
  BY DEF Kept, Filled
<1>8. /\ "swap" \in DOMAIN d
      /\ d.swap = IF e.swap # <<>> /\ e.struct \in MintSwaps THEN pair ELSE e.swap
  BY DEF Others
<1> DEFINE x == [d EXCEPT !.dev = b]
<1>7. Settles(e, x)
  <2>1. x.swap = d.swap
    <3> HIDE DEF d
    <3> QED
      BY <1>8
  <2> HIDE DEF d, x
  <2> QED
    BY <1>6, <1>8, <2>1 DEF Settles
<1> HIDE DEF d
<1>4. \A g \in Kept \cup Filled : /\ g \in DOMAIN [d EXCEPT !.dev = b]
                                 /\ [d EXCEPT !.dev = b][g] = d[g]
  BY <1>3 DEF Kept, Filled
<1>5. Keeps(e, x) /\ SameFilled(e, x)
  <2> HIDE DEF x
  <2>1. \A g \in Kept \cup Filled : g \in DOMAIN x /\ x[g] = e[g]
    BY <1>3, <1>4 DEF x
  <2> QED
    BY <2>1 DEF Keeps, SameFilled
<1> QED
  BY <1>2, <1>5, <1>7

\* The recursive function by which ProcessEvents is defined.
IsRun(f, events, m) ==
    f = [n \in 0..m |-> IF n = 0 THEN [devs |-> {}, bonk |-> "nobody", done |-> <<>>]
                        ELSE ProcessEvent(f[n - 1], events[n])]

\* It exists.
LEMMA RunExists ==
    ASSUME NEW events, NEW n \in Nat
    PROVE  \E f : IsRun(f, events, n)
<1> DEFINE T == {m \in 0..n : \E f : IsRun(f, events, m)}
           start == [devs |-> {}, bonk |-> "nobody", done |-> <<>>]
<1>1. 0 \in T
  <2>1. IsRun([i \in 0..0 |-> start], events, 0)
    BY DEF IsRun
  <2> QED
    BY <2>1
<1>2. ASSUME NEW m \in 0 .. n - 1, m \in T
      PROVE  m + 1 \in T
  <2>1. PICK f : IsRun(f, events, m)
    BY <1>2
  <2> DEFINE last == ProcessEvent(f[m], events[m + 1])
             g == [i \in 0..(m + 1) |-> IF i <= m THEN f[i] ELSE last]
             h == [i \in 0..(m + 1) |-> IF i = 0 THEN start ELSE ProcessEvent(g[i - 1], events[i])]
  <2>2. \A i \in 0..m : f[i] = IF i = 0 THEN start ELSE ProcessEvent(f[i - 1], events[i])
    BY <2>1 DEF IsRun
  <2> HIDE DEF start
  <2>3. ASSUME NEW i \in 0..(m + 1)
        PROVE  g[i] = h[i]
    <3>1. CASE i <= m
      <4>1. i \in 0..m /\ g[i] = f[i] /\ (i # 0 => g[i - 1] = f[i - 1])
        BY <3>1
      <4> QED
        BY <2>2, <4>1
    <3>2. CASE i = m + 1
      <4>1. g[i] = last /\ i # 0 /\ g[i - 1] = f[m]
        BY <3>2
      <4> QED
        BY <3>2, <4>1
    <3> QED
      BY <3>1, <3>2
  <2>4. g = h
    <3> HIDE DEF last
    <3> QED
      BY <2>3
  <2>5. IsRun(g, events, m + 1)
    <3> HIDE DEF g
    <3> QED
      BY <2>4 DEF IsRun, start
  <2> HIDE DEF g
  <2> QED
    BY <2>5
<1>3. 0..n \subseteq T
  <2> HIDE DEF T
  <2> QED
    BY <1>1, <1>2, AllUpTo
<1> QED
  BY <1>3

\* A sequence with one event more.
LEMMA AppendIs ==
    ASSUME NEW s, IsSeq(s), NEW x
    PROVE  /\ IsSeq(Append(s, x)) /\ Len(Append(s, x)) = Len(s) + 1
           /\ Append(s, x)[Len(s) + 1] = x
           /\ \A n \in 1..Len(s) : Append(s, x)[n] = s[n]
<1> DEFINE S == Range(s) \cup {x}
           n == Len(s) + 1
           u == Append(s, x)
<1>1. s \in Seq(S) /\ x \in S
  BY SeqMonotonic DEF IsSeq
<1> HIDE DEF S
<1>2. /\ u \in Seq(S) /\ n \in Nat /\ Len(u) = n
      /\ u[n] = x /\ \A k \in 1..Len(s) : u[k] = s[k]
  BY <1>1, AppendProperties
<1> HIDE DEF n, u
<1>3. IsSeq(u)
  <2>1. u \in [1..n -> S]
    BY <1>2
  <2> QED
    BY <1>2, <2>1, ListIsSeq
<1> QED
  BY <1>2, <1>3 DEF n, u

\* process_events hands on every event, in its place.
LEMMA ProcessKeeps ==
    ASSUME NEW events, IsSeq(events),
           \A n \in DOMAIN events : Kept \cup Filled \cup Others \subseteq DOMAIN events[n]
    PROVE  /\ IsSeq(ProcessEvents(events)) /\ DOMAIN ProcessEvents(events) = DOMAIN events
           /\ Len(ProcessEvents(events)) = Len(events)
           /\ \A n \in DOMAIN events : /\ Keeps(events[n], ProcessEvents(events)[n])
                                       /\ SameFilled(events[n], ProcessEvents(events)[n])
                                       /\ Settles(events[n], ProcessEvents(events)[n])
<1> DEFINE N == Len(events)
           f == CHOOSE g : g = [n \in 0..Len(events) |->
                                   IF n = 0 THEN [devs |-> {}, bonk |-> "nobody", done |-> <<>>]
                                   ELSE ProcessEvent(g[n - 1], events[n])]
           Good(m) == /\ IsSeq(f[m].done) /\ Len(f[m].done) = m
                      /\ \A n \in 1..m : /\ Keeps(events[n], f[m].done[n])
                                         /\ SameFilled(events[n], f[m].done[n])
                                         /\ Settles(events[n], f[m].done[n])
           T == {m \in Nat : Good(m)}
<1>1. N \in Nat /\ DOMAIN events = 1..N
  BY DEF IsSeq
<1>2. ProcessEvents(events) = f[N].done
  BY DEF ProcessEvents
<1>3. IsRun(f, events, N)
  BY <1>1, RunExists DEF IsRun
<1> HIDE DEF N, f
<1>4. f[0].done = <<>> /\ \A n \in 1..N : f[n] = ProcessEvent(f[n - 1], events[n])
  <2>1. 0 \in 0..N /\ \A n \in 1..N : n \in 0..N /\ n # 0
    BY <1>1
  <2>2. \A n \in 0..N : f[n] = IF n = 0 THEN [devs |-> {}, bonk |-> "nobody", done |-> <<>>]
                               ELSE ProcessEvent(f[n - 1], events[n])
    BY <1>3 DEF IsRun
  <2> QED
    BY <2>1, <2>2
<1>5. 0 \in T
  <2>1. IsSeq(<<>>) /\ Len(<<>>) = 0
    BY DEF IsSeq
  <2> QED
    BY <1>4, <2>1
<1>6. ASSUME NEW m \in 0 .. N - 1, m \in T
      PROVE  m + 1 \in T
  <2>1. m + 1 \in 1..N /\ m \in Nat /\ (m + 1) - 1 = m /\ \A n \in 1..(m + 1) : n \in 1..m \/ n = m + 1
    BY <1>1
  <2>2. f[m + 1] = ProcessEvent(f[m], events[m + 1])
    BY <1>4, <2>1
  <2>3. PICK x : /\ f[m + 1].done = Append(f[m].done, x)
                 /\ Keeps(events[m + 1], x) /\ SameFilled(events[m + 1], x)
                 /\ Settles(events[m + 1], x)
    BY <1>1, <2>1, <2>2, ProcessOne
  <2> DEFINE s == f[m].done
             t == f[m + 1].done
  <2>4. /\ IsSeq(s) /\ Len(s) = m
        /\ \A n \in 1..m : Keeps(events[n], s[n]) /\ SameFilled(events[n], s[n]) /\ Settles(events[n], s[n])
    BY <1>6
  <2>5. /\ IsSeq(t) /\ Len(t) = m + 1 /\ t[m + 1] = x
        /\ \A n \in 1..m : t[n] = s[n]
    BY <2>3, <2>4, AppendIs
  <2> HIDE DEF s, t
  <2>6. \A n \in 1..(m + 1) :
           Keeps(events[n], t[n]) /\ SameFilled(events[n], t[n]) /\ Settles(events[n], t[n])
    BY <2>1, <2>3, <2>4, <2>5
  <2>7. Good(m + 1)
    BY <2>5, <2>6 DEF t
  <2> HIDE DEF Good
  <2> QED
    BY <2>1, <2>7
<1>7. N \in T
  <2> HIDE DEF T
  <2>1. 0..N \subseteq T
    BY <1>1, <1>5, <1>6, AllUpTo
  <2> QED
    BY <1>1, <2>1
<1> DEFINE done == f[N].done
<1>8. /\ IsSeq(done) /\ Len(done) = N
      /\ \A n \in 1..N :
            Keeps(events[n], done[n]) /\ SameFilled(events[n], done[n]) /\ Settles(events[n], done[n])
  BY <1>7
<1> HIDE DEF done
<1>9. DOMAIN done = 1..N
  BY <1>8 DEF IsSeq
<1> QED
  BY <1>1, <1>2, <1>8, <1>9 DEF done, N

\* Who has created a token of PumpFun among the first n events, and a pool of Bonk last.
DevsOf(events, n) ==
    UNION {{events[m].at.user} \cup ({events[m].at.creator} \ {NoOne}) :
              m \in {k \in 1..n : events[k].struct = "PumpFunCreateTokenEvent"}}

NoPool(events, i, j) == \A k \in i..j : events[k].struct # "BonkPoolCreateEvent"

LastPool(events, n, p) ==
    \/ p = "nobody" /\ NoPool(events, 1, n)
    \/ \E m \in 1..n : /\ events[m].struct = "BonkPoolCreateEvent" /\ p = events[m].at.creator
                        /\ NoPool(events, m + 1, n)

\* The flag that they give an event.
Flag(e, devs, p) ==
    \/ e.struct = "PumpFunTradeEvent" /\ {e.at.user, e.at.creator} \cap devs # {}
    \/ e.struct = "BonkTradeEvent" /\ e.at.payer = p

FlagOf(events, n, dev) ==
    \E p : LastPool(events, n - 1, p) /\ dev = Flag(events[n], DevsOf(events, n - 1), p)

Flagged(es, n) == FlagOf(es, n, es[n].dev)

\* One event more.
LEMMA FlagOne ==
    ASSUME NEW acc, NEW e, Kept \cup Filled \cup Others \subseteq DOMAIN e
    PROVE  /\ ProcessEvent(acc, e).devs =
                 IF e.struct = "PumpFunCreateTokenEvent"
                 THEN acc.devs \cup {e.at.user} \cup ({e.at.creator} \ {NoOne}) ELSE acc.devs
           /\ ProcessEvent(acc, e).bonk =
                 IF e.struct = "BonkPoolCreateEvent" THEN e.at.creator ELSE acc.bonk
           /\ \E x : /\ ProcessEvent(acc, e).done = Append(acc.done, x)
                     /\ x.dev = Flag(e, acc.devs, acc.bonk)
<1> DEFINE flag == Flag(e, acc.devs, acc.bonk)
<1>1. \E d : /\ ProcessEvent(acc, e).done = Append(acc.done, [d EXCEPT !.dev = flag])
             /\ d = e \/ d = [e EXCEPT !.swap = <<[e.swap[1] EXCEPT !.paid = e.paid, !.got = e.got]>>]
  BY DEF ProcessEvent, Flag
<1> HIDE DEF flag
<1>2. PICK d : /\ ProcessEvent(acc, e).done = Append(acc.done, [d EXCEPT !.dev = flag])
               /\ d = e \/ d = [e EXCEPT !.swap = <<[e.swap[1] EXCEPT !.paid = e.paid, !.got = e.got]>>]
  BY <1>1
<1>3. "dev" \in DOMAIN d
  BY <1>2 DEF Others
<1>4. [d EXCEPT !.dev = flag].dev = flag
  BY <1>3
<1>5. \E x : ProcessEvent(acc, e).done = Append(acc.done, x) /\ x.dev = flag
  BY <1>2, <1>4
<1>6. /\ ProcessEvent(acc, e).devs =
            IF e.struct = "PumpFunCreateTokenEvent"
            THEN acc.devs \cup {e.at.user} \cup ({e.at.creator} \ {NoOne}) ELSE acc.devs
      /\ ProcessEvent(acc, e).bonk =
            IF e.struct = "BonkPoolCreateEvent" THEN e.at.creator ELSE acc.bonk
  BY DEF ProcessEvent
<1> QED
  BY <1>5, <1>6 DEF flag

\* process_events flags every event by those before it.
LEMMA ProcessFlags ==
    ASSUME NEW events, IsSeq(events),
           \A n \in DOMAIN events : Kept \cup Filled \cup Others \subseteq DOMAIN events[n]
    PROVE  \A n \in DOMAIN events : FlagOf(events, n, ProcessEvents(events)[n].dev)
<1> DEFINE N == Len(events)
           f == CHOOSE g : g = [n \in 0..Len(events) |->
                                   IF n = 0 THEN [devs |-> {}, bonk |-> "nobody", done |-> <<>>]
                                   ELSE ProcessEvent(g[n - 1], events[n])]
           Good(m) == /\ f[m].devs = DevsOf(events, m) /\ LastPool(events, m, f[m].bonk)
                      /\ IsSeq(f[m].done) /\ Len(f[m].done) = m
                      /\ \A n \in 1..m : FlagOf(events, n, f[m].done[n].dev)
           T == {m \in Nat : Good(m)}
<1>1. N \in Nat /\ DOMAIN events = 1..N
  BY DEF IsSeq
<1>2. ProcessEvents(events) = f[N].done
  BY DEF ProcessEvents
<1>3. IsRun(f, events, N)
  BY <1>1, RunExists DEF IsRun
<1> HIDE DEF N, f
<1>4. /\ f[0] = [devs |-> {}, bonk |-> "nobody", done |-> <<>>]
      /\ \A n \in 1..N : f[n] = ProcessEvent(f[n - 1], events[n])
  <2>1. 0 \in 0..N /\ \A n \in 1..N : n \in 0..N /\ n # 0
    BY <1>1
  <2>2. \A n \in 0..N : f[n] = IF n = 0 THEN [devs |-> {}, bonk |-> "nobody", done |-> <<>>]
                               ELSE ProcessEvent(f[n - 1], events[n])
    BY <1>3 DEF IsRun
  <2> QED
    BY <2>1, <2>2
<1>5. 0 \in T
  <2>1. IsSeq(<<>>) /\ Len(<<>>) = 0
    BY DEF IsSeq
  <2>2. DevsOf(events, 0) = {} /\ LastPool(events, 0, "nobody")
    BY DEF DevsOf, LastPool, NoPool
  <2>3. f[0].devs = {} /\ f[0].bonk = "nobody" /\ f[0].done = <<>> /\ 1..0 = {}
    BY <1>4
  <2>4. Good(0)
    BY <2>1, <2>2, <2>3
  <2> HIDE DEF Good
  <2> QED
    BY <2>4
<1>6. ASSUME NEW m \in 0 .. N - 1, m \in T
      PROVE  m + 1 \in T
  <2>1. m + 1 \in 1..N /\ m \in Nat /\ (m + 1) - 1 = m /\ \A n \in 1..(m + 1) : n \in 1..m \/ n = m + 1
    BY <1>1
  <2> DEFINE a == f[m]
             b == f[m + 1]
             e == events[m + 1]
  <2>2. b = ProcessEvent(a, e) /\ Kept \cup Filled \cup Others \subseteq DOMAIN e
    BY <1>1, <1>4, <2>1
  <2>3. /\ a.devs = DevsOf(events, m) /\ LastPool(events, m, a.bonk)
        /\ IsSeq(a.done) /\ Len(a.done) = m
        /\ \A n \in 1..m : FlagOf(events, n, a.done[n].dev)
    BY <1>6
  <2>9. e = events[m + 1]
    OBVIOUS
  <2> HIDE DEF a, b, e
  <2>4. PICK x : b.done = Append(a.done, x) /\ x.dev = Flag(e, a.devs, a.bonk)
    BY <2>2, FlagOne
  <2>5. b.devs = DevsOf(events, m + 1)
    <3> DEFINE K(n) == {k \in 1..n : events[k].struct = "PumpFunCreateTokenEvent"}
               D(k) == {events[k].at.user} \cup ({events[k].at.creator} \ {NoOne})
    <3>1. K(m + 1) = IF e.struct = "PumpFunCreateTokenEvent" THEN K(m) \cup {m + 1} ELSE K(m)
      BY <2>1, <2>9
    <3>2. DevsOf(events, m) = UNION {D(k) : k \in K(m)} /\ DevsOf(events, m + 1) = UNION {D(k) : k \in K(m + 1)}
      BY DEF DevsOf
    <3>3. b.devs = IF e.struct = "PumpFunCreateTokenEvent" THEN a.devs \cup D(m + 1) ELSE a.devs
      <4>1. b.devs = IF e.struct = "PumpFunCreateTokenEvent"
                     THEN a.devs \cup {e.at.user} \cup ({e.at.creator} \ {NoOne}) ELSE a.devs
        BY <2>2, FlagOne
      <4> QED
        BY <2>9, <4>1
    <3> HIDE DEF D
    <3> DEFINE G == K(m)
               k == m + 1
    <3> HIDE DEF G, k
    <3> DEFINE U(H) == UNION {D(i) : i \in H}
    <3>4. \A y, H : y \in U(H) <=> \E i \in H : y \in D(i)
      OBVIOUS
    <3> HIDE DEF U
    <3>8. \A y : y \in U(G \cup {k}) <=> y \in U(G) \/ y \in D(k)
      BY <3>4
    <3>5. U(G \cup {k}) = U(G) \cup D(k)
      BY <3>8
    <3> HIDE DEF K
    <3>6. CASE e.struct = "PumpFunCreateTokenEvent"
      BY <2>3, <3>1, <3>2, <3>3, <3>5, <3>6 DEF G, k, U
    <3>7. CASE e.struct # "PumpFunCreateTokenEvent"
      BY <2>3, <3>1, <3>2, <3>3, <3>7
    <3> QED
      BY <3>6, <3>7
  <2>6. LastPool(events, m + 1, b.bonk)
    <3>1. b.bonk = IF e.struct = "BonkPoolCreateEvent" THEN e.at.creator ELSE a.bonk
      BY <2>2, FlagOne
    <3>2. CASE e.struct = "BonkPoolCreateEvent"
      <4>1. NoPool(events, (m + 1) + 1, m + 1)
        BY <2>1 DEF NoPool
      <4>2. m + 1 \in 1..(m + 1)
        BY <2>1
      <4> QED
        BY <2>9, <3>1, <3>2, <4>1, <4>2 DEF LastPool
    <3>3. CASE e.struct # "BonkPoolCreateEvent"
      <4>1. \A i \in 1..(m + 1) : NoPool(events, i, m) => NoPool(events, i, m + 1)
        <5>1. \A i \in 1..(m + 1) : \A k \in i..(m + 1) : k \in i..m \/ k = m + 1
          BY <2>1
        <5> QED
          BY <2>9, <3>3, <5>1 DEF NoPool
      <4>2. \A k \in 1..m : k \in 1..(m + 1) /\ k + 1 \in 1..(m + 1)
        BY <2>1
      <4>3. 1 \in 1..(m + 1)
        BY <2>1
      <4> QED
        BY <2>3, <3>1, <3>3, <4>1, <4>2, <4>3 DEF LastPool
    <3> QED
      BY <3>2, <3>3
  <2>7. IsSeq(b.done) /\ Len(b.done) = m + 1 /\ b.done[m + 1] = x /\ \A n \in 1..m : b.done[n] = a.done[n]
    BY <2>3, <2>4, AppendIs
  <2>8. \A n \in 1..(m + 1) : FlagOf(events, n, b.done[n].dev)
    <3>1. FlagOf(events, m + 1, x.dev)
      BY <2>1, <2>3, <2>4, <2>9 DEF FlagOf
    <3> QED
      BY <2>1, <2>3, <2>7, <3>1
  <2>10. Good(m + 1)
    BY <2>5, <2>6, <2>7, <2>8 DEF b
  <2> HIDE DEF Good
  <2> QED
    BY <2>1, <2>10
<1>7. N \in T
  <2> HIDE DEF T
  <2>1. 0..N \subseteq T
    BY <1>1, <1>5, <1>6, AllUpTo
  <2> QED
    BY <1>1, <2>1
<1> QED
  BY <1>1, <1>2, <1>7

\* Flags look only at what process_events leaves as it is.
LEMMA FlagsSame ==
    ASSUME NEW events, IsSeq(events),
           \A n \in DOMAIN events : Kept \cup Filled \cup Others \subseteq DOMAIN events[n],
           NEW es, es = ProcessEvents(events), DOMAIN es = DOMAIN events,
           \A n \in DOMAIN events : Keeps(events[n], es[n]) /\ SameFilled(events[n], es[n])
    PROVE  \A n \in DOMAIN es : Flagged(es, n)
<1> SUFFICES ASSUME NEW n \in DOMAIN es PROVE Flagged(es, n)
  OBVIOUS
<1>1. FlagOf(events, n, es[n].dev)
  BY ProcessFlags
<1>2. Len(events) \in Nat /\ DOMAIN events = 1..Len(events)
  BY DEF IsSeq
<1>3. \A k \in DOMAIN events : es[k].struct = events[k].struct /\ es[k].at = events[k].at
  BY DEF Keeps, SameFilled, Kept, Filled
<1>4. n \in Nat /\ \A k \in 1..(n - 1) : k \in DOMAIN events /\ k + 1 \in Nat /\ k \in Nat
  BY <1>2
<1>5. DevsOf(es, n - 1) = DevsOf(events, n - 1)
  <2> DEFINE K(s) == {k \in 1..(n - 1) : s[k].struct = "PumpFunCreateTokenEvent"}
             D(s, k) == {s[k].at.user} \cup ({s[k].at.creator} \ {NoOne})
  <2>1. K(es) = K(events) /\ \A k \in K(es) : D(es, k) = D(events, k)
    BY <1>3, <1>4
  <2>2. DevsOf(es, n - 1) = UNION {D(es, k) : k \in K(es)}
    BY DEF DevsOf
  <2>3. DevsOf(events, n - 1) = UNION {D(events, k) : k \in K(events)}
    BY DEF DevsOf
  <2> HIDE DEF K, D
  <2>4. {D(es, k) : k \in K(es)} = {D(events, k) : k \in K(events)}
    BY <2>1
  <2> QED
    BY <2>2, <2>3, <2>4
<1>6. ASSUME NEW p, LastPool(events, n - 1, p)
      PROVE  LastPool(es, n - 1, p)
  <2>1. \A i \in Nat : i >= 1 /\ NoPool(events, i, n - 1) => NoPool(es, i, n - 1)
    <3>1. \A i \in Nat : i >= 1 => \A k \in i..(n - 1) : k \in 1..(n - 1)
      BY <1>4
    <3> QED
      BY <1>3, <1>4, <3>1 DEF NoPool
  <2>2. \A k \in 1..(n - 1) : k + 1 \in Nat /\ k + 1 >= 1
    BY <1>4
  <2>3. 1 \in Nat /\ 1 >= 1
    OBVIOUS
  <2> QED
    BY <1>3, <1>4, <1>6, <2>1, <2>2, <2>3 DEF LastPool
<1>7. \A devs, p : Flag(es[n], devs, p) = Flag(events[n], devs, p)
  BY <1>3 DEF Flag
<1> QED
  BY <1>1, <1>5, <1>6, <1>7 DEF FlagOf, Flagged

\* What becomes of the event of an item.
Comes(d, table, tx) ==
    \E e : /\ Made(table, tx, e) /\ Keeps(e, d)
           /\ SameFilled(MergeLogs(e, ToldEvents(table, tx)), d)
           /\ Settles(MergeLogs(e, ToldEvents(table, tx)), d)

\* One event for each instruction that fits, and no other.
LEMMA TransactionEvents ==
    ASSUME NEW table \in SUBSET AllLayouts, NEW tx, Shaped(tx), ~tx.failed,
           NEW es, es = ParseTransaction(table, tx)
    PROVE  /\ IsSeq(es)
           /\ \A n \in DOMAIN es : es[n].index \in Indexes(tx) /\ Comes(es[n], table, tx)
           /\ \A m, n \in DOMAIN es : es[m].index = es[n].index => m = n
           /\ \A m, n \in DOMAIN es : m < n => MetBefore(es[m].index, es[n].index)
           /\ \A n \in DOMAIN es : Flagged(es, n)
           /\ \A index \in Indexes(tx) :
                 Fits(table, ItemAt(tx, index)) => \E n \in DOMAIN es : es[n].index = index
<1> DEFINE outer == FlattenSeq([i \in DOMAIN tx.outer |-> OuterEvents(table, tx, i)])
           nested == FlattenSeq([i \in DOMAIN tx.outer |-> NestedEvents(table, tx, i)])
           all == outer \o nested
           logs == ToldEvents(table, tx)
           merged == [k \in DOMAIN all |-> MergeLogs(all[k], logs)]
<1>1. es = ProcessEvents(merged)
  BY DEF ParseTransaction
<1>2. EventsFor(outer, Outer(tx), table, tx) /\ EventsFor(nested, Nested(tx), table, tx)
  BY OuterFor, NestedFor
<1> HIDE DEF outer, nested
<1>3. Outer(tx) \cap Nested(tx) = {} /\ Outer(tx) \cup Nested(tx) = Indexes(tx)
  <2>1. \A i, j, k : <<i>> # <<j, k>>
    OBVIOUS
  <2>2. Outer(tx) \cap Nested(tx) = {}
    BY <2>1 DEF Outer, Nested
  <2>3. Outer(tx) \cup Nested(tx) = Indexes(tx)
    BY DEF Outer, Nested, Indexes
  <2> QED
    BY <2>2, <2>3
<1>16. \A x \in Outer(tx), y \in Nested(tx) : MetBefore(x, y)
  <2>1. \A i, j, k : Len(<<i>>) = 1 /\ Len(<<j, k>>) = 2
    OBVIOUS
  <2> QED
    BY <2>1 DEF Outer, Nested, MetBefore
<1>4. EventsFor(all, Indexes(tx), table, tx)
  BY <1>2, <1>3, <1>16, ConcatEvents
<1> HIDE DEF all, logs
<1>5. \A n \in DOMAIN all : Kept \cup Filled \cup Others \subseteq DOMAIN all[n] /\ Made(table, tx, all[n])
  BY <1>4 DEF EventsFor, Made, Kept
<1>6. DOMAIN merged = DOMAIN all /\ \A n \in DOMAIN all : merged[n] = MergeLogs(all[n], logs)
  OBVIOUS
<1>7. IsSeq(merged)
  <2> DEFINE N == Len(all)
  <2>1. N \in Nat /\ DOMAIN all = 1..N
    BY <1>4 DEF EventsFor, IsSeq
  <2>2. merged \in [1..N -> Range(merged)]
    BY <2>1 DEF Range
  <2> HIDE DEF N, merged
  <2> QED
    BY <2>1, <2>2, ListIsSeq
<1> HIDE DEF merged
<1>8. \A n \in DOMAIN all : Keeps(all[n], merged[n]) /\ Filled \cup Others \subseteq DOMAIN merged[n]
  BY <1>5, <1>6, MergeKeeps
<1>9. \A n \in DOMAIN merged : Kept \cup Filled \cup Others \subseteq DOMAIN merged[n]
  BY <1>6, <1>8 DEF Keeps
<1>10. /\ IsSeq(es) /\ DOMAIN es = DOMAIN all
       /\ \A n \in DOMAIN all :
             Keeps(merged[n], es[n]) /\ SameFilled(merged[n], es[n]) /\ Settles(merged[n], es[n])
  BY <1>1, <1>6, <1>7, <1>9, ProcessKeeps
<1>11. \A n \in DOMAIN all :
          /\ Keeps(all[n], es[n])
          /\ SameFilled(MergeLogs(all[n], logs), es[n]) /\ Settles(MergeLogs(all[n], logs), es[n])
  BY <1>6, <1>8, <1>10 DEF Keeps
<1>12. \A n \in DOMAIN all : es[n].index = all[n].index
  BY <1>11 DEF Keeps, Kept
<1>13. ASSUME NEW n \in DOMAIN es
       PROVE  es[n].index \in Indexes(tx) /\ Comes(es[n], table, tx)
  BY <1>4, <1>5, <1>10, <1>11, <1>12 DEF EventsFor, Comes, logs
<1>14. \A m, n \in DOMAIN es : es[m].index = es[n].index => m = n
  BY <1>4, <1>10, <1>12 DEF EventsFor
<1>15. \A index \in Indexes(tx) :
          Fits(table, ItemAt(tx, index)) => \E n \in DOMAIN es : es[n].index = index
  BY <1>4, <1>10, <1>12 DEF EventsFor
<1>17. \A m, n \in DOMAIN es : m < n => MetBefore(es[m].index, es[n].index)
  BY <1>4, <1>10, <1>12 DEF EventsFor
<1>18. \A n \in DOMAIN es : Flagged(es, n)
  BY <1>1, <1>6, <1>7, <1>9, <1>10, FlagsSame
<1> QED
  BY <1>10, <1>13, <1>14, <1>15, <1>17, <1>18

\* A transaction that the reader has taken has been asked for, and its events are those
\* that the parsers make of it.
LEMMA MessageIs ==
    ASSUME StreamInv, NEW i \in 1..pos, Chained(i).kind = "tx",
           NEW tx, tx = Chained(i).tx,
           NEW table, table = Table[setup.filter],
           NEW es, es = ParseTransaction(table, tx)
    PROVE  /\ setup.filter \in DOMAIN Included /\ table \in SUBSET AllLayouts
           /\ Shaped(tx) /\ ~tx.failed
           /\ \A index \in Indexes(tx) : ItemKnown(ItemAt(tx, index))
           /\ PoolsKnown(tx) /\ LogsKnown(tx) /\ DevsKnown(tx) /\ SwapsKnown(tx)
           /\ Whole(i) = DOMAIN es /\ feed[i].events = es
<1> DEFINE m == Chained(i)
           f == setup.filter
<1>1. /\ f \in DOMAIN Included /\ feed[i] = Delivered(f, m)
      /\ Subscribed(f, m) /\ Known(m) /\ EventsOf(feed[i]) = EventsIn(f, m)
  BY FeedIs
<1>2. EventsIn(f, m) = es
  BY DEF EventsIn
<1>3. feed[i].events = es
  <2>1. Delivered(f, m).events = EventsIn(f, m)
    BY DEF Delivered
  <2> QED
    BY <1>1, <1>2, <2>1
<1>4. /\ Shaped(tx) /\ ~tx.failed /\ PoolsKnown(tx) /\ LogsKnown(tx) /\ DevsKnown(tx)
      /\ SwapsKnown(tx) /\ \A index \in Indexes(tx) : ItemKnown(ItemAt(tx, index))
  BY <1>1 DEF Known, Subscribed
<1>5. table \in SUBSET AllLayouts
  BY <1>1, TablesOf
<1>6. IsSeq(es)
  BY <1>4, <1>5, TransactionEvents
<1>7. Whole(i) = DOMAIN es
  BY <1>1, <1>2, <1>6 DEF Whole, IsSeq
<1> QED
  BY <1>1, <1>3, <1>4, <1>5, <1>7

\* What is heard of a message are its events, each once.
LEMMA HeardIs ==
    ASSUME StreamInv, NEW n \in DOMAIN heard
    PROVE  /\ heard[n][1] \in 1..pos /\ heard[n][2] \in Whole(heard[n][1])
           /\ heard[n] = <<heard[n][1], heard[n][2]>>
           /\ \A m \in DOMAIN heard : m # n => heard[m] # heard[n]
<1>1. heard \in Seq(Nat \X Nat)
  BY DEF StreamInv, PromiseInv, Arrivals
<1>2. heard[n] \in Nat \X Nat
  BY <1>1
<1> QED
  BY <1>2 DEF StreamInv, HeardInv, Real, Apart

\* What a layout makes of an instruction.
MadeFrom(e, l, item) ==
    /\ Filled \subseteq DOMAIN e
    /\ e.type = l.type /\ e.key = Key(l, item) /\ e.at = Addresses(l, item)
    /\ e.paid = (IF l.known = "paid" THEN item.arg ELSE 0)
    /\ e.got = (IF l.known = "got" THEN item.arg ELSE 0)

\* An event is of the type of its instruction, and made by the one layout for that.
LEMMA EventIs ==
    ASSUME NEW table \in SUBSET AllLayouts, NEW tx, Shaped(tx), ~tx.failed,
           \A index \in Indexes(tx) : ItemKnown(ItemAt(tx, index)),
           NEW es, es = ParseTransaction(table, tx), NEW k \in DOMAIN es,
           NEW item, item = ItemAt(tx, es[k].index)
    PROVE  /\ es[k].index \in Indexes(tx) /\ item.kind = "call"
           /\ \E l \in AllLayouts : \E e :
                 /\ l.type = item.truth.type /\ l \in Matching(table, item) /\ ~Short(l, item)
                 /\ es[k].type = l.type /\ es[k].struct = l.struct /\ es[k].program = l.program
                 /\ MadeFrom(e, l, item) /\ e.index = es[k].index
                 /\ SameFilled(MergeLogs(e, ToldEvents(table, tx)), es[k])
                 /\ Settles(MergeLogs(e, ToldEvents(table, tx)), es[k])
                 /\ MergeLogs(e, ToldEvents(table, tx)).swap = SwapOf(l, tx, es[k].index)
                 /\ MergeLogs(e, ToldEvents(table, tx)).struct = l.struct
<1>1. PICK e : /\ es[k].index \in Indexes(tx)
               /\ Made(table, tx, e) /\ Keeps(e, es[k])
               /\ SameFilled(MergeLogs(e, ToldEvents(table, tx)), es[k])
               /\ Settles(MergeLogs(e, ToldEvents(table, tx)), es[k])
  <2>1. es[k].index \in Indexes(tx) /\ Comes(es[k], table, tx)
    BY TransactionEvents
  <2> QED
    BY <2>1 DEF Comes
<1>2. /\ es[k].type = e.type /\ es[k].struct = e.struct /\ es[k].program = e.program
      /\ es[k].index = e.index
  BY <1>1 DEF Keeps, Kept
<1>3. PICK l \in Matching(table, item) :
         /\ ~Short(l, item) /\ MadeFrom(e, l, item)
         /\ e.type = l.type /\ e.struct = l.struct /\ e.program = l.program
         /\ e.swap = SwapOf(l, tx, es[k].index)
  BY <1>1, <1>2 DEF Made, MadeFrom
<1>4. item.kind = "call" /\ l \in AllLayouts /\ l.program = item.program /\ l.disc = item.disc
  BY DEF Matching
<1>5. l.type = item.truth.type
  <2>1. CallKnown(item)
    BY <1>1, <1>4 DEF ItemKnown
  <2>2. PICK m \in AllLayouts :
           m.program = item.program /\ m.disc = item.disc /\ m.type = item.truth.type
    BY <2>1 DEF CallKnown
  <2> QED
    BY <1>4, <2>2, OneLayout
<1> DEFINE d == MergeLogs(e, ToldEvents(table, tx))
<1>6. d.swap = SwapOf(l, tx, es[k].index) /\ d.struct = l.struct
  <2>1. Kept \cup Filled \cup Others \subseteq DOMAIN e
    BY <1>1 DEF Made
  <2>2. Keeps(e, d) /\ d.swap = e.swap
    BY <2>1, MergeKeeps
  <2> HIDE DEF d
  <2> QED
    BY <1>3, <2>2 DEF Keeps, Kept
<1> QED
  BY <1>1, <1>2, <1>3, <1>4, <1>5, <1>6

-----------------------------------------------------------------------------
(* One event for each instruction *)

\* Of any transaction that is told to the end, every full instruction that was asked
\* for has made one event of its type, at whatever depth, and none has made two
\* (traits.rs:135-281).
THEOREM OneEachHolds == Spec => []OneEach
<1>1. ASSUME StreamInv, NEW i \in 1..pos, Chained(i).kind = "tx", ToldOf(i) = Whole(i),
             NEW tx, tx = Chained(i).tx,
             NEW mine, mine = {n \in DOMAIN heard : heard[n][1] = i}
      PROVE  /\ \A index \in CallsOf(tx) :
                   ItemAt(tx, index).truth.full
                      /\ ItemAt(tx, index).truth.type \in Included[setup.filter]
                   => index \in {HeardEvent(n).index : n \in mine}
             /\ \A n \in mine : HeardEvent(n).type = Truth(n).type
             /\ \A m, n \in mine : HeardEvent(m).index = HeardEvent(n).index => m = n
  <2> DEFINE table == Table[setup.filter]
             es == ParseTransaction(table, tx)
  <2>1. /\ setup.filter \in DOMAIN Included /\ table \in SUBSET AllLayouts
        /\ Shaped(tx) /\ ~tx.failed
        /\ \A index \in Indexes(tx) : ItemKnown(ItemAt(tx, index))
        /\ Whole(i) = DOMAIN es /\ feed[i].events = es
    BY <1>1, MessageIs
  <2>2. \A l \in AllLayouts : l.type \in Included[setup.filter] => l \in table
    BY <2>1, TablesOf
  <2>3. es = ParseTransaction(table, tx)
    OBVIOUS
  <2> HIDE DEF table, es
  <2>4. ASSUME NEW n \in mine
        PROVE  /\ n \in DOMAIN heard /\ heard[n] = <<i, heard[n][2]>>
               /\ heard[n][2] \in DOMAIN es /\ HeardEvent(n) = es[heard[n][2]]
    <3>1. n \in DOMAIN heard /\ heard[n][1] = i
      BY <1>1
    <3>2. heard[n] = <<i, heard[n][2]>> /\ heard[n][2] \in Whole(i)
      BY <1>1, <3>1, HeardIs
    <3> QED
      BY <2>1, <3>1, <3>2 DEF HeardEvent
  <2>5. ASSUME NEW index \in CallsOf(tx), ItemAt(tx, index).truth.full,
               ItemAt(tx, index).truth.type \in Included[setup.filter]
        PROVE  index \in {HeardEvent(n).index : n \in mine}
    <3> DEFINE item == ItemAt(tx, index)
    <3>1. index \in Indexes(tx) /\ item.kind = "call"
      BY DEF CallsOf
    <3>2. CallKnown(item)
      BY <2>1, <3>1 DEF ItemKnown
    <3>3. item.truth.full /\ item.truth.type \in Included[setup.filter]
      BY <2>5
    <3> HIDE DEF item
    <3>4. PICK l \in AllLayouts :
             l.program = item.program /\ l.disc = item.disc /\ l.type = item.truth.type
      BY <3>2 DEF CallKnown
    <3>5. l \in table /\ l \in Matching(table, item) /\ l \in Matching(AllLayouts, item)
      BY <2>2, <3>1, <3>3, <3>4 DEF Matching
    <3>6. ~Short(l, item)
      BY <3>2, <3>3, <3>5 DEF CallKnown
    <3>7. Fits(table, item)
      BY <3>5, <3>6 DEF Fits
    <3>11. \A c \in Indexes(tx) : Fits(table, ItemAt(tx, c)) => \E k \in DOMAIN es : es[k].index = c
      BY <2>1, <2>3, TransactionEvents
    <3>8. PICK k \in DOMAIN es : es[k].index = index
      BY <3>1, <3>7, <3>11 DEF item
    <3>9. PICK n \in DOMAIN heard : heard[n] = <<i, k>>
      BY <1>1, <2>1, <3>8 DEF ToldOf
    <3>10. n \in mine /\ heard[n][2] = k
      BY <1>1, <3>9
    <3> QED
      BY <2>4, <3>8, <3>10
  <2>6. ASSUME NEW n \in mine
        PROVE  HeardEvent(n).type = Truth(n).type
    <3> DEFINE k == heard[n][2]
               item == ItemAt(tx, es[k].index)
    <3>1. k \in DOMAIN es /\ HeardEvent(n) = es[k]
      BY <2>4
    <3>2. Truth(n) = item.truth
      BY <1>1, <2>4, <3>1 DEF Truth
    <3>3. es[k].type = item.truth.type
      <4>1. item = ItemAt(tx, es[k].index)
        OBVIOUS
      <4> HIDE DEF item, k
      <4> QED
        BY <2>1, <2>3, <3>1, <4>1, EventIs
    <3> HIDE DEF item
    <3> QED
      BY <3>1, <3>2, <3>3
  <2>7. ASSUME NEW m \in mine, NEW n \in mine, HeardEvent(m).index = HeardEvent(n).index
        PROVE  m = n
    <3>3. \A k, l \in DOMAIN es : es[k].index = es[l].index => k = l
      BY <2>1, <2>3, TransactionEvents
    <3>1. heard[m][2] = heard[n][2]
      BY <2>4, <2>7, <3>3
    <3>2. heard[m] = heard[n] /\ m \in DOMAIN heard /\ n \in DOMAIN heard
      BY <2>4, <3>1
    <3> QED
      BY <1>1, <3>2, HeardIs
  <2> QED
    BY <2>5, <2>6, <2>7
<1>2. StreamInv => OneEach
  <2> SUFFICES ASSUME StreamInv,
                      NEW i \in {k \in 1..pos : Chained(k).kind = "tx" /\ ~Panics(k) /\ ToldOf(k) = Whole(k)}
               PROVE  LET tx == Chained(i).tx
                          mine == {n \in DOMAIN heard : heard[n][1] = i}
                          asked == {index \in CallsOf(tx) :
                                       /\ ItemAt(tx, index).truth.full
                                       /\ ItemAt(tx, index).truth.type \in Included[setup.filter]}
                      IN /\ asked \subseteq {HeardEvent(n).index : n \in mine}
                         /\ \A n \in mine : HeardEvent(n).type = Truth(n).type
                         /\ \A m, n \in mine : HeardEvent(m).index = HeardEvent(n).index => m = n
    BY DEF OneEach
  <2>1. i \in 1..pos /\ Chained(i).kind = "tx" /\ ToldOf(i) = Whole(i)
    OBVIOUS
  <2> QED
    BY <1>1, <2>1
<1> QED
  BY <1>2, StreamInvariant, PTL

-----------------------------------------------------------------------------
(* The mints of an event *)

\* A type is that of one layout,
TypedOnce(layouts) == \A l, m \in layouts : l.type = m.type => l = m
\* and a log, where one is awaited, tells no mint.
Mintless(l) == l.log # NoLog => l.log \in DOMAIN LogTable /\ LogTable[l.log].copies \cap MintFields = {}

BonkTypes ==
    {"BonkBuyExactIn", "BonkBuyExactOut", "BonkSellExactIn", "BonkSellExactOut", "BonkInitialize",
     "BonkInitializeV2", "BonkMigrateToAmm", "BonkMigrateToCpswap"}
PumpFunTypes == {"PumpFunBuy", "PumpFunSell", "PumpFunCreateToken", "PumpFunMigrate"}
PumpSwapTypes ==
    {"PumpSwapBuy", "PumpSwapSell", "PumpSwapCreatePool", "PumpSwapDeposit", "PumpSwapWithdraw"}

\* The layouts of Bonk,
LEMMA BonkTyped ==
    /\ TypedOnce(BonkLayouts)
    /\ \A l \in BonkLayouts : l.type \in BonkTypes /\ Mintless(l)
<1>1. /\ \A l \in BonkBuys : l.type \in {"BonkBuyExactIn", "BonkBuyExactOut"} /\ l.log = "bonk_trade"
      /\ TypedOnce(BonkBuys)
  BY DEF TypedOnce, BonkBuys, BonkTrade, Plain, With
<1>2. /\ \A l \in BonkSells : l.type \in {"BonkSellExactIn", "BonkSellExactOut"} /\ l.log = "bonk_trade"
      /\ TypedOnce(BonkSells)
  BY DEF TypedOnce, BonkSells, BonkTrade, Plain, With
<1>3. /\ \A l \in BonkPools : l.type \in {"BonkInitialize", "BonkInitializeV2"} /\ l.log = "bonk_create"
      /\ TypedOnce(BonkPools)
  BY DEF TypedOnce, BonkPools, Plain, With
<1>4. /\ \A l \in BonkMigrations : l.type \in {"BonkMigrateToAmm", "BonkMigrateToCpswap"} /\ l.log = NoLog
      /\ TypedOnce(BonkMigrations)
  BY DEF TypedOnce, BonkMigrations, Plain, With, NoLog
<1>5. /\ {"bonk_trade", "bonk_create"} \subseteq DOMAIN LogTable
      /\ LogTable["bonk_trade"].copies \cap MintFields = {}
      /\ LogTable["bonk_create"].copies \cap MintFields = {}
  BY DEF LogTable, BonkTradeLog, BonkCreateLog, LogOf, Amounts, MintFields
<1>6. TypedOnce(BonkLayouts)
  BY <1>1, <1>2, <1>3, <1>4 DEF TypedOnce, BonkLayouts
<1>7. \A l \in BonkLayouts : l.type \in BonkTypes
  BY <1>1, <1>2, <1>3, <1>4 DEF BonkLayouts, BonkTypes
<1>8. \A l \in BonkLayouts : l.log \in {"bonk_trade", "bonk_create", NoLog}
  BY <1>1, <1>2, <1>3, <1>4 DEF BonkLayouts
<1> QED
  BY <1>5, <1>6, <1>7, <1>8 DEF Mintless

\* those of PumpFun, whose logs tell the mint that identifies them,
LEMMA PumpFunTyped ==
    /\ TypedOnce(PumpFunLayouts)
    /\ \A l \in PumpFunLayouts :
          /\ l.type \in PumpFunTypes /\ l.log \in DOMAIN LogTable
          /\ MintFields \cap DOMAIN l.at = {"mint"}
<1>1. /\ PumpFunBuy.type = "PumpFunBuy" /\ PumpFunSell.type = "PumpFunSell"
      /\ PumpFunCreate.type = "PumpFunCreateToken" /\ PumpFunMigrate.type = "PumpFunMigrate"
  BY DEF PumpFunBuy, PumpFunSell, PumpFunCreate, PumpFunMigrate, Plain, With
<1>2. /\ PumpFunBuy.log = "pumpfun_trade" /\ PumpFunSell.log = "pumpfun_trade"
      /\ PumpFunCreate.log = "pumpfun_create" /\ PumpFunMigrate.log = "pumpfun_migrate"
  BY DEF PumpFunBuy, PumpFunSell, PumpFunCreate, PumpFunMigrate, Plain, With
<1>3. /\ DOMAIN PumpFunBuy.at = {"mint", "user"} /\ DOMAIN PumpFunSell.at = {"mint", "user"}
      /\ DOMAIN PumpFunCreate.at = {"mint", "pool", "user"}
      /\ DOMAIN PumpFunMigrate.at = {"mint", "user", "pool"}
  BY DEF PumpFunBuy, PumpFunSell, PumpFunCreate, PumpFunMigrate, Plain, With
<1>4. {"pumpfun_trade", "pumpfun_create", "pumpfun_migrate"} \subseteq DOMAIN LogTable
  BY DEF LogTable
<1>5. \A l \in PumpFunLayouts : MintFields \cap DOMAIN l.at = {"mint"}
  BY <1>3 DEF PumpFunLayouts, MintFields
<1>6. TypedOnce(PumpFunLayouts)
  BY <1>1 DEF TypedOnce, PumpFunLayouts
<1>7. \A l \in PumpFunLayouts : l.type \in PumpFunTypes /\ l.log \in DOMAIN LogTable
  BY <1>1, <1>2, <1>4 DEF PumpFunLayouts, PumpFunTypes
<1> QED
  BY <1>5, <1>6, <1>7

\* and those of PumpSwap.
LEMMA PumpSwapTyped ==
    /\ TypedOnce(PumpSwapLayouts)
    /\ \A l \in PumpSwapLayouts : l.type \in PumpSwapTypes /\ (Mintless(l) \/ l = PumpSwapCreate)
<1>1. /\ \A l \in PumpSwapTrades : /\ l.type \in {"PumpSwapBuy", "PumpSwapSell"}
                                   /\ l.log \in {"pumpswap_buy", "pumpswap_sell"}
      /\ TypedOnce(PumpSwapTrades)
  BY DEF TypedOnce, PumpSwapTrades, Plain, With
<1>2. /\ \A l \in PumpSwapLiquidity : /\ l.type \in {"PumpSwapDeposit", "PumpSwapWithdraw"}
                                      /\ l.log \in {"pumpswap_deposit", "pumpswap_withdraw"}
      /\ TypedOnce(PumpSwapLiquidity)
  BY DEF TypedOnce, PumpSwapLiquidity, Plain, With
<1>3. PumpSwapCreate.type = "PumpSwapCreatePool"
  BY DEF PumpSwapCreate, Plain, With
<1>4. /\ {"pumpswap_buy", "pumpswap_sell", "pumpswap_deposit", "pumpswap_withdraw"} \subseteq DOMAIN LogTable
      /\ LogTable["pumpswap_buy"].copies \cap MintFields = {}
      /\ LogTable["pumpswap_sell"].copies \cap MintFields = {}
      /\ LogTable["pumpswap_deposit"].copies \cap MintFields = {}
      /\ LogTable["pumpswap_withdraw"].copies \cap MintFields = {}
  BY DEF LogTable, PumpSwapBuyLog, PumpSwapSellLog, PumpSwapLiquidityLogs, LogOf, Amounts, MintFields
<1>5. TypedOnce(PumpSwapLayouts)
  BY <1>1, <1>2, <1>3 DEF TypedOnce, PumpSwapLayouts
<1>6. \A l \in PumpSwapLayouts : l.type \in PumpSwapTypes
  BY <1>1, <1>2, <1>3 DEF PumpSwapLayouts, PumpSwapTypes
<1>7. \A l \in PumpSwapLayouts :
         l = PumpSwapCreate \/ l.log \in {"pumpswap_buy", "pumpswap_sell", "pumpswap_deposit", "pumpswap_withdraw"}
  BY <1>1, <1>2 DEF PumpSwapLayouts
<1> QED
  BY <1>4, <1>5, <1>6, <1>7 DEF Mintless

\* Raydium writes no logs.
LEMMA RaydiumTyped ==
    \A l \in AmmLayouts \cup ClmmLayouts \cup CpmmLayouts :
        l.log = NoLog /\ l.type \notin BonkTypes \cup PumpFunTypes \cup PumpSwapTypes
<1>1. \A l \in AmmLayouts :
         /\ l.log = NoLog
         /\ l.type \in {"RaydiumAmmV4SwapBaseIn", "RaydiumAmmV4SwapBaseOut", "RaydiumAmmV4Initialize2",
                        "RaydiumAmmV4Deposit", "RaydiumAmmV4Withdraw", "RaydiumAmmV4WithdrawPnl"}
  BY DEF AmmLayouts, AmmSwaps, AmmInitialize, AmmDeposit, AmmWithdraws, AmmPlain, Plain, With
<1>2. \A l \in ClmmPositions \cup ClmmExits :
         /\ l.log = NoLog
         /\ l.type \in {"RaydiumClmmOpenPositionV2", "RaydiumClmmOpenPositionWithToken22Nft",
                        "RaydiumClmmIncreaseLiquidityV2", "RaydiumClmmDecreaseLiquidityV2",
                        "RaydiumClmmClosePosition"}
  BY DEF ClmmPositions, ClmmExits, ClmmPlain, Plain
<1>3. \A l \in ClmmCreate \cup ClmmSwaps :
         l.log = NoLog /\ l.type \in {"RaydiumClmmCreatePool", "RaydiumClmmSwap", "RaydiumClmmSwapV2"}
  BY DEF ClmmCreate, ClmmSwaps, ClmmPlain, Plain
<1>4. \A l \in CpmmLayouts :
         /\ l.log = NoLog
         /\ l.type \in {"RaydiumCpmmDeposit", "RaydiumCpmmWithdraw", "RaydiumCpmmInitialize",
                        "RaydiumCpmmSwapBaseInput", "RaydiumCpmmSwapBaseOutput"}
  BY DEF CpmmLayouts, CpmmDeposit, CpmmWithdraw, CpmmInitialize, CpmmSwaps, CpmmPlain, Plain, With
<1>5. \A l \in AmmLayouts : l.type \notin BonkTypes \cup PumpFunTypes \cup PumpSwapTypes
  BY <1>1 DEF BonkTypes, PumpFunTypes, PumpSwapTypes
<1>6. \A l \in ClmmLayouts : l.log = NoLog /\ l.type \notin BonkTypes \cup PumpFunTypes \cup PumpSwapTypes
  BY <1>2, <1>3 DEF BonkTypes, PumpFunTypes, PumpSwapTypes, ClmmLayouts
<1>7. \A l \in CpmmLayouts : l.type \notin BonkTypes \cup PumpFunTypes \cup PumpSwapTypes
  BY <1>4 DEF BonkTypes, PumpFunTypes, PumpSwapTypes
<1> QED
  BY <1>1, <1>4, <1>5, <1>6, <1>7

\* A type that has a log is that of one layout.
LEMMA OneType ==
    ASSUME NEW l \in AllLayouts, NEW m \in AllLayouts, l.type = m.type, m.log # NoLog
    PROVE  l = m
<1>1. BonkTypes \cap PumpFunTypes = {} /\ BonkTypes \cap PumpSwapTypes = {} /\ PumpFunTypes \cap PumpSwapTypes = {}
  BY DEF BonkTypes, PumpFunTypes, PumpSwapTypes
<1>2. m \in BonkLayouts \cup PumpFunLayouts \cup PumpSwapLayouts
  BY RaydiumTyped DEF AllLayouts
<1>3. l \in BonkLayouts \cup PumpFunLayouts \cup PumpSwapLayouts
  <2>1. m.type \in BonkTypes \cup PumpFunTypes \cup PumpSwapTypes
    BY <1>2, BonkTyped, PumpFunTyped, PumpSwapTyped
  <2> QED
    BY <2>1, RaydiumTyped DEF AllLayouts
<1> QED
  BY <1>1, <1>2, <1>3, BonkTyped, PumpFunTyped, PumpSwapTyped DEF TypedOnce

\* There are finitely many layouts.
LEMMA LayoutsFinite == IsFiniteSet(AllLayouts)
<1>0. /\ \A x : IsFiniteSet({x})
      /\ \A x, y : IsFiniteSet({x, y})
      /\ \A x, y, z : IsFiniteSet({x, y, z})
      /\ \A S, T : IsFiniteSet(S) /\ IsFiniteSet(T) => IsFiniteSet(S \cup T)
  <2>1. \A S, T : IsFiniteSet(S) /\ IsFiniteSet(T) => IsFiniteSet(S \cup T)
    BY FS_Union
  <2>2. \A x : IsFiniteSet({x})
    BY FS_Singleton
  <2>3. ASSUME NEW x, NEW y
        PROVE  IsFiniteSet({x, y})
    <3>1. {x, y} = {x} \cup {y}
      OBVIOUS
    <3>2. IsFiniteSet({x}) /\ IsFiniteSet({y})
      BY <2>2
    <3>3. IsFiniteSet({x} \cup {y})
      BY <2>1, <3>2
    <3> QED
      BY <3>1, <3>3
  <2>4. ASSUME NEW x, NEW y, NEW z
        PROVE  IsFiniteSet({x, y, z})
    <3>1. {x, y, z} = {x, y} \cup {z}
      OBVIOUS
    <3>2. IsFiniteSet({x, y}) /\ IsFiniteSet({z})
      BY <2>2, <2>3
    <3>3. IsFiniteSet({x, y} \cup {z})
      BY <2>1, <3>2
    <3> QED
      BY <3>1, <3>3
  <2> QED
    BY <2>1, <2>2, <2>3, <2>4
<1>1. IsFiniteSet(BonkLayouts)
  <2>1. IsFiniteSet(BonkBuys) /\ IsFiniteSet(BonkSells) /\ IsFiniteSet(BonkPools) /\ IsFiniteSet(BonkMigrations)
    BY <1>0, Zenon DEF BonkBuys, BonkSells, BonkPools, BonkMigrations
  <2> QED
    BY <1>0, <2>1, Zenon DEF BonkLayouts
<1>2. IsFiniteSet(PumpFunLayouts)
  <2>1. PumpFunLayouts = {PumpFunBuy, PumpFunSell, PumpFunCreate} \cup {PumpFunMigrate}
    BY DEF PumpFunLayouts
  <2> QED
    BY <1>0, <2>1
<1>3. IsFiniteSet(PumpSwapLayouts)
  <2>1. IsFiniteSet(PumpSwapTrades) /\ IsFiniteSet(PumpSwapLiquidity)
    BY <1>0, Zenon DEF PumpSwapTrades, PumpSwapLiquidity
  <2> QED
    BY <1>0, <2>1, Zenon DEF PumpSwapLayouts
<1>4. IsFiniteSet(AmmLayouts)
  <2>1. IsFiniteSet(AmmSwaps) /\ IsFiniteSet(AmmInitialize) /\ IsFiniteSet(AmmDeposit) /\ IsFiniteSet(AmmWithdraws)
    BY <1>0, Zenon DEF AmmSwaps, AmmInitialize, AmmDeposit, AmmWithdraws
  <2> QED
    BY <1>0, <2>1, Zenon DEF AmmLayouts
<1>5. IsFiniteSet(ClmmLayouts)
  <2>1. IsFiniteSet(ClmmPositions) /\ IsFiniteSet(ClmmExits) /\ IsFiniteSet(ClmmCreate) /\ IsFiniteSet(ClmmSwaps)
    BY <1>0, Zenon DEF ClmmPositions, ClmmExits, ClmmCreate, ClmmSwaps
  <2> QED
    BY <1>0, <2>1, Zenon DEF ClmmLayouts
<1>6. IsFiniteSet(CpmmLayouts)
  <2>1. IsFiniteSet(CpmmDeposit) /\ IsFiniteSet(CpmmWithdraw) /\ IsFiniteSet(CpmmInitialize) /\ IsFiniteSet(CpmmSwaps)
    BY <1>0, Zenon DEF CpmmDeposit, CpmmWithdraw, CpmmInitialize, CpmmSwaps
  <2> QED
    BY <1>0, <2>1, Zenon DEF CpmmLayouts
<1> QED
  BY <1>0, <1>1, <1>2, <1>3, <1>4, <1>5, <1>6, Zenon DEF AllLayouts

-----------------------------------------------------------------------------
(* The logs of a transaction *)

\* The elements of a finite set, as a sequence, are elements of it.
LEMMA SetToSeqIn ==
    ASSUME NEW S, IsFiniteSet(S)
    PROVE  SetToSeq(S) \in Seq(S)
<1> DEFINE n == Cardinality(S)
           All == {f \in [1..n -> S] : IsInjective(f)}
<1>1. n \in Nat /\ ExistsBijection(1..n, S)
  BY FS_CardinalityType
<1>2. SetToSeq(S) = CHOOSE f \in All : TRUE
  BY Zenon DEF SetToSeq
<1> HIDE DEF n
<1>3. PICK f \in [1..n -> S] : \A a, b \in 1..n : f[a] = f[b] => a = b
  BY <1>1, Zenon DEF ExistsBijection, Bijection, Injection, IsInjective
<1>4. f \in All
  BY <1>3 DEF IsInjective
<1>5. SetToSeq(S) \in [1..n -> S]
  BY <1>2, <1>4
<1> QED
  BY <1>1, <1>5

\* Sequences over one set are a sequence over it when put together.
LEMMA FlatIn ==
    ASSUME NEW G, NEW seqs \in Seq(Seq(G))
    PROVE  FlattenSeq(seqs) \in Seq(G)
<1> DEFINE n == Len(seqs)
           f == CHOOSE g : g = [i \in 1..Len(seqs) |-> IF i = 1 THEN seqs[i] ELSE g[i - 1] \o seqs[i]]
           T == {m \in Nat : m # 0 => f[m] \in Seq(G)}
<1>1. n \in Nat /\ \A i \in 1..n : seqs[i] \in Seq(G)
  OBVIOUS
<1>2. FlattenSeq(seqs) = IF n = 0 THEN seqs ELSE f[n]
  BY DEF FlattenSeq
<1>3. IsFlat(f, seqs, n)
  BY <1>1, FlatExists DEF IsFlat
<1>4. n = 0 => seqs \in Seq(G)
  BY EmptySeq
<1> HIDE DEF n, f
<1>5. \A i \in 1..n : f[i] = IF i = 1 THEN seqs[i] ELSE f[i - 1] \o seqs[i]
  BY <1>3 DEF IsFlat
<1>6. ASSUME NEW m \in 0 .. n - 1, m \in T
      PROVE  m + 1 \in T
  <2>1. m + 1 \in 1..n /\ m \in Nat
    BY <1>1
  <2>2. CASE m = 0
    <3>1. f[m + 1] = seqs[m + 1]
      BY <1>5, <2>1, <2>2
    <3> QED
      BY <1>1, <2>1, <3>1
  <2>3. CASE m # 0
    <3>1. (m + 1) - 1 = m /\ m + 1 # 1
      BY <2>1, <2>3
    <3>2. f[m + 1] = f[m] \o seqs[m + 1]
      BY <1>5, <2>1, <3>1
    <3>3. f[m] \in Seq(G) /\ seqs[m + 1] \in Seq(G)
      BY <1>1, <1>6, <2>1, <2>3
    <3>4. f[m + 1] \in Seq(G)
      BY <3>2, <3>3, ConcatProperties
    <3> QED
      BY <2>1, <3>4
  <2> QED
    BY <2>2, <2>3
<1>7. 0 \in T
  OBVIOUS
<1>8. n \in T
  <2> HIDE DEF T
  <2>1. 0..n \subseteq T
    BY <1>1, <1>6, <1>7, AllUpTo
  <2> QED
    BY <1>1, <2>1
<1> QED
  BY <1>2, <1>4, <1>8

\* What a log is to the layouts that await it.
Logged(table, tx) ==
    {g \in UNION {{LogEvent(l, ItemAt(tx, index), index) : l \in table} : index \in LogsOf(tx)} :
        \E l \in table : /\ l.log # NoLog /\ LogTable[l.log].disc = g.item.disc
                         /\ Decodes(l.log, g.item)
                         /\ g.item.kind = "log" /\ g.index \in LogsOf(tx)
                         /\ g = LogEvent(l, ItemAt(tx, g.index), g.index)}

\* Every log comes from a layout that awaits it.
LEMMA ToldIs ==
    ASSUME NEW table \in SUBSET AllLayouts, NEW tx, Shaped(tx), ~tx.failed
    PROVE  ToldEvents(table, tx) \in Seq(Logged(table, tx))
<1> DEFINE G == Logged(table, tx)
           items(i) == tx.inner[i]
           each(i) == [j \in DOMAIN items(i) |-> LogEvents(table, items(i)[j], <<i, j>>)]
           Of(i) == FlattenSeq(each(i))
           all == [i \in DOMAIN tx.outer |-> Of(i)]
<1>1. /\ Len(tx.outer) \in Nat /\ DOMAIN tx.outer = 1..Len(tx.outer)
      /\ DOMAIN tx.inner = DOMAIN tx.outer
  BY PlacesOf
<1>2. ToldEvents(table, tx) = FlattenSeq(all)
  BY Zenon DEF ToldEvents, Inner
<1>3. ASSUME NEW i \in DOMAIN tx.outer, NEW j \in DOMAIN items(i)
      PROVE  LogEvents(table, items(i)[j], <<i, j>>) \in Seq(G)
  <2> DEFINE item == items(i)[j]
             index == <<i, j>>
             awaiting == {l \in table :
                             /\ item.kind = "log" /\ l.log # NoLog
                             /\ LogTable[l.log].disc = item.disc /\ Decodes(l.log, item)
                             /\ l.log = "bonk_trade" => item.f.side = l.side}
             made == {LogEvent(l, item, index) : l \in awaiting}
  <2>1. item = ItemAt(tx, index) /\ index \in Indexes(tx)
    <3>1. ItemAt(tx, index) = item
      BY PlacesOf
    <3>2. index \in Indexes(tx)
      BY <1>1 DEF Indexes
    <3> QED
      BY <3>1, <3>2
  <2>2. LogEvents(table, item, index) = SetToSeq(made)
    BY Zenon DEF LogEvents
  <2>3. IsFiniteSet(awaiting)
    BY LayoutsFinite, FS_Subset
  <2>4. IsFiniteSet(made)
    <3> DEFINE f == [l \in awaiting |-> LogEvent(l, item, index)]
    <3>1. f \in Surjection(awaiting, made)
      BY DEF Surjection
    <3> HIDE DEF awaiting, made, f
    <3> QED
      BY <2>3, <3>1, FS_Surjection
  <2>5. SetToSeq(made) \in Seq(made)
    <3> HIDE DEF made
    <3> QED
      BY <2>4, SetToSeqIn
  <2>6. ASSUME NEW l \in awaiting
        PROVE  LogEvent(l, item, index) \in G
    <3> DEFINE g == LogEvent(l, item, index)
    <3>1. g.item = item /\ g.index = index
      BY DEF LogEvent
    <3>2. index \in LogsOf(tx)
      BY <2>1 DEF LogsOf
    <3>3. /\ l \in table /\ l.log # NoLog /\ LogTable[l.log].disc = item.disc
          /\ Decodes(l.log, item) /\ item.kind = "log"
      OBVIOUS
    <3>4. g = LogEvent(l, ItemAt(tx, index), index)
      BY <2>1
    <3> HIDE DEF g, item, index
    <3> QED
      BY <3>1, <3>2, <3>3, <3>4 DEF Logged, g
  <2>7. made \subseteq G
    BY <2>6
  <2> HIDE DEF made, item, index, G
  <2>8. SetToSeq(made) \in Seq(G)
    BY <2>5, <2>7, SeqMonotonic
  <2> QED
    BY <2>2, <2>8 DEF item, index
<1>4. ASSUME NEW i \in DOMAIN tx.outer
      PROVE  Of(i) \in Seq(G)
  <2>1. Len(items(i)) \in Nat /\ DOMAIN items(i) = 1..Len(items(i))
    BY <1>1, PlacesOf
  <2>2. \A j \in DOMAIN items(i) : each(i)[j] \in Seq(G)
    BY <1>3
  <2>3. DOMAIN each(i) = DOMAIN items(i)
    OBVIOUS
  <2> DEFINE s == each(i)
             n == Len(items(i))
  <2>4. n \in Nat /\ s \in [1..n -> Seq(G)]
    BY <2>1, <2>2, <2>3
  <2> HIDE DEF s, n, G
  <2>5. s \in Seq(Seq(G))
    BY <2>4
  <2>6. FlattenSeq(s) \in Seq(G)
    BY <2>5, FlatIn
  <2> QED
    BY <2>6 DEF s
<1>5. all \in Seq(Seq(G))
  <2> HIDE DEF G, Of
  <2> DEFINE n == Len(tx.outer)
  <2>1. n \in Nat /\ all \in [1..n -> Seq(G)]
    BY <1>1, <1>4
  <2> HIDE DEF n, all
  <2> QED
    BY <2>1
<1> HIDE DEF all, G
<1> QED
  BY <1>2, <1>5, FlatIn DEF G

-----------------------------------------------------------------------------
(* What a merge leaves of the mints *)

\* The accounts of a layout that is no AMM swap are those of the instruction.
Held(item, place) == IF place \in DOMAIN item.acc THEN item.acc[place] ELSE "other"

LEMMA AccountIs ==
    ASSUME NEW l \in PumpFunLayouts \cup PumpSwapLayouts, NEW item, NEW place
    PROVE  Account(l, item, place) = Held(item, place)
<1>1. l.program # "raydiumamm"
  BY PumpFunSame, PumpSwapSame
<1>2. l \notin AmmSwaps
  BY <1>1, AmmSame DEF AmmLayouts
<1> QED
  BY <1>2 DEF Account, Held

\* An id begins with the accounts that the layout names.
LEMMA KeyIs ==
    ASSUME NEW l, NEW item, NEW n \in Nat, Len(l.id) = n, NEW i \in 1..n
    PROVE  Key(l, item)[i] = Held(item, l.id[i])
<1> DEFINE s == [k \in 1..n |-> IF l.id[k] \in DOMAIN item.acc THEN item.acc[l.id[k]] ELSE "other"]
           t == IF l.arg THEN <<item.arg>> ELSE <<>>
           u == IF l.log = "pumpfun_trade" THEN <<l.side>> ELSE <<>>
<1>1. Key(l, item) = s \o t \o u
  BY DEF Key
<1>2. IsSeq(s) /\ Len(s) = n /\ s[i] = Held(item, l.id[i])
  <2>1. s \in [1..n -> Range(s)] /\ s[i] = Held(item, l.id[i])
    BY DEF Held, Range
  <2> HIDE DEF s
  <2> QED
    BY <2>1, ListIsSeq
<1>3. IsSeq(t) /\ IsSeq(u)
  <2>1. \A x : <<x>> \in [1..1 -> {x}] /\ <<>> \in [1..0 -> {x}]
    OBVIOUS
  <2>2. \A x : IsSeq(<<x>>) /\ IsSeq(<<>>)
    BY <2>1, ListIsSeq
  <2> QED
    BY <2>2
<1> HIDE DEF s, t, u
<1>4. IsSeq(s \o t) /\ i \in 1..Len(s \o t) /\ (s \o t)[i] = s[i]
  <2>1. IsSeq(s \o t) /\ (s \o t)[i] = s[i] /\ i \in DOMAIN (s \o t)
    BY <1>2, <1>3, ConcatPlaces
  <2> QED
    BY <2>1 DEF IsSeq
<1>5. ((s \o t) \o u)[i] = (s \o t)[i]
  BY <1>3, <1>4, ConcatPlaces
<1> QED
  BY <1>1, <1>2, <1>4, <1>5

\* Where the keys of these logs and ids hold the mint, or the pool.
LEMMA KeyPlaces ==
    /\ \A l \in PumpFunLayouts :
          \E i \in {1, 2} : /\ Len(l.id) \in Nat /\ i \in 1..Len(l.id) /\ l.id[i] = l.at["mint"]
                            /\ Len(LogKeys[l.log]) \in Nat /\ i \in 1..Len(LogKeys[l.log])
                            /\ LogKeys[l.log][i] = "mint"
    /\ PumpSwapCreate.log = "pumpswap_create"
    /\ Len(PumpSwapCreate.id) = 2 /\ PumpSwapCreate.id[1] = PumpSwapCreate.at["pool"]
    /\ Len(LogKeys["pumpswap_create"]) = 3 /\ LogKeys["pumpswap_create"][1] = "pool"
    /\ MintFields \cap DOMAIN PumpSwapCreate.at = {"base_mint", "quote_mint"}
<1>1. /\ LogKeys["pumpfun_trade"] = <<"mint", "user", "side">> /\ LogKeys["pumpfun_create"] = <<"mint">>
      /\ LogKeys["pumpfun_migrate"] = <<"user", "mint">>
      /\ LogKeys["pumpswap_create"] = <<"pool", "creator", "amount">>
  BY DEF LogKeys, LogTable, BonkKeys, PumpFunKeys, PumpSwapKeys
<1>2. /\ PumpFunBuy.log = "pumpfun_trade" /\ PumpFunBuy.id = <<2, 6>> /\ PumpFunBuy.at["mint"] = 2
      /\ PumpFunSell.log = "pumpfun_trade" /\ PumpFunSell.id = <<2, 6>> /\ PumpFunSell.at["mint"] = 2
  BY DEF PumpFunBuy, PumpFunSell, Plain, With
<1>3. /\ PumpFunCreate.log = "pumpfun_create" /\ PumpFunCreate.id = <<0>> /\ PumpFunCreate.at["mint"] = 0
      /\ PumpFunMigrate.log = "pumpfun_migrate" /\ PumpFunMigrate.id = <<5, 2>> /\ PumpFunMigrate.at["mint"] = 2
  BY DEF PumpFunCreate, PumpFunMigrate, Plain, With
<1>4. /\ PumpSwapCreate.log = "pumpswap_create" /\ PumpSwapCreate.id = <<0, 2>>
      /\ PumpSwapCreate.at["pool"] = 0
      /\ DOMAIN PumpSwapCreate.at = {"pool", "creator", "base_mint", "quote_mint", "base_vault", "quote_vault"}
  BY DEF PumpSwapCreate, Plain, With
<1>5. ASSUME NEW l \in PumpFunLayouts
      PROVE  \E i \in {1, 2} : /\ Len(l.id) \in Nat /\ i \in 1..Len(l.id) /\ l.id[i] = l.at["mint"]
                               /\ Len(LogKeys[l.log]) \in Nat /\ i \in 1..Len(LogKeys[l.log])
                               /\ LogKeys[l.log][i] = "mint"
  <2>1. CASE l \in {PumpFunBuy, PumpFunSell}
    BY <1>1, <1>2, <2>1
  <2>2. CASE l = PumpFunCreate
    <3> DEFINE id == l.id
               names == LogKeys[l.log]
    <3>1. id = <<0>> /\ names = <<"mint">> /\ l.at["mint"] = 0
      BY <1>1, <1>3, <2>2
    <3> HIDE DEF id, names
    <3>2. Len(id) = 1 /\ id[1] = 0 /\ Len(names) = 1 /\ names[1] = "mint"
      BY <3>1
    <3>3. 1 \in Nat /\ 1 \in 1..1
      OBVIOUS
    <3>4. Len(id) \in Nat /\ 1 \in 1..Len(id) /\ Len(names) \in Nat /\ 1 \in 1..Len(names)
      BY <3>2, <3>3
    <3> QED
      BY <3>1, <3>2, <3>4 DEF id, names
  <2>3. CASE l = PumpFunMigrate
    BY <1>1, <1>3, <2>3
  <2> QED
    BY <2>1, <2>2, <2>3 DEF PumpFunLayouts
<1>6. Len(PumpSwapCreate.id) = 2 /\ PumpSwapCreate.id[1] = PumpSwapCreate.at["pool"]
  BY <1>4
<1>7. Len(LogKeys["pumpswap_create"]) = 3 /\ LogKeys["pumpswap_create"][1] = "pool"
  BY <1>1
<1>8. MintFields \cap DOMAIN PumpSwapCreate.at = {"base_mint", "quote_mint"}
  BY <1>4 DEF MintFields
<1> QED
  BY <1>4, <1>5, <1>6, <1>7, <1>8

\* The log that an event is merged with names the same mints.
LEMMA MintStays ==
    ASSUME NEW table \in SUBSET AllLayouts, NEW tx, Shaped(tx), ~tx.failed, PoolsKnown(tx),
           NEW c \in Indexes(tx), NEW item, item = ItemAt(tx, c),
           NEW l \in Matching(AllLayouts, item), NEW e, MadeFrom(e, l, item),
           NEW f \in MintFields \cap DOMAIN l.at
    PROVE  MergeLogs(e, ToldEvents(table, tx)).at[f] = Account(l, item, l.at[f])
<1> DEFINE logs == ToldEvents(table, tx)
           own == {k \in DOMAIN logs :
                      logs[k].type = e.type /\ logs[k].key = e.key /\ Behind(logs[k], e)}
           g == logs[Min(own)]
           named == Account(l, item, l.at[f])
<1>0. /\ l \in AllLayouts /\ item.kind = "call" /\ l.program = item.program /\ l.disc = item.disc
      /\ "at" \in DOMAIN e /\ e.type = l.type /\ e.key = Key(l, item) /\ e.at = Addresses(l, item)
  BY DEF Matching, MadeFrom, Filled
<1>1. f \in DOMAIN e.at /\ e.at[f] = named
  BY <1>0 DEF Addresses
<1>2. logs \in Seq(Logged(table, tx))
  BY ToldIs
<1>3. MergeLogs(e, logs).at[f] = IF own # {} /\ f \in g.copies THEN g.item.f[f] ELSE e.at[f]
  <2> DEFINE r == g.item.f
             at == [a \in DOMAIN e.at |-> IF a \in g.copies THEN r[a] ELSE e.at[a]]
  <2>1. \/ own = {} /\ MergeLogs(e, logs) = e
        \/ own # {} /\ \E p, q : MergeLogs(e, logs) = [e EXCEPT !.at = at, !.paid = p, !.got = q]
    BY DEF MergeLogs
  <2>2. at[f] = IF f \in g.copies THEN r[f] ELSE e.at[f]
    BY <1>1
  <2> DEFINE merged == MergeLogs(e, logs)
  <2> HIDE DEF at, own, logs, g
  <2>3. \A p, q : [e EXCEPT !.at = at, !.paid = p, !.got = q].at = at
    BY <1>0
  <2>4. own = {} => merged = e
    BY <2>1
  <2>5. own # {} => merged.at = at
    BY <2>1, <2>3
  <2> HIDE DEF merged
  <2>6. merged.at[f] = IF own # {} /\ f \in g.copies THEN r[f] ELSE e.at[f]
    BY <2>2, <2>4, <2>5
  <2> QED
    BY <2>6 DEF merged, g
<1>4. ASSUME own # {}, f \in g.copies
      PROVE  g.item.f[f] = named
  <2>1. Min(own) \in own
    <3>1. own \subseteq Nat
      BY <1>2
    <3> HIDE DEF own
    <3>2. \E x \in own : \A y \in own : x <= y
      BY <1>4, <3>1, LeastExists
    <3> QED
      BY <3>2 DEF Min
  <2>2. g \in Logged(table, tx) /\ g.type = l.type /\ g.key = Key(l, item)
    BY <1>0, <1>2, <2>1
  <2> HIDE DEF g, own, logs
  <2>3. PICK m \in table :
           /\ m.log # NoLog /\ LogTable[m.log].disc = g.item.disc
           /\ g.item.kind = "log" /\ g.index \in LogsOf(tx)
           /\ g = LogEvent(m, ItemAt(tx, g.index), g.index)
    BY <2>2 DEF Logged
  <2> DEFINE names == LogKeys[m.log]
             log == ItemAt(tx, g.index)
  <2>4. /\ g.type = m.type /\ g.item = log /\ g.copies = LogTable[m.log].copies
        /\ g.key = [i \in 1..Len(names) |-> log.f[names[i]]]
    BY <2>3 DEF LogEvent
  <2>5. m = l
    BY <1>0, <2>2, <2>3, <2>4, OneType
  <2> HIDE DEF log
  <2>6. l \in PumpFunLayouts \/ l = PumpSwapCreate
    <3>1. ~Mintless(l)
      BY <1>4, <2>3, <2>4, <2>5 DEF Mintless
    <3> QED
      BY <2>3, <2>5, <3>1, BonkTyped, PumpSwapTyped, RaydiumTyped, <1>0 DEF AllLayouts
  <2>7. CASE l \in PumpFunLayouts
    <3>1. f = "mint"
      BY <2>7, PumpFunTyped
    <3>2. PICK i \in {1, 2} :
             /\ Len(l.id) \in Nat /\ i \in 1..Len(l.id) /\ l.id[i] = l.at["mint"]
             /\ Len(names) \in Nat /\ i \in 1..Len(names) /\ names[i] = "mint"
      BY <2>5, <2>7, KeyPlaces
    <3>3. g.key[i] = log.f["mint"]
      BY <2>4, <3>2
    <3>4. Key(l, item)[i] = Held(item, l.at["mint"])
      BY <3>2, KeyIs
    <3>5. named = Held(item, l.at["mint"])
      BY <2>7, <3>1, AccountIs
    <3> QED
      BY <2>2, <2>4, <3>1, <3>3, <3>4, <3>5
  <2>8. CASE l = PumpSwapCreate
    <3>1. f \in {"base_mint", "quote_mint"} /\ l.log = "pumpswap_create"
      BY <2>8, KeyPlaces
    <3>2. l \in PumpSwapLayouts
      BY <2>8 DEF PumpSwapLayouts
    <3>3. log.f.pool = Account(l, item, l.at["pool"])
      <4>1. g.key[1] = log.f["pool"]
        BY <2>4, <2>5, <2>8, KeyPlaces
      <4>2. Key(l, item)[1] = Held(item, l.at["pool"])
        <5>1. Len(l.id) = 2 /\ l.id[1] = l.at["pool"]
          BY <2>8, KeyPlaces
        <5>2. 2 \in Nat /\ 1 \in 1..2
          OBVIOUS
        <5> QED
          BY <5>1, <5>2, KeyIs
      <4>3. Account(l, item, l.at["pool"]) = Held(item, l.at["pool"])
        BY <3>2, AccountIs
      <4> QED
        BY <2>2, <4>1, <4>2, <4>3
    <3>4. log.disc = PumpSwapCreateLog.disc
      <4>1. LogTable["pumpswap_create"] = PumpSwapCreateLog
        BY DEF LogTable
      <4> QED
        BY <2>3, <2>4, <2>5, <3>1, <4>1
    <3>5. c \in CallsOf(tx) /\ PumpSwapCreate \in Matching(AllLayouts, item)
      BY <1>0, <2>8 DEF CallsOf, Matching
    <3>6. \A a \in {"base_mint", "quote_mint"} : log.f[a] = Account(PumpSwapCreate, item, PumpSwapCreate.at[a])
      BY <2>3, <2>8, <3>3, <3>4, <3>5 DEF PoolsKnown, log
    <3> QED
      BY <2>4, <2>8, <3>1, <3>6
  <2> QED
    BY <2>6, <2>7, <2>8
<1> QED
  BY <1>1, <1>3, <1>4

-----------------------------------------------------------------------------
(* The rows, updates and close signals of an event *)

\* The mints that the callback looks at, by the kind of event.
RouteMints ==
    [BonkPoolCreateEvent |-> {"base_mint", "quote_mint"}, BonkTradeEvent |-> {"base_mint"},
     PumpFunCreateTokenEvent |-> {"mint"}, PumpFunTradeEvent |-> {"mint"},
     PumpSwapCreatePoolEvent |-> {"base_mint", "quote_mint"}, PumpSwapBuyEvent |-> {"quote_mint"},
     PumpSwapSellEvent |-> {"quote_mint"}, PumpSwapWithdrawEvent |-> {"quote_mint"},
     RaydiumAmmV4Initialize2Event |-> {"coin_mint", "pc_mint"},
     RaydiumClmmCreatePoolEvent |-> {"token_mint0", "token_mint1"},
     RaydiumCpmmInitializeEvent |-> {"token0_mint", "token1_mint"},
     RaydiumCpmmSwapEvent |-> {"input_mint"}]

\* A layout whose event the callback looks at has them.
HasMints(l) ==
    /\ l.struct \in DOMAIN RouteMints => RouteMints[l.struct] \subseteq MintFields \cap DOMAIN l.at
    /\ l.struct = "PumpFunCreateTokenEvent" => l.program = "pumpfun"
    /\ l.struct \notin {"AccountRaydiumAmmV4AmmInfo", "AccountRaydiumClmmPoolState"}

LEMMA LaunchpadMints == \A l \in BonkLayouts \cup PumpFunLayouts \cup PumpSwapLayouts : HasMints(l)
<1>1. \A l \in BonkBuys \cup BonkSells : l.struct = "BonkTradeEvent" /\ "base_mint" \in DOMAIN l.at
  BY DEF BonkBuys, BonkSells, BonkTrade, Plain, With
<1>2. \A l \in BonkPools :
         l.struct = "BonkPoolCreateEvent" /\ {"base_mint", "quote_mint"} \subseteq DOMAIN l.at
  BY DEF BonkPools, Plain, With
<1>3. \A l \in BonkMigrations : l.struct \in {"BonkMigrateToAmmEvent", "BonkMigrateToCpswapEvent"}
  BY DEF BonkMigrations, Plain, With
<1>4. /\ PumpFunBuy.struct = "PumpFunTradeEvent" /\ PumpFunSell.struct = "PumpFunTradeEvent"
      /\ PumpFunCreate.struct = "PumpFunCreateTokenEvent" /\ PumpFunMigrate.struct = "PumpFunMigrateEvent"
  BY DEF PumpFunBuy, PumpFunSell, PumpFunCreate, PumpFunMigrate, Plain, With
<1>5. \A l \in PumpFunLayouts :
         l.program = "pumpfun" /\ "mint" \in DOMAIN l.at
            /\ l.struct \in {"PumpFunTradeEvent", "PumpFunCreateTokenEvent", "PumpFunMigrateEvent"}
  BY <1>4, PumpFunSame, PumpFunTyped DEF PumpFunLayouts
<1>6. \A l \in PumpSwapTrades :
         l.struct \in {"PumpSwapBuyEvent", "PumpSwapSellEvent"} /\ "quote_mint" \in DOMAIN l.at
  BY DEF PumpSwapTrades, Plain, With
<1>7. PumpSwapCreate.struct = "PumpSwapCreatePoolEvent"
  BY DEF PumpSwapCreate, Plain, With
<1>8. \A l \in PumpSwapLiquidity :
         l.struct \in {"PumpSwapDepositEvent", "PumpSwapWithdrawEvent"} /\ "quote_mint" \in DOMAIN l.at
  BY DEF PumpSwapLiquidity, Plain, With
<1>9. \A l \in BonkLayouts : HasMints(l)
  BY <1>1, <1>2, <1>3 DEF BonkLayouts, HasMints, RouteMints, MintFields
<1>10. \A l \in PumpFunLayouts : HasMints(l)
  BY <1>5 DEF HasMints, RouteMints, MintFields
<1>11. \A l \in PumpSwapTrades \cup PumpSwapLiquidity : HasMints(l)
  BY <1>6, <1>8 DEF HasMints, RouteMints, MintFields
<1>12. HasMints(PumpSwapCreate)
  <2>1. {"base_mint", "quote_mint"} \subseteq MintFields \cap DOMAIN PumpSwapCreate.at
    BY KeyPlaces
  <2> QED
    BY <1>7, <2>1 DEF HasMints, RouteMints
<1> QED
  BY <1>9, <1>10, <1>11, <1>12 DEF PumpSwapLayouts

LEMMA RaydiumMints == \A l \in AmmLayouts \cup ClmmLayouts \cup CpmmLayouts : HasMints(l)
<1>1. \A l \in AmmSwaps \cup AmmDeposit \cup AmmWithdraws :
         l.struct \in {"RaydiumAmmV4SwapEvent", "RaydiumAmmV4DepositEvent", "RaydiumAmmV4WithdrawEvent",
                       "RaydiumAmmV4WithdrawPnlEvent"}
  BY DEF AmmSwaps, AmmDeposit, AmmWithdraws, AmmPlain, Plain, With
<1>2. \A l \in AmmInitialize :
         l.struct = "RaydiumAmmV4Initialize2Event" /\ {"coin_mint", "pc_mint"} \subseteq DOMAIN l.at
  BY DEF AmmInitialize, AmmPlain, Plain
<1>3. \A l \in ClmmPositions \cup ClmmExits :
         l.struct \in {"RaydiumClmmOpenPositionV2Event", "RaydiumClmmOpenPositionWithToken22NftEvent",
                       "RaydiumClmmIncreaseLiquidityV2Event", "RaydiumClmmDecreaseLiquidityV2Event",
                       "RaydiumClmmClosePositionEvent"}
  BY DEF ClmmPositions, ClmmExits, ClmmPlain, Plain
<1>4. \A l \in ClmmSwaps : l.struct \in {"RaydiumClmmSwapEvent", "RaydiumClmmSwapV2Event"}
  BY DEF ClmmSwaps, ClmmPlain, Plain
<1>5. \A l \in ClmmCreate :
         l.struct = "RaydiumClmmCreatePoolEvent" /\ {"token_mint0", "token_mint1"} \subseteq DOMAIN l.at
  BY DEF ClmmCreate, ClmmPlain, Plain
<1>6. \A l \in CpmmDeposit \cup CpmmWithdraw : l.struct \in {"RaydiumCpmmDepositEvent", "RaydiumCpmmWithdrawEvent"}
  BY DEF CpmmDeposit, CpmmWithdraw, CpmmPlain, Plain
<1>7. \A l \in CpmmInitialize :
         l.struct = "RaydiumCpmmInitializeEvent" /\ {"token0_mint", "token1_mint"} \subseteq DOMAIN l.at
  BY DEF CpmmInitialize, CpmmPlain, Plain
<1>8. \A l \in CpmmSwaps : l.struct = "RaydiumCpmmSwapEvent" /\ "input_mint" \in DOMAIN l.at
  BY DEF CpmmSwaps, CpmmPlain, Plain, With
<1>9. \A l \in AmmLayouts : HasMints(l)
  BY <1>1, <1>2 DEF AmmLayouts, HasMints, RouteMints, MintFields
<1>10. \A l \in ClmmLayouts : HasMints(l)
  BY <1>3, <1>4, <1>5 DEF ClmmLayouts, HasMints, RouteMints, MintFields
<1>11. \A l \in CpmmLayouts : HasMints(l)
  BY <1>6, <1>7, <1>8 DEF CpmmLayouts, HasMints, RouteMints, MintFields
<1> QED
  BY <1>9, <1>10, <1>11

\* What the callback does with an event concerns one of its mints.
LEMMA RouteKeyed ==
    ASSUME NEW l \in AllLayouts, NEW e, e.struct = l.struct, NEW mints,
           \A f \in MintFields \cap DOMAIN l.at :
              e.at[f] \in mints /\ (l.program = "pumpfun" => e.at[f] # Wsol),
           \A f, g \in MintFields \cap DOMAIN l.at : f # g => e.at[f] # e.at[g],
           NEW r \in Route(e)
    PROVE  r.mint \in IF r.op = "insert" THEN mints \ {Wsol} ELSE mints
<1> DEFINE Right(f) == e.at[f] \in mints
           Pair(f, g) == e.at[f] \in mints /\ e.at[g] \in mints /\ e.at[f] # e.at[g]
<1>1. HasMints(l)
  BY LaunchpadMints, RaydiumMints DEF AllLayouts
<1>2. /\ e.struct = "BonkPoolCreateEvent" => Pair("base_mint", "quote_mint")
      /\ e.struct = "PumpSwapCreatePoolEvent" => Pair("base_mint", "quote_mint")
      /\ e.struct = "RaydiumAmmV4Initialize2Event" => Pair("coin_mint", "pc_mint")
      /\ e.struct = "RaydiumClmmCreatePoolEvent" => Pair("token_mint0", "token_mint1")
      /\ e.struct = "RaydiumCpmmInitializeEvent" => Pair("token0_mint", "token1_mint")
      /\ e.struct = "PumpFunCreateTokenEvent" => Right("mint") /\ e.at["mint"] # Wsol
  BY <1>1 DEF HasMints, RouteMints
<1>3. /\ e.struct = "BonkTradeEvent" => Right("base_mint")
      /\ e.struct = "PumpFunTradeEvent" => Right("mint")
      /\ e.struct \in {"PumpSwapBuyEvent", "PumpSwapSellEvent", "PumpSwapWithdrawEvent"} => Right("quote_mint")
      /\ e.struct = "RaydiumCpmmSwapEvent" => Right("input_mint")
      /\ e.struct \notin {"AccountRaydiumAmmV4AmmInfo", "AccountRaydiumClmmPoolState"}
  BY <1>1 DEF HasMints, RouteMints
<1>4. CASE r \in LaunchRows(e)
  <2>1. r.op = "insert" /\ r.mint \in mints \ {Wsol}
    BY <1>2, <1>4 DEF LaunchRows, Row
  <2> QED
    BY <2>1
<1>5. CASE r \in RaydiumRows(e)
  <2>1. r.op = "insert" /\ r.mint \in mints \ {Wsol}
    BY <1>2, <1>5 DEF RaydiumRows, Row
  <2> QED
    BY <2>1
<1>6. CASE r \in Changes(e)
  <2>1. r.op = "update" /\ r.mint \in mints
    BY <1>3, <1>6 DEF Changes
  <2> QED
    BY <2>1
<1>7. CASE e.struct = "PumpSwapWithdrawEvent" /\ r = [op |-> "close", program |-> e.program, mint |-> e.at.quote_mint]
  BY <1>3, <1>7
<1> QED
  BY <1>4, <1>5, <1>6, <1>7 DEF Route, Launched

\* What an event does to the tables concerns the token it is about: a row is opened for
\* the token, never for WSOL; an update or a close signal looks for one of the two
\* mints of the pool (main.rs:201-393, storage.rs:1493-1840).
THEOREM RowsKeyedHolds == Spec => []RowsKeyed
<1>1. ASSUME StreamInv, NEW n \in HeardCalls, NEW r \in Route(HeardEvent(n))
      PROVE  r.mint \in IF r.op = "insert" THEN Truth(n).mints \ {Wsol} ELSE Truth(n).mints
  <2> DEFINE i == heard[n][1]
             k == heard[n][2]
             tx == Chained(i).tx
             table == Table[setup.filter]
             es == ParseTransaction(table, tx)
  <2>1. n \in DOMAIN heard /\ Chained(i).kind = "tx" /\ i \in 1..pos /\ k \in Whole(i)
    <3>1. n \in DOMAIN heard /\ Chained(heard[n][1]).kind = "tx"
      BY DEF HeardCalls
    <3> QED
      BY <1>1, <3>1, HeardIs
  <2>2. /\ table \in SUBSET AllLayouts
        /\ Shaped(tx) /\ ~tx.failed /\ PoolsKnown(tx)
        /\ \A index \in Indexes(tx) : ItemKnown(ItemAt(tx, index))
        /\ Whole(i) = DOMAIN es /\ feed[i].events = es
    <3>1. tx = Chained(i).tx /\ table = Table[setup.filter] /\ es = ParseTransaction(table, tx)
      OBVIOUS
    <3> HIDE DEF i, k, tx, table, es
    <3> QED
      BY <1>1, <2>1, <3>1, MessageIs
  <2>3. HeardEvent(n) = es[k] /\ k \in DOMAIN es
    BY <2>1, <2>2 DEF HeardEvent
  <2>4. Truth(n) = ItemAt(tx, es[k].index).truth
    BY <2>3 DEF Truth
  <2> HIDE DEF i, k, tx, table, es
  <2> DEFINE item == ItemAt(tx, es[k].index)
             c == es[k].index
             mints == item.truth.mints
  <2>5. /\ c \in Indexes(tx) /\ item.kind = "call"
        /\ \E l \in AllLayouts : \E e :
              /\ l \in Matching(AllLayouts, item) /\ ~Short(l, item)
              /\ es[k].struct = l.struct /\ MadeFrom(e, l, item)
              /\ es[k].at = MergeLogs(e, ToldEvents(table, tx)).at
    <3>1. Matching(table, item) \subseteq Matching(AllLayouts, item)
      BY <2>2 DEF Matching
    <3>2. item = ItemAt(tx, es[k].index) /\ es = ParseTransaction(table, tx)
      BY DEF es
    <3>3. /\ c \in Indexes(tx) /\ item.kind = "call"
          /\ \E l \in AllLayouts : \E e :
                /\ l \in Matching(table, item) /\ ~Short(l, item)
                /\ es[k].struct = l.struct /\ MadeFrom(e, l, item)
                /\ SameFilled(MergeLogs(e, ToldEvents(table, tx)), es[k])
      <4> HIDE DEF item
      <4> QED
        BY <2>2, <2>3, <3>2, EventIs
    <3>4. \A e : SameFilled(e, es[k]) => es[k].at = e.at
      BY DEF SameFilled, Filled
    <3> HIDE DEF item
    <3> QED
      BY <3>1, <3>3, <3>4
  <2>6. PICK l \in AllLayouts : \E e :
           /\ l \in Matching(AllLayouts, item) /\ ~Short(l, item)
           /\ es[k].struct = l.struct /\ MadeFrom(e, l, item)
           /\ es[k].at = MergeLogs(e, ToldEvents(table, tx)).at
    BY <2>5
  <2>7. PICK e :
           /\ l \in Matching(AllLayouts, item) /\ ~Short(l, item)
           /\ es[k].struct = l.struct /\ MadeFrom(e, l, item)
           /\ es[k].at = MergeLogs(e, ToldEvents(table, tx)).at
    BY <2>6
  <2>8. MintsKnown(item)
    BY <2>2, <2>5 DEF ItemKnown
  <2>9. ASSUME NEW f \in MintFields \cap DOMAIN l.at
        PROVE  es[k].at[f] = Account(l, item, l.at[f])
    <3>1. item = ItemAt(tx, c) /\ c \in Indexes(tx)
      BY <2>5
    <3>2. MadeFrom(e, l, item) /\ l \in Matching(AllLayouts, item)
      BY <2>7
    <3> HIDE DEF item, c
    <3>3. MergeLogs(e, ToldEvents(table, tx)).at[f] = Account(l, item, l.at[f])
      BY <2>2, <3>1, <3>2, MintStays
    <3> QED
      BY <2>7, <3>3
  <2>10. l \in Taking(item)
    BY <2>7 DEF Taking
  <2>11. /\ \A f \in MintFields \cap DOMAIN l.at :
               es[k].at[f] \in mints /\ (l.program = "pumpfun" => es[k].at[f] # Wsol)
         /\ \A f, g \in MintFields \cap DOMAIN l.at : f # g => es[k].at[f] # es[k].at[g]
    BY <2>8, <2>9, <2>10 DEF MintsKnown
  <2>12. Truth(n).mints = mints /\ r \in Route(es[k]) /\ es[k].struct = l.struct
    BY <2>3, <2>4, <2>7
  <2> HIDE DEF mints, item
  <2> QED
    BY <2>11, <2>12, RouteKeyed
<1>2. StreamInv => RowsKeyed
  BY <1>1 DEF RowsKeyed
<1> QED
  BY <1>2, StreamInvariant, PTL

-----------------------------------------------------------------------------
(* The order of the logs *)

\* What is put together from the first m sequences: all their elements, in their order.
Joined(s, seqs, m) ==
    /\ IsSeq(s)
    /\ \A i \in 1..m : \A a \in DOMAIN seqs[i] : \E n \in DOMAIN s : s[n] = seqs[i][a]
    /\ \A x, y \in DOMAIN s : x <= y =>
          \E i, j \in 1..m : \E a \in DOMAIN seqs[i], b \in DOMAIN seqs[j] :
             s[x] = seqs[i][a] /\ s[y] = seqs[j][b] /\ i <= j /\ (i = j => a <= b)

\* One sequence more goes behind the others.
LEMMA JoinOne ==
    ASSUME NEW seqs, NEW m \in Nat, NEW s, Joined(s, seqs, m), IsSeq(seqs[m + 1])
    PROVE  Joined(s \o seqs[m + 1], seqs, m + 1)
<1> DEFINE t == seqs[m + 1]
           u == s \o t
           L == Len(s)
<1>1. /\ IsSeq(u) /\ L \in Nat
      /\ \A n \in DOMAIN s : n \in DOMAIN u /\ u[n] = s[n] /\ n \in 1..L
      /\ \A n \in DOMAIN t : L + n \in DOMAIN u /\ u[L + n] = t[n] /\ n \in Nat \ {0}
      /\ \A n \in DOMAIN u : n \in DOMAIN s \/ (n - L \in DOMAIN t /\ n = L + (n - L))
  <2> DEFINE M == Len(t)
  <2>1. IsSeq(s) /\ IsSeq(t)
    BY DEF Joined
  <2>2. /\ IsSeq(u) /\ L \in Nat /\ M \in Nat /\ DOMAIN s = 1..L /\ DOMAIN t = 1..M
        /\ \A n \in 1..L : n \in DOMAIN u /\ u[n] = s[n]
        /\ \A n \in 1..M : L + n \in DOMAIN u /\ u[L + n] = t[n]
        /\ \A n \in DOMAIN u : n \in 1..L \/ (n - L \in 1..M /\ n = L + (n - L))
    BY <2>1, ConcatPlaces
  <2> HIDE DEF u, L, M
  <2> QED
    BY <2>2
<1>2. \A i \in 1..(m + 1) : i \in 1..m \/ i = m + 1
  OBVIOUS
<1>3. \A i \in 1..m : i \in 1..(m + 1) /\ i <= m + 1 /\ i # m + 1
  OBVIOUS
<1>4. m + 1 \in 1..(m + 1) /\ m + 1 <= m + 1
  OBVIOUS
<1> HIDE DEF u, L
<1>5. ASSUME NEW i \in 1..(m + 1), NEW a \in DOMAIN seqs[i]
      PROVE  \E n \in DOMAIN u : u[n] = seqs[i][a]
  <2>1. CASE i \in 1..m
    <3>1. \E n \in DOMAIN s : s[n] = seqs[i][a]
      BY <2>1 DEF Joined
    <3> QED
      BY <1>1, <3>1
  <2>2. CASE i = m + 1
    BY <1>1, <2>2
  <2> QED
    BY <1>2, <2>1, <2>2
<1>6. ASSUME NEW x \in DOMAIN u, NEW y \in DOMAIN u, x <= y
      PROVE  \E i, j \in 1..(m + 1) : \E a \in DOMAIN seqs[i], b \in DOMAIN seqs[j] :
                u[x] = seqs[i][a] /\ u[y] = seqs[j][b] /\ i <= j /\ (i = j => a <= b)
  <2>1. CASE x \in DOMAIN s /\ y \in DOMAIN s
    <3>1. \E i, j \in 1..m : \E a \in DOMAIN seqs[i], b \in DOMAIN seqs[j] :
             s[x] = seqs[i][a] /\ s[y] = seqs[j][b] /\ i <= j /\ (i = j => a <= b)
      BY <1>6, <2>1 DEF Joined
    <3> QED
      BY <1>1, <1>3, <2>1, <3>1
  <2>2. CASE x \in DOMAIN s /\ y - L \in DOMAIN t /\ y = L + (y - L)
    <3>1. x <= x
      BY <1>1, <2>2
    <3>2. PICK i \in 1..m : \E a \in DOMAIN seqs[i] : s[x] = seqs[i][a]
      BY <2>2, <3>1 DEF Joined
    <3>3. PICK a \in DOMAIN seqs[i] : u[x] = seqs[i][a]
      BY <1>1, <2>2, <3>2
    <3>4. u[y] = t[y - L]
      BY <1>1, <2>2
    <3> QED
      BY <1>3, <1>4, <2>2, <3>3, <3>4
  <2>3. CASE x - L \in DOMAIN t /\ x = L + (x - L) /\ y - L \in DOMAIN t /\ y = L + (y - L)
    <3>1. u[x] = t[x - L] /\ u[y] = t[y - L]
      BY <1>1, <2>3
    <3>2. x - L <= y - L
      <4> DEFINE a == x - L
                 b == y - L
      <4>1. a \in Nat /\ b \in Nat /\ L + a <= L + b
        BY <1>1, <1>6, <2>3
      <4> HIDE DEF a, b
      <4>2. a <= b
        BY <1>1, <4>1
      <4> QED
        BY <4>2 DEF a, b
    <3> QED
      BY <1>4, <2>3, <3>1, <3>2
  <2>4. CASE x - L \in DOMAIN t /\ x = L + (x - L) /\ y \in DOMAIN s
    <3>1. x - L \in Nat \ {0} /\ y \in 1..L /\ L \in Nat
      BY <1>1, <2>4
    <3>2. x = L + (x - L) /\ x <= y
      BY <1>6, <2>4
    <3> DEFINE d == x - L
    <3>3. L + d <= y /\ d \in Nat \ {0}
      BY <3>1, <3>2
    <3> HIDE DEF d
    <3>4. FALSE
      BY <3>1, <3>3
    <3> QED
      BY <3>4
  <2> QED
    BY <1>1, <2>1, <2>2, <2>3, <2>4
<1> QED
  BY <1>1, <1>5, <1>6 DEF Joined, u

\* Sequences that are put together keep all their elements, and their order.
LEMMA FlatJoined ==
    ASSUME NEW seqs, IsSeq(seqs), \A i \in DOMAIN seqs : IsSeq(seqs[i])
    PROVE  DOMAIN seqs = 1..Len(seqs) /\ Joined(FlattenSeq(seqs), seqs, Len(seqs))
<1> DEFINE n == Len(seqs)
           f == CHOOSE g : g = [i \in 1..Len(seqs) |-> IF i = 1 THEN seqs[i] ELSE g[i - 1] \o seqs[i]]
           T == {m \in Nat : m # 0 => Joined(f[m], seqs, m)}
<1>1. n \in Nat /\ DOMAIN seqs = 1..n
  BY DEF IsSeq
<1>2. FlattenSeq(seqs) = IF n = 0 THEN seqs ELSE f[n]
  BY DEF FlattenSeq
<1>3. IsFlat(f, seqs, n)
  BY <1>1, FlatExists DEF IsFlat
<1> HIDE DEF n, f
<1>4. \A i \in 1..n : f[i] = IF i = 1 THEN seqs[i] ELSE f[i - 1] \o seqs[i]
  BY <1>3 DEF IsFlat
<1>5. ASSUME NEW m \in 0 .. n - 1, m \in T
      PROVE  m + 1 \in T
  <2>1. m + 1 \in 1..n /\ m \in Nat /\ IsSeq(seqs[m + 1])
    BY <1>1
  <2>2. CASE m = 0
    <3> DEFINE s == seqs[1]
    <3>1. f[1] = s /\ 1 \in 1..1 /\ IsSeq(s) /\ 1..1 = {1}
      BY <1>4, <2>1, <2>2
    <3>2. Joined(s, seqs, 1)
      BY <3>1 DEF Joined
    <3> QED
      BY <2>1, <2>2, <3>1, <3>2
  <2>3. CASE m # 0
    <3>1. (m + 1) - 1 = m /\ m + 1 # 1
      BY <2>1, <2>3
    <3>2. f[m + 1] = f[m] \o seqs[m + 1]
      BY <1>4, <2>1, <3>1
    <3>3. Joined(f[m], seqs, m)
      BY <1>5, <2>3
    <3>4. Joined(f[m + 1], seqs, m + 1)
      BY <2>1, <3>2, <3>3, JoinOne
    <3> QED
      BY <2>1, <3>4
  <2> QED
    BY <2>2, <2>3
<1>6. 0 \in T
  OBVIOUS
<1>7. n \in T
  <2> HIDE DEF T
  <2>1. 0..n \subseteq T
    BY <1>1, <1>5, <1>6, AllUpTo
  <2> QED
    BY <1>1, <2>1
<1>8. CASE n = 0
  <2>1. FlattenSeq(seqs) = seqs /\ DOMAIN seqs = {} /\ 1..n = {}
    BY <1>1, <1>2, <1>8
  <2> QED
    BY <1>1, <2>1 DEF Joined, n
<1>9. CASE n # 0
  BY <1>1, <1>2, <1>7, <1>9 DEF n
<1> QED
  BY <1>8, <1>9

\* The elements of a finite set, as a sequence, are all of them.
LEMMA SetToSeqAll ==
    ASSUME NEW S, IsFiniteSet(S), NEW x \in S
    PROVE  \E k \in DOMAIN SetToSeq(S) : SetToSeq(S)[k] = x
<1> DEFINE n == Cardinality(S)
           All == {f \in [1..n -> S] : IsInjective(f)}
           s == SetToSeq(S)
<1>1. n \in Nat /\ ExistsBijection(1..n, S)
  BY FS_CardinalityType
<1>2. s = CHOOSE f \in All : TRUE
  BY Zenon DEF SetToSeq
<1> HIDE DEF n, s
<1>3. PICK f \in [1..n -> S] : \A a, b \in 1..n : f[a] = f[b] => a = b
  BY <1>1, Zenon DEF ExistsBijection, Bijection, Injection, IsInjective
<1>4. f \in All
  BY <1>3 DEF IsInjective
<1>5. s \in [1..n -> S] /\ \A a, b \in 1..n : s[a] = s[b] => a = b
  <2>1. s \in All
    BY <1>2, <1>4
  <2> QED
    BY <2>1 DEF IsInjective
<1>6. s \in Injection(1..n, S)
  BY <1>5 DEF Injection, IsInjective
<1>7. Cardinality(1..n) = n
  BY <1>1, FS_Interval
<1>8. s \in Surjection(1..n, S)
  <2>1. Cardinality(1..n) = Cardinality(S) <=> s \in Surjection(1..n, S)
    BY <1>6, FS_Injection
  <2> QED
    BY <1>7, <2>1 DEF n
<1>9. \E k \in 1..n : s[k] = x
  BY <1>8 DEF Surjection
<1> QED
  BY <1>5, <1>9 DEF s

\* The layouts that await a log.
Awaiting(table, item) ==
    {l \in table :
        /\ item.kind = "log" /\ l.log # NoLog
        /\ LogTable[l.log].disc = item.disc /\ Decodes(l.log, item)
        /\ l.log = "bonk_trade" => item.f.side = l.side}

\* Each of them makes one event of it.
LEMMA ItemLogs ==
    ASSUME NEW table \in SUBSET AllLayouts, NEW item, NEW index
    PROVE  /\ IsSeq(LogEvents(table, item, index))
           /\ \A n \in DOMAIN LogEvents(table, item, index) :
                 LogEvents(table, item, index)[n].index = index
           /\ \A l \in Awaiting(table, item) :
                 \E n \in DOMAIN LogEvents(table, item, index) :
                    LogEvents(table, item, index)[n] = LogEvent(l, item, index)
<1> DEFINE awaiting == Awaiting(table, item)
           made == {LogEvent(l, item, index) : l \in awaiting}
           s == SetToSeq(made)
<1>1. LogEvents(table, item, index) = s
  BY Zenon DEF LogEvents, Awaiting
<1>2. IsFiniteSet(made)
  <2>1. IsFiniteSet(awaiting)
    BY LayoutsFinite, FS_Subset DEF Awaiting
  <2> DEFINE f == [l \in awaiting |-> LogEvent(l, item, index)]
  <2>2. f \in Surjection(awaiting, made)
    BY DEF Surjection
  <2> HIDE DEF awaiting, made, f
  <2> QED
    BY <2>1, <2>2, FS_Surjection
<1>3. \A g \in made : g.index = index
  BY DEF LogEvent
<1>4. \A l \in awaiting : LogEvent(l, item, index) \in made
  OBVIOUS
<1> HIDE DEF made
<1>5. s \in Seq(made) /\ \A g \in made : \E n \in DOMAIN s : s[n] = g
  BY <1>2, SetToSeqIn, SetToSeqAll
<1> HIDE DEF s
<1>6. IsSeq(s)
  <2> DEFINE n == Len(s)
  <2>1. n \in Nat /\ s \in [1..n -> made]
    BY <1>5
  <2> HIDE DEF n
  <2> QED
    BY <2>1, ListIsSeq
<1> QED
  BY <1>1, <1>3, <1>4, <1>5, <1>6

\* One instruction was called before the other, or they are the same.
NotAfter(g, h) == g[1] < h[1] \/ (g[1] = h[1] /\ g[2] <= h[2])

\* The event made of a log for an event of a layout is among the logs.
Reported(logs, l, log, index) == \E n \in DOMAIN logs : logs[n] = LogEvent(l, log, index)

\* All that is awaited of the logs is told, in the order of the calls.
LEMMA ToldInOrder ==
    ASSUME NEW table \in SUBSET AllLayouts, NEW tx, Shaped(tx), ~tx.failed,
           NEW logs, logs = ToldEvents(table, tx)
    PROVE  /\ \A x, y \in DOMAIN logs : x <= y => NotAfter(logs[x].index, logs[y].index)
           /\ \A i \in DOMAIN tx.outer : \A j \in DOMAIN tx.inner[i] :
                 \A l \in Awaiting(table, tx.inner[i][j]) : Reported(logs, l, tx.inner[i][j], <<i, j>>)
<1> DEFINE items(i) == tx.inner[i]
           each(i) == [j \in DOMAIN items(i) |-> LogEvents(table, items(i)[j], <<i, j>>)]
           all == [i \in DOMAIN tx.outer |-> FlattenSeq(each(i))]
           M(i) == Len(items(i))
           N == Len(tx.outer)
<1>1. /\ N \in Nat /\ DOMAIN tx.outer = 1..N
      /\ \A i \in DOMAIN tx.outer : items(i) \in Seq(Range(items(i)))
      /\ \A i \in DOMAIN tx.outer : Inner(tx, i) = items(i)
  BY PlacesOf
<1>2. logs = FlattenSeq(all)
  BY Zenon DEF ToldEvents, Inner
<1>3. ASSUME NEW i \in DOMAIN tx.outer
      PROVE  /\ M(i) \in Nat /\ DOMAIN items(i) = 1..M(i)
             /\ DOMAIN each(i) = 1..M(i) /\ IsSeq(each(i)) /\ Len(each(i)) = M(i)
  <2>1. M(i) \in Nat /\ DOMAIN items(i) = 1..M(i) /\ DOMAIN each(i) = 1..M(i)
    BY <1>1
  <2> DEFINE s == each(i)
             m == M(i)
  <2>2. m \in Nat /\ s \in [1..m -> Range(s)]
    BY <2>1 DEF Range
  <2> HIDE DEF s, m
  <2>3. IsSeq(s) /\ Len(s) = m
    BY <2>2, ListIsSeq
  <2> QED
    BY <2>1, <2>3 DEF s, m
<1>4. ASSUME NEW i \in DOMAIN tx.outer, NEW j \in DOMAIN items(i)
      PROVE  /\ IsSeq(each(i)[j])
             /\ \A n \in DOMAIN each(i)[j] : each(i)[j][n].index = <<i, j>>
             /\ \A l \in Awaiting(table, items(i)[j]) :
                   \E n \in DOMAIN each(i)[j] : each(i)[j][n] = LogEvent(l, items(i)[j], <<i, j>>)
  <2>1. each(i)[j] = LogEvents(table, items(i)[j], <<i, j>>)
    OBVIOUS
  <2> HIDE DEF each
  <2> QED
    BY <2>1, ItemLogs
<1>5. ASSUME NEW i \in DOMAIN tx.outer
      PROVE  Joined(FlattenSeq(each(i)), each(i), M(i))
  <2> DEFINE s == each(i)
  <2>1. IsSeq(s) /\ DOMAIN s = DOMAIN items(i) /\ Len(s) = M(i)
    BY <1>3
  <2>2. \A j \in DOMAIN s : IsSeq(s[j])
    BY <1>4
  <2> HIDE DEF s
  <2>3. Joined(FlattenSeq(s), s, M(i))
    BY <2>1, <2>2, FlatJoined
  <2> QED
    BY <2>3 DEF s
<1> HIDE DEF each
<1>6. Joined(logs, all, N)
  <2>1. \A i \in DOMAIN all : IsSeq(all[i])
    BY <1>5 DEF Joined
  <2>2. all \in [1..N -> Range(all)]
    BY <1>1 DEF Range
  <2> HIDE DEF all, N
  <2>3. IsSeq(all) /\ Len(all) = N
    BY <1>1, <2>2, ListIsSeq
  <2> QED
    BY <1>2, <2>1, <2>3, FlatJoined
<1>7. \A i \in DOMAIN tx.outer : all[i] = FlattenSeq(each(i)) /\ DOMAIN items(i) = 1..M(i)
  BY <1>3
<1> HIDE DEF all
<1>8. ASSUME NEW i \in DOMAIN tx.outer, NEW a \in DOMAIN all[i], NEW b \in DOMAIN all[i], a <= b
      PROVE  \E j, k \in 1..M(i) : all[i][a].index = <<i, j>> /\ all[i][b].index = <<i, k>> /\ j <= k
  <2>1. PICK j, k \in 1..M(i) : \E c \in DOMAIN each(i)[j], d \in DOMAIN each(i)[k] :
           all[i][a] = each(i)[j][c] /\ all[i][b] = each(i)[k][d] /\ j <= k
    BY <1>5, <1>7, <1>8 DEF Joined
  <2> QED
    BY <1>4, <1>7, <2>1
<1>9. ASSUME NEW x \in DOMAIN logs, NEW y \in DOMAIN logs, x <= y
      PROVE  NotAfter(logs[x].index, logs[y].index)
  <2>1. PICK i, k \in 1..N : \E a \in DOMAIN all[i], b \in DOMAIN all[k] :
           logs[x] = all[i][a] /\ logs[y] = all[k][b] /\ i <= k /\ (i = k => a <= b)
    BY <1>6, <1>9 DEF Joined
  <2>2. PICK a \in DOMAIN all[i], b \in DOMAIN all[k] :
           logs[x] = all[i][a] /\ logs[y] = all[k][b] /\ i <= k /\ (i = k => a <= b)
    BY <2>1
  <2>3. i \in DOMAIN tx.outer /\ k \in DOMAIN tx.outer /\ i \in Nat /\ k \in Nat
    BY <1>1
  <2>4. PICK g \in 1..M(i) : all[i][a].index = <<i, g>>
    <3>1. a <= a
      BY <1>5, <1>7, <2>3 DEF Joined, IsSeq
    <3> QED
      BY <1>8, <2>3, <3>1
  <2>5. PICK h \in 1..M(k) : all[k][b].index = <<k, h>>
    <3>1. b <= b
      BY <1>5, <1>7, <2>3 DEF Joined, IsSeq
    <3> QED
      BY <1>8, <2>3, <3>1
  <2>6. CASE i # k
    BY <2>2, <2>3, <2>4, <2>5, <2>6 DEF NotAfter
  <2>7. CASE i = k
    <3>1. PICK j, d \in 1..M(i) : all[i][a].index = <<i, j>> /\ all[i][b].index = <<i, d>> /\ j <= d
      BY <1>8, <2>2, <2>3, <2>7
    <3> QED
      BY <2>2, <2>7, <3>1 DEF NotAfter
  <2> QED
    BY <2>6, <2>7
<1>10. ASSUME NEW i \in DOMAIN tx.outer, NEW j \in DOMAIN items(i), NEW l \in Awaiting(table, items(i)[j])
       PROVE  Reported(logs, l, items(i)[j], <<i, j>>)
  <2>1. PICK c \in DOMAIN each(i)[j] : each(i)[j][c] = LogEvent(l, items(i)[j], <<i, j>>)
    BY <1>4
  <2>2. PICK a \in DOMAIN all[i] : all[i][a] = each(i)[j][c]
    BY <1>5, <1>7 DEF Joined
  <2>3. PICK n \in DOMAIN logs : logs[n] = all[i][a]
    BY <1>1, <1>6 DEF Joined
  <2> QED
    BY <2>1, <2>2, <2>3 DEF Reported
<1> QED
  BY <1>9, <1>10

-----------------------------------------------------------------------------
(* The amounts of an event *)

\* Which logs a program awaits, and which of them tell amounts.
LogsOfProgram ==
    [bonk |-> {"bonk_trade", "bonk_create"},
     pumpfun |-> {"pumpfun_trade", "pumpfun_create", "pumpfun_migrate"},
     pumpswap |-> {"pumpswap_buy", "pumpswap_sell", "pumpswap_create", "pumpswap_deposit",
                   "pumpswap_withdraw"}]

LEMMA LayoutLogs ==
    ASSUME NEW l \in AllLayouts, l.log # NoLog
    PROVE  l.program \in DOMAIN LogsOfProgram /\ l.log \in LogsOfProgram[l.program]
<1>1. \A m \in BonkLayouts : m.log \in {"bonk_trade", "bonk_create", NoLog}
  BY DEF BonkLayouts, BonkBuys, BonkSells, BonkPools, BonkMigrations, BonkTrade, Plain, With, NoLog
<1>2. \A m \in PumpFunLayouts : m.log \in {"pumpfun_trade", "pumpfun_create", "pumpfun_migrate"}
  BY DEF PumpFunLayouts, PumpFunBuy, PumpFunSell, PumpFunCreate, PumpFunMigrate, Plain, With
<1>3. \A m \in PumpSwapLayouts : m.log \in LogsOfProgram["pumpswap"]
  <2>1. \A m \in PumpSwapTrades \cup PumpSwapLiquidity :
           m.log \in {"pumpswap_buy", "pumpswap_sell", "pumpswap_deposit", "pumpswap_withdraw"}
    BY DEF PumpSwapTrades, PumpSwapLiquidity, Plain, With
  <2>2. PumpSwapCreate.log = "pumpswap_create"
    BY KeyPlaces
  <2> QED
    BY <2>1, <2>2 DEF PumpSwapLayouts, LogsOfProgram
<1>4. l \in BonkLayouts \cup PumpFunLayouts \cup PumpSwapLayouts
  BY RaydiumTyped DEF AllLayouts
<1> QED
  BY <1>1, <1>2, <1>3, <1>4, BonkSame, PumpFunSame, PumpSwapSame DEF LogsOfProgram

\* A program gives its logs different discriminators.
LEMMA LogsDiffer ==
    ASSUME NEW p \in DOMAIN LogsOfProgram, NEW a \in LogsOfProgram[p], NEW b \in LogsOfProgram[p]
    PROVE  /\ {a, b} \subseteq DOMAIN LogTable
           /\ LogTable[a].disc = LogTable[b].disc => a = b
<1>1. /\ LogTable["bonk_trade"].disc = "trade_event"
      /\ LogTable["bonk_create"].disc = "pool_create_event"
      /\ LogTable["pumpfun_trade"].disc = "trade_event"
      /\ LogTable["pumpfun_create"].disc = "create_token_event"
      /\ LogTable["pumpfun_migrate"].disc = "migration_event"
  BY DEF LogTable, LogOf, BonkTradeLog, BonkCreateLog, PumpFunTradeLog, PumpFunCreateLog, PumpFunMigrateLog
<1>2. /\ LogTable["pumpswap_buy"].disc = "buy_event"
      /\ LogTable["pumpswap_sell"].disc = "sell_event"
      /\ LogTable["pumpswap_create"].disc = "create_pool_event"
      /\ LogTable["pumpswap_deposit"].disc = "deposit_event"
      /\ LogTable["pumpswap_withdraw"].disc = "withdraw_event"
  BY DEF LogTable, LogOf, PumpSwapBuyLog, PumpSwapSellLog, PumpSwapCreateLog, PumpSwapLiquidityLogs
<1>3. UNION {LogsOfProgram[q] : q \in DOMAIN LogsOfProgram} \subseteq DOMAIN LogTable
  BY DEF LogsOfProgram, LogTable
<1>4. CASE p = "bonk"
  BY <1>1, <1>3, <1>4 DEF LogsOfProgram
<1>5. CASE p = "pumpfun"
  BY <1>1, <1>3, <1>5 DEF LogsOfProgram
<1>6. CASE p = "pumpswap"
  BY <1>2, <1>3, <1>6 DEF LogsOfProgram
<1> QED
  BY <1>4, <1>5, <1>6 DEF LogsOfProgram

\* A log tells both amounts or none.
LEMMA BothAmounts ==
    ASSUME NEW name \in DOMAIN LogTable
    PROVE  IF Trading(name) THEN {"paid", "got"} \subseteq LogTable[name].copies
           ELSE {"paid", "got"} \cap LogTable[name].copies = {}
<1>1. DOMAIN LogTable = {"bonk_trade", "pumpfun_trade", "pumpswap_buy", "pumpswap_sell"}
                          \cup {"bonk_create", "pumpfun_create", "pumpfun_migrate", "pumpswap_create",
                                "pumpswap_deposit", "pumpswap_withdraw"}
      /\ NoLog \notin DOMAIN LogTable
  BY DEF LogTable, NoLog
<1>2. \A n \in {"bonk_trade", "pumpfun_trade", "pumpswap_buy", "pumpswap_sell"} :
         Amounts \subseteq LogTable[n].copies
  BY DEF LogTable, LogOf, Amounts, BonkTradeLog, PumpFunTradeLog, PumpSwapBuyLog, PumpSwapSellLog
<1>3. \A n \in {"bonk_create", "pumpfun_create", "pumpfun_migrate", "pumpswap_create",
                "pumpswap_deposit", "pumpswap_withdraw"} : Amounts \cap LogTable[n].copies = {}
  BY DEF LogTable, LogOf, Amounts, BonkCreateLog, PumpFunCreateLog, PumpFunMigrateLog, PumpSwapCreateLog,
         PumpSwapLiquidityLogs
<1> QED
  BY <1>1, <1>2, <1>3 DEF Trading, Amounts

\* The logs that have the type and id of an event and are behind it.
Candidates(e, logs) ==
    {k \in DOMAIN logs : logs[k].type = e.type /\ logs[k].key = e.key /\ Behind(logs[k], e)}

\* What a merge makes of the amounts.
LEMMA MergedAmounts ==
    ASSUME NEW e, Filled \subseteq DOMAIN e, NEW logs,
           NEW own, own = Candidates(e, logs), NEW g, g = logs[Min(own)]
    PROVE  /\ MergeLogs(e, logs).paid = (IF own # {} /\ "paid" \in g.copies THEN g.item.f.paid ELSE e.paid)
           /\ MergeLogs(e, logs).got = (IF own # {} /\ "got" \in g.copies THEN g.item.f.got ELSE e.got)
<1> DEFINE p == IF "paid" \in g.copies THEN g.item.f.paid ELSE e.paid
           q == IF "got" \in g.copies THEN g.item.f.got ELSE e.got
           d == MergeLogs(e, logs)
<1>1. \/ own = {} /\ d = e
      \/ own # {} /\ \E a : d = [e EXCEPT !.at = a, !.paid = p, !.got = q]
  BY DEF MergeLogs, Candidates
<1> HIDE DEF p, q, d
<1>2. \A a : /\ [e EXCEPT !.at = a, !.paid = p, !.got = q].paid = p
             /\ [e EXCEPT !.at = a, !.paid = p, !.got = q].got = q
  BY DEF Filled
<1>3. (own = {} => d.paid = e.paid /\ d.got = e.got) /\ (own # {} => d.paid = p /\ d.got = q)
  BY <1>1, <1>2
<1> QED
  BY <1>3 DEF p, q, d

\* An index has one number or two.
LEMMA IndexIs ==
    ASSUME NEW tx, Shaped(tx), NEW c \in Indexes(tx)
    PROVE  /\ c[1] \in DOMAIN tx.outer /\ c[1] \in Nat /\ Len(c) \in {1, 2}
           /\ Len(c) = 2 => c[2] \in Nat /\ c[2] \in DOMAIN tx.inner[c[1]] /\ c = <<c[1], c[2]>>
<1>1. /\ Len(tx.outer) \in Nat /\ DOMAIN tx.outer = 1..Len(tx.outer) /\ DOMAIN tx.inner = DOMAIN tx.outer
      /\ \A i \in DOMAIN tx.inner : DOMAIN tx.inner[i] \subseteq Nat
  <2>1. /\ tx.outer \in Seq(Range(tx.outer)) /\ tx.inner \in Seq(Range(tx.inner))
        /\ Len(tx.inner) = Len(tx.outer)
        /\ \A i \in DOMAIN tx.inner : tx.inner[i] \in Seq(Range(tx.inner[i]))
    BY DEF Shaped
  <2> QED
    BY <2>1
<1>2. CASE \E i \in DOMAIN tx.outer : c = <<i>>
  <2>1. PICK i \in DOMAIN tx.outer : c = <<i>>
    BY <1>2
  <2>2. c[1] = i /\ Len(c) = 1 /\ i \in Nat
    BY <1>1, <2>1
  <2> QED
    BY <2>2
<1>3. CASE \E i \in DOMAIN tx.inner : \E j \in DOMAIN tx.inner[i] : c = <<i, j>>
  <2>1. PICK i \in DOMAIN tx.inner : \E j \in DOMAIN tx.inner[i] : c = <<i, j>>
    BY <1>3
  <2>2. PICK j \in DOMAIN tx.inner[i] : c = <<i, j>>
    BY <2>1
  <2>3. c[1] = i /\ c[2] = j /\ Len(c) = 2 /\ i \in Nat /\ j \in Nat
    BY <1>1, <2>2
  <2> QED
    BY <1>1, <2>2, <2>3
<1> QED
  BY <1>2, <1>3 DEF Indexes

\* Each candidate is one that the layout of the call awaits.
LEMMA CandidateIs ==
    ASSUME NEW table \in SUBSET AllLayouts, NEW tx, Shaped(tx), ~tx.failed,
           NEW logs, logs = ToldEvents(table, tx),
           NEW l \in AllLayouts, NEW e, e.type = l.type, NEW k \in Candidates(e, logs)
    PROVE  /\ k \in Nat /\ k \in DOMAIN logs /\ logs[k].key = e.key /\ Behind(logs[k], e)
           /\ logs[k].index \in LogsOf(tx) /\ logs[k].item = ItemAt(tx, logs[k].index)
           /\ l.log # NoLog /\ LogTable[l.log].disc = logs[k].item.disc /\ Decodes(l.log, logs[k].item)
           /\ logs[k].copies = LogTable[l.log].copies
           /\ logs[k].key = LogEvent(l, logs[k].item, logs[k].index).key
<1> DEFINE g == logs[k]
<1>1. logs \in Seq(Logged(table, tx))
  BY ToldIs
<1>2. /\ k \in DOMAIN logs /\ k \in Nat /\ g \in Logged(table, tx)
      /\ g.type = l.type /\ g.key = e.key /\ Behind(g, e)
  BY <1>1 DEF Candidates
<1> HIDE DEF g
<1>3. PICK m \in table :
         /\ m.log # NoLog /\ LogTable[m.log].disc = g.item.disc /\ Decodes(m.log, g.item)
         /\ g.index \in LogsOf(tx) /\ g = LogEvent(m, ItemAt(tx, g.index), g.index)
  BY <1>2 DEF Logged
<1>4. g.type = m.type /\ g.item = ItemAt(tx, g.index) /\ g.copies = LogTable[m.log].copies
  BY <1>3 DEF LogEvent
<1>5. m = l
  BY <1>2, <1>3, <1>4, OneType
<1>6. g.key = LogEvent(l, g.item, g.index).key
  BY <1>3, <1>4, <1>5
<1> QED
  BY <1>2, <1>3, <1>4, <1>5, <1>6 DEF g

\* The first of the candidates is one.
LEMMA FirstCandidate ==
    ASSUME NEW own \in SUBSET Nat, own # {}
    PROVE  Min(own) \in own /\ \A k \in own : Min(own) <= k
<1>1. \E x \in own : \A y \in own : x <= y
  BY LeastExists
<1> QED
  BY <1>1 DEF Min

\* The layout that a call has, and the log it awaits.
LEMMA CallLayout ==
    ASSUME NEW tx, \A index \in Indexes(tx) : ItemKnown(ItemAt(tx, index)), NEW c \in CallsOf(tx)
    PROVE  \E l \in Matching(AllLayouts, ItemAt(tx, c)) : l.program = ItemAt(tx, c).program
<1> DEFINE item == ItemAt(tx, c)
<1>1. c \in Indexes(tx) /\ item.kind = "call"
  BY DEF CallsOf
<1>2. CallKnown(item)
  BY <1>1 DEF ItemKnown
<1> HIDE DEF item
<1>3. PICK l \in AllLayouts : l.program = item.program /\ l.disc = item.disc
  BY <1>2 DEF CallKnown
<1>4. l \in Matching(AllLayouts, item)
  BY <1>1, <1>3 DEF Matching
<1> QED
  BY <1>3, <1>4 DEF item

\* A candidate is a log of the same name as that of the call, of a call of the same program
\* that awaits such logs too.
LEMMA CandidateCall ==
    ASSUME NEW tx, \A index \in Indexes(tx) : ItemKnown(ItemAt(tx, index)), LogsKnown(tx),
           NEW c \in CallsOf(tx), NEW call, call = ItemAt(tx, c),
           NEW l \in Taking(call), Trading(l.log),
           NEW h \in LogsOf(tx), NEW log, log = ItemAt(tx, h),
           LogTable[l.log].disc = log.disc, Decodes(l.log, log),
           LogEvent(l, log, h).key = Key(l, call)
    PROVE  /\ log.program = call.program /\ log.log = l.log /\ log.full
           /\ \E m \in Matching(AllLayouts, ItemAt(tx, log.of)) : m.log = l.log
<1>1. /\ l \in AllLayouts /\ l \in Matching(AllLayouts, call)
      /\ l.program = call.program /\ l.log # NoLog
  BY DEF Taking, Matching, Trading
<1>2. LogKnown(tx, h) /\ IdsApart(tx, h)
  BY DEF LogsKnown
<1>3. l.program = log.program
  BY <1>2 DEF IdsApart
<1> DEFINE d == log.of
<1>4. /\ log.log \in DOMAIN LogTable /\ log.disc = LogTable[log.log].disc
      /\ log.full <=> Decodes(log.log, log)
      /\ d \in CallsOf(tx) /\ ItemAt(tx, d).program = log.program
      /\ \A m \in Matching(AllLayouts, ItemAt(tx, d)) : m.log = log.log
  BY <1>2 DEF LogKnown
<1>5. PICK m \in Matching(AllLayouts, ItemAt(tx, d)) : m.program = ItemAt(tx, d).program
  BY <1>4, CallLayout
<1>6. m \in AllLayouts /\ m.log = log.log
  BY <1>4, <1>5 DEF Matching
<1>7. m.log # NoLog
  BY <1>4, <1>6 DEF LogTable, NoLog
<1>8. log.log = l.log
  <2>1. l.program = m.program /\ LogTable[l.log].disc = LogTable[m.log].disc
    BY <1>3, <1>4, <1>5, <1>6
  <2> QED
    BY <1>1, <1>6, <1>7, <2>1, LayoutLogs, LogsDiffer
<1> QED
  BY <1>1, <1>3, <1>4, <1>5, <1>6, <1>8

\* A candidate that is not after the own log of a call is a log of this call: the
\* program has no other call between the two.
LEMMA OwnFirst ==
    ASSUME NEW tx, Shaped(tx), LogsKnown(tx), NEW c \in CallsOf(tx),
           NEW g \in LogsOf(tx), ItemAt(tx, g).of = c,
           NEW h \in LogsOf(tx), ItemAt(tx, h).program = ItemAt(tx, g).program,
           NEW e, e.index = c, NEW k, k.index = h, Behind(k, e), NotAfter(h, g)
    PROVE  ItemAt(tx, h).of = c
<1> DEFINE d == ItemAt(tx, h).of
           p == ItemAt(tx, c).program
<1>1. LogKnown(tx, g) /\ LogKnown(tx, h)
  BY DEF LogsKnown
<1>2. /\ ItemAt(tx, g).program = p /\ Precedes(c, g)
      /\ \A b \in CallsOf(tx) : ItemAt(tx, b).program = p /\ Precedes(b, g) => b = c \/ Precedes(b, c)
  BY <1>1 DEF LogKnown
<1>3. /\ d \in CallsOf(tx) /\ ItemAt(tx, d).program = p /\ Precedes(d, h)
      /\ \A b \in CallsOf(tx) : ItemAt(tx, b).program = p /\ Precedes(b, h) => b = d \/ Precedes(b, d)
  BY <1>1, <1>2 DEF LogKnown
<1> HIDE DEF d, p
<1>4. /\ c \in Indexes(tx) /\ d \in Indexes(tx) /\ g \in Indexes(tx) /\ h \in Indexes(tx)
  BY <1>3 DEF CallsOf, LogsOf
<1>5. /\ Len(c) \in {1, 2} /\ (Len(c) = 2 => c[2] \in Nat)
      /\ Len(d) \in {1, 2} /\ (Len(d) = 2 => d[2] \in Nat)
      /\ (Len(g) = 2 => g[2] \in Nat) /\ (Len(h) = 2 => h[2] \in Nat)
      /\ c[1] \in Nat /\ g[1] \in Nat /\ h[1] \in Nat /\ d[1] \in Nat
  BY <1>4, IndexIs
<1>6. Len(g) = 2 /\ Len(h) = 2 /\ c[1] = g[1] /\ d[1] = h[1] /\ h[1] = c[1]
      /\ (Len(c) = 1 \/ h[2] > c[2])
  BY <1>2, <1>3 DEF Precedes, Behind
<1>7. Precedes(c, h)
  BY <1>5, <1>6 DEF Precedes
<1>8. h[2] <= g[2]
  BY <1>5, <1>6 DEF NotAfter
<1>9. Precedes(d, g)
  BY <1>3, <1>5, <1>6, <1>8 DEF Precedes
<1>10. ItemAt(tx, c).program = p
  BY DEF p
<1>11. (c = d \/ Precedes(c, d)) /\ (d = c \/ Precedes(d, c))
  BY <1>2, <1>3, <1>7, <1>9, <1>10
<1>12. ~(Precedes(c, d) /\ Precedes(d, c))
  BY <1>5 DEF Precedes
<1> QED
  BY <1>11, <1>12 DEF d

\* An event has the amounts of its own log, or what the instruction says of them.
LEMMA AmountsOwn ==
    ASSUME NEW table \in SUBSET AllLayouts, NEW tx, Shaped(tx), ~tx.failed,
           \A index \in Indexes(tx) : ItemKnown(ItemAt(tx, index)), LogsKnown(tx),
           NEW c \in CallsOf(tx), NEW call, call = ItemAt(tx, c),
           NEW l \in Matching(table, call), ~Short(l, call),
           NEW e, MadeFrom(e, l, call), e.index = c,
           NEW d, d = MergeLogs(e, ToldEvents(table, tx))
    PROVE  IF LogRead(tx, c) THEN d.paid = call.truth.paid /\ d.got = call.truth.got
           ELSE d.paid \in {0, call.truth.paid} /\ d.got \in {0, call.truth.got}
<1> DEFINE logs == ToldEvents(table, tx)
           own == Candidates(e, logs)
           k == Min(own)
           h == logs[k].index
           log == ItemAt(tx, h)
<1>1. /\ l \in table /\ l \in AllLayouts /\ l \in Matching(AllLayouts, call) /\ l \in Taking(call)
      /\ l.program = call.program /\ call.kind = "call" /\ c \in Indexes(tx)
  BY DEF Matching, Taking, CallsOf
<1>2. /\ Filled \subseteq DOMAIN e /\ e.type = l.type /\ e.key = Key(l, call)
      /\ e.paid \in {0, call.truth.paid} /\ e.got \in {0, call.truth.got}
      /\ l.log # NoLog /\ ~Trading(l.log) =>
            call.truth.paid = 0 /\ call.truth.got = 0
  <2>1. AmountsKnown(call)
    BY <1>1 DEF ItemKnown
  <2> QED
    BY <1>1, <2>1 DEF AmountsKnown, MadeFrom
<1>3. /\ d.paid = (IF own # {} /\ "paid" \in logs[k].copies THEN logs[k].item.f.paid ELSE e.paid)
      /\ d.got = (IF own # {} /\ "got" \in logs[k].copies THEN logs[k].item.f.got ELSE e.got)
  <2>1. own = Candidates(e, logs)
    OBVIOUS
  <2>2. d = MergeLogs(e, logs)
    OBVIOUS
  <2> HIDE DEF logs, own
  <2> QED
    BY <1>2, <2>1, <2>2, MergedAmounts
<1>4. logs = ToldEvents(table, tx)
  OBVIOUS
<1> HIDE DEF logs
<1>5. own # {} =>
         /\ k \in own /\ (\A n \in own : k <= n) /\ k \in DOMAIN logs
         /\ logs[k].key = e.key /\ Behind(logs[k], e)
         /\ h \in LogsOf(tx) /\ logs[k].item = log
         /\ l.log # NoLog /\ LogTable[l.log].disc = log.disc /\ Decodes(l.log, log)
         /\ logs[k].copies = LogTable[l.log].copies
         /\ LogEvent(l, log, h).key = Key(l, call)
  <2> SUFFICES ASSUME own # {}
               PROVE  /\ k \in own /\ (\A n \in own : k <= n) /\ k \in DOMAIN logs
                      /\ logs[k].key = e.key /\ Behind(logs[k], e)
                      /\ h \in LogsOf(tx) /\ logs[k].item = log
                      /\ l.log # NoLog /\ LogTable[l.log].disc = log.disc /\ Decodes(l.log, log)
                      /\ logs[k].copies = LogTable[l.log].copies
                      /\ LogEvent(l, log, h).key = Key(l, call)
    OBVIOUS
  <2>1. own \in SUBSET Nat
    <3>1. \A n \in own : n \in Nat
      <4> HIDE DEF own
      <4> QED
        BY <1>1, <1>2, <1>4, CandidateIs DEF own
    <3> QED
      BY <3>1
  <2>2. k \in own /\ \A n \in own : k <= n
    <3> HIDE DEF own
    <3> QED
      BY <2>1, FirstCandidate
  <2> HIDE DEF k
  <2>3. /\ k \in DOMAIN logs /\ logs[k].key = e.key /\ Behind(logs[k], e)
        /\ h \in LogsOf(tx) /\ logs[k].item = log
        /\ l.log # NoLog /\ LogTable[l.log].disc = logs[k].item.disc /\ Decodes(l.log, logs[k].item)
        /\ logs[k].copies = LogTable[l.log].copies
        /\ logs[k].key = LogEvent(l, logs[k].item, logs[k].index).key
    BY <1>1, <1>2, <1>4, <2>2, CandidateIs
  <2> QED
    BY <1>2, <2>2, <2>3
<1> HIDE DEF k
<1>6. l.log # NoLog => l.log \in DOMAIN LogTable
  BY <1>1, LayoutLogs, LogsDiffer
<1>7. ASSUME NEW g \in LogsOf(tx), ItemAt(tx, g).of = c
      PROVE  l.log # NoLog /\ ItemAt(tx, g).log = l.log /\ ItemAt(tx, g).program = l.program
  <2>1. LogKnown(tx, g)
    BY DEF LogsKnown
  <2>2. ItemAt(tx, g).log \in DOMAIN LogTable /\ ItemAt(tx, g).log = l.log /\ ItemAt(tx, g).program = l.program
    BY <1>1, <1>7, <2>1 DEF LogKnown
  <2> QED
    BY <2>2 DEF LogTable, NoLog
<1>8. CASE ~Trading(l.log)
  <2>1. d.paid = e.paid /\ d.got = e.got
    BY <1>3, <1>5, <1>6, <1>8, BothAmounts
  <2>2. LogRead(tx, c) => l.log # NoLog
    BY <1>7 DEF LogRead
  <2> QED
    BY <1>2, <1>8, <2>1, <2>2
<1>9. CASE Trading(l.log) /\ ~LogRead(tx, c)
  <2>1. own = {}
    <3> SUFFICES ASSUME own # {}
                 PROVE  FALSE
      OBVIOUS
    <3> DEFINE b == log.of
    <3>1. h \in LogsOf(tx)
      BY <1>5
    <3>2. /\ log.full /\ \E m \in Matching(AllLayouts, ItemAt(tx, b)) : m.log = l.log
      <4> HIDE DEF h
      <4> QED
        BY <1>1, <1>5, <1>9, CandidateCall
    <3>3. b \in CallsOf(tx)
      BY <3>1 DEF LogsKnown, LogKnown
    <3>4. LogRead(tx, b)
      BY <3>1, <3>2 DEF LogRead
    <3>5. LogRead(tx, c)
      <4> HIDE DEF b
      <4> QED
        BY <1>1, <1>9, <3>2, <3>3, <3>4 DEF LogsKnown, LogsAlike
    <3> QED
      BY <1>9, <3>5
  <2> QED
    BY <1>2, <1>3, <1>9, <2>1
<1>10. CASE Trading(l.log) /\ LogRead(tx, c)
  <2>1. PICK g \in LogsOf(tx) : ItemAt(tx, g).of = c /\ ItemAt(tx, g).full
    BY <1>10 DEF LogRead
  <2> DEFINE mine == ItemAt(tx, g)
  <2>2. mine.log = l.log /\ mine.program = l.program /\ LogKnown(tx, g) /\ mine.kind = "log"
    BY <1>7, <2>1 DEF LogsKnown, LogsOf
  <2>3. /\ mine.disc = LogTable[l.log].disc /\ Decodes(l.log, mine) /\ Precedes(c, g)
        /\ LogEvent(l, mine, g).key = Key(l, call)
        /\ l.log = "bonk_trade" => mine.f.side = l.side
    BY <1>1, <1>10, <2>1, <2>2 DEF LogKnown
  <2>4. l \in Awaiting(table, mine)
    BY <1>1, <1>10, <2>2, <2>3 DEF Awaiting, Trading
  <2>5. /\ g[1] \in DOMAIN tx.outer /\ g[2] \in DOMAIN tx.inner[g[1]] /\ g = <<g[1], g[2]>>
        /\ mine = tx.inner[g[1]][g[2]]
    <3>1. g \in Indexes(tx) /\ Len(g) = 2
      BY <2>3 DEF LogsOf, Precedes
    <3>2. g[1] \in DOMAIN tx.outer /\ g[2] \in DOMAIN tx.inner[g[1]] /\ g = <<g[1], g[2]>>
      BY <3>1, IndexIs
    <3>3. mine = tx.inner[g[1]][g[2]]
      BY <3>1 DEF ItemAt
    <3> QED
      BY <3>2, <3>3
  <2> HIDE DEF mine
  <2>6. PICK n \in DOMAIN logs : logs[n] = LogEvent(l, mine, g)
    <3> DEFINE i == g[1]
               j == g[2]
    <3>1. i \in DOMAIN tx.outer /\ j \in DOMAIN tx.inner[i] /\ l \in Awaiting(table, tx.inner[i][j])
      BY <2>4, <2>5
    <3> HIDE DEF i, j
    <3>2. Reported(logs, l, tx.inner[i][j], <<i, j>>)
      BY <1>4, <3>1, ToldInOrder
    <3>3. mine = tx.inner[i][j] /\ g = <<i, j>>
      BY <2>5 DEF i, j
    <3> QED
      BY <3>2, <3>3 DEF Reported
  <2>7. n \in own
    <3>1. logs[n].type = l.type /\ logs[n].index = g
      BY <2>6 DEF LogEvent
    <3>2. Behind(logs[n], e)
      <4>1. g[1] = c[1] /\ (Len(c) = 1 \/ c[2] < g[2])
        BY <2>3 DEF Precedes
      <4>2. Len(c) \in {1, 2} /\ (Len(c) = 2 => c[2] \in Nat) /\ g[2] \in Nat
        <5>1. g \in Indexes(tx) /\ Len(g) = 2
          BY <2>3 DEF LogsOf, Precedes
        <5> QED
          BY <1>1, <5>1, IndexIs
      <4>3. Len(c) = 1 \/ g[2] > c[2]
        BY <4>1, <4>2
      <4> QED
        BY <3>1, <4>1, <4>3 DEF Behind
    <3> QED
      BY <1>2, <2>3, <2>6, <3>1, <3>2 DEF Candidates
  <2>8. NotAfter(h, g)
    <3>1. k <= n /\ k \in DOMAIN logs
      BY <1>5, <2>7
    <3>2. logs[n].index = g
      BY <2>6 DEF LogEvent
    <3> QED
      BY <1>4, <3>1, <3>2, ToldInOrder
  <2>9. h \in LogsOf(tx) /\ log.program = call.program /\ log.log = l.log /\ log.full
    <3>1. /\ own # {} /\ h \in LogsOf(tx)
      BY <1>5, <2>7
    <3> HIDE DEF h
    <3> QED
      BY <1>1, <1>5, <1>10, <3>1, CandidateCall
  <2>10. log.of = c
    <3>1. Behind(logs[k], e) /\ log.program = mine.program /\ h = logs[k].index
      BY <1>1, <1>5, <2>2, <2>7, <2>9
    <3> HIDE DEF h
    <3> QED
      BY <2>1, <2>8, <2>9, <3>1, OwnFirst DEF mine
  <2>11. log.f.paid = call.truth.paid /\ log.f.got = call.truth.got
    <3>1. LogKnown(tx, h)
      BY <2>9 DEF LogsKnown
    <3> QED
      BY <1>1, <1>10, <2>10, <3>1 DEF LogKnown
  <2>12. "paid" \in logs[k].copies /\ "got" \in logs[k].copies /\ logs[k].item = log /\ own # {}
    BY <1>5, <1>6, <1>10, <2>7, BothAmounts DEF Trading
  <2> QED
    BY <1>3, <1>10, <2>11, <2>12
<1> QED
  BY <1>8, <1>9, <1>10

\* An event never takes its amounts from another instruction of the transaction, however
\* many trades of one pool there are: it has those of its own log or, without one
\* that can be read, what the instruction itself says (traits.rs:284-318).
THEOREM OwnAmountsHolds == Spec => []OwnAmounts
<1>1. ASSUME StreamInv, NEW n \in HeardCalls
      PROVE  LET e == HeardEvent(n)
                 tx == Chained(heard[n][1]).tx
             IN IF LogRead(tx, e.index) THEN e.paid = Truth(n).paid /\ e.got = Truth(n).got
                ELSE e.paid \in {0, Truth(n).paid} /\ e.got \in {0, Truth(n).got}
  <2> DEFINE i == heard[n][1]
             k == heard[n][2]
             tx == Chained(i).tx
             table == Table[setup.filter]
             es == ParseTransaction(table, tx)
  <2>1. n \in DOMAIN heard /\ Chained(i).kind = "tx" /\ i \in 1..pos /\ k \in Whole(i)
    <3>1. n \in DOMAIN heard /\ Chained(heard[n][1]).kind = "tx"
      BY DEF HeardCalls
    <3> QED
      BY <1>1, <3>1, HeardIs
  <2>2. /\ table \in SUBSET AllLayouts /\ Shaped(tx) /\ ~tx.failed /\ LogsKnown(tx)
        /\ \A index \in Indexes(tx) : ItemKnown(ItemAt(tx, index))
        /\ Whole(i) = DOMAIN es /\ feed[i].events = es
    <3>1. tx = Chained(i).tx /\ table = Table[setup.filter] /\ es = ParseTransaction(table, tx)
      OBVIOUS
    <3> HIDE DEF i, k, tx, table, es
    <3> QED
      BY <1>1, <2>1, <3>1, MessageIs
  <2>3. HeardEvent(n) = es[k] /\ k \in DOMAIN es
    BY <2>1, <2>2 DEF HeardEvent
  <2>4. Truth(n) = ItemAt(tx, es[k].index).truth
    BY <2>3 DEF Truth
  <2>5. es = ParseTransaction(table, tx)
    OBVIOUS
  <2> HIDE DEF k, table, es
  <2> DEFINE c == es[k].index
             call == ItemAt(tx, c)
  <2>6. tx = Chained(heard[n][1]).tx
    OBVIOUS
  <2> HIDE DEF i, tx
  <2>7. /\ c \in CallsOf(tx)
        /\ \E l \in Matching(table, call) : \E e :
              /\ ~Short(l, call) /\ MadeFrom(e, l, call) /\ e.index = c
              /\ SameFilled(MergeLogs(e, ToldEvents(table, tx)), es[k])
    <3>1. /\ c \in Indexes(tx) /\ call.kind = "call"
          /\ \E l \in AllLayouts : \E e :
                /\ l \in Matching(table, call) /\ ~Short(l, call)
                /\ MadeFrom(e, l, call) /\ e.index = c
                /\ SameFilled(MergeLogs(e, ToldEvents(table, tx)), es[k])
      <4>1. call = ItemAt(tx, es[k].index)
        OBVIOUS
      <4> HIDE DEF call
      <4> QED
        BY <2>2, <2>3, <2>5, <4>1, EventIs
    <3> QED
      BY <3>1 DEF CallsOf
  <2>8. PICK l \in Matching(table, call) : \E e :
           /\ ~Short(l, call) /\ MadeFrom(e, l, call) /\ e.index = c
           /\ SameFilled(MergeLogs(e, ToldEvents(table, tx)), es[k])
    BY <2>7
  <2>9. PICK e :
           /\ ~Short(l, call) /\ MadeFrom(e, l, call) /\ e.index = c
           /\ SameFilled(MergeLogs(e, ToldEvents(table, tx)), es[k])
    BY <2>8
  <2> DEFINE d == MergeLogs(e, ToldEvents(table, tx))
  <2>10. IF LogRead(tx, c) THEN d.paid = call.truth.paid /\ d.got = call.truth.got
         ELSE d.paid \in {0, call.truth.paid} /\ d.got \in {0, call.truth.got}
    <3>1. call = ItemAt(tx, c) /\ d = MergeLogs(e, ToldEvents(table, tx))
      OBVIOUS
    <3> HIDE DEF call, c, d
    <3> QED
      BY <2>2, <2>7, <2>9, <3>1, AmountsOwn
  <2>11. es[k].paid = d.paid /\ es[k].got = d.got
    BY <2>9 DEF SameFilled, Filled
  <2> HIDE DEF d
  <2> QED
    BY <2>3, <2>4, <2>6, <2>10, <2>11
<1>2. StreamInv => OwnAmounts
  BY <1>1 DEF OwnAmounts
<1> QED
  BY <1>2, StreamInvariant, PTL

-----------------------------------------------------------------------------
(* Who created a token *)

\* The layouts of launches and of trades with them, by the event that they make.
LEMMA LaunchLayouts ==
    \A l \in AllLayouts :
        /\ l.struct = "PumpFunCreateTokenEvent" <=> l = PumpFunCreate
        /\ l.struct = "PumpFunTradeEvent" <=> l \in {PumpFunBuy, PumpFunSell}
        /\ l.struct = "BonkPoolCreateEvent" <=> l \in BonkPools
        /\ l.struct = "BonkTradeEvent" <=> l \in BonkBuys \cup BonkSells
<1> DEFINE structs == {"PumpFunCreateTokenEvent", "PumpFunTradeEvent", "BonkPoolCreateEvent",
                       "BonkTradeEvent"}
<1>1. /\ \A l \in BonkBuys \cup BonkSells : l.struct = "BonkTradeEvent"
      /\ \A l \in BonkPools : l.struct = "BonkPoolCreateEvent"
      /\ \A l \in BonkMigrations : l.struct \notin structs
  BY DEF BonkBuys, BonkSells, BonkPools, BonkMigrations, BonkTrade, Plain, With
<1>2. /\ PumpFunBuy.struct = "PumpFunTradeEvent" /\ PumpFunSell.struct = "PumpFunTradeEvent"
      /\ PumpFunCreate.struct = "PumpFunCreateTokenEvent" /\ PumpFunMigrate.struct \notin structs
  BY DEF PumpFunBuy, PumpFunSell, PumpFunCreate, PumpFunMigrate, Plain, With
<1>3. \A l \in PumpSwapLayouts : l.struct \notin structs
  BY DEF PumpSwapLayouts, PumpSwapTrades, PumpSwapCreate, PumpSwapLiquidity, Plain, With
<1>4. \A l \in AmmLayouts : l.struct \notin structs
  BY DEF AmmLayouts, AmmSwaps, AmmInitialize, AmmDeposit, AmmWithdraws, AmmPlain, Plain, With
<1>5. \A l \in ClmmLayouts : l.struct \notin structs
  <2>1. \A l \in ClmmPositions \cup ClmmExits : l.struct \notin structs
    BY DEF ClmmPositions, ClmmExits, ClmmPlain, Plain
  <2>2. \A l \in ClmmCreate \cup ClmmSwaps : l.struct \notin structs
    BY DEF ClmmCreate, ClmmSwaps, ClmmPlain, Plain
  <2> QED
    BY <2>1, <2>2 DEF ClmmLayouts
<1>6. \A l \in CpmmLayouts : l.struct \notin structs
  BY DEF CpmmLayouts, CpmmDeposit, CpmmWithdraw, CpmmInitialize, CpmmSwaps, CpmmPlain, Plain, With
<1>7. \A l \in BonkLayouts : /\ l.struct \in structs => l \notin BonkMigrations
                             /\ l \in BonkBuys \cup BonkSells \cup BonkPools \cup BonkMigrations
  BY <1>1 DEF BonkLayouts
<1>8. \A l \in PumpFunLayouts : l \in {PumpFunBuy, PumpFunSell, PumpFunCreate, PumpFunMigrate}
  BY DEF PumpFunLayouts
<1>9. \A l \in AllLayouts : l.struct \in structs => l \in BonkLayouts \cup PumpFunLayouts
  BY <1>3, <1>4, <1>5, <1>6 DEF AllLayouts
<1> QED
  BY <1>1, <1>2, <1>7, <1>8, <1>9

\* Where they name the trader, the mint and the maker, and which logs they await.
LEMMA LaunchPlaces ==
    /\ \A l \in {PumpFunBuy, PumpFunSell} :
          /\ l \in PumpFunLayouts /\ DOMAIN l.at = {"mint", "user"} /\ l.log = "pumpfun_trade"
          /\ l.id = <<l.at.mint, l.at.user>> /\ l.program = "pumpfun"
    /\ PumpFunCreate \in PumpFunLayouts /\ DOMAIN PumpFunCreate.at = {"mint", "pool", "user"}
    /\ \A l \in BonkBuys \cup BonkSells :
          l \in BonkLayouts /\ {"payer"} \subseteq DOMAIN l.at /\ l.log = "bonk_trade"
    /\ \A l \in BonkPools :
          l \in BonkLayouts /\ {"creator"} \subseteq DOMAIN l.at
<1>1. /\ PumpFunBuy.at = [mint |-> 2, user |-> 6] /\ PumpFunBuy.log = "pumpfun_trade"
      /\ PumpFunBuy.id = <<2, 6>> /\ PumpFunBuy.program = "pumpfun"
      /\ PumpFunSell.at = [mint |-> 2, user |-> 6] /\ PumpFunSell.log = "pumpfun_trade"
      /\ PumpFunSell.id = <<2, 6>> /\ PumpFunSell.program = "pumpfun"
      /\ PumpFunCreate.at = [mint |-> 0, pool |-> 2, user |-> 7]
  BY DEF PumpFunBuy, PumpFunSell, PumpFunCreate, Plain, With
<1>2. \A l \in BonkBuys \cup BonkSells : "payer" \in DOMAIN l.at /\ l.log = "bonk_trade"
  BY DEF BonkBuys, BonkSells, BonkTrade, Plain, With
<1>3. \A l \in BonkPools : "creator" \in DOMAIN l.at
  BY DEF BonkPools, Plain, With
<1>4. \A l \in {PumpFunBuy, PumpFunSell} :
         DOMAIN l.at = {"mint", "user"} /\ l.id = <<l.at.mint, l.at.user>>
  BY <1>1
<1>5. DOMAIN PumpFunCreate.at = {"mint", "pool", "user"}
  BY <1>1
<1> QED
  BY <1>1, <1>2, <1>3, <1>4, <1>5 DEF PumpFunLayouts, BonkLayouts

\* What a merge makes of the accounts.
LEMMA MergedAt ==
    ASSUME NEW e, Filled \subseteq DOMAIN e, NEW logs,
           NEW own, own = Candidates(e, logs), NEW g, g = logs[Min(own)], NEW f \in DOMAIN e.at
    PROVE  MergeLogs(e, logs).at[f] = IF own # {} /\ f \in g.copies THEN g.item.f[f] ELSE e.at[f]
<1> DEFINE r == g.item.f
           at == [a \in DOMAIN e.at |-> IF a \in g.copies THEN r[a] ELSE e.at[a]]
           merged == MergeLogs(e, logs)
<1>1. \/ own = {} /\ merged = e
      \/ own # {} /\ \E p, q : merged = [e EXCEPT !.at = at, !.paid = p, !.got = q]
  BY DEF MergeLogs, Candidates
<1>2. at[f] = IF f \in g.copies THEN r[f] ELSE e.at[f]
  OBVIOUS
<1> HIDE DEF at, merged
<1>3. \A p, q : [e EXCEPT !.at = at, !.paid = p, !.got = q].at = at
  BY DEF Filled
<1>4. (own = {} => merged = e) /\ (own # {} => merged.at = at)
  BY <1>1, <1>3
<1>5. merged.at[f] = IF own # {} /\ f \in g.copies THEN r[f] ELSE e.at[f]
  BY <1>2, <1>4
<1> QED
  BY <1>5 DEF merged

\* The accounts by which process_events flags trades, told or not.
Parties(l, call, at) ==
    LET t == call.truth
    IN /\ l \in {PumpFunCreate, PumpFunBuy, PumpFunSell} =>
             at.user = t.who /\ at.creator \in {NoOne, t.maker}
       /\ l \in BonkPools => at.creator = t.who
       /\ l \in BonkBuys \cup BonkSells => at.payer = t.who

LEMMA PartiesTold ==
    ASSUME NEW table \in SUBSET AllLayouts, NEW tx, Shaped(tx), ~tx.failed,
           \A index \in Indexes(tx) : ItemKnown(ItemAt(tx, index)), LogsKnown(tx), DevsKnown(tx),
           NEW c \in CallsOf(tx), NEW call, call = ItemAt(tx, c),
           NEW l \in Taking(call), NEW e, MadeFrom(e, l, call), e.index = c
    PROVE  Parties(l, call, MergeLogs(e, ToldEvents(table, tx)).at)
<1> DEFINE logs == ToldEvents(table, tx)
           own == Candidates(e, logs)
           g == logs[Min(own)]
           log == g.item
           at == MergeLogs(e, logs).at
<1>1. /\ l \in AllLayouts /\ l \in Matching(AllLayouts, call) /\ Filled \subseteq DOMAIN e
      /\ e.type = l.type /\ e.key = Key(l, call) /\ e.at = Addresses(l, call)
  BY DEF Taking, Matching, MadeFrom
<1>2. \A f \in DOMAIN e.at : at[f] = IF own # {} /\ f \in g.copies THEN log.f[f] ELSE e.at[f]
  <2> HIDE DEF logs, own
  <2>1. own = Candidates(e, logs)
    BY DEF own
  <2> QED
    BY <1>1, <2>1, MergedAt
<1>3. logs = ToldEvents(table, tx)
  OBVIOUS
<1> HIDE DEF logs
<1>4. own # {} =>
         /\ g.index \in LogsOf(tx) /\ log = ItemAt(tx, g.index) /\ Precedes(c, g.index)
         /\ l.log # NoLog /\ LogTable[l.log].disc = log.disc /\ Decodes(l.log, log)
         /\ g.copies = LogTable[l.log].copies /\ LogEvent(l, log, g.index).key = Key(l, call)
  <2> SUFFICES ASSUME own # {}
               PROVE  /\ g.index \in LogsOf(tx) /\ log = ItemAt(tx, g.index) /\ Precedes(c, g.index)
                      /\ l.log # NoLog /\ LogTable[l.log].disc = log.disc /\ Decodes(l.log, log)
                      /\ g.copies = LogTable[l.log].copies
                      /\ LogEvent(l, log, g.index).key = Key(l, call)
    OBVIOUS
  <2> DEFINE k == Min(own)
  <2>1. \A n \in own : n \in Nat
    <3> HIDE DEF own
    <3> QED
      BY <1>1, <1>3, CandidateIs DEF own
  <2>2. k \in own
    <3> HIDE DEF own
    <3>1. own \in SUBSET Nat
      BY <2>1
    <3> QED
      BY <3>1, FirstCandidate
  <2> HIDE DEF k
  <2>3. /\ g.key = e.key /\ Behind(g, e) /\ g.index \in LogsOf(tx) /\ log = ItemAt(tx, g.index)
        /\ l.log # NoLog /\ LogTable[l.log].disc = log.disc /\ Decodes(l.log, log)
        /\ g.copies = LogTable[l.log].copies /\ g.key = LogEvent(l, log, g.index).key
    <3>1. g = logs[k]
      BY DEF k
    <3> HIDE DEF g, own
    <3> QED
      BY <1>1, <1>3, <2>2, <3>1, CandidateIs DEF own
  <2> HIDE DEF g
  <2>4. Len(g.index) = 2
    BY <2>3 DEF LogsKnown, LogKnown, Precedes
  <2>5. Precedes(c, g.index)
    <3>1. c \in Indexes(tx) /\ g.index \in Indexes(tx)
      BY <2>3 DEF CallsOf, LogsOf
    <3>2. Len(c) \in {1, 2} /\ (Len(c) = 2 => c[2] \in Nat) /\ g.index[2] \in Nat
      BY <2>4, <3>1, IndexIs
    <3> QED
      BY <2>3, <2>4, <3>2 DEF Behind, Precedes
  <2> QED
    BY <1>1, <2>3, <2>5
<1> DEFINE h == g.index
           t == call.truth
<1>10. /\ NamesKnown(call)
       /\ l \in {PumpFunBuy, PumpFunSell} =>
             CoinMakers(tx, Account(l, call, l.at.mint)) \subseteq {t.maker}
  BY DEF DevsKnown
<1> HIDE DEF own, g, at
<1>5. CASE l = PumpFunCreate
  <2>1. /\ "user" \in DOMAIN e.at /\ e.at.user = Account(l, call, l.at.user)
        /\ "creator" \in DOMAIN e.at /\ e.at.creator \in {NoOne, call.creator}
    BY <1>1, <1>5, LaunchPlaces DEF Addresses
  <2>2. own # {} => log.f.user = t.who /\ log.f.creator = t.maker
    BY <1>4, <1>5 DEF DevsKnown, MakersKnown
  <2>5. t.who = Account(l, call, l.at.user) /\ t.maker = call.creator
    BY <1>5, <1>10 DEF NamesKnown
  <2>3. at.user = t.who /\ at.creator \in {NoOne, t.maker}
    BY <1>2, <2>1, <2>2, <2>5
  <2>4. /\ l \notin {PumpFunBuy, PumpFunSell} /\ l \notin BonkPools /\ l \notin BonkBuys \cup BonkSells
    BY <1>1, <1>5, LaunchLayouts
  <2> QED
    BY <1>3, <2>3, <2>4 DEF Parties, at
<1>6. CASE l \in {PumpFunBuy, PumpFunSell}
  <2> DEFINE mint == Account(l, call, l.at.mint)
             user == Account(l, call, l.at.user)
  <2>1. /\ "user" \in DOMAIN e.at /\ e.at.user = user
        /\ "creator" \in DOMAIN e.at /\ e.at.creator = NoOne
    <3>1. l # PumpFunCreate
      BY <1>1, <1>6, LaunchLayouts
    <3> QED
      BY <1>1, <1>6, <3>1, LaunchPlaces DEF Addresses
  <2>2. ASSUME own # {}
        PROVE  log.f.user = user /\ log.f.creator \in CoinMakers(tx, mint)
    <3>1. /\ h \in LogsOf(tx) /\ log = ItemAt(tx, h) /\ LogTable[l.log].disc = log.disc
          /\ Decodes(l.log, log) /\ LogEvent(l, log, h).key = Key(l, call)
      BY <1>4, <2>2
    <3>2. LogKeys["pumpfun_trade"] = <<"mint", "user", "side">> /\ l.log = "pumpfun_trade"
      BY <1>6, LaunchPlaces DEF LogKeys, LogTable, BonkKeys, PumpFunKeys
    <3>3. LogEvent(l, log, h).key[1] = log.f["mint"] /\ LogEvent(l, log, h).key[2] = log.f["user"]
      <4> DEFINE names == LogKeys[l.log]
      <4>1. names = <<"mint", "user", "side">>
        BY <3>2
      <4> HIDE DEF names
      <4>2. LogEvent(l, log, h).key = [i \in 1..Len(names) |-> log.f[names[i]]]
        BY DEF LogEvent, names
      <4>3. Len(names) = 3 /\ names[1] = "mint" /\ names[2] = "user" /\ 1 \in 1..3 /\ 2 \in 1..3
        BY <4>1
      <4> QED
        BY <4>2, <4>3
    <3>4. Key(l, call)[1] = mint /\ Key(l, call)[2] = user
      <4> DEFINE id == l.id
                 a == l.at.mint
                 b == l.at.user
      <4>1. id = <<a, b>>
        BY <1>6, LaunchPlaces
      <4> HIDE DEF id, a, b
      <4>3. Len(id) = 2 /\ id[1] = a /\ id[2] = b /\ 2 \in Nat /\ 1 \in 1..2 /\ 2 \in 1..2
        BY <4>1
      <4>4. \A i \in 1..2 : Key(l, call)[i] = Held(call, l.id[i])
        BY <4>3, KeyIs DEF id
      <4>2. Key(l, call)[1] = Held(call, l.at.mint) /\ Key(l, call)[2] = Held(call, l.at.user)
        BY <4>3, <4>4 DEF id, a, b
      <4> QED
        BY <1>6, <4>2, LaunchPlaces, AccountIs
    <3>5. log.f.user = user /\ log.f.mint = mint
      BY <3>1, <3>3, <3>4
    <3>6. log.program = "pumpfun" /\ log.log = "pumpfun_trade"
      <4>1. Trading(l.log)
        BY <3>2 DEF Trading, NoLog, LogTable, LogOf, PumpFunTradeLog, Amounts
      <4>2. log.program = call.program /\ log.log = l.log
        <5> HIDE DEF log, h
        <5> QED
          BY <3>1, <4>1, CandidateCall
      <4>3. call.program = l.program
        BY <1>1 DEF Matching
      <4> QED
        BY <1>6, <3>2, <4>2, <4>3, LaunchPlaces
    <3> QED
      BY <3>1, <3>5, <3>6 DEF CoinMakers
  <2> HIDE DEF mint, user
  <2>5. t.who = user /\ CoinMakers(tx, mint) \subseteq {t.maker}
    BY <1>6, <1>10 DEF NamesKnown, mint, user
  <2>3. at.user = t.who /\ at.creator \in {NoOne, t.maker}
    BY <1>2, <2>1, <2>2, <2>5
  <2>4. l # PumpFunCreate /\ l \notin BonkPools /\ l \notin BonkBuys \cup BonkSells
    BY <1>1, <1>6, LaunchLayouts
  <2> QED
    BY <1>3, <2>3, <2>4 DEF Parties, at
<1>7. CASE l \in BonkPools
  <2>1. "creator" \in DOMAIN e.at /\ e.at.creator = Account(l, call, l.at.creator)
    BY <1>1, <1>7, LaunchPlaces DEF Addresses
  <2>2. l # PumpFunCreate /\ l \notin {PumpFunBuy, PumpFunSell} /\ l \notin BonkBuys \cup BonkSells
    BY <1>1, <1>7, LaunchLayouts
  <2>3. own # {} => log.f.creator = t.maker
    BY <1>4, <1>7, <2>2 DEF DevsKnown, MakersKnown
  <2>5. t.who = Account(l, call, l.at.creator) /\ t.maker = t.who
    BY <1>7, <1>10 DEF NamesKnown
  <2>4. at.creator = t.who
    BY <1>2, <2>1, <2>3, <2>5
  <2> QED
    BY <1>3, <2>2, <2>4 DEF Parties, at
<1>8. CASE l \in BonkBuys \cup BonkSells
  <2>1. "payer" \in DOMAIN e.at /\ e.at.payer = Account(l, call, l.at.payer)
    BY <1>1, <1>8, LaunchPlaces DEF Addresses
  <2>2. l # PumpFunCreate /\ l \notin {PumpFunBuy, PumpFunSell} /\ l \notin BonkPools
    BY <1>1, <1>8, LaunchLayouts
  <2>3. own # {} => "payer" \notin g.copies
    <3>1. own # {} => g.copies = LogTable["bonk_trade"].copies
      BY <1>4, <1>8, LaunchPlaces
    <3>2. "payer" \notin LogTable["bonk_trade"].copies
      BY DEF LogTable, BonkTradeLog, LogOf, Amounts
    <3> QED
      BY <3>1, <3>2
  <2>5. t.who = Account(l, call, l.at.payer)
    BY <1>8, <1>10 DEF NamesKnown
  <2>4. at.payer = t.who
    BY <1>2, <2>1, <2>3, <2>5
  <2> QED
    BY <1>3, <2>2, <2>4 DEF Parties, at
<1>9. CASE /\ l # PumpFunCreate /\ l \notin {PumpFunBuy, PumpFunSell}
           /\ l \notin BonkPools /\ l \notin BonkBuys \cup BonkSells
  BY <1>9 DEF Parties
<1> QED
  BY <1>5, <1>6, <1>7, <1>8, <1>9

\* No two instructions are met before each other.
LEMMA MetOnce ==
    ASSUME NEW tx, Shaped(tx), NEW b \in Indexes(tx), NEW c \in Indexes(tx), MetBefore(b, c)
    PROVE  ~MetBefore(c, b)
<1>1. /\ b[1] \in Nat /\ Len(b) \in {1, 2} /\ (Len(b) = 2 => b[2] \in Nat)
      /\ c[1] \in Nat /\ Len(c) \in {1, 2} /\ (Len(c) = 2 => c[2] \in Nat)
  BY IndexIs
<1> QED
  BY <1>1 DEF MetBefore

\* What is taken to have run before is what is met before.
LEMMA TakenIsMet ==
    ASSUME NEW tx, Shaped(tx), NEW b \in Indexes(tx), NEW c \in Indexes(tx)
    PROVE  TakenAsBefore(b, c) <=> MetBefore(b, c)
<1>1. /\ b[1] \in Nat /\ Len(b) \in {1, 2} /\ (Len(b) = 2 => b[2] \in Nat)
      /\ c[1] \in Nat /\ Len(c) \in {1, 2} /\ (Len(c) = 2 => c[2] \in Nat)
  BY IndexIs
<1>2. CASE Len(b) = 1 /\ Len(c) = 2
  BY <1>1, <1>2 DEF TakenAsBefore, MetBefore, Ran, Precedes
<1>3. CASE ~(Len(b) = 1 /\ Len(c) = 2)
  BY <1>1, <1>3 DEF TakenAsBefore, MetBefore, Ran, Precedes
<1> QED
  BY <1>2, <1>3

\* The layouts of creations are those that take what creates, and nothing else.
LEMMA CreationLayout ==
    ASSUME NEW item, item.kind = "call", CallKnown(item)
    PROVE  /\ item.truth.full /\ item.truth.type \in Creations["PumpFunTradeEvent"]
                 => PumpFunCreate \in Taking(item)
           /\ item.truth.full /\ item.truth.type \in Creations["BonkTradeEvent"]
                 => \E l \in BonkPools : l \in Taking(item)
           /\ PumpFunCreate \in Taking(item) => item.truth.type \in Creations["PumpFunTradeEvent"]
           /\ \A l \in BonkPools : l \in Taking(item)
                 => item.truth.type \in Creations["BonkTradeEvent"]
<1>1. /\ PumpFunCreate.type = "PumpFunCreateToken" /\ PumpFunCreate.log # NoLog
      /\ \A l \in BonkPools : l.type \in {"BonkInitialize", "BonkInitializeV2"} /\ l.log # NoLog
      /\ \E l \in BonkPools : l.type = "BonkInitialize"
      /\ \E l \in BonkPools : l.type = "BonkInitializeV2"
  BY DEF PumpFunCreate, BonkPools, Plain, With, NoLog
<1>2. {PumpFunCreate} \cup BonkPools \subseteq AllLayouts
  BY DEF AllLayouts, PumpFunLayouts, BonkLayouts
<1>3. /\ Creations["PumpFunTradeEvent"] = {"PumpFunCreateToken"}
      /\ Creations["BonkTradeEvent"] = {"BonkInitialize", "BonkInitializeV2"}
  BY DEF Creations
<1>4. PICK k \in AllLayouts :
         k.program = item.program /\ k.disc = item.disc /\ k.type = item.truth.type
  BY DEF CallKnown
<1>5. item.truth.full => k \in Taking(item)
  BY <1>4 DEF CallKnown, Taking, Matching
<1>6. ASSUME NEW l \in {PumpFunCreate} \cup BonkPools, item.truth.full, item.truth.type = l.type
      PROVE  l \in Taking(item)
  BY <1>1, <1>2, <1>4, <1>5, <1>6, OneType
<1>7. ASSUME NEW l \in Taking(item)
      PROVE  item.truth.type = l.type
  <2>1. l \in AllLayouts /\ l.program = item.program /\ l.disc = item.disc
    BY DEF Taking, Matching
  <2> QED
    BY <1>4, <2>1, OneLayout
<1> QED
  BY <1>1, <1>3, <1>6, <1>7

\* The events of a transaction: what they are, and in which order.
Ranked(es, table, tx) ==
    /\ IsSeq(es)
    /\ \A m, n \in DOMAIN es : es[m].index = es[n].index => m = n
    /\ \A m, n \in DOMAIN es : m < n => MetBefore(es[m].index, es[n].index)
    /\ \A n \in DOMAIN es : Flagged(es, n)
    /\ \A c \in CallsOf(tx) : \A l \in table \cap Taking(ItemAt(tx, c)) :
          \E m \in DOMAIN es : es[m].index = c
    /\ \A n \in DOMAIN es :
          /\ es[n].index \in CallsOf(tx)
          /\ \E l \in Taking(ItemAt(tx, es[n].index)) :
                es[n].struct = l.struct /\ Parties(l, ItemAt(tx, es[n].index), es[n].at)

LEMMA EventsRanked ==
    ASSUME NEW table \in SUBSET AllLayouts, NEW tx, Shaped(tx), ~tx.failed,
           \A index \in Indexes(tx) : ItemKnown(ItemAt(tx, index)), LogsKnown(tx), DevsKnown(tx),
           NEW es, es = ParseTransaction(table, tx)
    PROVE  Ranked(es, table, tx)
<1>1. /\ IsSeq(es)
      /\ \A m, n \in DOMAIN es : es[m].index = es[n].index => m = n
  BY TransactionEvents
<1>4. \A m, n \in DOMAIN es : m < n => MetBefore(es[m].index, es[n].index)
  BY TransactionEvents
<1>5. \A n \in DOMAIN es : Flagged(es, n)
  BY TransactionEvents
<1>6. \A index \in Indexes(tx) :
         Fits(table, ItemAt(tx, index)) => \E n \in DOMAIN es : es[n].index = index
  BY TransactionEvents
<1>2. ASSUME NEW c \in CallsOf(tx), NEW l \in table \cap Taking(ItemAt(tx, c))
      PROVE  \E m \in DOMAIN es : es[m].index = c
  <2>1. c \in Indexes(tx) /\ Fits(table, ItemAt(tx, c))
    BY DEF CallsOf, Fits, Taking, Matching
  <2> QED
    BY <1>6, <2>1
<1>3. ASSUME NEW n \in DOMAIN es
      PROVE  /\ es[n].index \in CallsOf(tx)
             /\ \E l \in Taking(ItemAt(tx, es[n].index)) :
                   es[n].struct = l.struct /\ Parties(l, ItemAt(tx, es[n].index), es[n].at)
  <2> DEFINE c == es[n].index
             call == ItemAt(tx, c)
  <2>1. call = ItemAt(tx, es[n].index)
    OBVIOUS
  <2> HIDE DEF call
  <2>2. PICK l \in AllLayouts : \E e :
           /\ c \in Indexes(tx) /\ call.kind = "call"
           /\ l \in Matching(table, call) /\ ~Short(l, call) /\ es[n].struct = l.struct
           /\ MadeFrom(e, l, call) /\ e.index = c
           /\ SameFilled(MergeLogs(e, ToldEvents(table, tx)), es[n])
    BY <2>1, EventIs
  <2>3. PICK e :
           /\ c \in Indexes(tx) /\ call.kind = "call"
           /\ l \in Matching(table, call) /\ ~Short(l, call) /\ es[n].struct = l.struct
           /\ MadeFrom(e, l, call) /\ e.index = c
           /\ SameFilled(MergeLogs(e, ToldEvents(table, tx)), es[n])
    BY <2>2
  <2>4. c \in CallsOf(tx) /\ l \in Taking(call)
    BY <2>1, <2>3 DEF CallsOf, Taking, Matching
  <2>5. es[n].at = MergeLogs(e, ToldEvents(table, tx)).at
    BY <2>3 DEF SameFilled, Filled
  <2>6. Parties(l, call, MergeLogs(e, ToldEvents(table, tx)).at)
    <3>1. call = ItemAt(tx, c)
      BY <2>1
    <3> HIDE DEF c
    <3> QED
      BY <2>3, <2>4, <3>1, PartiesTold
  <2> QED
    BY <2>1, <2>3, <2>4, <2>5, <2>6
<1> QED
  BY <1>1, <1>2, <1>3, <1>4, <1>5 DEF Ranked

\* Both filters let creations through.
LEMMA CreationsAsked ==
    ASSUME NEW filter \in DOMAIN Included
    PROVE  {PumpFunCreate} \cup BonkPools \subseteq Table[filter]
<1>1. /\ PumpFunCreate.type = "PumpFunCreateToken" /\ PumpFunCreate.program = "pumpfun"
      /\ \A l \in BonkPools : l.type \in {"BonkInitialize", "BonkInitializeV2"} /\ l.program = "bonk"
  BY DEF PumpFunCreate, BonkPools, Plain, With
<1>2. {PumpFunCreate} \cup BonkPools \subseteq AllLayouts
  BY DEF AllLayouts, PumpFunLayouts, BonkLayouts
<1>3. {PumpFunCreate} \cup BonkPools \subseteq Table["main"]
  BY <1>1, <1>2 DEF Table, ParserTable, Programs, Included, Selected
<1>4. {PumpFunCreate} \cup BonkPools \subseteq Table["none"]
  BY <1>1, <1>2 DEF Table, ParserTable, Programs, Included
<1> QED
  BY <1>3, <1>4 DEF Included

\* One event is met before another just when its place is before.
LEMMA PlaceBefore ==
    ASSUME NEW table, NEW tx, Shaped(tx), NEW es, Ranked(es, table, tx),
           NEW m \in DOMAIN es, NEW n \in DOMAIN es
    PROVE  /\ m \in Nat /\ n \in Nat /\ m >= 1 /\ n >= 1
           /\ m < n <=> MetBefore(es[m].index, es[n].index)
<1>1. m \in Nat /\ n \in Nat /\ m >= 1 /\ n >= 1
  BY DEF Ranked, IsSeq
<1>2. es[m].index \in Indexes(tx) /\ es[n].index \in Indexes(tx)
  BY DEF Ranked, CallsOf
<1>3. m < n => MetBefore(es[m].index, es[n].index)
  BY DEF Ranked
<1>4. MetBefore(es[m].index, es[n].index) => m # n /\ ~(n < m)
  <2>1. n < m => MetBefore(es[n].index, es[m].index)
    BY DEF Ranked
  <2> QED
    BY <1>2, <2>1, MetOnce
<1> QED
  BY <1>1, <1>3, <1>4

\* What an event before another one of a transaction creates.
LEMMA CreatedIs ==
    ASSUME NEW table \in SUBSET AllLayouts, NEW tx, Shaped(tx), NEW es, Ranked(es, table, tx),
           \A index \in Indexes(tx) : ItemKnown(ItemAt(tx, index)),
           NEW n \in DOMAIN es, NEW m \in 1..(n - 1), NEW b, b = es[m].index,
           NEW t, t = ItemAt(tx, b).truth
    PROVE  /\ m \in DOMAIN es /\ b \in CallsOf(tx)
           /\ es[m].struct = "PumpFunCreateTokenEvent" =>
                 /\ b \in CreatedBefore(tx, es[n].index, "PumpFunTradeEvent")
                 /\ es[m].at.user = t.who /\ es[m].at.creator \in {NoOne, t.maker}
           /\ es[m].struct = "BonkPoolCreateEvent" =>
                 /\ b \in CreatedBefore(tx, es[n].index, "BonkTradeEvent")
                 /\ es[m].at.creator = t.who
<1> DEFINE call == ItemAt(tx, b)
<1>1. m \in DOMAIN es /\ m < n
  <2>1. Len(es) \in Nat /\ DOMAIN es = 1..Len(es)
    BY DEF Ranked, IsSeq
  <2> QED
    BY <2>1
<1>2. b \in CallsOf(tx) /\ TakenAsBefore(b, es[n].index)
  <2>1. MetBefore(b, es[n].index) /\ b \in CallsOf(tx) /\ es[n].index \in CallsOf(tx)
    BY <1>1 DEF Ranked
  <2> QED
    BY <2>1, TakenIsMet DEF CallsOf
<1>3. PICK l \in Taking(call) : es[m].struct = l.struct /\ Parties(l, call, es[m].at)
  BY <1>1 DEF Ranked
<1>4. l \in AllLayouts
  BY DEF Taking, Matching
<1>5. call.kind = "call" /\ CallKnown(call)
  BY <1>2 DEF CallsOf, ItemKnown
<1>6. ASSUME es[m].struct = "PumpFunCreateTokenEvent"
      PROVE  /\ b \in CreatedBefore(tx, es[n].index, "PumpFunTradeEvent")
             /\ es[m].at.user = t.who /\ es[m].at.creator \in {NoOne, t.maker}
  <2>1. l = PumpFunCreate
    BY <1>3, <1>4, <1>6, LaunchLayouts
  <2>2. call.truth.type \in Creations["PumpFunTradeEvent"]
    BY <1>5, <2>1, CreationLayout
  <2> QED
    BY <1>2, <1>3, <2>1, <2>2 DEF CreatedBefore, Parties
<1>7. ASSUME es[m].struct = "BonkPoolCreateEvent"
      PROVE  /\ b \in CreatedBefore(tx, es[n].index, "BonkTradeEvent")
             /\ es[m].at.creator = t.who
  <2>1. l \in BonkPools
    BY <1>3, <1>4, <1>7, LaunchLayouts
  <2>2. call.truth.type \in Creations["BonkTradeEvent"]
    BY <1>5, <2>1, CreationLayout
  <2> QED
    BY <1>2, <1>3, <2>1, <2>2 DEF CreatedBefore, Parties
<1> QED
  BY <1>1, <1>2, <1>6, <1>7

\* An instruction has made one of the events before the nth.
Found(es, n, b, struct) ==
    \E m \in 1..(n - 1) : m \in DOMAIN es /\ es[m].index = b /\ es[m].struct = struct

\* The event of a creation, by that of the trades that follow it.
CreationOf(struct) ==
    IF struct = "PumpFunTradeEvent" THEN "PumpFunCreateTokenEvent" ELSE "BonkPoolCreateEvent"

\* What created a token before an event has made one before it.
LEMMA CreatedFound ==
    ASSUME NEW filter \in DOMAIN Included, NEW table \in SUBSET AllLayouts, table = Table[filter],
           NEW tx, Shaped(tx), NEW es, Ranked(es, table, tx),
           \A index \in Indexes(tx) : ItemKnown(ItemAt(tx, index)),
           NEW n \in DOMAIN es, NEW struct \in {"PumpFunTradeEvent", "BonkTradeEvent"},
           NEW b \in CreatedBefore(tx, es[n].index, struct), ItemAt(tx, b).truth.full
    PROVE  Found(es, n, b, CreationOf(struct))
<1> DEFINE call == ItemAt(tx, b)
           layouts == IF struct = "PumpFunTradeEvent" THEN {PumpFunCreate} ELSE BonkPools
<1>1. /\ b \in CallsOf(tx) /\ TakenAsBefore(b, es[n].index)
      /\ call.truth.type \in Creations[struct]
  BY DEF CreatedBefore
<1>2. MetBefore(b, es[n].index)
  <2>1. es[n].index \in CallsOf(tx)
    BY DEF Ranked
  <2> QED
    BY <1>1, <2>1, TakenIsMet DEF CallsOf
<1>3. call.kind = "call" /\ CallKnown(call)
  BY <1>1 DEF CallsOf, ItemKnown
<1>4. PICK l \in layouts : l \in Taking(call)
  BY <1>1, <1>3, CreationLayout
<1>5. l \in table
  BY CreationsAsked
<1>6. PICK m \in DOMAIN es : es[m].index = b
  BY <1>1, <1>4, <1>5 DEF Ranked
<1>7. m \in Nat /\ n \in Nat /\ m >= 1 /\ m < n
  BY <1>2, <1>6, PlaceBefore
<1>8. m \in 1..(n - 1)
  BY <1>7
<1>9. PICK k \in Taking(call) : es[m].struct = k.struct
  BY <1>6 DEF Ranked
<1>10. /\ k \in AllLayouts /\ l \in AllLayouts /\ k.program = l.program /\ k.disc = l.disc
  BY <1>4 DEF Taking, Matching
<1>11. k = l
  BY <1>10, OneLayout
<1>12. l.struct = CreationOf(struct)
  BY <1>10, LaunchLayouts DEF CreationOf
<1> QED
  BY <1>6, <1>8, <1>9, <1>11, <1>12 DEF Found

\* The event of a trade tells who trades.
LEMMA TraderIs ==
    ASSUME NEW table, NEW tx, NEW es, Ranked(es, table, tx), NEW n \in DOMAIN es,
           \A index \in Indexes(tx) : ItemKnown(ItemAt(tx, index)),
           \A c \in CallsOf(tx) : NamesKnown(ItemAt(tx, c)),
           NEW t, t = ItemAt(tx, es[n].index).truth
    PROVE  /\ es[n].struct = "PumpFunTradeEvent" =>
                 es[n].at.user = t.who /\ es[n].at.creator \in {NoOne, t.maker} /\ t.who # NoOne
           /\ es[n].struct = "BonkTradeEvent" => es[n].at.payer = t.who /\ t.who # "nobody"
<1> DEFINE call == ItemAt(tx, es[n].index)
<1>1. es[n].index \in CallsOf(tx)
  BY DEF Ranked
<1>2. PICK l \in Taking(call) : es[n].struct = l.struct /\ Parties(l, call, es[n].at)
  BY DEF Ranked
<1>3. l \in AllLayouts
  BY DEF Taking, Matching
<1>4. SignersKnown(call) /\ NamesKnown(call)
  BY <1>1 DEF CallsOf, ItemKnown
<1>5. ASSUME es[n].struct = "PumpFunTradeEvent"
      PROVE  es[n].at.user = t.who /\ es[n].at.creator \in {NoOne, t.maker} /\ t.who # NoOne
  <2>1. l \in {PumpFunBuy, PumpFunSell}
    BY <1>2, <1>3, <1>5, LaunchLayouts
  <2>2. "user" \in DOMAIN l.at
    BY <2>1, LaunchPlaces
  <2>3. call.truth.who = Account(l, call, l.at["user"])
    BY <1>4, <2>1 DEF NamesKnown
  <2>4. Account(l, call, l.at["user"]) # NoOne
    BY <1>4, <2>2 DEF SignersKnown
  <2> QED
    BY <1>2, <2>1, <2>3, <2>4 DEF Parties
<1>6. ASSUME es[n].struct = "BonkTradeEvent"
      PROVE  es[n].at.payer = t.who /\ t.who # "nobody"
  <2>1. l \in BonkBuys \cup BonkSells
    BY <1>2, <1>3, <1>6, LaunchLayouts
  <2>2. "payer" \in DOMAIN l.at
    BY <2>1, LaunchPlaces
  <2>3. call.truth.who = Account(l, call, l.at["payer"])
    BY <1>4, <2>1 DEF NamesKnown
  <2>4. Account(l, call, l.at["payer"]) # "nobody"
    BY <1>4, <2>2 DEF SignersKnown
  <2> QED
    BY <1>2, <2>1, <2>3, <2>4 DEF Parties
<1> QED
  BY <1>5, <1>6

\* A trade of PumpFun is flagged after a creation by the trader,
LEMMA PumpFunYes ==
    ASSUME NEW filter \in DOMAIN Included, NEW table \in SUBSET AllLayouts, table = Table[filter],
           NEW tx, Shaped(tx), NEW es, Ranked(es, table, tx),
           \A index \in Indexes(tx) : ItemKnown(ItemAt(tx, index)),
           \A c \in CallsOf(tx) : NamesKnown(ItemAt(tx, c)),
           NEW n \in DOMAIN es, es[n].struct = "PumpFunTradeEvent",
           NEW b \in CreatedBefore(tx, es[n].index, "PumpFunTradeEvent"),
           ItemAt(tx, b).truth.full,
           ItemAt(tx, b).truth.who = ItemAt(tx, es[n].index).truth.who
    PROVE  es[n].dev
<1> DEFINE who == ItemAt(tx, b).truth.who
<1>1. PICK m \in 1..(n - 1) :
         m \in DOMAIN es /\ es[m].index = b /\ es[m].struct = "PumpFunCreateTokenEvent"
  BY CreatedFound DEF Found, CreationOf
<1>2. es[m].at.user = who
  BY <1>1, CreatedIs
<1>3. es[n].at.user = who
  BY TraderIs
<1>4. who \in DevsOf(es, n - 1)
  <2>1. m \in {k \in 1..(n - 1) : es[k].struct = "PumpFunCreateTokenEvent"}
    BY <1>1
  <2> HIDE DEF who
  <2> QED
    BY <1>2, <2>1 DEF DevsOf
<1>5. PICK p : es[n].dev = Flag(es[n], DevsOf(es, n - 1), p)
  BY DEF Ranked, Flagged, FlagOf
<1>6. Flag(es[n], DevsOf(es, n - 1), p)
  BY <1>3, <1>4 DEF Flag
<1> QED
  BY <1>5, <1>6

\* and only after one that has the trader or the maker for its own.
LEMMA PumpFunOnly ==
    ASSUME NEW table \in SUBSET AllLayouts,
           NEW tx, Shaped(tx), NEW es, Ranked(es, table, tx),
           \A index \in Indexes(tx) : ItemKnown(ItemAt(tx, index)),
           \A c \in CallsOf(tx) : NamesKnown(ItemAt(tx, c)),
           NEW n \in DOMAIN es, es[n].struct = "PumpFunTradeEvent", es[n].dev,
           NEW t, t = ItemAt(tx, es[n].index).truth
    PROVE  \E b \in CreatedBefore(tx, es[n].index, "PumpFunTradeEvent") :
              ({ItemAt(tx, b).truth.who, ItemAt(tx, b).truth.maker} \cap {t.who, t.maker})
                  \ {NoOne} # {}
<1>1. PICK p : es[n].dev = Flag(es[n], DevsOf(es, n - 1), p)
  BY DEF Ranked, Flagged, FlagOf
<1>2. PICK x \in DevsOf(es, n - 1) : x \in {es[n].at.user, es[n].at.creator}
  BY <1>1 DEF Flag
<1>3. PICK m \in {k \in 1..(n - 1) : es[k].struct = "PumpFunCreateTokenEvent"} :
         x \in {es[m].at.user} \cup ({es[m].at.creator} \ {NoOne})
  BY <1>2 DEF DevsOf
<1> DEFINE b == es[m].index
           made == ItemAt(tx, b).truth
<1>4. m \in 1..(n - 1) /\ es[m].struct = "PumpFunCreateTokenEvent"
  BY <1>3
<1>5. b = es[m].index /\ made = ItemAt(tx, b).truth
  OBVIOUS
<1> HIDE DEF b, made
<1>6. /\ b \in CreatedBefore(tx, es[n].index, "PumpFunTradeEvent") /\ b \in CallsOf(tx)
      /\ es[m].at.user = made.who /\ es[m].at.creator \in {NoOne, made.maker} /\ m \in DOMAIN es
  BY <1>4, <1>5, CreatedIs
<1>7. /\ es[n].at.user = t.who /\ es[n].at.creator \in {NoOne, t.maker} /\ t.who # NoOne
  BY TraderIs
<1>8. made.who # NoOne
  <2>1. PICK l \in Taking(ItemAt(tx, b)) : es[m].struct = l.struct
    BY <1>5, <1>6 DEF Ranked
  <2>2. l = PumpFunCreate
    BY <1>4, <2>1, LaunchLayouts DEF Taking, Matching
  <2>3. SignersKnown(ItemAt(tx, b)) /\ NamesKnown(ItemAt(tx, b))
    BY <1>6 DEF CallsOf, ItemKnown
  <2>4. "user" \in DOMAIN PumpFunCreate.at
    BY LaunchPlaces
  <2>5. Account(l, ItemAt(tx, b), l.at["user"]) # NoOne
    BY <2>2, <2>3, <2>4 DEF SignersKnown
  <2>6. ItemAt(tx, b).truth.who = Account(l, ItemAt(tx, b), l.at["user"])
    BY <2>2, <2>3 DEF NamesKnown
  <2> QED
    BY <1>5, <2>5, <2>6
<1>9. x # NoOne /\ x \in {made.who, made.maker} /\ x \in {t.who, t.maker}
  BY <1>2, <1>3, <1>6, <1>7, <1>8
<1> QED
  BY <1>5, <1>6, <1>9

\* A trade of Bonk is flagged if the pool before it is by the trader, and none comes
\* between the two,
LEMMA BonkYes ==
    ASSUME NEW filter \in DOMAIN Included, NEW table \in SUBSET AllLayouts, table = Table[filter],
           NEW tx, Shaped(tx), NEW es, Ranked(es, table, tx),
           \A index \in Indexes(tx) : ItemKnown(ItemAt(tx, index)),
           \A c \in CallsOf(tx) : NamesKnown(ItemAt(tx, c)),
           NEW n \in DOMAIN es, es[n].struct = "BonkTradeEvent",
           NEW before, before = CreatedBefore(tx, es[n].index, "BonkTradeEvent"),
           NEW b \in before, ItemAt(tx, b).truth.full,
           ItemAt(tx, b).truth.who = ItemAt(tx, es[n].index).truth.who,
           \A d \in before : d = b \/ TakenAsBefore(d, b)
    PROVE  es[n].dev
<1> DEFINE who == ItemAt(tx, b).truth.who
<1>1. PICK m \in 1..(n - 1) :
         m \in DOMAIN es /\ es[m].index = b /\ es[m].struct = "BonkPoolCreateEvent"
  BY CreatedFound DEF Found, CreationOf
<1>2. n \in Nat /\ m \in Nat /\ m >= 1 /\ m <= n - 1
  <2>1. n \in Nat
    BY <1>1, PlaceBefore
  <2> QED
    BY <2>1
<1>3. PICK p : LastPool(es, n - 1, p) /\ es[n].dev = Flag(es[n], DevsOf(es, n - 1), p)
  BY DEF Ranked, Flagged, FlagOf
<1>4. PICK i \in 1..(n - 1) : /\ es[i].struct = "BonkPoolCreateEvent" /\ p = es[i].at.creator
                              /\ NoPool(es, i + 1, n - 1)
  <2>1. ~NoPool(es, 1, n - 1)
    BY <1>1 DEF NoPool
  <2> QED
    BY <1>3, <2>1 DEF LastPool
<1>5. i \in Nat /\ i >= m
  <2>1. i < m => m \in (i + 1)..(n - 1)
    BY <1>2
  <2> QED
    BY <1>1, <1>2, <1>4, <2>1 DEF NoPool
<1> DEFINE d == es[i].index
<1>6. d = es[i].index
  OBVIOUS
<1> HIDE DEF d
<1>7. i \in DOMAIN es /\ d \in before /\ d \in CallsOf(tx)
  BY <1>4, <1>6, CreatedIs
<1>8. i = m
  <2>1. MetBefore(d, b) => i < m
    BY <1>1, <1>6, <1>7, PlaceBefore
  <2>2. TakenAsBefore(d, b) => MetBefore(d, b)
    BY <1>1, <1>7, TakenIsMet DEF Ranked, CallsOf
  <2>3. d = b => i = m
    BY <1>1, <1>6, <1>7 DEF Ranked
  <2> QED
    BY <1>2, <1>5, <1>7, <2>1, <2>2, <2>3
<1>9. es[m].at.creator = who
  BY <1>1, CreatedIs
<1>10. p = who
  BY <1>4, <1>8, <1>9
<1>11. es[n].at.payer = who
  BY TraderIs
<1>12. Flag(es[n], DevsOf(es, n - 1), p)
  BY <1>10, <1>11 DEF Flag
<1> QED
  BY <1>3, <1>12

\* and only after a pool by the trader that no full one follows.
LEMMA BonkOnly ==
    ASSUME NEW filter \in DOMAIN Included, NEW table \in SUBSET AllLayouts, table = Table[filter],
           NEW tx, Shaped(tx), NEW es, Ranked(es, table, tx),
           \A index \in Indexes(tx) : ItemKnown(ItemAt(tx, index)),
           \A c \in CallsOf(tx) : NamesKnown(ItemAt(tx, c)),
           NEW n \in DOMAIN es, es[n].struct = "BonkTradeEvent", es[n].dev,
           NEW before, before = CreatedBefore(tx, es[n].index, "BonkTradeEvent"),
           NEW t, t = ItemAt(tx, es[n].index).truth
    PROVE  \E b \in before :
              /\ ItemAt(tx, b).truth.who = t.who
              /\ \A d \in before : ItemAt(tx, d).truth.full => d = b \/ TakenAsBefore(d, b)
<1>1. PICK p : LastPool(es, n - 1, p) /\ es[n].dev = Flag(es[n], DevsOf(es, n - 1), p)
  BY DEF Ranked, Flagged, FlagOf
<1>2. es[n].at.payer = t.who /\ t.who # "nobody"
  BY TraderIs
<1>3. p = t.who
  BY <1>1, <1>2 DEF Flag
<1>4. PICK i \in 1..(n - 1) : /\ es[i].struct = "BonkPoolCreateEvent" /\ p = es[i].at.creator
                              /\ NoPool(es, i + 1, n - 1)
  BY <1>1, <1>2, <1>3 DEF LastPool
<1> DEFINE b == es[i].index
<1>5. b = es[i].index
  OBVIOUS
<1> HIDE DEF b
<1>6. i \in DOMAIN es /\ b \in before /\ b \in CallsOf(tx) /\ p = ItemAt(tx, b).truth.who
  BY <1>4, <1>5, CreatedIs
<1>7. ASSUME NEW d \in before, ItemAt(tx, d).truth.full
      PROVE  d = b \/ TakenAsBefore(d, b)
  <2>1. PICK m \in 1..(n - 1) :
           m \in DOMAIN es /\ es[m].index = d /\ es[m].struct = "BonkPoolCreateEvent"
    BY <1>7, CreatedFound DEF Found, CreationOf
  <2>2. n \in Nat /\ m \in Nat /\ i \in Nat /\ m <= n - 1
    <3>1. n \in Nat
      BY PlaceBefore
    <3> QED
      BY <3>1
  <2>3. m <= i
    <3>1. i < m => m \in (i + 1)..(n - 1)
      BY <2>2
    <3> QED
      BY <1>4, <2>1, <2>2, <3>1 DEF NoPool
  <2>4. m < i => MetBefore(d, b)
    BY <1>5, <1>6, <2>1 DEF Ranked
  <2>5. MetBefore(d, b) => TakenAsBefore(d, b)
    BY <1>6, <2>1, TakenIsMet DEF Ranked, CallsOf
  <2> QED
    BY <1>5, <2>1, <2>2, <2>3, <2>4, <2>5
<1> QED
  BY <1>3, <1>6, <1>7

\* A trade is flagged as the developer's by the creations that are taken to have run
\* before it, and by no others, for any messages: the parser meets the creation before
\* the trade where it is the transaction's own or the trade was called as well, and
\* process_events keeps every maker of PumpFun and that of the last pool of Bonk
\* (traits.rs:323-391).
THEOREM DevFlaggedHolds == Spec => []DevFlagged
<1> DEFINE Good(tx, e) ==
        LET t == ItemAt(tx, e.index).truth
            Deed(b) == ItemAt(tx, b).truth
            before == CreatedBefore(tx, e.index, e.struct)
        IN CASE e.struct = "PumpFunTradeEvent" ->
                  /\ (\E b \in before : Deed(b).full /\ Deed(b).who = t.who) => e.dev
                  /\ e.dev => \E b \in before :
                                 ({Deed(b).who, Deed(b).maker} \cap {t.who, t.maker}) \ {NoOne} # {}
             [] e.struct = "BonkTradeEvent" ->
                  /\ (\E b \in before : /\ Deed(b).full /\ Deed(b).who = t.who
                                        /\ \A d \in before : d = b \/ TakenAsBefore(d, b)) => e.dev
                  /\ e.dev => \E b \in before :
                                 /\ Deed(b).who = t.who
                                 /\ \A d \in before : Deed(d).full => d = b \/ TakenAsBefore(d, b)
             [] OTHER -> ~e.dev
<1>1. ASSUME NEW filter \in DOMAIN Included, NEW table \in SUBSET AllLayouts, table = Table[filter],
             NEW tx, Shaped(tx), ~tx.failed, LogsKnown(tx), DevsKnown(tx),
             \A index \in Indexes(tx) : ItemKnown(ItemAt(tx, index)),
             NEW es, es = ParseTransaction(table, tx), NEW k \in DOMAIN es
      PROVE  Good(tx, es[k])
  <2>1. Ranked(es, table, tx)
    BY <1>1, EventsRanked
  <2>2. \A c \in CallsOf(tx) : NamesKnown(ItemAt(tx, c))
    BY <1>1 DEF DevsKnown
  <2>3. CASE es[k].struct = "PumpFunTradeEvent"
    BY <1>1, <2>1, <2>2, <2>3, PumpFunYes, PumpFunOnly
  <2>4. CASE es[k].struct = "BonkTradeEvent"
    <3> DEFINE before == CreatedBefore(tx, es[k].index, "BonkTradeEvent")
    <3>1. before = CreatedBefore(tx, es[k].index, "BonkTradeEvent")
      OBVIOUS
    <3> HIDE DEF before
    <3>2. ASSUME NEW b \in before, ItemAt(tx, b).truth.full,
                 ItemAt(tx, b).truth.who = ItemAt(tx, es[k].index).truth.who,
                 \A d \in before : d = b \/ TakenAsBefore(d, b)
          PROVE  es[k].dev
      BY <1>1, <2>1, <2>2, <2>4, <3>1, <3>2, BonkYes
    <3>3. ASSUME es[k].dev
          PROVE  \E b \in before :
                    /\ ItemAt(tx, b).truth.who = ItemAt(tx, es[k].index).truth.who
                    /\ \A d \in before : ItemAt(tx, d).truth.full => d = b \/ TakenAsBefore(d, b)
      BY <1>1, <2>1, <2>2, <2>4, <3>1, <3>3, BonkOnly
    <3> QED
      BY <2>4, <3>1, <3>2, <3>3
  <2>5. CASE es[k].struct \notin {"PumpFunTradeEvent", "BonkTradeEvent"}
    <3>1. PICK p : es[k].dev = Flag(es[k], DevsOf(es, k - 1), p)
      BY <1>1, <2>1 DEF Ranked, Flagged, FlagOf
    <3>2. ~es[k].dev
      BY <2>5, <3>1 DEF Flag
    <3> QED
      BY <2>5, <3>2
  <2> QED
    BY <2>3, <2>4, <2>5
<1>2. ASSUME StreamInv, NEW n \in HeardCalls
      PROVE  Good(Chained(heard[n][1]).tx, HeardEvent(n))
  <2> DEFINE filter == setup.filter
             i == heard[n][1]
             k == heard[n][2]
             tx == Chained(i).tx
             table == Table[filter]
             es == ParseTransaction(table, tx)
  <2>1. n \in DOMAIN heard /\ Chained(i).kind = "tx" /\ i \in 1..pos /\ k \in Whole(i)
    <3>1. n \in DOMAIN heard /\ Chained(heard[n][1]).kind = "tx"
      BY DEF HeardCalls
    <3> QED
      BY <1>2, <3>1, HeardIs
  <2>2. /\ filter \in DOMAIN Included /\ table \in SUBSET AllLayouts /\ Shaped(tx) /\ ~tx.failed
        /\ LogsKnown(tx) /\ DevsKnown(tx)
        /\ \A index \in Indexes(tx) : ItemKnown(ItemAt(tx, index))
        /\ Whole(i) = DOMAIN es /\ feed[i].events = es
    <3>1. tx = Chained(i).tx /\ table = Table[setup.filter] /\ es = ParseTransaction(table, tx)
      OBVIOUS
    <3> HIDE DEF i, k, tx, table, es, Good
    <3> QED
      BY <1>2, <2>1, <3>1, MessageIs
  <2>3. HeardEvent(n) = es[k] /\ k \in DOMAIN es
    BY <2>1, <2>2 DEF HeardEvent
  <2>4. es = ParseTransaction(table, tx) /\ table = Table[filter] /\ tx = Chained(heard[n][1]).tx
    OBVIOUS
  <2> HIDE DEF filter, i, k, tx, table, es, Good
  <2> QED
    BY <1>1, <2>2, <2>3, <2>4
<1>3. StreamInv => DevFlagged
  <2> SUFFICES ASSUME StreamInv, NEW n \in HeardCalls
               PROVE  Good(Chained(heard[n][1]).tx, HeardEvent(n))
    BY DEF DevFlagged, Truth
  <2> QED
    BY <1>2
<1> QED
  BY <1>3, StreamInvariant, PTL

-----------------------------------------------------------------------------
(* The swap of an event *)

\* The recursive function by which WithSwap is defined.
IsSwap(f, legs, start, told, behind, m) ==
    f = [n \in 0..m |-> IF n = 0 THEN start
                        ELSE IF n \in told THEN TakeLeg(legs, f[n - 1], behind[n]) ELSE f[n - 1]]

\* It exists.
LEMMA SwapExists ==
    ASSUME NEW legs, NEW start, NEW told, NEW behind, NEW n \in Nat
    PROVE  \E f : IsSwap(f, legs, start, told, behind, n)
<1> DEFINE T == {m \in 0..n : \E f : IsSwap(f, legs, start, told, behind, m)}
<1>1. 0 \in T
  <2>1. IsSwap([i \in 0..0 |-> start], legs, start, told, behind, 0)
    BY DEF IsSwap
  <2> QED
    BY <2>1
<1>2. ASSUME NEW m \in 0 .. n - 1, m \in T
      PROVE  m + 1 \in T
  <2>1. PICK f : IsSwap(f, legs, start, told, behind, m)
    BY <1>2
  <2> DEFINE Step(s, i) == IF i \in told THEN TakeLeg(legs, s, behind[i]) ELSE s
             last == Step(f[m], m + 1)
             g == [i \in 0..(m + 1) |-> IF i <= m THEN f[i] ELSE last]
             h == [i \in 0..(m + 1) |-> IF i = 0 THEN start ELSE Step(g[i - 1], i)]
  <2>2. \A i \in 0..m : f[i] = IF i = 0 THEN start ELSE Step(f[i - 1], i)
    BY <2>1 DEF IsSwap
  <2>6. (g = h) => IsSwap(g, legs, start, told, behind, m + 1)
    <3> HIDE DEF g
    <3> QED
      BY DEF IsSwap
  <2> HIDE DEF Step
  <2>3. ASSUME NEW i \in 0..(m + 1)
        PROVE  g[i] = h[i]
    <3>1. CASE i <= m
      <4>1. i \in 0..m /\ g[i] = f[i] /\ (i # 0 => g[i - 1] = f[i - 1])
        BY <3>1
      <4> QED
        BY <2>2, <4>1
    <3>2. CASE i = m + 1
      <4>1. g[i] = last /\ i # 0 /\ g[i - 1] = f[m]
        BY <3>2
      <4> QED
        BY <3>2, <4>1
    <3> QED
      BY <3>1, <3>2
  <2>4. g = h
    <3> HIDE DEF last
    <3> QED
      BY <2>3
  <2> HIDE DEF g, h
  <2>5. IsSwap(g, legs, start, told, behind, m + 1)
    BY <2>4, <2>6
  <2> QED
    BY <2>5
<1>3. 0..n \subseteq T
  <2> HIDE DEF T
  <2> QED
    BY <1>1, <1>2, AllUpTo
<1> QED
  BY <1>3

\* A swap of nothing, and that of the mints which the event names.
Blank == [from |-> NoOne, to |-> NoOne, paid |-> 0, got |-> 0]
Named(e) == [Blank EXCEPT !.from = NamedMints(e).from, !.to = NamedMints(e).to]

\* The swap of an event follows the transfers behind its instruction one by one.
Followed(f, e, F) ==
    /\ f[0] = Named(e)
    /\ \A n \in 1..Len(F) : f[n] = IF Told(F[n]) THEN TakeLeg(SwapHints(e), f[n - 1], F[n]) ELSE f[n - 1]

Ends(f, e, F, d) ==
    d = IF (\A n \in 1..Len(F) : ~Told(F[n])) \/ f[Len(F)] = Blank
        THEN e ELSE [e EXCEPT !.swap = <<f[Len(F)]>>]

LEMMA SwapFollows ==
    ASSUME NEW e, NEW items, NEW child, NEW F, F = Following(items, child), IsSeq(F)
    PROVE  \E f : Followed(f, e, F) /\ Ends(f, e, F, WithSwap(e, items, child))
<1> DEFINE N == Len(F)
           told == {n \in DOMAIN F : Told(F[n])}
           legs == SwapHints(e)
           start == [Blank EXCEPT !.from = NamedMints(e).from, !.to = NamedMints(e).to]
           f == CHOOSE g : g = [n \in 0..Len(F) |->
                                   IF n = 0 THEN start
                                   ELSE IF n \in told THEN TakeLeg(legs, g[n - 1], F[n]) ELSE g[n - 1]]
<1>1. N \in Nat /\ DOMAIN F = 1..N
  BY DEF IsSeq
<1>2. WithSwap(e, items, child) =
         IF told = {} \/ f[N] = Blank THEN e ELSE [e EXCEPT !.swap = <<f[N]>>]
  BY DEF WithSwap, Blank
<1>3. IsSwap(f, legs, start, told, F, N)
  <2>1. \E g : IsSwap(g, legs, start, told, F, N)
    BY <1>1, SwapExists
  <2> HIDE DEF told, legs, start
  <2> QED
    BY <2>1 DEF IsSwap
<1> HIDE DEF f
<1>4. start = Named(e)
  BY DEF Named
<1> HIDE DEF start, legs, N
<1>5. Followed(f, e, F)
  <2>1. \A n \in 0..N : f[n] = IF n = 0 THEN start
                               ELSE IF n \in told THEN TakeLeg(legs, f[n - 1], F[n]) ELSE f[n - 1]
    BY <1>3 DEF IsSwap
  <2>2. f[0] = Named(e)
    BY <1>1, <1>4, <2>1
  <2>3. \A n \in 1..N : n \in 0..N /\ n # 0 /\ (n \in told <=> Told(F[n]))
    BY <1>1
  <2> HIDE DEF told
  <2>4. \A n \in 1..N : f[n] = IF Told(F[n]) THEN TakeLeg(legs, f[n - 1], F[n]) ELSE f[n - 1]
    BY <2>1, <2>3
  <2> QED
    BY <2>2, <2>4 DEF Followed, N, legs
<1>6. told = {} <=> \A n \in 1..N : ~Told(F[n])
  BY <1>1
<1> HIDE DEF told
<1>7. Ends(f, e, F, WithSwap(e, items, child))
  BY <1>2, <1>6 DEF Ends, N
<1> QED
  BY <1>5, <1>7

\* A transfer gives something away, brings something in, or is none of the swap.
Gives(legs, t) ==
    \/ t.from = legs.user_to /\ t.to = legs.to_vault
    \/ t.from = legs.user_from /\ t.to = legs.from_vault
Brings(legs, t) ==
    \/ t.from = legs.from_vault /\ t.to = legs.user_from
    \/ t.from = legs.to_vault /\ t.to = legs.user_to

Moves(legs, s, t, r) ==
    \/ t.from = legs.user_to /\ t.to = legs.to_vault
          /\ r = [s EXCEPT !.from = legs.to_mint, !.paid = t.amount]
    \/ t.from = legs.from_vault /\ t.to = legs.user_from
          /\ r = [s EXCEPT !.to = legs.from_mint, !.got = t.amount]
    \/ t.from = legs.user_from /\ t.to = legs.from_vault
          /\ r = [s EXCEPT !.from = legs.from_mint, !.paid = t.amount]
    \/ t.from = legs.to_vault /\ t.to = legs.user_to
          /\ r = [s EXCEPT !.to = legs.to_mint, !.got = t.amount]
    \/ ~Gives(legs, t) /\ ~Brings(legs, t) /\ r = s

LEMMA TakeLegIs ==
    ASSUME NEW legs, NEW s, NEW t
    PROVE  Moves(legs, s, t, TakeLeg(legs, s, t))
BY DEF TakeLeg, Moves, Gives, Brings

\* A swap that shows nothing but what the call does, or leaves it out.
Fair(s, t) ==
    /\ DOMAIN s = {"from", "to", "paid", "got"}
    /\ s.from \in {NoOne, t.from} /\ s.to \in {NoOne, t.to}
    /\ s.paid \in {0, t.paid} /\ s.got \in {0, t.got}

\* A transfer that does what the call does.
Honest(legs, v, t) ==
    /\ v.from = legs.user_to /\ v.to = legs.to_vault =>
          v.amount = t.paid /\ legs.to_mint \in {NoOne, t.from}
    /\ v.from = legs.user_from /\ v.to = legs.from_vault =>
          v.amount = t.paid /\ legs.from_mint \in {NoOne, t.from}
    /\ v.from = legs.from_vault /\ v.to = legs.user_from =>
          v.amount = t.got /\ legs.from_mint \in {NoOne, t.to}
    /\ v.from = legs.to_vault /\ v.to = legs.user_to =>
          v.amount = t.got /\ legs.to_mint \in {NoOne, t.to}

Stays(legs, t, s, v, r) ==
    /\ Fair(r, t) /\ r.paid \in {s.paid, t.paid} /\ r.got \in {s.got, t.got}
    /\ Gives(legs, v) /\ ~Brings(legs, v) => r.paid = t.paid
    /\ Brings(legs, v) /\ ~Gives(legs, v) => r.got = t.got
    /\ ~Gives(legs, v) /\ ~Brings(legs, v) => r = s

LEMMA LegFair ==
    ASSUME NEW legs, NEW t, NEW s, Fair(s, t), NEW v, Honest(legs, v, t)
    PROVE  Stays(legs, t, s, v, TakeLeg(legs, s, v))
<1> DEFINE r == TakeLeg(legs, s, v)
<1>1. Moves(legs, s, v, r)
  BY TakeLegIs
<1> HIDE DEF r
<1>2. ASSUME Gives(legs, v), v.amount = t.paid,
             NEW m \in {NoOne, t.from}, r = [s EXCEPT !.from = m, !.paid = v.amount]
      PROVE  Stays(legs, t, s, v, r)
  <2>1. DOMAIN r = DOMAIN s /\ r.from = m /\ r.paid = t.paid /\ r.to = s.to /\ r.got = s.got
    BY <1>2 DEF Fair
  <2> QED
    BY <1>2, <2>1 DEF Fair, Stays
<1>3. ASSUME Brings(legs, v), v.amount = t.got,
             NEW m \in {NoOne, t.to}, r = [s EXCEPT !.to = m, !.got = v.amount]
      PROVE  Stays(legs, t, s, v, r)
  <2>1. DOMAIN r = DOMAIN s /\ r.to = m /\ r.got = t.got /\ r.from = s.from /\ r.paid = s.paid
    BY <1>3 DEF Fair
  <2> QED
    BY <1>3, <2>1 DEF Fair, Stays
<1>4. ASSUME ~Gives(legs, v), ~Brings(legs, v), r = s
      PROVE  Stays(legs, t, s, v, r)
  <2>1. Fair(r, t) /\ r.paid \in {s.paid, t.paid} /\ r.got \in {s.got, t.got}
    BY <1>4
  <2> QED
    BY <1>4, <2>1 DEF Stays
<1>5. Stays(legs, t, s, v, r)
  <2>1. CASE v.from = legs.user_to /\ v.to = legs.to_vault
                /\ r = [s EXCEPT !.from = legs.to_mint, !.paid = v.amount]
    BY <1>2, <2>1 DEF Honest, Gives
  <2>2. CASE v.from = legs.from_vault /\ v.to = legs.user_from
                /\ r = [s EXCEPT !.to = legs.from_mint, !.got = v.amount]
    BY <1>3, <2>2 DEF Honest, Brings
  <2>3. CASE v.from = legs.user_from /\ v.to = legs.from_vault
                /\ r = [s EXCEPT !.from = legs.from_mint, !.paid = v.amount]
    BY <1>2, <2>3 DEF Honest, Gives
  <2>4. CASE v.from = legs.to_vault /\ v.to = legs.user_to
                /\ r = [s EXCEPT !.to = legs.to_mint, !.got = v.amount]
    BY <1>3, <2>4 DEF Honest, Brings
  <2>5. CASE ~Gives(legs, v) /\ ~Brings(legs, v) /\ r = s
    BY <1>4, <2>5
  <2> QED
    BY <1>1, <2>1, <2>2, <2>3, <2>4, <2>5, Zenon DEF Moves
<1> QED
  BY <1>5 DEF r

\* If each of the transfers does what the call does, so does the swap; and it has
\* what was given and what was brought as soon as one of them did.
LEMMA SwapFair ==
    ASSUME NEW F, IsSeq(F), NEW e, NEW f, Followed(f, e, F), NEW t, Fair(Named(e), t),
           NEW legs, legs = SwapHints(e),
           \A n \in 1..Len(F) : Told(F[n]) => Honest(legs, F[n], t)
    PROVE  /\ Fair(f[Len(F)], t)
           /\ \A n \in 1..Len(F) :
                 Told(F[n]) /\ Gives(legs, F[n]) /\ ~Brings(legs, F[n]) => f[Len(F)].paid = t.paid
           /\ \A n \in 1..Len(F) :
                 Told(F[n]) /\ Brings(legs, F[n]) /\ ~Gives(legs, F[n]) => f[Len(F)].got = t.got
           /\ (\A n \in 1..Len(F) : Told(F[n]) => ~Gives(legs, F[n]) /\ ~Brings(legs, F[n]))
                 => f[Len(F)] = Named(e)
<1> DEFINE N == Len(F)
           Given(n) == Told(F[n]) /\ Gives(legs, F[n]) /\ ~Brings(legs, F[n])
           Brought(n) == Told(F[n]) /\ Brings(legs, F[n]) /\ ~Gives(legs, F[n])
           Idle(n) == Told(F[n]) => ~Gives(legs, F[n]) /\ ~Brings(legs, F[n])
           Good(m) == /\ Fair(f[m], t)
                      /\ \A n \in 1..m : Given(n) => f[m].paid = t.paid
                      /\ \A n \in 1..m : Brought(n) => f[m].got = t.got
                      /\ (\A n \in 1..m : Idle(n)) => f[m] = Named(e)
           T == {m \in Nat : Good(m)}
<1>1. N \in Nat
  BY DEF IsSeq
<1>2. /\ f[0] = Named(e)
      /\ \A n \in 1..N : f[n] = IF Told(F[n]) THEN TakeLeg(legs, f[n - 1], F[n]) ELSE f[n - 1]
  BY DEF Followed
<1>3. \A n \in 1..N : Told(F[n]) => Honest(legs, F[n], t)
  OBVIOUS
<1>4. 0 \in T
  BY <1>2
<1>5. ASSUME NEW m \in 0 .. N - 1, m \in T
      PROVE  m + 1 \in T
  <2> DEFINE k == m + 1
             s == f[m]
             r == f[k]
  <2>1. k \in 1..N /\ k - 1 = m /\ m \in Nat /\ k \in Nat /\ \A n \in 1..k : n \in 1..m \/ n = k
    BY <1>1
  <2>6. \A n \in 1..m : n \in 1..k
    BY <2>1
  <2>7. k \in 1..k
    BY <2>1
  <2>2. /\ Fair(s, t)
        /\ \A n \in 1..m : Given(n) => s.paid = t.paid
        /\ \A n \in 1..m : Brought(n) => s.got = t.got
        /\ (\A n \in 1..m : Idle(n)) => s = Named(e)
    BY <1>5
  <2>3. r = IF Told(F[k]) THEN TakeLeg(legs, s, F[k]) ELSE s
    BY <1>2, <2>1
  <2> HIDE DEF k, s, r
  <2>4. /\ Fair(r, t) /\ r.paid \in {s.paid, t.paid} /\ r.got \in {s.got, t.got}
        /\ Given(k) => r.paid = t.paid
        /\ Brought(k) => r.got = t.got
        /\ Idle(k) => r = s
    <3>1. CASE Told(F[k])
      <4>1. r = TakeLeg(legs, s, F[k]) /\ Honest(legs, F[k], t)
        BY <1>3, <2>1, <2>3, <3>1
      <4>2. Stays(legs, t, s, F[k], r)
        BY <2>2, <4>1, LegFair
      <4> QED
        BY <3>1, <4>2 DEF Stays
    <3>2. CASE ~Told(F[k])
      BY <2>2, <2>3, <3>2
    <3> QED
      BY <3>1, <3>2
  <2> HIDE DEF Given, Brought, Idle
  <2>8. \A n \in 1..k : Given(n) => r.paid = t.paid
    BY <2>1, <2>2, <2>4
  <2>9. \A n \in 1..k : Brought(n) => r.got = t.got
    BY <2>1, <2>2, <2>4
  <2>10. (\A n \in 1..k : Idle(n)) => r = Named(e)
    BY <2>2, <2>4, <2>6, <2>7
  <2>5. Good(k)
    BY <2>4, <2>8, <2>9, <2>10 DEF r
  <2> HIDE DEF Good
  <2> QED
    BY <2>1, <2>5 DEF k
<1>6. Good(N)
  <2> HIDE DEF Good
  <2>1. 0..N \subseteq T
    <3> HIDE DEF T
    <3> QED
      BY <1>1, <1>4, <1>5, AllUpTo
  <2> QED
    BY <1>1, <2>1
<1> QED
  BY <1>6

\* What the parser looks at behind a call are its transfers.
LEMMA TransfersIs ==
    ASSUME NEW tx, Shaped(tx), ~tx.failed,
           \A index \in Indexes(tx) : ItemKnown(ItemAt(tx, index)),
           NEW c \in Indexes(tx), NEW F, F = Following(tx.inner[c[1]], Under(c))
    PROVE  /\ IsSeq(F)
           /\ \A n \in 1..Len(F) : Told(F[n]) => F[n] \in TransfersOf(tx, c)
           /\ \A v \in TransfersOf(tx, c) : \E n \in 1..Len(F) : F[n] = v /\ Told(v)
<1> DEFINE i == c[1]
           items == tx.inner[i]
           child == Under(c)
           L == Len(items)
<1>1. /\ i \in DOMAIN tx.outer /\ items \in Seq(Range(items)) /\ L \in Nat /\ DOMAIN items = 1..L
      /\ \A j \in 1..L : <<i, j>> \in Indexes(tx) /\ ItemAt(tx, <<i, j>>) = items[j]
  <2>1. i \in DOMAIN tx.outer
    BY IndexIs
  <2>2. items \in Seq(Range(items))
    BY <2>1, PlacesOf
  <2>3. L \in Nat /\ DOMAIN items = 1..L
    <3> HIDE DEF items
    <3> QED
      BY <2>2
  <2>4. \A j \in DOMAIN items : <<i, j>> \in Indexes(tx) /\ ItemAt(tx, <<i, j>>) = items[j]
    BY <2>1, PlacesOf
  <2> HIDE DEF i, items, L
  <2> QED
    BY <2>1, <2>2, <2>3, <2>4
<1>2. Len(c) \in {1, 2} /\ child \in 0..L /\ (Len(c) = 2 => c[2] = child)
  <2>1. Len(c) \in {1, 2} /\ (Len(c) = 2 => c[2] \in DOMAIN tx.inner[c[1]])
    BY IndexIs
  <2> QED
    BY <1>1, <2>1 DEF Under
<1>3. \A j \in 1..L : Precedes(c, <<i, j>>) <=> child < j
  <2>1. \A j : Len(<<i, j>>) = 2 /\ <<i, j>>[1] = i /\ <<i, j>>[2] = j
    OBVIOUS
  <2>2. Len(c) = 1 => child = 0
    BY DEF Under
  <2> HIDE DEF child, L
  <2>3. \A j \in 1..L : Precedes(c, <<i, j>>) <=> Len(c) = 1 \/ c[2] < j
    BY <2>1 DEF Precedes
  <2> QED
    BY <1>1, <1>2, <2>2, <2>3
<1>4. \A j, k \in 1..L : Precedes(<<i, j>>, <<i, k>>) <=> j < k
  <2>1. \A j : Len(<<i, j>>) = 2 /\ <<i, j>>[1] = i /\ <<i, j>>[2] = j
    OBVIOUS
  <2> QED
    BY <2>1 DEF Precedes
<1>5. \A h \in Indexes(tx) : Precedes(c, h) => h[2] \in 1..L /\ h = <<i, h[2]>>
  <2>1. \A h \in Indexes(tx) : Precedes(c, h) => Len(h) = 2 /\ h[1] = i
    BY DEF Precedes
  <2>2. \A h \in Indexes(tx) : Len(h) = 2 => h[2] \in DOMAIN tx.inner[h[1]] /\ h = <<h[1], h[2]>>
    BY IndexIs
  <2> QED
    BY <1>1, <2>1, <2>2
<1>6. /\ IsSeq(F) /\ Len(F) \in Nat
      /\ \A k \in 1..Len(F) : /\ child + k \in 1..L /\ F[k] = items[child + k]
                              /\ F[k].program \in SystemPrograms
      /\ \A k \in 1..(L - child) :
            (\A j \in 1..k : items[child + j].program \in SystemPrograms) => k <= Len(F)
  <2>1. F = Following(items, child)
    OBVIOUS
  <2>3. L = Len(items)
    OBVIOUS
  <2> HIDE DEF items, child, L
  <2>2. /\ F \in Seq(Range(items))
        /\ \A k \in 1..Len(F) : /\ child + k \in DOMAIN items /\ F[k] = items[child + k]
                                /\ F[k].program \in SystemPrograms
        /\ Reached(items, child, F)
    <3>1. items \in Seq(Range(items)) /\ child \in 0..Len(items)
      BY <1>1, <1>2, <2>3
    <3>2. F \in Seq(Range(items))
      BY <2>1, <3>1, FollowingIs
    <3>3. \A k \in 1..Len(F) : /\ child + k \in DOMAIN items /\ F[k] = items[child + k]
                                /\ F[k].program \in SystemPrograms
      BY <2>1, <3>1, FollowingIs
    <3>4. Reached(items, child, F)
      BY <2>1, <3>1, FollowingIs
    <3> QED
      BY <3>2, <3>3, <3>4
  <2>4. Len(F) \in Nat /\ F \in [1..Len(F) -> Range(items)]
    BY <2>2
  <2>5. IsSeq(F)
    BY <2>4, ListIsSeq
  <2> QED
    BY <1>1, <2>2, <2>3, <2>4, <2>5 DEF Reached
<1> HIDE DEF i, items, child, L
<1>7. ASSUME NEW n \in 1..Len(F), Told(F[n])
      PROVE  F[n] \in TransfersOf(tx, c)
  <2> DEFINE j == child + n
             h == <<i, j>>
  <2>1. j \in 1..L /\ F[n] = items[j] /\ F[n].program \in SystemPrograms /\ child < j
    BY <1>2, <1>6
  <2>2. h \in Indexes(tx) /\ ItemAt(tx, h) = F[n] /\ Precedes(c, h)
    BY <1>1, <1>3, <2>1
  <2>3. ItemAt(tx, h).kind = "move"
    BY <2>1, <2>2 DEF ItemKnown
  <2>4. ASSUME NEW b \in Indexes(tx), Precedes(c, b), Precedes(b, h)
        PROVE  ItemAt(tx, b).program \in SystemPrograms
    <3> DEFINE k == b[2] - child
    <3>1. b[2] \in 1..L /\ b = <<i, b[2]>>
      BY <1>5, <2>4
    <3>2. child < b[2] /\ b[2] < j
      BY <1>3, <1>4, <2>1, <2>4, <3>1
    <3>3. k \in 1..Len(F) /\ child + k = b[2]
      BY <1>2, <1>6, <3>1, <3>2
    <3> QED
      BY <1>1, <1>6, <3>1, <3>3
  <2> HIDE DEF h
  <2> QED
    BY <1>7, <2>2, <2>3, <2>4 DEF TransfersOf
<1>8. ASSUME NEW v \in TransfersOf(tx, c)
      PROVE  \E n \in 1..Len(F) : F[n] = v /\ Told(v)
  <2>1. PICK h \in Indexes(tx) :
           /\ v = ItemAt(tx, h) /\ Precedes(c, h) /\ v.kind = "move" /\ Told(v)
           /\ \A b \in Indexes(tx) :
                 Precedes(c, b) /\ Precedes(b, h) => ItemAt(tx, b).program \in SystemPrograms
    BY DEF TransfersOf
  <2> DEFINE k == h[2] - child
  <2>2. h[2] \in 1..L /\ h = <<i, h[2]>> /\ child < h[2] /\ v = items[h[2]]
    BY <1>1, <1>3, <1>5, <2>1
  <2>3. k \in 1..(L - child) /\ child + k = h[2]
    BY <1>1, <1>2, <2>2
  <2>4. ASSUME NEW j \in 1..k
        PROVE  items[child + j].program \in SystemPrograms
    <3> DEFINE b == <<i, child + j>>
    <3>1. child + j \in 1..L /\ child < child + j /\ (j = k \/ child + j < h[2])
      BY <1>1, <1>2, <2>2, <2>3
    <3>2. b \in Indexes(tx) /\ ItemAt(tx, b) = items[child + j] /\ Precedes(c, b)
      BY <1>1, <1>3, <3>1
    <3>3. CASE j = k
      BY <2>1, <2>2, <2>3, <3>3 DEF ItemKnown
    <3>4. CASE child + j < h[2]
      <4>1. Precedes(b, h)
        BY <1>4, <2>2, <3>1, <3>4
      <4> HIDE DEF b
      <4> QED
        BY <2>1, <3>2, <4>1
    <3> QED
      BY <3>1, <3>3, <3>4
  <2> HIDE DEF k
  <2>5. k <= Len(F)
    BY <1>6, <2>3, <2>4
  <2>6. k \in 1..Len(F)
    BY <1>2, <1>1, <1>6, <2>3, <2>5
  <2>7. F[k] = v
    BY <1>6, <2>2, <2>3, <2>6
  <2> QED
    BY <2>1, <2>6, <2>7
<1> QED
  BY <1>6, <1>7, <1>8

\* The layouts whose events name the mints of the swap.
LEMMA SwapLayouts ==
    \A l \in AllLayouts :
        /\ l.struct = "PumpFunTradeEvent" => "mint" \in DOMAIN l.at
        /\ l.struct \in {"PumpSwapBuyEvent", "PumpSwapSellEvent"} =>
              {"base_mint", "quote_mint"} \subseteq DOMAIN l.at
<1> DEFINE structs == {"PumpSwapBuyEvent", "PumpSwapSellEvent"}
<1>1. \A l \in PumpSwapTrades : {"base_mint", "quote_mint"} \subseteq DOMAIN l.at
  BY DEF PumpSwapTrades, Plain, With
<1>2. PumpSwapCreate.struct \notin structs /\ \A l \in PumpSwapLiquidity : l.struct \notin structs
  BY DEF PumpSwapCreate, PumpSwapLiquidity, Plain, With
<1>3. \A l \in BonkLayouts : l.struct \notin structs
  BY DEF BonkLayouts, BonkBuys, BonkSells, BonkPools, BonkMigrations, BonkTrade, Plain, With
<1>4. \A l \in PumpFunLayouts : l.struct \notin structs
  BY DEF PumpFunLayouts, PumpFunBuy, PumpFunSell, PumpFunCreate, PumpFunMigrate, Plain, With
<1>5. \A l \in AmmLayouts : l.struct \notin structs
  BY DEF AmmLayouts, AmmSwaps, AmmInitialize, AmmDeposit, AmmWithdraws, AmmPlain, Plain, With
<1>6. \A l \in ClmmLayouts : l.struct \notin structs
  <2>1. \A l \in ClmmPositions \cup ClmmExits : l.struct \notin structs
    BY DEF ClmmPositions, ClmmExits, ClmmPlain, Plain
  <2>2. \A l \in ClmmCreate \cup ClmmSwaps : l.struct \notin structs
    BY DEF ClmmCreate, ClmmSwaps, ClmmPlain, Plain
  <2> QED
    BY <2>1, <2>2 DEF ClmmLayouts
<1>7. \A l \in CpmmLayouts : l.struct \notin structs
  BY DEF CpmmLayouts, CpmmDeposit, CpmmWithdraw, CpmmInitialize, CpmmSwaps, CpmmPlain, Plain, With
<1>8. \A l \in PumpSwapLayouts : l.struct \in structs => {"base_mint", "quote_mint"} \subseteq DOMAIN l.at
  BY <1>1, <1>2 DEF PumpSwapLayouts
<1>9. \A l \in AllLayouts : l.struct \in structs => {"base_mint", "quote_mint"} \subseteq DOMAIN l.at
  BY <1>3, <1>4, <1>5, <1>6, <1>7, <1>8 DEF AllLayouts
<1>10. \A l \in AllLayouts : l.struct = "PumpFunTradeEvent" => "mint" \in DOMAIN l.at
  BY LaunchLayouts, LaunchPlaces
<1> QED
  BY <1>9, <1>10

\* The mints that an event names are those of its call, and it does name one.
LEMMA NamedFair ==
    ASSUME NEW l \in AllLayouts, NEW call, NEW c, NEW e, e = InstructionEvent(l, call, c),
           DirectionKnown(l, call)
    PROVE  /\ Fair(Named(e), call.truth)
           /\ l \in Taking(call) /\ MintsKnown(call) /\ l.struct \in MintSwaps => Named(e) # Blank
<1> DEFINE t == call.truth
           m == NamedMints(e)
           named(f) == Account(l, call, l.at[f])
<1>1. e.struct = l.struct /\ e.side = l.side /\ e.at = Addresses(l, call)
  BY DEF InstructionEvent
<1>2. \A f \in DOMAIN l.at : e.at[f] = named(f)
  BY <1>1 DEF Addresses
<1>3. /\ l.struct = "PumpFunTradeEvent" => "mint" \in DOMAIN l.at
      /\ l.struct \in {"PumpSwapBuyEvent", "PumpSwapSellEvent"} =>
            "base_mint" \in DOMAIN l.at /\ "quote_mint" \in DOMAIN l.at
  BY SwapLayouts
<1>4. Named(e).from = m.from /\ Named(e).to = m.to /\ Named(e).paid = 0 /\ Named(e).got = 0
      /\ DOMAIN Named(e) = {"from", "to", "paid", "got"}
  BY DEF Named, Blank
<1> HIDE DEF named, m
<1>5. CASE l.struct = "PumpFunTradeEvent"
  <2>1. /\ l.side = "buy" => m.from = Wsol /\ m.to = named("mint")
        /\ l.side # "buy" => m.from = named("mint") /\ m.to = Wsol
    BY <1>1, <1>2, <1>3, <1>5 DEF NamedMints, m
  <2>2. /\ l.side = "buy" => t.from = Wsol /\ t.to = named("mint")
        /\ l.side # "buy" => t.from = named("mint") /\ t.to = Wsol
    BY <1>5 DEF DirectionKnown, named
  <2>3. m.from = t.from /\ m.to = t.to /\ (m.from # NoOne \/ m.to # NoOne)
    BY <2>1, <2>2 DEF Wsol, NoOne
  <2> QED
    BY <1>4, <2>3 DEF Fair, Blank
<1>6. CASE l.struct \in {"PumpSwapBuyEvent", "PumpSwapSellEvent"}
  <2>1. /\ l.struct = "PumpSwapBuyEvent" => m.from = named("quote_mint") /\ m.to = named("base_mint")
        /\ l.struct = "PumpSwapSellEvent" => m.from = named("base_mint") /\ m.to = named("quote_mint")
    BY <1>1, <1>2, <1>3, <1>6 DEF NamedMints, m
  <2>2. /\ l.struct = "PumpSwapBuyEvent" => t.from = named("quote_mint") /\ t.to = named("base_mint")
        /\ l.struct = "PumpSwapSellEvent" => t.from = named("base_mint") /\ t.to = named("quote_mint")
    BY DEF DirectionKnown, named
  <2>3. m.from = t.from /\ m.to = t.to
    BY <1>6, <2>1, <2>2
  <2>4. l \in Taking(call) /\ MintsKnown(call) => named("base_mint") # named("quote_mint")
    <3>1. {"base_mint", "quote_mint"} \subseteq MintFields
      BY DEF MintFields
    <3> QED
      BY <1>3, <1>6, <3>1 DEF MintsKnown, named
  <2>5. l \in Taking(call) /\ MintsKnown(call) => m.from # NoOne \/ m.to # NoOne
    BY <1>6, <2>1, <2>4
  <2> QED
    BY <1>4, <2>3, <2>5 DEF Fair, Blank
<1>7. CASE l.struct \notin MintSwaps
  <2>1. m.from = NoOne /\ m.to = NoOne
    BY <1>1, <1>7 DEF NamedMints, m, MintSwaps
  <2> QED
    BY <1>4, <1>7, <2>1 DEF Fair
<1> QED
  BY <1>5, <1>6, <1>7 DEF MintSwaps

\* What the swap of an event is, before the amounts of a log are put into it.
SwapShows(s, tx, c, l) ==
    LET t == ItemAt(tx, c).truth
    IN /\ s = <<>> \/ \E a : s = <<a>> /\ Fair(a, t)
       /\ t.legs => /\ s # <<>>
                    /\ \/ l.struct \in MintSwaps /\ LogRead(tx, c)
                       \/ l.struct \in LegSwaps /\ s[1].paid = t.paid /\ s[1].got = t.got

LEMMA SwapIs ==
    ASSUME NEW tx, Shaped(tx), ~tx.failed,
           \A index \in Indexes(tx) : ItemKnown(ItemAt(tx, index)),
           NEW c \in CallsOf(tx), NEW l \in Taking(ItemAt(tx, c)), SwapKnown(tx, c, l)
    PROVE  SwapShows(SwapOf(l, tx, c), tx, c, l)
<1> DEFINE call == ItemAt(tx, c)
           t == call.truth
           e == InstructionEvent(l, call, c)
           legs == SwapHints(e)
           F == Following(tx.inner[c[1]], Under(c))
           N == Len(F)
           moves == TransfersOf(tx, c)
           left == [user |-> legs.user_from, vault |-> legs.from_vault, mint |-> legs.from_mint]
           right == [user |-> legs.user_to, vault |-> legs.to_vault, mint |-> legs.to_mint]
           Given(side) == {v \in moves : v.from = side.user /\ v.to = side.vault}
           Taken(side) == {v \in moves : v.from = side.vault /\ v.to = side.user}
<1>1. /\ c \in Indexes(tx) /\ l \in AllLayouts /\ MintsKnown(call)
  BY DEF CallsOf, Taking, Matching, ItemKnown
<1>2. e.struct = l.struct /\ e.at = Addresses(l, call) /\ e.swap = <<>> /\ "swap" \in DOMAIN e
  BY DEF InstructionEvent
<1>3. Sides(l, call) = {left, right}
  <2> DEFINE x == [struct |-> l.struct, at |-> Addresses(l, call)]
  <2>1. x.struct = e.struct /\ x.at = e.at
    BY <1>2
  <2> HIDE DEF x, e
  <2>2. SwapHints(x) = SwapHints(e)
    BY <2>1 DEF SwapHints
  <2> QED
    BY <2>2 DEF Sides, x
<1>4. /\ DirectionKnown(l, call)
      /\ \A v \in moves : v.from # NoOne
      /\ \A side \in {left, right} :
            /\ \A v \in Given(side) : v.amount = t.paid /\ side.mint \in {NoOne, t.from}
            /\ \A v \in Taken(side) : v.amount = t.got /\ side.mint \in {NoOne, t.to}
      /\ t.legs =>
            \/ l.struct \in MintSwaps /\ moves # {} /\ LogRead(tx, c)
            \/ /\ l.struct \in LegSwaps /\ t.paid # 0
               /\ \E side \in {left, right} : Given(side) # {}
               /\ \E side \in {left, right} : Taken(side) # {}
               /\ {side.user : side \in {left, right}} \cap {side.vault : side \in {left, right}} = {}
  BY <1>3 DEF SwapKnown
<1>5. /\ left.user = legs.user_from /\ left.vault = legs.from_vault /\ left.mint = legs.from_mint
      /\ right.user = legs.user_to /\ right.vault = legs.to_vault /\ right.mint = legs.to_mint
  OBVIOUS
<1>6. /\ IsSeq(F) /\ N \in Nat
      /\ \A n \in 1..N : Told(F[n]) => F[n] \in moves
      /\ \A v \in moves : \E n \in 1..N : F[n] = v /\ Told(v)
  <2>1. IsSeq(F)
    BY <1>1, TransfersIs
  <2>2. \A n \in 1..N : Told(F[n]) => F[n] \in moves
    BY <1>1, TransfersIs
  <2>3. \A v \in moves : \E n \in 1..N : F[n] = v /\ Told(v)
    BY <1>1, TransfersIs
  <2>4. N \in Nat
    BY <2>1 DEF IsSeq
  <2> QED
    BY <2>1, <2>2, <2>3, <2>4
<1>7. Fair(Named(e), t) /\ (l.struct \in MintSwaps => Named(e) # Blank)
  BY <1>1, <1>4, NamedFair
<1>8. SwapOf(l, tx, c) = WithSwap(e, tx.inner[c[1]], Under(c)).swap
  BY DEF SwapOf
<1>9. PICK f : Followed(f, e, F) /\ Ends(f, e, F, WithSwap(e, tx.inner[c[1]], Under(c)))
  <2>1. F = Following(tx.inner[c[1]], Under(c))
    OBVIOUS
  <2> HIDE DEF e, F
  <2> QED
    BY <1>6, <2>1, SwapFollows
<1> DEFINE s == SwapOf(l, tx, c)
           a == f[N]
<1>10. s = IF (\A n \in 1..N : ~Told(F[n])) \/ a = Blank THEN <<>> ELSE <<a>>
  <2> HIDE DEF e
  <2>1. \A x : [e EXCEPT !.swap = x].swap = x
    BY <1>2
  <2> QED
    BY <1>2, <1>8, <1>9, <2>1 DEF Ends
<1> HIDE DEF s, e, legs, F, left, right, moves, call
<1>11. \A v \in moves : Honest(legs, v, t)
  BY <1>4, <1>5 DEF Honest
<1>12. legs = SwapHints(e) /\ \A n \in 1..N : Told(F[n]) => Honest(legs, F[n], t)
  BY <1>6, <1>11 DEF legs
<1>13. Fair(a, t)
  BY <1>6, <1>7, <1>9, <1>12, SwapFair
<1>14. \A n \in 1..N : Told(F[n]) /\ Gives(legs, F[n]) /\ ~Brings(legs, F[n]) => a.paid = t.paid
  BY <1>6, <1>7, <1>9, <1>12, SwapFair
<1>15. \A n \in 1..N : Told(F[n]) /\ Brings(legs, F[n]) /\ ~Gives(legs, F[n]) => a.got = t.got
  BY <1>6, <1>7, <1>9, <1>12, SwapFair
<1>16. (\A n \in 1..N : Told(F[n]) => ~Gives(legs, F[n]) /\ ~Brings(legs, F[n])) => a = Named(e)
  BY <1>6, <1>7, <1>9, <1>12, SwapFair
<1> HIDE DEF N, a
<1>17. CASE t.legs /\ l.struct \in MintSwaps /\ moves # {} /\ LogRead(tx, c)
  <2>1. /\ legs.user_from = NoOne /\ legs.user_to = NoOne
        /\ legs.from_vault = NoOne /\ legs.to_vault = NoOne
    BY <1>2, <1>12, <1>17 DEF SwapHints, Legs, MintSwaps
  <2>2. \A v \in moves : ~Gives(legs, v) /\ ~Brings(legs, v)
    BY <1>4, <2>1 DEF Gives, Brings
  <2>3. a # Blank
    BY <1>6, <1>7, <1>16, <1>17, <2>2
  <2>4. s = <<a>>
    BY <1>6, <1>10, <1>17, <2>3
  <2> QED
    BY <1>13, <1>17, <2>4 DEF SwapShows, s, call
<1>18. CASE t.legs /\ l.struct \in LegSwaps /\ t.paid # 0
            /\ (\E side \in {left, right} : Given(side) # {})
            /\ (\E side \in {left, right} : Taken(side) # {})
            /\ {side.user : side \in {left, right}} \cap {side.vault : side \in {left, right}} = {}
  <2>1. \A x, y \in {left, right} : x.user # y.vault
    BY <1>18
  <2>2. \A v \in moves : ~(Gives(legs, v) /\ Brings(legs, v))
    BY <1>5, <2>1 DEF Gives, Brings
  <2>3. PICK v \in moves : Gives(legs, v)
    BY <1>5, <1>18 DEF Gives
  <2>4. PICK w \in moves : Brings(legs, w)
    BY <1>5, <1>18 DEF Brings
  <2>5. a.paid = t.paid /\ \E n \in 1..N : Told(F[n])
    BY <1>6, <1>14, <2>2, <2>3
  <2>6. a.got = t.got
    BY <1>6, <1>15, <2>2, <2>4
  <2>7. a # Blank
    BY <1>18, <2>5 DEF Blank
  <2>8. s = <<a>>
    BY <1>10, <2>5, <2>7
  <2> QED
    BY <1>13, <1>18, <2>5, <2>6, <2>8 DEF SwapShows, s, call
<1>19. CASE ~t.legs
  BY <1>10, <1>13, <1>19 DEF SwapShows, s, call
<1> QED
  BY <1>4, <1>17, <1>18, <1>19

\* process_events puts the amounts of the event into such a swap.
LEMMA SettledIs ==
    ASSUME NEW d, NEW x, Settles(d, x), NEW a, d.swap = <<a>>,
           {"paid", "got"} \subseteq DOMAIN a
    PROVE  \E b : /\ x.swap = <<b>> /\ b.from = a.from /\ b.to = a.to
                  /\ IF d.struct \in MintSwaps THEN b.paid = d.paid /\ b.got = d.got ELSE b = a
<1>1. CASE d.struct \notin MintSwaps
  BY <1>1 DEF Settles
<1>2. CASE d.struct \in MintSwaps
  <2> DEFINE b == [a EXCEPT !.paid = d.paid, !.got = d.got]
  <2>1. x.swap = <<[d.swap[1] EXCEPT !.paid = d.paid, !.got = d.got]>>
    BY <1>2 DEF Settles
  <2>2. d.swap[1] = a
    OBVIOUS
  <2>3. x.swap = <<b>>
    BY <2>1, <2>2
  <2>4. b.from = a.from /\ b.to = a.to /\ b.paid = d.paid /\ b.got = d.got
    OBVIOUS
  <2> HIDE DEF b
  <2> QED
    BY <1>2, <2>3, <2>4
<1> QED
  BY <1>1, <1>2

\* What an event tells of its swap is what the call does, or is left out; nothing of a
\* swap whose transfers stand where the parser looks for them is left out: the
\* transfers are taken one by one, and the amounts of PumpFun and PumpSwap are those
\* of the own log (types.rs:474-740).
THEOREM LegsToldHolds == Spec => []LegsTold
<1>1. ASSUME NEW table \in SUBSET AllLayouts, NEW tx, Shaped(tx), ~tx.failed,
             \A index \in Indexes(tx) : ItemKnown(ItemAt(tx, index)),
             LogsKnown(tx), SwapsKnown(tx),
             NEW es, es = ParseTransaction(table, tx), NEW k \in DOMAIN es,
             NEW t, t = ItemAt(tx, es[k].index).truth, NEW swap, swap = es[k].swap
      PROVE  /\ swap # <<>> => /\ swap[1].from \in {NoOne, t.from} /\ swap[1].to \in {NoOne, t.to}
                               /\ swap[1].paid \in {0, t.paid} /\ swap[1].got \in {0, t.got}
             /\ t.legs => swap # <<>> /\ swap[1].paid = t.paid /\ swap[1].got = t.got
  <2> DEFINE c == es[k].index
             call == ItemAt(tx, c)
  <2>1. /\ c \in Indexes(tx) /\ call.kind = "call"
        /\ \E l \in AllLayouts : \E e :
              /\ l \in Matching(table, call) /\ ~Short(l, call)
              /\ MadeFrom(e, l, call) /\ e.index = c
              /\ Settles(MergeLogs(e, ToldEvents(table, tx)), es[k])
              /\ MergeLogs(e, ToldEvents(table, tx)).swap = SwapOf(l, tx, c)
              /\ MergeLogs(e, ToldEvents(table, tx)).struct = l.struct
    <3>1. call = ItemAt(tx, es[k].index)
      OBVIOUS
    <3> HIDE DEF call
    <3> QED
      BY <1>1, <3>1, EventIs
  <2>2. c \in CallsOf(tx)
    BY <2>1 DEF CallsOf
  <2>3. PICK l \in AllLayouts : \E e :
           /\ l \in Matching(table, call) /\ ~Short(l, call)
           /\ MadeFrom(e, l, call) /\ e.index = c
           /\ Settles(MergeLogs(e, ToldEvents(table, tx)), es[k])
           /\ MergeLogs(e, ToldEvents(table, tx)).swap = SwapOf(l, tx, c)
           /\ MergeLogs(e, ToldEvents(table, tx)).struct = l.struct
    BY <2>1
  <2>4. PICK e :
           /\ l \in Matching(table, call) /\ ~Short(l, call)
           /\ MadeFrom(e, l, call) /\ e.index = c
           /\ Settles(MergeLogs(e, ToldEvents(table, tx)), es[k])
           /\ MergeLogs(e, ToldEvents(table, tx)).swap = SwapOf(l, tx, c)
           /\ MergeLogs(e, ToldEvents(table, tx)).struct = l.struct
    BY <2>3
  <2>5. l \in Taking(call)
    BY <2>4 DEF Taking, Matching
  <2> DEFINE d == MergeLogs(e, ToldEvents(table, tx))
             s == SwapOf(l, tx, c)
  <2>6. IF LogRead(tx, c) THEN d.paid = t.paid /\ d.got = t.got
        ELSE d.paid \in {0, t.paid} /\ d.got \in {0, t.got}
    <3>1. call = ItemAt(tx, c) /\ d = MergeLogs(e, ToldEvents(table, tx)) /\ t = call.truth
      BY <1>1
    <3> HIDE DEF call, c, d
    <3> QED
      BY <1>1, <2>2, <2>4, <3>1, AmountsOwn
  <2>7. SwapShows(s, tx, c, l)
    <3>1. SwapKnown(tx, c, l)
      BY <1>1, <2>2, <2>5 DEF SwapsKnown
    <3> HIDE DEF c
    <3> QED
      BY <1>1, <2>2, <2>5, <3>1, SwapIs
  <2>8. Settles(d, es[k]) /\ d.swap = s /\ d.struct = l.struct
    BY <2>4
  <2>9. /\ s = <<>> \/ \E a : s = <<a>> /\ Fair(a, t)
        /\ t.legs => /\ s # <<>>
                     /\ \/ l.struct \in MintSwaps /\ LogRead(tx, c)
                        \/ l.struct \in LegSwaps /\ s[1].paid = t.paid /\ s[1].got = t.got
    BY <1>1, <2>7 DEF SwapShows
  <2> HIDE DEF c, call, d, s
  <2>10. CASE s = <<>>
    <3>1. swap = <<>>
      BY <1>1, <2>8, <2>10 DEF Settles
    <3> QED
      BY <2>9, <2>10, <3>1
  <2>11. CASE \E a : s = <<a>> /\ Fair(a, t)
    <3>1. PICK a : s = <<a>> /\ Fair(a, t)
      BY <2>11
    <3>2. PICK b : /\ swap = <<b>> /\ b.from = a.from /\ b.to = a.to
                   /\ IF l.struct \in MintSwaps THEN b.paid = d.paid /\ b.got = d.got ELSE b = a
      <4>1. d.swap = <<a>> /\ {"paid", "got"} \subseteq DOMAIN a
        BY <2>8, <3>1 DEF Fair
      <4> QED
        BY <1>1, <2>8, <4>1, SettledIs
    <3>3. swap # <<>> /\ swap[1] = b /\ s[1] = a
      BY <3>1, <3>2
    <3>4. /\ b.from \in {NoOne, t.from} /\ b.to \in {NoOne, t.to}
          /\ b.paid \in {0, t.paid} /\ b.got \in {0, t.got}
      BY <2>6, <3>1, <3>2 DEF Fair
    <3>5. t.legs => b.paid = t.paid /\ b.got = t.got
      <4>1. l.struct \in LegSwaps => l.struct \notin MintSwaps
        BY DEF LegSwaps, MintSwaps
      <4> QED
        BY <2>6, <2>9, <3>2, <3>3, <4>1
    <3> QED
      BY <3>3, <3>4, <3>5
  <2> QED
    BY <2>9, <2>10, <2>11
<1>2. ASSUME StreamInv, NEW n \in HeardCalls
      PROVE  LET t == Truth(n)
                 swap == HeardEvent(n).swap
             IN /\ swap # <<>> =>
                      /\ swap[1].from \in {NoOne, t.from} /\ swap[1].to \in {NoOne, t.to}
                      /\ swap[1].paid \in {0, t.paid} /\ swap[1].got \in {0, t.got}
                /\ t.legs => swap # <<>> /\ swap[1].paid = t.paid /\ swap[1].got = t.got
  <2> DEFINE i == heard[n][1]
             k == heard[n][2]
             tx == Chained(i).tx
             table == Table[setup.filter]
             es == ParseTransaction(table, tx)
             t == Truth(n)
             swap == HeardEvent(n).swap
  <2>1. n \in DOMAIN heard /\ Chained(i).kind = "tx" /\ i \in 1..pos /\ k \in Whole(i)
    <3>1. n \in DOMAIN heard /\ Chained(heard[n][1]).kind = "tx"
      BY DEF HeardCalls
    <3> QED
      BY <1>2, <3>1, HeardIs
  <2>2. /\ table \in SUBSET AllLayouts /\ Shaped(tx) /\ ~tx.failed /\ LogsKnown(tx) /\ SwapsKnown(tx)
        /\ \A index \in Indexes(tx) : ItemKnown(ItemAt(tx, index))
        /\ Whole(i) = DOMAIN es /\ feed[i].events = es
    <3>1. tx = Chained(i).tx /\ table = Table[setup.filter] /\ es = ParseTransaction(table, tx)
      OBVIOUS
    <3> HIDE DEF i, k, tx, table, es
    <3> QED
      BY <1>2, <2>1, <3>1, MessageIs
  <2>3. HeardEvent(n) = es[k] /\ k \in DOMAIN es
    BY <2>1, <2>2 DEF HeardEvent
  <2>4. t = ItemAt(tx, es[k].index).truth /\ swap = es[k].swap
    BY <2>3 DEF Truth
  <2>5. es = ParseTransaction(table, tx)
    OBVIOUS
  <2> HIDE DEF i, k, tx, table, es, t, swap
  <2>6. /\ swap # <<>> => /\ swap[1].from \in {NoOne, t.from} /\ swap[1].to \in {NoOne, t.to}
                          /\ swap[1].paid \in {0, t.paid} /\ swap[1].got \in {0, t.got}
        /\ t.legs => swap # <<>> /\ swap[1].paid = t.paid /\ swap[1].got = t.got
    BY <1>1, <2>2, <2>3, <2>4, <2>5
  <2> QED
    BY <2>6 DEF t, swap
<1>3. StreamInv => LegsTold
  BY <1>2 DEF LegsTold
<1> QED
  BY <1>3, StreamInvariant, PTL
================================================================================
