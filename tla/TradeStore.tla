----------------------------- MODULE TradeStore -----------------------------
(***************************************************************************)
(* The part of utils/storage.rs the order desk works on: the PostgreSQL    *)
(* tables `trades`, `wallet` and `locks`, and POSTGRESOPENTRADE, the       *)
(* in-process count of the open trades of each mint.                       *)
(*                                                                         *)
(* Every operator named after a Storage method is what ONE statement of    *)
(* that method reads or writes; a method with two effects (tradecreate and *)
(* tradeclose write the table first and the cache afterwards) is two       *)
(* operators, because other tasks run between them.                        *)
(*                                                                         *)
(* A call of handlerorder inserts at most one row, so a row is named by    *)
(* the order that inserts it; the code names it by a fresh UUID.           *)
(***************************************************************************)
EXTENDS Integers, FiniteSets

CONSTANTS
    Orders,     \* the calls of handlerorder, which are also the trade UUIDs
    Mints,      \* the token mints
    None        \* a lock nobody holds, a cache entry that is absent

ASSUME StoreAssumption ==
    /\ IsFiniteSet(Orders)
    /\ None \notin Orders
    /\ None \notin Int

VARIABLES
    mint,       \* the mint of an order, and of its row
    status,     \* the row: not inserted, open (total IS NULL) or closed
    amount,     \* trades.amount, what the buy cost
    realized,   \* trades.realized, what partial sells have brought in
    total,      \* trades.total, set when the trade is closed
    opentrade,  \* POSTGRESOPENTRADE
    balance,    \* wallet.balance
    locks       \* the holder of each mint's row in `locks`

rowvars == <<status, amount, realized, total>>
storevars == <<mint, rowvars, opentrade, balance, locks>>

StoreTypeOK ==
    /\ mint \in [Orders -> Mints]
    /\ status \in [Orders -> {"none", "open", "closed"}]
    /\ amount \in [Orders -> Int]
    /\ realized \in [Orders -> Int]
    /\ total \in [Orders -> Int]
    /\ opentrade \in [Mints -> Nat \cup {None}]
    /\ balance \in Int
    /\ locks \in [Mints -> Orders \cup {None}]

\* A fresh database (droptables, buildschema) and the walletupdate of startup.
\* droptables leaves `locks` alone: this is a first start, or one after a session
\* that left no lock behind.
StoreInit(funds) ==
    /\ mint \in [Orders -> Mints]
    /\ status = [o \in Orders |-> "none"]
    /\ amount = [o \in Orders |-> 0]
    /\ realized = [o \in Orders |-> 0]
    /\ total = [o \in Orders |-> 0]
    /\ opentrade = [m \in Mints |-> None]
    /\ balance = funds
    /\ locks = [m \in Mints |-> None]

-----------------------------------------------------------------------------
(* Reads *)

OpenRows == {o \in Orders : status[o] = "open"}
ClosedRows == {o \in Orders : status[o] = "closed"}
Rows == {o \in Orders : status[o] # "none"}

tradescount == Cardinality(OpenRows)
\* Mutant: forgets WHERE total IS NOT NULL.
tradestotalOfAll == Cardinality(Rows)
tradestotal == Cardinality(ClosedRows)
\* Mutant: looks among the open trades only.
tradeexistsOpen(m) == \E o \in OpenRows : mint[o] = m
tradeexists(m) == \E o \in Rows : mint[o] = m

-----------------------------------------------------------------------------
(* Writes *)

walletupdate(funds) == balance' = funds

tradecreate(o, cost) ==
    /\ status' = [status EXCEPT ![o] = "open"]
    /\ amount' = [amount EXCEPT ![o] = cost]
    /\ UNCHANGED <<realized, total>>

\* and_modify(+1).or_insert(1)
countopen(m) ==
    opentrade' = [opentrade EXCEPT ![m] = IF @ = None THEN 1 ELSE @ + 1]

\* Only a row that is still open takes the proceeds (AND total IS NULL).
tradepartialsell(o, proceeds) ==
    /\ realized' = IF status[o] = "open"
                   THEN [realized EXCEPT ![o] = @ + proceeds]
                   ELSE realized
    /\ UNCHANGED <<status, amount, total>>

tradeclose(o, sum) ==
    /\ status' = [status EXCEPT ![o] = "closed"]
    /\ total' = [total EXCEPT ![o] = sum]
    /\ UNCHANGED <<amount, realized>>

\* The decrement of tradeclose, which stops at 0.
countclosed(m) ==
    opentrade' = [opentrade EXCEPT ![m] = IF @ > 0 THEN @ - 1 ELSE 0]

\* The remove of tradeclose, once its own decrement reached 0.
countremove(m) == opentrade' = [opentrade EXCEPT ![m] = None]

\* INSERT ... ON CONFLICT (mint) DO NOTHING, and DELETE WHERE mint AND holder
mintlock(m, o) == locks' = [locks EXCEPT ![m] = o]
mintunlock(m, o) == locks' = [locks EXCEPT ![m] = IF @ = o THEN None ELSE @]
=============================================================================
