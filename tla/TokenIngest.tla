---------------------------- MODULE TokenIngest -----------------------------
(***************************************************************************)
(* The tasks that main.rs spawns for events of the stream, as far as the   *)
(* table tokens goes: tokenadvance for an event that creates a pool,       *)
(* tokenchange for one that trades in it, the enrichment each may spawn    *)
(* and the order that ends in. A task has one program counter; when it     *)
(* spawns an enrichment, that is all that is left of it.                   *)
(*                                                                         *)
(* A token stands for its mint, program and pool. The same creation may be *)
(* reported more than once. A task whose statement fails ends, and is like *)
(* one whose event never came.                                             *)
(***************************************************************************)
EXTENDS TokenWriter

CONSTANTS
    Creations,      \* events that create a pool
    Swaps,          \* events that trade in one
    About,          \* the token of each event
    Threshold,      \* POSTGRESENRICHTXSTHRESHOLD
    MaxLooks,       \* bound: the states of a pool on the chain
    EnrichMayFail,  \* may tokenenrich fail, after all its retries?
    None

Events == Creations \cup Swaps

ASSUME IngestAssumption ==
    /\ About \in [Events -> Tokens]
    /\ Creations \cap Swaps = {}
    /\ Threshold \in Nat \ {0} /\ MaxLooks \in Nat \ {0}
    /\ EnrichMayFail \in BOOLEAN
    /\ None \notin Nat

VARIABLES
    pc,         \* where each task is
    look,       \* what its enrichment saw
    since,      \* POSTGRESLASTENRICH: the transactions since the last enrichment
    desk,       \* the trade of each token, as POSTGRESOPENTRADE knows it
    ordered,    \* history: the events that have called handlerorder
    chain,      \* external: the state of each pool
    newest,     \* history: the latest state an enrichment has sent
    crossed     \* history: tokens with enrichments under way at the same time

taskvars == <<pc, look>>
deskvars == <<desk, ordered>>
outside == <<chain, newest, crossed>>
vars == <<writervars, taskvars, since, deskvars, outside>>

TypeOK ==
    /\ WriterTypeOK
    /\ pc \in [Events -> {"idle", "select", "count", "throttle", "first", "enrich",
                          "send", "order", "done"}]
    /\ look \in [Events -> 0..MaxLooks]
    /\ since \in [Tokens -> {None} \cup 0..(Threshold - 1)]
    /\ desk \in [Tokens -> {"none", "open", "over"}]
    /\ ordered \subseteq Events
    /\ chain \in [Tokens -> 1..MaxLooks]
    /\ newest \in [Tokens -> 0..MaxLooks]
    /\ crossed \subseteq Tokens

Init ==
    /\ WriterInit
    /\ pc = [e \in Events |-> "idle"]
    /\ look = [e \in Events |-> 0]
    /\ since = [t \in Tokens |-> None]
    /\ desk = [t \in Tokens |-> "none"]
    /\ ordered = {}
    /\ chain = [t \in Tokens |-> 1]
    /\ newest = [t \in Tokens |-> 0]
    /\ crossed = {}

Goto(e, place) == pc' = [pc EXCEPT ![e] = place]

-----------------------------------------------------------------------------
(* tokenadvance *)

\* Mutant: goes on although the row was there.
InsertTokenAgain(e) ==
    /\ e \in Creations /\ pc[e] = "idle"
    /\ rows' = rows \cup {About[e]}
    /\ Goto(e, "enrich")
    /\ UNCHANGED <<table, channel, pending, batch, writer, serial, lost,
                   look, since, deskvars, outside>>

\* ON CONFLICT DO NOTHING: only the event that inserts the row is enriched.
InsertToken(e) ==
    /\ e \in Creations /\ pc[e] = "idle"
    /\ rows' = rows \cup {About[e]}
    /\ Goto(e, IF About[e] \in rows THEN "done" ELSE "enrich")
    /\ UNCHANGED <<table, channel, pending, batch, writer, serial, lost,
                   look, since, deskvars, outside>>

-----------------------------------------------------------------------------
(* tokenchange *)

\* An event of a mint without an open trade is dropped.
SeeSwap(e) ==
    /\ e \in Swaps /\ pc[e] = "idle"
    /\ Goto(e, IF desk[About[e]] = "open" THEN "select" ELSE "done")
    /\ UNCHANGED <<writervars, look, since, deskvars, outside>>

\* tokenselect, from the cache or from the table.
SelectToken(e) ==
    /\ pc[e] = "select"
    /\ Goto(e, IF About[e] \in rows THEN "count" ELSE "done")
    /\ UNCHANGED <<writervars, look, since, deskvars, outside>>

CountSwap(e) ==
    /\ pc[e] = "count"
    /\ send(About[e], [Blank EXCEPT !.txs = 1])
    /\ Goto(e, "throttle")
    /\ UNCHANGED <<rows, table, pending, batch, writer, lost,
                   look, since, deskvars, outside>>

\* At most one enrichment in POSTGRESENRICHMINPERIOD (2 s), but for every
\* Threshold transactions. Whether the period has passed is up to the clock.
Throttle(e) ==
    /\ pc[e] = "throttle"
    /\ LET last == since[About[e]] IN
          \/ /\ last = None
             /\ Goto(e, "first")
             /\ UNCHANGED since
          \/ /\ last # None
             /\ since' = [since EXCEPT ![About[e]] = 0]
             /\ Goto(e, "enrich")
          \/ /\ last # None /\ last + 1 < Threshold
             /\ since' = [since EXCEPT ![About[e]] = last + 1]
             /\ Goto(e, "done")
    /\ UNCHANGED <<writervars, look, deskvars, outside>>

\* The entry is inserted after the lookup that missed it has let go of the map.
FirstThrottle(e) ==
    /\ pc[e] = "first"
    /\ since' = [since EXCEPT ![About[e]] = 0]
    /\ Goto(e, "enrich")
    /\ UNCHANGED <<writervars, look, deskvars, outside>>

-----------------------------------------------------------------------------
(* The enrichment, and the order it ends in *)

Enrich(e) ==
    /\ pc[e] = "enrich"
    /\ look' = [look EXCEPT ![e] = chain[About[e]]]
    /\ Goto(e, "send")
    /\ crossed' = crossed \cup
          {t \in {About[e]} : \E o \in Events : About[o] = t /\ pc[o] = "send"}
    /\ UNCHANGED <<writervars, since, deskvars, chain, newest>>

\* Mutant: hands the token on although nothing was found out about it.
EnrichErrorAnyway(e) ==
    /\ pc[e] = "enrich"
    /\ EnrichMayFail
    /\ Goto(e, "order")
    /\ UNCHANGED <<writervars, look, since, deskvars, outside>>

EnrichError(e) ==
    /\ pc[e] = "enrich"
    /\ EnrichMayFail
    /\ Goto(e, "done")
    /\ UNCHANGED <<writervars, look, since, deskvars, outside>>

\* tokenadvance sends the initial pool with it, tokenchange does not.
SendEnriched(e) ==
    /\ pc[e] = "send"
    /\ send(About[e], [price |-> look[e], supply |-> look[e], txs |-> 0,
                       init |-> IF e \in Creations THEN look[e] ELSE 0])
    /\ newest' = [newest EXCEPT ![About[e]] = IF look[e] > @ THEN look[e] ELSE @]
    /\ Goto(e, "order")
    /\ UNCHANGED <<rows, table, pending, batch, writer, lost,
                   look, since, deskvars, chain, crossed>>

\* tokenhandler: what becomes of the order is OrderDesk's.
Order(e) ==
    /\ pc[e] = "order"
    /\ ordered' = ordered \cup {e}
    /\ Goto(e, "done")
    /\ UNCHANGED <<writervars, look, since, desk, outside>>

-----------------------------------------------------------------------------
(* Around the tasks *)

\* An order becomes a trade of its mint, the only one of the session.
OpenTrade(t) ==
    /\ desk[t] = "none"
    /\ \E e \in ordered : About[e] = t
    /\ desk' = [desk EXCEPT ![t] = "open"]
    /\ UNCHANGED <<writervars, taskvars, since, ordered, outside>>

CloseTrade(t) ==
    /\ desk[t] = "open"
    /\ desk' = [desk EXCEPT ![t] = "over"]
    /\ UNCHANGED <<writervars, taskvars, since, ordered, outside>>

\* Somebody trades in the pool.
ChainMoves(t) ==
    /\ chain[t] < MaxLooks
    /\ chain' = [chain EXCEPT ![t] = @ + 1]
    /\ UNCHANGED <<writervars, taskvars, since, deskvars, newest, crossed>>

TaskStep(e) ==
    \/ SelectToken(e) \/ CountSwap(e) \/ Throttle(e) \/ FirstThrottle(e)
    \/ Enrich(e) \/ EnrichError(e) \/ SendEnriched(e) \/ Order(e)

Next ==
    \/ \E e \in Events : InsertToken(e) \/ SeeSwap(e) \/ TaskStep(e)
    \/ \E t \in Tokens : OpenTrade(t) \/ CloseTrade(t) \/ ChainMoves(t)
    \/ WriterStep /\ UNCHANGED <<taskvars, since, deskvars, outside>>

Spec == Init /\ [][Next]_vars

\* Every task that can run is run. Nobody has to send events or to trade.
FairSpec ==
    /\ Spec /\ WriterFairness
    /\ \A e \in Events : WF_vars(TaskStep(e))

-----------------------------------------------------------------------------
(* Properties *)

\* Coalescing is harmless: for every token of which no batch was refused, what
\* the row will hold once all that is under way is written is what it would hold
\* had every update been written the moment it was sent. Supply and decimals are
\* left out, for which it is not so: the map keeps the later, the row the earlier.
AsIfSerial ==
    \A t \in Tokens \ lost :
        LET row == Outlook(t) IN
            /\ row.price = serial[t].price
            /\ row.init = serial[t].init
            /\ row.txs = serial[t].txs

\* The price in the table is the newest that any enrichment has sent, unless two
\* enrichments of the token overlapped, or a batch with it was refused.
PriceIsNewest ==
    \A t \in Tokens \ (lost \cup crossed) :
        Settled(t) => table[t].price = newest[t]

\* A token is handed to handlerorder only when its price is written or under way,
\* with its initial pool: the keeper gives up a trade without a price, and takes
\* one without an initial pool for one that was never drained.
OrderedIsPriced ==
    \A e \in ordered : About[e] \notin lost =>
        Outlook(About[e]).price # 0 /\ Outlook(About[e]).init # 0

\* A token is bought for the event that created it at most once, however often
\* the stream reports that event.
OrderedOnce ==
    \A e, o \in ordered \cap Creations : About[e] = About[o] => e = o

\* Every update is written, or lost in a batch the database refused: none is
\* left in the map by a writer that waits for more.
UpdatesLand ==
    \A t \in Tokens : ~Settled(t) ~> (Settled(t) \/ t \in lost)
=============================================================================
