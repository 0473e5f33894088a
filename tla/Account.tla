------------------------------ MODULE Account -------------------------------
(***************************************************************************)
(* What the order desk promises of the trading account, with none of its   *)
(* tables, caches, permits and retries: positions are bought, drawn down   *)
(* and given up in single steps, and the limits of config/bot.yaml hold at *)
(* the very moment of the buy.                                             *)
(*                                                                         *)
(* The session limit is the one the code enforces. main.maxtrades is       *)
(* compared with the trades already CLOSED, so up to OpenTrades - 1 open   *)
(* ones come on top of it.                                                 *)
(***************************************************************************)
EXTENDS Integers, FiniteSets

CONSTANTS Orders, OpenTrades, MaxTrades, Amount, QuoteFees, Proceeds, Misses

VARIABLES
    position,   \* of each order: none, held or flat
    token,      \* the mint of each order
    funds       \* the SOL in the account

avars == <<position, token, funds>>

Held == {o \in Orders : position[o] = "held"}
Taken == {o \in Orders : position[o] # "none"}

MayBuy(o) ==
    /\ OpenTrades > 0 => Cardinality(Held) < OpenTrades
    /\ (OpenTrades > 0 /\ MaxTrades > 0) =>
           Cardinality(Taken) < MaxTrades + OpenTrades - 1
    /\ \A q \in Taken : token[q] # token[o]

AInit ==
    /\ position = [o \in Orders |-> "none"]
    /\ funds \in Int

Buy(o) ==
    /\ position[o] = "none"
    /\ MayBuy(o)
    /\ position' = [position EXCEPT ![o] = "held"]
    /\ \E fee \in QuoteFees, miss \in Misses : funds' = funds - (Amount + fee) + miss
    /\ UNCHANGED token

DrawDown(o) ==
    /\ position[o] = "held"
    /\ \E proceeds \in Proceeds, miss \in Misses : funds' = funds + proceeds + miss
    /\ UNCHANGED <<position, token>>

\* Sold, or given up after the last attempt.
GiveUp(o) ==
    /\ position[o] = "held"
    /\ position' = [position EXCEPT ![o] = "flat"]
    /\ \/ \E proceeds \in Proceeds, miss \in Misses : funds' = funds + proceeds + miss
       \/ UNCHANGED funds
    /\ UNCHANGED token

ANext == \E o \in Orders : Buy(o) \/ DrawDown(o) \/ GiveUp(o)

ASpec == AInit /\ [][ANext]_avars
=============================================================================
