------------------------------- MODULE MCStream -------------------------------
(***************************************************************************)
(* A chain of transactions for EventStream, each a case that a parser or   *)
(* the order of a transaction makes, with its truth beside it; and the     *)
(* scenarios: every transaction alone through the configuration of         *)
(* main.rs and without a filter, and small streams through all kinds of    *)
(* configurations.                                                         *)
(***************************************************************************)
EXTENDS EventStream

User(name, tok, sol) == [name |-> name, tok |-> tok, sol |-> sol]
Alice == User("alice", "alice_tok", "alice_sol")
Bob == User("bob", "bob_tok", "bob_sol")

Pool(name, token, tok, sol, maker) ==
    [name |-> name, token |-> token, tok |-> tok, sol |-> sol, maker |-> maker]
One == Pool("pool1", "token1", "vault1_tok", "vault1_sol", "alice")
Two == Pool("pool2", "token2", "vault2_tok", "vault2_sol", "carol")

\* What a call does: a purchase, a sale, or something else.
Deed(type, pool) ==
    [type |-> type, mints |-> {pool.token, Wsol}, from |-> NoOne, to |-> NoOne,
     paid |-> 0, got |-> 0, legs |-> FALSE, full |-> TRUE, who |-> NoOne, maker |-> pool.maker]
Buying(type, pool, paid, got) ==
    [Deed(type, pool) EXCEPT !.from = Wsol, !.to = pool.token, !.paid = paid, !.got = got,
                             !.legs = TRUE]
Selling(type, pool, paid, got) ==
    [Deed(type, pool) EXCEPT !.from = pool.token, !.to = Wsol, !.paid = paid, !.got = got,
                             !.legs = TRUE]

Call(program, disc, data, accs, acc, arg, truth) ==
    [kind |-> "call", program |-> program, disc |-> disc, data |-> data, accs |-> accs,
     acc |-> acc, arg |-> arg, text |-> 0, curve |-> "constant", creator |-> NoOne,
     truth |-> truth]

Move(tag, from, to, amount) ==
    [kind |-> "move", program |-> IF tag = 2 THEN "system" ELSE "token", tag |-> tag,
     accs |-> MoveNeeds[tag].accs, bytes |-> MoveNeeds[tag].bytes,
     from |-> from, to |-> to, amount |-> amount]
\* InitializeMultisig has the tag of a system transfer, and fewer bytes.
Multisig == [Move(3, "-", "-", 0) EXCEPT !.tag = 2, !.bytes = 2]
Elsewhere == [kind |-> "none", program |-> "elsewhere"]

Purchase(user, pool, paid, got) ==
    <<Move(12, user.sol, pool.sol, paid), Move(12, pool.tok, user.tok, got)>>
Sale(user, pool, paid, got) ==
    <<Move(3, user.tok, pool.tok, paid), Move(3, pool.sol, user.sol, got)>>

\* A log of the call at index `of`; `more` bytes beyond its size.
Log(program, name, of, f, more) ==
    [kind |-> "log", program |-> program, log |-> name, disc |-> LogTable[name].disc,
     size |-> LogTable[name].size + more, value |-> LogTable[name].size,
     poses |-> FALSE, of |-> of, full |-> more >= 0, f |-> f]

Tx(outer, inner) == [kind |-> "tx", tx |-> [failed |-> FALSE, outer |-> outer, inner |-> inner]]
Alone(call, inner) == Tx(<<call>>, <<inner>>)
Routed(inner) == Tx(<<Elsewhere>>, <<inner>>)

-----------------------------------------------------------------------------
(* Bonk *)

BonkCall(type, user, pool, arg, truth) ==
    Call("bonk", CASE type = "BonkBuyExactIn" -> "buy_exact_in"
                   [] type = "BonkBuyExactOut" -> "buy_exact_out"
                   [] type = "BonkSellExactIn" -> "sell_exact_in"
                   [] type = "BonkSellExactOut" -> "sell_exact_out",
         24, 18,
         0 :> user.name @@ 4 :> pool.name @@ 5 :> user.tok @@ 6 :> user.sol @@ 7 :> pool.tok
           @@ 8 :> pool.sol @@ 9 :> pool.token @@ 10 :> Wsol, arg,
         [truth EXCEPT !.who = user.name])

BonkLog(of, pool, side, paid, got, more) ==
    Log("bonk", "bonk_trade", of,
        [pool |-> pool.name, side |-> side, paid |-> paid, got |-> got], more)

BonkCreate(type, user, pool, data, accs, text) ==
    [Call("bonk", IF type = "BonkInitialize" THEN "initialize" ELSE "initialize_v2", data, accs,
          0 :> user.name @@ 1 :> user.name @@ 5 :> pool.name @@ 6 :> pool.token @@ 7 :> Wsol
            @@ 8 :> pool.tok @@ 9 :> pool.sol, 0,
          [Deed(type, pool) EXCEPT !.who = user.name, !.maker = user.name])
        EXCEPT !.text = text]

Lacking(call) == [call EXCEPT !.truth.full = FALSE]

BonkChain ==
    LET buy == BonkCall("BonkBuyExactIn", Alice, One, 5, Buying("BonkBuyExactIn", One, 5, 3))
        out == BonkCall("BonkBuyExactOut", Bob, One, 4, Buying("BonkBuyExactOut", One, 7, 4))
        sale == BonkCall("BonkSellExactOut", Alice, One, 2, Selling("BonkSellExactOut", One, 6, 2))
        again == BonkCall("BonkSellExactIn", Alice, One, 6, Selling("BonkSellExactIn", One, 6, 1))
        create == BonkCreate("BonkInitialize", Alice, One, 90, 18, 12)
        told == Purchase(Alice, One, 5, 3)
        amm == Call("bonk", "migrate_to_amm", 17, 32, 1 :> "token1" @@ 2 :> Wsol @@ 13 :> "pool1",
                    0, Deed("BonkMigrateToAmm", One))
        cpswap == Call("bonk", "migrate_to_cpswap", 0, 28,
                       1 :> "token1" @@ 2 :> Wsol @@ 5 :> "pool1",
                       0, Deed("BonkMigrateToCpswap", One))
    IN [bonk_buy |-> Alone(buy, told \o <<BonkLog(<<1>>, One, "buy", 5, 3, 0)>>),
        bonk_pair |->
            Routed(<<sale>> \o Sale(Alice, One, 6, 2) \o <<BonkLog(<<1, 1>>, One, "sell", 6, 2, 0), again>>
                     \o Sale(Alice, One, 6, 1) \o <<BonkLog(<<1, 5>>, One, "sell", 6, 1, 0)>>),
        bonk_equal |->
            Routed(<<out>> \o Purchase(Bob, One, 7, 4) \o <<BonkLog(<<1, 1>>, One, "buy", 7, 4, 0), out>>
                     \o Purchase(Bob, One, 7, 4) \o <<BonkLog(<<1, 5>>, One, "buy", 7, 4, 0)>>),
        bonk_log_first |->
            Alone([buy EXCEPT !.truth.legs = FALSE],
                  <<BonkLog(<<1>>, One, "buy", 5, 3, 0)>> \o told),
        bonk_no_log |-> Alone(buy, told \o <<BonkLog(<<1>>, One, "buy", 5, 3, -1)>>),
        bonk_create_buy |->
            Tx(<<create, buy>>, <<<<>>, told \o <<BonkLog(<<2>>, One, "buy", 5, 3, 0)>>>>),
        bonk_create_nested_buy |->
            Tx(<<create, Elsewhere>>,
               <<<<>>, <<buy>> \o told \o <<BonkLog(<<2, 1>>, One, "buy", 5, 3, 0)>>>>),
        bonk_nested_create_buy |->
            Tx(<<Elsewhere, buy>>,
               <<<<create>>, told \o <<BonkLog(<<2>>, One, "buy", 5, 3, 0)>>>>),
        bonk_create_twice |->
            Tx(<<create, BonkCreate("BonkInitializeV2", Bob, Two, 76, 18, 12),
                 BonkCall("BonkBuyExactIn", Bob, Two, 5, Buying("BonkBuyExactIn", Two, 5, 3))>>,
               <<<<>>, <<>>, Purchase(Bob, Two, 5, 3) \o <<BonkLog(<<3>>, Two, "buy", 5, 3, 0)>>>>),
        bonk_create_few |-> Alone(Lacking(BonkCreate("BonkInitialize", Alice, One, 90, 9, 12)), <<>>),
        bonk_create_v2 |-> Alone(BonkCreate("BonkInitializeV2", Bob, Two, 76, 18, 12), <<>>),
        bonk_create_v2_edge |->
            Alone(Lacking(BonkCreate("BonkInitializeV2", Bob, Two, 75, 18, 12)), <<>>),
        bonk_migrate |-> Tx(<<amm, cpswap>>, <<<<>>, <<>>>>),
        bonk_migrate_short |-> Alone(Lacking([amm EXCEPT !.data = 16]), <<>>)]

-----------------------------------------------------------------------------
(* PumpFun *)

PumpFunCall(type, user, pool, data, accs, truth) ==
    Call("pumpfun", IF type = "PumpFunBuy" THEN "buy" ELSE "sell", data, accs,
         2 :> pool.token @@ 6 :> user.name, 0, [truth EXCEPT !.who = user.name])
PumpFunTrade(of, user, pool, side, paid, got, more) ==
    Log("pumpfun", "pumpfun_trade", of,
        [pool |-> pool.token, mint |-> pool.token, user |-> user.name, creator |-> pool.maker,
         side |-> side, paid |-> paid, got |-> got], more)
PumpFunNew(user, pool, data, text) ==
    [Call("pumpfun", "create", data, 14, 0 :> pool.token @@ 2 :> pool.name @@ 7 :> user.name, 0,
          [Deed("PumpFunCreateToken", pool)
              EXCEPT !.mints = {pool.token}, !.who = user.name, !.maker = user.name])
        EXCEPT !.text = text, !.creator = user.name]

PumpFunChain ==
    LET buy(user, pool) ==
            PumpFunCall("PumpFunBuy", user, pool, 16, 16, Buying("PumpFunBuy", pool, 5, 3))
        sell == PumpFunCall("PumpFunSell", Bob, Two, 16, 14, Selling("PumpFunSell", Two, 3, 4))
        create == PumpFunNew(Alice, One, 80, 30)
        moves(user, pool) == <<Move(3, pool.tok, user.tok, 3), Move(2, user.name, pool.name, 5)>>
        created == Log("pumpfun", "pumpfun_create", <<1>>,
                       [mint |-> "token1", pool |-> "pool1", user |-> "alice",
                        creator |-> "alice"], 0)
        Bought(of, user, pool) ==
            moves(user, pool) \o <<PumpFunTrade(of, user, pool, "buy", 5, 3, 0)>>
        migrate == Call("pumpfun", "migrate", 0, 24, 2 :> "token1" @@ 5 :> "alice" @@ 9 :> "pool1",
                        0, [Deed("PumpFunMigrate", One) EXCEPT !.mints = {"token1"}])
    IN [pumpfun_create_buy |->
            Tx(<<create, buy(Alice, One)>>,
               <<<<[created EXCEPT !.size = 300, !.value = 290, !.full = FALSE]>>,
                 Bought(<<2>>, Alice, One)>>),
        pumpfun_create_told |-> Alone(create, <<created>>),
        pumpfun_create_nested_buy |->
            Tx(<<create, Elsewhere>>,
               <<<<>>, <<buy(Alice, One)>> \o Bought(<<2, 1>>, Alice, One)>>),
        pumpfun_nested_create_buy |->
            Tx(<<Elsewhere, buy(Alice, One)>>,
               <<<<create>>, Bought(<<2>>, Alice, One)>>),
        pumpfun_create_later |->
            Tx(<<Elsewhere, create>>,
               <<<<buy(Alice, Two)>> \o Bought(<<1, 1>>, Alice, Two), <<>>>>),
        pumpfun_bundle |->
            Tx(<<create, buy(Bob, One), buy(Bob, Two)>>,
               <<<<>>, Bought(<<2>>, Bob, One), Bought(<<3>>, Bob, Two)>>),
        pumpfun_sell |->
            Routed(<<sell, Move(3, "bob_tok", "vault2_tok", 3),
                     [PumpFunTrade(<<1, 1>>, Bob, Two, "sell", 3, 4, 16)
                         EXCEPT !.poses = TRUE]>>),
        pumpfun_behind_bonk |->
            Routed(<<BonkCall("BonkSellExactIn", Bob, One, 6, Selling("BonkSellExactIn", One, 6, 1))>>
                     \o Sale(Bob, One, 6, 1) \o <<BonkLog(<<1, 1>>, One, "sell", 6, 1, 0)>>
                     \o <<sell, Move(3, "bob_tok", "vault2_tok", 3),
                          [PumpFunTrade(<<1, 5>>, Bob, Two, "sell", 3, 4, 16)
                              EXCEPT !.poses = TRUE]>>),
        pumpfun_old_buy |->
            Alone(Lacking(PumpFunCall("PumpFunBuy", Bob, One, 16, 13, Buying("PumpFunBuy", One, 5, 3))),
                  Bought(<<1>>, Bob, One)),
        pumpfun_old_sell |->
            Alone(Lacking(PumpFunCall("PumpFunSell", Bob, One, 16, 11,
                                      [Selling("PumpFunSell", One, 3, 4) EXCEPT !.legs = FALSE])),
                  <<>>),
        pumpfun_multisig |->
            Alone(buy(Bob, One), Bought(<<1>>, Bob, One) \o <<Multisig>>),
        pumpfun_create_short |-> Alone(Lacking(PumpFunNew(Bob, One, 40, 30)), <<>>),
        pumpfun_migrate |->
            Alone(migrate, <<Log("pumpfun", "pumpfun_migrate", <<1>>,
                                 [mint |-> "token1", user |-> "alice", pool |-> "pool1"], 0)>>)]

-----------------------------------------------------------------------------
(* PumpSwap; its pools hold the token as quote when WSOL is the base *)

PumpSwapCall(disc, type, user, pool, base, quote, data, accs, arg, truth) ==
    Call("pumpswap", disc, data, accs,
         IF disc \in {"buy", "sell"}
         THEN 0 :> pool.name @@ 1 :> user.name @@ 3 :> base @@ 4 :> quote
         ELSE 0 :> pool.name @@ 2 :> user.name @@ 3 :> base @@ 4 :> quote
                @@ 9 :> pool.sol @@ 10 :> pool.tok, arg, truth)
PumpSwapLog(name, of, user, pool, amount, paid, got) ==
    Log("pumpswap", name, of,
        [user |-> user.name, creator |-> user.name, pool |-> pool.name, amount |-> amount,
         paid |-> paid, got |-> got, base_mint |-> Wsol, quote_mint |-> pool.token], 0)

PumpSwapChain ==
    LET create(base, quote) ==
            PumpSwapCall("create_pool", "PumpSwapCreatePool", Alice, One, base, quote, 18, 18, 8,
                         Deed("PumpSwapCreatePool", One))
        buy == PumpSwapCall("buy", "PumpSwapBuy", Bob, One, Wsol, "token1", 16, 17, 2,
                            Selling("PumpSwapBuy", One, 6, 2))
        sell == PumpSwapCall("sell", "PumpSwapSell", Bob, One, Wsol, "token1", 16, 17, 4,
                             Buying("PumpSwapSell", One, 4, 9))
        bought(of) == Sale(Bob, One, 6, 2) \o <<PumpSwapLog("pumpswap_buy", of, Bob, One, 2, 6, 2)>>
        deposit == PumpSwapCall("deposit", "PumpSwapDeposit", Alice, One, Wsol, "token1", 24, 15, 7,
                                Deed("PumpSwapDeposit", One))
        withdraw == PumpSwapCall("withdraw", "PumpSwapWithdraw", Alice, One, Wsol, "token1", 24, 15, 7,
                                 Deed("PumpSwapWithdraw", One))
    IN [pumpswap_create |->
            Alone(create(Wsol, "token1"),
                  <<PumpSwapLog("pumpswap_create", <<1>>, Alice, One, 8, 0, 0)>>),
        pumpswap_create_token |-> Alone(create("token1", Wsol), <<>>),
        pumpswap_equal |->
            Routed(<<buy>> \o bought(<<1, 1>>) \o <<buy>> \o bought(<<1, 5>>)),
        pumpswap_sell |->
            Alone(sell, Purchase(Bob, One, 4, 9)
                          \o <<PumpSwapLog("pumpswap_sell", <<1>>, Bob, One, 4, 4, 9)>>),
        pumpswap_old_buy |-> Alone(Lacking([buy EXCEPT !.accs = 11]), bought(<<1>>)),
        pumpswap_liquidity |->
            Tx(<<deposit, withdraw>>,
               <<<<PumpSwapLog("pumpswap_deposit", <<1>>, Alice, One, 7, 0, 0)>>,
                 <<PumpSwapLog("pumpswap_withdraw", <<2>>, Alice, One, 7, 0, 0)>>>>)]

-----------------------------------------------------------------------------
(* Raydium *)

AmmCall(type, disc, data, accs, acc, arg, truth) ==
    Call("raydiumamm", disc, data, accs, acc, arg, truth)
\* Seventeen accounts leave the target orders out, and all behind them move up.
AmmSwap(type, disc, accs, from, to, arg, truth) ==
    AmmCall(type, disc, 16, accs,
            LET acc == 1 :> "pool1" @@ 5 :> "vault1_tok" @@ 6 :> "vault1_sol"
                         @@ 15 :> from @@ 16 :> to @@ 17 :> "alice"
            IN IF accs = 18 THEN acc
               ELSE [i \in {j - (IF j > 4 THEN 1 ELSE 0) : j \in DOMAIN acc} |->
                        acc[IF i > 3 THEN i + 1 ELSE i]],
            arg, truth)

AmmChain ==
    LET init == AmmCall("RaydiumAmmV4Initialize2", "1", 25, 21,
                        4 :> "pool1" @@ 8 :> "token1" @@ 9 :> Wsol @@ 10 :> "vault1_tok"
                          @@ 11 :> "vault1_sol" @@ 17 :> "alice", 0,
                        Deed("RaydiumAmmV4Initialize2", One))
        buy(accs) == AmmSwap("RaydiumAmmV4SwapBaseIn", "9", accs, "alice_sol", "alice_tok", 5,
                             Buying("RaydiumAmmV4SwapBaseIn", One, 5, 3))
        sell == AmmSwap("RaydiumAmmV4SwapBaseOut", "11", 18, "alice_tok", "alice_sol", 2,
                        [Selling("RaydiumAmmV4SwapBaseOut", One, 6, 2) EXCEPT !.legs = FALSE])
        Simple(type, disc, data, accs, user) ==
            AmmCall(type, disc, data, accs, 1 :> "pool1" @@ user :> "alice", 0, Deed(type, One))
    IN [amm_create |-> Alone(init, <<>>),
        amm_buy |-> Alone(buy(17), Purchase(Alice, One, 5, 3)),
        amm_buy_pair |-> Routed(<<buy(18)>> \o Purchase(Alice, One, 5, 3) \o <<Elsewhere, sell>>
                                  \o Sale(Alice, One, 6, 2)),
        amm_liquidity |->
            Tx(<<Simple("RaydiumAmmV4Deposit", "3", 24, 14, 12),
                 Simple("RaydiumAmmV4Withdraw", "4", 8, 22, 18),
                 Simple("RaydiumAmmV4WithdrawPnl", "7", 0, 17, 9)>>, <<<<>>, <<>>, <<>>>>)]

ClmmChain ==
    LET Clmm(type, disc, data, accs, acc, truth) ==
            Call("raydiumclmm", disc, data, accs, acc, 0, truth)
        legs == 0 :> "alice" @@ 2 :> "pool1" @@ 3 :> "alice_sol" @@ 4 :> "alice_tok"
                  @@ 5 :> "vault1_sol" @@ 6 :> "vault1_tok" @@ 11 :> Wsol @@ 12 :> "token1"
        swap == Clmm("RaydiumClmmSwap", "swap", 33, 10, legs,
                     Buying("RaydiumClmmSwap", One, 5, 3))
        swap2 == Clmm("RaydiumClmmSwapV2", "swap_v2", 33, 13, legs,
                      Buying("RaydiumClmmSwapV2", One, 4, 2))
        create == Clmm("RaydiumClmmCreatePool", "create_pool", 24, 13,
                       0 :> "alice" @@ 2 :> "pool1" @@ 3 :> Wsol @@ 4 :> "token1"
                         @@ 5 :> "vault1_sol" @@ 6 :> "vault1_tok",
                       Deed("RaydiumClmmCreatePool", One))
        Simple(type, disc, data, accs) ==
            Clmm(type, disc, data, accs, 0 :> "alice" @@ 2 :> "pool1" @@ 3 :> "pool1"
                   @@ 4 :> "pool1" @@ 5 :> "pool1", Deed(type, One))
    IN [clmm_create |-> Alone(create, <<>>),
        clmm_swaps |-> Routed(<<swap>> \o Purchase(Alice, One, 5, 3) \o <<swap2>>
                                \o Purchase(Alice, One, 4, 2)),
        clmm_exits |->
            Tx(<<Simple("RaydiumClmmDecreaseLiquidityV2", "decrease_liquidity_v2", 32, 16),
                 Simple("RaydiumClmmClosePosition", "close_position", 0, 6)>>, <<<<>>, <<>>>>),
        clmm_positions |->
            Tx(<<Simple("RaydiumClmmOpenPositionV2", "open_position_v2", 51, 22),
                 Simple("RaydiumClmmIncreaseLiquidityV2", "increase_liquidity_v2", 34, 15),
                 Lacking(Simple("RaydiumClmmOpenPositionWithToken22Nft", "open_position_22", 50, 20))>>,
               <<<<>>, <<>>, <<>>>>)]

CpmmChain ==
    LET Cpmm(disc, data, accs, acc, arg, truth) ==
            Call("raydiumcpmm", disc, data, accs, acc, arg, truth)
        buy == Cpmm("swap_base_in", 16, 13,
                    0 :> "alice" @@ 3 :> "pool1" @@ 4 :> "alice_sol" @@ 5 :> "alice_tok"
                      @@ 6 :> "vault1_sol" @@ 7 :> "vault1_tok" @@ 10 :> Wsol @@ 11 :> "token1", 5,
                    Buying("RaydiumCpmmSwapBaseInput", One, 5, 3))
        sell == Cpmm("swap_base_out", 16, 13,
                     0 :> "alice" @@ 3 :> "pool1" @@ 4 :> "alice_tok" @@ 5 :> "alice_sol"
                       @@ 6 :> "vault1_tok" @@ 7 :> "vault1_sol" @@ 10 :> "token1" @@ 11 :> Wsol, 2,
                     Selling("RaydiumCpmmSwapBaseOutput", One, 6, 2))
        create == Cpmm("initialize", 24, 20,
                       0 :> "alice" @@ 3 :> "pool1" @@ 4 :> Wsol @@ 5 :> "token1"
                         @@ 10 :> "vault1_sol" @@ 11 :> "vault1_tok", 0,
                       Deed("RaydiumCpmmInitialize", One))
        Simple(type, disc, accs) ==
            Cpmm(disc, 24, accs, 0 :> "alice" @@ 2 :> "pool1", 0, Deed(type, One))
    IN [cpmm_create |-> Alone(create, <<>>),
        cpmm_round |-> Routed(<<buy>> \o Purchase(Alice, One, 5, 3) \o <<sell>>
                                \o Sale(Alice, One, 6, 2)),
        cpmm_liquidity |->
            Tx(<<Simple("RaydiumCpmmDeposit", "deposit", 13),
                 Simple("RaydiumCpmmWithdraw", "withdraw", 14)>>, <<<<>>, <<>>>>),
        cpmm_withdraw_few |-> Alone(Lacking(Simple("RaydiumCpmmWithdraw", "withdraw", 13)), <<>>),
        cpmm_multisig |-> Alone(buy, Purchase(Alice, One, 5, 3) \o <<Multisig>>)]

-----------------------------------------------------------------------------
(* Other messages *)

OwnedBy(program, disc, data, value) ==
    [kind |-> "account", owner |-> program, disc |-> disc, data |-> data, value |-> value,
     pubkey |-> "pool1"]

OtherChain ==
    [amm_info |-> OwnedBy("raydiumamm", "6", 752, 752),
     amm_info_short |-> OwnedBy("raydiumamm", "6", 751, 751),
     bonk_platform |-> OwnedBy("bonk", "platform_config", 7000, 6900),
     stranger |-> OwnedBy("elsewhere", "6", 752, 752),
     block |-> [kind |-> "block"],
     ping |-> [kind |-> "ping"],
     broken |-> [kind |-> "broken"],
     failed |-> [Alone(Elsewhere, <<>>) EXCEPT !.tx.failed = TRUE],
     unrelated |-> Alone(Elsewhere, <<>>)]

MCChain ==
    BonkChain @@ PumpFunChain @@ PumpSwapChain @@ AmmChain @@ ClmmChain @@ CpmmChain @@ OtherChain

-----------------------------------------------------------------------------
(* Scenarios *)

Using(preset, mode, filter) == [mode |-> mode, filter |-> filter] @@ preset

\* main.rs, and every preset in both modes without a filter.
BatchSize == 2
HighPerformance == Using(Presets(BatchSize).high_performance, "immediate", "main")
Unfiltered == [HighPerformance EXCEPT !.filter = "none"]
Lossless == Using(Presets(BatchSize).lossless_blocking, "immediate", "none")
LowLatency == Using(Presets(BatchSize).low_latency, "batch", "none")

Setups ==
    {HighPerformance, Lossless, LowLatency,
     [Unfiltered EXCEPT !.strategy = "Drop"],
     [Unfiltered EXCEPT !.mode = "batch"],
     [Lossless EXCEPT !.mode = "batch"]}

Streams ==
    {<<"pumpfun_create_buy", "pumpfun_sell", "bonk_buy">>,
     <<"pumpfun_old_buy", "pumpfun_old_sell", "cpmm_round">>,
     <<"bonk_buy", "block", "amm_buy_pair", "cpmm_multisig">>,
     <<"amm_buy", "broken", "amm_buy">>}

Plans ==
    {<<setting, <<name>>>> : setting \in {HighPerformance, Unfiltered}, name \in DOMAIN MCChain}
        \cup {<<setting, stream>> : setting \in Setups, stream \in Streams}
        \cup {<<[Lossless EXCEPT !.metrics = TRUE], <<"bonk_buy", "amm_info_short", "ping", "amm_buy">>>>,
              <<[Lossless EXCEPT !.metrics = TRUE, !.mode = "batch"],
                <<"clmm_swaps", "amm_info", "bonk_buy">>>>}

MCScenarios ==
    LET chain == MCChain
        Messages(names) == [i \in DOMAIN names |-> chain[names[i]]]
    IN {Subscription(plan[1], Messages(plan[2])) :
           plan \in {p \in Plans :
                       \A i \in DOMAIN p[2] : Subscribed(p[1].filter, chain[p[2][i]])}}

=============================================================================
