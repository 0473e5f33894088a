---------------------------- MODULE EventTables -----------------------------
(***************************************************************************)
(* What the six protocol parsers of streaming/events/protocols look for: a *)
(* layout for each GenericEventParseConfig they are built from, and a      *)
(* record for each log that one of them decodes. EventParser reads these   *)
(* tables; nothing here changes state.                                     *)
(*                                                                         *)
(* A layout has the fields of its config (type, program, disc, log) and    *)
(* what its instruction parser does with an instruction:                   *)
(*   data, accs   shorter ones give no event: the guard, and the reads     *)
(*                whose failure ends the parser with None;                 *)
(*   reads, top   bytes and accounts it then reads without asking;         *)
(*   id, arg      the accounts that identify the event, and whether the    *)
(*                amount of the instruction does too;                      *)
(*   side, known  the direction, and which of the two amounts of a trade   *)
(*                the instruction tells (the other one is in the log);     *)
(*   struct, at   the event it becomes, and the accounts that the rest of  *)
(*                the program uses, by position.                           *)
(* Discriminators are named where their bytes differ: one name for two     *)
(* programs means the same eight bytes in both.                            *)
(***************************************************************************)
EXTENDS Naturals, Sequences, TLC

NoLog == "none"

\* A parser whose guards cover all it reads.
Plain(type, struct, program, disc, data, accs, id, at) ==
    [type |-> type, struct |-> struct, program |-> program, disc |-> disc,
     log |-> NoLog, data |-> data, accs |-> accs, reads |-> data, top |-> accs,
     id |-> id, arg |-> FALSE, side |-> "-", known |-> "-", at |-> at]

With(layout, change) ==
    [f \in DOMAIN layout |-> IF f \in DOMAIN change THEN change[f] ELSE layout[f]]

-----------------------------------------------------------------------------
(* Bonk *)

BonkTrade(type, disc, side, known) ==
    With(Plain(type, "BonkTradeEvent", "bonk", disc, 24, 18, <<4>>,
               [payer |-> 0, pool |-> 4, user_base |-> 5, user_quote |-> 6,
                base_vault |-> 7, quote_vault |-> 8, base_mint |-> 9,
                quote_mint |-> 10]),
         [log |-> "bonk_trade", side |-> side, known |-> known])

BonkBuys ==
    {BonkTrade("BonkBuyExactIn", "buy_exact_in", "buy", "paid"),
     BonkTrade("BonkBuyExactOut", "buy_exact_out", "buy", "got")}

BonkSells ==
    {BonkTrade("BonkSellExactIn", "sell_exact_in", "sell", "paid"),
     BonkTrade("BonkSellExactOut", "sell_exact_out", "sell", "got")}

\* Neither looks at the number of accounts. The strings, the curve and the
\* vesting are EventParser!BonkParams.
BonkPools ==
    LET Create(type, disc) ==
            With(Plain(type, "BonkPoolCreateEvent", "bonk", disc, 24, 0, <<>>,
                       [payer |-> 0, creator |-> 1, pool |-> 5, base_mint |-> 6,
                        quote_mint |-> 7, base_vault |-> 8, quote_vault |-> 9]),
                 [log |-> "bonk_create", top |-> 10])
    IN {Create("BonkInitialize", "initialize"), Create("BonkInitializeV2", "initialize_v2")}

\* The byte after the two lots is read although only the lots are asked for, and
\* the accounts are never counted.
BonkMigrations ==
    {With(Plain("BonkMigrateToAmm", "BonkMigrateToAmmEvent", "bonk", "migrate_to_amm",
                16, 0, <<>>, [base_mint |-> 1, quote_mint |-> 2, pool |-> 13]),
          [reads |-> 17, top |-> 32]),
     With(Plain("BonkMigrateToCpswap", "BonkMigrateToCpswapEvent", "bonk",
                "migrate_to_cpswap", 0, 0, <<>>,
                [base_mint |-> 1, quote_mint |-> 2, pool |-> 5]),
          [top |-> 28])}

BonkLayouts == BonkBuys \cup BonkSells \cup BonkPools \cup BonkMigrations

-----------------------------------------------------------------------------
(* PumpFun *)

\* The guard asks for 13 accounts and the last one read is the 14th.
PumpFunBuy ==
    With(Plain("PumpFunBuy", "PumpFunTradeEvent", "pumpfun", "buy", 16, 13, <<2, 6>>,
               [mint |-> 2, user |-> 6]),
         [log |-> "pumpfun_trade", side |-> "buy", top |-> 14])

\* The guard asks for 11 accounts and the last one read unasked is the 12th.
PumpFunSell ==
    With(Plain("PumpFunSell", "PumpFunTradeEvent", "pumpfun", "sell", 16, 11, <<2, 6>>,
               [mint |-> 2, user |-> 6]),
         [log |-> "pumpfun_trade", side |-> "sell", top |-> 12])

\* The strings in the data are cut out unasked: EventParser!Overruns. Name and
\* symbol are part of the id; a mint is created once, and stands for them.
PumpFunCreate ==
    With(Plain("PumpFunCreateToken", "PumpFunCreateTokenEvent", "pumpfun", "create",
               16, 11, <<0>>, [mint |-> 0, pool |-> 2, user |-> 7]),
         [log |-> "pumpfun_create"])

PumpFunMigrate ==
    With(Plain("PumpFunMigrate", "PumpFunMigrateEvent", "pumpfun", "migrate", 0, 24,
               <<5, 2>>, [mint |-> 2, user |-> 5, pool |-> 9]),
         [log |-> "pumpfun_migrate"])

PumpFunLayouts == {PumpFunBuy, PumpFunSell, PumpFunCreate, PumpFunMigrate}

-----------------------------------------------------------------------------
(* PumpSwap *)

\* The guard asks for 11 accounts and the last one read unasked is the 13th.
PumpSwapTrades ==
    LET Trade(type, struct, disc, log, known) ==
            With(Plain(type, struct, "pumpswap", disc, 16, 11, <<1, 0>>,
                       [pool |-> 0, user |-> 1, base_mint |-> 3, quote_mint |-> 4]),
                 [log |-> log, side |-> disc, known |-> known, arg |-> TRUE, top |-> 13])
    IN {Trade("PumpSwapBuy", "PumpSwapBuyEvent", "buy", "pumpswap_buy", "got"),
        Trade("PumpSwapSell", "PumpSwapSellEvent", "sell", "pumpswap_sell", "paid")}

PumpSwapCreate ==
    With(Plain("PumpSwapCreatePool", "PumpSwapCreatePoolEvent", "pumpswap", "create_pool",
               18, 11, <<0, 2>>,
               [pool |-> 0, creator |-> 2, base_mint |-> 3, quote_mint |-> 4,
                base_vault |-> 9, quote_vault |-> 10]),
         [log |-> "pumpswap_create", arg |-> TRUE])

PumpSwapLiquidity ==
    LET Move(type, struct, disc, log) ==
            With(Plain(type, struct, "pumpswap", disc, 24, 11, <<0, 2>>,
                       [pool |-> 0, user |-> 2, base_mint |-> 3, quote_mint |-> 4]),
                 [log |-> log, arg |-> TRUE])
    IN {Move("PumpSwapDeposit", "PumpSwapDepositEvent", "deposit", "pumpswap_deposit"),
        Move("PumpSwapWithdraw", "PumpSwapWithdrawEvent", "withdraw", "pumpswap_withdraw")}

PumpSwapLayouts == PumpSwapTrades \cup {PumpSwapCreate} \cup PumpSwapLiquidity

-----------------------------------------------------------------------------
(* Raydium AMM V4: one-byte discriminators and no logs *)

AmmPlain(type, struct, disc, data, accs, at) ==
    Plain(type, struct, "raydiumamm", disc, data, accs, <<3, 10, 11>>, at)

\* The target orders are optional: 17 accounts are read as 18 with a default one
\* in place 4 (EventParser!Account).
AmmSwaps ==
    LET Swap(type, disc, known) ==
            With(AmmPlain(type, "RaydiumAmmV4SwapEvent", disc, 16, 17,
                          [pool |-> 1, pool_coin |-> 5, pool_pc |-> 6, user_source |-> 15,
                           user_destination |-> 16, payer |-> 17]),
                 [known |-> known])
    IN {Swap("RaydiumAmmV4SwapBaseIn", "9", "paid"),
        Swap("RaydiumAmmV4SwapBaseOut", "11", "got")}

AmmInitialize ==
    {AmmPlain("RaydiumAmmV4Initialize2", "RaydiumAmmV4Initialize2Event", "1", 25, 21,
              [pool |-> 4, coin_mint |-> 8, pc_mint |-> 9, pool_coin |-> 10,
               pool_pc |-> 11, creator |-> 17])}

AmmDeposit ==
    {AmmPlain("RaydiumAmmV4Deposit", "RaydiumAmmV4DepositEvent", "3", 24, 14,
              [pool |-> 1, user |-> 12])}

AmmWithdraws ==
    {AmmPlain("RaydiumAmmV4Withdraw", "RaydiumAmmV4WithdrawEvent", "4", 8, 22,
              [pool |-> 1, user |-> 18]),
     AmmPlain("RaydiumAmmV4WithdrawPnl", "RaydiumAmmV4WithdrawPnlEvent", "7", 0, 17,
              [pool |-> 1, user |-> 9])}

AmmLayouts == AmmSwaps \cup AmmInitialize \cup AmmDeposit \cup AmmWithdraws

-----------------------------------------------------------------------------
(* Raydium CLMM: no logs *)

ClmmPlain(type, struct, disc, data, accs, id, at) ==
    Plain(type, struct, "raydiumclmm", disc, data, accs, id, at)

\* A flag that is there takes one more byte than its presence does: 51 bytes are
\* what open_position asks for, 34 what increase_liquidity does, both included.
ClmmPositions ==
    {ClmmPlain("RaydiumClmmOpenPositionV2", "RaydiumClmmOpenPositionV2Event",
               "open_position_v2", 51, 22, <<0, 1>>, [user |-> 0, pool |-> 5]),
     ClmmPlain("RaydiumClmmOpenPositionWithToken22Nft",
               "RaydiumClmmOpenPositionWithToken22NftEvent",
               "open_position_22", 51, 20, <<0, 1>>, [user |-> 0, pool |-> 4]),
     ClmmPlain("RaydiumClmmIncreaseLiquidityV2", "RaydiumClmmIncreaseLiquidityV2Event",
               "increase_liquidity_v2", 34, 15, <<0, 1>>, [user |-> 0, pool |-> 2])}

ClmmExits ==
    {ClmmPlain("RaydiumClmmDecreaseLiquidityV2", "RaydiumClmmDecreaseLiquidityV2Event",
               "decrease_liquidity_v2", 32, 16, <<0, 1>>, [user |-> 0, pool |-> 3]),
     ClmmPlain("RaydiumClmmClosePosition", "RaydiumClmmClosePositionEvent",
               "close_position", 0, 6, <<0, 1>>, [user |-> 0])}

ClmmCreate ==
    {ClmmPlain("RaydiumClmmCreatePool", "RaydiumClmmCreatePoolEvent", "create_pool", 24, 13,
               <<0, 1>>,
               [creator |-> 0, pool |-> 2, token_mint0 |-> 3, token_mint1 |-> 4,
                token_vault0 |-> 5, token_vault1 |-> 6])}

ClmmSwaps ==
    LET legs == [payer |-> 0, pool |-> 2, input |-> 3, output |-> 4,
                 input_vault |-> 5, output_vault |-> 6]
    IN {ClmmPlain("RaydiumClmmSwap", "RaydiumClmmSwapEvent", "swap", 33, 10, <<2, 3, 4>>, legs),
        ClmmPlain("RaydiumClmmSwapV2", "RaydiumClmmSwapV2Event", "swap_v2", 33, 13, <<2, 3, 4>>,
                  [payer |-> 0, pool |-> 2, input |-> 3, output |-> 4,
                   input_vault |-> 5, output_vault |-> 6,
                   input_mint |-> 11, output_mint |-> 12])}

ClmmLayouts == ClmmPositions \cup ClmmExits \cup ClmmCreate \cup ClmmSwaps

-----------------------------------------------------------------------------
(* Raydium CPMM: no logs *)

CpmmPlain(type, struct, disc, data, accs, id, at) ==
    Plain(type, struct, "raydiumcpmm", disc, data, accs, id, at)

CpmmDeposit ==
    {CpmmPlain("RaydiumCpmmDeposit", "RaydiumCpmmDepositEvent", "deposit", 24, 13,
               <<0, 1>>, [user |-> 0, pool |-> 2])}

\* Mutant: it may come without its last account.
CpmmWithdrawShort ==
    {With(CpmmPlain("RaydiumCpmmWithdraw", "RaydiumCpmmWithdrawEvent", "withdraw", 24, 13,
                    <<0, 1>>, [user |-> 0, pool |-> 2]),
          [top |-> 14])}

CpmmWithdraw ==
    {CpmmPlain("RaydiumCpmmWithdraw", "RaydiumCpmmWithdrawEvent", "withdraw", 24, 14,
               <<0, 1>>, [user |-> 0, pool |-> 2])}

CpmmInitialize ==
    {CpmmPlain("RaydiumCpmmInitialize", "RaydiumCpmmInitializeEvent", "initialize", 24, 20,
               <<0, 1>>,
               [creator |-> 0, pool |-> 3, token0_mint |-> 4, token1_mint |-> 5,
                token0_vault |-> 10, token1_vault |-> 11])}

CpmmSwaps ==
    LET Swap(type, disc, known) ==
            With(CpmmPlain(type, "RaydiumCpmmSwapEvent", disc, 16, 13, <<3, 10, 11>>,
                           [payer |-> 0, pool |-> 3, input |-> 4, output |-> 5,
                            input_vault |-> 6, output_vault |-> 7,
                            input_mint |-> 10, output_mint |-> 11]),
                 [known |-> known])
    IN {Swap("RaydiumCpmmSwapBaseInput", "swap_base_in", "paid"),
        Swap("RaydiumCpmmSwapBaseOutput", "swap_base_out", "got")}

CpmmLayouts == CpmmDeposit \cup CpmmWithdraw \cup CpmmInitialize \cup CpmmSwaps

-----------------------------------------------------------------------------
(* The logs that the programs write by calling themselves.                 *)
(*                                                                         *)
(*   size    a shorter one is not decoded, of a longer one the first bytes *)
(*   whole   the value always takes that many bytes: with a string or an   *)
(*           option in it, it does only now and then                       *)
(*   copies  what a merge brings into the event of the instruction         *)
(* and the keys that identify their events. Two programs name their trades *)
(* alike.                                                                  *)

LogOf(disc, size, whole, copies) ==
    [disc |-> disc, size |-> size, whole |-> whole, copies |-> copies]

Amounts == {"paid", "got"}

BonkTradeLog == LogOf("trade_event", 139, TRUE, Amounts \cup {"pool"})
BonkCreateLog == LogOf("pool_create_event", 256, FALSE, {"pool", "creator"})
BonkKeys == [bonk_trade |-> <<"pool">>, bonk_create |-> <<>>]

PumpFunTradeLog == LogOf("trade_event", 250, TRUE, Amounts \cup {"mint", "user", "creator"})
PumpFunCreateLog ==
    LogOf("create_token_event", 257, FALSE, {"mint", "pool", "user", "creator"})
PumpFunMigrateLog == LogOf("migration_event", 160, TRUE, {"mint", "user", "pool"})
PumpFunKeys ==
    [pumpfun_trade |-> <<"mint", "user", "side">>, pumpfun_create |-> <<"mint">>,
     pumpfun_migrate |-> <<"user", "mint">>]

PumpSwapBuyLog == LogOf("buy_event", 385, TRUE, Amounts \cup {"pool", "user"})
PumpSwapSellLog == LogOf("sell_event", 352, TRUE, Amounts \cup {"pool", "user"})
PumpSwapCreateLog ==
    LogOf("create_pool_event", 325, TRUE, {"pool", "creator", "base_mint", "quote_mint"})
PumpSwapLiquidityLogs ==
    [pumpswap_deposit  |-> LogOf("deposit_event", 248, TRUE, {"pool", "user"}),
     pumpswap_withdraw |-> LogOf("withdraw_event", 248, TRUE, {"pool", "user"})]
PumpSwapKeys ==
    LET parties == <<"user", "pool", "amount">>
        position == <<"pool", "user", "amount">>
    IN [pumpswap_buy |-> parties, pumpswap_sell |-> parties,
        pumpswap_create |-> <<"pool", "creator", "amount">>,
        pumpswap_deposit |-> position, pumpswap_withdraw |-> position]

LogTable ==
    [bonk_trade |-> BonkTradeLog, bonk_create |-> BonkCreateLog,
     pumpfun_trade |-> PumpFunTradeLog, pumpfun_create |-> PumpFunCreateLog,
     pumpfun_migrate |-> PumpFunMigrateLog,
     pumpswap_buy |-> PumpSwapBuyLog, pumpswap_sell |-> PumpSwapSellLog,
     pumpswap_create |-> PumpSwapCreateLog,
     pumpswap_deposit |-> PumpSwapLiquidityLogs.pumpswap_deposit,
     pumpswap_withdraw |-> PumpSwapLiquidityLogs.pumpswap_withdraw]

LogKeys ==
    [log \in DOMAIN LogTable |->
        IF log \in DOMAIN BonkKeys THEN BonkKeys[log]
        ELSE IF log \in DOMAIN PumpFunKeys THEN PumpFunKeys[log] ELSE PumpSwapKeys[log]]

-----------------------------------------------------------------------------
(* The accounts that AccountEventParser knows: by owner, discriminator and *)
(* size; whole as above.                                                   *)

AccountOf(type, owner, disc, size, whole) ==
    [type |-> type, owner |-> owner, disc |-> disc, size |-> size, whole |-> whole]

BonkAccounts ==
    {AccountOf("AccountBonkPoolState", "bonk", "pool_state", 429, TRUE),
     AccountOf("AccountBonkGlobalConfig", "bonk", "global_config", 371, TRUE),
     AccountOf("AccountBonkPlatformConfig", "bonk", "platform_config", 6768, FALSE)}

PumpFunAccounts ==
    {AccountOf("AccountPumpFunBondingCurve", "pumpfun", "bonding_curve", 81, TRUE),
     AccountOf("AccountPumpFunGlobal", "pumpfun", "global", 450, TRUE)}

PumpSwapAccounts ==
    {AccountOf("AccountPumpSwapGlobalConfig", "pumpswap", "global_config", 353, TRUE),
     AccountOf("AccountPumpSwapPool", "pumpswap", "pool", 243, TRUE)}

\* The one-byte discriminator is the account's status, and part of its value.
AmmAccounts == {AccountOf("AccountRaydiumAmmV4AmmInfo", "raydiumamm", "6", 752, TRUE)}

ClmmAccounts ==
    {AccountOf("AccountRaydiumClmmAmmConfig", "raydiumclmm", "amm_config", 117, TRUE),
     AccountOf("AccountRaydiumClmmPoolState", "raydiumclmm", "pool_state", 1544, TRUE)}

ClmmTicks ==
    {AccountOf("AccountRaydiumClmmTickArrayState", "raydiumclmm", "tick_array", 10240, TRUE)}

CpmmAccounts ==
    {AccountOf("AccountRaydiumCpmmAmmConfig", "raydiumcpmm", "amm_config", 236, TRUE),
     AccountOf("AccountRaydiumCpmmPoolState", "raydiumcpmm", "pool_state", 637, TRUE)}

AccountTable ==
    BonkAccounts \cup PumpFunAccounts \cup PumpSwapAccounts \cup AmmAccounts
        \cup ClmmAccounts \cup ClmmTicks \cup CpmmAccounts
=============================================================================
