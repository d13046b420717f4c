----------------------------- MODULE Scenarios -----------------------------
(***************************************************************************)
(* The scripts of the 0x starter project as sequences of ScenarioRun      *)
(* steps, in the order their bodies await them.  Only what reaches the    *)
(* provider is a step: the awaited reads and signatures ("call"), the     *)
(* sendTransactionAsync calls ("send", with the sender), the spinner      *)
(* waits ("await"), printTransaction ("report"), awaitTransactionSuccess- *)
(* Async ("sendSuccess") and providerEngine.stop() ("stop").  Console    *)
(* output that reads nothing (printScenario, printAccounts, printOrder,   *)
(* printData) and order construction are left out.  A run of consecutive *)
(* reads whose failure ends the script the same way is one "call".        *)
(***************************************************************************)
EXTENDS Sequences

SCall == [op |-> "call", from |-> "none"]
SSend(a) == [op |-> "send", from |-> a]
SAwait == [op |-> "await", from |-> "none"]
SReport == [op |-> "report", from |-> "none"]
SSendSuccess(a) == [op |-> "sendSuccess", from |-> a]
SStop == [op |-> "stop", from |-> "none"]

(* A transaction submitted, mined under the spinner, optionally printed.  *)
Mined(a) == << SSend(a), SAwait >>
MinedAndPrinted(a) == << SSend(a), SAwait, SReport >>

(* Mutant: the maker's approval is sent and never awaited.                *)
FillErc20OtcOrderApprovalNotAwaited ==
    << SCall, SCall >>
    \o << SSend("maker") >> \o Mined("taker") \o Mined("taker")
    \o << SCall, SCall, SCall, SCall, SCall >>
    \o MinedAndPrinted("taker")
    \o << SCall, SStop >>

(* Mutant: the scenario does not stop the provider engine.                *)
FillErc20OtcOrderNoStop ==
    << SCall, SCall >>
    \o Mined("maker") \o Mined("taker") \o Mined("taker")
    \o << SCall, SCall, SCall, SCall, SCall >>
    \o MinedAndPrinted("taker")
    \o << SCall >>

(* Mutant: the engine is stopped before the final balances are printed.  *)
FillErc20OtcOrderStopFirst ==
    << SCall, SCall >>
    \o Mined("maker") \o Mined("taker") \o Mined("taker")
    \o << SCall, SCall, SCall, SCall, SCall >>
    \o MinedAndPrinted("taker")
    \o << SStop, SCall >>

(* fill_erc20_otc_order.ts                                                *)
FillErc20OtcOrder ==
    << SCall, SCall >>                                \* migrations, addresses
    \o Mined("maker") \o Mined("taker") \o Mined("taker") \* approvals, deposit
    \o << SCall, SCall, SCall, SCall, SCall >>        \* nonce, allowances, balances, sign, info
    \o MinedAndPrinted("taker")                       \* fillOtcOrder
    \o << SCall, SStop >>

(* fill_erc20_rfq_order.ts                                                *)
FillErc20RfqOrder ==
    << SCall, SCall >>
    \o Mined("maker") \o Mined("taker") \o Mined("taker")
    \o << SCall, SCall, SCall, SCall >>               \* allowances, balances, sign, state
    \o MinedAndPrinted("taker")                       \* fillRfqOrder
    \o << SCall, SStop >>

(* fill_erc20_rfq_order_with_maker_order_signer.ts                        *)
FillErc20RfqOrderWithMakerOrderSigner ==
    << SCall, SCall >>
    \o Mined("makerWallet")                           \* registerAllowedOrderSigner
    \o Mined("makerWallet") \o Mined("taker") \o Mined("taker")
    \o << SCall, SCall, SCall, SCall >>
    \o MinedAndPrinted("taker")
    \o << SCall, SStop >>

(* cancel_pair_limit_orders.ts: each fetchAndPrintLimitOrderInfosAsync is *)
(* six getLimitOrderInfo reads.                                           *)
CancelPairLimitOrders ==
    << SCall, SCall, SCall >>                         \* migrations, addresses, infos
    \o MinedAndPrinted("maker") \o << SCall >>        \* ZRX->WETH cancel, infos
    \o MinedAndPrinted("maker") \o << SCall >>        \* WETH->ZRX cancel, infos
    \o << SStop >>

(* execute_metatransaction_fill_rfq_order.ts                              *)
ExecuteMetatransactionFillRfqOrder ==
    << SCall, SCall >>
    \o Mined("maker") \o Mined("taker") \o Mined("taker")
    \o << SCall, SCall, SCall, SCall, SCall, SCall >> \* allowances, balances, sign, state, metaTx sign, hash
    \o MinedAndPrinted("sender")                      \* executeMetaTransaction
    \o << SCall, SStop >>

(* fill_erc20_taker_signed_otc_order.ts                                   *)
FillErc20TakerSignedOtcOrder ==
    << SCall, SCall >>
    \o Mined("maker") \o Mined("taker") \o Mined("taker")
    \o << SCall, SCall, SCall, SCall, SCall, SCall >> \* nonce, allowances, balances, 2 signs, info
    \o MinedAndPrinted("sender")                      \* fillTakerSignedOtcOrder
    \o << SCall, SStop >>

(* transform_erc20.ts                                                     *)
TransformErc20 ==
    << SCall, SCall, SCall, SCall >>                  \* migrations, addresses, allowances, balances
    \o Mined("maker") \o << SCall >>                  \* approval, sign
    \o MinedAndPrinted("taker")                       \* transformERC20
    \o << SCall, SStop >>

(* mock_0x_api_response_utils.ts: the maker's approval is awaited with    *)
(* awaitTransactionSuccessAsync, then the RFQ order is signed.            *)
SetUpMock0xApiResponses == << SSendSuccess("maker"), SCall >>

(* Mutant: the taker's approval is sent and never awaited.                *)
Fill0xApiSwapApprovalNotAwaited ==
    << SCall, SCall >> \o SetUpMock0xApiResponses
    \o << SSend("taker") >> \o Mined("taker")
    \o MinedAndPrinted("taker")
    \o << SCall, SStop >>

(* fill_0x_api_swap.ts: the quote request is answered by the mock adapter *)
(* and reaches no provider.                                               *)
Fill0xApiSwap ==
    << SCall, SCall >> \o SetUpMock0xApiResponses
    \o Mined("taker") \o Mined("taker")               \* approval, deposit
    \o MinedAndPrinted("taker")                       \* the swap transaction
    \o << SCall, SStop >>

(* create_staking_pool.ts: the pool is created with awaitTransactionSuccess*)
(* Async and its hash then awaited again under the spinner; the ZRX      *)
(* approval is sent and never awaited.                                    *)
CreateStakingPool ==
    << SCall, SCall >>
    \o << SSendSuccess("maker"), SAwait >>            \* createStakingPool
    \o << SSend("maker") >>                           \* approve, hash only
    \o Mined("maker") \o Mined("maker")               \* stake, moveStake
    \o Mined("otherMaker")                            \* joinStakingPoolAsMaker
    \o Mined("maker") \o Mined("maker")               \* decrease share, finalizePool
    \o << SStop >>

(* util_scripts/mint_test_zrx.ts: no providerEngine.stop().               *)
MintTestZrx ==
    << SCall, SCall >> \o Mined("maker") \o << SCall >>

(* all.ts: the scenarios one after the other (fill_erc20_limit_order.ts,  *)
(* which all.ts imports second, is not among the sources).                *)
AllScenarios ==
    Fill0xApiSwap \o CancelPairLimitOrders \o FillErc20RfqOrder
    \o FillErc20RfqOrderWithMakerOrderSigner \o FillErc20OtcOrder
    \o ExecuteMetatransactionFillRfqOrder \o FillErc20TakerSignedOtcOrder
    \o TransformErc20

=============================================================================
