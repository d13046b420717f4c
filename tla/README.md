# TLA+ models of the 0x starter project scripts

This directory models the scripts under `src/0x-starter-project/src/`. Each
script is a single Node.js async flow that talks to a chain through one
process-wide provider engine. The chain is Ganache by default (`configs.ts`).

## The parts and how they interact

- `provider_engine.ts` builds a `Web3ProviderEngine` when the module loads.
  It holds a mnemonic wallet and a Ganache (or RPC) subprovider, and is
  started at once. Its block polling keeps the Node.js process alive until
  `providerEngine.stop()` is called.
- `print_utils.ts` (`PrintUtils`) is the helper every script uses.
  - The fetch-and-print methods are awaited reads.
  - `awaitTransactionMinedSpinnerAsync` starts an ora spinner, waits in
    `awaitTransactionMinedAsync(txHash)` with no timeout, and then stops or
    fails the spinner on `receipt.status === 1`. If the wait rejects, it fails
    the spinner and rethrows.
  - `printTransaction` prints a banner whose colour, and a status row whose
    text, are chosen by a second, separate test of the status.
- The scenarios (`scenarios/*.ts`) and `util_scripts/mint_test_zrx.ts` are
  bodies of awaited reads, signatures, `sendTransactionAsync` calls, spinner
  waits and reports.
  - Every scenario ends with `providerEngine.stop()`.
  - Its top-level catch logs the error, stops the engine and calls
    `process.exit(1)`.
  - `mint_test_zrx.ts` never stops the engine. Its catch only sets
    `process.exitCode = 1`.
- `scenarios/all.ts` awaits the scenario bodies one after another. Each body
  stops the shared engine when it ends.
- `scenarios/exchange_proxy_subscribe.ts` is the one script that does not
  stop the engine when it returns. It runs the migrations
  (`utils.ts`, `runMigrationsOnceIfRequiredAsync`) and registers a callback
  for the exchange proxy's `RfqOrderFilled` logs. The contract wrapper's log
  stream then calls the callback with an error, a decoded log event, or
  neither. On an error the callback stops the engine. Given an event it
  prints it, without reading `isRemoved`.
- `mock_0x_api_response_utils.ts` approves a token with
  `awaitTransactionSuccessAsync`, signs an RFQ order, and installs nock HTTP
  interceptors. `fill_0x_api_swap.ts` uses it.

## Modules

| Module | Models |
|---|---|
| `ScenarioRun` | one run of any script: the runner, the engine and the chain |
| `Scenarios` | each script body as a constant sequence of steps |
| `MCScenarioRun` | instantiates both for TLC |
| `ScriptLifecycle` | the abstract promise of a script: one transaction in flight at a time, then success or failure |
| `ScenarioRunProofs` | the TLAPS proofs of type correctness and report agreement |
| `ScenarioLifecycleProofs` | the TLAPS proofs of serial submission, of the refinement and of requests through a running engine |
| `SubscribeProofs` | the TLAPS proofs about `SubscribeScenario` |
| `SubscribeScenario` | `exchange_proxy_subscribe.ts`, the chain's fill logs and the log stream |
| `MCSubscribe` | instantiates it with two fills |

### ScenarioRun

`ScenarioRun` is parameterised by five constants:

- `Steps`, the script;
- `CatchExits`, which catch the script has;
- `Statuses`, the receipt statuses the node can report;
- `NullStatus`, the null status of a receipt with no status field;
- `AllowDrop`, whether the network may drop a transaction.

Its variables are:

- `pc`, the step;
- `phase`: ready, suspended in a spinner wait (`mining`), suspended in
  `awaitTransactionSuccessAsync` (`confirming`), throwing, returned or exited;
- `engine`;
- `txs`, every submitted transaction with its sender, its fate on chain, its
  receipt status, its spinner state and whether its receipt was returned;
- `receipt`, the last receipt the script holds;
- `reports`, what `printTransaction` printed;
- `exitCode`.

How the actions correspond to the code:

| Action | Code |
|---|---|
| `CallOk`, `CallFails` | an awaited read resolves or rejects |
| `SendOk`, `SendFails` | `sendTransactionAsync` |
| `AwaitStart`, `AwaitMined`, `AwaitNodeError` | `print_utils.ts` lines 194-205; `SpinnerOutcome` is line 200 |
| `SubmitForSuccess`, `SuccessMined`, `SuccessReverted`, `SuccessNodeError` | the contract wrappers' `awaitTransactionSuccessAsync` |
| `PrintTransaction` | lines 207-222, with `HeaderColor` (line 214) and `StatusRow` (line 220) |
| `StopEngine` | `providerEngine.stop()` |
| `Return` | the script's function settling |
| `Catch` | the top-level catch |
| `Mine(t)`, `Drop(t)` | the chain: `Mine` respects each sender's nonce order; `Drop` is allowed only with `AllowDrop` |

### Scenarios

`Scenarios` transcribes each body into steps. Consecutive reads whose
failure ends the script the same way are one `call` step. Console output
that reads nothing is left out.

The printed tables, the log/event rows of `printTransaction` and the order
data are data the properties do not tell apart, so they are abstracted away.

### ScriptLifecycle and the refinement mapping

`ScriptLifecycle` has three variables:

- `outcome`: running, ok or failed;
- `sent`: how many transactions the script has submitted;
- `inflight`: a submitted transaction's receipt is not yet returned.

Its actions are `Submit`, `Settle`, `Succeed` and `Fail`.

`ScenarioRun` maps onto it with `Lifecycle == INSTANCE ScriptLifecycle`:

- `outcome` is `LifecycleOutcome`: running until the script returns or exits,
  then ok when the exit code is 0;
- `sent` is `Len(txs)`;
- `inflight` is `~LastSettled`: the last transaction's receipt has not been
  returned.

The property `LifecycleRefinement` is `Lifecycle!LSpec`. It holds for a
script only when every send step is directly followed by its await
(`SerialSteps`).

### SubscribeScenario

Its variables:

- `phase`: migrating, subscribing, throwing, returned, exited;
- `engine`;
- `subscribed`;
- `logs`: each fill's log is none, added or removed;
- `inbox`: the notifications the stream has queued for the callback;
- `notices`: how many errors or empty notifications the stream has queued,
  bounded by `MaxNotices`;
- `printed`: the fills the callback printed, in order;
- `errLogged`: the callback has logged an error;
- `exitCode`.

How the actions correspond to the code:

| Action | Code |
|---|---|
| `MigrateOk`, `MigrateFails` | `runMigrationsOnceIfRequiredAsync`, line 19 |
| `Subscribe`, `SubscribeFails` | lines 20-47: the wrappers are built and `subscribe` registers the callback |
| `Catch` | lines 54-58 |
| `Deliver`, with `Callback(n)` | the event loop runs the callback (lines 29-45) on the oldest notification |
| `AddLog(f)`, `RemoveLog(f)` | the chain: a fill is mined, or (with `AllowReorg`) its block is dropped |
| `StreamNotice` | the stream reports a polling error, or calls back with neither argument |

The stream keeps polling after `scenarioAsync` returns. It also keeps
polling after the engine is stopped, because the wrapper polls on its own
timer. So `Deliver` is enabled in every phase but `exited`.

## Runs

Every run uses `MCScenarioRun` with statuses {0, 1, null} unless noted.

| Run | What it checks and shows |
|---|---|
| `otc` (pass) | `fill_erc20_otc_order.ts` under every node failure. It checks `TypeOK`, `SerializedSubmission` (each transaction is sent only after every earlier receipt was returned), `ReportAgreesWithSpinner`, `ProcessExits`, `RequestsThroughRunningEngine` (every request is made while the engine runs) and `LifecycleRefinement`. |
| `staking` (pass) | `create_staking_pool.ts`, which exercises the `awaitTransactionSuccessAsync` path. It checks `TypeOK` and `ProcessExits`. |
| `staking_serial` (violation) | The ZRX approval is sent and never awaited, so the stake is sent while the approval may be pending. |
| `swap` (pass) | `fill_0x_api_swap.ts` with the mock setup. It checks all of the above, plus `AwaitSettles`: every spinner wait ends. |
| `all` (pass) | `all.ts`, with eight scenarios back to back. It checks `TypeOK`, `SerializedSubmission`, `ProcessExits` and `LifecycleRefinement`. Statuses are {1} only, to keep the state space small; so `ReportAgreesWithSpinner`, which is about receipts with status 0 or null, is checked by `otc` and `swap` and not here. |
| `all_stopped_engine` (violation) | In `all.ts`, the second scenario sends requests through the engine the first one stopped. |
| `mint_exit` (violation) | `mint_test_zrx.ts` can end with the engine running and without `process.exit`, so the process never exits. |
| `otc_drops` (pass) | `fill_erc20_otc_order.ts` with `AllowDrop = TRUE`, under `FairSpec`. It checks `HangsOnlyOnDrop`: every run lets the process exit unless it is waiting in `awaitTransactionMinedAsync` on a hash the network dropped. Every other wait, failure path and the final stop still end the run. |
| `otc_drop_hang` (violation) | A dropped transaction leaves `awaitTransactionMinedAsync`, which has no timeout, waiting forever. |
| `subscribe` (pass) | `MCSubscribe`, two fills, reorganisations on, `MaxNotices = 2`. It checks `TypeOK`: every notification the stream queues is an error, a log of a fill, or empty, and the callback handles each. |
| `subscribe_reorg` (violation) | `NoFillPrintedTwice`: a fill whose block is dropped is printed again. |

### Bounds

The scripts are fixed and finite, so the only bounds are these:

- the status set {0, 1, null};
- one choice of `CatchExits` and `AllowDrop` per run;
- for `SubscribeScenario`, two fills and two stream notices. Two fills are
  enough to interleave one fill's removal with another's addition. Two
  notices allow an error after an empty call and an error after an error.

Every branch of the code is reached: each step can fail, and each receipt
status is reached at every wait.

### Fairness

`FairSpec` assumes two things:

- weak fairness of `Progress`: the event loop runs every continuation whose
  promise has resolved;
- weak fairness of `MineSome`: Ganache mines every transaction it accepts.

Failures and drops get no fairness. The node may, but need not, fail.

`ProcessExits`, `HangsOnlyOnDrop` and the `mint_exit` finding rest on one
premise about the libraries: the block polling of a started
`Web3ProviderEngine` keeps the event loop alive, so the process ends only
by `process.exit` or once the engine is stopped. The model's "exited" and
"returned with the engine stopped" are the two ways out under that premise.

## Findings

1. `print_utils.ts:199`: the wait has no timeout, so a dropped transaction
   hangs the script. The spec says the wait errors.
2. `mint_test_zrx.ts`: the script never stops the engine, so its process does
   not exit.
3. `create_staking_pool.ts:52`: the approval is not awaited before the stake
   is sent from the same account. Nonce order still mines the stake after
   the approval, but the stake is sent and gas-estimated while the approval
   is pending, and may be mined after the approval reverted.
4. `all.ts:15`: each scenario body stops the shared engine, so every later
   body runs through a stopped engine. The spec asks for an explicit
   start/stop lifecycle.
5. `exchange_proxy_subscribe.ts:33`: the callback ignores `isRemoved`. A
   fill removed by a reorganisation is printed as a second fill.

## What is proved (TLAPS, `ScenarioRunProofs`)

Both theorems hold for every script that satisfies `StepsAssumption`:

- every await or report step follows a send;
- every report step directly follows an await.

They also need `StatusAssumption`.

### `TypeCorrect`: `Spec => []TypeOK`

`TypeOK` is not inductive as it stands. The strengthening `TypeInv` adds
four facts:

- while the runner is suspended, `pc` is a step and a transaction exists;
- the `mining` phase sits at an await step;
- the `confirming` phase sits at a sendSuccess step;
- once a send precedes `pc`, `txs` is non-empty.

Together these make `txs[LastTx]` well defined in every wait action.

### `ReportAgreement`: `Spec => ReportAgreesWithSpinner`

`printTransaction` reads only `receipt`, so the invariant has to describe
the receipt. `ReportInv` adds three conjuncts to `TypeInv`:

- `ReceiptMatches`: outside the confirming phase, the receipt is the mined
  receipt of its transaction, and agrees with that transaction's spinner;
- `ConfirmingUnwatched`: `awaitTransactionSuccessAsync` runs no spinner;
- `AwaitedIsLast`: right after an await step, the receipt is the one of the
  last hash.

Each proof is three steps: `Init` implies the invariant, a step preserves
it, and the invariant implies the property. The step proof has one case per
action.

The lemmas on record updates (`SetSpin`, `SetMined`, ...) rewrite
`[s EXCEPT ![i].f = v]` into an update with a record literal, so that the
SMT backend can reason about the sequence.

## What is proved (TLAPS, `ScenarioLifecycleProofs`)

Both theorems assume `SerialSteps`: each send step is directly followed by an
await step. `fill_erc20_otc_order.ts` and the scenarios of `all.ts` satisfy
it. `create_staking_pool.ts` does not, and its run violates the property.

- `SerialSubmission`: `Spec => []SerializedSubmission`.
- `LifecycleImplemented`: `Spec => LifecycleRefinement`.

The inductive invariant `SerialInv` adds three facts to `TypeInv`:

- `SerializedSubmission` itself;
- if the runner is ready and the last transaction is unsettled, `pc` is
  directly after a send step. `SerialSteps` then puts an await at `pc`, so
  the next step can only settle it, and never send;
- before the script returns or exits, the exit code is 0.

The refinement proof follows the usual three steps:

- `Init` maps to `LInit`;
- each step maps to a `ScriptLifecycle` step or a stutter, under `SerialInv`:
  - the sends map to `Submit`;
  - `AwaitMined` and `SuccessMined` map to `Settle`;
  - `Return` maps to `Succeed`;
  - `Catch` maps to `Fail`;
  - the others stutter;
- the two are combined with PTL.

### `RequestsRunningEngine`: `Spec => []RequestsThroughRunningEngine`

This theorem assumes `StopLast`: no read, send or wait step comes after a
stop step. The single scenarios meet it. `all.ts` does not, and the
`all_stopped_engine` run shows the property fail there.

The invariant `EngineInv` says that a stopped engine means one of two things:

- the run has settled (returned or exited), or
- a stop step lies behind `pc`.

It is inductive together with `TypeInv`, for three reasons:

- only `StopEngine` and `Catch` stop the engine, and nothing restarts it;
- `pc` only moves forward;
- a settled run stays settled.

So while the runner is ready at a request, `StopLast` excludes a stopped
engine.

## What is proved (TLAPS, `SubscribeProofs`)

This holds for every set of fills and every bound `MaxNotices`:

- `SubscribeTypeCorrect`: `Spec => []TypeOK`. The proof splits `TypeOK` into
  its two Boolean flags, proved with Zenon, and the rest, proved with SMT
  and the sequence lemmas of `SequenceTheorems`.

### What only TLC checks

These stay with TLC:

- liveness (`ProcessExits`, `AwaitSettles`, `HangsOnlyOnDrop`). The prover cannot reason about
  fairness or `ENABLED`.
- every violation run.

Every invariant and action property of a passing run now has a theorem.

## Not modelled

- The table formatting of `pushAndPrint`, including the MAX_UINT rewrite at
  line 104, and the event/decoded-log rows. This is console layout that no
  property is about.
- The nonce race at `fill_erc20_otc_order.ts:74` between two scenarios run at
  once. No script of the repository runs two scenarios at once: `all.ts`
  awaits each body before it starts the next.
- `configs.ts`, `constants.ts`, `contracts.ts`, and the pure helpers of
  `utils.ts`. These are constant data and arithmetic on values that no
  property tells apart.
- `fill_erc20_limit_order.ts`, imported by `all.ts`, which is absent from the
  sources.
