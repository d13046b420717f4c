---------------------------- MODULE ScenarioRun ----------------------------
(***************************************************************************)
(* One run of a script of the 0x starter project (a scenario under         *)
(* src/scenarios/, the all.ts runner, or util_scripts/mint_test_zrx.ts)   *)
(* against the chain reached through the process-wide provider engine.    *)
(*                                                                         *)
(* The script is a constant sequence of steps, transcribed from the       *)
(* source in module Scenarios.  The runner is the single Node.js flow of  *)
(* the script: it performs one step at a time and suspends at every       *)
(* await.  The chain is the environment: it mines a submitted transaction *)
(* (in nonce order per sender) with a receipt status, or drops it, and    *)
(* the node may fail any request.                                         *)
(*                                                                         *)
(* Modelled from PrintUtils.awaitTransactionMinedSpinnerAsync and          *)
(* PrintUtils.printTransaction (src/print_utils.ts), the scenario bodies  *)
(* and their top-level try/catch, and provider_engine.ts.                 *)
(***************************************************************************)
EXTENDS Naturals, Sequences

CONSTANTS
    Steps,      \* the script: a sequence of [op, from] records
    CatchExits, \* TRUE when the script's top-level catch stops the engine and exits
    Statuses,   \* the receipt status values the node can report
    NullStatus, \* the status of a receipt without a status field (null)
    AllowDrop   \* TRUE when the network may drop a submitted transaction

(* The operations a step can be: an awaited read or signing request, a    *)
(* sendTransactionAsync, an awaitTransactionMinedSpinnerAsync of the last *)
(* hash, a printTransaction of the last receipt, a contract wrapper's     *)
(* awaitTransactionSuccessAsync, and providerEngine.stop().               *)
Ops == {"call", "send", "await", "report", "sendSuccess", "stop"}
SendOps == {"send", "sendSuccess"}

NoAccount == "none"
Step == [op : Ops, from : STRING]

ASSUME StatusAssumption ==
    /\ NullStatus \notin Nat
    /\ Statuses \subseteq {0, 1, NullStatus}
    /\ 1 \in Statuses

(* Every await and report step is preceded by a send; a report comes      *)
(* directly after the await of the transaction it prints.                 *)
ASSUME StepsAssumption ==
    /\ Steps \in Seq(Step)
    /\ \A i \in 1..Len(Steps) :
          Steps[i].op \in {"await", "report"} =>
              \E j \in 1..(i - 1) : Steps[j].op \in SendOps
    /\ \A i \in 1..Len(Steps) :
          Steps[i].op = "report" => i > 1 /\ Steps[i - 1].op = "await"

ASSUME FlagsAssumption == CatchExits \in BOOLEAN /\ AllowDrop \in BOOLEAN

VARIABLES
    pc,       \* index in Steps of the step being executed
    phase,    \* where the runner is in that step, or how the run ended
    engine,   \* the provider engine: "running" or "stopped"
    txs,      \* the transactions submitted so far, in submission order
    receipt,  \* the last receipt returned to the script (tx 0: none yet)
    reports,  \* the transaction reports printed by printTransaction
    exitCode  \* process.exitCode

vars == <<pc, phase, engine, txs, receipt, reports, exitCode>>

Phases == {"ready",      \* about to execute Steps[pc]
           "mining",     \* suspended in awaitTransactionMinedAsync
           "confirming", \* suspended in awaitTransactionSuccessAsync
           "throwing",   \* an exception is propagating to the top level
           "returned",   \* the script's async function has settled
           "exited"}     \* process.exit(1) was called

(* A submitted transaction: its sender, its fate on chain, the status of  *)
(* its receipt once mined, the state of the ora spinner that watched it,  *)
(* and whether its receipt was returned to the script.                    *)
StatusVal == Statuses \cup {NullStatus}

Tx == [from : STRING,
       st : {"pending", "mined", "dropped"},
       status : StatusVal,
       spin : {"none", "spinning", "stopped", "failed"},
       awaited : BOOLEAN]

Receipt == [tx : Nat, status : StatusVal]
ReportRec == [tx : Nat, color : {"green", "red"}, row : {"Success", "Failure"}]

TypeOK ==
    /\ pc \in 1..(Len(Steps) + 1)
    /\ phase \in Phases
    /\ engine \in {"running", "stopped"}
    /\ txs \in Seq(Tx)
    /\ receipt \in Receipt
    /\ receipt.tx \in 0..Len(txs)
    /\ reports \in Seq(ReportRec)
    /\ exitCode \in {0, 1}

LastTx == Len(txs)   \* the hash held by the script's txHash variable
Cur == Steps[pc]

(* Mutant: a watcher that fails the spinner only on status 0.            *)
SpinnerOutcomeNullAsSuccess(s) == IF s = 0 THEN "failed" ELSE "stopped"
(* spinner.stop() on status 1, spinner.fail(message) otherwise (line 200) *)
SpinnerOutcome(s) == IF s = 1 THEN "stopped" ELSE "failed"
(* the banner colour and the status row of printTransaction               *)
HeaderColor(s) == IF s = 1 THEN "green" ELSE "red"
StatusRow(s) == IF s = 1 THEN "Success" ELSE "Failure"

(* provider_engine.ts starts the engine when the module is loaded.        *)
Init ==
    /\ pc = 1
    /\ phase = "ready"
    /\ engine = "running"
    /\ txs = << >>
    /\ receipt = [tx |-> 0, status |-> NullStatus]
    /\ reports = << >>
    /\ exitCode = 0

Advance == pc' = pc + 1
Throw == phase' = "throwing" /\ UNCHANGED <<pc, engine, txs, receipt, reports, exitCode>>

NewTx(a) == [from |-> a, st |-> "pending", status |-> NullStatus,
             spin |-> "none", awaited |-> FALSE]

-----------------------------------------------------------------------------
(* Runner steps.                                                          *)

(* An awaited read or signing request through the provider succeeds.      *)
CallOk ==
    /\ phase = "ready" /\ pc <= Len(Steps) /\ Cur.op = "call"
    /\ Advance
    /\ UNCHANGED <<phase, engine, txs, receipt, reports, exitCode>>

(* ... or rejects: the exception propagates out of the script.            *)
CallFails ==
    /\ phase = "ready" /\ pc <= Len(Steps) /\ Cur.op = "call"
    /\ Throw

(* sendTransactionAsync resolves with the hash of the submitted tx.       *)
SendOk ==
    /\ phase = "ready" /\ pc <= Len(Steps) /\ Cur.op = "send"
    /\ txs' = Append(txs, NewTx(Cur.from))
    /\ Advance
    /\ UNCHANGED <<phase, engine, receipt, reports, exitCode>>

(* ... or rejects (gas estimation, signing or the node fails).            *)
SendFails ==
    /\ phase = "ready" /\ pc <= Len(Steps) /\ Cur.op \in SendOps
    /\ Throw

(* awaitTransactionMinedSpinnerAsync: the spinner starts and the flow     *)
(* suspends in awaitTransactionMinedAsync(txHash) of the last hash.       *)
AwaitStart ==
    /\ phase = "ready" /\ pc <= Len(Steps) /\ Cur.op = "await"
    /\ txs' = [txs EXCEPT ![LastTx].spin = "spinning"]
    /\ phase' = "mining"
    /\ UNCHANGED <<pc, engine, receipt, reports, exitCode>>

(* Mutant: the receipt returned names the hash after the awaited one.     *)
AwaitMinedOffByOne ==
    /\ phase = "mining"
    /\ txs[LastTx].st = "mined"
    /\ txs' = [txs EXCEPT ![LastTx].spin = SpinnerOutcome(txs[LastTx].status),
                          ![LastTx].awaited = TRUE]
    /\ receipt' = [tx |-> LastTx + 1, status |-> txs[LastTx].status]
    /\ phase' = "ready"
    /\ Advance
    /\ UNCHANGED <<engine, reports, exitCode>>

(* Mutant: a watcher that keeps polling until the receipt reports success.*)
AwaitMinedUntilSuccess ==
    /\ phase = "mining"
    /\ txs[LastTx].st = "mined" /\ txs[LastTx].status = 1
    /\ txs' = [txs EXCEPT ![LastTx].spin = SpinnerOutcome(txs[LastTx].status),
                          ![LastTx].awaited = TRUE]
    /\ receipt' = [tx |-> LastTx, status |-> txs[LastTx].status]
    /\ phase' = "ready"
    /\ Advance
    /\ UNCHANGED <<engine, reports, exitCode>>

(* Mutant: the receipt is not handed back; the script keeps the last one. *)
AwaitMinedStaleReceipt ==
    /\ phase = "mining"
    /\ txs[LastTx].st = "mined"
    /\ txs' = [txs EXCEPT ![LastTx].spin = SpinnerOutcome(txs[LastTx].status),
                          ![LastTx].awaited = TRUE]
    /\ receipt' = receipt
    /\ phase' = "ready"
    /\ Advance
    /\ UNCHANGED <<engine, reports, exitCode>>

(* The polled receipt exists: the spinner stops or fails on its status    *)
(* and the receipt is returned, whatever its status.                      *)
AwaitMined ==
    /\ phase = "mining"
    /\ txs[LastTx].st = "mined"
    /\ txs' = [txs EXCEPT ![LastTx].spin = SpinnerOutcome(txs[LastTx].status),
                          ![LastTx].awaited = TRUE]
    /\ receipt' = [tx |-> LastTx, status |-> txs[LastTx].status]
    /\ phase' = "ready"
    /\ Advance
    /\ UNCHANGED <<engine, reports, exitCode>>

(* Polling the receipt rejects: the spinner fails and the error is        *)
(* rethrown.                                                              *)
AwaitNodeError ==
    /\ phase = "mining"
    /\ txs' = [txs EXCEPT ![LastTx].spin = "failed"]
    /\ phase' = "throwing"
    /\ UNCHANGED <<pc, engine, receipt, reports, exitCode>>

(* A contract wrapper's awaitTransactionSuccessAsync: submit, then wait.  *)
SubmitForSuccess ==
    /\ phase = "ready" /\ pc <= Len(Steps) /\ Cur.op = "sendSuccess"
    /\ txs' = Append(txs, NewTx(Cur.from))
    /\ phase' = "confirming"
    /\ UNCHANGED <<pc, engine, receipt, reports, exitCode>>

(* Mined with status 1: the receipt is returned.                          *)
SuccessMined ==
    /\ phase = "confirming"
    /\ txs[LastTx].st = "mined" /\ txs[LastTx].status = 1
    /\ txs' = [txs EXCEPT ![LastTx].awaited = TRUE]
    /\ receipt' = [tx |-> LastTx, status |-> 1]
    /\ phase' = "ready"
    /\ Advance
    /\ UNCHANGED <<engine, reports, exitCode>>

(* Mined with any other status: awaitTransactionSuccessAsync throws.      *)
SuccessReverted ==
    /\ phase = "confirming"
    /\ txs[LastTx].st = "mined" /\ txs[LastTx].status # 1
    /\ Throw

(* Polling the receipt rejects.                                           *)
SuccessNodeError ==
    /\ phase = "confirming"
    /\ Throw

(* printTransaction(header, txReceipt): the banner colour and the status  *)
(* row follow the receipt's status.                                       *)
PrintTransaction ==
    /\ phase = "ready" /\ pc <= Len(Steps) /\ Cur.op = "report"
    /\ reports' = Append(reports, [tx |-> receipt.tx,
                                   color |-> HeaderColor(receipt.status),
                                   row |-> StatusRow(receipt.status)])
    /\ Advance
    /\ UNCHANGED <<phase, engine, txs, receipt, exitCode>>

(* Mutant: the stop call is left out at the end of the body.              *)
StopEngineKeepsRunning ==
    /\ phase = "ready" /\ pc <= Len(Steps) /\ Cur.op = "stop"
    /\ Advance
    /\ UNCHANGED <<phase, engine, txs, receipt, reports, exitCode>>

(* providerEngine.stop() at the end of a scenario.                        *)
StopEngine ==
    /\ phase = "ready" /\ pc <= Len(Steps) /\ Cur.op = "stop"
    /\ engine' = "stopped"
    /\ Advance
    /\ UNCHANGED <<phase, txs, receipt, reports, exitCode>>

(* The script's async function resolves.                                  *)
Return ==
    /\ phase = "ready" /\ pc = Len(Steps) + 1
    /\ phase' = "returned"
    /\ UNCHANGED <<pc, engine, txs, receipt, reports, exitCode>>

(* The top-level catch: console.log(e), then either providerEngine.stop() *)
(* and process.exit(1) (the scenarios, all.ts), or only                   *)
(* process.exitCode = 1 (mint_test_zrx.ts).                               *)
Catch ==
    /\ phase = "throwing"
    /\ exitCode' = 1
    /\ IF CatchExits
         THEN engine' = "stopped" /\ phase' = "exited"
         ELSE engine' = engine /\ phase' = "returned"
    /\ UNCHANGED <<pc, txs, receipt, reports>>

-----------------------------------------------------------------------------
(* The chain.                                                             *)

(* Transaction t is mined with some status once every earlier transaction *)
(* of its sender is mined (nonce order).                                  *)
Mine(t) ==
    /\ txs[t].st = "pending"
    /\ \A j \in 1..(t - 1) : txs[j].from = txs[t].from => txs[j].st = "mined"
    /\ \E s \in Statuses : txs' = [txs EXCEPT ![t].st = "mined", ![t].status = s]
    /\ UNCHANGED <<pc, phase, engine, receipt, reports, exitCode>>

(* The network drops a pending transaction (never on Ganache).            *)
Drop(t) ==
    /\ AllowDrop
    /\ txs[t].st = "pending"
    /\ txs' = [txs EXCEPT ![t].st = "dropped"]
    /\ UNCHANGED <<pc, phase, engine, receipt, reports, exitCode>>

MineSome == \E t \in 1..Len(txs) : Mine(t)

(* The steps that always happen once enabled: the Node.js event loop runs *)
(* every continuation whose promise resolved.                             *)
Progress ==
    \/ CallOk \/ SendOk \/ AwaitStart \/ AwaitMined \/ SubmitForSuccess
    \/ SuccessMined \/ SuccessReverted \/ PrintTransaction \/ StopEngine
    \/ Return \/ Catch

(* The failures the node may, but need not, produce.                      *)
Failure == CallFails \/ SendFails \/ AwaitNodeError \/ SuccessNodeError

Done ==
    /\ phase \in {"returned", "exited"}
    /\ UNCHANGED vars

Next ==
    \/ Progress
    \/ Failure
    \/ MineSome
    \/ \E t \in 1..Len(txs) : Drop(t)
    \/ Done

Spec == Init /\ [][Next]_vars

(* Ganache (the configured network, configs.ts) mines every transaction   *)
(* it accepts, and the event loop runs every resolved continuation.       *)
FairSpec == Spec /\ WF_vars(Progress) /\ WF_vars(MineSome)

-----------------------------------------------------------------------------
(* Properties.                                                            *)

(* When printTransaction prints a report, it is the report of the         *)
(* transaction the script submitted last, that transaction is mined, the  *)
(* banner is green and the status row "Success" exactly when its receipt  *)
(* status is 1 (a null status counts as a failure), and the ora spinner   *)
(* of awaitTransactionMinedSpinnerAsync stopped normally exactly when the *)
(* banner is green.  The watcher and the reporter decide on the status    *)
(* separately (print_utils.ts lines 200, 214 and 220).                    *)
PrintedReportAgrees ==
    Len(reports') > Len(reports) =>
         LET r == reports'[Len(reports')]
             t == txs[r.tx]
         IN /\ r.tx = LastTx
            /\ t.st = "mined"
            /\ (r.color = "green") = (t.status = 1)
            /\ (r.row = "Success") = (t.status = 1)
            /\ t.spin \in {"stopped", "failed"} =>
                   ((t.spin = "stopped") = (r.color = "green"))

ReportAgreesWithSpinner == [][PrintedReportAgrees]_vars

(* The receipt of the transaction submitted last has been returned.      *)
LastSettled == Len(txs) = 0 \/ txs[Len(txs)].awaited

(* The script seen through ScriptLifecycle: how it ended (process.exit(1) *)
(* or a catch that set the exit code is a failure), how many transactions *)
(* it submitted, and whether the last one is still in flight.             *)
LifecycleOutcome ==
    IF phase \in {"returned", "exited"}
      THEN IF exitCode = 0 THEN "ok" ELSE "failed"
      ELSE "running"

Lifecycle == INSTANCE ScriptLifecycle
                 WITH outcome <- LifecycleOutcome,
                      sent <- Len(txs),
                      inflight <- ~LastSettled

(* A script whose every sendTransactionAsync is directly followed by the  *)
(* spinner wait on its hash (awaitTransactionSuccessAsync waits itself).  *)
SerialSteps ==
    \A i \in 1..Len(Steps) :
        Steps[i].op = "send" => i < Len(Steps) /\ Steps[i + 1].op = "await"

(* A script whose providerEngine.stop() comes after its last request: no  *)
(* read, send or wait follows a stop step.                                *)
StopLast ==
    \A i, j \in 1..Len(Steps) :
        i < j /\ Steps[i].op = "stop"
            => Steps[j].op \notin {"call", "send", "await", "sendSuccess"}

(* The run implements ScriptLifecycle: transactions are submitted one at  *)
(* a time, each after the receipt of the previous one came back, and the  *)
(* script returns normally only with every receipt in hand.  It is about  *)
(* the order of the sendTransactionAsync calls and the awaits in each     *)
(* scenario body and about the exit paths of its top-level catch.         *)
LifecycleRefinement == Lifecycle!LSpec

(* Every request the script makes goes through a running provider engine: *)
(* no read, send or wait is about to run after providerEngine.stop().     *)
(* It is about each scenario body ending with the stop, and about all.ts  *)
(* running the bodies one after another on the one shared engine.         *)
RequestsThroughRunningEngine ==
    phase = "ready" /\ pc <= Len(Steps) /\ Cur.op \in {"call", "send", "await", "sendSuccess"}
        => engine = "running"

(* A script submits a transaction only after the receipt of every earlier *)
(* one has been returned to it: the scenarios are serialised on the       *)
(* shared accounts and their nonces.                                      *)
SerializedSubmission ==
    \A i \in 1..(Len(txs) - 1) : txs[i].awaited

(* Every run ends with the process able to exit: it called process.exit,  *)
(* or its async function settled with the provider engine, whose block    *)
(* polling keeps Node.js alive, stopped.                                  *)
ProcessExits ==
    <>(phase = "exited" \/ (phase = "returned" /\ engine = "stopped"))

(* On a network that may drop transactions, the only way a run fails to  *)
(* let the process exit is to wait forever in                             *)
(* awaitTransactionMinedAsync on a dropped hash: every other wait, every   *)
(* failure path through the catch and the final stop still end the run.  *)
HangsOnlyOnDrop ==
    <>(\/ phase = "exited"
       \/ phase = "returned" /\ engine = "stopped"
       \/ phase = "mining" /\ txs[LastTx].st = "dropped")

(* awaitTransactionMinedSpinnerAsync always settles: it returns the       *)
(* receipt or, when the wait errors (timeout, disconnect, dropped         *)
(* transaction), fails the spinner and rethrows.                          *)
AwaitSettles ==
    phase = "mining" ~> phase # "mining"

=============================================================================
