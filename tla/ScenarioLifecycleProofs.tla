---------------------- MODULE ScenarioLifecycleProofs ----------------------
(***************************************************************************)
(* Proofs that a script whose every sendTransactionAsync is directly       *)
(* followed by the spinner wait on its hash (SerialSteps) submits its      *)
(* transactions one at a time, and that its runs implement the abstract    *)
(* ScriptLifecycle under the mapping of ScenarioRun.                       *)
(***************************************************************************)
EXTENDS ScenarioRunProofs

(***************************************************************************)
(* What a step does to the awaited flags of the history.  Three groups:    *)
(* the sends append an unreturned transaction, AwaitMined and SuccessMined *)
(* return the receipt of the last one, and every other step leaves the     *)
(* flags alone (a record update of another field, or none).                *)
(***************************************************************************)

(* A send appends a transaction whose receipt is not returned.            *)
LEMMA SubmitAwaited ==
    ASSUME TypeInv, SendOk \/ SubmitForSuccess
    PROVE  /\ phase = "ready" /\ pc \in 1..Len(Steps) /\ Steps[pc].op \in SendOps
           /\ Len(txs') = Len(txs) + 1
           /\ ~txs'[Len(txs')].awaited
           /\ \A j \in 1..Len(txs) : txs'[j] = txs[j]
           /\ phase' \in {"ready", "confirming"}
           /\ UNCHANGED exitCode
           /\ (Steps[pc].op = "send" => pc' = pc + 1 /\ phase' = "ready")
           /\ (Steps[pc].op = "sendSuccess" => phase' = "confirming")
<1>1. /\ phase = "ready" /\ pc \in 1..Len(Steps) /\ Steps[pc].op \in SendOps
      /\ txs' = Append(txs, NewTx(Cur.from))
      /\ phase' \in {"ready", "confirming"}
      /\ UNCHANGED exitCode
      /\ (Steps[pc].op = "send" => pc' = pc + 1 /\ phase' = "ready")
      /\ (Steps[pc].op = "sendSuccess" => phase' = "confirming")
    BY DEF SendOk, SubmitForSuccess, Cur, Advance, SendOps, TypeInv, TypeOK
<1>2. NewTx(Cur.from) \in Tx
    <2>1. Cur \in Step
        BY <1>1, StepsAssumption DEF Cur
    <2>2. QED
        BY <2>1 DEF NewTx, Tx, Step, StatusVal
<1>3. txs \in Seq(Tx)
    BY DEF TypeInv, TypeOK
<1>4. QED
    BY <1>1, <1>2, <1>3, AppendProperties DEF NewTx

(* AwaitMined and SuccessMined return the receipt of the last hash.       *)
LEMMA SettleAwaited ==
    ASSUME TypeInv, AwaitMined \/ SuccessMined
    PROVE  /\ phase \in {"mining", "confirming"}
           /\ LastTx \in 1..Len(txs)
           /\ Len(txs') = Len(txs)
           /\ txs'[LastTx].awaited
           /\ \A j \in 1..Len(txs) : j # LastTx => txs'[j] = txs[j]
           /\ phase' = "ready" /\ pc' = pc + 1
           /\ UNCHANGED exitCode
<1>0. txs \in Seq(Tx)
    BY DEF TypeInv, TypeOK
<1>1. CASE AwaitMined
    <2>1. /\ phase = "mining"
          /\ txs' = [txs EXCEPT ![LastTx].spin = SpinnerOutcome(txs[LastTx].status),
                                ![LastTx].awaited = TRUE]
          /\ phase' = "ready" /\ pc' = pc + 1
          /\ UNCHANGED exitCode
        BY <1>1, Zenon DEF AwaitMined, Advance
    <2>2. LastTx \in 1..Len(txs) /\ txs[LastTx] \in Tx
        BY <2>1, <1>0 DEF TypeInv, TypeOK, LastTx
    <2>3. SpinnerOutcome(txs[LastTx].status) \in SpinVals
        BY DEF SpinnerOutcome, SpinVals
    <2>4. txs' = [txs EXCEPT ![LastTx] =
                    WithSpinAwaited(txs[LastTx], SpinnerOutcome(txs[LastTx].status))]
        <3>1. [txs EXCEPT ![LastTx].spin = SpinnerOutcome(txs[LastTx].status),
                          ![LastTx].awaited = TRUE]
                = [txs EXCEPT ![LastTx] =
                     WithSpinAwaited(txs[LastTx], SpinnerOutcome(txs[LastTx].status))]
            BY <1>0, <2>2, <2>3, SetSpinAwaited
        <3>2. QED
            BY <2>1, <3>1, Zenon
    <2>5. WithSpinAwaited(txs[LastTx], SpinnerOutcome(txs[LastTx].status)) \in Tx
        BY <2>2, <2>3, WithTypes
    <2>6. QED
        BY <1>0, <2>1, <2>2, <2>4, <2>5, TxUpdate DEF WithSpinAwaited
<1>2. CASE SuccessMined
    <2>1. /\ phase = "confirming"
          /\ txs' = [txs EXCEPT ![LastTx].awaited = TRUE]
          /\ phase' = "ready" /\ pc' = pc + 1
          /\ UNCHANGED exitCode
        BY <1>2, Zenon DEF SuccessMined, Advance
    <2>2. LastTx \in 1..Len(txs) /\ txs[LastTx] \in Tx
        BY <2>1, <1>0 DEF TypeInv, TypeOK, LastTx
    <2>3. txs' = [txs EXCEPT ![LastTx] = WithAwaited(txs[LastTx])]
        <3>1. [txs EXCEPT ![LastTx].awaited = TRUE]
                = [txs EXCEPT ![LastTx] = WithAwaited(txs[LastTx])]
            BY <1>0, <2>2, SetAwaited
        <3>2. QED
            BY <2>1, <3>1, Zenon
    <2>4. QED
        BY <1>0, <2>1, <2>2, <2>3, WithTypes, TxUpdate DEF WithAwaited
<1>3. QED
    BY <1>1, <1>2

(* Every other step keeps the length of the history and every flag.       *)
KeepActions ==
    \/ AwaitStart \/ AwaitNodeError \/ MineSome \/ \E t \in 1..Len(txs) : Drop(t)
    \/ CallOk \/ CallFails \/ SendFails \/ SuccessReverted \/ SuccessNodeError
    \/ PrintTransaction \/ StopEngine \/ Return \/ Catch \/ Done \/ UNCHANGED vars

LEMMA KeepAwaited ==
    ASSUME TypeInv, KeepActions
    PROVE  /\ Len(txs') = Len(txs)
           /\ \A j \in 1..Len(txs) : txs'[j].awaited = txs[j].awaited
<1>0. txs \in Seq(Tx)
    BY DEF TypeInv, TypeOK
<1>1. CASE AwaitStart
    <2>1. /\ phase = "ready" /\ pc <= Len(Steps) /\ Steps[pc].op = "await"
          /\ txs' = [txs EXCEPT ![LastTx].spin = "spinning"]
        BY <1>1, Zenon DEF AwaitStart, Cur
    <2>2. LastTx \in 1..Len(txs)
        BY <2>1, AwaitAfterSend DEF TypeInv, TypeOK, LastTx
    <2>3. txs' = [txs EXCEPT ![LastTx] = WithSpin(txs[LastTx], "spinning")]
        <3>1. [txs EXCEPT ![LastTx].spin = "spinning"]
                = [txs EXCEPT ![LastTx] = WithSpin(txs[LastTx], "spinning")]
            BY <1>0, <2>2, SetSpin DEF SpinVals
        <3>2. QED
            BY <2>1, <3>1, Zenon
    <2>4. QED
        BY <1>0, <2>2, <2>3, WithTypes, TxUpdate DEF SpinVals, WithSpin
<1>2. CASE AwaitNodeError
    <2>1. /\ phase = "mining"
          /\ txs' = [txs EXCEPT ![LastTx].spin = "failed"]
        BY <1>2, Zenon DEF AwaitNodeError
    <2>2. LastTx \in 1..Len(txs)
        BY <2>1 DEF TypeInv, TypeOK, LastTx
    <2>3. txs' = [txs EXCEPT ![LastTx] = WithSpin(txs[LastTx], "failed")]
        <3>1. [txs EXCEPT ![LastTx].spin = "failed"]
                = [txs EXCEPT ![LastTx] = WithSpin(txs[LastTx], "failed")]
            BY <1>0, <2>2, SetSpin DEF SpinVals
        <3>2. QED
            BY <2>1, <3>1, Zenon
    <2>4. QED
        BY <1>0, <2>2, <2>3, WithTypes, TxUpdate DEF SpinVals, WithSpin
<1>3. CASE MineSome
    <2>1. PICK t \in 1..Len(txs) : Mine(t)
        BY <1>3 DEF MineSome
    <2>2. PICK w \in Statuses :
             txs' = [txs EXCEPT ![t].st = "mined", ![t].status = w]
        BY <2>1, Zenon DEF Mine
    <2>3. txs' = [txs EXCEPT ![t] = WithMined(txs[t], w)]
        <3>1. [txs EXCEPT ![t].st = "mined", ![t].status = w]
                = [txs EXCEPT ![t] = WithMined(txs[t], w)]
            BY <1>0, SetMined
        <3>2. QED
            BY <2>2, <3>1, Zenon
    <2>4. WithMined(txs[t], w) \in Tx
        <3>1. txs[t] \in Tx /\ w \in StatusVal
            BY <1>0 DEF StatusVal
        <3>2. QED
            BY <3>1, WithTypes
    <2>5. QED
        BY <1>0, <2>3, <2>4, TxUpdate DEF WithMined
<1>4. CASE \E t \in 1..Len(txs) : Drop(t)
    <2>1. PICK t \in 1..Len(txs) : Drop(t)
        BY <1>4
    <2>2. txs' = [txs EXCEPT ![t].st = "dropped"]
        BY <2>1, Zenon DEF Drop
    <2>3. txs' = [txs EXCEPT ![t] = WithDropped(txs[t])]
        <3>1. [txs EXCEPT ![t].st = "dropped"] = [txs EXCEPT ![t] = WithDropped(txs[t])]
            BY <1>0, SetDropped
        <3>2. QED
            BY <2>2, <3>1, Zenon
    <2>4. QED
        BY <1>0, <2>3, WithTypes, TxUpdate DEF WithDropped
<1>5. CASE \/ CallOk \/ CallFails \/ SendFails \/ SuccessReverted \/ SuccessNodeError
           \/ PrintTransaction \/ StopEngine \/ Return \/ Catch \/ Done \/ UNCHANGED vars
    <2>1. UNCHANGED txs
        BY <1>5 DEF CallOk, CallFails, SendFails, SuccessReverted, SuccessNodeError,
                    PrintTransaction, StopEngine, Return, Catch, Done, Throw, vars
    <2>2. QED
        BY <2>1
<1>6. QED
    BY <1>1, <1>2, <1>3, <1>4, <1>5 DEF KeepActions

(* Next is made of the three groups.                                      *)
LEMMA NextGroups ==
    [Next]_vars => \/ SendOk \/ SubmitForSuccess
                   \/ AwaitMined \/ SuccessMined
                   \/ KeepActions
BY DEF Next, Progress, Failure, KeepActions

(* Where each of the other steps takes the runner.                        *)
LEMMA KeepPhases ==
    ASSUME TypeInv, KeepActions
    PROVE  \/ /\ phase = "ready" /\ pc \in 1..Len(Steps)
              /\ Steps[pc].op \in {"call", "report", "stop"}
              /\ phase' = "ready" /\ pc' = pc + 1 /\ UNCHANGED exitCode
           \/ UNCHANGED <<phase, pc, exitCode>>
           \/ /\ phase \in {"ready", "mining", "confirming"}
              /\ phase' \in {"mining", "throwing"} /\ UNCHANGED exitCode
           \/ /\ phase = "ready" /\ pc = Len(Steps) + 1
              /\ phase' = "returned" /\ UNCHANGED exitCode
           \/ /\ phase = "throwing" /\ phase' \in {"returned", "exited"}
              /\ exitCode' = 1
<1>1. CASE CallOk \/ PrintTransaction \/ StopEngine
    BY <1>1 DEF CallOk, PrintTransaction, StopEngine, Cur, Advance, TypeInv, TypeOK
<1>2. CASE MineSome \/ (\E t \in 1..Len(txs) : Drop(t)) \/ Done \/ UNCHANGED vars
    BY <1>2, Zenon DEF MineSome, Mine, Drop, Done, vars
<1>3. CASE AwaitStart \/ AwaitNodeError \/ CallFails \/ SendFails
           \/ SuccessReverted \/ SuccessNodeError
    BY <1>3, Zenon DEF AwaitStart, AwaitNodeError, CallFails, SendFails,
                        SuccessReverted, SuccessNodeError, Throw
<1>4. CASE Return
    BY <1>4 DEF Return
<1>5. CASE Catch
    BY <1>5, FlagsAssumption DEF Catch
<1>6. QED
    BY <1>1, <1>2, <1>3, <1>4, <1>5 DEF KeepActions

-----------------------------------------------------------------------------
(***************************************************************************)
(* SerializedSubmission is not inductive: a send step is safe only if the  *)
(* step before it, when it was a send, has been followed by its await.    *)
(* The strengthening says that the receipt of the last transaction can be *)
(* missing in the ready phase only right after its send (where SerialSteps *)
(* puts an await), and that the exit code is still 0 while the script     *)
(* runs (the mapping reads it).                                            *)
(***************************************************************************)
SerialInv ==
    /\ TypeInv
    /\ SerializedSubmission
    /\ phase = "ready" /\ ~LastSettled =>
           pc \in 2..Len(Steps) /\ Steps[pc - 1].op = "send"
    /\ phase \notin {"returned", "exited"} => exitCode = 0

(* In the ready phase with the last receipt missing, the runner is at the *)
(* await step that follows the send.                                      *)
LEMMA UnsettledAtAwait ==
    ASSUME SerialSteps, SerialInv, phase = "ready", ~LastSettled
    PROVE  pc \in 1..Len(Steps) /\ Steps[pc].op = "await"
<1>1. pc \in 2..Len(Steps) /\ Steps[pc - 1].op = "send"
    BY DEF SerialInv
<1>2. pc - 1 \in 1..Len(Steps)
    BY <1>1
<1>3. QED
    BY <1>1, <1>2 DEF SerialSteps

(* No transaction has been submitted when the script starts.              *)
LEMMA SerialInit == Init => SerialInv
BY TypeInit DEF Init, SerialInv, SerializedSubmission, LastSettled

(* Every step of a SerialSteps script preserves SerialInv.                *)
LEMMA SerialStep ==
    ASSUME SerialSteps
    PROVE  SerialInv /\ [Next]_vars => SerialInv'
<1> SUFFICES ASSUME SerialInv, [Next]_vars PROVE SerialInv'
    OBVIOUS
<1>0. /\ TypeInv /\ TypeInv'
      /\ txs \in Seq(Tx) /\ pc \in 1..(Len(Steps) + 1)
    BY TypeStep DEF SerialInv, TypeInv, TypeOK
<1>1. CASE SendOk \/ SubmitForSuccess
    <2>1. /\ phase = "ready" /\ pc \in 1..Len(Steps) /\ Steps[pc].op \in SendOps
          /\ Len(txs') = Len(txs) + 1
          /\ ~txs'[Len(txs')].awaited
          /\ \A j \in 1..Len(txs) : txs'[j] = txs[j]
          /\ phase' \in {"ready", "confirming"}
          /\ UNCHANGED exitCode
          /\ (Steps[pc].op = "send" => pc' = pc + 1 /\ phase' = "ready")
          /\ (Steps[pc].op = "sendSuccess" => phase' = "confirming")
        BY <1>0, <1>1, SubmitAwaited
    <2>2. LastSettled
        <3>1. SUFFICES ASSUME ~LastSettled PROVE FALSE
            OBVIOUS
        <3>2. Steps[pc].op = "await"
            BY <2>1, <3>1, UnsettledAtAwait
        <3>3. QED
            BY <2>1, <3>2 DEF SendOps
    <2>3. SerializedSubmission'
        BY <1>0, <2>1, <2>2 DEF SerialInv, SerializedSubmission, LastSettled
    <2>4. Steps[pc].op = "send" => pc + 1 \in 2..Len(Steps)
        BY <2>1 DEF SerialSteps
    <2>5. phase' = "ready" /\ ~LastSettled' =>
              pc' \in 2..Len(Steps) /\ Steps[pc' - 1].op = "send"
        BY <2>1, <2>4 DEF SendOps
    <2>6. QED
        BY <1>0, <2>1, <2>3, <2>5 DEF SerialInv
<1>2. CASE AwaitMined \/ SuccessMined
    <2>1. /\ phase \in {"mining", "confirming"}
          /\ LastTx \in 1..Len(txs)
          /\ Len(txs') = Len(txs)
          /\ txs'[LastTx].awaited
          /\ \A j \in 1..Len(txs) : j # LastTx => txs'[j] = txs[j]
          /\ phase' = "ready" /\ pc' = pc + 1
          /\ UNCHANGED exitCode
        BY <1>0, <1>2, SettleAwaited
    <2>2. LastSettled'
        BY <2>1 DEF LastSettled, LastTx
    <2>3. SerializedSubmission'
        BY <1>0, <2>1 DEF SerialInv, SerializedSubmission, LastTx
    <2>4. QED
        BY <1>0, <2>1, <2>2, <2>3 DEF SerialInv
<1>3. CASE KeepActions
    <2>1. /\ Len(txs') = Len(txs)
          /\ \A j \in 1..Len(txs) : txs'[j].awaited = txs[j].awaited
        BY <1>0, <1>3, KeepAwaited
    <2>2. /\ LastSettled' = LastSettled
          /\ SerializedSubmission' = SerializedSubmission
        BY <2>1 DEF LastSettled, SerializedSubmission
    <2>3. CASE /\ phase = "ready" /\ pc \in 1..Len(Steps)
               /\ Steps[pc].op \in {"call", "report", "stop"}
               /\ phase' = "ready" /\ pc' = pc + 1 /\ UNCHANGED exitCode
        <3>1. LastSettled
            BY <2>3, UnsettledAtAwait
        <3>2. QED
            BY <1>0, <2>2, <2>3, <3>1 DEF SerialInv
    <2>4. CASE UNCHANGED <<phase, pc, exitCode>>
        BY <1>0, <2>2, <2>4 DEF SerialInv
    <2>5. CASE /\ phase \in {"ready", "mining", "confirming"}
               /\ phase' \in {"mining", "throwing"} /\ UNCHANGED exitCode
        BY <1>0, <2>2, <2>5 DEF SerialInv
    <2>6. CASE /\ phase = "ready" /\ pc = Len(Steps) + 1
               /\ phase' = "returned" /\ UNCHANGED exitCode
        BY <1>0, <2>2, <2>6 DEF SerialInv
    <2>7. CASE /\ phase = "throwing" /\ phase' \in {"returned", "exited"}
               /\ exitCode' = 1
        BY <1>0, <2>2, <2>7 DEF SerialInv
    <2>8. QED
        BY <1>0, <1>3, <2>3, <2>4, <2>5, <2>6, <2>7, KeepPhases
<1>4. QED
    BY <1>1, <1>2, <1>3, NextGroups

(* A script whose every send is directly followed by the spinner wait on  *)
(* its hash submits a transaction only after the receipts of all earlier  *)
(* ones came back to it, for every such script and every set of receipt   *)
(* statuses.  create_staking_pool.ts is not such a script (its ZRX        *)
(* approval is never awaited) and the run staking_serial shows it breaks  *)
(* the property.                                                          *)
THEOREM SerialSubmission ==
    ASSUME SerialSteps
    PROVE  Spec => []SerializedSubmission
<1>1. SerialInv => SerializedSubmission
    BY DEF SerialInv
<1>2. QED
    BY SerialInit, SerialStep, <1>1, PTL DEF Spec

-----------------------------------------------------------------------------
(***************************************************************************)
(* The refinement.  Under the mapping of ScenarioRun (LifecycleOutcome,    *)
(* Len(txs), ~LastSettled) a send is Submit, the return of the missing     *)
(* receipt is Settle, the script's function resolving is Succeed, the      *)
(* top-level catch is Fail, and every other step is a stutter.             *)
(***************************************************************************)

(* The script starts running with nothing submitted.                      *)
LEMMA LifecycleInit == Init => Lifecycle!LInit
BY DEF Init, Lifecycle!LInit, LifecycleOutcome, LastSettled

(* Every step of a SerialSteps script is a step of ScriptLifecycle or     *)
(* leaves the mapped state unchanged.                                     *)
LEMMA LifecycleStep ==
    ASSUME SerialSteps
    PROVE  SerialInv /\ [Next]_vars => [Lifecycle!LNext]_Lifecycle!lvars
<1> SUFFICES ASSUME SerialInv, [Next]_vars
             PROVE  [Lifecycle!LNext]_Lifecycle!lvars
    OBVIOUS
<1>0. TypeInv /\ txs \in Seq(Tx)
    BY DEF SerialInv, TypeInv, TypeOK
<1>1. CASE SendOk \/ SubmitForSuccess
    <2>1. /\ phase = "ready" /\ pc \in 1..Len(Steps) /\ Steps[pc].op \in SendOps
          /\ Len(txs') = Len(txs) + 1
          /\ ~txs'[Len(txs')].awaited
          /\ phase' \in {"ready", "confirming"}
        BY <1>0, <1>1, SubmitAwaited
    <2>2. LastSettled
        <3>1. SUFFICES ASSUME ~LastSettled PROVE FALSE
            OBVIOUS
        <3>2. Steps[pc].op = "await"
            BY <2>1, <3>1, UnsettledAtAwait
        <3>3. QED
            BY <2>1, <3>2 DEF SendOps
    <2>3. Lifecycle!Submit
        BY <2>1, <2>2 DEF Lifecycle!Submit, LifecycleOutcome, LastSettled
    <2>4. QED
        BY <2>3 DEF Lifecycle!LNext
<1>2. CASE AwaitMined \/ SuccessMined
    <2>1. /\ phase \in {"mining", "confirming"}
          /\ LastTx \in 1..Len(txs)
          /\ Len(txs') = Len(txs)
          /\ txs'[LastTx].awaited
          /\ phase' = "ready"
        BY <1>0, <1>2, SettleAwaited
    <2>2. LastSettled' /\ LifecycleOutcome = "running" /\ LifecycleOutcome' = "running"
        BY <2>1 DEF LastSettled, LastTx, LifecycleOutcome
    <2>3. CASE LastSettled
        BY <2>1, <2>2, <2>3 DEF Lifecycle!lvars
    <2>4. CASE ~LastSettled
        <3>1. Lifecycle!Settle
            BY <2>1, <2>2, <2>4 DEF Lifecycle!Settle
        <3>2. QED
            BY <3>1 DEF Lifecycle!LNext
    <2>5. QED
        BY <2>3, <2>4
<1>3. CASE KeepActions
    <2>1. /\ Len(txs') = Len(txs)
          /\ \A j \in 1..Len(txs) : txs'[j].awaited = txs[j].awaited
        BY <1>0, <1>3, KeepAwaited
    <2>2. LastSettled' = LastSettled
        BY <2>1 DEF LastSettled
    <2>3. CASE /\ phase = "ready" /\ pc = Len(Steps) + 1
               /\ phase' = "returned" /\ UNCHANGED exitCode
        <3>1. LastSettled
            BY <2>3 DEF SerialInv
        <3>2. Lifecycle!Succeed
            BY <2>1, <2>2, <2>3, <3>1 DEF Lifecycle!Succeed, LifecycleOutcome, SerialInv
        <3>3. QED
            BY <3>2 DEF Lifecycle!LNext
    <2>4. CASE /\ phase = "throwing" /\ phase' \in {"returned", "exited"}
               /\ exitCode' = 1
        <3>1. Lifecycle!Fail
            BY <2>1, <2>2, <2>4 DEF Lifecycle!Fail, LifecycleOutcome
        <3>2. QED
            BY <3>1 DEF Lifecycle!LNext
    <2>5. CASE \/ /\ phase = "ready" /\ phase' = "ready" /\ UNCHANGED exitCode
               \/ UNCHANGED <<phase, pc, exitCode>>
               \/ /\ phase \in {"ready", "mining", "confirming"}
                  /\ phase' \in {"mining", "throwing"} /\ UNCHANGED exitCode
        <3>1. LifecycleOutcome' = LifecycleOutcome
            BY <2>5 DEF LifecycleOutcome
        <3>2. QED
            BY <2>1, <2>2, <3>1 DEF Lifecycle!lvars
    <2>6. QED
        BY <1>0, <1>3, <2>3, <2>4, <2>5, KeepPhases
<1>4. QED
    BY <1>1, <1>2, <1>3, NextGroups

(* Every run of a script whose sends are each directly followed by the    *)
(* spinner wait on their hash implements ScriptLifecycle: one transaction *)
(* in flight at a time, a normal return only with every receipt returned, *)
(* and a failure (process.exit(1), or the exit code of mint_test_zrx.ts)  *)
(* from any point.  It holds for every such script and every set of       *)
(* statuses; the runs otc and all check it on the scenarios.              *)
THEOREM LifecycleImplemented ==
    ASSUME SerialSteps
    PROVE  Spec => LifecycleRefinement
<1>1. Spec => []SerialInv
    BY SerialInit, SerialStep, PTL DEF Spec
<1>2. QED
    BY <1>1, LifecycleInit, LifecycleStep, PTL
    DEF Spec, LifecycleRefinement, Lifecycle!LSpec

-----------------------------------------------------------------------------
(***************************************************************************)
(* Requests go through a running engine.  Only StopEngine and the catch    *)
(* stop the engine, nothing restarts it, pc never moves back and a         *)
(* settled run stays settled; so a stopped engine, while the script still  *)
(* runs, has a stop step behind pc, and under StopLast no request follows  *)
(* that step.                                                              *)
(***************************************************************************)
StoppedBefore(n) == \E j \in 1..(n - 1) : Steps[j].op = "stop"

EngineInv ==
    engine = "stopped" => phase \in {"returned", "exited"} \/ StoppedBefore(pc)

(* The steps other than StopEngine, Return and Catch keep the engine, move *)
(* pc by at most one, and leave a settled run alone.                       *)
LEMMA EngineKept ==
    ASSUME TypeInv, [Next]_vars, ~StopEngine, ~Return, ~Catch
    PROVE  /\ engine' = engine
           /\ pc' \in {pc, pc + 1}
           /\ phase \in {"returned", "exited"} => phase' = phase
<1>1. CASE CallOk \/ SendOk \/ AwaitMined \/ SuccessMined \/ PrintTransaction
    BY <1>1 DEF CallOk, SendOk, AwaitMined, SuccessMined, PrintTransaction, Advance
<1>2. CASE AwaitStart \/ SubmitForSuccess \/ SuccessReverted \/ CallFails \/ SendFails
           \/ AwaitNodeError \/ SuccessNodeError
    BY <1>2 DEF AwaitStart, SubmitForSuccess, SuccessReverted, CallFails, SendFails,
                AwaitNodeError, SuccessNodeError, Throw
<1>3. CASE MineSome \/ (\E t \in 1..Len(txs) : Drop(t)) \/ Done \/ UNCHANGED vars
    BY <1>3 DEF MineSome, Mine, Drop, Done, vars
<1> QED
    BY <1>1, <1>2, <1>3 DEF Next, Progress, Failure

LEMMA EngineInit == Init => EngineInv
BY DEF Init, EngineInv

LEMMA EngineStep == TypeInv /\ EngineInv /\ [Next]_vars => EngineInv'
<1> SUFFICES ASSUME TypeInv, EngineInv, [Next]_vars PROVE EngineInv'
    OBVIOUS
<1>1. CASE StopEngine
    <2>1. pc \in 1..Len(Steps) /\ Steps[pc].op = "stop" /\ pc' = pc + 1
        BY <1>1 DEF StopEngine, Cur, Advance, TypeInv, TypeOK
    <2> QED
        BY <2>1 DEF EngineInv, StoppedBefore
<1>2. CASE Return \/ Catch
    BY <1>2, FlagsAssumption DEF Return, Catch, EngineInv
<1>3. CASE ~StopEngine /\ ~Return /\ ~Catch
    <2>1. /\ engine' = engine
          /\ pc' \in {pc, pc + 1}
          /\ phase \in {"returned", "exited"} => phase' = phase
        BY <1>3, EngineKept
    <2>2. pc \in Nat
        BY DEF TypeInv, TypeOK
    <2>3. StoppedBefore(pc) => StoppedBefore(pc')
        BY <2>1, <2>2 DEF StoppedBefore
    <2>4. CASE phase' \in {"returned", "exited"}
        BY <2>4 DEF EngineInv
    <2>5. CASE phase' \notin {"returned", "exited"}
        BY <2>1, <2>3, <2>5 DEF EngineInv
    <2> QED
        BY <2>4, <2>5
<1> QED
    BY <1>1, <1>2, <1>3

(* In every script whose providerEngine.stop() comes after its last read, *)
(* send and wait, each of those requests is made while the engine runs:   *)
(* the scenarios run on their own meet it; all.ts, which runs one         *)
(* scenario body after another on the engine the first one stopped, does  *)
(* not.                                                                   *)
THEOREM RequestsRunningEngine ==
    ASSUME StopLast
    PROVE  Spec => []RequestsThroughRunningEngine
<1>1. Init => TypeInv /\ EngineInv
    BY TypeInit, EngineInit
<1>2. TypeInv /\ EngineInv /\ [Next]_vars => TypeInv' /\ EngineInv'
    BY TypeStep, EngineStep
<1>3. TypeInv /\ EngineInv => RequestsThroughRunningEngine
    <2> SUFFICES ASSUME TypeInv, EngineInv, phase = "ready", pc <= Len(Steps),
                        Cur.op \in {"call", "send", "await", "sendSuccess"},
                        engine # "running"
                 PROVE  FALSE
        BY DEF RequestsThroughRunningEngine
    <2>1. pc \in 1..Len(Steps) /\ engine = "stopped"
        BY DEF TypeInv, TypeOK
    <2>2. PICK j \in 1..(pc - 1) : Steps[j].op = "stop"
        BY <2>1 DEF EngineInv, StoppedBefore
    <2> QED
        BY <2>1, <2>2 DEF StopLast, Cur
<1> QED
    BY <1>1, <1>2, <1>3, PTL DEF Spec

=============================================================================
