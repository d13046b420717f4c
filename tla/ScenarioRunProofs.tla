------------------------- MODULE ScenarioRunProofs -------------------------
(***************************************************************************)
(* Proofs about ScenarioRun, for every script satisfying StepsAssumption  *)
(* and every set of receipt statuses satisfying StatusAssumption.         *)
(***************************************************************************)
EXTENDS ScenarioRun, SequenceTheorems, TLAPS

(* Some step before position n sends a transaction.                       *)
SentBefore(n) == \E j \in 1..(n - 1) : Steps[j].op \in SendOps

(***************************************************************************)
(* TypeOK is not inductive: AwaitMined and SuccessMined advance pc and    *)
(* read txs[LastTx] without checking either, so the strengthening records *)
(* that the runner suspends only inside a step of the script, on the step *)
(* kind that suspended it, and that a transaction exists once a send step *)
(* has been passed (the hash an await step watches).                      *)
(***************************************************************************)
TypeInv ==
    /\ TypeOK
    /\ phase \in {"mining", "confirming"} => pc \in 1..Len(Steps) /\ Len(txs) >= 1
    /\ phase = "mining" => Steps[pc].op = "await"
    /\ phase = "confirming" => Steps[pc].op = "sendSuccess"
    /\ SentBefore(pc) => Len(txs) >= 1

(* Passing a step that is not a send adds no send before pc.              *)
LEMMA SentBeforeStep ==
    ASSUME NEW n \in 1..Len(Steps), SentBefore(n + 1), Steps[n].op \notin SendOps
    PROVE  SentBefore(n)
BY DEF SentBefore

(* An await step has a send before it.                                    *)
LEMMA AwaitAfterSend ==
    ASSUME NEW n \in 1..Len(Steps), Steps[n].op = "await"
    PROVE  SentBefore(n)
BY StepsAssumption DEF SentBefore

(***************************************************************************)
(* Field updates of a transaction.  The SMT backend does not translate    *)
(* [r EXCEPT !.f = v]; these lemmas rewrite each update the actions make  *)
(* into a record built field by field.                                    *)
(***************************************************************************)
TxFields == {"from", "st", "status", "spin", "awaited"}

(* A transaction is a record with exactly the five fields of Tx.         *)
LEMMA TxDomain ==
    ASSUME NEW r \in Tx
    PROVE  DOMAIN r = TxFields
BY DEF Tx, TxFields

(* Setting the spinner state of a transaction.                           *)
LEMMA SetSpinRec ==
    ASSUME NEW r \in Tx, NEW v
    PROVE  [r EXCEPT !.spin = v] = [from |-> r.from, st |-> r.st, status |-> r.status,
                                    spin |-> v, awaited |-> r.awaited]
<1> DEFINE e == [r EXCEPT !.spin = v]
<1>1. DOMAIN r = TxFields BY TxDomain
<1>2. e = [x \in DOMAIN r |-> IF x = "spin" THEN v ELSE r[x]] BY Zenon
<1> HIDE DEF e
<1>3. QED BY <1>1, <1>2 DEF TxFields

(* Marking a transaction as returned to the script.                      *)
LEMMA SetAwaitedRec ==
    ASSUME NEW r \in Tx, NEW v
    PROVE  [r EXCEPT !.awaited = v] = [from |-> r.from, st |-> r.st, status |-> r.status,
                                       spin |-> r.spin, awaited |-> v]
<1> DEFINE e == [r EXCEPT !.awaited = v]
<1>1. DOMAIN r = TxFields BY TxDomain
<1>2. e = [x \in DOMAIN r |-> IF x = "awaited" THEN v ELSE r[x]] BY Zenon
<1> HIDE DEF e
<1>3. QED BY <1>1, <1>2 DEF TxFields

(* Setting the chain state of a transaction.                             *)
LEMMA SetStRec ==
    ASSUME NEW r \in Tx, NEW v
    PROVE  [r EXCEPT !.st = v] = [from |-> r.from, st |-> v, status |-> r.status,
                                  spin |-> r.spin, awaited |-> r.awaited]
<1> DEFINE e == [r EXCEPT !.st = v]
<1>1. DOMAIN r = TxFields BY TxDomain
<1>2. e = [x \in DOMAIN r |-> IF x = "st" THEN v ELSE r[x]] BY Zenon
<1> HIDE DEF e
<1>3. QED BY <1>1, <1>2 DEF TxFields

(* The transaction r with one or two fields replaced, as the actions      *)
(* replace them.                                                          *)
WithSpin(r, v) == [from |-> r.from, st |-> r.st, status |-> r.status,
                   spin |-> v, awaited |-> r.awaited]
WithSpinAwaited(r, v) == [from |-> r.from, st |-> r.st, status |-> r.status,
                          spin |-> v, awaited |-> TRUE]
WithAwaited(r) == [from |-> r.from, st |-> r.st, status |-> r.status,
                   spin |-> r.spin, awaited |-> TRUE]
WithMined(r, w) == [from |-> r.from, st |-> "mined", status |-> w,
                    spin |-> r.spin, awaited |-> r.awaited]
WithDropped(r) == [from |-> r.from, st |-> "dropped", status |-> r.status,
                   spin |-> r.spin, awaited |-> r.awaited]

SpinVals == {"none", "spinning", "stopped", "failed"}

(* The spinner update of AwaitStart and AwaitNodeError on the history.    *)
LEMMA SetSpin ==
    ASSUME NEW s \in Seq(Tx), NEW i \in 1..Len(s), NEW v \in SpinVals
    PROVE  [s EXCEPT ![i].spin = v] = [s EXCEPT ![i] = WithSpin(s[i], v)]
<1>1. s[i] \in Tx OBVIOUS
<1>2. [s[i] EXCEPT !.spin = v] = WithSpin(s[i], v)
    BY <1>1, SetSpinRec DEF WithSpin
<1>3. QED BY <1>2, Zenon

(* The update AwaitMined makes to the history.                           *)
LEMMA SetSpinAwaited ==
    ASSUME NEW s \in Seq(Tx), NEW i \in 1..Len(s), NEW v \in SpinVals
    PROVE  [s EXCEPT ![i].spin = v, ![i].awaited = TRUE]
             = [s EXCEPT ![i] = WithSpinAwaited(s[i], v)]
<1>1. s[i] \in Tx OBVIOUS
<1>2. [s[i] EXCEPT !.spin = v] = WithSpin(s[i], v)
    BY <1>1, SetSpinRec DEF WithSpin
<1>3. WithSpin(s[i], v) \in Tx
    BY <1>1 DEF Tx, WithSpin, SpinVals
<1>4. [WithSpin(s[i], v) EXCEPT !.awaited = TRUE] = WithSpinAwaited(s[i], v)
    BY <1>3, SetAwaitedRec DEF WithSpin, WithSpinAwaited
<1>5. QED BY <1>2, <1>4, Zenon

(* Setting the receipt status of a transaction.                          *)
LEMMA SetStatusRec ==
    ASSUME NEW r \in Tx, NEW v
    PROVE  [r EXCEPT !.status = v] = [from |-> r.from, st |-> r.st, status |-> v,
                                      spin |-> r.spin, awaited |-> r.awaited]
<1> DEFINE e == [r EXCEPT !.status = v]
<1>1. DOMAIN r = TxFields BY TxDomain
<1>2. e = [x \in DOMAIN r |-> IF x = "status" THEN v ELSE r[x]] BY Zenon
<1> HIDE DEF e
<1>3. QED BY <1>1, <1>2 DEF TxFields

(* The update SuccessMined makes to the history.                         *)
LEMMA SetAwaited ==
    ASSUME NEW s \in Seq(Tx), NEW i \in 1..Len(s)
    PROVE  [s EXCEPT ![i].awaited = TRUE] = [s EXCEPT ![i] = WithAwaited(s[i])]
<1>1. s[i] \in Tx OBVIOUS
<1>2. [s[i] EXCEPT !.awaited = TRUE] = WithAwaited(s[i])
    BY <1>1, SetAwaitedRec DEF WithAwaited
<1>3. QED BY <1>2, Zenon

(* The update Drop makes to the history.                                 *)
LEMMA SetDropped ==
    ASSUME NEW s \in Seq(Tx), NEW i \in 1..Len(s)
    PROVE  [s EXCEPT ![i].st = "dropped"] = [s EXCEPT ![i] = WithDropped(s[i])]
<1>1. s[i] \in Tx OBVIOUS
<1>2. [s[i] EXCEPT !.st = "dropped"] = WithDropped(s[i])
    BY <1>1, SetStRec DEF WithDropped
<1>3. QED BY <1>2, Zenon

(* The update Mine makes to the history.                                 *)
LEMMA SetMined ==
    ASSUME NEW s \in Seq(Tx), NEW i \in 1..Len(s), NEW w
    PROVE  [s EXCEPT ![i].st = "mined", ![i].status = w]
             = [s EXCEPT ![i] = WithMined(s[i], w)]
<1>1. s[i] \in Tx OBVIOUS
<1> DEFINE q == [from |-> s[i].from, st |-> "mined", status |-> s[i].status,
                 spin |-> s[i].spin, awaited |-> s[i].awaited]
<1>2. [s[i] EXCEPT !.st = "mined"] = q
    BY <1>1, SetStRec
<1>3. q \in Tx
    BY <1>1 DEF Tx
<1>4. [q EXCEPT !.status = w] = WithMined(s[i], w)
    BY <1>3, SetStatusRec DEF WithMined
<1>5. QED BY <1>2, <1>4, Zenon

(* Replacing transaction i of a history by a transaction keeps it a       *)
(* history of the same length and leaves the other transactions alone.    *)
LEMMA TxUpdate ==
    ASSUME NEW s \in Seq(Tx), NEW i \in 1..Len(s), NEW r \in Tx,
           NEW t, t = [s EXCEPT ![i] = r]
    PROVE  /\ t \in Seq(Tx) /\ Len(t) = Len(s) /\ t[i] = r
           /\ \A j \in 1..Len(s) : j # i => t[j] = s[j]
BY ExceptSeq

(* The records the actions build are transactions.                        *)
LEMMA WithTypes ==
    ASSUME NEW r \in Tx
    PROVE  /\ \A v \in SpinVals : WithSpin(r, v) \in Tx /\ WithSpinAwaited(r, v) \in Tx
           /\ WithAwaited(r) \in Tx /\ WithDropped(r) \in Tx
           /\ \A w \in StatusVal : WithMined(r, w) \in Tx
BY DEF Tx, SpinVals, WithSpin, WithSpinAwaited, WithAwaited, WithDropped, WithMined

(* The initial state, before the script runs, satisfies TypeInv.         *)
LEMMA TypeInit == Init => TypeInv
BY StepsAssumption, StatusAssumption
DEF Init, TypeInv, TypeOK, SentBefore, Receipt, StatusVal, Phases

(* Every step of the runner and of the chain preserves TypeInv.           *)
LEMMA TypeStep == TypeInv /\ [Next]_vars => TypeInv'
<1> SUFFICES ASSUME TypeInv, [Next]_vars PROVE TypeInv'
    OBVIOUS
<1>0. txs \in Seq(Tx)
    BY DEF TypeInv, TypeOK
<1>1. CASE CallOk
    <2>1. pc \in 1..Len(Steps) /\ Steps[pc].op \notin SendOps
        BY <1>1 DEF CallOk, TypeInv, TypeOK, Cur, SendOps
    <2>2. SentBefore(pc + 1) => Len(txs) >= 1
        BY <2>1, SentBeforeStep DEF TypeInv
    <2>3. QED
        BY <1>1, <2>2 DEF CallOk, Advance, TypeInv, TypeOK
<1>2. CASE SendOk
    <2>1. Cur \in Step
        BY <1>2, StepsAssumption DEF SendOk, Cur, TypeInv, TypeOK
    <2>2. NewTx(Cur.from) \in Tx
        BY <2>1 DEF NewTx, Tx, Step, StatusVal
    <2>3. txs' \in Seq(Tx) /\ Len(txs') = Len(txs) + 1
        BY <1>2, <1>0, <2>2, AppendProperties DEF SendOk
    <2>4. QED
        BY <1>2, <2>3 DEF SendOk, Advance, TypeInv, TypeOK, SentBefore, Cur
<1>3. CASE AwaitStart
    <2>1. /\ phase = "ready" /\ pc <= Len(Steps) /\ Steps[pc].op = "await"
          /\ txs' = [txs EXCEPT ![LastTx].spin = "spinning"]
          /\ phase' = "mining"
          /\ UNCHANGED <<pc, engine, receipt, reports, exitCode>>
        BY <1>3, Zenon DEF AwaitStart, Cur
    <2>2. LastTx \in 1..Len(txs)
        BY <2>1, AwaitAfterSend DEF TypeInv, TypeOK, LastTx
    <2>3. txs' = [txs EXCEPT ![LastTx] = WithSpin(txs[LastTx], "spinning")]
        <3>1. [txs EXCEPT ![LastTx].spin = "spinning"]
                = [txs EXCEPT ![LastTx] = WithSpin(txs[LastTx], "spinning")]
            BY <1>0, <2>2, SetSpin DEF SpinVals
        <3>2. QED
            BY <2>1, <3>1, Zenon
    <2>4. txs' \in Seq(Tx) /\ Len(txs') = Len(txs)
        BY <1>0, <2>2, <2>3, WithTypes, TxUpdate DEF SpinVals
    <2>5. QED
        BY <2>1, <2>2, <2>4 DEF TypeInv, TypeOK, SentBefore, Phases
<1>4. CASE AwaitMined
    <2>1. /\ phase = "mining"
          /\ txs' = [txs EXCEPT ![LastTx].spin = SpinnerOutcome(txs[LastTx].status),
                                ![LastTx].awaited = TRUE]
          /\ receipt' = [tx |-> LastTx, status |-> txs[LastTx].status]
          /\ phase' = "ready"
          /\ pc' = pc + 1
          /\ UNCHANGED <<engine, reports, exitCode>>
        BY <1>4, Zenon DEF AwaitMined, Advance
    <2>2. LastTx \in 1..Len(txs) /\ txs[LastTx] \in Tx
        BY <2>1, <1>0 DEF TypeInv, TypeOK, LastTx
    <2>3. SpinnerOutcome(txs[LastTx].status) \in SpinVals
        BY DEF SpinnerOutcome, SpinVals
    <2>4. txs' = [txs EXCEPT ![LastTx] =
                    WithSpinAwaited(txs[LastTx], SpinnerOutcome(txs[LastTx].status))]
        <3>1. [txs EXCEPT ![LastTx].spin = SpinnerOutcome(txs[LastTx].status),
                          ![LastTx].awaited = TRUE]
                = [txs EXCEPT ![LastTx] =
                     WithSpinAwaited(txs[LastTx], SpinnerOutcome(txs[LastTx].status))]
            BY <1>0, <2>2, <2>3, SetSpinAwaited
        <3>2. QED
            BY <2>1, <3>1, Zenon
    <2>5. txs' \in Seq(Tx) /\ Len(txs') = Len(txs)
        <3>1. WithSpinAwaited(txs[LastTx], SpinnerOutcome(txs[LastTx].status)) \in Tx
            BY <2>2, <2>3, WithTypes
        <3>2. QED
            BY <1>0, <2>2, <2>4, <3>1, TxUpdate
    <2>6. receipt' \in Receipt /\ receipt'.tx \in 0..Len(txs')
        BY <2>1, <2>2, <2>5 DEF Tx, Receipt
    <2>7. QED
        BY <2>1, <2>5, <2>6 DEF TypeInv, TypeOK, SentBefore, Phases
<1>5. CASE AwaitNodeError
    <2>1. /\ phase = "mining"
          /\ txs' = [txs EXCEPT ![LastTx].spin = "failed"]
          /\ phase' = "throwing"
          /\ UNCHANGED <<pc, engine, receipt, reports, exitCode>>
        BY <1>5, Zenon DEF AwaitNodeError
    <2>2. LastTx \in 1..Len(txs)
        BY <2>1 DEF TypeInv, TypeOK, LastTx
    <2>3. txs' = [txs EXCEPT ![LastTx] = WithSpin(txs[LastTx], "failed")]
        <3>1. [txs EXCEPT ![LastTx].spin = "failed"]
                = [txs EXCEPT ![LastTx] = WithSpin(txs[LastTx], "failed")]
            BY <1>0, <2>2, SetSpin DEF SpinVals
        <3>2. QED
            BY <2>1, <3>1, Zenon
    <2>4. txs' \in Seq(Tx) /\ Len(txs') = Len(txs)
        BY <1>0, <2>2, <2>3, WithTypes, TxUpdate DEF SpinVals
    <2>5. QED
        BY <2>1, <2>4 DEF TypeInv, TypeOK, SentBefore, Phases
<1>6. CASE SubmitForSuccess
    <2>1. Cur \in Step
        BY <1>6, StepsAssumption DEF SubmitForSuccess, Cur, TypeInv, TypeOK
    <2>2. NewTx(Cur.from) \in Tx
        BY <2>1 DEF NewTx, Tx, Step, StatusVal
    <2>3. txs' \in Seq(Tx) /\ Len(txs') = Len(txs) + 1
        BY <1>6, <1>0, <2>2, AppendProperties DEF SubmitForSuccess
    <2>4. QED
        BY <1>6, <2>3 DEF SubmitForSuccess, TypeInv, TypeOK, Cur, SentBefore, Phases
<1>7. CASE SuccessMined
    <2>1. /\ phase = "confirming"
          /\ txs[LastTx].st = "mined" /\ txs[LastTx].status = 1
          /\ txs' = [txs EXCEPT ![LastTx].awaited = TRUE]
          /\ receipt' = [tx |-> LastTx, status |-> 1]
          /\ phase' = "ready"
          /\ pc' = pc + 1
          /\ UNCHANGED <<engine, reports, exitCode>>
        BY <1>7, Zenon DEF SuccessMined, Advance
    <2>2. LastTx \in 1..Len(txs)
        BY <2>1 DEF TypeInv, TypeOK, LastTx
    <2>3. txs' = [txs EXCEPT ![LastTx] = WithAwaited(txs[LastTx])]
        <3>1. [txs EXCEPT ![LastTx].awaited = TRUE]
                = [txs EXCEPT ![LastTx] = WithAwaited(txs[LastTx])]
            BY <1>0, <2>2, SetAwaited
        <3>2. QED
            BY <2>1, <3>1, Zenon
    <2>4. txs' \in Seq(Tx) /\ Len(txs') = Len(txs)
        BY <1>0, <2>2, <2>3, WithTypes, TxUpdate
    <2>5. receipt' \in Receipt /\ receipt'.tx \in 0..Len(txs')
        BY <2>1, <2>2, <2>4, StatusAssumption DEF Receipt, StatusVal
    <2>6. QED
        BY <2>1, <2>4, <2>5 DEF TypeInv, TypeOK, SentBefore, Phases
<1>8. CASE PrintTransaction
    <2>1. pc \in 1..Len(Steps) /\ Steps[pc].op \notin SendOps
        BY <1>8 DEF PrintTransaction, TypeInv, TypeOK, Cur, SendOps
    <2>2. SentBefore(pc + 1) => Len(txs) >= 1
        BY <2>1, SentBeforeStep DEF TypeInv
    <2>3. QED
        BY <1>8, <2>2 DEF PrintTransaction, Advance, TypeInv, TypeOK,
                          ReportRec, HeaderColor, StatusRow
<1>9. CASE StopEngine
    <2>1. pc \in 1..Len(Steps) /\ Steps[pc].op \notin SendOps
        BY <1>9 DEF StopEngine, TypeInv, TypeOK, Cur, SendOps
    <2>2. SentBefore(pc + 1) => Len(txs) >= 1
        BY <2>1, SentBeforeStep DEF TypeInv
    <2>3. QED
        BY <1>9, <2>2 DEF StopEngine, Advance, TypeInv, TypeOK
<1>10. CASE Return \/ Catch \/ Done \/ CallFails \/ SendFails
            \/ SuccessReverted \/ SuccessNodeError
    BY <1>10, FlagsAssumption
    DEF Return, Catch, Done, CallFails, SendFails, SuccessReverted,
        SuccessNodeError, Throw, vars, TypeInv, TypeOK, SentBefore, Phases
<1>11. CASE MineSome
    <2>1. PICK t \in 1..Len(txs) : Mine(t)
        BY <1>11 DEF MineSome
    <2>2. PICK w \in Statuses :
             /\ txs' = [txs EXCEPT ![t].st = "mined", ![t].status = w]
             /\ UNCHANGED <<pc, phase, engine, receipt, reports, exitCode>>
        BY <2>1, Zenon DEF Mine
    <2>3. txs' = [txs EXCEPT ![t] = WithMined(txs[t], w)]
        <3>1. [txs EXCEPT ![t].st = "mined", ![t].status = w]
                = [txs EXCEPT ![t] = WithMined(txs[t], w)]
            BY <1>0, SetMined
        <3>2. QED
            BY <2>2, <3>1, Zenon
    <2>4. txs' \in Seq(Tx) /\ Len(txs') = Len(txs)
        <3>1. WithMined(txs[t], w) \in Tx
            BY <1>0, WithTypes DEF StatusVal
        <3>2. QED
            BY <1>0, <2>3, <3>1, TxUpdate
    <2>5. QED
        BY <2>2, <2>4 DEF TypeInv, TypeOK, SentBefore
<1>12. CASE \E t \in 1..Len(txs) : Drop(t)
    <2>1. PICK t \in 1..Len(txs) : Drop(t)
        BY <1>12
    <2>2. /\ txs' = [txs EXCEPT ![t].st = "dropped"]
          /\ UNCHANGED <<pc, phase, engine, receipt, reports, exitCode>>
        BY <2>1, Zenon DEF Drop
    <2>3. txs' = [txs EXCEPT ![t] = WithDropped(txs[t])]
        <3>1. [txs EXCEPT ![t].st = "dropped"] = [txs EXCEPT ![t] = WithDropped(txs[t])]
            BY <1>0, SetDropped
        <3>2. QED
            BY <2>2, <3>1, Zenon
    <2>4. txs' \in Seq(Tx) /\ Len(txs') = Len(txs)
        BY <1>0, <2>3, WithTypes, TxUpdate
    <2>5. QED
        BY <2>2, <2>4 DEF TypeInv, TypeOK, SentBefore
<1>13. CASE UNCHANGED vars
    BY <1>13 DEF vars, TypeInv, TypeOK, SentBefore
<1>14. QED
    BY <1>1, <1>2, <1>3, <1>4, <1>5, <1>6, <1>7, <1>8, <1>9, <1>10,
       <1>11, <1>12, <1>13 DEF Next, Progress, Failure

(* The type invariant holds in every state of a run of any script: the    *)
(* runner never leaves the script, never watches a hash it does not hold  *)
(* and never returns a receipt of a transaction that was not submitted.   *)
THEOREM TypeCorrect == Spec => []TypeOK
<1>1. TypeInv => TypeOK
    BY DEF TypeInv
<1>2. QED
    BY TypeInit, TypeStep, <1>1, PTL DEF Spec

-----------------------------------------------------------------------------
(***************************************************************************)
(* The report printTransaction prints agrees with the spinner.  The step  *)
(* property is not a consequence of TypeInv: printTransaction reads only  *)
(* the receipt variable, so the invariant has to say what that receipt is *)
(* at every point where a report step can run.                            *)
(***************************************************************************)

(* The receipt last returned is the mined receipt of transaction i, and   *)
(* the spinner of i, once it stopped or failed, decided as the receipt.   *)
ReceiptAgrees(i) ==
    /\ txs[i].st = "mined"
    /\ receipt.status = txs[i].status
    /\ txs[i].spin \in {"stopped", "failed"} =>
           ((txs[i].spin = "stopped") = (receipt.status = 1))

(* Outside awaitTransactionSuccessAsync the receipt agrees with its       *)
(* transaction.                                                           *)
ReceiptMatches ==
    phase \in {"ready", "mining"} /\ receipt.tx # 0 => ReceiptAgrees(receipt.tx)

(* awaitTransactionSuccessAsync watches its transaction without a spinner.*)
ConfirmingUnwatched ==
    phase = "confirming" => txs[LastTx].spin = "none"

(* Right after an await step, the receipt is the one of the last hash.    *)
AwaitedIsLast ==
    phase = "ready" /\ pc \in 2..(Len(Steps) + 1) /\ Steps[pc - 1].op = "await"
        => receipt.tx = LastTx /\ LastTx >= 1

ReportInv == TypeInv /\ ReceiptMatches /\ ConfirmingUnwatched /\ AwaitedIsLast

(* No receipt has been returned in the initial state.                    *)
LEMMA ReportInit == Init => ReportInv
BY TypeInit DEF Init, ReportInv, ReceiptMatches, ConfirmingUnwatched, AwaitedIsLast

(* Every step preserves ReportInv.  Each action that touches a transaction *)
(* is first restated without the record update (the SMT backend does not  *)
(* read one), then each conjunct the action can disturb is shown.          *)
LEMMA ReportStep == ReportInv /\ [Next]_vars => ReportInv'
<1> SUFFICES ASSUME ReportInv, [Next]_vars
             PROVE  TypeInv' /\ ReceiptMatches' /\ ConfirmingUnwatched' /\ AwaitedIsLast'
    BY DEF ReportInv
<1>0. /\ txs \in Seq(Tx) /\ receipt.tx \in 0..Len(txs)
      /\ pc \in 1..(Len(Steps) + 1)
      /\ TypeInv'
    BY TypeStep DEF ReportInv, TypeInv, TypeOK
<1>1. CASE CallOk \/ StopEngine \/ PrintTransaction
    <2>1. /\ Steps[pc].op \in {"call", "stop", "report"} /\ phase = "ready"
          /\ pc' = pc + 1
          /\ UNCHANGED <<phase, txs, receipt>>
        BY <1>1 DEF CallOk, StopEngine, PrintTransaction, Cur, Advance
    <2>2. QED
        BY <1>0, <2>1 DEF ReportInv, ReceiptMatches, ReceiptAgrees,
                          ConfirmingUnwatched, AwaitedIsLast, LastTx
<1>2. CASE SendOk \/ SubmitForSuccess
    <2>1. /\ phase = "ready" /\ pc \in 1..Len(Steps)
          /\ txs' = Append(txs, NewTx(Cur.from))
          /\ UNCHANGED receipt
          /\ \/ Steps[pc].op = "send" /\ pc' = pc + 1 /\ phase' = "ready"
             \/ Steps[pc].op = "sendSuccess" /\ pc' = pc /\ phase' = "confirming"
        BY <1>0, <1>2 DEF SendOk, SubmitForSuccess, Cur, Advance
    <2>2. NewTx(Cur.from) \in Tx
        <3>1. Cur \in Step
            BY <2>1, StepsAssumption DEF Cur
        <3>2. QED
            BY <3>1 DEF NewTx, Tx, Step, StatusVal
    <2>3. /\ Len(txs') = Len(txs) + 1
          /\ txs'[Len(txs')] = NewTx(Cur.from)
          /\ \A j \in 1..Len(txs) : txs'[j] = txs[j]
        BY <1>0, <2>1, <2>2, AppendProperties
    <2>4. ReceiptMatches'
        BY <1>0, <2>1, <2>3 DEF ReportInv, ReceiptMatches, ReceiptAgrees
    <2>5. ConfirmingUnwatched'
        BY <2>1, <2>3 DEF ConfirmingUnwatched, LastTx, NewTx
    <2>6. AwaitedIsLast'
        BY <2>1 DEF AwaitedIsLast
    <2>7. QED
        BY <1>0, <2>4, <2>5, <2>6
<1>3. CASE AwaitStart
    <2>1. /\ phase = "ready" /\ pc <= Len(Steps) /\ Steps[pc].op = "await"
          /\ txs' = [txs EXCEPT ![LastTx].spin = "spinning"]
          /\ phase' = "mining"
          /\ UNCHANGED <<pc, receipt>>
        BY <1>3, Zenon DEF AwaitStart, Cur
    <2>2. LastTx \in 1..Len(txs)
        BY <2>1, AwaitAfterSend DEF ReportInv, TypeInv, TypeOK, LastTx
    <2>3. txs' = [txs EXCEPT ![LastTx] = WithSpin(txs[LastTx], "spinning")]
        <3>1. [txs EXCEPT ![LastTx].spin = "spinning"]
                = [txs EXCEPT ![LastTx] = WithSpin(txs[LastTx], "spinning")]
            BY <1>0, <2>2, SetSpin DEF SpinVals
        <3>2. QED
            BY <2>1, <3>1, Zenon
    <2>4. /\ Len(txs') = Len(txs)
          /\ txs'[LastTx] = WithSpin(txs[LastTx], "spinning")
          /\ \A j \in 1..Len(txs) : j # LastTx => txs'[j] = txs[j]
        BY <1>0, <2>2, <2>3, WithTypes, TxUpdate DEF SpinVals
    <2>5. ReceiptMatches'
        BY <1>0, <2>1, <2>4
        DEF ReportInv, ReceiptMatches, ReceiptAgrees, WithSpin
    <2>6. QED
        BY <1>0, <2>1, <2>5 DEF ConfirmingUnwatched, AwaitedIsLast
<1>4. CASE AwaitMined
    <2>1. /\ phase = "mining"
          /\ txs[LastTx].st = "mined"
          /\ txs' = [txs EXCEPT ![LastTx].spin = SpinnerOutcome(txs[LastTx].status),
                                ![LastTx].awaited = TRUE]
          /\ receipt' = [tx |-> LastTx, status |-> txs[LastTx].status]
          /\ phase' = "ready"
          /\ pc' = pc + 1
        BY <1>4, Zenon DEF AwaitMined, Advance
    <2>2. /\ LastTx \in 1..Len(txs) /\ pc \in 1..Len(Steps)
          /\ Steps[pc].op = "await"
        BY <2>1 DEF ReportInv, TypeInv, TypeOK, LastTx
    <2>3. SpinnerOutcome(txs[LastTx].status) \in SpinVals
        BY DEF SpinnerOutcome, SpinVals
    <2>4. txs' = [txs EXCEPT ![LastTx] =
                    WithSpinAwaited(txs[LastTx], SpinnerOutcome(txs[LastTx].status))]
        <3>1. [txs EXCEPT ![LastTx].spin = SpinnerOutcome(txs[LastTx].status),
                          ![LastTx].awaited = TRUE]
                = [txs EXCEPT ![LastTx] =
                     WithSpinAwaited(txs[LastTx], SpinnerOutcome(txs[LastTx].status))]
            BY <1>0, <2>2, <2>3, SetSpinAwaited
        <3>2. QED
            BY <2>1, <3>1, Zenon
    <2>5. /\ Len(txs') = Len(txs)
          /\ txs'[LastTx] = WithSpinAwaited(txs[LastTx], SpinnerOutcome(txs[LastTx].status))
        <3>0. txs[LastTx] \in Tx
            BY <1>0, <2>2
        <3>1. WithSpinAwaited(txs[LastTx], SpinnerOutcome(txs[LastTx].status)) \in Tx
            BY <3>0, <2>3, WithTypes
        <3>2. QED
            BY <1>0, <2>2, <2>4, <3>1, TxUpdate
    <2>6. ReceiptMatches'
        BY <2>1, <2>2, <2>5 DEF ReceiptMatches, ReceiptAgrees, WithSpinAwaited,
                                SpinnerOutcome, LastTx
    <2>7. AwaitedIsLast'
        BY <2>1, <2>2, <2>5 DEF AwaitedIsLast, LastTx
    <2>8. QED
        BY <1>0, <2>1, <2>6, <2>7 DEF ConfirmingUnwatched
<1>5. CASE AwaitNodeError
    <2>1. phase' = "throwing"
        BY <1>5, Zenon DEF AwaitNodeError
    <2>2. QED
        BY <1>0, <2>1 DEF ReceiptMatches, ConfirmingUnwatched, AwaitedIsLast
<1>6. CASE Return \/ Catch \/ Done \/ CallFails \/ SendFails
           \/ SuccessReverted \/ SuccessNodeError
    <2>1. phase' \in {"throwing", "returned", "exited"}
        BY <1>6, FlagsAssumption
        DEF Return, Catch, Done, CallFails, SendFails, SuccessReverted,
            SuccessNodeError, Throw, vars
    <2>2. QED
        BY <1>0, <2>1 DEF ReceiptMatches, ConfirmingUnwatched, AwaitedIsLast
<1>7. CASE SuccessMined
    <2>1. /\ phase = "confirming"
          /\ txs[LastTx].st = "mined" /\ txs[LastTx].status = 1
          /\ txs' = [txs EXCEPT ![LastTx].awaited = TRUE]
          /\ receipt' = [tx |-> LastTx, status |-> 1]
          /\ phase' = "ready"
          /\ pc' = pc + 1
        BY <1>7, Zenon DEF SuccessMined, Advance
    <2>2. /\ LastTx \in 1..Len(txs) /\ pc \in 1..Len(Steps)
          /\ Steps[pc].op = "sendSuccess"
          /\ txs[LastTx].spin = "none"
        BY <2>1 DEF ReportInv, TypeInv, TypeOK, LastTx, ConfirmingUnwatched
    <2>3. txs' = [txs EXCEPT ![LastTx] = WithAwaited(txs[LastTx])]
        <3>1. [txs EXCEPT ![LastTx].awaited = TRUE]
                = [txs EXCEPT ![LastTx] = WithAwaited(txs[LastTx])]
            BY <1>0, <2>2, SetAwaited
        <3>2. QED
            BY <2>1, <3>1, Zenon
    <2>4. /\ Len(txs') = Len(txs)
          /\ txs'[LastTx] = WithAwaited(txs[LastTx])
        BY <1>0, <2>2, <2>3, WithTypes, TxUpdate
    <2>5. ReceiptMatches'
        BY <2>1, <2>2, <2>4 DEF ReceiptMatches, ReceiptAgrees, WithAwaited, LastTx
    <2>6. AwaitedIsLast'
        BY <2>1, <2>2 DEF AwaitedIsLast
    <2>7. QED
        BY <1>0, <2>1, <2>5, <2>6 DEF ConfirmingUnwatched
<1>8. CASE MineSome
    <2>1. PICK t \in 1..Len(txs) : Mine(t)
        BY <1>8 DEF MineSome
    <2>2. PICK w \in Statuses :
             /\ txs[t].st = "pending"
             /\ txs' = [txs EXCEPT ![t].st = "mined", ![t].status = w]
             /\ UNCHANGED <<pc, phase, receipt>>
        BY <2>1, Zenon DEF Mine
    <2>9. txs[t].st = "pending" /\ UNCHANGED <<pc, phase, receipt>>
        BY <2>2
    <2>3. txs' = [txs EXCEPT ![t] = WithMined(txs[t], w)]
        <3>1. [txs EXCEPT ![t].st = "mined", ![t].status = w]
                = [txs EXCEPT ![t] = WithMined(txs[t], w)]
            BY <1>0, SetMined
        <3>2. QED
            BY <2>2, <3>1, Zenon
    <2>4. /\ Len(txs') = Len(txs)
          /\ txs'[t] = WithMined(txs[t], w)
          /\ \A j \in 1..Len(txs) : j # t => txs'[j] = txs[j]
        <3>0. txs[t] \in Tx /\ w \in StatusVal
            BY <1>0 DEF StatusVal
        <3>1. WithMined(txs[t], w) \in Tx
            BY <3>0, WithTypes
        <3>2. QED
            BY <1>0, <2>3, <3>1, TxUpdate
    <2>5. ReceiptMatches'
        BY <1>0, <2>9, <2>4 DEF ReportInv, ReceiptMatches, ReceiptAgrees
    <2>6. ConfirmingUnwatched'
        BY <1>0, <2>9, <2>4
        DEF ReportInv, ConfirmingUnwatched, TypeInv, LastTx, WithMined
    <2>7. AwaitedIsLast'
        BY <2>9, <2>4 DEF ReportInv, AwaitedIsLast, LastTx
    <2>8. QED
        BY <1>0, <2>5, <2>6, <2>7
<1>9. CASE \E t \in 1..Len(txs) : Drop(t)
    <2>1. PICK t \in 1..Len(txs) : Drop(t)
        BY <1>9
    <2>2. /\ txs[t].st = "pending"
          /\ txs' = [txs EXCEPT ![t].st = "dropped"]
          /\ UNCHANGED <<pc, phase, receipt>>
        BY <2>1, Zenon DEF Drop
    <2>9. txs[t].st = "pending" /\ UNCHANGED <<pc, phase, receipt>>
        BY <2>2
    <2>3. txs' = [txs EXCEPT ![t] = WithDropped(txs[t])]
        <3>1. [txs EXCEPT ![t].st = "dropped"] = [txs EXCEPT ![t] = WithDropped(txs[t])]
            BY <1>0, SetDropped
        <3>2. QED
            BY <2>2, <3>1, Zenon
    <2>4. /\ Len(txs') = Len(txs)
          /\ txs'[t] = WithDropped(txs[t])
          /\ \A j \in 1..Len(txs) : j # t => txs'[j] = txs[j]
        BY <1>0, <2>3, WithTypes, TxUpdate
    <2>5. ReceiptMatches'
        BY <1>0, <2>9, <2>4 DEF ReportInv, ReceiptMatches, ReceiptAgrees
    <2>6. ConfirmingUnwatched'
        <3>1. CASE t = LastTx
            BY <2>9, <2>4, <3>1 DEF ReportInv, ConfirmingUnwatched, LastTx, WithDropped
        <3>2. CASE t # LastTx
            BY <1>0, <2>9, <2>4, <3>2
            DEF ReportInv, ConfirmingUnwatched, TypeInv, LastTx
        <3>3. QED
            BY <3>1, <3>2
    <2>7. AwaitedIsLast'
        BY <2>9, <2>4 DEF ReportInv, AwaitedIsLast, LastTx
    <2>8. QED
        BY <1>0, <2>5, <2>6, <2>7
<1>10. CASE UNCHANGED vars
    BY <1>0, <1>10
    DEF vars, ReportInv, ReceiptMatches, ReceiptAgrees, ConfirmingUnwatched,
        AwaitedIsLast, LastTx
<1>11. QED
    BY <1>1, <1>2, <1>3, <1>4, <1>5, <1>6, <1>7, <1>8, <1>9, <1>10
    DEF Next, Progress, Failure

(* Under ReportInv every step satisfies the printed-report condition: a    *)
(* step that prints is a report step, which comes right after an await of  *)
(* the last hash, so the receipt printTransaction reads is that hash's.    *)
LEMMA ReportStepAgrees == ReportInv /\ [Next]_vars => [PrintedReportAgrees]_vars
<1> SUFFICES ASSUME ReportInv, [Next]_vars PROVE [PrintedReportAgrees]_vars
    OBVIOUS
<1>0. reports \in Seq(ReportRec)
    BY DEF ReportInv, TypeInv, TypeOK
<1>1. CASE PrintTransaction
    <2>1. /\ phase = "ready" /\ pc \in 1..Len(Steps) /\ Steps[pc].op = "report"
          /\ reports' = Append(reports, [tx |-> receipt.tx,
                                         color |-> HeaderColor(receipt.status),
                                         row |-> StatusRow(receipt.status)])
          /\ UNCHANGED txs
        BY <1>1 DEF PrintTransaction, ReportInv, TypeInv, TypeOK, Cur
    <2>2. pc \in 2..(Len(Steps) + 1) /\ Steps[pc - 1].op = "await"
        BY <2>1, StepsAssumption
    <2>3. receipt.tx = LastTx /\ LastTx >= 1
        BY <2>1, <2>2 DEF ReportInv, AwaitedIsLast
    <2>4. ReceiptAgrees(receipt.tx)
        BY <2>1, <2>3 DEF ReportInv, ReceiptMatches
    <2>5. /\ Len(reports') = Len(reports) + 1
          /\ reports'[Len(reports')] = [tx |-> receipt.tx,
                                        color |-> HeaderColor(receipt.status),
                                        row |-> StatusRow(receipt.status)]
        BY <1>0, <2>1, AppendProperties
    <2>6. QED
        BY <2>3, <2>4, <2>5
        DEF PrintedReportAgrees, ReceiptAgrees, HeaderColor, StatusRow
<1>2. UNCHANGED reports \/ UNCHANGED vars \/ PrintTransaction
    <2>1. CASE AwaitStart \/ AwaitMined \/ AwaitNodeError \/ SuccessMined
        BY <2>1, Zenon DEF AwaitStart, AwaitMined, AwaitNodeError, SuccessMined
    <2>2. CASE MineSome \/ \E t \in 1..Len(txs) : Drop(t)
        BY <2>2, Zenon DEF MineSome, Mine, Drop
    <2>3. CASE CallOk \/ CallFails \/ SendOk \/ SendFails \/ SubmitForSuccess
               \/ SuccessReverted \/ SuccessNodeError \/ StopEngine \/ Return
               \/ Catch \/ Done
        BY <2>3 DEF CallOk, CallFails, SendOk, SendFails, SubmitForSuccess,
                    SuccessReverted, SuccessNodeError, StopEngine, Return, Catch,
                    Done, Throw, vars
    <2>4. QED
        BY <2>1, <2>2, <2>3 DEF Next, Progress, Failure
<1>3. CASE UNCHANGED reports \/ UNCHANGED vars
    BY <1>3 DEF PrintedReportAgrees, vars
<1>4. QED
    BY <1>1, <1>2, <1>3

(* Every report printTransaction prints is the report of the hash the     *)
(* script awaited last, that transaction is mined, the banner is green    *)
(* and the row "Success" exactly when the receipt status is 1, and the    *)
(* spinner stopped normally exactly when the banner is green: for every   *)
(* script whose report steps follow their await, and every set of         *)
(* statuses the node may report (print_utils.ts lines 200, 214 and 220).  *)
THEOREM ReportAgreement == Spec => ReportAgreesWithSpinner
BY ReportInit, ReportStep, ReportStepAgrees, PTL DEF Spec, ReportAgreesWithSpinner

=============================================================================
