--------------------------- MODULE ScriptLifecycle ---------------------------
(***************************************************************************)
(* What a script of the starter project promises about its transactions,  *)
(* whatever it reads, signs or prints: it has at most one transaction in  *)
(* flight, submits the next only once the receipt of the previous one has *)
(* been returned to it, and ends either successfully, with nothing in     *)
(* flight, or by failing, at any point.  This is the serialisation the     *)
(* scenarios rely on because they share accounts and their nonces.        *)
(***************************************************************************)
EXTENDS Naturals

VARIABLES
    outcome,  \* "running", then "ok" or "failed"
    sent,     \* how many transactions the script has submitted
    inflight  \* a submitted transaction whose receipt is not yet returned

lvars == <<outcome, sent, inflight>>

LTypeOK ==
    /\ outcome \in {"running", "ok", "failed"}
    /\ sent \in Nat
    /\ inflight \in BOOLEAN

LInit == outcome = "running" /\ sent = 0 /\ inflight = FALSE

(* A transaction is submitted while none is in flight.                    *)
Submit ==
    /\ outcome = "running" /\ ~inflight
    /\ sent' = sent + 1 /\ inflight' = TRUE
    /\ UNCHANGED outcome

(* The receipt of the transaction in flight is returned to the script.    *)
Settle ==
    /\ outcome = "running" /\ inflight
    /\ inflight' = FALSE
    /\ UNCHANGED <<outcome, sent>>

(* The script returns normally, every receipt in hand.                    *)
Succeed ==
    /\ outcome = "running" /\ ~inflight
    /\ outcome' = "ok"
    /\ UNCHANGED <<sent, inflight>>

(* The script fails, possibly with a transaction still in flight.         *)
Fail ==
    /\ outcome = "running"
    /\ outcome' = "failed"
    /\ UNCHANGED <<sent, inflight>>

LNext == Submit \/ Settle \/ Succeed \/ Fail

LSpec == LInit /\ [][LNext]_lvars

=============================================================================
