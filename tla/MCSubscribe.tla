----------------------------- MODULE MCSubscribe -----------------------------
(* SubscribeScenario with two fills by other parties and at most two      *)
(* errors or empty notifications from the stream.                         *)
EXTENDS SubscribeScenario

CONSTANTS f1, f2

MCFills == {f1, f2}

=============================================================================
