--------------------------- MODULE MCScenarioRun ---------------------------
(* ScenarioRun instantiated with the scripts of module Scenarios.         *)
EXTENDS ScenarioRun, Scenarios

CONSTANT NullStatusValue

(* A node can report status 1, status 0 or no status at all.              *)
MCStatuses == {0, 1, NullStatusValue}
(* The long all.ts run: status 1 only (see README).                       *)
MCStatusesOk == {1}
=============================================================================
