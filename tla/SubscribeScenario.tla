-------------------------- MODULE SubscribeScenario --------------------------
(***************************************************************************)
(* scenarios/exchange_proxy_subscribe.ts: the script runs the migrations,  *)
(* registers a callback for the exchange proxy's RfqOrderFilled events and *)
(* returns; from then on the contract wrapper's log stream calls the       *)
(* callback with an error, with a decoded log event, or with neither.     *)
(*                                                                         *)
(* The chain is the environment: a fill's log is added to a block, and on *)
(* a network with reorganisations a block carrying it may be dropped, so  *)
(* the log is removed again.  While the callback is registered the stream *)
(* queues a notification for each change, in order, and may report an     *)
(* error from its block polling.  Nothing in the script ever unsubscribes. *)
(***************************************************************************)
EXTENDS Naturals, Sequences

CONSTANTS
    Fills,       \* the fill events other parties may make (model values)
    NoEvent,     \* the callback's decodedLogEvent argument left undefined
    MaxNotices,  \* bound on the errors and empty notifications of the stream
    AllowReorg   \* TRUE when the network may drop a block with a fill in it

ASSUME SubscribeAssumption ==
    /\ NoEvent \notin Fills
    /\ MaxNotices \in Nat
    /\ AllowReorg \in BOOLEAN

VARIABLES
    phase,       \* where the script is
    engine,      \* the provider engine: "running" or "stopped"
    subscribed,  \* the callback is registered with the log stream
    logs,        \* the state of each fill's log on chain
    inbox,       \* notifications queued by the stream, not yet called back
    notices,     \* errors and empty notifications the stream has queued
    printed,     \* the fills printed by the callback, in order
    errLogged,   \* the callback has logged an error ('error:', err)
    exitCode     \* process.exitCode

vars == <<phase, engine, subscribed, logs, inbox, notices, printed, errLogged, exitCode>>

Phases == {"migrating", "subscribing", "throwing", "returned", "exited"}

(* A notification: a log event (isRemoved as the wrapper reports it), an  *)
(* error, or a call with neither argument set.                            *)
Notice == [kind : {"log"}, fill : Fills, removed : BOOLEAN]
          \cup [kind : {"error", "empty"}]

TypeOK ==
    /\ phase \in Phases
    /\ engine \in {"running", "stopped"}
    /\ subscribed \in BOOLEAN
    /\ logs \in [Fills -> {"none", "added", "removed"}]
    /\ inbox \in Seq(Notice)
    /\ notices \in 0..MaxNotices
    /\ printed \in Seq(Fills)
    /\ errLogged \in BOOLEAN
    /\ exitCode \in {0, 1}

(* The engine is started when provider_engine.ts is loaded.               *)
Init ==
    /\ phase = "migrating"
    /\ engine = "running"
    /\ subscribed = FALSE
    /\ logs = [f \in Fills |-> "none"]
    /\ inbox = << >>
    /\ notices = 0
    /\ printed = << >>
    /\ errLogged = FALSE
    /\ exitCode = 0

-----------------------------------------------------------------------------
(* The script.                                                            *)

(* runMigrationsOnceIfRequiredAsync (utils.ts): the owner's address is    *)
(* read and the migrations run once on Ganache; the await resolves ...    *)
MigrateOk ==
    /\ phase = "migrating"
    /\ phase' = "subscribing"
    /\ UNCHANGED <<engine, subscribed, logs, inbox, notices, printed, errLogged, exitCode>>

(* ... or rejects.                                                        *)
MigrateFails ==
    /\ phase = "migrating"
    /\ phase' = "throwing"
    /\ UNCHANGED <<engine, subscribed, logs, inbox, notices, printed, errLogged, exitCode>>

(* The wrappers are built and the callback registered; subscribe returns  *)
(* synchronously and so does the rest of scenarioAsync, which resolves.   *)
Subscribe ==
    /\ phase = "subscribing"
    /\ subscribed' = TRUE
    /\ phase' = "returned"
    /\ UNCHANGED <<engine, logs, inbox, notices, printed, errLogged, exitCode>>

(* Building the wrappers or registering the callback throws.              *)
SubscribeFails ==
    /\ phase = "subscribing"
    /\ phase' = "throwing"
    /\ UNCHANGED <<engine, subscribed, logs, inbox, notices, printed, errLogged, exitCode>>

(* The top-level catch: log, providerEngine.stop(), process.exit(1).      *)
Catch ==
    /\ phase = "throwing"
    /\ engine' = "stopped"
    /\ exitCode' = 1
    /\ phase' = "exited"
    /\ UNCHANGED <<subscribed, logs, inbox, notices, printed, errLogged>>

(* Mutant: the event branch without its decodedLogEvent guard.            *)
CallbackNoEventGuard(n) ==
    IF n.kind = "error"
      THEN engine' = "stopped" /\ errLogged' = TRUE /\ UNCHANGED printed
      ELSE printed' = Append(printed, IF n.kind = "log" THEN n.fill ELSE NoEvent)
           /\ UNCHANGED <<engine, errLogged>>

(* The callback: on an error it logs it and stops the engine; given a     *)
(* decoded event it prints the fill's arguments; otherwise it does        *)
(* nothing.  isRemoved is not looked at.                                  *)
Callback(n) ==
    IF n.kind = "error"
      THEN engine' = "stopped" /\ errLogged' = TRUE /\ UNCHANGED printed
      ELSE IF n.kind = "log"
             THEN printed' = Append(printed, n.fill) /\ UNCHANGED <<engine, errLogged>>
             ELSE UNCHANGED <<engine, printed, errLogged>>

(* The event loop runs the callback for the oldest queued notification,  *)
(* unless process.exit has ended the process.                            *)
Deliver ==
    /\ phase # "exited"
    /\ inbox # << >>
    /\ Callback(Head(inbox))
    /\ inbox' = Tail(inbox)
    /\ UNCHANGED <<phase, subscribed, logs, notices, exitCode>>

-----------------------------------------------------------------------------
(* The chain and the log stream.                                          *)

(* A notification is queued only while the callback is registered.        *)
Queue(n) == IF subscribed THEN Append(inbox, n) ELSE inbox

(* Fill f is mined: its log is added.                                     *)
AddLog(f) ==
    /\ logs[f] = "none"
    /\ logs' = [logs EXCEPT ![f] = "added"]
    /\ inbox' = Queue([kind |-> "log", fill |-> f, removed |-> FALSE])
    /\ UNCHANGED <<phase, engine, subscribed, notices, printed, errLogged, exitCode>>

(* The block holding f's log is dropped by a reorganisation.              *)
RemoveLog(f) ==
    /\ AllowReorg
    /\ logs[f] = "added"
    /\ logs' = [logs EXCEPT ![f] = "removed"]
    /\ inbox' = Queue([kind |-> "log", fill |-> f, removed |-> TRUE])
    /\ UNCHANGED <<phase, engine, subscribed, notices, printed, errLogged, exitCode>>

(* The stream's polling fails, or calls back with neither argument.       *)
StreamNotice ==
    /\ subscribed /\ notices < MaxNotices
    /\ \E k \in {"error", "empty"} : inbox' = Append(inbox, [kind |-> k])
    /\ notices' = notices + 1
    /\ UNCHANGED <<phase, engine, subscribed, logs, printed, errLogged, exitCode>>

Done ==
    /\ phase \in {"returned", "exited"}
    /\ UNCHANGED vars

Next ==
    \/ MigrateOk \/ MigrateFails \/ Subscribe \/ SubscribeFails \/ Catch
    \/ Deliver
    \/ \E f \in Fills : AddLog(f) \/ RemoveLog(f)
    \/ StreamNotice
    \/ Done

Spec == Init /\ [][Next]_vars

-----------------------------------------------------------------------------
(* Properties.                                                            *)

(* Every fill the callback prints as "Rfq Order Filled Event" is printed  *)
(* once: a fill is not reported twice to the reader of the console.       *)
NoFillPrintedTwice ==
    \A i, j \in 1..Len(printed) : i # j => printed[i] # printed[j]

=============================================================================
