--------------------------- MODULE SubscribeProofs ---------------------------
(***************************************************************************)
(* Proofs about SubscribeScenario, for every set of fills and every bound  *)
(* on the stream's notices.                                                *)
(***************************************************************************)
EXTENDS SubscribeScenario, SequenceTheorems, TLAPS



(* A log notification, as the stream queues it for fill f.                *)
LEMMA LogNotice ==
    ASSUME NEW f \in Fills, NEW r \in BOOLEAN
    PROVE  [kind |-> "log", fill |-> f, removed |-> r] \in Notice
BY DEF Notice

(* A notification whose kind is "log" names a fill.                       *)
LEMMA LogNoticeFill ==
    ASSUME NEW n \in Notice, n.kind = "log"
    PROVE  n.fill \in Fills
BY DEF Notice

(* What Deliver leaves in the inbox and adds to printed.                  *)
LEMMA DeliverEffect ==
    ASSUME TypeOK, Deliver
    PROVE  /\ Head(inbox) \in Notice
           /\ inbox' = Tail(inbox)
           /\ inbox' \in Seq(Notice)
           /\ Len(inbox') = Len(inbox) - 1
           /\ \A i \in 1..Len(inbox') : inbox'[i] = inbox[i + 1]
           /\ Head(inbox) = inbox[1]
           /\ Head(inbox).kind = "log" =>
                  /\ printed' = Append(printed, Head(inbox).fill)
                  /\ UNCHANGED <<engine, errLogged>>
           /\ Head(inbox).kind = "error" =>
                  /\ engine' = "stopped" /\ errLogged' = TRUE
                  /\ UNCHANGED printed
           /\ Head(inbox).kind = "empty" => UNCHANGED <<engine, printed, errLogged>>
           /\ UNCHANGED <<phase, subscribed, logs, notices, exitCode>>
<1>1. inbox \in Seq(Notice) /\ inbox # << >>
    BY DEF Deliver, TypeOK
<1>2. /\ Head(inbox) \in Notice
      /\ Tail(inbox) \in Seq(Notice)
      /\ Len(Tail(inbox)) = Len(inbox) - 1
      /\ \A i \in 1..Len(Tail(inbox)) : Tail(inbox)[i] = inbox[i + 1]
    BY <1>1, HeadTailProperties
<1>3. Head(inbox) = inbox[1]
    BY <1>1
<1>4. Callback(Head(inbox)) /\ inbox' = Tail(inbox)
      /\ UNCHANGED <<phase, subscribed, logs, notices, exitCode>>
    BY DEF Deliver
<1>5. Head(inbox).kind \in {"log", "error", "empty"}
    BY <1>2 DEF Notice
<1> QED
    BY <1>2, <1>3, <1>4, <1>5 DEF Callback

-----------------------------------------------------------------------------
(* Type correctness.                                                      *)

(* The two Boolean flags, which Zenon handles, and the rest of TypeOK,    *)
(* which needs arithmetic and sequences and so the SMT backend.           *)
TypeFlags == subscribed \in BOOLEAN /\ errLogged \in BOOLEAN

TypeData ==
    /\ phase \in Phases
    /\ engine \in {"running", "stopped"}
    /\ logs \in [Fills -> {"none", "added", "removed"}]
    /\ inbox \in Seq(Notice)
    /\ notices \in 0..MaxNotices
    /\ printed \in Seq(Fills)
    /\ exitCode \in {0, 1}

LEMMA TypeSplit == TypeOK <=> TypeFlags /\ TypeData
BY Zenon DEF TypeOK, TypeFlags, TypeData

LEMMA TypeInit == Init => TypeOK
<1> SUFFICES ASSUME Init PROVE TypeOK
    OBVIOUS
<1>1. TypeFlags
    BY Zenon DEF Init, TypeFlags
<1>2. TypeData
    BY SubscribeAssumption DEF Init, TypeData, Phases
<1> QED
    BY <1>1, <1>2, TypeSplit

(* No action sets a flag to anything but TRUE or leaves it alone.         *)
LEMMA FlagsStep == TypeFlags /\ [Next]_vars => TypeFlags'
BY Zenon DEF TypeFlags, Next, vars, MigrateOk, MigrateFails, Subscribe, SubscribeFails,
             Catch, Deliver, Callback, AddLog, RemoveLog, StreamNotice, Done

LEMMA DataStep == TypeOK /\ [Next]_vars => TypeData'
<1> SUFFICES ASSUME TypeOK, [Next]_vars PROVE TypeData'
    OBVIOUS
<1>1. CASE MigrateOk \/ MigrateFails \/ Subscribe \/ SubscribeFails \/ Catch
    BY <1>1 DEF MigrateOk, MigrateFails, Subscribe, SubscribeFails, Catch, TypeOK, TypeData, Phases
<1>2. CASE Deliver
    <2>0. /\ Head(inbox).kind = "log" =>
                  /\ printed' = Append(printed, Head(inbox).fill)
                  /\ UNCHANGED <<engine, errLogged>>
          /\ Head(inbox).kind = "error" =>
                  /\ engine' = "stopped" /\ errLogged' = TRUE
                  /\ UNCHANGED printed
          /\ Head(inbox).kind = "empty" => UNCHANGED <<engine, printed, errLogged>>
          /\ inbox' \in Seq(Notice)
          /\ UNCHANGED <<phase, subscribed, logs, notices, exitCode>>
        BY <1>2, DeliverEffect
    <2>1. Head(inbox) \in Notice /\ Head(inbox).kind \in {"log", "error", "empty"}
        <3>1. Head(inbox) \in Notice
            BY <1>2, DeliverEffect
        <3> QED
            BY <3>1 DEF Notice
    <2>2. printed' \in Seq(Fills) /\ engine' \in {"running", "stopped"}
        <3>1. CASE Head(inbox).kind = "log"
            <4>1. Head(inbox).fill \in Fills
                BY <2>1, <3>1, LogNoticeFill
            <4>2. Append(printed, Head(inbox).fill) \in Seq(Fills)
                BY <4>1, AppendProperties DEF TypeOK
            <4> QED
                BY <2>0, <3>1, <4>2 DEF TypeOK
        <3>2. CASE Head(inbox).kind # "log"
            BY <2>0, <2>1, <3>2 DEF TypeOK
        <3> QED
            BY <3>1, <3>2
    <2> QED
        BY <2>0, <2>2 DEF TypeOK, TypeData
<1>3. ASSUME NEW f \in Fills, AddLog(f) \/ RemoveLog(f)
      PROVE  TypeData'
    <2>1. /\ [kind |-> "log", fill |-> f, removed |-> FALSE] \in Notice
          /\ [kind |-> "log", fill |-> f, removed |-> TRUE] \in Notice
        BY LogNotice
    <2>2. logs' \in [Fills -> {"none", "added", "removed"}]
        BY <1>3 DEF AddLog, RemoveLog, TypeOK
    <2>3. inbox' \in Seq(Notice)
        <3>1. CASE subscribed
            <4>1. /\ Append(inbox, [kind |-> "log", fill |-> f, removed |-> FALSE]) \in Seq(Notice)
                  /\ Append(inbox, [kind |-> "log", fill |-> f, removed |-> TRUE]) \in Seq(Notice)
                BY <2>1, AppendProperties DEF TypeOK
            <4> QED
                BY <1>3, <3>1, <4>1 DEF AddLog, RemoveLog, Queue
        <3>2. CASE ~subscribed
            BY <1>3, <3>2 DEF AddLog, RemoveLog, Queue, TypeOK
        <3> QED
            BY <3>1, <3>2
    <2>4. UNCHANGED <<phase, engine, notices, printed, exitCode>>
        BY <1>3 DEF AddLog, RemoveLog
    <2> QED
        BY <2>2, <2>3, <2>4 DEF TypeOK, TypeData
<1>4. CASE StreamNotice
    <2>1. \A k \in {"error", "empty"} : [kind |-> k] \in Notice
        BY DEF Notice
    <2> QED
        BY <1>4, <2>1, SubscribeAssumption DEF StreamNotice, TypeOK, TypeData
<1>5. CASE Done \/ UNCHANGED vars
    BY <1>5 DEF Done, vars, TypeOK, TypeData
<1> QED
    BY <1>1, <1>2, <1>3, <1>4, <1>5 DEF Next

LEMMA TypeStep == TypeOK /\ [Next]_vars => TypeOK'
<1> SUFFICES ASSUME TypeOK, [Next]_vars PROVE TypeOK'
    OBVIOUS
<1>1. TypeFlags'
    BY FlagsStep, TypeSplit
<1>2. TypeData'
    BY DataStep
<1> QED
    BY <1>1, <1>2, Zenon DEF TypeOK, TypeFlags, TypeData

(* Every reachable state of the subscribe scenario is well typed: the     *)
(* callback prints only fills, and the stream queues only notifications   *)
(* the callback's three branches handle.                                  *)
THEOREM SubscribeTypeCorrect == Spec => []TypeOK
BY TypeInit, TypeStep, PTL DEF Spec


=============================================================================
