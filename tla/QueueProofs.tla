----------------------------- MODULE QueueProofs -----------------------------
(***************************************************************************)
(* What TaskQueue guarantees for every number of jobs, slots and waiting   *)
(* places, and the gate of a host for every gap, every pause and every     *)
(* number of requests.  QueueInv is inductive, and each safety property of *)
(* TaskQueue follows from it.  The gate uses its queue as the queue was     *)
(* designed, so what is proved of the queue holds in the gate; from that   *)
(* follows that one request at a time is on the way, and from that the     *)
(* spacing of requests.                                                    *)
(***************************************************************************)
EXTENDS HostGate, FiniteSetTheorems, TLAPS


-----------------------------------------------------------------------------
(* Sets of jobs are finite; adding and removing one changes the size by one *)
(* at most.                                                                 *)
LEMMA JobSets ==
    ASSUME NEW S \in SUBSET Jobs
    PROVE  IsFiniteSet(S) /\ Cardinality(S) \in Nat
BY QueueAssumption, FS_Subset, FS_CardinalityType

LEMMA AddJob ==
    ASSUME NEW S \in SUBSET Jobs, NEW j \in Jobs, j \notin S
    PROVE  Cardinality(S \cup {j}) = Cardinality(S) + 1
BY JobSets, FS_AddElement

LEMMA RemoveJob ==
    ASSUME NEW S \in SUBSET Jobs, NEW j \in Jobs
    PROVE  /\ Cardinality(S \ {j}) <= Cardinality(S)
           /\ j \in S => Cardinality(S \ {j}) = Cardinality(S) - 1
BY JobSets, FS_RemoveElement

(* If the queue does not take its oldest waiter, the burst grows by one.   *)
LEMMA PassingOverCounts ==
    ASSUME TypeOK, NEW j \in Jobs, Selected(j), ~Oldest(j), BurstBound
    PROVE  BurstAfter(j) = burst + 1 /\ burst < PriorityBurst
<1>1. burst < PriorityBurst
  BY QueueAssumption DEF Selected, TypeOK
<1>2. PICK k \in waiting \ {j} : ~(seqNo[j] < seqNo[k])
  BY DEF Oldest
<1>3. Ahead(j, k)
  BY <1>1, <1>2, QueueAssumption DEF Selected, TypeOK
<1>4. prio[k] < prio[j]
  BY <1>2, <1>3 DEF Ahead, TypeOK, Priorities
<1> QED
  BY <1>1, <1>2, <1>4, QueueAssumption DEF BurstAfter, TypeOK

(* No selection takes the burst beyond its bound.                          *)
LEMMA BurstAfterBound ==
    ASSUME TypeOK, BurstBound, NEW j \in Jobs
    PROVE  BurstAfter(j) \in Nat /\ BurstAfter(j) <= PriorityBurst
BY QueueAssumption DEF BurstAfter, BurstBound, TypeOK

-----------------------------------------------------------------------------
LEMMA QueueInvInit == Init => QueueInv
<1> SUFFICES ASSUME Init PROVE QueueInv
  OBVIOUS
<1>1. Cardinality({}) = 0
  BY FS_EmptySet
<1>2. TypeOK
  <2>1. /\ stage \in [Jobs -> Stages] /\ outcome \in [Jobs -> Outcomes]
        /\ prio \in [Jobs -> Priorities] /\ seqNo \in [Jobs -> Nat]
    BY DEF Init, Stages, Outcomes, Settled, Cancelled, Priorities
  <2>2. /\ waiting \subseteq Jobs /\ running \subseteq Jobs /\ overdue \subseteq Jobs
        /\ sequence \in Nat /\ burst \in Nat /\ bypassed \in Nat
    BY DEF Init
  <2>3. /\ closed \in BOOLEAN /\ wake \in BOOLEAN /\ draining \in BOOLEAN
        /\ ready \in BOOLEAN
    BY DEF Init
  <2> QED
    BY <2>1, <2>2, <2>3 DEF TypeOK
<1>3. Budget
  BY <1>1, QueueAssumption DEF Init, Budget, Capacity
<1> QED
  BY <1>2, <1>3, QueueAssumption
  DEF Init, QueueInv, SlotStage, Places, Answered, BurstBound, Quiet, NoStrandedWork, CanTake

USE DEF Settled, Cancelled, Outcomes, Stages, Priorities

LEMMA TypeStep == TypeOK /\ [Next]_queueVars => TypeOK'
<1> SUFFICES ASSUME TypeOK, [Next]_queueVars PROVE TypeOK'
  OBVIOUS
<1> USE QueueAssumption
<1>1. CASE DrainStop
  BY <1>1 DEF TypeOK, DrainStop
<1>2. CASE DrainWait
  BY <1>2 DEF TypeOK, DrainWait
<1>3. ASSUME NEW j \in Jobs, DrainTake(j) PROVE TypeOK'
  <2>1. BurstAfter(j) \in Nat
    BY DEF BurstAfter, TypeOK
  <2>2. bypassed' \in Nat /\ burst' \in Nat
    BY <1>3, <2>1 DEF TypeOK, DrainTake
  <2>3. /\ waiting' \subseteq Jobs /\ running' \subseteq Jobs
        /\ stage' \in [Jobs -> Stages] /\ outcome' \in [Jobs -> Outcomes]
    BY <1>3 DEF TypeOK, DrainTake
  <2>4. /\ closed' \in BOOLEAN /\ wake' \in BOOLEAN /\ draining' \in BOOLEAN
        /\ UNCHANGED <<prio, seqNo, sequence, overdue, ready>>
    BY <1>3 DEF TypeOK, DrainTake
  <2> QED
    BY <2>2, <2>3, <2>4 DEF TypeOK
<1>4. CASE WakeTimer
  BY <1>4 DEF TypeOK, WakeTimer
<1>5. CASE Close
  BY <1>5 DEF TypeOK, Close
<1>6. CASE Reopen
  BY <1>6 DEF TypeOK, Reopen
<1>7. CASE BecomeReady \/ BecomeUnready
  BY <1>7 DEF TypeOK, BecomeReady, BecomeUnready
<1>8. ASSUME NEW j \in Jobs, Refuse(j) PROVE TypeOK'
  BY <1>8 DEF TypeOK, Refuse, Reject
<1>9. ASSUME NEW j \in Jobs, NEW p \in Roles, Admit(j, p) PROVE TypeOK'
  BY <1>9 DEF TypeOK, Admit
<1>10. ASSUME NEW j \in Jobs, NEW p \in Roles, Promote(j, p) PROVE TypeOK'
  BY <1>10 DEF TypeOK, Promote
<1>11. ASSUME NEW j \in Jobs, NEW why \in Cancelled, Cancel(j, why) PROVE TypeOK'
  BY <1>11 DEF TypeOK, Cancel
<1>12. ASSUME NEW j \in Jobs, DeadlinePasses(j) PROVE TypeOK'
  BY <1>12 DEF TypeOK, DeadlinePasses
<1>13. ASSUME NEW j \in Jobs, Begin(j) PROVE TypeOK'
  BY <1>13 DEF TypeOK, Begin
<1>14. ASSUME NEW j \in Jobs, NEW a \in {"value", "error"}, Settle(j, a)
       PROVE TypeOK'
  BY <1>14 DEF TypeOK, Settle
<1>15. ASSUME NEW j \in Jobs, Release(j) PROVE TypeOK'
  BY <1>15 DEF TypeOK, Release
<1>16. CASE UNCHANGED queueVars
  BY <1>16 DEF TypeOK, queueVars
<1> QED
  BY <1>1, <1>2, <1>3, <1>4, <1>5, <1>6, <1>7, <1>8, <1>9, <1>10, <1>11,
     <1>12, <1>13, <1>14, <1>15, <1>16
  DEF Next, Drain, ReaderAborts, DeadlineTimer, Producer

-----------------------------------------------------------------------------
LEMMA SlotStageStep == TypeOK /\ SlotStage /\ [Next]_queueVars => SlotStage'
<1> SUFFICES ASSUME TypeOK, SlotStage, [Next]_queueVars PROVE SlotStage'
  OBVIOUS
<1>1. ASSUME NEW j \in Jobs, DrainTake(j) PROVE SlotStage'
  BY <1>1 DEF TypeOK, SlotStage, DrainTake
<1>2. ASSUME NEW j \in Jobs, Begin(j) PROVE SlotStage'
  BY <1>2 DEF TypeOK, SlotStage, Begin
<1>3. ASSUME NEW j \in Jobs, NEW a \in {"value", "error"}, Settle(j, a)
      PROVE SlotStage'
  BY <1>3 DEF TypeOK, SlotStage, Settle
<1>4. ASSUME NEW j \in Jobs, Release(j) PROVE SlotStage'
  BY <1>4 DEF TypeOK, SlotStage, Release
<1>5. CASE UNCHANGED <<running, stage>>
  BY <1>5 DEF SlotStage
<1> QED
  BY <1>1, <1>2, <1>3, <1>4, <1>5
  DEF Next, Drain, DrainStop, DrainWait, WakeTimer, Close, Reopen, BecomeReady,
      BecomeUnready, Refuse, Reject, Admit, Promote, ReaderAborts,
      DeadlineTimer, Cancel, DeadlinePasses, Producer, queueVars

LEMMA AnsweredStep ==
    TypeOK /\ SlotStage /\ Places /\ Answered /\ [Next]_queueVars => Answered'
<1> SUFFICES ASSUME TypeOK, SlotStage, Places, Answered, [Next]_queueVars
             PROVE Answered'
  OBVIOUS
<1>1. ASSUME NEW j \in Jobs, DrainTake(j) PROVE Answered'
  BY <1>1 DEF TypeOK, Answered, DrainTake
<1>2. ASSUME NEW j \in Jobs, Begin(j) PROVE Answered'
  BY <1>2 DEF TypeOK, Answered, Begin
<1>3. ASSUME NEW j \in Jobs, NEW a \in {"value", "error"}, Settle(j, a)
      PROVE Answered'
  BY <1>3 DEF TypeOK, Answered, Settle
<1>4. ASSUME NEW j \in Jobs, Release(j) PROVE Answered'
  BY <1>4 DEF TypeOK, Answered, Release
<1>5. ASSUME NEW j \in Jobs, NEW why \in Cancelled, Cancel(j, why) PROVE Answered'
  BY <1>5 DEF TypeOK, Answered, Cancel
<1>6. ASSUME NEW j \in Jobs, Refuse(j) PROVE Answered'
  BY <1>6 DEF TypeOK, Answered, Refuse, Reject
<1>7. ASSUME NEW j \in Jobs, NEW p \in Roles, Admit(j, p) PROVE Answered'
  BY <1>7 DEF TypeOK, SlotStage, Places, Answered, Admit
<1>8. CASE Close
  BY <1>8 DEF TypeOK, Answered, Close
<1>9. CASE UNCHANGED <<outcome, stage>>
  BY <1>9 DEF Answered
<1> QED
  BY <1>1, <1>2, <1>3, <1>4, <1>5, <1>6, <1>7, <1>8, <1>9
  DEF Next, Drain, DrainStop, DrainWait, WakeTimer, Reopen, BecomeReady,
      BecomeUnready, Promote, ReaderAborts, DeadlineTimer, DeadlinePasses,
      Producer, queueVars

(* Release is the only step that frees a slot: Places survives it because  *)
(* a settling producer has answered its reader.                            *)
LEMMA PlacesStep ==
    TypeOK /\ SlotStage /\ Places /\ Answered /\ [Next]_queueVars => Places'
<1> SUFFICES ASSUME TypeOK, SlotStage, Places, Answered, [Next]_queueVars
             PROVE Places'
  OBVIOUS
<1>1. ASSUME NEW j \in Jobs, DrainTake(j) PROVE Places'
  <2>1. j \in waiting /\ outcome[j] = "pending" /\ j \notin running
    BY <1>1 DEF DrainTake, Selected, Places
  <2>2. CASE j \in overdue
    BY <1>1, <2>1, <2>2 DEF TypeOK, Places, DrainTake
  <2>3. CASE j \notin overdue
    BY <1>1, <2>1, <2>3 DEF TypeOK, Places, DrainTake
  <2> QED
    BY <2>2, <2>3
<1>2. ASSUME NEW j \in Jobs, NEW a \in {"value", "error"}, Settle(j, a)
      PROVE Places'
  <2>1. j \in running
    BY <1>2 DEF SlotStage, Settle
  <2> QED
    BY <1>2, <2>1 DEF TypeOK, Places, Settle
<1>3. ASSUME NEW j \in Jobs, Release(j) PROVE Places'
  BY <1>3 DEF TypeOK, Places, Answered, Release
<1>4. ASSUME NEW j \in Jobs, NEW why \in Cancelled, Cancel(j, why) PROVE Places'
  BY <1>4 DEF TypeOK, Places, Cancel
<1>5. ASSUME NEW j \in Jobs, Refuse(j) PROVE Places'
  BY <1>5 DEF TypeOK, Places, Refuse, Reject
<1>6. ASSUME NEW j \in Jobs, NEW p \in Roles, Admit(j, p) PROVE Places'
  BY <1>6 DEF TypeOK, Places, Admit
<1>7. CASE Close
  BY <1>7 DEF TypeOK, Places, Close
<1>8. CASE UNCHANGED <<waiting, running, outcome>>
  BY <1>8 DEF Places
<1> QED
  BY <1>1, <1>2, <1>3, <1>4, <1>5, <1>6, <1>7, <1>8
  DEF Next, Drain, DrainStop, DrainWait, WakeTimer, Reopen, BecomeReady,
      BecomeUnready, Promote, ReaderAborts, DeadlineTimer, DeadlinePasses,
      Producer, Begin, queueVars

LEMMA BudgetStep ==
    TypeOK /\ Places /\ Budget /\ [Next]_queueVars => Budget'
<1> SUFFICES ASSUME TypeOK, Places, Budget, [Next]_queueVars PROVE Budget'
  OBVIOUS
<1> USE QueueAssumption
<1>0. /\ Cardinality(running) \in Nat /\ Cardinality(waiting) \in Nat
      /\ Capacity \in Nat
  BY JobSets DEF TypeOK, Capacity
<1>1. ASSUME NEW j \in Jobs, DrainTake(j) PROVE Budget'
  <2>1. Cardinality(waiting') = Cardinality(waiting) - 1
    BY <1>1, RemoveJob DEF TypeOK, DrainTake, Selected
  <2>2. CASE running' = running \cup {j}
    <3>1. Cardinality(running') = Cardinality(running) + 1
      BY <1>1, <2>2, AddJob DEF TypeOK, Places, DrainTake, Selected
    <3>2. Cardinality(running) < MaxActive
      BY <1>1 DEF DrainTake, CanTake
    <3> QED
      BY <1>0, <2>1, <3>1, <3>2 DEF Budget, Capacity
  <2>3. CASE running' = running
    BY <1>0, <2>1, <2>3 DEF Budget, Capacity
  <2> QED
    BY <1>1, <2>2, <2>3 DEF DrainTake
<1>2. ASSUME NEW j \in Jobs, Release(j) PROVE Budget'
  <2>1. waiting' = waiting /\ running' = running \ {j}
    BY <1>2 DEF Release
  <2>2. Cardinality(running \ {j}) <= Cardinality(running)
    BY RemoveJob DEF TypeOK
  <2>3. Cardinality(running \ {j}) \in Nat
    BY JobSets DEF TypeOK
  <2> QED
    BY <1>0, <2>1, <2>2, <2>3 DEF Budget, Capacity
<1>3. ASSUME NEW j \in Jobs, NEW why \in Cancelled, Cancel(j, why) PROVE Budget'
  <2>1. waiting' = waiting \ {j} /\ running' = running
    BY <1>3 DEF Cancel
  <2>2. Cardinality(waiting \ {j}) <= Cardinality(waiting)
    BY RemoveJob DEF TypeOK
  <2>3. Cardinality(waiting \ {j}) \in Nat
    BY JobSets DEF TypeOK
  <2> QED
    BY <1>0, <2>1, <2>2, <2>3 DEF Budget, Capacity
<1>4. ASSUME NEW j \in Jobs, NEW p \in Roles, Admit(j, p) PROVE Budget'
  <2>1. waiting' = waiting \cup {j} /\ running' = running /\ ~Full
    BY <1>4 DEF Admit
  <2>2. Cardinality(waiting') = Cardinality(waiting) + 1
    BY <1>4, <2>1, AddJob DEF TypeOK, Places, Admit
  <2> QED
    BY <1>0, <2>1, <2>2 DEF Budget, Capacity, Full
<1>5. CASE Close
  <2>1. Cardinality(waiting') = 0 /\ running' = running
    BY <1>5, FS_EmptySet DEF Close
  <2> QED
    BY <1>0, <2>1 DEF Budget, Capacity
<1>6. CASE UNCHANGED <<waiting, running>>
  BY <1>6 DEF Budget, Capacity
<1> QED
  BY <1>1, <1>2, <1>3, <1>4, <1>5, <1>6
  DEF Next, Drain, DrainStop, DrainWait, WakeTimer, Reopen, BecomeReady,
      BecomeUnready, Refuse, Reject, Promote, ReaderAborts, DeadlineTimer,
      DeadlinePasses, Producer, Begin, Settle, queueVars

LEMMA BurstStep == TypeOK /\ BurstBound /\ [Next]_queueVars => BurstBound'
<1> SUFFICES ASSUME TypeOK, BurstBound, [Next]_queueVars PROVE BurstBound'
  OBVIOUS
<1>1. ASSUME NEW j \in Jobs, DrainTake(j) PROVE BurstBound'
  <2>1. burst' = BurstAfter(j) /\ BurstAfter(j) \in Nat
        /\ BurstAfter(j) <= PriorityBurst
    BY <1>1, BurstAfterBound DEF DrainTake
  <2>2. CASE Oldest(j)
    BY <1>1, <2>1, <2>2 DEF BurstBound, DrainTake
  <2>3. CASE ~Oldest(j)
    <3>1. BurstAfter(j) = burst + 1
      BY <1>1, <2>3, PassingOverCounts DEF DrainTake
    <3>2. bypassed' = bypassed + 1
      BY <1>1, <2>3 DEF DrainTake
    <3> QED
      BY <2>1, <3>1, <3>2 DEF BurstBound, TypeOK
  <2> QED
    BY <2>2, <2>3
<1>2. CASE UNCHANGED <<burst, bypassed>>
  BY <1>2 DEF BurstBound
<1> QED
  BY <1>1, <1>2
  DEF Next, Drain, DrainStop, DrainWait, WakeTimer, Close, Reopen, BecomeReady,
      BecomeUnready, Refuse, Reject, Admit, Promote, ReaderAborts,
      DeadlineTimer, Cancel, DeadlinePasses, Producer, Begin, Settle, Release,
      queueVars

LEMMA QuietStep ==
    TypeOK /\ Places /\ Quiet /\ [Next]_queueVars => Quiet'
<1> SUFFICES ASSUME TypeOK, Places, Quiet, [Next]_queueVars, closed' PROVE Quiet'
  BY DEF Quiet
<1>1. CASE Close
  <2>1. waiting' = {} /\ ~wake'
    BY <1>1 DEF Close
  <2>2. \A j \in Jobs : outcome'[j] # "pending"
    BY <1>1 DEF TypeOK, Places, Close
  <2> QED
    BY <2>1, <2>2 DEF Quiet
<1>2. ASSUME closed' = closed PROVE Quiet'
  <2>0. waiting = {} /\ ~wake /\ \A j \in Jobs : outcome[j] # "pending"
    BY <1>2 DEF Quiet
  <2>1. CASE DrainStop
    BY <2>0, <2>1 DEF Quiet, DrainStop
  <2>2. ASSUME NEW j \in Jobs, Refuse(j) PROVE Quiet'
    <3>0. UNCHANGED <<waiting, wake>>
      BY <2>2 DEF Refuse, Reject
    <3>1. waiting' = {} /\ ~wake'
      BY <2>0, <3>0
    <3>2. \A k \in Jobs : outcome'[k] # "pending"
      BY <2>0, <2>2 DEF TypeOK, Refuse, Reject
    <3> QED
      BY <3>1, <3>2 DEF Quiet
  <2>3. ASSUME NEW j \in Jobs, NEW a \in {"value", "error"}, Settle(j, a)
        PROVE Quiet'
    <3>1. waiting' = {} /\ ~wake'
      BY <2>0, <2>3 DEF Settle
    <3>2. \A k \in Jobs : outcome'[k] # "pending"
      BY <2>0, <2>3 DEF TypeOK, Settle
    <3> QED
      BY <3>1, <3>2 DEF Quiet
  <2>4. CASE UNCHANGED <<waiting, wake, outcome>>
    BY <2>0, <2>4 DEF Quiet
  <2>5. ~DrainWait /\ ~WakeTimer
    BY <1>2, <2>0 DEF DrainWait, CanTake, WakeTimer
  <2>6. ASSUME NEW j \in Jobs PROVE ~DrainTake(j)
    BY <2>0 DEF DrainTake, Selected
  <2>7. ASSUME NEW j \in Jobs, NEW p \in Roles
        PROVE ~Admit(j, p) /\ ~Promote(j, p)
    BY <1>2, <2>0 DEF Admit, Promote
  <2>8. ASSUME NEW j \in Jobs, NEW why \in Cancelled PROVE ~Cancel(j, why)
    BY <2>0 DEF Cancel
  <2>9. ~Close
    BY <1>2 DEF Close
  <2> QED
    BY <2>1, <2>2, <2>3, <2>4, <2>5, <2>6, <2>7, <2>8, <2>9, <1>2
    DEF Next, Drain, Reopen, BecomeReady, BecomeUnready, ReaderAborts,
        DeadlineTimer, DeadlinePasses, Producer, Begin, Release, queueVars
<1>3. CASE Reopen
  BY <1>3 DEF Reopen
<1> QED
  BY <1>1, <1>2, <1>3
  DEF Next, Drain, DrainStop, DrainWait, DrainTake, WakeTimer, BecomeReady,
      BecomeUnready, Refuse, Reject, Admit, Promote, ReaderAborts,
      DeadlineTimer, Cancel, DeadlinePasses, Producer, Begin, Settle, Release,
      queueVars

(* A callback either ends in drain() or leaves the list, the slots and     *)
(* "closed" alone; drain() ends with nothing to take or with a timer.      *)
LEMMA StrandStep ==
    TypeOK /\ NoStrandedWork /\ [Next]_queueVars => NoStrandedWork'
<1> SUFFICES ASSUME TypeOK, NoStrandedWork, [Next]_queueVars,
                    ~draining', CanTake'
             PROVE wake'
  BY DEF NoStrandedWork
<1>1. CASE DrainStop
  BY <1>1 DEF DrainStop, CanTake
<1>2. CASE DrainWait
  BY <1>2 DEF DrainWait
<1>3. CASE Close
  BY <1>3 DEF Close, CanTake
<1>4. CASE UNCHANGED <<waiting, running, closed, draining, wake>>
  BY <1>4 DEF NoStrandedWork, CanTake
<1>5. ASSUME draining' PROVE FALSE
  BY <1>5
<1> QED
  BY <1>1, <1>2, <1>3, <1>4, <1>5
  DEF Next, Drain, DrainTake, WakeTimer, Reopen, BecomeReady, BecomeUnready,
      Refuse, Reject, Admit, Promote, ReaderAborts, DeadlineTimer, Cancel,
      DeadlinePasses, Producer, Begin, Settle, Release, queueVars

-----------------------------------------------------------------------------
(* QueueInv holds in every reachable state of the queue.                   *)
THEOREM QueueInvariant == Spec => []QueueInv
<1>1. QueueInv /\ [Next]_queueVars => QueueInv'
  BY TypeStep, SlotStageStep, PlacesStep, AnsweredStep, BudgetStep, BurstStep,
     QuietStep, StrandStep DEF QueueInv
<1> QED
  BY QueueInvInit, <1>1, PTL DEF Spec

(* Every variable keeps its type, whatever the readers and the clock do.   *)
THEOREM TypeCorrect == Spec => []TypeOK
<1>1. QueueInv => TypeOK
  BY DEF QueueInv
<1> QED
  BY <1>1, QueueInvariant, PTL

(* Slots and admission budget are never exceeded, and every producer that  *)
(* executes owns a slot, also after its reader has left.                   *)
THEOREM SlotsSafe == Spec => []SlotsBounded
<1>1. QueueInv => SlotsBounded
  BY DEF QueueInv, SlotStage, Budget, SlotsBounded
<1> QED
  BY <1>1, QueueInvariant, PTL

(* drain() never leaves takeable work behind without a timer.              *)
THEOREM WorkNeverStranded == Spec => []NoStrandedWork
<1>1. QueueInv => NoStrandedWork
  BY DEF QueueInv
<1> QED
  BY <1>1, QueueInvariant, PTL

(* The oldest waiter is passed over at most PriorityBurst times in a row.  *)
THEOREM BypassBounded == Spec => []BypassBound
<1>1. QueueInv => BypassBound
  BY QueueAssumption DEF QueueInv, TypeOK, BurstBound, BypassBound
<1> QED
  BY <1>1, QueueInvariant, PTL

(* After close() nobody waits, nothing is armed, every reader has been told. *)
THEOREM CloseAnswersEveryone == Spec => []ClosedIsQuiet
<1>1. QueueInv => ClosedIsQuiet
  BY DEF QueueInv, Quiet, ClosedIsQuiet
<1> QED
  BY <1>1, QueueInvariant, PTL

(* An unanswered reader is in the list or in a slot, never in both.        *)
THEOREM NoReaderForgotten == Spec => []PendingIsHeld
<1>1. QueueInv => PendingIsHeld
  BY DEF QueueInv, Places, PendingIsHeld
<1> QED
  BY <1>1, QueueInvariant, PTL

(* The first answer a reader gets is the last one.                         *)
THEOREM AnswerIsFinal == Spec => FirstAnswerWins
<1> DEFINE Final(j) == outcome[j] \in Settled => outcome'[j] = outcome[j]
<1>1. QueueInv /\ [Next]_queueVars => [\A j \in Jobs : Final(j)]_queueVars
  <2> SUFFICES ASSUME QueueInv, Next, NEW j \in Jobs, outcome[j] \in Settled
               PROVE  outcome'[j] = outcome[j]
    OBVIOUS
  <2> USE DEF QueueInv, TypeOK
  <2>1. ASSUME NEW k \in Jobs, DrainTake(k) PROVE outcome'[j] = outcome[j]
    BY <2>1 DEF DrainTake, Selected, Places
  <2>2. ASSUME NEW k \in Jobs, NEW a \in {"value", "error"}, Settle(k, a)
        PROVE outcome'[j] = outcome[j]
    BY <2>2 DEF Settle
  <2>3. ASSUME NEW k \in Jobs, NEW why \in Cancelled, Cancel(k, why)
        PROVE outcome'[j] = outcome[j]
    BY <2>3 DEF Cancel
  <2>4. ASSUME NEW k \in Jobs, Refuse(k) PROVE outcome'[j] = outcome[j]
    BY <2>4 DEF Refuse, Reject
  <2>5. ASSUME NEW k \in Jobs, NEW p \in Roles, Admit(k, p)
        PROVE outcome'[j] = outcome[j]
    BY <2>5 DEF Admit
  <2>6. CASE Close
    BY <2>6 DEF Close
  <2>7. CASE UNCHANGED outcome
    BY <2>7
  <2> QED
    BY <2>1, <2>2, <2>3, <2>4, <2>5, <2>6, <2>7
    DEF Next, Drain, DrainStop, DrainWait, WakeTimer, Reopen, BecomeReady,
        BecomeUnready, Promote, ReaderAborts, DeadlineTimer, DeadlinePasses,
        Producer, Begin, Release
<1> QED
  BY <1>1, QueueInvariant, PTL DEF Spec, FirstAnswerWins

(* Within one role, nobody is served before an earlier waiter.             *)
THEOREM FifoHolds == Spec => FifoWithinRole
<1> DEFINE Served == \A j \in running' \ running : \A k \in waiting' :
                        prio[j] = prio[k] => seqNo[j] < seqNo[k]
<1>1. TypeOK /\ [Next]_queueVars => [Served]_queueVars
  <2> SUFFICES ASSUME TypeOK, Next,
                      NEW j \in running' \ running, NEW k \in waiting',
                      prio[j] = prio[k]
               PROVE  seqNo[j] < seqNo[k]
    OBVIOUS
  <2>1. ASSUME NEW i \in Jobs, DrainTake(i) PROVE seqNo[j] < seqNo[k]
    <3>1. i = j /\ j \in Jobs /\ k \in waiting \ {j} /\ k \in Jobs
      BY <2>1 DEF DrainTake, TypeOK
    <3>2. seqNo[j] < seqNo[k] \/ Ahead(j, k)
      BY <2>1, <3>1 DEF DrainTake, Selected, Oldest
    <3> QED
      BY <3>1, <3>2 DEF Ahead, TypeOK
  <2>2. CASE running' \subseteq running
    BY <2>2
  <2> QED
    BY <2>1, <2>2
    DEF Next, Drain, DrainStop, DrainWait, WakeTimer, Close, Reopen,
        BecomeReady, BecomeUnready, Refuse, Reject, Admit, Promote,
        ReaderAborts, DeadlineTimer, Cancel, DeadlinePasses, Producer, Begin,
        Settle, Release
<1> QED
  BY <1>1, TypeCorrect, PTL DEF Spec, FifoWithinRole

-----------------------------------------------------------------------------
(* The queue implements its abstract specification: every step is a step   *)
(* of SlotService or does not show there.                                  *)
LEMMA RefinementStep ==
    QueueInv /\ [Next]_queueVars => [Service!Next]_(Service!serviceVars)
<1> SUFFICES ASSUME QueueInv, [Next]_queueVars
             PROVE  Service!Next \/ UNCHANGED <<outcome, running>>
  BY DEF Service!serviceVars
<1> USE DEF QueueInv, TypeOK
<1>0. Service!Open \cup running = waiting \cup running
  BY DEF Service!Open, Places
<1>1. ASSUME NEW j \in Jobs, Refuse(j) PROVE Service!Refuse(j)
  BY <1>1 DEF Refuse, Reject, Service!Refuse
<1>2. ASSUME NEW j \in Jobs, NEW p \in Roles, Admit(j, p) PROVE Service!Accept(j)
  <2>1. /\ Cardinality(waiting) \in Nat /\ Cardinality(running) \in Nat
        /\ Capacity \in Nat
    BY JobSets, QueueAssumption DEF Capacity
  <2>2. Cardinality(waiting \cup running)
          = Cardinality(waiting) + Cardinality(running)
    <3>1. Cardinality(waiting \cap running) = 0
      BY FS_EmptySet DEF Places
    <3> QED
      BY <2>1, <3>1, FS_Union, JobSets
  <2>3. Cardinality(waiting \cup running) < Capacity
    BY <1>2, <2>1, <2>2 DEF Admit, Full
  <2> QED
    BY <1>0, <1>2, <2>3 DEF Admit, Service!Accept
<1>3. ASSUME NEW j \in Jobs, NEW why \in Cancelled, Cancel(j, why)
      PROVE Service!Answer(j)
  BY <1>3 DEF Cancel, Service!Answer, Service!Open
<1>4. ASSUME NEW j \in Jobs, DrainTake(j) PROVE Service!Start(j) \/ Service!Answer(j)
  <2>1. j \in Service!Open \ running
    BY <1>4 DEF DrainTake, Selected, Places, Service!Open
  <2>2. CASE j \in overdue
    BY <1>4, <2>1, <2>2 DEF DrainTake, Service!Answer
  <2>3. CASE j \notin overdue
    BY <1>4, <2>1, <2>3 DEF DrainTake, CanTake, Service!Start
  <2> QED
    BY <2>2, <2>3
<1>5. ASSUME NEW j \in Jobs, NEW a \in {"value", "error"}, Settle(j, a)
      PROVE Service!Answer(j) \/ UNCHANGED <<outcome, running>>
  BY <1>5 DEF Settle, Service!Answer, Service!Open
<1>6. ASSUME NEW j \in Jobs, Release(j) PROVE Service!End(j)
  BY <1>6 DEF Release, SlotStage, Answered, Service!End, Service!Open
<1>7. CASE Close
  <2>1. outcome' = [j \in Jobs |-> IF j \in Service!Open THEN "stopped"
                                    ELSE outcome[j]]
    BY <1>7 DEF Close, Places, Service!Open
  <2> QED
    BY <1>7, <2>1 DEF Close, Service!AnswerAll, Service!Next
<1>8. CASE UNCHANGED <<outcome, running>>
  BY <1>8
<1> QED
  <2>1. \A j \in Jobs : \/ Service!Refuse(j) \/ Service!Accept(j) \/ Service!Start(j)
                        \/ Service!Answer(j) \/ Service!End(j)
                        => Service!Next
    BY DEF Service!Next
  <2>2. Service!AnswerAll => Service!Next
    BY DEF Service!Next
  <2> QED
    BY <1>1, <1>2, <1>3, <1>4, <1>5, <1>6, <1>7, <1>8, <2>1, <2>2
    DEF Next, Drain, DrainStop, DrainWait, WakeTimer, Reopen, BecomeReady,
        BecomeUnready, Promote, ReaderAborts, DeadlineTimer, DeadlinePasses,
        Producer, Begin, queueVars

THEOREM QueueIsService == Spec => ServiceSpec
<1>1. Init => Service!Init
  BY DEF Init, Service!Init
<1> QED
  BY <1>1, RefinementStep, QueueInvariant, PTL DEF Spec, ServiceSpec, Service!Spec

-----------------------------------------------------------------------------
(***************************************************************************)
(* HostGate                                                                *)
(***************************************************************************)
-----------------------------------------------------------------------------
(* The gate and its queue.                                                 *)

\* A step of the gate is a step of its queue, a change of readyAt(), or neither.
LEMMA GateStepsTheQueue ==
    ready \in BOOLEAN /\ [GateNext]_vars => [Next]_queueVars
<1> SUFFICES ASSUME ready \in BOOLEAN, GateNext
             PROVE  Next \/ UNCHANGED queueVars
  BY DEF vars
<1>1. ASSUME ~draining, UNCHANGED queueButReady, ready' = ReadyNow'
      PROVE  Next \/ UNCHANGED queueVars
  <2>1. ready' \in BOOLEAN
    BY <1>1 DEF ReadyNow
  <2>2. ready' = ready \/ (~ready /\ ready' = TRUE) \/ (ready /\ ready' = FALSE)
    BY <2>1
  <2> QED
    BY <1>1, <2>2 DEF queueButReady, queueVars, Next, BecomeReady, BecomeUnready
<1>2. CASE QueueStep
  BY <1>2 DEF QueueStep, Next, Producer
<1>3. ASSUME NEW j \in Jobs, Enter(j) PROVE Next
  BY <1>3 DEF Enter, Next, Producer
<1>4. ASSUME NEW j \in Jobs, Return(j) PROVE Next
  BY <1>4 DEF Return, Next, Producer
<1>5. ASSUME NEW j \in Jobs, EndDelay(j) \/ Fail(j)
      PROVE  Next \/ UNCHANGED queueVars
  BY <1>1, <1>5 DEF EndDelay, Fail
<1>6. ASSUME NEW j \in Jobs, NEW s \in Statuses, NEW h \in Hints, Respond(j, s, h)
      PROVE  Next \/ UNCHANGED queueVars
  BY <1>1, <1>6 DEF Respond
<1>7. CASE ResetPolicy \/ Tick
  BY <1>1, <1>7 DEF ResetPolicy, Tick
<1> QED
  BY <1>2, <1>3, <1>4, <1>5, <1>6, <1>7 DEF GateNext

LEMMA QueueInvStep == QueueInv /\ [Next]_queueVars => QueueInv'
BY TypeStep, SlotStageStep, PlacesStep, AnsweredStep, BudgetStep, BurstStep,
   QuietStep, StrandStep DEF QueueInv

LEMMA QueueInvInGate == GateSpec => []QueueInv
<1>1. GateInit => QueueInv
  BY QueueInvInit DEF GateInit
<1>2. QueueInv /\ [GateNext]_vars => QueueInv'
  BY GateStepsTheQueue, QueueInvStep DEF QueueInv, TypeOK
<1> QED
  BY <1>1, <1>2, PTL DEF GateSpec

-----------------------------------------------------------------------------
(* Work is under way in the slot of its job only.                          *)
GateTypes ==
    /\ now \in Nat /\ failures \in Nat
    /\ lastStart \in Int /\ until \in Int /\ banned \in Int
    /\ step \in [Jobs -> Steps]

WorkHasSlot == \A j \in Jobs : step[j] # "none" => stage[j] = "producing"

\* What the last provider asked for is over, or is the cooldown in force; a
\* request that is on its way went out when it was over.
BanKept ==
    /\ banned <= now \/ banned = until
    /\ \A j \in Jobs : step[j] = "work" => banned <= now

GateIInv == QueueInv /\ GateTypes /\ WorkHasSlot /\ BanKept

LEMMA OneSlot ==
    ASSUME QueueInv, NEW j \in running, NEW k \in running
    PROVE  j = k
<1> SUFFICES ASSUME j # k PROVE FALSE
  OBVIOUS
<1>1. running \in SUBSET Jobs /\ Cardinality(running) <= 1
  BY GateAssumption DEF QueueInv, TypeOK, Budget
<1>2. /\ IsFiniteSet(running) /\ Cardinality(running) \in Nat
  BY <1>1, JobSets
<1>3. Cardinality(running \ {j}) = Cardinality(running) - 1
  BY <1>2, FS_RemoveElement
<1>4. IsFiniteSet(running \ {j}) /\ Cardinality(running \ {j}) = 0
  <2>1. running \ {j} \in SUBSET Jobs
    BY <1>1
  <2> QED
    BY <1>1, <1>2, <1>3, <2>1, JobSets
<1>5. running \ {j} = {}
  BY <1>4, FS_EmptySet
<1> QED
  BY <1>5

LEMMA OneJobWorks ==
    ASSUME QueueInv, WorkHasSlot,
           NEW j \in Jobs, step[j] # "none", NEW k \in Jobs, step[k] # "none"
    PROVE  j = k
BY OneSlot DEF QueueInv, SlotStage, WorkHasSlot

LEMMA GateIInvInit == GateInit => GateIInv
<1> SUFFICES ASSUME GateInit PROVE GateIInv
  OBVIOUS
<1>1. QueueInv
  BY QueueInvInit DEF GateInit
<1>2. GateTypes
  BY GateAssumption DEF GateInit, GateTypes, Steps, Never
<1>3. WorkHasSlot /\ BanKept
  BY DEF GateInit, WorkHasSlot, BanKept
<1> QED
  BY <1>1, <1>2, <1>3 DEF GateIInv

\* The pauses are integers.
LEMMA PausesAreInt ==
    ASSUME NEW n \in Nat \ {0}
    PROVE  LimitPause(n) \in Int /\ ServerPause(n) \in Int
<1>1. AtMost(n - 1, 8) \in Nat /\ AtMost(n - 1, 4) \in Nat
  BY DEF AtMost
<1>2. \A m \in Nat : 2 ^ m \in Int
  BY Z3
<1>3. \A m \in Nat : LimitBase * 2 ^ m \in Int /\ ServerBase * 2 ^ m \in Int
  BY <1>2, GateAssumption
<1> QED
  BY <1>1, <1>3, GateAssumption DEF LimitPause, ServerPause, AtMost

\* What Rest() does to the ban while it is in the past.
LEMMA RestKeeps ==
    ASSUME GateTypes, banned <= now, NEW n \in Nat, NEW t \in Int, Rest(n, t), now' = now
    PROVE  /\ failures' \in Nat /\ until' \in Int /\ banned' \in Int
           /\ banned' <= now' \/ banned' = until'
BY DEF GateTypes, Rest, AtLeast

LEMMA LearnKeeps ==
    ASSUME GateTypes, banned <= now, NEW s \in Statuses, NEW h \in Hints,
           Learn(s, h), now' = now
    PROVE  /\ failures' \in Nat /\ until' \in Int /\ banned' \in Int
           /\ banned' <= now' \/ banned' = until'
<1> USE DEF GateTypes
<1>1. failures + 1 \in Nat \ {0}
  OBVIOUS
<1>2. \A p \in Int : RetryAt(p, h) \in Int
  BY GateAssumption DEF RetryAt, AtLeast
<1>3. /\ RetryAt(LimitPause(failures + 1), h) \in Int
      /\ RetryAt(ServerPause(failures + 1), h) \in Int
      /\ RetryAt(ForbiddenPause, h) \in Int
  BY <1>1, <1>2, PausesAreInt, GateAssumption
<1>4. CASE s \in {"limited", "forbidden", "server"}
  BY <1>1, <1>3, <1>4, RestKeeps DEF Learn
<1>5. CASE s \in {"ok", "denied", "other"}
  BY <1>5 DEF Learn
<1> QED
  BY <1>4, <1>5 DEF Statuses

LEMMA GateIInvStep == GateIInv /\ [GateNext]_vars => GateIInv'
<1> SUFFICES ASSUME GateIInv, [GateNext]_vars PROVE GateIInv'
  OBVIOUS
<1>q. QueueInv /\ QueueInv'
  BY GateStepsTheQueue, QueueInvStep DEF GateIInv, QueueInv, TypeOK
<1>t. /\ GateTypes /\ WorkHasSlot /\ BanKept
      /\ stage \in [Jobs -> Stages] /\ stage' \in [Jobs -> Stages]
  BY <1>q DEF GateIInv, QueueInv, TypeOK
<1> USE DEF GateTypes, Steps
<1>1. CASE QueueStep
  <2>1. UNCHANGED gateVars
    BY <1>1 DEF QueueStep
  <2>2. GateTypes' /\ BanKept'
    BY <1>t, <2>1 DEF gateVars, BanKept
  <2>3. ASSUME NEW j \in Jobs, stage[j] = "producing" PROVE stage'[j] = "producing"
    <3>1. j \notin waiting
      BY <1>q, <2>3 DEF QueueInv, SlotStage, Places
    <3> QED
      BY <1>1, <1>t, <2>3, <3>1
      DEF QueueStep, Drain, DrainTake, DrainStop, DrainWait, Selected, WakeTimer, Close,
          Reopen, Refuse, Reject, Admit, Promote, ReaderAborts, DeadlineTimer, Cancel,
          DeadlinePasses, Release
  <2>4. WorkHasSlot'
    BY <1>t, <2>1, <2>3 DEF gateVars, WorkHasSlot
  <2> QED
    BY <1>q, <2>2, <2>4 DEF GateIInv
<1>2. ASSUME NEW j \in Jobs, Enter(j) PROVE GateIInv'
  <2>1. stage[j] = "starting" /\ step[j] = "none"
    BY <1>2, <1>t DEF Enter, Begin, WorkHasSlot
  <2>2. GateTypes'
    BY <1>2, <1>t DEF Enter, Send
  <2>3. WorkHasSlot'
    BY <1>2, <1>t, <2>1 DEF Enter, Send, Begin, Gone, WorkHasSlot
  <2>4. until <= now \/ ~(\E k \in Jobs : step'[k] = "work" /\ step[k] # "work")
    BY <1>2, <1>t DEF Enter, Send
  <2>5. BanKept'
    BY <1>2, <1>t, <2>4 DEF Enter, BanKept
  <2> QED
    BY <1>q, <2>2, <2>3, <2>5 DEF GateIInv
<1>3. ASSUME NEW j \in Jobs, EndDelay(j) PROVE GateIInv'
  <2>1. stage' = stage /\ step[j] = "delay"
    BY <1>3 DEF EndDelay, queueButReady
  <2>2. GateTypes'
    BY <1>3, <1>t DEF EndDelay, Send
  <2>3. WorkHasSlot'
    BY <1>3, <1>t, <2>1 DEF EndDelay, Send, WorkHasSlot
  <2>4. until <= now \/ ~(\E k \in Jobs : step'[k] = "work" /\ step[k] # "work")
    BY <1>3, <1>t DEF EndDelay, Send
  <2>5. BanKept'
    BY <1>3, <1>t, <2>4 DEF EndDelay, BanKept
  <2> QED
    BY <1>q, <2>2, <2>3, <2>5 DEF GateIInv
<1>4. ASSUME NEW j \in Jobs, step[j] = "work", stage' = stage, step' \in [Jobs -> Steps],
             \A k \in Jobs : step'[k] = "work" => step[k] = "work" /\ k # j,
             \A k \in Jobs \ {j} : step'[k] = step[k],
             lastStart' = lastStart, now' = now,
             failures' \in Nat, until' \in Int, banned' \in Int,
             banned' <= now' \/ banned' = until'
      PROVE  GateIInv'
  <2>1. \A k \in Jobs : step'[k] # "work"
    BY <1>4, <1>q, <1>t, OneJobWorks
  <2>2. GateTypes'
    BY <1>4, <1>t
  <2>3. WorkHasSlot'
    BY <1>4, <1>t DEF WorkHasSlot
  <2> QED
    BY <1>4, <1>q, <2>1, <2>2, <2>3 DEF GateIInv, BanKept
<1>5. ASSUME NEW j \in Jobs, NEW s \in Statuses, NEW h \in Hints, Respond(j, s, h)
      PROVE  GateIInv'
  <2>1. step[j] = "work" /\ banned <= now /\ now' = now /\ Learn(s, h)
    BY <1>5, <1>t DEF Respond, BanKept
  <2>2. /\ failures' \in Nat /\ until' \in Int /\ banned' \in Int
        /\ banned' <= now' \/ banned' = until'
    BY <1>t, <2>1, LearnKeeps
  <2> QED
    BY <1>4, <1>5, <1>t, <2>1, <2>2 DEF Respond, queueButReady
<1>6. ASSUME NEW j \in Jobs, Fail(j) PROVE GateIInv'
  <2>1. step[j] = "work" /\ banned <= now /\ now' = now
    BY <1>6, <1>t DEF Fail, BanKept
  <2>2. AtLeast(until, now + ServerPause(failures + 1)) \in Int
    BY <1>t, PausesAreInt DEF AtLeast
  <2>3. /\ failures' \in Nat /\ until' \in Int /\ banned' \in Int
        /\ banned' <= now' \/ banned' = until'
    BY <1>6, <1>t, <2>1, <2>2, RestKeeps DEF Fail
  <2> QED
    BY <1>4, <1>6, <1>t, <2>1, <2>3 DEF Fail, queueButReady
<1>7. ASSUME NEW j \in Jobs, Return(j) PROVE GateIInv'
  BY <1>7, <1>q, <1>t DEF Return, Settle, GateIInv, WorkHasSlot, BanKept
<1>8. CASE ResetPolicy
  <2>1. stage' = stage
    BY <1>8 DEF ResetPolicy, queueButReady
  <2> QED
    BY <1>8, <1>q, <1>t, <2>1 DEF ResetPolicy, GateIInv, WorkHasSlot, BanKept
<1>9. CASE Tick
  <2>1. stage' = stage
    BY <1>9 DEF Tick, queueButReady
  <2> QED
    BY <1>9, <1>q, <1>t, <2>1 DEF Tick, GateIInv, WorkHasSlot, BanKept
<1>10. CASE UNCHANGED vars
  <2>1. UNCHANGED gateVars /\ stage' = stage
    BY <1>10 DEF vars, queueVars
  <2> QED
    BY <1>q, <1>t, <2>1 DEF gateVars, GateIInv, WorkHasSlot, BanKept
<1> QED
  BY <1>1, <1>2, <1>3, <1>5, <1>6, <1>7, <1>8, <1>9, <1>10 DEF GateNext

LEMMA GateInvariant == GateSpec => []GateIInv
BY GateIInvInit, GateIInvStep, PTL DEF GateSpec

-----------------------------------------------------------------------------
(* One request at a time is on the way to a host, even when its reader has been  *)
(* answered long ago or the gate has been closed and opened again meanwhile: the  *)
(* slot is given back by the request itself.                                     *)
THEOREM OneRequestAtATime == GateSpec => []OneOnTheWay
<1>1. ASSUME GateIInv PROVE OneOnTheWay
  <2> DEFINE Busy == {j \in Jobs : step[j] \in {"delay", "work"}}
  <2>1. Busy \subseteq running
    BY <1>1 DEF GateIInv, QueueInv, SlotStage, WorkHasSlot
  <2>2. running \in SUBSET Jobs /\ Cardinality(running) <= 1
    BY <1>1, GateAssumption DEF GateIInv, QueueInv, TypeOK, Budget
  <2>3. Cardinality(Busy) <= Cardinality(running) /\ Cardinality(Busy) \in Nat
    BY <2>1, <2>2, JobSets, FS_Subset
  <2> QED
    BY <2>2, <2>3, JobSets DEF OneOnTheWay
<1> QED
  BY <1>1, GateInvariant, PTL

(* Two requests to a host are the gap apart and none goes out before the latest    *)
(* instant a provider asked for, for every gap, pause and hint and in every order     *)
(* of responses, failures, cancellations and resets (host-gate.js:35-38).              *)
THEOREM RequestsSpaced == GateSpec => RequestsAreSpaced
<1>1. GateIInv /\ [GateNext]_vars => [GapKept /\ CooldownHonoured]_vars
  <2> SUFFICES ASSUME GateIInv, GateNext PROVE GapKept /\ CooldownHonoured
    OBVIOUS
  <2>t. GateTypes /\ BanKept /\ Gap \in Nat
    BY GateAssumption DEF GateIInv
  <2>1. ASSUME NEW j \in Jobs, lastStart + Gap <= now, until <= now, Send(j)
        PROVE  GapKept /\ CooldownHonoured
    BY <2>1, <2>t DEF GapKept, CooldownHonoured, Send, GateTypes, BanKept
  <2>2. ASSUME UNCHANGED lastStart, \A k \in Jobs : step'[k] = "work" => step[k] = "work"
        PROVE  GapKept /\ CooldownHonoured
    BY <2>2 DEF GapKept, CooldownHonoured
  <2>3. ASSUME NEW j \in Jobs, Enter(j) PROVE GapKept /\ CooldownHonoured
    <3>1. (lastStart + Gap <= now /\ until <= now /\ Send(j))
            \/ (UNCHANGED lastStart /\ \A k \in Jobs : step'[k] = "work" => step[k] = "work")
      BY <2>3, <2>t DEF Enter, GateTypes, Steps
    <3> QED
      BY <2>1, <2>2, <3>1
  <2>4. ASSUME NEW j \in Jobs, EndDelay(j) PROVE GapKept /\ CooldownHonoured
    <3>1. (lastStart + Gap <= now /\ until <= now /\ Send(j))
            \/ (UNCHANGED lastStart /\ \A k \in Jobs : step'[k] = "work" => step[k] = "work")
      BY <2>4, <2>t DEF EndDelay, GateTypes, Steps
    <3> QED
      BY <2>1, <2>2, <3>1
  <2>5. ASSUME NEW j \in Jobs, UNCHANGED lastStart,
               step' = [step EXCEPT ![j] = "answered"] \/ step' = [step EXCEPT ![j] = "failed"]
                 \/ step' = [step EXCEPT ![j] = "none"]
        PROVE  GapKept /\ CooldownHonoured
    BY <2>5, <2>t, <2>2 DEF GateTypes
  <2>6. CASE QueueStep \/ ResetPolicy \/ Tick
    BY <2>2, <2>6 DEF QueueStep, ResetPolicy, Tick, gateVars
  <2> QED
    BY <2>3, <2>4, <2>5, <2>6 DEF GateNext, Respond, Fail, Return
<1> QED
  BY <1>1, GateInvariant, PTL DEF GateSpec, RequestsAreSpaced

\* A producer that has not settled has a reader that waits, or one that gave up.
ProducersAsked ==
    \A j \in Jobs : stage[j] \in {"starting", "producing"} =>
                       outcome[j] \in Cancelled \cup {"pending"}

LEMMA ProducersAskedStep ==
    QueueInv /\ ProducersAsked /\ [Next]_queueVars => ProducersAsked'
<1> SUFFICES ASSUME QueueInv, ProducersAsked, [Next]_queueVars PROVE ProducersAsked'
  OBVIOUS
<1> USE DEF QueueInv, TypeOK, ProducersAsked, Cancelled
<1>1. ASSUME NEW j \in Jobs, DrainTake(j) PROVE ProducersAsked'
  BY <1>1 DEF DrainTake, Selected, Places
<1>2. ASSUME NEW j \in Jobs, Producer(j) PROVE ProducersAsked'
  BY <1>2 DEF Producer, Begin, Settle, Release
<1>3. ASSUME NEW j \in Jobs, NEW why \in Cancelled, Cancel(j, why) PROVE ProducersAsked'
  BY <1>3 DEF Cancel
<1>4. ASSUME NEW j \in Jobs, Refuse(j) PROVE ProducersAsked'
  BY <1>4 DEF Refuse, Reject, Places, SlotStage
<1>5. ASSUME NEW j \in Jobs, NEW p \in Roles, Admit(j, p) PROVE ProducersAsked'
  BY <1>5 DEF Admit
<1>6. CASE Close
  BY <1>6 DEF Close
<1>7. CASE UNCHANGED <<outcome, stage>>
  BY <1>7
<1> QED
  BY <1>1, <1>2, <1>3, <1>4, <1>5, <1>6, <1>7
  DEF Next, Drain, DrainStop, DrainWait, WakeTimer, Reopen, BecomeReady,
      BecomeUnready, Promote, ReaderAborts, DeadlineTimer, DeadlinePasses, queueVars

LEMMA ProducersAskedInGate == GateSpec => []ProducersAsked
<1>1. GateInit => ProducersAsked
  BY DEF GateInit, Init, ProducersAsked
<1>2. QueueInv /\ ProducersAsked /\ [GateNext]_vars => ProducersAsked'
  BY GateStepsTheQueue, ProducersAskedStep DEF QueueInv, TypeOK
<1> QED
  BY <1>1, <1>2, QueueInvInGate, PTL DEF GateSpec

(* A request goes out only for a reader that still waits for it, whoever leaves,    *)
(* runs out of time or is turned away by close() while its job is on its way to the    *)
(* host (host-gate.js:34,37-38).                                                          *)
THEOREM ReadersAwaitRequests == GateSpec => RequestsHaveReaders
<1>1. GateIInv /\ ProducersAsked /\ [GateNext]_vars => [SentForReader]_vars
  <2> SUFFICES ASSUME GateIInv, ProducersAsked, GateNext PROVE SentForReader
    OBVIOUS
  <2>1. step \in [Jobs -> Steps]
    BY DEF GateIInv, GateTypes
  <2>2. ASSUME NEW j \in Jobs, stage[j] \in {"starting", "producing"}, ~Gone(j)
        PROVE  outcome[j] = "pending"
    BY <2>2 DEF ProducersAsked, Gone
  <2>3. ASSUME NEW j \in Jobs, Enter(j) PROVE SentForReader
    <3>1. stage[j] = "starting"
      BY <2>3 DEF Enter, Begin
    <3> QED
      BY <2>1, <2>2, <2>3, <3>1 DEF Enter, Send, SentForReader, Steps
  <2>4. ASSUME NEW j \in Jobs, EndDelay(j) PROVE SentForReader
    <3>1. stage[j] = "producing"
      BY <2>4 DEF EndDelay, GateIInv, WorkHasSlot
    <3> QED
      BY <2>1, <2>2, <2>4, <3>1 DEF EndDelay, Send, SentForReader, Steps
  <2>5. CASE QueueStep \/ ResetPolicy \/ Tick
    BY <2>5 DEF QueueStep, ResetPolicy, Tick, gateVars, SentForReader
  <2>6. ASSUME NEW j \in Jobs, step' \in {[step EXCEPT ![j] = "answered"],
                 [step EXCEPT ![j] = "failed"], [step EXCEPT ![j] = "none"]}
        PROVE  SentForReader
    BY <2>1, <2>6 DEF SentForReader
  <2> QED
    BY <2>3, <2>4, <2>5, <2>6 DEF GateNext, Respond, Fail, Return
<1> QED
  BY <1>1, GateInvariant, ProducersAskedInGate, PTL DEF GateSpec, RequestsHaveReaders

-----------------------------------------------------------------------------
(* The ranges of the clock and the pauses, and what the queue is told of them.  *)
GateRanges ==
    /\ now \in 0..MaxTime /\ lastStart \in {Never} \cup 0..MaxTime
    /\ until \in Nat /\ banned \in Nat
    /\ ready = ReadyNow

\* A hint is an instant, and a pause is never ended by an error that follows.
LEMMA RetryAtIsInstant ==
    ASSUME NEW p \in Int, NEW t \in Nat, now \in Nat
    PROVE  RetryAt(p, t) \in Nat /\ AtLeast(t, now + p) \in Nat
BY DEF RetryAt, AtLeast

LEMMA RestIsInstant ==
    ASSUME NEW n, NEW t \in Nat, banned \in Nat, Rest(n, t)
    PROVE  until' \in Nat /\ banned' \in Nat
BY DEF Rest, AtLeast

LEMMA LearnIsInstant ==
    ASSUME GateTypes, GateRanges, NEW s \in Statuses, NEW h \in Hints, Learn(s, h)
    PROVE  until' \in Nat /\ banned' \in Nat
<1>1. failures + 1 \in Nat \ {0} /\ h \in Nat /\ banned \in Nat /\ until \in Nat
  BY GateAssumption DEF GateTypes, GateRanges
<1>2. /\ RetryAt(LimitPause(failures + 1), h) \in Nat
      /\ RetryAt(ServerPause(failures + 1), h) \in Nat
      /\ RetryAt(ForbiddenPause, h) \in Nat
  <2>1. /\ LimitPause(failures + 1) \in Int /\ ServerPause(failures + 1) \in Int
        /\ ForbiddenPause \in Int /\ now \in Nat
    BY <1>1, PausesAreInt, GateAssumption DEF GateTypes
  <2> QED
    BY <1>1, <2>1, RetryAtIsInstant
<1>3. CASE s \in {"limited", "forbidden", "server"}
  BY <1>1, <1>2, <1>3, RestIsInstant DEF Learn
<1>4. CASE s \in {"ok", "denied", "other"}
  BY <1>1, <1>4 DEF Learn
<1> QED
  BY <1>3, <1>4 DEF Statuses

LEMMA GateRangesStep == GateIInv /\ GateRanges /\ [GateNext]_vars => GateRanges'
<1> SUFFICES ASSUME GateIInv, GateRanges, [GateNext]_vars PROVE GateRanges'
  OBVIOUS
<1>t. GateTypes
  BY DEF GateIInv
<1>1. ASSUME UNCHANGED <<ready, now, lastStart, until, banned>> PROVE GateRanges'
  BY <1>1 DEF GateRanges, ReadyNow
<1>2. CASE QueueStep
  <2>1. ready' = ready
    BY <1>2 DEF QueueStep, Drain, DrainTake, DrainStop, DrainWait, WakeTimer, Close, Reopen,
                Refuse, Reject, Admit, Promote, ReaderAborts, DeadlineTimer, Cancel,
                DeadlinePasses, Release
  <2> QED
    BY <1>1, <1>2, <2>1 DEF QueueStep, gateVars
<1>3. ASSUME NEW j \in Jobs, Enter(j) \/ EndDelay(j) PROVE GateRanges'
  <2>1. /\ now' = now /\ until' = until /\ banned' = banned /\ ready' = ReadyNow'
        /\ lastStart' \in {lastStart, now}
    BY <1>3 DEF Enter, EndDelay, Send
  <2> QED
    BY <2>1 DEF GateRanges
<1>4. ASSUME NEW j \in Jobs, NEW s \in Statuses, NEW h \in Hints, Respond(j, s, h)
      PROVE  GateRanges'
  <2>1. now' = now /\ lastStart' = lastStart /\ ready' = ReadyNow' /\ Learn(s, h)
    BY <1>4 DEF Respond
  <2>2. until' \in Nat /\ banned' \in Nat
    BY <1>t, <2>1, LearnIsInstant
  <2> QED
    BY <2>1, <2>2 DEF GateRanges
<1>5. ASSUME NEW j \in Jobs, Fail(j) PROVE GateRanges'
  <2>1. now' = now /\ lastStart' = lastStart /\ ready' = ReadyNow'
    BY <1>5 DEF Fail
  <2>2. until' \in Nat /\ banned' \in Nat
    <3>1. until \in Nat /\ banned \in Nat /\ now \in Nat /\ failures + 1 \in Nat \ {0}
      BY <1>t DEF GateRanges, GateTypes
    <3>2. AtLeast(until, now + ServerPause(failures + 1)) \in Nat
      BY <3>1, PausesAreInt, RetryAtIsInstant
    <3> QED
      BY <1>5, <3>1, <3>2, RestIsInstant DEF Fail
  <2> QED
    BY <2>1, <2>2 DEF GateRanges
<1>6. ASSUME NEW j \in Jobs, Return(j) PROVE GateRanges'
  <2>1. ready' = ready
    BY <1>6 DEF Return, Settle
  <2> QED
    BY <1>1, <1>6, <2>1 DEF Return
<1>7. CASE ResetPolicy
  BY <1>7 DEF ResetPolicy, GateRanges
<1>8. CASE Tick
  <2>1. now' \in 0..MaxTime
    BY <1>8, GateAssumption DEF Tick, GateRanges
  <2> QED
    BY <1>8, <2>1 DEF Tick, GateRanges
<1>9. CASE UNCHANGED vars
  BY <1>1, <1>9 DEF vars, queueVars, gateVars
<1> QED
  BY <1>2, <1>3, <1>4, <1>5, <1>6, <1>7, <1>8, <1>9 DEF GateNext

(* GateInv: what the callbacks of the gate leave in order - at most one request  *)
(* under way, every pause an instant of the clock, and the queue told the truth   *)
(* about when the host may be asked again (readyAt() in host-gate.js).            *)
THEOREM GateInOrder == GateSpec => []GateInv
<1>1. GateInit => GateRanges
  <2> SUFFICES ASSUME GateInit PROVE GateRanges
    OBVIOUS
  <2>1. Gap \in Nat /\ MaxTime \in Nat
    BY GateAssumption
  <2>2. lastStart + Gap <= now /\ ready = TRUE
    BY <2>1 DEF GateInit, Never
  <2>3. ready = ReadyNow
    BY <2>2 DEF ReadyNow
  <2> QED
    BY <2>1, <2>3 DEF GateInit, GateRanges
<1>2. GateSpec => []GateRanges
  BY <1>1, GateInvariant, GateRangesStep, PTL DEF GateSpec
<1>3. GateIInv /\ GateRanges => GateTypeOK
  BY DEF GateIInv, GateTypes, GateRanges, GateTypeOK
<1> QED
  BY <1>2, <1>3, GateInvariant, OneRequestAtATime, PTL DEF GateInv
=============================================================================
