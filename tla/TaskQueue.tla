----------------------------- MODULE TaskQueue -----------------------------
(***************************************************************************)
(* The bounded priority queue of src/lib/task-queue.js, used by every part *)
(* of the panel that talks to a provider (host gates, history, admission,  *)
(* fundamentals, chart details).                                           *)
(*                                                                         *)
(* JavaScript runs one callback at a time to completion.  A callback that  *)
(* ends in drain() sets "draining", and until the loop of drain() has      *)
(* ended no other action is enabled: DrainTake is one iteration of the     *)
(* loop, DrainStop and DrainWait are its two ways out.                     *)
(*                                                                         *)
(* The list "waiting" of the code is kept sorted by insert(): here it is a *)
(* set of jobs ordered by Ahead.  Time is two oracles: "overdue" holds the *)
(* jobs whose deadlineAt has passed, "ready" says that readyAt() has.      *)
(***************************************************************************)
EXTENDS Naturals, FiniteSets

CONSTANTS
    Jobs,           \* calls of run(), each made at most once
    MaxActive,      \* slots
    MaxQueued,      \* waiting jobs admitted beyond the slots
    PriorityBurst,  \* selections that may pass over the oldest waiter
    Roles,          \* priorities readers use (requestPriority returns 0, 1 or 2)
    Timed           \* jobs that are given a deadlineAt

ASSUME QueueAssumption ==
    /\ IsFiniteSet(Jobs)
    /\ MaxActive \in Nat \ {0}
    /\ MaxQueued \in Nat
    /\ PriorityBurst \in Nat \ {0}
    /\ Roles \subseteq 0..2
    /\ Timed \subseteq Jobs

VARIABLES
    waiting,    \* admitted jobs that have no slot yet
    running,    \* jobs that own a slot
    stage,      \* how far the producer of a job in a slot has come
    outcome,    \* what the reader of a job has been told
    prio,       \* 0 background, 1 normal, 2 foreground
    seqNo,      \* admission order of a job
    sequence,   \* next admission number
    burst,      \* selections made over waiters of a lower priority
    closed,
    wake,       \* the wake-up timer is armed
    draining,   \* the current callback is inside drain()
    overdue,    \* oracle: jobs whose deadline has passed
    ready,      \* oracle: the resource may start a job now
    bypassed    \* history: selections in a row that were not the oldest waiter

queueVars == <<waiting, running, stage, outcome, prio, seqNo, sequence, burst,
               closed, wake, draining, overdue, ready, bypassed>>

Priorities == 0..2
Cancelled  == {"cancelled", "expired", "stopped"}
Settled    == Cancelled \cup {"value", "error", "refused"}
Outcomes   == Settled \cup {"unasked", "pending"}
Stages     == {"none", "starting", "producing", "settling"}

Capacity == MaxActive + MaxQueued

-----------------------------------------------------------------------------
Init ==
    /\ waiting = {} /\ running = {}
    /\ stage = [j \in Jobs |-> "none"]
    /\ outcome = [j \in Jobs |-> "unasked"]
    /\ prio = [j \in Jobs |-> 1]
    /\ seqNo = [j \in Jobs |-> 0]
    /\ sequence = 0 /\ burst = 0
    /\ closed = FALSE /\ wake = FALSE /\ draining = FALSE
    /\ overdue = {} /\ ready \in BOOLEAN
    /\ bypassed = 0

\* Names ending in "Bug" are variants of the definition that follows, with a
\* mistake the code could plausibly contain.  No specification uses them: they
\* show which property would catch the mistake.

\* findIndex() stops at an equal priority: last come, first served.
AheadBug(a, b) ==
    \/ prio[a] > prio[b]
    \/ prio[a] = prio[b] /\ seqNo[a] > seqNo[b]

\* The order insert() keeps the list in: by priority, then by admission.
Ahead(a, b) ==
    \/ prio[a] > prio[b]
    \/ prio[a] = prio[b] /\ seqNo[a] < seqNo[b]

Oldest(j) == \A k \in waiting \ {j} : seqNo[j] < seqNo[k]

\* The element drain() splices out: the head of the list, or the oldest waiter
\* once a burst has been used up.
Selected(j) ==
    /\ j \in waiting
    /\ IF burst >= PriorityBurst THEN Oldest(j)
                                 ELSE \A k \in waiting \ {j} : Ahead(j, k)

\* A selection over the head of a lower role is not counted.
BurstAfterBug(j) ==
    IF \E k \in waiting \ {j} : prio[k] < prio[j]
    THEN (IF burst >= PriorityBurst THEN 0 ELSE burst)
    ELSE 0

\* burst after j was taken: a selection counts when it leaves a lower role behind.
BurstAfter(j) ==
    IF \E k \in waiting \ {j} : prio[k] < prio[j]
    THEN (IF burst >= PriorityBurst THEN 0 ELSE burst) + 1
    ELSE 0

Full == Cardinality(running) + Cardinality(waiting) >= Capacity

-----------------------------------------------------------------------------
(* run(): the early rejections, then admission.                            *)

Reject(j, why) ==
    /\ outcome' = [outcome EXCEPT ![j] = why]
    /\ UNCHANGED <<waiting, running, stage, prio, seqNo, sequence, burst,
                   closed, wake, draining, overdue, ready, bypassed>>

Refuse(j) ==
    /\ ~draining /\ outcome[j] = "unasked"
    /\ \/ closed /\ Reject(j, "stopped")
       \/ ~closed /\ Reject(j, "cancelled")     \* its signal is aborted already
       \/ ~closed /\ j \in overdue /\ Reject(j, "expired")
       \/ ~closed /\ j \notin overdue /\ Full /\ Reject(j, "refused")

Admit(j, p) ==
    /\ ~draining /\ outcome[j] = "unasked"
    /\ ~closed /\ j \notin overdue /\ ~Full
    /\ outcome' = [outcome EXCEPT ![j] = "pending"]
    /\ prio' = [prio EXCEPT ![j] = p]
    /\ seqNo' = [seqNo EXCEPT ![j] = sequence]
    /\ sequence' = sequence + 1
    /\ waiting' = waiting \cup {j}
    /\ draining' = TRUE
    /\ UNCHANGED <<running, stage, burst, closed, wake, overdue, ready, bypassed>>

\* A shared producer inherits the role of a later reader.
Promote(j, p) ==
    /\ ~draining /\ j \in waiting /\ p > prio[j]
    /\ prio' = [prio EXCEPT ![j] = p]
    /\ draining' = TRUE
    /\ UNCHANGED <<waiting, running, stage, outcome, seqNo, sequence, burst,
                   closed, wake, overdue, ready, bypassed>>

\* Cancelling frees the slot of a producer that still executes.
CancelBug(j, why) ==
    /\ ~draining /\ outcome[j] = "pending"
    /\ outcome' = [outcome EXCEPT ![j] = why]
    /\ waiting' = waiting \ {j} /\ running' = running \ {j}
    /\ draining' = TRUE
    /\ UNCHANGED <<stage, prio, seqNo, sequence, burst, closed, wake,
                   overdue, ready, bypassed>>

\* job.cancel(): the reader is answered at once, a waiting job leaves the list,
\* a job in a slot keeps it.
Cancel(j, why) ==
    /\ ~draining /\ outcome[j] = "pending"
    /\ outcome' = [outcome EXCEPT ![j] = why]
    /\ waiting' = waiting \ {j}
    /\ draining' = TRUE
    /\ UNCHANGED <<running, stage, prio, seqNo, sequence, burst, closed, wake,
                   overdue, ready, bypassed>>

ReaderAborts(j)  == Cancel(j, "cancelled")
DeadlineTimer(j) == j \in overdue /\ Cancel(j, "expired")

-----------------------------------------------------------------------------
(* drain()                                                                 *)

CanTake == ~closed /\ Cardinality(running) < MaxActive /\ waiting # {}

DrainTake(j) ==
    /\ draining /\ CanTake /\ ready /\ Selected(j)
    /\ waiting' = waiting \ {j}
    /\ burst' = BurstAfter(j)
    /\ wake' = FALSE
    /\ bypassed' = IF Oldest(j) THEN 0 ELSE bypassed + 1
    /\ IF j \in overdue
       THEN /\ outcome' = [outcome EXCEPT ![j] = "expired"]
            /\ UNCHANGED <<running, stage>>
       ELSE /\ running' = running \cup {j}
            /\ stage' = [stage EXCEPT ![j] = "starting"]
            /\ UNCHANGED outcome
    /\ UNCHANGED <<prio, seqNo, sequence, closed, draining, overdue, ready>>

DrainStop ==
    /\ draining /\ ~CanTake
    /\ draining' = FALSE /\ wake' = FALSE
    /\ UNCHANGED <<waiting, running, stage, outcome, prio, seqNo, sequence,
                   burst, closed, overdue, ready, bypassed>>

DrainWait ==
    /\ draining /\ CanTake /\ ~ready
    /\ draining' = FALSE /\ wake' = TRUE
    /\ UNCHANGED <<waiting, running, stage, outcome, prio, seqNo, sequence,
                   burst, closed, overdue, ready, bypassed>>

Drain == DrainStop \/ DrainWait \/ \E j \in Jobs : DrainTake(j)

WakeTimer ==
    /\ ~draining /\ wake
    /\ draining' = TRUE
    /\ UNCHANGED <<waiting, running, stage, outcome, prio, seqNo, sequence,
                   burst, closed, wake, overdue, ready, bypassed>>

-----------------------------------------------------------------------------
(* The microtasks of a job in a slot: the producer is called, settles, and *)
(* in a later microtask gives the slot back.                               *)

Begin(j) ==
    /\ ~draining /\ stage[j] = "starting"
    /\ stage' = [stage EXCEPT ![j] = IF outcome[j] \in Cancelled
                                     THEN "settling" ELSE "producing"]
    /\ ready' \in BOOLEAN
    /\ UNCHANGED <<waiting, running, outcome, prio, seqNo, sequence, burst,
                   closed, wake, draining, overdue, bypassed>>

\* finish(): the first answer wins, a late one is dropped.
Settle(j, answer) ==
    /\ ~draining /\ stage[j] = "producing"
    /\ stage' = [stage EXCEPT ![j] = "settling"]
    /\ outcome' = [outcome EXCEPT ![j] = IF @ = "pending" THEN answer ELSE @]
    /\ UNCHANGED <<waiting, running, prio, seqNo, sequence, burst, closed, wake,
                   draining, overdue, ready, bypassed>>

\* The finally block forgets to drain.
ReleaseBug(j) ==
    /\ ~draining /\ stage[j] = "settling"
    /\ stage' = [stage EXCEPT ![j] = "none"]
    /\ running' = running \ {j}
    /\ UNCHANGED <<waiting, outcome, prio, seqNo, sequence, burst, closed, wake,
                   draining, overdue, ready, bypassed>>

Release(j) ==
    /\ ~draining /\ stage[j] = "settling"
    /\ stage' = [stage EXCEPT ![j] = "none"]
    /\ running' = running \ {j}
    /\ draining' = TRUE
    /\ UNCHANGED <<waiting, outcome, prio, seqNo, sequence, burst, closed, wake,
                   overdue, ready, bypassed>>

Producer(j) == Begin(j) \/ Release(j) \/ \E a \in {"value", "error"} : Settle(j, a)

-----------------------------------------------------------------------------
Close ==
    /\ ~draining /\ ~closed
    /\ closed' = TRUE /\ wake' = FALSE
    /\ waiting' = {}
    /\ outcome' = [j \in Jobs |->
                     IF j \in waiting \cup running /\ outcome[j] = "pending"
                     THEN "stopped" ELSE outcome[j]]
    /\ UNCHANGED <<running, stage, prio, seqNo, sequence, burst, draining,
                   overdue, ready, bypassed>>

Reopen ==
    /\ ~draining /\ closed
    /\ closed' = FALSE /\ draining' = TRUE
    /\ UNCHANGED <<waiting, running, stage, outcome, prio, seqNo, sequence,
                   burst, wake, overdue, ready, bypassed>>

\* The clock passes the deadline of j, or the instant readyAt() names, or the
\* resource sets a later instant.
DeadlinePasses(j) ==
    /\ ~draining /\ j \in Timed \ overdue
    /\ outcome[j] \in {"unasked", "pending"}
    /\ overdue' = overdue \cup {j}
    /\ UNCHANGED <<waiting, running, stage, outcome, prio, seqNo, sequence,
                   burst, closed, wake, draining, ready, bypassed>>

BecomeReady ==
    /\ ~draining /\ ~ready
    /\ ready' = TRUE
    /\ UNCHANGED <<waiting, running, stage, outcome, prio, seqNo, sequence,
                   burst, closed, wake, draining, overdue, bypassed>>

BecomeUnready ==
    /\ ~draining /\ ready
    /\ ready' = FALSE
    /\ UNCHANGED <<waiting, running, stage, outcome, prio, seqNo, sequence,
                   burst, closed, wake, draining, overdue, bypassed>>

-----------------------------------------------------------------------------
Next ==
    \/ Drain
    \/ WakeTimer \/ Close \/ Reopen
    \/ BecomeReady \/ BecomeUnready
    \/ \E j \in Jobs :
          \/ Refuse(j)
          \/ \E p \in Roles : Admit(j, p) \/ Promote(j, p)
          \/ ReaderAborts(j) \/ DeadlineTimer(j) \/ DeadlinePasses(j)
          \/ Producer(j)

Spec == Init /\ [][Next]_queueVars

\* The event loop ends every callback, runs every pending microtask and fires
\* every armed timer whose instant has come; a producer settles (each one runs
\* under a transport deadline).  Readers, close() and reopen() owe nothing.
Fairness ==
    /\ WF_queueVars(Drain)
    /\ SF_queueVars(\E j \in Jobs : Producer(j))
    /\ SF_queueVars(WakeTimer /\ ready)
    /\ SF_queueVars(BecomeReady)

-----------------------------------------------------------------------------
TypeOK ==
    /\ waiting \subseteq Jobs /\ running \subseteq Jobs
    /\ stage \in [Jobs -> Stages]
    /\ outcome \in [Jobs -> Outcomes]
    /\ prio \in [Jobs -> Priorities]
    /\ seqNo \in [Jobs -> Nat]
    /\ sequence \in Nat /\ burst \in Nat /\ bypassed \in Nat
    /\ closed \in BOOLEAN /\ wake \in BOOLEAN /\ draining \in BOOLEAN
    /\ overdue \subseteq Jobs /\ ready \in BOOLEAN

\* However jobs are cancelled, timed out, closed over and reopened, the
\* producers that still execute own a slot each, and neither the slots nor the
\* admission budget of run() is ever exceeded (task-queue.js:33,42).
SlotsBounded ==
    /\ {j \in Jobs : stage[j] # "none"} \subseteq running
    /\ Cardinality(running) <= MaxActive
    /\ Cardinality(running) + Cardinality(waiting) <= Capacity

\* No lost wake-up: between callbacks, work that waits beside a free slot of an
\* open queue has an armed timer (task-queue.js:16-19).
NoStrandedWork ==
    ~draining /\ CanTake => wake

\* Neither a steady stream of foreground work nor a promotion makes the queue
\* pass over its oldest waiter more than PriorityBurst times in a row.
BypassBound == bypassed <= PriorityBurst

\* A closed queue owes nobody an answer and has no timer left that could
\* start work (task-queue.js:66).
ClosedIsQuiet ==
    closed /\ ~draining =>
        /\ waiting = {} /\ ~wake
        /\ \A j \in Jobs : outcome[j] # "pending"

\* A job that has been asked for and not answered is in exactly one of the two
\* places from which it can still be answered; no reader is forgotten.
PendingIsHeld ==
    \A j \in Jobs :
        /\ outcome[j] = "pending" => (j \in waiting) # (j \in running)
        /\ j \in waiting => outcome[j] = "pending"

\* A producer executes exactly while its job owns a slot.
SlotStage == \A j \in Jobs : j \in running <=> stage[j] # "none"

\* A waiting job has no slot and an unanswered reader, a job in a slot has been
\* asked for, and an unanswered reader waits or runs.
Places ==
    /\ waiting \cap running = {}
    /\ \A j \in running : outcome[j] # "unasked"
    /\ \A j \in waiting : outcome[j] = "pending"
    /\ \A j \in Jobs : outcome[j] = "pending" => j \in waiting \cup running

\* By the time a producer is about to free its slot its reader has an answer.
Answered == \A j \in Jobs : stage[j] = "settling" => outcome[j] # "pending"

Budget ==
    /\ Cardinality(running) <= MaxActive
    /\ Cardinality(running) + Cardinality(waiting) <= Capacity

\* Each selection that is not the oldest waiter is counted by burst as well.
BurstBound == bypassed <= burst /\ burst <= PriorityBurst

\* ClosedIsQuiet without its "between callbacks": it even holds inside drain().
Quiet ==
    closed => /\ waiting = {} /\ ~wake
              /\ \A j \in Jobs : outcome[j] # "pending"

\* What every callback of the queue leaves in order, all parts together:
\* types, who executes and who waits, the budget, the bound on passing over, the
\* silence of a closed queue, and no lost wake-up (all of task-queue.js).  It is
\* inductive: each part needs the others to be kept.
QueueInv ==
    /\ TypeOK /\ SlotStage /\ Places /\ Answered /\ Budget /\ BurstBound
    /\ Quiet /\ NoStrandedWork

\* A late value never replaces the deadline, abort or stop a reader was told,
\* nor the other way round (task-queue.js:47).
FirstAnswerWins ==
    [][\A j \in Jobs : outcome[j] \in Settled => outcome'[j] = outcome[j]]_queueVars

\* Within one role the queue is first come, first served, whatever has been
\* promoted, cancelled or picked out of turn in between.
FifoWithinRole ==
    [][\A j \in running' \ running : \A k \in waiting' :
          prio[j] = prio[k] => seqNo[j] < seqNo[k]]_queueVars

\* Seen from its callers the queue is a SlotService: the list, the roles, the
\* timers and the loop of drain() never show.
Service == INSTANCE SlotService WITH
              Calls <- Jobs, Slots <- MaxActive, Places <- Capacity,
              Answers <- Settled, Size <- Cardinality,
              answer <- outcome, executing <- running
ServiceSpec == Service!Spec

\* Every admitted reader is answered in the end.
EveryReaderAnswered ==
    \A j \in Jobs : outcome[j] = "pending" ~> outcome[j] # "pending"
=============================================================================
