---------------------------- MODULE SharedTasks ----------------------------
(***************************************************************************)
(* src/lib/shared-task.js: readers of one key share one producer.  A       *)
(* reader that aborts is answered at once; only the last one to leave      *)
(* aborts the producer, and a reader that comes after that starts a        *)
(* producer of its own.  The counter job.readers is the set ReadersOf(t).  *)
(***************************************************************************)
EXTENDS Naturals, FiniteSets

CONSTANTS
    Keys,
    Readers,    \* calls of run(), each made at most once
    Tasks,      \* producers that may be started, in the order of their numbers
    None

ASSUME TaskAssumption == Tasks \subseteq Nat /\ None \notin Tasks

VARIABLES
    jobOf,      \* the map "jobs": the producer new readers of a key join
    keyOf,      \* key of a started producer
    phase,      \* where a producer stands
    why,        \* "live", or the reason its controller was aborted with
    result,     \* what a settled producer came to
    joined,     \* producer a reader waits for
    answer      \* what a reader has been told

sharedVars == <<jobOf, keyOf, phase, why, result, joined, answer>>

Phases  == {"free", "created", "producing", "settled", "gone"}
Results == {"value", "error", "aborted", "stopped"}

SharedInit ==
    /\ jobOf = [k \in Keys |-> None]
    /\ keyOf = [t \in Tasks |-> None]
    /\ phase = [t \in Tasks |-> "free"]
    /\ why = [t \in Tasks |-> "live"]
    /\ result = [t \in Tasks |-> "value"]
    /\ joined = [r \in Readers |-> None]
    /\ answer = [r \in Readers |-> "idle"]

ReadersOf(t) == {r \in Readers : joined[r] = t}

\* The next producer to be created.
IsNext(t) == t \in Tasks /\ phase[t] = "free"
             /\ \A u \in Tasks : phase[u] = "free" => t <= u

MustStart(k) == jobOf[k] \notin {t \in Tasks : why[t] = "live"}

Join(r, k) ==
    /\ answer[r] = "idle"
    /\ answer' = [answer EXCEPT ![r] = "waiting"]
    /\ \/ /\ MustStart(k)
          /\ \E t \in Tasks :
                /\ IsNext(t)
                /\ phase' = [phase EXCEPT ![t] = "created"]
                /\ keyOf' = [keyOf EXCEPT ![t] = k]
                /\ jobOf' = [jobOf EXCEPT ![k] = t]
                /\ joined' = [joined EXCEPT ![r] = t]
       \/ /\ ~MustStart(k)
          /\ joined' = [joined EXCEPT ![r] = jobOf[k]]
          /\ UNCHANGED <<phase, keyOf, jobOf>>
    /\ UNCHANGED <<why, result>>

\* A producer that was aborted before it began is left alone.
ProduceBug(t) ==
    /\ phase[t] = "created" /\ why[t] = "live"
    /\ phase' = [phase EXCEPT ![t] = "producing"]
    /\ UNCHANGED <<jobOf, keyOf, why, result, joined, answer>>

\* The first microtask of a producer: an aborted one is not called at all.
Produce(t) ==
    /\ phase[t] = "created"
    /\ \/ /\ why[t] = "live"
          /\ phase' = [phase EXCEPT ![t] = "producing"]
          /\ UNCHANGED result
       \/ /\ why[t] # "live"
          /\ phase' = [phase EXCEPT ![t] = "settled"]
          /\ result' = [result EXCEPT ![t] = why[t]]
    /\ UNCHANGED <<jobOf, keyOf, why, joined, answer>>

SettleTask(t, res) ==
    /\ phase[t] = "producing"
    /\ phase' = [phase EXCEPT ![t] = "settled"]
    /\ result' = [result EXCEPT ![t] = res]
    /\ UNCHANGED <<jobOf, keyOf, why, joined, answer>>

Forget(t) ==
    /\ phase[t] = "settled"
    /\ phase' = [phase EXCEPT ![t] = "gone"]
    /\ jobOf' = [jobOf EXCEPT ![keyOf[t]] = IF @ = t THEN None ELSE @]
    /\ UNCHANGED <<keyOf, why, result, joined, answer>>

Deliver(r) ==
    /\ joined[r] \in Tasks /\ phase[joined[r]] = "gone"
    /\ answer' = [answer EXCEPT ![r] = result[joined[r]]]
    /\ joined' = [joined EXCEPT ![r] = None]
    /\ UNCHANGED <<jobOf, keyOf, phase, why, result>>

\* controller.abort(): the first reason stays.
Give(ts, reason) ==
    [t \in Tasks |-> IF t \in ts /\ why[t] = "live" THEN reason ELSE why[t]]

\* Whoever leaves takes the producer along.
LeaveBug(r) ==
    /\ joined[r] \in Tasks
    /\ answer' = [answer EXCEPT ![r] = "aborted"]
    /\ joined' = [joined EXCEPT ![r] = None]
    /\ why' = Give({joined[r]}, "aborted")
    /\ UNCHANGED <<jobOf, keyOf, phase, result>>

Leave(r) ==
    /\ joined[r] \in Tasks
    /\ answer' = [answer EXCEPT ![r] = "aborted"]
    /\ joined' = [joined EXCEPT ![r] = None]
    /\ why' = IF ReadersOf(joined[r]) = {r} THEN Give({joined[r]}, "aborted")
                                            ELSE why
    /\ UNCHANGED <<jobOf, keyOf, phase, result>>

\* close() forgets the producers without aborting them.
AbortAllBug ==
    /\ jobOf' = [k \in Keys |-> None]
    /\ UNCHANGED <<keyOf, phase, why, result, joined, answer>>

AbortAll ==
    /\ why' = Give({jobOf[k] : k \in Keys}, "stopped")
    /\ jobOf' = [k \in Keys |-> None]
    /\ UNCHANGED <<keyOf, phase, result, joined, answer>>

SharedTypeOK ==
    /\ jobOf \in [Keys -> Tasks \cup {None}]
    /\ keyOf \in [Tasks -> Keys \cup {None}]
    /\ phase \in [Tasks -> Phases]
    /\ why \in [Tasks -> {"live", "aborted", "stopped"}]
    /\ result \in [Tasks -> Results]
    /\ joined \in [Readers -> Tasks \cup {None}]
    /\ answer \in [Readers -> Results \cup {"idle", "waiting"}]

\* A reader that still waits never hangs on a producer that the others have
\* given up: only a reader that leaves is told of an abort.
NobodyInheritsAnAbort ==
    \A r \in Readers : joined[r] \in Tasks => why[joined[r]] # "aborted"

\* Of the producers of a key at most one is still wanted: the others have been
\* given up or stopped, even while they still execute.
OneWantedProducer ==
    \A t, u \in Tasks :
        /\ {phase[t], phase[u]} \subseteq {"created", "producing"}
        /\ keyOf[t] = keyOf[u] /\ why[t] = "live" /\ why[u] = "live"
        => t = u
=============================================================================
