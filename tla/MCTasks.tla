------------------------------ MODULE MCTasks -------------------------------
(* The queue that bounds the work and the cache that shares it, on small        *)
(* instances.  They share no state here, so a behaviour runs one of them while   *)
(* the other rests.                                                              *)
EXTENDS TaskQueue, CachedResource

CONSTANTS k1, k2, r1, r2, r3, timed

VARIABLE part

PartsInit ==
    /\ part \in {"queue", "cache"} /\ Init /\ CacheInit
    /\ part = "cache" => ready

PartsNext ==
    /\ UNCHANGED part
    /\ \/ part = "queue" /\ Next /\ UNCHANGED vars
       \/ part = "cache" /\ CacheNext /\ UNCHANGED queueVars

PartsSpec == PartsInit /\ [][PartsNext]_<<part, vars, queueVars>>
----------------------------------------------------------------------------
\* The jobs without a time limit have the names of the readers, so that one
\* symmetry serves both parts.
Symmetry == Permutations(Keys) \cup Permutations(Readers)

\* Only the jobs in the list are compared by role and age, so the role and the
\* number of the others, and the gaps in the numbering, do not matter.
Rank(j) == Cardinality({k \in waiting : seqNo[k] < seqNo[j]})

QueueView == <<[j \in waiting |-> <<prio[j], Rank(j)>>], running, stage, outcome,
               burst, closed, wake, draining, overdue, ready, bypassed>>

\* Readers that have been answered and producers that are gone with all their
\* readers are never looked at again.
ReaderView(r) ==
    IF joined[r] \in Tasks THEN <<joined[r], got[r] # "none" \/ held[r], got[r] = "none">>
    ELSE <<answer[r] = "idle" /\ got[r] = "none">>

TaskView(t) ==
    IF phase[t] = "gone" /\ ReadersOf(t) = {} THEN <<>>
    ELSE <<phase[t], keyOf[t], why[t], result[t], owner[t], born[t]>>

\* Of an entry it matters for how long it is fresh, of a failure how long it cools.
Left(until) == IF until <= now THEN 0 ELSE IF until > MaxTime THEN MaxTime + 1 ELSE until - now
EntryView(e) == <<e.key, e.from, Left(e.ts + TTL)>>
FailureView(f) == <<f.key, f.n, Left(f.retryAt)>>
ListView(list, E(_)) == [i \in DOMAIN list |-> E(list[i])]

CacheView == <<jobOf, [t \in Tasks |-> TaskView(t)], [r \in Readers |-> ReaderView(r)],
               now, cacheClosed, epoch,
               ListView(cache, EntryView), ListView(failures, FailureView), inflight>>

View == IF part = "queue" THEN QueueView ELSE CacheView
=============================================================================
