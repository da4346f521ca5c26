----------------------------- MODULE MCLiveness -----------------------------
(* What must happen in the end, for the queue, the cache and the streams.  They *)
(* share no state, so one run checks each of them on its own: in a behaviour     *)
(* one part runs while the others rest, and a part that rests has no callback,    *)
(* timer or event due, so that no fairness asks anything of it.                   *)
EXTENDS Naturals

CONSTANTS
    Jobs, MaxActive, MaxQueued, PriorityBurst, Roles, Timed,
    Keys, Readers, Tasks, None, TTL, Retry, RetryCap, Hints, MaxEntries, StaleOnError,
    MaxTime, MaxEpoch,
    ApiConns, SseConns, KeyFamilies, QuoteItems, SampleItems, MaxClients, MaxApi,
    MaxPerFamily, MaxVersion, Heartbeat, NoFamily,
    j1, j2, j3, k1, r1, r2, api1, sse1, f1, q1

VARIABLES
    part,
    waiting, running, stage, outcome, prio, seqNo, sequence, burst, queueClosed, wake,
    draining, overdue, ready, bypassed,
    jobOf, keyOf, taskPhase, why, result, joined, answer, now, cacheClosed, epoch, cache,
    failures, inflight, owner, got, hadEntry, born,
    phase, family, socket, held, perKey, blocked, keyWorks, ver, sent, dirty, pending,
    scheduled, stall

queueVars == <<waiting, running, stage, outcome, prio, seqNo, sequence, burst,
               queueClosed, wake, draining, overdue, ready, bypassed>>
cacheVars == <<jobOf, keyOf, taskPhase, why, result, joined, answer, now, cacheClosed,
               epoch, cache, failures, inflight, owner, got, hadEntry, born>>
streamVars == <<phase, family, socket, held, perKey, blocked, keyWorks, ver, sent, dirty,
                pending, scheduled, stall>>
vars == <<part, queueVars, cacheVars, streamVars>>

Queue == INSTANCE TaskQueue WITH closed <- queueClosed
Cache == INSTANCE CachedResource WITH phase <- taskPhase, held <- hadEntry
Streams == INSTANCE QuoteStreams

Init ==
    /\ part \in {"queue", "cache", "streams"}
    /\ Queue!Init /\ Cache!CacheInit /\ Streams!StreamsInit
    /\ part # "queue" => ready

Next ==
    /\ UNCHANGED part
    /\ IF part = "queue" THEN Queue!Next ELSE UNCHANGED queueVars
    /\ IF part = "cache" THEN Cache!CacheNext ELSE UNCHANGED cacheVars
    /\ IF part = "streams" THEN Streams!StreamsNext ELSE UNCHANGED streamVars

Spec == /\ Init /\ [][Next]_vars
        /\ Queue!Fairness /\ Cache!CacheFairness /\ Streams!StreamsFairness

(* Every admitted reader of a queue is answered in the end (task-queue.js).    *)
EveryReaderAnswered == Queue!EveryReaderAnswered

(* Every get() and refresh() returns (cached-resource.js).                     *)
EveryGetReturns == Cache!EveryGetReturns

(* A panel that stops reading is let go (sse.js).                              *)
StuckPanelsGo == Streams!StuckPanelsGo

(* Revoking a key ends its streams (api-quote-stream.js).                      *)
StreamsEndWithKey == Streams!StreamsEndWithKey
=============================================================================
