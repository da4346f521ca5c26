--------------------------- MODULE RealtimeQuotes ---------------------------
(* The quotes under the trade stream, lib/realtime-quote-service.js: a bounded *)
(* cache of the fallback's quotes, read again once a second by a queue of      *)
(* tasks, at most one per symbol, and by the refresh a user forces.            *)
(*                                                                             *)
(* A quote is the object the fallback answers with, 0 for none: the same one     *)
(* while its cache keeps it, or another.  It may also answer with no quote (an    *)
(* error, a pending quote), or fail.  How a streamed trade is laid over the quote *)
(* is left out: it changes no state.                                             *)
EXTENDS Places

CONSTANTS
    RtSymbols,
    RtTasks,       \* task objects
    Refreshers,    \* refreshFallback() calls
    MaxCached,     \* 200 entries
    MaxReads,      \* 4 reads under way
    Quotes,        \* quote objects
    MaxGeneration, \* bound: stops
    NoTask

ASSUME RealtimeAssumption == /\ NoTask \notin RtTasks /\ Quotes \subseteq Nat \ {0}
                             /\ {MaxCached, MaxReads} \subseteq Nat \ {0}
                             /\ RtSymbols # {}

VARIABLES
    cached,      \* entries [symbol, quote, due], oldest first
    rtQueue,     \* tasks waiting, oldest first
    inflight,    \* per symbol: the task reading it
    task,        \* per task: [stage, symbol, epoch, old, notify]
    refresher,   \* per call: [stage, symbol]
    rtClosed,
    generation,
    poked        \* history: symbols the engine was told of in the last step
rtVars == <<cached, rtQueue, inflight, task, refresher, rtClosed, generation, poked>>

Idle == [stage |-> "idle", symbol |-> CHOOSE s \in RtSymbols : TRUE,
         epoch |-> 0, old |-> 0, notify |-> FALSE]
Cached(s) == {n \in DOMAIN cached : cached[n].symbol = s}
QuoteOf(list, s) ==
    IF \E n \in DOMAIN list : list[n].symbol = s
    THEN list[CHOOSE n \in DOMAIN list : list[n].symbol = s].quote ELSE 0
Reading(inf) == {s \in RtSymbols : inf[s] # NoTask}
IsCurrent(t) == ~rtClosed /\ task[t].epoch = generation

RealtimeInit ==
    /\ cached = <<>> /\ rtQueue = <<>>
    /\ inflight = [s \in RtSymbols |-> NoTask] /\ task = [t \in RtTasks |-> Idle]
    /\ refresher = [f \in Refreshers |-> [stage |-> "idle", symbol |-> Idle.symbol]]
    /\ rtClosed = FALSE /\ generation = 0 /\ poked = {}

\* remember(): the newest entry last, the oldest ones dropped.
Remember(s, quote) ==
    LET kept == Append(Selected(cached, DOMAIN cached \ Cached(s)),
                       [symbol |-> s, quote |-> quote, due |-> FALSE])
    IN IF Len(kept) > MaxCached THEN Tail(kept) ELSE kept

\* Tasks of before a stop still read what is queued again.
FreeBug(queue, inf, tasks) == DOMAIN queue
Free(queue, inf, tasks) == {n \in DOMAIN queue : inf[tasks[queue[n]].symbol] = NoTask}

\* drain(): the oldest tasks whose symbol is not being read, up to the limit.
\* Each notes the quote its symbol has now.
DrainReads(queue, inf, tasks, entries) ==
    LET room == MaxReads - Cardinality(Reading(inf))
        first == Foremost(Free(queue, inf, tasks), room)
        taken == {queue[n] : n \in first}
    IN /\ rtQueue' = Selected(queue, DOMAIN queue \ first)
       /\ inflight' = [s \in RtSymbols |->
                          IF \E t \in taken : tasks[t].symbol = s
                          THEN CHOOSE t \in taken : tasks[t].symbol = s ELSE inf[s]]
       /\ task' = [t \in RtTasks |->
                      IF t \in taken
                      THEN [tasks[t] EXCEPT !.stage = "due", !.old = QuoteOf(entries, tasks[t].symbol)]
                      ELSE tasks[t]]

\* warm() of a reader: join the read of this generation or the one that waits,
\* leave a quote that is not due, or queue a new task.
MustQueue(s) ==
    /\ ~(inflight[s] # NoTask /\ task[inflight[s]].epoch = generation)
    /\ \A n \in DOMAIN rtQueue : task[rtQueue[n]].symbol # s
    /\ ~rtClosed
    /\ \A n \in Cached(s) : cached[n].due
    /\ Len(rtQueue) < MaxCached

Warm(s, t) ==
    /\ MustQueue(s) /\ task[t].stage = "idle"
    /\ DrainReads(Append(rtQueue, t), inflight,
             [task EXCEPT ![t] = [Idle EXCEPT !.stage = "queued", !.symbol = s, !.epoch = generation]],
             cached)
    /\ poked' = {}
    /\ UNCHANGED <<cached, refresher, rtClosed, generation>>

\* The first turn of a taken task: a service stopped meanwhile asks nothing.
Ask(t) ==
    /\ task[t].stage = "due"
    /\ task' = [task EXCEPT ![t].stage = IF IsCurrent(t) THEN "asking" ELSE "answered"]
    /\ poked' = {}
    /\ UNCHANGED <<cached, rtQueue, inflight, refresher, rtClosed, generation>>

\* The fallback answers.  Without a quote the task keeps the one it noted when it
\* was taken; a failed call also keeps silent.
Answer(t) ==
    /\ task[t].stage = "asking"
    /\ \E quote \in {0} \cup Quotes, fails \in BOOLEAN :
          LET next == IF ~fails /\ quote # 0 THEN quote ELSE task[t].old IN
          /\ cached' = IF IsCurrent(t) THEN Remember(task[t].symbol, next) ELSE cached
          /\ task' = [task EXCEPT ![t].stage = "answered",
                         ![t].notify = IsCurrent(t) /\ ~fails /\ next # task[t].old]
    /\ poked' = {}
    /\ UNCHANGED <<rtQueue, inflight, refresher, rtClosed, generation>>

\* The last turn of a task: leave inflight, tell the engine, let others in.
Finish(t) ==
    LET s == task[t].symbol
        left == IF inflight[s] = t THEN [inflight EXCEPT ![s] = NoTask] ELSE inflight
        over == [task EXCEPT ![t] = Idle]
    IN /\ task[t].stage = "answered"
       /\ poked' = IF task[t].notify /\ IsCurrent(t) THEN {s} ELSE {}
       /\ IF rtClosed
          THEN task' = over /\ inflight' = left /\ UNCHANGED rtQueue
          ELSE DrainReads(rtQueue, left, over, cached)
       /\ UNCHANGED <<cached, refresher, rtClosed, generation>>

\* refreshFallback(): the quote a user forced goes in as soon as it is there.
RefreshAsk(f, s) ==
    /\ ~rtClosed /\ refresher[f].stage = "idle"
    /\ refresher' = [refresher EXCEPT ![f] = [stage |-> "asking", symbol |-> s]]
    /\ poked' = {}
    /\ UNCHANGED <<cached, rtQueue, inflight, task, rtClosed, generation>>

RefreshAnswer(f) ==
    /\ refresher[f].stage = "asking"
    /\ \E quote \in {0} \cup Quotes :
          cached' = IF quote # 0 /\ ~rtClosed THEN Remember(refresher[f].symbol, quote)
                    ELSE cached
    /\ refresher' = [refresher EXCEPT ![f].stage = "idle"]
    /\ poked' = {}
    /\ UNCHANGED <<rtQueue, inflight, task, rtClosed, generation>>

\* A second passes: every entry may be read again.
EntriesDue ==
    /\ \E n \in DOMAIN cached : ~cached[n].due
    /\ cached' = [n \in DOMAIN cached |-> [cached[n] EXCEPT !.due = TRUE]]
    /\ poked' = {}
    /\ UNCHANGED <<rtQueue, inflight, task, refresher, rtClosed, generation>>

StopRealtime ==
    /\ ~rtClosed /\ generation < MaxGeneration
    /\ rtClosed' = TRUE /\ generation' = generation + 1
    /\ cached' = <<>> /\ rtQueue' = <<>> /\ poked' = {}
    /\ task' = [t \in RtTasks |-> IF task[t].stage = "queued" THEN Idle ELSE task[t]]
    /\ UNCHANGED <<inflight, refresher>>

StartRealtime ==
    /\ rtClosed
    /\ rtClosed' = FALSE
    /\ DrainReads(rtQueue, inflight, task, cached)
    /\ poked' = {}
    /\ UNCHANGED <<cached, refresher, generation>>

RealtimeNext ==
    \/ \E s \in RtSymbols, t \in RtTasks : Warm(s, t)
    \/ \E t \in RtTasks : Ask(t) \/ Answer(t) \/ Finish(t)
    \/ \E f \in Refreshers : RefreshAnswer(f) \/ \E s \in RtSymbols : RefreshAsk(f, s)
    \/ EntriesDue \/ StopRealtime \/ StartRealtime

RealtimeSpec == RealtimeInit /\ [][RealtimeNext]_rtVars
----------------------------------------------------------------------------
(* Tasks and reads fit together whatever stop() and start() do in between: one   *)
(* read per symbol and no more than the limit, every read in progress holds its   *)
(* symbol, one task per symbol waits, and it waits only for its symbol or for     *)
(* room, so that some read under way will let it in.                             *)
NoReadStranded ==
    /\ Cardinality(Reading(inflight)) <= MaxReads
    /\ \A t \in RtTasks : task[t].stage \in {"due", "asking", "answered"}
                            => inflight[task[t].symbol] = t
    /\ \A s \in Reading(inflight) : task[inflight[s]].stage \in {"due", "asking", "answered"}
    /\ \A n, m \in DOMAIN rtQueue : n # m => task[rtQueue[n]].symbol # task[rtQueue[m]].symbol
    /\ \A n \in DOMAIN rtQueue :
          /\ task[rtQueue[n]].stage = "queued" /\ ~rtClosed
          /\ \/ inflight[task[rtQueue[n]].symbol] # NoTask
             \/ Cardinality(Reading(inflight)) = MaxReads

(* What a read of an earlier generation brings home is neither kept nor told to the  *)
(* engine, also when the service has been started again meanwhile.                   *)
OldReadsAreDropped ==
    \A t \in RtTasks :
        (/\ task[t].stage \in {"asking", "answered"} /\ task'[t] # task[t]
         /\ rtClosed \/ task[t].epoch # generation)
           => poked' = {} /\ cached' = cached

(* Stopping and starting again while reads are under way: every read keeps its place  *)
(* until it ends, and what it brings is of no use.                                    *)
ReadsSurviveRestart == [][NoReadStranded' /\ OldReadsAreDropped]_rtVars
=============================================================================
