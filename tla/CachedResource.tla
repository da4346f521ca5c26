--------------------------- MODULE CachedResource ---------------------------
(***************************************************************************)
(* src/lib/cached-resource.js over SharedTasks: a bounded cache whose      *)
(* misses share one load per key, with a cooldown after a failed load,     *)
(* stale answers while a load is under way or has failed, and close() and  *)
(* reopen() around loads that are still running.                           *)
(***************************************************************************)
EXTENDS SharedTasks, Sequences, SequencesExt

CONSTANTS
    TTL, Retry, RetryCap,   \* ttlMs, retryMs and its cap of 900000
    Hints,                  \* retryAt an error may carry, 0 for none
    MaxEntries,
    StaleOnError,
    MaxTime, MaxEpoch       \* bounds on the clock and on the number of closes

ASSUME CacheAssumption ==
    /\ {TTL, Retry, RetryCap, MaxTime, MaxEpoch} \subseteq Nat
    /\ MaxEntries \in Nat \ {0}
    /\ Hints \subseteq Nat
    /\ StaleOnError \in BOOLEAN

VARIABLES
    now, epoch,
    cacheClosed,  \* closed, of this resource
    cache,      \* the map, as a sequence of records in insertion order
    failures,   \* likewise
    inflight,   \* load under way for a key
    owner,      \* epoch a load was started in
    got,        \* what get() has returned to a reader
    held,       \* the reader found an entry, which it may fall back on
    born        \* history: epoch a producer was asked for in

cacheVars == <<now, cacheClosed, epoch, cache, failures, inflight, owner, got, held, born>>
vars == <<sharedVars, cacheVars>>

HasEntry(map, k) == \E e \in ToSet(map) : e.key = k
EntryOf(map, k)  == CHOOSE e \in ToSet(map) : e.key = k

\* Map.delete: of a key there is at most one entry.
Without(map, k) ==
    IF HasEntry(map, k)
    THEN RemoveAt(map, CHOOSE i \in DOMAIN map : map[i].key = k)
    ELSE map

\* trim(): the entries inserted first go first.
Trim(map) == SubSeq(map, 1 + (IF Len(map) > MaxEntries THEN Len(map) - MaxEntries
                                                       ELSE 0), Len(map))

\* Map.set on a key that is there keeps its place.
Put(map, e) ==
    IF HasEntry(map, e.key)
    THEN [i \in DOMAIN map |-> IF map[i].key = e.key THEN e ELSE map[i]]
    ELSE Append(map, e)

Fresh(k)   == HasEntry(cache, k) /\ now - EntryOf(cache, k).ts < TTL
Cooling(k) == HasEntry(failures, k) /\ EntryOf(failures, k).retryAt > now

CacheInit ==
    /\ SharedInit
    /\ now = 0 /\ cacheClosed = FALSE /\ epoch = 0
    /\ cache = <<>> /\ failures = <<>>
    /\ inflight = [k \in Keys |-> None]
    /\ owner = [t \in Tasks |-> 0] /\ born = [t \in Tasks |-> 0]
    /\ got = [r \in Readers |-> "none"]
    /\ held = [r \in Readers |-> FALSE]

Return(r, what) == got' = [got EXCEPT ![r] = what]

-----------------------------------------------------------------------------
(* get()                                                                   *)

\* Answered without a load: closed, a fresh entry, or a cooldown.
GetNow(r, k, swr) ==
    /\ answer[r] = "idle" /\ got[r] = "none"
    /\ \/ cacheClosed /\ Return(r, "stopped")
       \/ ~cacheClosed /\ Return(r, "aborted")       \* its signal is aborted already
       \/ ~cacheClosed /\ Fresh(k) /\ Return(r, "fresh")
       \/ /\ ~cacheClosed /\ ~Fresh(k) /\ Cooling(k)
          /\ Return(r, IF HasEntry(cache, k) /\ (swr \/ StaleOnError)
                       THEN "stale" ELSE "error")
    /\ UNCHANGED <<sharedVars, now, cacheClosed, epoch, cache, failures, inflight,
                   owner, held, born>>

\* A miss joins or starts the load; with swr an old entry is returned at once.
GetLoad(r, k, swr) ==
    /\ answer[r] = "idle" /\ got[r] = "none"
    /\ ~cacheClosed /\ ~Fresh(k) /\ ~Cooling(k)
    /\ Join(r, k)
    /\ born' = [t \in Tasks |-> IF phase[t] = "free" THEN epoch ELSE born[t]]
    /\ held' = [held EXCEPT ![r] = HasEntry(cache, k)]
    /\ IF swr /\ HasEntry(cache, k) THEN Return(r, "stale") ELSE UNCHANGED got
    /\ UNCHANGED <<now, cacheClosed, epoch, cache, failures, inflight, owner>>

\* refresh() by itself: a load even if the entry is fresh, and no way back to it.
Refresh(r, k) ==
    /\ answer[r] = "idle" /\ got[r] = "none"
    /\ ~cacheClosed /\ ~Cooling(k)
    /\ Join(r, k)
    /\ born' = [t \in Tasks |-> IF phase[t] = "free" THEN epoch ELSE born[t]]
    /\ UNCHANGED <<now, cacheClosed, epoch, cache, failures, inflight, owner, got, held>>

\* The rest of get() once its load has settled.
GetReturns(r) ==
    /\ Deliver(r)
    /\ IF got[r] # "none" THEN UNCHANGED got
       ELSE LET res == result[joined[r]] IN
            Return(r, CASE res = "value" -> "fresh"
                        [] res \in {"error", "aborted"} /\ held[r] /\ StaleOnError
                             -> "stale"
                        [] OTHER -> res)
    /\ UNCHANGED <<now, cacheClosed, epoch, cache, failures, inflight, owner, held, born>>

ReaderLeaves(r) ==
    /\ Leave(r)
    /\ IF got[r] # "none" THEN UNCHANGED got ELSE Return(r, "aborted")
    /\ UNCHANGED <<now, cacheClosed, epoch, cache, failures, inflight, owner, held, born>>

-----------------------------------------------------------------------------
(* The load                                                                *)

StartLoad(t) ==
    /\ Produce(t)
    /\ IF why[t] # "live" THEN UNCHANGED <<owner, inflight>>
       ELSE /\ owner' = [owner EXCEPT ![t] = epoch]
            /\ inflight' = [inflight EXCEPT ![keyOf[t]] = t]
    /\ UNCHANGED <<now, cacheClosed, epoch, cache, failures, got, held, born>>

Stopped(t) == cacheClosed \/ owner[t] # epoch

LeaveFlight(t) ==
    inflight' = [inflight EXCEPT ![keyOf[t]] = IF @ = t THEN None ELSE @]

\* A load that nobody wants any more is cached all the same.
LoadedBug(t) ==
    /\ \/ Stopped(t) /\ SettleTask(t, "stopped") /\ UNCHANGED <<cache, failures>>
       \/ /\ ~Stopped(t)
          /\ SettleTask(t, "value")
          /\ cache' = Trim(Append(Without(cache, keyOf[t]),
                                  [key |-> keyOf[t], ts |-> now, from |-> t]))
          /\ failures' = Without(failures, keyOf[t])
    /\ LeaveFlight(t)
    /\ UNCHANGED <<now, cacheClosed, epoch, owner, got, held, born>>

\* The loader returns data, possibly after its signal was aborted.
Loaded(t) ==
    /\ \/ Stopped(t) /\ SettleTask(t, "stopped") /\ UNCHANGED <<cache, failures>>
       \/ /\ ~Stopped(t) /\ why[t] # "live"
          /\ SettleTask(t, why[t]) /\ UNCHANGED <<cache, failures>>
       \/ /\ ~Stopped(t) /\ why[t] = "live"
          /\ SettleTask(t, "value")
          /\ cache' = Trim(Append(Without(cache, keyOf[t]),
                                  [key |-> keyOf[t], ts |-> now, from |-> t]))
          /\ failures' = Without(failures, keyOf[t])
    /\ LeaveFlight(t)
    /\ UNCHANGED <<now, cacheClosed, epoch, owner, got, held, born>>

Strikes(k) ==
    LET n == (IF HasEntry(failures, k) THEN EntryOf(failures, k).n ELSE 0) + 1
    IN  IF n > 8 THEN 8 ELSE n

RetryAt(k, hint) ==
    LET wait == Retry * 2 ^ (Strikes(k) - 1)
        due  == now + (IF wait > RetryCap THEN RetryCap ELSE wait)
    IN  IF hint > due THEN hint ELSE due

\* The failure of a load that was given up counts against the key.
LoadFailedBug(t, hint) ==
    /\ SettleTask(t, "error")
    /\ failures' = Trim(Put(failures, [key |-> keyOf[t],
                                       n |-> Strikes(keyOf[t]),
                                       retryAt |-> RetryAt(keyOf[t], hint)]))
    /\ LeaveFlight(t)
    /\ UNCHANGED <<now, cacheClosed, epoch, cache, owner, got, held, born>>

\* The loader throws; only a load still wanted starts a cooldown.
LoadFailed(t, hint) ==
    /\ \/ /\ Stopped(t) \/ why[t] # "live"
          /\ \E res \in {"error", why[t]} \ {"live"} : SettleTask(t, res)
          /\ UNCHANGED failures
       \/ /\ ~Stopped(t) /\ why[t] = "live"
          /\ SettleTask(t, "error")
          /\ failures' = Trim(Put(failures, [key |-> keyOf[t],
                                             n |-> Strikes(keyOf[t]),
                                             retryAt |-> RetryAt(keyOf[t], hint)]))
    /\ LeaveFlight(t)
    /\ UNCHANGED <<now, cacheClosed, epoch, cache, owner, got, held, born>>

LoadEnds(t) ==
    /\ Forget(t)
    /\ UNCHANGED cacheVars

Load(t) == StartLoad(t) \/ Loaded(t) \/ (\E h \in Hints : LoadFailed(t, h)) \/ LoadEnds(t)

-----------------------------------------------------------------------------
CloseCache ==
    /\ epoch < MaxEpoch
    /\ cacheClosed' = TRUE /\ epoch' = epoch + 1
    /\ AbortAll
    /\ inflight' = [k \in Keys |-> None]
    /\ UNCHANGED <<now, cache, failures, owner, got, held, born>>

ReopenCache ==
    /\ cacheClosed
    /\ cacheClosed' = FALSE
    /\ UNCHANGED <<sharedVars, now, epoch, cache, failures, inflight, owner,
                   got, held, born>>

Clear ==
    /\ cache' = <<>> /\ failures' = <<>>
    /\ cache # <<>> \/ failures # <<>>
    /\ UNCHANGED <<sharedVars, now, cacheClosed, epoch, inflight, owner, got, held, born>>

Tick ==
    /\ now < MaxTime
    /\ now' = now + 1
    /\ UNCHANGED <<sharedVars, cacheClosed, epoch, cache, failures, inflight, owner,
                   got, held, born>>

CacheNext ==
    \/ CloseCache \/ ReopenCache \/ Clear \/ Tick
    \/ \E t \in Tasks : Load(t)
    \/ \E r \in Readers :
          \/ \E k \in Keys, swr \in BOOLEAN : GetNow(r, k, swr) \/ GetLoad(r, k, swr)
          \/ \E k \in Keys : Refresh(r, k)
          \/ GetReturns(r) \/ ReaderLeaves(r)

CacheSpec == CacheInit /\ [][CacheNext]_vars

\* Every load settles (the loaders run under transport deadlines) and every
\* microtask runs; readers and the clock owe nothing.
CacheFairness ==
    /\ WF_vars(\E t \in Tasks : Load(t))
    /\ WF_vars(\E r \in Readers : GetReturns(r))

-----------------------------------------------------------------------------
CacheTypeOK ==
    /\ SharedTypeOK
    /\ now \in 0..MaxTime /\ epoch \in 0..MaxEpoch /\ cacheClosed \in BOOLEAN
    /\ Len(cache) <= MaxEntries /\ Len(failures) <= MaxEntries
    /\ inflight \in [Keys -> Tasks \cup {None}]
    /\ owner \in [Tasks -> 0..MaxEpoch] /\ born \in [Tasks -> 0..MaxEpoch]
    /\ got \in [Readers -> {"none", "fresh", "stale", "error", "stopped", "aborted"}]
    /\ held \in [Readers -> BOOLEAN]

\* The readers of a key share one producer that somebody wants, and none of them
\* is told that another one left (shared-task.js:6-24).
CacheInv == CacheTypeOK /\ OneWantedProducer /\ NobodyInheritsAnAbort

\* What was asked for before close() is not cached after it, also when the
\* resource is open again by the time the data arrive.
NothingAcrossClose ==
    [][\A e \in ToSet(cache') \ ToSet(cache) : ~cacheClosed /\ born[e.from] = epoch]_vars

\* A cached value is never replaced by one whose load was started earlier.
NewestLoadWins ==
    [][\A e \in ToSet(cache), f \in ToSet(cache') :
          e.key = f.key => f.from >= e.from]_vars

\* A load that was given up, by its readers or by close(), starts no cooldown.
GivenUpIsNoFailure ==
    [][\A t \in Tasks :
          phase[t] = "producing" /\ phase'[t] = "settled"
            /\ (why[t] # "live" \/ cacheClosed \/ born[t] # epoch)
          => failures' = failures]_vars

\* Every reader gets an answer: data, an error, or word of the stop.
EveryGetReturns ==
    \A r \in Readers : answer[r] = "waiting" ~> got[r] # "none"
=============================================================================
