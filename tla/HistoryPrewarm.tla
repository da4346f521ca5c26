--------------------------- MODULE HistoryPrewarm ---------------------------
(***************************************************************************)
(* src/lib/history-prewarm.js over LatestCheckpoint: the durable watch     *)
(* list and the leases of live connections, the entry of each member, the  *)
(* bounded workers that keep the entries warm, and the file the list       *)
(* survives in: restored after start(), saved by requests, by a timer and  *)
(* by stop().                                                              *)
(*                                                                         *)
(* Lists are sets: only the durable symbols' precedence in a full list is  *)
(* kept of their order.  Each explicit save numbers its list, so that the  *)
(* number tells which save a list on disk or in memory comes from.  Time   *)
(* only makes entries due.  The history service (what it has cached, what  *)
(* prepare() comes to) is the environment.                                 *)
(***************************************************************************)
EXTENDS LatestCheckpoint

CONSTANTS
    Symbols,
    Owners,         \* connections that may hold a lease
    Clients,        \* requests that save a list, each made at most once
    Lists,          \* the lists that are saved and leased
    Timer, Stopper, \* the other callers of persist(): saveSoon() and stop()
    MaxMembers,     \* maxSymbols
    MaxWorkers,     \* maxConcurrent
    Troubles,       \* what may go wrong outside; see Unreadable and below
    MaxStarts       \* bound on the number of starts

ASSUME PrewarmAssumption ==
    /\ IsFiniteSet(Symbols) /\ IsFiniteSet(Clients)
    /\ Askers = Clients \cup {Timer, Stopper}
    /\ Timer \notin Clients /\ Stopper \notin Clients \cup {Timer}
    /\ Lists \subseteq SUBSET Symbols
    /\ MaxMembers \in Nat \ {0} /\ MaxWorkers \in 1..4 /\ MaxStarts \in Nat
    /\ Troubles \subseteq {"unreadable", "slow", "late", "hasty"}

Unreadable == "unreadable" \in Troubles     \* the file is there and cannot be read
Slow == "slow" \in Troubles                 \* reading it takes longer than the save timer
Late == "late" \in Troubles                 \* lists are saved while stop() is under way
Hasty == "hasty" \in Troubles               \* started again, and stopped before it is read

VARIABLES
    running, initialized,
    starts,         \* history: number of starts
    durable,        \* persistentWatchlist
    leases,         \* symbols of an owner, {} without a lease
    watchlist,
    entries,        \* NoEntry, or what is known of a member
    tasks,          \* "none", or whether a worker's entry is still the current one
    cached,         \* symbols the history service has rows of
    saveTimer, drainTimer,
    restore,        \* the progress of restore()
    moved,          \* membershipVersion has changed since restore() began
    restored,
    stopping,       \* the progress of stop()
    finalBody,      \* the checkpoint stop() has taken, None without one
    posted,         \* history: number of the list a client saved
    latest,         \* history: number of the last list saved since start()
    acked           \* history: highest number whose save was confirmed

prewarmVars == <<running, initialized, starts, durable, leases, watchlist, entries,
                 tasks, cached, saveTimer, drainTimer, restore, moved, restored,
                 stopping, finalBody, posted, latest, acked>>
vars == <<checkpointVars, prewarmVars>>

\* What only a few actions touch.
runVars     == <<running, initialized, starts>>
restoreVars == <<restore, moved, restored>>
stopVars    == <<stopping, finalBody>>
memberVars  == <<durable, leases, watchlist>>
historyVars == <<posted, latest, acked>>

NoEntry  == [member |-> FALSE, periods |-> FALSE, due |-> FALSE]
NewEntry == [member |-> TRUE, periods |-> FALSE, due |-> TRUE]
Warm     == [member |-> TRUE, periods |-> TRUE, due |-> FALSE]

NoRestore == [at |-> "idle", file |-> None, todo |-> {}, symbol |-> None]

Body(no, list, history) == [no |-> no, list |-> list, history |-> history]

Bodies == [no : 0..(1 + Cardinality(Clients)), list : Lists \cup {{}}, history : SUBSET Symbols]

ASSUME BodiesAssumption ==
    /\ {None, Current} \cap Bodies = {}
    /\ None \notin [saved : Bodies \cup {Current}, askers : SUBSET Askers]

\* checkpoint(): the durable list and the rows of all members.
Checkpoint == Body(durable.no, durable.list, watchlist \cap cached)

Init ==
    /\ \E list \in Lists, history \in SUBSET Symbols :
          \E contents \in {None, Body(1, list, history)} :
             /\ CheckpointInit(contents)
             /\ acked = IF contents = None THEN 0 ELSE 1
    /\ running = FALSE /\ initialized = FALSE /\ starts = 0
    /\ durable = [no |-> 0, list |-> {}]
    /\ leases = [o \in Owners |-> {}] /\ watchlist = {}
    /\ entries = [s \in Symbols |-> NoEntry] /\ tasks = [s \in Symbols |-> "none"]
    /\ cached = {} /\ saveTimer = FALSE /\ drainTimer = FALSE
    /\ restore = NoRestore /\ moved = FALSE /\ restored = FALSE
    /\ stopping = "no" /\ finalBody = None
    /\ posted = [c \in Clients |-> 0] /\ latest = 0

-----------------------------------------------------------------------------
(* Membership                                                              *)

\* saveSoon(): the timer is armed from here on.
SaveSoon == saveTimer \/ running

DrainSoon == drainTimer \/ running

\* The members: as many of the symbols asked for as there is room for, the
\* durable ones first.
Selection(list, owned) ==
    LET requested == list \cup owned IN
    {w \in SUBSET requested :
        /\ Cardinality(w) = IF Cardinality(requested) < MaxMembers
                            THEN Cardinality(requested) ELSE MaxMembers
        /\ list \subseteq w \/ w \subseteq list}

Owned(ls) == UNION {ls[o] : o \in Owners}

\* Entries of symbols that have left go, those of new members begin empty.
Members(list) ==
    /\ watchlist' = list
    /\ entries' = [s \in Symbols |->
          IF s \notin list THEN NoEntry
          ELSE IF entries[s].member THEN entries[s] ELSE NewEntry]
    /\ tasks' = [s \in Symbols |->
          IF tasks[s] # "none" /\ s \notin list THEN "stale" ELSE tasks[s]]

\* reconcile() after the durable list or the leases have changed.
Reconcile ==
    \/ /\ watchlist \in Selection(durable'.list, Owned(leases'))
       /\ UNCHANGED <<watchlist, entries, tasks, drainTimer>>
    \/ /\ watchlist \notin Selection(durable'.list, Owned(leases'))
       /\ \E list \in Selection(durable'.list, Owned(leases')) : Members(list)
       /\ drainTimer' = DrainSoon

Lease(o, list) ==
    /\ running /\ leases[o] = {}
    /\ leases' = [leases EXCEPT ![o] = list]
    /\ UNCHANGED durable
    /\ Reconcile
    /\ saveTimer' = IF watchlist' = watchlist THEN saveTimer ELSE SaveSoon
    /\ UNCHANGED <<checkpointVars, runVars, restoreVars, stopVars, historyVars, cached>>

Release(o) ==
    /\ leases[o] # {}
    /\ leases' = [leases EXCEPT ![o] = {}]
    /\ UNCHANGED durable
    /\ Reconcile
    /\ saveTimer' = IF watchlist' = watchlist THEN saveTimer ELSE SaveSoon
    /\ UNCHANGED <<checkpointVars, runVars, restoreVars, stopVars, historyVars, cached>>

NextNumber == 2 + Cardinality({c \in Clients : posted[c] # 0})

\* POST of a watch list: retain() and then persist(), which disarms the timer.
Save(c, list) ==
    /\ posted[c] = 0
    /\ running \/ (Late /\ stopping \in {"waiting", "saving"})
    /\ durable' = [no |-> NextNumber, list |-> list]
    /\ posted' = [posted EXCEPT ![c] = NextNumber]
    /\ latest' = NextNumber
    /\ moved' = TRUE
    /\ UNCHANGED leases
    /\ Reconcile
    /\ saveTimer' = FALSE
    /\ Persist(c, Current)
    /\ UNCHANGED <<runVars, restore, restored, stopVars, acked, cached>>

-----------------------------------------------------------------------------
(* The file                                                                *)

SaveTimerFires ==
    /\ saveTimer
    /\ restore.at \in {"reading", "read"} => Slow
    /\ saveTimer' = FALSE
    /\ Persist(Timer, Current)
    /\ UNCHANGED <<runVars, memberVars, entries, tasks, cached, drainTimer,
                   restoreVars, stopVars, historyVars>>

WriteBegins ==
    /\ DrainBegins(Checkpoint)
    /\ UNCHANGED prewarmVars

\* stop() ends its own request's promise; a failure is the end of it.
StopWritten(ok) ==
    IF Stopper \notin writer.askers THEN UNCHANGED stopVars
    ELSE /\ stopping' = IF ok THEN "settling" ELSE "done"
         /\ finalBody' = IF ok THEN finalBody ELSE None

Write(ok) ==
    /\ WriteEnds(Checkpoint, ok)
    /\ LET confirmed == {posted[c] : c \in writer.askers \cap Clients} IN
       acked' = IF ok /\ \E n \in confirmed : n > acked
                THEN CHOOSE n \in confirmed : \A m \in confirmed : m <= n ELSE acked
    /\ StopWritten(ok)
    /\ UNCHANGED <<runVars, memberVars, entries, tasks, cached, saveTimer,
                   drainTimer, restoreVars, posted, latest>>

-----------------------------------------------------------------------------
(* Workers                                                                 *)

\* commit(): a symbol that has left stays out.
Commit(s, due) ==
    IF entries[s].member
    THEN /\ entries' = [entries EXCEPT ![s] = [Warm EXCEPT !.due = due]]
         /\ saveTimer' = SaveSoon
    ELSE UNCHANGED <<entries, saveTimer>>

Busy == {s \in Symbols : tasks[s] # "none"}
Due  == {s \in Symbols \ Busy : entries[s].member /\ entries[s].due}

\* What runDue() starts: as many as there is room for, entries without data first.
Picked(picked) ==
    /\ picked \subseteq Due
    /\ Cardinality(picked \cup Busy) <= MaxWorkers
    /\ \A s \in Due \ picked :
          /\ Cardinality(picked \cup Busy) >= MaxWorkers
          /\ \A p \in picked : entries[p].periods => entries[s].periods

RunDue(picked) ==
    /\ Picked(picked)
    /\ entries' = [s \in Symbols |-> IF s \in picked
                                     THEN [entries[s] EXCEPT !.due = FALSE] ELSE entries[s]]
    /\ tasks' = [s \in Symbols |-> IF s \in picked THEN "current" ELSE tasks[s]]

\* The drain timer, or a tick of the interval start() has set.
Drain ==
    /\ running
    /\ drainTimer \/ (restore.at = "idle" /\ Due # {} /\ Cardinality(Busy) < MaxWorkers)
    /\ drainTimer' = FALSE
    /\ \E picked \in SUBSET Symbols : RunDue(picked)
    /\ UNCHANGED <<checkpointVars, runVars, memberVars, cached, saveTimer,
                   restoreVars, stopVars, historyVars>>

\* A worker ends; its result counts for the entry it was started for.
WorkerEnds(s, ok) ==
    /\ tasks[s] # "none"
    /\ tasks' = [tasks EXCEPT ![s] = "none"]
    /\ \/ (~running \/ tasks[s] # "current") /\ UNCHANGED entries
       \/ running /\ tasks[s] = "current" /\ ok /\ Commit(s, FALSE)
       \/ /\ running /\ tasks[s] = "current" /\ ~ok
          /\ entries' = [entries EXCEPT ![s].due = FALSE]
    /\ cached' = IF ok /\ running THEN cached \cup {s} ELSE cached
    /\ saveTimer' = SaveSoon
    /\ drainTimer' = DrainSoon
    /\ UNCHANGED <<checkpointVars, runVars, memberVars, restoreVars, stopVars,
                   historyVars>>

TimePasses(s) ==
    /\ entries[s].member /\ ~entries[s].due
    /\ entries' = [entries EXCEPT ![s].due = TRUE]
    /\ UNCHANGED <<checkpointVars, runVars, memberVars, tasks, cached, saveTimer,
                   drainTimer, restoreVars, stopVars, historyVars>>

-----------------------------------------------------------------------------
(* start() and restore()                                                   *)

Start ==
    /\ ~running /\ stopping \in {"no", "done"} /\ starts < MaxStarts
    /\ running' = TRUE /\ starts' = starts + 1
    /\ restore' = [NoRestore EXCEPT !.at = "reading"]
    /\ moved' = FALSE /\ latest' = 0
    /\ stopping' = "no" /\ finalBody' = None
    /\ UNCHANGED <<checkpointVars, initialized, memberVars, entries, tasks,
                   cached, saveTimer, drainTimer, restored, posted, acked>>

\* restore() has come to its end, in whatever way.
Over == restore' = [NoRestore EXCEPT !.at = "over"]

\* The file is read: it may be missing, or unreadable.
ReadFile ==
    /\ restore.at = "reading"
    /\ \/ disk # None /\ restore' = [restore EXCEPT !.at = "read", !.file = disk]
       \/ (disk = None \/ Unreadable) /\ Over
    /\ UNCHANGED <<checkpointVars, runVars, memberVars, entries, tasks, cached,
                   saveTimer, drainTimer, moved, restored, stopVars, historyVars>>

\* The list of the file is retained although another was saved meanwhile.
TakeFileBug ==
    /\ running
    /\ cached' = cached \cup restore.file.history
    /\ durable' = [no |-> restore.file.no, list |-> restore.file.list]
    /\ UNCHANGED leases
    /\ Reconcile
    /\ saveTimer' = SaveSoon
    /\ restore' = [restore EXCEPT !.at = "next", !.file = None,
                                !.todo = watchlist']

\* The rows of the file are taken over, and its list unless another was saved.
TakeFile ==
    /\ running
    /\ cached' = cached \cup restore.file.history
    /\ IF moved THEN UNCHANGED <<memberVars, entries, tasks, drainTimer, saveTimer>>
       ELSE /\ durable' = [no |-> restore.file.no, list |-> restore.file.list]
            /\ UNCHANGED leases
            /\ Reconcile
            /\ saveTimer' = SaveSoon
    /\ restore' = [restore EXCEPT !.at = "next", !.file = None,
                                !.todo = watchlist']

RestoreApply ==
    /\ restore.at = "read"
    /\ \/ TakeFile
       \/ /\ ~running /\ Over
          /\ UNCHANGED <<memberVars, entries, tasks, cached, saveTimer, drainTimer>>
    /\ UNCHANGED <<checkpointVars, runVars, moved, restored, stopVars, historyVars>>

\* The loop over the list as it was when it began.
RestoreNext ==
    /\ restore.at = "next"
    /\ \/ \E s \in restore.todo :
             /\ s \in cached
             /\ restore' = [restore EXCEPT !.at = "awaiting", !.symbol = s,
                                           !.todo = @ \ {s}]
             /\ UNCHANGED restored
       \/ restore.todo \cap cached = {} /\ Over /\ restored' = TRUE
    /\ UNCHANGED <<checkpointVars, runVars, memberVars, entries, tasks, cached,
                   saveTimer, drainTimer, moved, stopVars, historyVars>>

\* After the await: commit() and a new due time for the entry.  Without an entry
\* any more, or without the periods, the rest of the list is given up.
RestoreOne ==
    /\ restore.at = "awaiting"
    /\ LET s == restore.symbol IN
       \/ /\ Commit(s, TRUE)
          /\ IF entries[s].member
             THEN /\ tasks' = [tasks EXCEPT ![s] = IF @ = "none" THEN @ ELSE "stale"]
                  /\ restore' = [restore EXCEPT !.at = "next", !.symbol = None]
             ELSE Over /\ UNCHANGED tasks
       \/ Over /\ UNCHANGED <<entries, tasks, saveTimer>>
    /\ UNCHANGED <<checkpointVars, runVars, memberVars, cached, drainTimer, moved,
                   restored, stopVars, historyVars>>

\* What start() does once restore() is over.
Initialized ==
    /\ restore.at = "over"
    /\ restore' = NoRestore
    /\ initialized' = TRUE
    /\ IF running THEN \E picked \in SUBSET Symbols : RunDue(picked)
       ELSE UNCHANGED <<entries, tasks>>
    /\ UNCHANGED <<checkpointVars, running, starts, memberVars, cached, saveTimer,
                   drainTimer, moved, restored, stopVars, historyVars>>

-----------------------------------------------------------------------------
(* stop()                                                                  *)

\* stop() together with the close of the history service, which forgets its rows.
Stop ==
    /\ running
    /\ initialized /\ restore.at \in {"reading", "read"} => Hasty
    /\ running' = FALSE
    /\ stopping' = "waiting"
    /\ finalBody' = IF initialized THEN Checkpoint ELSE None
    /\ saveTimer' = FALSE /\ drainTimer' = FALSE
    /\ cached' = {}
    /\ UNCHANGED <<checkpointVars, initialized, starts, memberVars, entries, tasks,
                   restoreVars, historyVars>>

\* Restore and workers are through.
StopSaves ==
    /\ stopping = "waiting" /\ restore.at = "idle" /\ Busy = {}
    /\ IF finalBody = None
       THEN stopping' = "settling" /\ UNCHANGED checkpointVars
       ELSE stopping' = "saving" /\ Persist(Stopper, finalBody)
    /\ saveTimer' = IF finalBody = None THEN saveTimer ELSE FALSE
    /\ UNCHANGED <<runVars, memberVars, entries, tasks, cached, drainTimer,
                   restoreVars, finalBody, historyVars>>

StopSettles ==
    /\ stopping = "settling" /\ writer.at = "idle"
    /\ stopping' = "done"
    /\ UNCHANGED <<checkpointVars, runVars, memberVars, entries, tasks, cached,
                   saveTimer, drainTimer, restoreVars, finalBody, historyVars>>

Crash ==
    /\ running \/ stopping \notin {"no", "done"}
    /\ starts < MaxStarts
    /\ CheckpointCrash
    /\ running' = FALSE /\ initialized' = FALSE
    /\ durable' = [no |-> 0, list |-> {}]
    /\ leases' = [o \in Owners |-> {}] /\ watchlist' = {}
    /\ entries' = [s \in Symbols |-> NoEntry] /\ tasks' = [s \in Symbols |-> "none"]
    /\ cached' = {} /\ saveTimer' = FALSE /\ drainTimer' = FALSE
    /\ restore' = NoRestore /\ moved' = FALSE /\ restored' = FALSE
    /\ stopping' = "no" /\ finalBody' = None
    /\ UNCHANGED <<starts, posted, latest, acked>>

-----------------------------------------------------------------------------
Next ==
    \/ \E o \in Owners : Release(o) \/ \E list \in Lists \ {{}} : Lease(o, list)
    \/ \E c \in Clients, list \in Lists : Save(c, list)
    \/ SaveTimerFires \/ WriteBegins \/ \E ok \in BOOLEAN : Write(ok)
    \/ Drain
    \/ \E s \in Symbols :
          \/ \E ok \in BOOLEAN : WorkerEnds(s, ok)
          \/ TimePasses(s)
    \/ Start \/ ReadFile \/ RestoreApply \/ RestoreNext \/ RestoreOne \/ Initialized
    \/ Stop \/ StopSaves \/ StopSettles \/ Crash

Spec == Init /\ [][Next]_vars

-----------------------------------------------------------------------------
PrewarmTypeOK ==
    /\ disk \in Bodies \cup {None} /\ finalBody \in Bodies \cup {None}
    /\ writer.at \in {"idle", "woken", "writing"} /\ writer.askers \subseteq Askers
    /\ writer.at = "woken" => pending # None
    /\ watchlist \subseteq Symbols /\ cached \subseteq Symbols
    /\ Cardinality(watchlist) <= MaxMembers /\ Cardinality(Busy) <= MaxWorkers
    /\ tasks \in [Symbols -> {"none", "current", "stale"}]
    /\ restore.at \in {"idle", "reading", "read", "next", "awaiting", "over"}
    /\ stopping \in {"no", "waiting", "saving", "settling", "done"}

\* A saved list that was confirmed stays in the file until a later one replaces
\* it: across failed writes, writes that are merged, stops and crashes.
SavedListKept == acked > 0 => disk # None /\ disk.no >= acked

\* A list saved since start() is never replaced by the one restore() has read.
RestoreKeepsNewerList == running => durable.no >= latest

\* Entries are kept for exactly the members, whatever workers and whatever part
\* of restore() were under way when a symbol left.
EntriesAreMembers == \A s \in Symbols : entries[s].member <=> s \in watchlist

\* Once stop() has returned nothing will happen any more, and the file holds
\* what was in memory when stop() was called, if that could be written.
StopIsFinal ==
    stopping = "done" =>
        /\ Busy = {} /\ ~saveTimer /\ ~drainTimer /\ restore.at = "idle"
        /\ finalBody # None => pending = None /\ writer = Idle /\ disk = finalBody

\* What a reader of the warm histories relies on at every moment: well-formed
\* entries for exactly the members, no saved list overtaken by an older one or
\* lost from the file, and nothing left to do after stop()
\* (history-prewarm.js:16-35, 77-89, latest-checkpoint.js:5-16).
PrewarmInv ==
    /\ PrewarmTypeOK /\ EntriesAreMembers
    /\ SavedListKept /\ RestoreKeepsNewerList /\ StopIsFinal
=============================================================================
