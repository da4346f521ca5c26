---------------------------- MODULE SampleStore ----------------------------
(* The minute samples of the last trading days, lib/sample-store.js, and the    *)
(* minute tick and the stop() of lib/quote-samples.js that save them: one file   *)
(* per symbol and trading day.  A flush runs beside accept(), eviction and        *)
(* pruning; only one runs at a time.                                              *)
(*                                                                                *)
(* What a day holds is told by the number of its last point, 0 for no such day.    *)
(* Every day takes one unit of the byte limit, and a point of a day that is there   *)
(* always fits.  The event deltas and the limit on symbols are left out.             *)
EXTENDS Naturals, FiniteSets

CONSTANTS
    SsSymbols,
    LastDay,      \* bound: the last trading day
    DaysKept,     \* 3 trading days
    MaxDays,      \* the byte limit, in days
    MaxPoints,    \* bound: points accepted
    MaxCrashes,   \* bound: ends of the process
    NoFile

File == SsSymbols \X (1..LastDay)

ASSUME SampleAssumption == /\ {LastDay, DaysKept, MaxDays} \subseteq Nat \ {0}
                           /\ NoFile \notin [file : File, revision : Nat, body : Nat]

VARIABLES
    today,
    active,      \* the symbols on the watchlist
    days,        \* per file: its day in memory
    dirtyDays, deleted,
    disk,        \* per file: what it holds
    flush,       \* [stage, todo, hand]: the flush under way
    phase,       \* quote-samples: running, or stopping
    points,      \* points accepted so far
    crashes,     \* ends of the process so far
    refused,     \* history: files restore() left unread
    failing      \* history: a write failed since stop()
ssVars == <<today, active, days, dirtyDays, deleted, disk, flush, phase, points, crashes, refused, failing>>

Window == {d \in 1..LastDay : d <= today /\ today < d + DaysKept}
Held(s) == {d \in 1..LastDay : days[<<s, d>>] # 0}
Newest(s) == CHOOSE n \in {days[<<s, d>>] : d \in Held(s)} :
                 \A d \in Held(s) : days[<<s, d>>] <= n
NoFlush == [stage |-> "idle", todo |-> {}, hand |-> NoFile]

SampleInit ==
    /\ today = 1 /\ active = SsSymbols
    /\ days = [f \in File |-> 0] /\ disk = [f \in File |-> 0]
    /\ dirtyDays = {} /\ deleted = {} /\ flush = NoFlush /\ phase = "running"
    /\ points = 0 /\ crashes = 0 /\ refused = {} /\ failing = FALSE
----------------------------------------------------------------------------
\* reclaimRetired(): the symbols off the watchlist whose samples go, the oldest
\* first, so that one more day fits.
Room(gone) == Cardinality({f \in File : days[f] # 0 /\ f[1] \notin gone}) < MaxDays
Retired == {s \in SsSymbols \ active : Held(s) # {}}
OldestFirst(gone) == \A old \in gone, s \in Retired \ gone : Newest(old) < Newest(s)
Reclaimed ==
    CHOOSE gone \in SUBSET Retired :
        /\ OldestFirst(gone) /\ (Room(gone) \/ gone = Retired)
        /\ \A fewer \in SUBSET gone : OldestFirst(fewer) /\ Room(fewer) => fewer = gone

\* A job of the running flush keeps the day of a symbol that was evicted.
Orphaned(jobs, gone) ==
    {IF job.file[1] \in gone /\ job.orphan = 0 THEN [job EXCEPT !.orphan = days[job.file]] ELSE job :
        job \in jobs}

\* note(): a day that changes is written, not removed.
Undeleted(files, f) == files \ {f}

\* accept(), of a quote the engine has for a symbol on the watchlist.
Accept(s, d) ==
    /\ phase = "running" /\ points < MaxPoints
    /\ s \in active /\ d \in Window /\ \A later \in Held(s) : later <= d
    /\ LET gone == IF days[<<s, d>>] # 0 \/ Room({}) THEN {} ELSE Reclaimed
           fits == days[<<s, d>>] # 0 \/ Room(gone)
           lost == {f \in File : f[1] \in gone /\ days[f] # 0}
           f == <<s, d>>
       IN /\ days' = [g \in File |-> IF g = f /\ fits THEN points + 1
                                     ELSE IF g \in lost THEN 0 ELSE days[g]]
          /\ dirtyDays' = (dirtyDays \ lost) \cup (IF fits THEN {f} ELSE {})
          /\ deleted' = IF fits THEN Undeleted(deleted \cup lost, f) ELSE deleted \cup lost
          /\ flush' = IF flush.stage = "write" THEN [flush EXCEPT !.todo = Orphaned(@, gone)] ELSE flush
          /\ refused' = IF fits THEN refused \ {f} ELSE refused
    /\ points' = points + 1
    /\ UNCHANGED <<today, active, disk, phase, crashes, failing>>

\* flush(): one at a time; first the files to remove, then the days that changed.
Begun(remove) ==
    IF flush.stage = "idle" THEN [stage |-> "unlink", todo |-> remove, hand |-> NoFile] ELSE flush

\* runDue(), once a minute: prune(), then flush().
Minute ==
    /\ phase = "running"
    /\ LET old == {f \in File : days[f] # 0 /\ f[2] \notin Window} IN
       /\ days' = [f \in File |-> IF f \in old THEN 0 ELSE days[f]]
       /\ dirtyDays' = dirtyDays \ old /\ deleted' = deleted \cup old
       /\ flush' = Begun(deleted \cup old)
    /\ UNCHANGED <<today, active, disk, phase, points, crashes, refused, failing>>

\* The next file is removed, or is not.
Unlink(f, ok) ==
    /\ flush.stage = "unlink" /\ f \in flush.todo
    /\ flush' = [flush EXCEPT !.todo = @ \ {f}]
    /\ IF ok THEN disk' = [disk EXCEPT ![f] = 0] /\ deleted' = deleted \ {f} /\ UNCHANGED failing
             ELSE failing' = (failing \/ phase # "running") /\ UNCHANGED <<disk, deleted>>
    /\ UNCHANGED <<today, active, days, dirtyDays, phase, points, crashes, refused>>

ToWrite ==
    /\ flush.stage = "unlink" /\ flush.todo = {}
    /\ flush' = [stage |-> "write", hand |-> NoFile,
                 todo |-> {[file |-> f, revision |-> days[f], orphan |-> 0] : f \in dirtyDays}]
    /\ UNCHANGED <<today, active, days, dirtyDays, deleted, disk, phase, points, crashes, refused, failing>>

\* The next job: what its day holds now is written.
TakeJob(job) ==
    /\ flush.stage = "write" /\ flush.hand = NoFile /\ job \in flush.todo
    /\ LET body == IF job.orphan # 0 THEN job.orphan ELSE days[job.file] IN
       IF body = 0
       THEN flush' = [flush EXCEPT !.todo = @ \ {job}] /\ dirtyDays' = dirtyDays \ {job.file}
       ELSE /\ flush' = [flush EXCEPT !.todo = @ \ {job},
                            !.hand = [file |-> job.file, revision |-> job.revision, body |-> body]]
            /\ UNCHANGED dirtyDays
    /\ UNCHANGED <<today, active, days, deleted, disk, phase, points, crashes, refused, failing>>

\* It is written: the day is clean unless it changed since the job was made.
IsSameBug(job) == TRUE
IsSame(job) == days[job.file] = job.revision

Written(ok) ==
    /\ flush.stage = "write" /\ flush.hand # NoFile
    /\ flush' = [flush EXCEPT !.hand = NoFile]
    /\ IF ok THEN /\ disk' = [disk EXCEPT ![flush.hand.file] = flush.hand.body]
                  /\ dirtyDays' = IF IsSame(flush.hand) THEN dirtyDays \ {flush.hand.file} ELSE dirtyDays
                  /\ UNCHANGED failing
             ELSE failing' = (failing \/ phase # "running") /\ UNCHANGED <<disk, dirtyDays>>
    /\ UNCHANGED <<today, active, days, deleted, phase, points, crashes, refused>>

\* stop(): nothing is collected any more; the flush under way is awaited, or a new
\* one, and then another.
AfterFirstBug == "stopped"
AfterFirst == "again"

Stop ==
    /\ phase = "running" /\ phase' = "first" /\ failing' = FALSE
    /\ flush' = Begun(deleted)
    /\ UNCHANGED <<today, active, days, dirtyDays, deleted, disk, points, crashes, refused>>

FlushEnds ==
    /\ flush.stage = "write" /\ flush.todo = {} /\ flush.hand = NoFile
    /\ phase' = CASE phase = "first" -> AfterFirst [] phase = "again" -> "stopped" [] OTHER -> phase
    /\ flush' = IF phase' = "again" /\ phase = "first"
                THEN [stage |-> "unlink", todo |-> deleted, hand |-> NoFile] ELSE NoFlush
    /\ UNCHANGED <<today, active, days, dirtyDays, deleted, disk, points, crashes, refused, failing>>

\* start() again in the same process: the samples in memory are still there.
StartAgain ==
    /\ phase = "stopped" /\ phase' = "running"
    /\ UNCHANGED <<today, active, days, dirtyDays, deleted, disk, flush, points, crashes, refused, failing>>

\* The process ends, at any moment, and another restores what it finds: the files
\* of the watchlist first, as many as fit.  Days that are over are removed.
Restart ==
    /\ crashes < MaxCrashes /\ crashes' = crashes + 1
    /\ LET found == {f \in File : disk[f] # 0}
           usable == {f \in found : f[2] \in Window}
       IN \E read \in SUBSET usable :
             /\ Cardinality(read) <= MaxDays
             /\ read = usable \/ Cardinality(read) = MaxDays
             /\ \A f \in read, g \in usable \ read : g[1] \in active => f[1] \in active
             /\ days' = [f \in File |-> IF f \in read THEN disk[f] ELSE 0]
             /\ deleted' = found \ usable /\ refused' = usable \ read
    /\ dirtyDays' = {} /\ flush' = NoFlush /\ phase' = "running" /\ failing' = FALSE
    /\ UNCHANGED <<today, active, disk, points>>

Retain(list) ==
    /\ phase = "running" /\ list # active /\ active' = list
    /\ UNCHANGED <<today, days, dirtyDays, deleted, disk, flush, phase, points, crashes, refused, failing>>

NextDay ==
    /\ today < LastDay /\ today' = today + 1
    /\ UNCHANGED <<active, days, dirtyDays, deleted, disk, flush, phase, points, crashes, refused, failing>>

SampleNext ==
    \/ \E s \in SsSymbols, d \in 1..LastDay : Accept(s, d)
    \/ \E f \in File, ok \in BOOLEAN : Unlink(f, ok)
    \/ \E job \in flush.todo : flush.stage = "write" /\ TakeJob(job)
    \/ \E ok \in BOOLEAN : Written(ok)
    \/ \E list \in SUBSET SsSymbols : Retain(list)
    \/ Minute \/ ToWrite \/ Stop \/ FlushEnds \/ StartAgain \/ Restart \/ NextDay

SampleSpec == SampleInit /\ [][SampleNext]_ssVars
----------------------------------------------------------------------------
(* A day that nobody has to write or remove is on disk as it is in memory, whatever *)
(* changed it, evicted it or pruned it while a flush was writing it, and whatever    *)
(* the flush of an earlier turn still wrote.  So a crash loses only what is dirty.   *)
CleanDaysAreOnDisk ==
    \A f \in File \ (dirtyDays \cup deleted \cup refused) : disk[f] = days[f]

(* stop() saves everything: when no write failed, its two flushes leave nothing to   *)
(* write or remove, also when the first was one that had begun before.               *)
StopSavesEverything ==
    phase = "stopped" /\ ~failing => dirtyDays = {} /\ deleted = {}
=============================================================================
