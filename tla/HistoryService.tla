--------------------------- MODULE HistoryService ---------------------------
(* The histories of one symbol, lib/history-service.js: two cached windows, the  *)
(* recent one ("near") and the wide one ("long"), filled by jobs of different     *)
(* request contracts that may run at the same time.                               *)
(*                                                                                *)
(* A window is where it begins and ends (days 0..Today), whether it was read for   *)
(* a page before a cursor, and which read of the source it shows.  Rows, events    *)
(* and byte counts are left out; where they decide, either outcome may happen.     *)
(* The source keeps its identity.  A cooldown is of the whole symbol.  The queue   *)
(* of jobs is TaskQueue: here a job starts when a place is free.                   *)
EXTENDS Naturals, FiniteSets

CONSTANTS
    HsReaders,     \* calls of get()
    HsJobs,        \* jobs
    MaxActive,     \* 2: HISTORY_MAX_ACTIVE
    Today,
    Cursor,        \* the day the pages asked for end before; an older page exists
    MaxSourceReads,   \* bound: reads of the source
    MaxLives,      \* bound: closes and invalidations
    NoWindow, NoJobYet

ASSUME HistoryAssumption == /\ {MaxActive, Today} \subseteq Nat \ {0}
                            /\ Cursor \in 2..Today
                            /\ NoWindow \notin Nat

VARIABLES
    near, long,    \* the cached windows
    cooling,       \* a failure of the source forbids reads for now
    hsJob,         \* per job: [stage, contract, gen, owners, prior, mode, read, life]
    keyed,         \* rawInflight: the jobs other calls may join
    hsReader,      \* per call: [stage, contract, job, got]
    hsClosed, hsGen,
    sourceReads,   \* reads begun so far
    life           \* history: closes and invalidations so far
hsVars == <<near, long, cooling, hsJob, keyed, hsReader, hsClosed, hsGen, sourceReads, life>>

\* What get() asks for: the recent days, the wide window, a page before the cursor.
Contract == [tier : {"near", "long"}, from : 0..Today, page : BOOLEAN]
Recent == [tier |-> "near", from |-> Today, page |-> FALSE]
Wide == [tier |-> "long", from |-> 0, page |-> FALSE]
Page == [tier |-> "long", from |-> Cursor - 1, page |-> TRUE]

\* Daily bars: the range grows until the count is met, here once (expansions < 3).
Bounded(c) == c.tier = "near" \/ c.page
Expanded(c) == c.from < IF c.page THEN Cursor - 1 ELSE Today

NewJob == [stage |-> "none", contract |-> Recent, gen |-> 0, owners |-> <<NoWindow, NoWindow>>,
           prior |-> NoWindow, mode |-> "full", read |-> 0, life |-> 0]
NewReader == [stage |-> "idle", contract |-> Recent, job |-> NoJobYet, got |-> NoWindow]

Lookup(tier) == LET own == IF tier = "near" THEN near ELSE long
                    other == IF tier = "near" THEN long ELSE near
                IN IF own # NoWindow THEN own ELSE other

Until(c) == IF c.page THEN Cursor - 1 ELSE Today

\* separateWindow(): a page from before the window, with a gap between them.
Separate(w, c) == w # NoWindow /\ c.page /\ Cursor < w.from

\* coversFreshRequest(); more: the source pages and the window holds too little.
Covers(w, c, more) ==
    /\ w # NoWindow /\ w.through >= Until(c) /\ ~Separate(w, c) /\ ~more
    /\ ~(w.page /\ ~c.page) /\ w.from <= c.from /\ w.fresh

Running == {j \in HsJobs : hsJob[j].stage \in {"reading", "zombie"}}
Calm == \A r \in HsReaders : hsReader[r].stage # "has"   \* no continuation is due

HistoryInit ==
    /\ near = NoWindow /\ long = NoWindow /\ cooling = FALSE
    /\ hsJob = [j \in HsJobs |-> NewJob] /\ keyed = {}
    /\ hsReader = [r \in HsReaders |-> NewReader]
    /\ hsClosed = FALSE /\ hsGen = 0 /\ sourceReads = 0 /\ life = 0
----------------------------------------------------------------------------
\* ensureRaw(): a window that covers the request, a job to join, or a new job.
\* A cooldown or a full queue (HISTORY_BUSY) ends the call with what is cached.
Takes(r, c, w) == hsReader' = [hsReader EXCEPT ![r] = [stage |-> "has", contract |-> c,
                                                       job |-> NoJobYet, got |-> w]]
Waits(r, c, j) == hsReader' = [hsReader EXCEPT ![r] = [stage |-> "waits", contract |-> c,
                                                       job |-> j, got |-> NoWindow]]
Joinable(c) == {j \in keyed : hsJob[j].contract = c}
Covering(c) == {more \in {FALSE, c.tier = "long"} : Covers(Lookup(c.tier), c, more)}

Ensure(r, c) ==
    \/ /\ Covering(c) # {}
       /\ Takes(r, c, Lookup(c.tier))
       /\ UNCHANGED <<hsJob, keyed>>
    \/ /\ FALSE \notin Covering(c) \/ c.tier = "long"
       /\ ~cooling
       /\ \/ \E j \in Joinable(c) : Waits(r, c, j) /\ UNCHANGED <<hsJob, keyed>>
          \/ /\ Joinable(c) = {}
             /\ \E j \in HsJobs :
                   /\ hsJob[j].stage = "none"
                   /\ hsJob' = [hsJob EXCEPT ![j] = [NewJob EXCEPT !.stage = "queued",
                                   !.contract = c, !.gen = hsGen, !.life = life]]
                   /\ keyed' = keyed \cup {j}
                   /\ Waits(r, c, j)
    \/ /\ Covering(c) = {} \/ c.tier = "long"
       /\ hsReader' = [hsReader EXCEPT ![r] = NewReader]
       /\ UNCHANGED <<hsJob, keyed>>

\* get(): force makes the window due.
Get(r, c, force) ==
    /\ Calm /\ ~hsClosed /\ hsReader[r].stage = "idle"
    /\ LET w == Lookup(c.tier) IN
       IF force /\ w # NoWindow /\ w.fresh
       THEN /\ near' = IF near = w THEN [near EXCEPT !.fresh = FALSE] ELSE near
            /\ long' = IF long = w THEN [long EXCEPT !.fresh = FALSE] ELSE long
            /\ UNCHANGED <<hsJob, keyed, hsReader>>
       ELSE Ensure(r, c) /\ UNCHANGED <<near, long>>
    /\ UNCHANGED <<cooling, hsClosed, hsGen, sourceReads, life>>

\* The queue gives the job a place: by now a window may cover it, or a cooldown
\* may have begun.  Otherwise it notes the windows it may replace and reads.
Answer(readers, w) ==
    hsReader' = [r \in HsReaders |->
        IF r \notin readers THEN hsReader[r]
        ELSE IF w = NoWindow THEN NewReader
        ELSE [hsReader[r] EXCEPT !.stage = "has", !.job = NoJobYet, !.got = w]]
ReadersOf(j) == {r \in HsReaders : hsReader[r].stage = "waits" /\ hsReader[r].job = j}

Ended(j) == hsJob' = [hsJob EXCEPT ![j] = NewJob] /\ keyed' = keyed \ {j}

Mode(prior, c, more, fullDue) ==
    CASE Separate(prior, c) -> "detached"
      [] prior # NoWindow /\ ~Separate(prior, c) /\ more /\ ~(prior.page /\ ~c.page) -> "backfill"
      [] OTHER -> IF \/ prior = NoWindow
                     \/ fullDue \/ c.from < prior.from \/ (prior.page /\ ~c.page)
                  THEN "full" ELSE "tail"

StartJob(j) ==
    /\ Calm /\ hsJob[j].stage = "queued" /\ Cardinality(Running) < MaxActive
    /\ LET c == hsJob[j].contract
           prior == Lookup(c.tier)
       IN \E more \in {FALSE, c.tier = "long"}, fullDue \in BOOLEAN :
            \/ /\ Covers(prior, c, more)
               /\ Answer(ReadersOf(j), prior) /\ Ended(j)
               /\ UNCHANGED sourceReads
            \/ /\ ~Covers(prior, c, more) /\ cooling
               /\ Answer(ReadersOf(j), NoWindow) /\ Ended(j)
               /\ UNCHANGED sourceReads
            \/ /\ ~Covers(prior, c, more) /\ ~cooling
               /\ sourceReads < MaxSourceReads
               /\ sourceReads' = sourceReads + 1
               /\ hsJob' = [hsJob EXCEPT ![j].stage = "reading", ![j].prior = prior,
                               ![j].mode = Mode(prior, c, more, fullDue),
                               ![j].owners = <<near, long>>, ![j].read = sourceReads + 1]
               /\ UNCHANGED <<keyed, hsReader>>
    /\ UNCHANGED <<near, long, cooling, hsClosed, hsGen, life>>

\* What the job has in hand when its source answers.
Raw(j) ==
    LET c == hsJob[j].contract
        prior == hsJob[j].prior
        read(from, until, page, at) == [from |-> from, through |-> until, page |-> page, read |-> at,
                                        fresh |-> TRUE, life |-> hsJob[j].life]
        now == hsJob[j].read
    IN CASE hsJob[j].mode = "detached" -> read(c.from, Until(c), TRUE, now)
         [] hsJob[j].mode = "backfill" -> read(IF c.from < prior.from THEN c.from ELSE prior.from,
                                               prior.through, FALSE, prior.read)
         [] hsJob[j].mode = "full" ->
              IF prior = NoWindow THEN read(c.from, Until(c), c.page, now)
              ELSE read(IF prior.from < c.from THEN prior.from ELSE c.from, Today, c.page, now)
         [] hsJob[j].mode = "tail" -> read(prior.from, Today, prior.page, now)

\* retainRaw().  The other window is dropped when rows or events disagree, takes
\* over what changed, or is confirmed by a wide read that reaches as far.
Renewed(w, raw) == [w EXCEPT !.read = raw.read, !.through = raw.through, !.fresh = raw.fresh]
Others(w, raw, tier) ==
    IF w = NoWindow THEN {NoWindow}
    ELSE {NoWindow} \cup (IF raw.through >= w.from THEN {Renewed(w, raw)} ELSE {})
                    \cup (IF tier = "long" /\ raw.through >= w.through THEN {} ELSE {w})
\* remember(): what is too large goes in without its oldest part, or not at all.
Fitting(raw, old) ==
    {raw, NoWindow} \cup IF old # NoWindow /\ raw.from <= old.from /\ raw.through >= old.through
                         THEN {[raw EXCEPT !.from = old.from]} ELSE {}
Trimmed(raw) ==
    {raw, NoWindow} \cup IF raw.from < Today /\ raw.through = Today
                         THEN {[raw EXCEPT !.from = Today, !.page = FALSE]} ELSE {}

Retain(raw, tier) ==
    IF tier = "long"
    THEN \E other \in Others(near, raw, tier) :
            /\ long' \in Fitting(raw, long)
            /\ near' \in IF other # NoWindow THEN {other} ELSE Trimmed(raw)
    ELSE /\ long' \in Others(long, raw, tier)
         /\ near' \in Trimmed(raw)

\* A job that began earlier publishes as if nothing had happened.
SupersededBug(j) == FALSE

\* Another result has replaced or confirmed a window since this job began.
Superseded(j) ==
    \/ near # NoWindow /\ near # hsJob[j].owners[1]
       /\ (hsJob[j].owners[1] = NoWindow \/ near.read # hsJob[j].owners[1].read)
    \/ long # NoWindow /\ long # hsJob[j].owners[2]
       /\ (hsJob[j].owners[2] = NoWindow \/ long.read # hsJob[j].owners[2].read)

\* invalidate() and close() are noticed by whoever waits only.
LivesBug(j) == hsJob[j].stage \in {"reading", "zombie"} /\ ~hsClosed /\ hsJob[j].gen = hsGen

\* The source answers.  A job that was given up or is of an earlier generation
\* publishes nothing.
Lives(j) == hsJob[j].stage = "reading" /\ ~hsClosed /\ hsJob[j].gen = hsGen

ReadSucceeds(j) ==
    /\ Calm /\ hsJob[j].stage \in {"reading", "zombie"}
    /\ IF Lives(j)
       THEN /\ cooling' = FALSE
            /\ Answer(ReadersOf(j), Raw(j))
            /\ IF \/ hsJob[j].mode = "detached" \/ Superseded(j)
                  \/ Separate(Lookup(hsJob[j].contract.tier), hsJob[j].contract)
               THEN UNCHANGED <<near, long>>
               ELSE Retain(Raw(j), hsJob[j].contract.tier)
       ELSE UNCHANGED <<cooling, near, long, hsReader>>
    /\ Ended(j)
    /\ UNCHANGED <<hsClosed, hsGen, sourceReads, life>>

\* A failure, or the deadline of the job: a cooldown begins and the windows stay;
\* the mark they get makes them due, as Ages does.  Whoever waits is answered at
\* once; the source may answer much later.
ReadFails(j, deadline) ==
    /\ Calm /\ Lives(j)
    /\ cooling' = TRUE
    /\ Answer(ReadersOf(j), NoWindow)
    /\ hsJob' = [hsJob EXCEPT ![j] = IF deadline THEN [@ EXCEPT !.stage = "zombie"] ELSE NewJob]
    /\ keyed' = keyed \ {j}
    /\ UNCHANGED <<near, long, hsClosed, hsGen, sourceReads, life>>

\* The abort of jobs: those that wait leave the queue, the others keep their place.
Aborted(gone) ==
    /\ hsJob' = [j \in HsJobs |-> IF j \notin gone THEN hsJob[j]
                                  ELSE IF hsJob[j].stage = "reading"
                                  THEN [hsJob[j] EXCEPT !.stage = "zombie"] ELSE NewJob]
    /\ keyed' = keyed \ gone

\* Whoever leaves takes the job with it.
TakenAlongBug(r) == {hsReader[r].job}
TakenAlong(r) == IF ReadersOf(hsReader[r].job) = {r} THEN {hsReader[r].job} ELSE {}

\* A caller gives up; the last one takes its job with it.
ReaderLeaves(r) ==
    /\ Calm /\ hsReader[r].stage = "waits"
    /\ Aborted(TakenAlong(r))
    /\ hsReader' = [hsReader EXCEPT ![r] = NewReader]
    /\ UNCHANGED <<near, long, cooling, hsClosed, hsGen, sourceReads, life>>

\* get() goes on in the same turn: it has enough bars; or they are too few and it
\* asks again, for a longer range; or it has asked often enough and keeps what it
\* has, marked, whatever the windows are by now.  (What a job brings always covers
\* the range it was asked for.)
GoesOn(r) ==
    LET c == hsReader[r].contract
        raw == hsReader[r].got
    IN /\ hsReader[r].stage = "has"
       /\ \/ /\ hsReader' = [hsReader EXCEPT ![r] = NewReader]
             /\ UNCHANGED <<near, long, hsJob, keyed>>
          \/ /\ Bounded(c) /\ ~Expanded(c)
             /\ Ensure(r, [c EXCEPT !.from = c.from - 1])
             /\ UNCHANGED <<near, long>>
          \/ /\ Bounded(c) /\ Expanded(c)
             /\ Retain(raw, c.tier)
             /\ hsReader' = [hsReader EXCEPT ![r] = NewReader]
             /\ UNCHANGED <<hsJob, keyed>>
       /\ UNCHANGED <<cooling, hsClosed, hsGen, sourceReads, life>>
----------------------------------------------------------------------------
\* Time: a window is due again, a cooldown ends.  Other symbols push a window out.
Ages ==
    /\ Calm
    /\ \/ near # NoWindow /\ near' = [near EXCEPT !.fresh = FALSE] /\ UNCHANGED <<long, cooling>>
       \/ long # NoWindow /\ long' = [long EXCEPT !.fresh = FALSE] /\ UNCHANGED <<near, cooling>>
       \/ cooling /\ cooling' = FALSE /\ UNCHANGED <<near, long>>
    /\ UNCHANGED <<hsJob, keyed, hsReader, hsClosed, hsGen, sourceReads, life>>

Evict ==
    /\ Calm
    /\ \/ near # NoWindow /\ near' = NoWindow /\ UNCHANGED long
       \/ long # NoWindow /\ long' = NoWindow /\ UNCHANGED near
    /\ UNCHANGED <<cooling, hsJob, keyed, hsReader, hsClosed, hsGen, sourceReads, life>>

Empty(gone) ==
    /\ life < MaxLives /\ life' = life + 1
    /\ near' = NoWindow /\ long' = NoWindow /\ cooling' = FALSE
    /\ Aborted(gone)
    /\ hsReader' = [r \in HsReaders |-> IF hsReader[r].job \in gone THEN NewReader ELSE hsReader[r]]

Invalidate ==
    /\ Calm /\ Empty(keyed)
    /\ UNCHANGED <<hsClosed, hsGen, sourceReads>>

CloseHistory ==
    /\ Calm /\ ~hsClosed /\ Empty({j \in HsJobs : hsJob[j].stage \in {"queued", "reading"}})
    /\ hsClosed' = TRUE /\ hsGen' = hsGen + 1
    /\ UNCHANGED sourceReads

ReopenHistory ==
    /\ Calm /\ hsClosed /\ hsClosed' = FALSE
    /\ UNCHANGED <<near, long, cooling, hsJob, keyed, hsReader, hsGen, sourceReads, life>>

HistoryNext ==
    \/ \E r \in HsReaders : \/ GoesOn(r) \/ ReaderLeaves(r)
                            \/ \E c \in {Recent, Wide, Page}, force \in BOOLEAN : Get(r, c, force)
    \/ \E j \in HsJobs : \/ StartJob(j) \/ ReadSucceeds(j)
                         \/ \E deadline \in BOOLEAN : ReadFails(j, deadline)
    \/ Ages \/ Evict \/ Invalidate \/ CloseHistory \/ ReopenHistory

HistorySpec == HistoryInit /\ [][HistoryNext]_hsVars
----------------------------------------------------------------------------
(* A job that was overtaken keeps its hands off: a window that shows a later read  *)
(* than the job's own is left as it is when the job ends, for better or worse.     *)
OvertakenPublishesNothing ==
    [][\A j \in HsJobs :
          (Lives(j) /\ hsJob'[j].stage = "none")
            => /\ (near # NoWindow /\ near.read > hsJob[j].read) => near' = near
               /\ (long # NoWindow /\ long.read > hsJob[j].read) => long' = long]_hsVars

(* After close() or invalidate() nothing of before comes back: what is cached was  *)
(* read by a job of this life, and a closed service has nothing.                   *)
NothingOfBefore ==
    /\ \A w \in {near, long} : w # NoWindow => w.life = life
    /\ hsClosed => near = NoWindow /\ long = NoWindow /\ ~cooling

(* Every caller that waits waits for a job that will answer it: no other caller's   *)
(* leaving, no restart and no job of the same contract takes it away; and there is  *)
(* one such job per contract.                                                       *)
CallersHaveTheirJob ==
    /\ \A r \in HsReaders : hsReader[r].stage = "waits" => hsReader[r].job \in keyed
    /\ \A j \in keyed : hsJob[j].stage \in {"queued", "reading"} /\ ReadersOf(j) # {}
    /\ \A j, k \in keyed : j # k => hsJob[j].contract # hsJob[k].contract
    /\ Cardinality(Running) <= MaxActive

(* "an explicit jump ... is a separate source window. Do not ... evict the latest    *)
(* one." (lib/history-service.js:278)  A window that reaches today is not replaced    *)
(* by a page that does not.                                                           *)
LatestWindowKept ==
    [][(long # NoWindow /\ long.through = Today /\ long' # NoWindow) => long'.through = Today]_hsVars
=============================================================================
