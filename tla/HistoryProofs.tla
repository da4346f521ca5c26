---------------------------- MODULE HistoryProofs ----------------------------
(***************************************************************************)
(* The histories of a symbol: what the windows promise over closes and     *)
(* invalidations, and what its jobs promise their callers, for any calls,   *)
(* jobs and days; and what the prewarm promises of the lists it saves, for  *)
(* any symbols, owners, requests, members, workers and starts.              *)
(***************************************************************************)
EXTENDS HistoryService, HistoryPrewarm, FiniteSetTheorems, TLAPS

Windows == [from : Nat, through : Nat, page : BOOLEAN, read : Nat, fresh : BOOLEAN, life : Nat]
Cached == Windows \cup {NoWindow}
Jobs == [stage : {"none", "queued", "reading", "zombie"}, contract : Contract, gen : Nat,
         owners : Cached \X Cached, prior : Cached,
         mode : {"detached", "backfill", "full", "tail"}, read : Nat, life : Nat]
Readers == [stage : {"idle", "waits", "has"}, contract : Contract,
            job : HsJobs \cup {NoJobYet}, got : Cached]

HsTypeOK ==
    /\ near \in Cached /\ long \in Cached /\ cooling \in BOOLEAN
    /\ hsJob \in [HsJobs -> Jobs] /\ keyed \subseteq HsJobs
    /\ hsReader \in [HsReaders -> Readers]
    /\ hsClosed \in BOOLEAN /\ hsGen \in Nat /\ sourceReads \in Nat /\ life \in Nat

\* What is cached is of this life, and of a read that has begun.
Good(w) == w = NoWindow \/ (w \in Windows /\ w.life = life /\ w.read <= sourceReads)

\* The jobs others may join are those that wait or read; they are of this life, and
\* the windows such a job may replace were read before it.
JobIsGood(j) ==
    /\ j \in keyed <=> hsJob[j].stage \in {"queued", "reading"}
    /\ j \in keyed => hsJob[j].life = life /\ hsJob[j].gen = hsGen
    /\ hsJob[j].stage = "reading" =>
          /\ hsJob[j].read <= sourceReads
          /\ hsJob[j].prior # NoWindow => hsJob[j].prior.read <= sourceReads
          /\ hsJob[j].mode \in {"backfill", "tail"} => hsJob[j].prior # NoWindow
          /\ \A i \in {1, 2} : hsJob[j].owners[i] # NoWindow => hsJob[j].owners[i].read < hsJob[j].read

\* A call waits for such a job, or has a window in hand.
ReaderIsGood(r) ==
    /\ hsReader[r].stage = "waits" => hsReader[r].job \in keyed
    /\ hsReader[r].stage = "has" => hsReader[r].got # NoWindow /\ Good(hsReader[r].got)

\* A job that others may join has somebody who waits, and is the only one of its kind.
JobsAreWanted ==
    /\ \A j \in keyed : ReadersOf(j) # {}
    /\ \A j, k \in keyed : j # k => hsJob[j].contract # hsJob[k].contract

ClosedIsEmpty == hsClosed => near = NoWindow /\ long = NoWindow /\ ~cooling /\ keyed = {} /\ Calm

PlacesAreKept == IsFiniteSet(Running) /\ Cardinality(Running) <= MaxActive

HistoryInv ==
    /\ HsTypeOK /\ Good(near) /\ Good(long)
    /\ \A j \in HsJobs : JobIsGood(j)
    /\ \A r \in HsReaders : ReaderIsGood(r)
    /\ JobsAreWanted /\ ClosedIsEmpty /\ PlacesAreKept
-----------------------------------------------------------------------------
\* The two halves of the invariant after a step.
WindowsKept ==
    /\ near' \in Cached /\ long' \in Cached /\ cooling' \in BOOLEAN
    /\ Good(near)' /\ Good(long)'
    /\ hsClosed' => near' = NoWindow /\ long' = NoWindow /\ ~cooling'

JobsKept ==
    /\ hsJob' \in [HsJobs -> Jobs] /\ keyed' \subseteq HsJobs
    /\ hsReader' \in [HsReaders -> Readers]
    /\ hsClosed' \in BOOLEAN /\ hsGen' \in Nat /\ sourceReads' \in Nat /\ life' \in Nat
    /\ \A j \in HsJobs : JobIsGood(j)'
    /\ \A r \in HsReaders : ReaderIsGood(r)'
    /\ JobsAreWanted' /\ PlacesAreKept'
    /\ hsClosed' => keyed' = {} /\ Calm'

LEMMA BothKept == ASSUME WindowsKept, JobsKept PROVE HistoryInv'
BY DEF WindowsKept, JobsKept, HistoryInv, HsTypeOK, ClosedIsEmpty

LEMMA NewIsTyped ==
    /\ NewJob \in Jobs /\ NewJob.stage = "none" /\ NewReader \in Readers /\ NewReader.stage = "idle"
    /\ Recent \in Contract /\ Wide \in Contract /\ Page \in Contract
    /\ Today \in Nat /\ Cursor \in Nat
<1>1. /\ Today \in Nat \ {0} /\ Cursor \in 2..Today
  BY HistoryAssumption
<1>2. /\ Cursor - 1 \in 0..Today /\ Today \in 0..Today /\ 0 \in 0..Today /\ Cursor \in Nat
  BY <1>1
<1>3. Recent \in Contract /\ Wide \in Contract /\ Page \in Contract
  BY <1>2 DEF Recent, Wide, Page, Contract
<1>4. <<NoWindow, NoWindow>> \in Cached \X Cached /\ NoWindow \in Cached
  BY DEF Cached
<1>5. NewJob \in Jobs /\ NewJob.stage = "none"
  BY <1>3, <1>4 DEF NewJob, Jobs
<1>6. NewReader \in Readers /\ NewReader.stage = "idle"
  BY <1>3, <1>4 DEF NewReader, Readers
<1>7. QED
  BY <1>1, <1>2, <1>3, <1>5, <1>6

LEMMA WindowsUntouched ==
    ASSUME HistoryInv, UNCHANGED <<near, long, cooling, hsClosed, life>>,
           sourceReads' \in Nat, sourceReads' >= sourceReads
    PROVE  WindowsKept
<1>1. sourceReads \in Nat /\ \A w \in Windows : w.read \in Nat
  BY DEF HistoryInv, HsTypeOK, Windows
<1>2. QED
  BY <1>1 DEF HistoryInv, HsTypeOK, Good, WindowsKept, ClosedIsEmpty

LEMMA JobsUntouched ==
    ASSUME HistoryInv, UNCHANGED <<hsJob, keyed, hsReader, hsGen, sourceReads, life>>,
           hsClosed' \in BOOLEAN, hsClosed' => hsClosed
    PROVE  JobsKept
<1>1. UNCHANGED <<Running, Calm>> /\ \A j : ReadersOf(j)' = ReadersOf(j)
  BY DEF Running, Calm, ReadersOf
<1>2. QED
  BY <1>1 DEF HistoryInv, HsTypeOK, JobsKept, ClosedIsEmpty, JobIsGood, ReaderIsGood, Good,
              JobsAreWanted, PlacesAreKept
-----------------------------------------------------------------------------
(* No job takes a place but by starting.                                               *)
LEMMA PlacesStay ==
    ASSUME HistoryInv,
           \A j \in HsJobs : hsJob'[j].stage \in {"reading", "zombie"}
                                => hsJob[j].stage \in {"reading", "zombie"}
    PROVE  PlacesAreKept'
<1>1. Running' \subseteq Running
  BY DEF Running
<1>2. IsFiniteSet(Running) /\ Cardinality(Running) <= MaxActive
  BY DEF HistoryInv, PlacesAreKept
<1>3. /\ IsFiniteSet(Running') /\ Cardinality(Running') <= Cardinality(Running)
      /\ Cardinality(Running) \in Nat /\ Cardinality(Running') \in Nat
  BY <1>1, <1>2, FS_Subset, FS_CardinalityType
<1>4. QED
  BY <1>2, <1>3, HistoryAssumption DEF PlacesAreKept

LEMMA PlaceTaken ==
    ASSUME HistoryInv, NEW j \in HsJobs, Cardinality(Running) < MaxActive,
           \A k \in HsJobs : k # j => hsJob'[k] = hsJob[k]
    PROVE  PlacesAreKept'
<1> DEFINE more == Running \cup {j}
<1>1. Running' \subseteq more
  BY DEF Running
<1>2. IsFiniteSet(Running)
  BY DEF HistoryInv, PlacesAreKept
<1>3. /\ IsFiniteSet(more) /\ Cardinality(Running) \in Nat
      /\ Cardinality(more) = Cardinality(Running) \/ Cardinality(more) = Cardinality(Running) + 1
  BY <1>2, FS_AddElement, FS_CardinalityType
<1> HIDE DEF more
<1>4. /\ IsFiniteSet(Running') /\ Cardinality(Running') <= Cardinality(more)
      /\ Cardinality(Running') \in Nat /\ Cardinality(more) \in Nat
  BY <1>1, <1>3, FS_Subset, FS_CardinalityType
<1>5. QED
  BY <1>3, <1>4, HistoryAssumption DEF PlacesAreKept

(* Whoever waited for a job is answered, and nobody else.                              *)
LEMMA AnsweredIsTyped ==
    ASSUME HistoryInv, NEW readers \in SUBSET HsReaders, NEW w \in Cached, Answer(readers, w)
    PROVE  /\ hsReader' \in [HsReaders -> Readers]
           /\ \A r \in HsReaders : IF r \in readers
                 THEN \/ hsReader'[r].stage = "idle"
                      \/ w # NoWindow /\ hsReader'[r].stage = "has" /\ hsReader'[r].got = w
                 ELSE hsReader'[r] = hsReader[r]
<1>1. hsReader \in [HsReaders -> Readers]
  BY DEF HistoryInv, HsTypeOK
<1>2. hsReader' = [r \in HsReaders |-> hsReader'[r]]
  BY DEF Answer
<1>3. ASSUME NEW r \in HsReaders
      PROVE  /\ hsReader'[r] \in Readers
             /\ r \notin readers => hsReader'[r] = hsReader[r]
             /\ r \in readers => \/ hsReader'[r].stage = "idle"
                                 \/ w # NoWindow /\ hsReader'[r].stage = "has" /\ hsReader'[r].got = w
  <2>1. CASE r \notin readers
    BY <1>1, <2>1 DEF Answer
  <2>2. CASE r \in readers /\ w = NoWindow
    BY <2>2, NewIsTyped DEF Answer
  <2>3. CASE r \in readers /\ w # NoWindow
    <3> DEFINE x == hsReader[r]
    <3>1. hsReader'[r] = [x EXCEPT !.stage = "has", !.job = NoJobYet, !.got = w] /\ x \in Readers
      BY <1>1, <2>3 DEF Answer
    <3> HIDE DEF x
    <3>2. hsReader'[r] \in Readers /\ hsReader'[r].stage = "has" /\ hsReader'[r].got = w
      BY <3>1 DEF Readers
    <3>3. QED
      BY <2>3, <3>2
  <2>4. QED
    BY <2>1, <2>2, <2>3
<1>4. QED
  BY <1>2, <1>3

(* A job ends, or loses its readers, and they are answered.                            *)
LEMMA AnswerKeeps ==
    ASSUME HistoryInv, NEW j \in HsJobs, NEW w \in Cached, Good(w), Answer(ReadersOf(j), w),
           ~hsClosed, hsJob' \in [HsJobs -> Jobs], keyed' = keyed \ {j},
           \A k \in HsJobs : k # j => hsJob'[k] = hsJob[k],
           hsJob'[j].stage = "none" \/ (hsJob'[j].stage = "zombie" /\ hsJob[j].stage = "reading"),
           UNCHANGED <<hsClosed, hsGen, sourceReads, life>>
    PROVE  JobsKept
<1>1. /\ hsJob \in [HsJobs -> Jobs] /\ ReadersOf(j) \in SUBSET HsReaders
      /\ hsReader' \in [HsReaders -> Readers]
      /\ keyed \subseteq HsJobs
      /\ hsClosed \in BOOLEAN /\ hsGen \in Nat /\ sourceReads \in Nat /\ life \in Nat
  BY AnsweredIsTyped DEF ReadersOf, HistoryInv, HsTypeOK
<1>2. \A r \in HsReaders : IF r \in ReadersOf(j)
          THEN \/ hsReader'[r].stage = "idle"
               \/ w # NoWindow /\ hsReader'[r].stage = "has" /\ hsReader'[r].got = w
          ELSE hsReader'[r] = hsReader[r]
  BY <1>1, AnsweredIsTyped
<1>4. \A k \in HsJobs : JobIsGood(k)'
  BY DEF HistoryInv, JobIsGood
<1>5. ASSUME NEW r \in HsReaders PROVE ReaderIsGood(r)'
  <2>1. CASE r \in ReadersOf(j)
    BY <1>2, <2>1 DEF ReaderIsGood, Good
  <2>2. CASE r \notin ReadersOf(j)
    BY <1>2, <2>2 DEF ReaderIsGood, Good, HistoryInv, ReadersOf
  <2>3. QED
    BY <2>1, <2>2
<1>6. \A k \in keyed' : ReadersOf(k)' = ReadersOf(k)
  BY <1>1, <1>2 DEF ReadersOf
<1>7. JobsAreWanted'
  BY <1>1, <1>6 DEF JobsAreWanted, HistoryInv
<1>8. PlacesAreKept'
  BY PlacesStay
<1>9. QED
  BY <1>1, <1>4, <1>5, <1>7, <1>8 DEF JobsKept

LEMMA JobAnswered ==
    ASSUME HistoryInv, ~hsClosed, NEW j \in HsJobs, NEW w \in Cached, Good(w),
           Answer(ReadersOf(j), w), Ended(j), UNCHANGED <<hsClosed, hsGen, sourceReads, life>>
    PROVE  JobsKept
<1>1. /\ hsJob' \in [HsJobs -> Jobs] /\ hsJob'[j] = NewJob
      /\ \A k \in HsJobs : k # j => hsJob'[k] = hsJob[k]
  BY NewIsTyped DEF Ended, HistoryInv, HsTypeOK
<1>2. keyed' = keyed \ {j}
  BY DEF Ended
<1>3. QED
  BY <1>1, <1>2, NewIsTyped, AnswerKeeps

(* A call takes what is there, joins a job, begins one, or ends.                        *)
LEMMA ReaderSteps ==
    ASSUME HistoryInv, NEW r \in HsReaders, hsReader[r].stage # "waits",
           NEW x \in Readers, hsReader' = [hsReader EXCEPT ![r] = x],
           x.stage = "waits" => x.job \in keyed,
           x.stage = "has" => x.got # NoWindow /\ Good(x.got),
           UNCHANGED <<hsJob, keyed, hsClosed, hsGen, sourceReads, life>>,
           hsClosed => x.stage # "has"
    PROVE  JobsKept
<1>1. /\ hsReader \in [HsReaders -> Readers] /\ hsReader' \in [HsReaders -> Readers]
      /\ hsReader'[r] = x /\ \A q \in HsReaders : q # r => hsReader'[q] = hsReader[q]
  BY DEF HistoryInv, HsTypeOK
<1>2. \A q \in HsReaders : ReaderIsGood(q)'
  BY <1>1 DEF HistoryInv, ReaderIsGood, Good
<1>3. \A j \in keyed : ReadersOf(j) \subseteq ReadersOf(j)'
  BY <1>1 DEF ReadersOf
<1>4. JobsAreWanted'
  BY <1>3 DEF HistoryInv, JobsAreWanted
<1>5. \A j \in HsJobs : JobIsGood(j)'
  BY DEF HistoryInv, JobIsGood
<1>6. PlacesAreKept'
  BY PlacesStay
<1>7. hsClosed' => keyed' = {} /\ Calm'
  BY <1>1 DEF HistoryInv, ClosedIsEmpty, Calm
<1>8. QED
  BY <1>1, <1>2, <1>4, <1>5, <1>6, <1>7 DEF HistoryInv, HsTypeOK, JobsKept

LEMMA LookupIsGood ==
    ASSUME HistoryInv, NEW tier PROVE Lookup(tier) \in Cached /\ Good(Lookup(tier))
BY DEF HistoryInv, HsTypeOK, Lookup

LEMMA JobBegins ==
    ASSUME HistoryInv, ~hsClosed, NEW r \in HsReaders, hsReader[r].stage # "waits",
           NEW c \in Contract, NEW j \in HsJobs, hsJob[j].stage = "none", Joinable(c) = {},
           hsJob' = [hsJob EXCEPT ![j] = [NewJob EXCEPT !.stage = "queued", !.contract = c,
                                             !.gen = hsGen, !.life = life]],
           keyed' = keyed \cup {j}, Waits(r, c, j),
           UNCHANGED <<hsClosed, hsGen, sourceReads, life>>
    PROVE  JobsKept
<1> DEFINE x == [NewJob EXCEPT !.stage = "queued", !.contract = c, !.gen = hsGen, !.life = life]
           y == [stage |-> "waits", contract |-> c, job |-> j, got |-> NoWindow]
<1>1. /\ hsJob \in [HsJobs -> Jobs] /\ hsReader \in [HsReaders -> Readers] /\ keyed \subseteq HsJobs
      /\ hsClosed \in BOOLEAN /\ hsGen \in Nat /\ sourceReads \in Nat /\ life \in Nat
  BY DEF HistoryInv, HsTypeOK
<1>2. /\ x \in Jobs /\ x.stage = "queued" /\ x.contract = c /\ x.gen = hsGen /\ x.life = life
  <2>1. NewJob \in Jobs
    BY NewIsTyped
  <2>2. QED
    BY <1>1, <2>1 DEF Jobs
<1>3. y \in Readers /\ y.stage = "waits" /\ y.job = j
  BY DEF Readers, Cached
<1>4. /\ hsJob' = [hsJob EXCEPT ![j] = x] /\ hsReader' = [hsReader EXCEPT ![r] = y]
  BY DEF Waits
<1> HIDE DEF x, y
<1>5. /\ hsJob' \in [HsJobs -> Jobs] /\ hsReader' \in [HsReaders -> Readers]
      /\ hsJob'[j] = x /\ \A k \in HsJobs : k # j => hsJob'[k] = hsJob[k]
      /\ hsReader'[r] = y /\ \A q \in HsReaders : q # r => hsReader'[q] = hsReader[q]
  BY <1>1, <1>2, <1>3, <1>4
<1>6. j \notin keyed
  BY DEF HistoryInv, JobIsGood
<1>7. \A k \in HsJobs : JobIsGood(k)'
  BY <1>2, <1>5, <1>6 DEF HistoryInv, JobIsGood
<1>8. \A q \in HsReaders : ReaderIsGood(q)'
  BY <1>3, <1>5 DEF HistoryInv, ReaderIsGood, Good
<1>9. JobsAreWanted'
  <2>1. \A k \in keyed : ReadersOf(k) \subseteq ReadersOf(k)' /\ k # j
    BY <1>5, <1>6 DEF ReadersOf
  <2>2. r \in ReadersOf(j)'
    BY <1>3, <1>5 DEF ReadersOf
  <2>3. \A k \in keyed : hsJob'[k].contract = hsJob[k].contract /\ hsJob[k].contract # c
    BY <1>1, <1>5, <1>6 DEF Joinable
  <2>4. \A k \in keyed' : ReadersOf(k)' # {}
    BY <2>1, <2>2 DEF HistoryInv, JobsAreWanted
  <2>5. \A k, l \in keyed' : k # l => hsJob'[k].contract # hsJob'[l].contract
    BY <1>2, <1>5, <2>1, <2>3 DEF HistoryInv, JobsAreWanted
  <2>6. QED
    BY <2>4, <2>5 DEF JobsAreWanted
<1>10. PlacesAreKept'
  BY <1>2, <1>5, PlacesStay
<1>11. QED
  BY <1>1, <1>5, <1>7, <1>8, <1>9, <1>10 DEF JobsKept

LEMMA EnsureKeeps ==
    ASSUME HistoryInv, ~hsClosed, NEW r \in HsReaders, hsReader[r].stage # "waits",
           NEW c \in Contract, Ensure(r, c), UNCHANGED <<hsClosed, hsGen, sourceReads, life>>
    PROVE  JobsKept
<1> DEFINE w == Lookup(c.tier)
           taken == [stage |-> "has", contract |-> c, job |-> NoJobYet, got |-> w]
<1>1. CASE Covering(c) # {} /\ Takes(r, c, w) /\ UNCHANGED <<hsJob, keyed>>
  <2>1. w # NoWindow /\ w \in Cached /\ Good(w)
    BY <1>1, LookupIsGood DEF Covering, Covers
  <2>2. hsReader' = [hsReader EXCEPT ![r] = taken]
    BY <1>1 DEF Takes
  <2> HIDE DEF w
  <2>3. taken \in Readers /\ taken.stage = "has" /\ taken.got = w
    BY <2>1 DEF Readers
  <2> HIDE DEF taken
  <2>4. QED
    BY <1>1, <2>1, <2>2, <2>3, ReaderSteps
<1>2. ASSUME NEW j \in Joinable(c), Waits(r, c, j), UNCHANGED <<hsJob, keyed>> PROVE JobsKept
  <2> DEFINE y == [stage |-> "waits", contract |-> c, job |-> j, got |-> NoWindow]
  <2>1. j \in keyed /\ j \in HsJobs
    BY DEF Joinable, HistoryInv, HsTypeOK
  <2>2. y \in Readers /\ y.stage = "waits" /\ y.job = j
    BY <2>1 DEF Readers, Cached
  <2>3. hsReader' = [hsReader EXCEPT ![r] = y]
    BY <1>2 DEF Waits
  <2> HIDE DEF y
  <2>4. QED
    BY <1>2, <2>1, <2>2, <2>3, ReaderSteps
<1>3. CASE /\ Joinable(c) = {}
           /\ \E j \in HsJobs :
                 /\ hsJob[j].stage = "none"
                 /\ hsJob' = [hsJob EXCEPT ![j] = [NewJob EXCEPT !.stage = "queued",
                                 !.contract = c, !.gen = hsGen, !.life = life]]
                 /\ keyed' = keyed \cup {j}
                 /\ Waits(r, c, j)
  BY <1>3, JobBegins
<1>4. CASE hsReader' = [hsReader EXCEPT ![r] = NewReader] /\ UNCHANGED <<hsJob, keyed>>
  BY <1>4, NewIsTyped, ReaderSteps
<1>5. QED
  BY <1>1, <1>2, <1>3, <1>4 DEF Ensure

-----------------------------------------------------------------------------
\* What is kept of a good window is good, if it is of the same read or of a good one.
Fine(w) == w \in Windows /\ w.life = life /\ w.read <= sourceReads

LEMMA GoodIsFine == \A w : w # NoWindow /\ Good(w) => Fine(w)
BY DEF Good, Fine

LEMMA FineIsGood == \A w : Fine(w) => Good(w) /\ w \in Cached
BY DEF Good, Fine, Cached

LEMMA AgedIsFine == ASSUME NEW w, Fine(w) PROVE Fine([w EXCEPT !.fresh = FALSE])
<1> DEFINE x == [w EXCEPT !.fresh = FALSE]
<1>1. x \in Windows /\ x.life = w.life /\ x.read = w.read
  BY DEF Windows, Fine
<1> HIDE DEF x
<1>2. QED
  BY <1>1 DEF Fine, x

LEMMA RenewedIsFine ==
    ASSUME NEW w, Fine(w), NEW raw, Fine(raw) PROVE Fine(Renewed(w, raw))
<1> DEFINE x == Renewed(w, raw)
           a == [w EXCEPT !.read = raw.read]
           b == [a EXCEPT !.through = raw.through]
<1>1. a \in Windows /\ a.life = w.life /\ a.read = raw.read
  BY DEF Windows, Fine
<1>2. x = [b EXCEPT !.fresh = raw.fresh]
  BY DEF Renewed
<1> HIDE DEF a
<1>3. b \in Windows /\ b.life = a.life /\ b.read = a.read
  BY <1>1 DEF Windows, Fine
<1> HIDE DEF b
<1>4. [b EXCEPT !.fresh = raw.fresh] \in Windows /\ [b EXCEPT !.fresh = raw.fresh].life = b.life
      /\ [b EXCEPT !.fresh = raw.fresh].read = b.read
  BY <1>3 DEF Windows, Fine
<1>5. x \in Windows /\ x.life = b.life /\ x.read = b.read
  BY <1>2, <1>4
<1> HIDE DEF x
<1>6. QED
  BY <1>1, <1>3, <1>5 DEF Fine, x

LEMMA OthersAreGood ==
    ASSUME NEW w \in Cached, Good(w), NEW raw, Fine(raw), NEW tier, NEW x \in Others(w, raw, tier)
    PROVE  x \in Cached /\ Good(x)
<1>1. x = NoWindow \/ (x = w /\ w # NoWindow) \/ (x = Renewed(w, raw) /\ w # NoWindow)
  BY DEF Others
<1>2. w # NoWindow => Fine(w) /\ Fine(Renewed(w, raw))
  BY GoodIsFine, RenewedIsFine
<1>3. x = NoWindow => x \in Cached /\ Good(x)
  BY DEF Cached, Good
<1>4. QED
  BY <1>1, <1>2, <1>3, FineIsGood

LEMMA FittingIsGood ==
    ASSUME NEW old \in Cached, Good(old), NEW raw, Fine(raw), NEW x \in Fitting(raw, old)
    PROVE  x \in Cached /\ Good(x)
<1> DEFINE e == [raw EXCEPT !.from = old.from]
<1>1. x = raw \/ x = NoWindow \/ (old # NoWindow /\ x = e)
  BY DEF Fitting
<1>2. ASSUME old # NoWindow PROVE Fine(e)
  <2>1. Fine(old)
    BY <1>2, GoodIsFine
  <2>2. e \in Windows /\ e.life = raw.life /\ e.read = raw.read
    BY <2>1 DEF Windows, Fine
  <2> HIDE DEF e
  <2>3. QED
    BY <2>2 DEF Fine
<1> HIDE DEF e
<1>3. QED
  BY <1>1, <1>2, FineIsGood DEF Cached, Good

LEMMA TrimmedIsGood ==
    ASSUME NEW raw, Fine(raw), NEW x \in Trimmed(raw) PROVE x \in Cached /\ Good(x)
<1> DEFINE a == [raw EXCEPT !.from = Today]
           e == [a EXCEPT !.page = FALSE]
<1>1. x = raw \/ x = NoWindow \/ x = e
  BY DEF Trimmed
<1>2. a \in Windows /\ a.life = raw.life /\ a.read = raw.read
  BY NewIsTyped DEF Windows, Fine
<1> HIDE DEF a
<1>3. e \in Windows /\ e.life = a.life /\ e.read = a.read
  BY <1>2 DEF Windows
<1> HIDE DEF e
<1>4. Fine(e)
  BY <1>2, <1>3 DEF Fine
<1>5. QED
  BY <1>1, <1>4, FineIsGood DEF Cached, Good

LEMMA RetainKeeps ==
    ASSUME HistoryInv, ~hsClosed, NEW raw, Fine(raw), NEW tier, Retain(raw, tier),
           cooling' \in BOOLEAN, UNCHANGED <<hsClosed, life, sourceReads>>
    PROVE  WindowsKept
<1>1. near \in Cached /\ long \in Cached /\ Good(near) /\ Good(long)
  BY DEF HistoryInv, HsTypeOK
<1>2. near' \in Cached /\ Good(near')
  <2>1. CASE tier = "long"
    <3>1. PICK other \in Others(near, raw, tier) :
             near' \in IF other # NoWindow THEN {other} ELSE Trimmed(raw)
      BY <2>1 DEF Retain
    <3>2. QED
      BY <1>1, <3>1, OthersAreGood, TrimmedIsGood
  <2>2. CASE tier # "long"
    BY <2>2, TrimmedIsGood DEF Retain
  <2>3. QED
    BY <2>1, <2>2
<1>3. long' \in Cached /\ Good(long')
  <2>1. CASE tier = "long"
    <3>1. long' \in Fitting(raw, long)
      BY <2>1 DEF Retain
    <3>2. QED
      BY <1>1, <3>1, FittingIsGood
  <2>2. CASE tier # "long"
    BY <1>1, <2>2, OthersAreGood DEF Retain
  <2>3. QED
    BY <2>1, <2>2
<1>4. QED
  BY <1>2, <1>3 DEF WindowsKept, Good

(* What a job brings is of this life, and of a read that has begun.                     *)
LEMMA RawIsFine ==
    ASSUME HistoryInv, NEW j \in HsJobs, hsJob[j].stage = "reading" PROVE Fine(Raw(j))
<1> DEFINE job == hsJob[j]
           read(from, until, page, at) == [from |-> from, through |-> until, page |-> page,
                                           read |-> at, fresh |-> TRUE, life |-> job.life]
<1>1. /\ job \in Jobs /\ job.stage = "reading" /\ job.life = life /\ job.read <= sourceReads
      /\ job.prior # NoWindow => job.prior \in Windows /\ job.prior.read <= sourceReads
  BY DEF HistoryInv, HsTypeOK, JobIsGood, Jobs, Cached
<1>2. /\ job.contract \in Contract /\ job.read \in Nat /\ job.life \in Nat
      /\ job.contract.from \in Nat /\ job.contract.page \in BOOLEAN /\ Until(job.contract) \in Nat
      /\ Today \in Nat
  <2>1. Cursor - 1 \in Nat /\ Today \in Nat
    BY HistoryAssumption
  <2>2. QED
    BY <1>1, <2>1 DEF Jobs, Contract, Until
<1>3. ASSUME NEW from \in Nat, NEW until \in Nat, NEW page \in BOOLEAN, NEW at \in Nat, at <= sourceReads
      PROVE  Fine(read(from, until, page, at))
  BY <1>1, <1>2, <1>3 DEF Fine, Windows
<1>4. job.prior # NoWindow => /\ job.prior.from \in Nat /\ job.prior.through \in Nat
                              /\ job.prior.page \in BOOLEAN /\ job.prior.read \in Nat
  BY <1>1 DEF Windows
<1> HIDE DEF read
<1>5. CASE job.mode = "detached"
  <2>1. Raw(j) = read(job.contract.from, Until(job.contract), TRUE, job.read)
    BY <1>5 DEF Raw, read
  <2>2. QED
    BY <1>1, <1>2, <1>3, <2>1
<1>6. CASE job.mode = "backfill"
  <2>1. Raw(j) = read(IF job.contract.from < job.prior.from THEN job.contract.from ELSE job.prior.from,
                      job.prior.through, FALSE, job.prior.read)
    BY <1>6 DEF Raw, read
  <2>2. job.prior # NoWindow
    BY <1>1, <1>6 DEF HistoryInv, JobIsGood
  <2>3. /\ (IF job.contract.from < job.prior.from THEN job.contract.from ELSE job.prior.from) \in Nat
        /\ FALSE \in BOOLEAN
    BY <1>2, <1>4, <2>2
  <2>4. QED
    BY <1>1, <1>3, <1>4, <2>1, <2>2, <2>3
<1>7. CASE job.mode = "full"
  <2>1. Raw(j) = IF job.prior = NoWindow
                 THEN read(job.contract.from, Until(job.contract), job.contract.page, job.read)
                 ELSE read(IF job.prior.from < job.contract.from THEN job.prior.from
                           ELSE job.contract.from, Today, job.contract.page, job.read)
    BY <1>7 DEF Raw, read
  <2>2. job.prior # NoWindow =>
           (IF job.prior.from < job.contract.from THEN job.prior.from ELSE job.contract.from) \in Nat
    BY <1>2, <1>4
  <2>3. QED
    BY <1>1, <1>2, <1>3, <2>1, <2>2
<1>8. CASE job.mode = "tail"
  <2>1. Raw(j) = read(job.prior.from, Today, job.prior.page, job.read)
    BY <1>8 DEF Raw, read
  <2>2. job.prior # NoWindow
    BY <1>1, <1>8 DEF HistoryInv, JobIsGood
  <2>3. QED
    BY <1>1, <1>2, <1>3, <1>4, <2>1, <2>2
<1>9. job.mode \in {"detached", "backfill", "full", "tail"}
  BY <1>1 DEF Jobs
<1>10. QED
  BY <1>5, <1>6, <1>7, <1>8, <1>9
-----------------------------------------------------------------------------
LEMMA GetKeeps ==
    ASSUME HistoryInv, NEW r \in HsReaders, NEW c \in Contract, NEW force \in BOOLEAN, Get(r, c, force)
    PROVE  HistoryInv'
<1> DEFINE w == Lookup(c.tier)
<1>1. ~hsClosed /\ hsReader[r].stage # "waits" /\ UNCHANGED <<cooling, hsClosed, hsGen, sourceReads, life>>
  BY DEF Get
<1>2. CASE force /\ w # NoWindow /\ w.fresh
  <2>1. /\ near' = IF near = w THEN [near EXCEPT !.fresh = FALSE] ELSE near
        /\ long' = IF long = w THEN [long EXCEPT !.fresh = FALSE] ELSE long
        /\ UNCHANGED <<hsJob, keyed, hsReader>>
    BY <1>2 DEF Get
  <2>2. \A x \in {near, long} : x # NoWindow => Fine(x)
    BY GoodIsFine DEF HistoryInv
  <2> HIDE DEF w
  <2>3. \A x \in {near', long'} : x \in Cached /\ Good(x)
    BY <1>2, <2>1, <2>2, AgedIsFine, FineIsGood DEF HistoryInv, HsTypeOK
  <2>4. WindowsKept
    BY <1>1, <2>3 DEF WindowsKept, HistoryInv, HsTypeOK, Good
  <2>5. JobsKept
    BY <1>1, <2>1, JobsUntouched DEF HistoryInv, HsTypeOK
  <2>6. QED
    BY <2>4, <2>5, BothKept
<1>3. CASE ~(force /\ w # NoWindow /\ w.fresh)
  <2>1. Ensure(r, c) /\ UNCHANGED <<near, long>>
    BY <1>3 DEF Get
  <2>2. WindowsKept
    BY <1>1, <2>1, WindowsUntouched DEF HistoryInv, HsTypeOK
  <2>3. QED
    BY <1>1, <2>1, <2>2, EnsureKeeps, BothKept
<1>4. QED
  BY <1>2, <1>3

\* A job that reads: what it may replace, and how.
Begun(job, prior, mode, owners, at) ==
    [job EXCEPT !.stage = "reading", !.prior = prior, !.mode = mode, !.owners = owners, !.read = at]

Begins(x, job, prior, mode, owners, at) ==
    /\ x \in Jobs /\ x.stage = "reading" /\ x.prior = prior /\ x.mode = mode
    /\ x.owners = owners /\ x.read = at
    /\ x.contract = job.contract /\ x.gen = job.gen /\ x.life = job.life

LEMMA BegunIsTyped ==
    ASSUME NEW job \in Jobs, NEW prior \in Cached, NEW owners \in Cached \X Cached, NEW at \in Nat,
           NEW mode \in {"detached", "backfill", "full", "tail"}
    PROVE  Begins(Begun(job, prior, mode, owners, at), job, prior, mode, owners, at)
<1> DEFINE u == [job EXCEPT !.stage = "reading"]
           v == [u EXCEPT !.prior = prior]
           y == [v EXCEPT !.mode = mode]
           z == [y EXCEPT !.owners = owners]
           w == [z EXCEPT !.read = at]
<1>1. Begun(job, prior, mode, owners, at) = w
  BY DEF Begun
<1>2. /\ u \in Jobs /\ u.stage = "reading"
      /\ u.contract = job.contract /\ u.gen = job.gen /\ u.life = job.life
  BY DEF Jobs
<1> HIDE DEF u
<1>3. /\ v \in Jobs /\ v.stage = "reading" /\ v.prior = prior
      /\ v.contract = job.contract /\ v.gen = job.gen /\ v.life = job.life
  BY <1>2 DEF Jobs
<1> HIDE DEF v
<1>4. /\ y \in Jobs /\ y.stage = "reading" /\ y.prior = prior /\ y.mode = mode
      /\ y.contract = job.contract /\ y.gen = job.gen /\ y.life = job.life
  BY <1>3 DEF Jobs
<1> HIDE DEF y
<1>5. /\ z \in Jobs /\ z.stage = "reading" /\ z.prior = prior /\ z.mode = mode /\ z.owners = owners
      /\ z.contract = job.contract /\ z.gen = job.gen /\ z.life = job.life
  BY <1>4 DEF Jobs
<1> HIDE DEF z
<1>6. /\ w \in Jobs /\ w.stage = "reading" /\ w.prior = prior /\ w.mode = mode /\ w.owners = owners
      /\ w.contract = job.contract /\ w.gen = job.gen /\ w.life = job.life /\ w.read = at
  BY <1>5 DEF Jobs
<1> HIDE DEF w
<1>7. QED
  BY <1>1, <1>6 DEF Begins

\* A later read does not make a job worse.
LEMMA JobStaysGood ==
    ASSUME HistoryInv, NEW k \in HsJobs, hsJob'[k] = hsJob[k], keyed' = keyed,
           UNCHANGED <<life, hsGen>>, sourceReads' = sourceReads + 1
    PROVE  JobIsGood(k)'
<1>1. /\ hsJob[k] \in Jobs /\ sourceReads \in Nat
  BY DEF HistoryInv, HsTypeOK
<1>2. hsJob[k].read \in Nat /\ (hsJob[k].prior # NoWindow => hsJob[k].prior.read \in Nat)
  BY <1>1 DEF Jobs, Cached, Windows
<1>3. JobIsGood(k)
  BY DEF HistoryInv
<1>4. \A n \in Nat : n <= sourceReads => n <= sourceReads'
  BY <1>1
<1>5. QED
  BY <1>2, <1>3, <1>4 DEF JobIsGood

(* A job that starts notes the windows of now: they were read before.                   *)
LEMMA StartKeeps == ASSUME HistoryInv, NEW j \in HsJobs, StartJob(j) PROVE HistoryInv'
<1> DEFINE c == hsJob[j].contract
           prior == Lookup(c.tier)
<1>1. /\ hsJob[j].stage = "queued" /\ j \in keyed /\ ~hsClosed /\ Cardinality(Running) < MaxActive
      /\ UNCHANGED <<near, long, cooling, hsClosed, hsGen, life>>
  BY DEF StartJob, HistoryInv, JobIsGood, ClosedIsEmpty
<1>2. prior \in Cached /\ Good(prior) /\ NoWindow \in Cached /\ Good(NoWindow)
  BY LookupIsGood DEF Cached, Good
<1>3. ASSUME NEW w \in {prior, NoWindow}, Answer(ReadersOf(j), w), Ended(j), UNCHANGED sourceReads
      PROVE  HistoryInv'
  <2>1. w \in Cached /\ Good(w) /\ NewJob \in Jobs /\ NewJob.stage = "none"
    BY <1>2, NewIsTyped
  <2> HIDE DEF prior
  <2>2. JobsKept
    BY <1>1, <1>3, <2>1, JobAnswered
  <2>3. WindowsKept
    BY <1>1, <1>3, WindowsUntouched DEF HistoryInv, HsTypeOK
  <2>4. QED
    BY <2>2, <2>3, BothKept
<1>4. ASSUME NEW more \in BOOLEAN, NEW fullDue \in BOOLEAN,
             sourceReads' = sourceReads + 1,
             hsJob' = [hsJob EXCEPT ![j].stage = "reading", ![j].prior = prior,
                          ![j].mode = Mode(prior, c, more, fullDue),
                          ![j].owners = <<near, long>>, ![j].read = sourceReads + 1],
             UNCHANGED <<keyed, hsReader>>
      PROVE  HistoryInv'
  <2> DEFINE mode == Mode(prior, c, more, fullDue)
             owners == <<near, long>>
             at == sourceReads + 1
             x == Begun(hsJob[j], prior, mode, owners, at)
  <2>1. /\ hsJob \in [HsJobs -> Jobs] /\ hsReader \in [HsReaders -> Readers] /\ keyed \subseteq HsJobs
        /\ hsClosed \in BOOLEAN /\ hsGen \in Nat /\ sourceReads \in Nat /\ life \in Nat
        /\ near \in Cached /\ long \in Cached /\ Good(near) /\ Good(long)
        /\ owners \in Cached \X Cached /\ at \in Nat
    BY DEF HistoryInv, HsTypeOK
  <2>2. /\ mode \in {"detached", "backfill", "full", "tail"}
        /\ mode \in {"backfill", "tail"} => prior # NoWindow
    BY DEF Mode
  <2>3. hsJob' = [hsJob EXCEPT ![j] = x]
    BY <1>4, <2>1 DEF Begun
  <2>15. sourceReads' = sourceReads + 1 /\ UNCHANGED <<keyed, hsReader>>
    BY <1>4
  <2>17. x = Begun(hsJob[j], prior, mode, owners, at)
    OBVIOUS
  <2> HIDE DEF mode, prior, owners, at, x
  <2>4. /\ x \in Jobs /\ x.stage = "reading" /\ x.prior = prior /\ x.mode = mode
        /\ x.owners = owners /\ x.read = at
        /\ x.contract = hsJob[j].contract /\ x.gen = hsJob[j].gen /\ x.life = hsJob[j].life
    <3>1. hsJob[j] \in Jobs
      BY <2>1
    <3>2. prior \in Cached /\ owners \in Cached \X Cached /\ at \in Nat
      BY <1>2, <2>1
    <3>3. mode \in {"detached", "backfill", "full", "tail"}
      BY <2>2
    <3>4. Begins(x, hsJob[j], prior, mode, owners, at)
      BY <2>17, <3>1, <3>2, <3>3, BegunIsTyped
    <3>5. QED
      BY <3>4 DEF Begins
  <2>5. hsJob' \in [HsJobs -> Jobs] /\ hsJob'[j] = x /\ \A k \in HsJobs : k # j => hsJob'[k] = hsJob[k]
    BY <2>1, <2>3, <2>4
  <2>6. \A w \in {near, long, prior} : w # NoWindow => w.read \in Nat /\ w.read <= sourceReads
    BY <1>2, <2>1 DEF Good, Windows
  <2>7. JobIsGood(j)'
    <3>1. \A i \in {1, 2} : x.owners[i] # NoWindow => x.owners[i].read < x.read
      BY <2>1, <2>4, <2>6 DEF owners, at
    <3>2. x.prior # NoWindow => x.prior.read <= sourceReads'
      BY <2>15, <2>1, <2>4, <2>6
    <3>3. x.read <= sourceReads'
      BY <2>15, <2>1, <2>4 DEF at
    <3>4. x.life = life /\ x.gen = hsGen
      BY <1>1, <2>4 DEF HistoryInv, JobIsGood
    <3>5. QED
      BY <1>1, <2>15, <2>2, <2>4, <2>5, <3>1, <3>2, <3>3, <3>4 DEF JobIsGood
  <2>8. ASSUME NEW k \in HsJobs, k # j PROVE JobIsGood(k)'
    BY <1>1, <2>15, <2>5, <2>8, JobStaysGood
  <2>9. ASSUME NEW r \in HsReaders PROVE ReaderIsGood(r)'
    <3>1. hsReader[r].got # NoWindow /\ hsReader[r].got \in Windows => hsReader[r].got.read \in Nat
      BY DEF Windows
    <3>2. QED
      BY <1>1, <2>15, <2>1, <3>1 DEF HistoryInv, ReaderIsGood, Good
  <2>10. \A k \in HsJobs : ReadersOf(k)' = ReadersOf(k) /\ hsJob'[k].contract = hsJob[k].contract
    BY <2>15, <2>4, <2>5 DEF ReadersOf
  <2>11. JobsAreWanted'
    BY <2>15, <2>1, <2>10 DEF HistoryInv, JobsAreWanted
  <2>12. PlacesAreKept'
    BY <1>1, <2>5, PlaceTaken
  <2>13. JobsKept
    BY <1>1, <2>15, <2>1, <2>5, <2>7, <2>8, <2>9, <2>11, <2>12 DEF JobsKept
  <2>14. WindowsKept
    BY <1>1, <2>15, <2>1, WindowsUntouched
  <2>16. QED
    BY <2>13, <2>14, BothKept
<1>5. \A more \in {FALSE, c.tier = "long"} : more \in BOOLEAN
  OBVIOUS
<1>6. QED
  BY <1>3, <1>4, <1>5 DEF StartJob
-----------------------------------------------------------------------------
\* A job in the hands of others reads or waits: nothing of before can be among them.
LEMMA ReadingLives ==
    ASSUME HistoryInv, NEW j \in HsJobs
    PROVE  /\ hsJob[j].stage = "reading" => Lives(j) /\ ~hsClosed /\ j \in keyed
           /\ Lives(j) => hsJob[j].stage = "reading"
           /\ hsJob[j].stage = "zombie" => j \notin keyed /\ ~Lives(j)
BY DEF HistoryInv, JobIsGood, ClosedIsEmpty, Lives

(* A job that nobody waits for ends.                                                     *)
LEMMA JobVanishes ==
    ASSUME HistoryInv, NEW j \in HsJobs, j \notin keyed, Ended(j),
           UNCHANGED <<hsReader, hsClosed, hsGen, sourceReads, life>>
    PROVE  JobsKept
<1>1. /\ hsJob' \in [HsJobs -> Jobs] /\ hsJob'[j] = NewJob
      /\ \A k \in HsJobs : k # j => hsJob'[k] = hsJob[k]
  BY NewIsTyped DEF Ended, HistoryInv, HsTypeOK
<1>2. keyed' = keyed
  BY DEF Ended
<1>3. \A k \in HsJobs : JobIsGood(k)'
  BY <1>1, <1>2, NewIsTyped DEF HistoryInv, JobIsGood
<1>4. \A r \in HsReaders : ReaderIsGood(r)'
  BY <1>2 DEF HistoryInv, ReaderIsGood, Good
<1>5. JobsAreWanted'
  BY <1>1, <1>2 DEF HistoryInv, HsTypeOK, JobsAreWanted, ReadersOf
<1>6. PlacesAreKept'
  BY <1>1, NewIsTyped, PlacesStay
<1>7. QED
  BY <1>1, <1>2, <1>3, <1>4, <1>5, <1>6 DEF HistoryInv, HsTypeOK, JobsKept, ClosedIsEmpty, Calm

LEMMA SuccessKeeps == ASSUME HistoryInv, NEW j \in HsJobs, ReadSucceeds(j) PROVE HistoryInv'
<1>1. /\ hsJob[j].stage \in {"reading", "zombie"} /\ Ended(j)
      /\ UNCHANGED <<hsClosed, hsGen, sourceReads, life>>
  BY DEF ReadSucceeds
<1>2. CASE hsJob[j].stage = "zombie"
  <2>1. j \notin keyed /\ UNCHANGED <<cooling, near, long, hsReader>>
    BY <1>2, ReadingLives DEF ReadSucceeds
  <2>2. JobsKept
    BY <1>1, <2>1, JobVanishes
  <2>3. WindowsKept
    BY <1>1, <2>1, WindowsUntouched DEF HistoryInv, HsTypeOK
  <2>4. QED
    BY <2>2, <2>3, BothKept
<1>3. CASE hsJob[j].stage = "reading"
  <2> DEFINE raw == Raw(j)
             tier == hsJob[j].contract.tier
  <2>1. ~hsClosed /\ Lives(j) /\ Fine(raw)
    BY <1>3, ReadingLives, RawIsFine
  <2>2. /\ cooling' = FALSE /\ Answer(ReadersOf(j), raw)
        /\ UNCHANGED <<near, long>> \/ Retain(raw, tier)
    BY <2>1 DEF ReadSucceeds
  <2> HIDE DEF raw, tier
  <2>3. Good(raw) /\ raw \in Cached
    BY <2>1, FineIsGood
  <2>4. JobsKept
    BY <1>1, <2>1, <2>2, <2>3, JobAnswered
  <2>5. WindowsKept
    <3>1. CASE UNCHANGED <<near, long>>
      BY <1>1, <2>2, <3>1 DEF WindowsKept, HistoryInv, HsTypeOK, ClosedIsEmpty, Good
    <3>2. CASE Retain(raw, tier)
      BY <1>1, <2>1, <2>2, <3>2, RetainKeeps
    <3>3. QED
      BY <2>2, <3>1, <3>2
  <2>6. QED
    BY <2>4, <2>5, BothKept
<1>4. QED
  BY <1>1, <1>2, <1>3

LEMMA FailureKeeps ==
    ASSUME HistoryInv, NEW j \in HsJobs, NEW deadline \in BOOLEAN, ReadFails(j, deadline)
    PROVE  HistoryInv'
<1> DEFINE x == IF deadline THEN [hsJob[j] EXCEPT !.stage = "zombie"] ELSE NewJob
<1>1. /\ hsJob[j].stage = "reading" /\ ~hsClosed /\ cooling' = TRUE
      /\ Answer(ReadersOf(j), NoWindow) /\ keyed' = keyed \ {j}
      /\ UNCHANGED <<near, long, hsClosed, hsGen, sourceReads, life>>
  BY ReadingLives DEF ReadFails
<1>2. hsJob \in [HsJobs -> Jobs] /\ hsJob[j] \in Jobs
  BY DEF HistoryInv, HsTypeOK
<1>3. hsJob' = [hsJob EXCEPT ![j] = x]
  BY <1>2 DEF ReadFails
<1>4. x \in Jobs /\ (x.stage = "none" \/ x.stage = "zombie")
  <2>1. LET y == [hsJob[j] EXCEPT !.stage = "zombie"] IN y \in Jobs /\ y.stage = "zombie"
    BY <1>2 DEF Jobs
  <2>2. QED
    BY <2>1, NewIsTyped
<1> HIDE DEF x
<1>5. /\ hsJob' \in [HsJobs -> Jobs] /\ hsJob'[j] = x
      /\ \A k \in HsJobs : k # j => hsJob'[k] = hsJob[k]
  BY <1>2, <1>3, <1>4
<1>6. NoWindow \in Cached /\ Good(NoWindow)
  BY DEF Cached, Good
<1>7. JobsKept
  BY <1>1, <1>4, <1>5, <1>6, AnswerKeeps
<1>8. WindowsKept
  BY <1>1 DEF WindowsKept, HistoryInv, HsTypeOK, Good
<1>9. QED
  BY <1>7, <1>8, BothKept

(* An abort: those that wait leave the queue, those that read keep their place.          *)
LEMMA AbortedIsTyped ==
    ASSUME HistoryInv, NEW gone \in SUBSET HsJobs, Aborted(gone)
    PROVE  /\ hsJob' \in [HsJobs -> Jobs] /\ keyed' = keyed \ gone
           /\ \A j \in HsJobs : IF j \notin gone THEN hsJob'[j] = hsJob[j]
                                ELSE \/ hsJob'[j].stage = "none" /\ hsJob[j].stage # "reading"
                                     \/ hsJob'[j].stage = "zombie" /\ hsJob[j].stage = "reading"
           /\ PlacesAreKept'
<1>1. hsJob \in [HsJobs -> Jobs]
  BY DEF HistoryInv, HsTypeOK
<1>2. hsJob' = [j \in HsJobs |-> hsJob'[j]] /\ keyed' = keyed \ gone
  BY DEF Aborted
<1>3. ASSUME NEW j \in HsJobs
      PROVE  /\ hsJob'[j] \in Jobs
             /\ IF j \notin gone THEN hsJob'[j] = hsJob[j]
                ELSE \/ hsJob'[j].stage = "none" /\ hsJob[j].stage # "reading"
                     \/ hsJob'[j].stage = "zombie" /\ hsJob[j].stage = "reading"
  <2>1. CASE j \notin gone
    BY <1>1, <2>1 DEF Aborted
  <2>2. CASE j \in gone /\ hsJob[j].stage = "reading"
    <3> DEFINE y == hsJob[j]
    <3>1. hsJob'[j] = [y EXCEPT !.stage = "zombie"] /\ y \in Jobs /\ y.stage = "reading"
      BY <1>1, <2>2 DEF Aborted
    <3> HIDE DEF y
    <3>2. hsJob'[j] \in Jobs /\ hsJob'[j].stage = "zombie"
      BY <3>1 DEF Jobs
    <3>3. QED
      BY <2>2, <3>2
  <2>3. CASE j \in gone /\ hsJob[j].stage # "reading"
    BY <2>3, NewIsTyped DEF Aborted
  <2>4. QED
    BY <2>1, <2>2, <2>3
<1>4. PlacesAreKept'
  BY <1>3, PlacesStay
<1>5. QED
  BY <1>2, <1>3, <1>4

LEMMA LeavingKeeps == ASSUME HistoryInv, NEW r \in HsReaders, ReaderLeaves(r) PROVE HistoryInv'
<1> DEFINE j == hsReader[r].job
           gone == TakenAlong(r)
<1>1. /\ Calm /\ hsReader[r].stage = "waits" /\ Aborted(gone)
      /\ hsReader' = [hsReader EXCEPT ![r] = NewReader]
      /\ UNCHANGED <<near, long, cooling, hsClosed, hsGen, sourceReads, life>>
  BY DEF ReaderLeaves
<1>2. /\ j \in keyed /\ keyed \subseteq HsJobs /\ j \in HsJobs /\ ~hsClosed
      /\ hsReader \in [HsReaders -> Readers]
  BY <1>1 DEF HistoryInv, HsTypeOK, ReaderIsGood, ClosedIsEmpty
<1>3. gone \in SUBSET HsJobs /\ gone = (IF ReadersOf(j) = {r} THEN {j} ELSE {})
  BY <1>2 DEF TakenAlong
<1> HIDE DEF gone
<1>4. /\ hsJob' \in [HsJobs -> Jobs] /\ keyed' = keyed \ gone /\ PlacesAreKept'
      /\ \A k \in HsJobs : IF k \notin gone THEN hsJob'[k] = hsJob[k]
                           ELSE hsJob'[k].stage \in {"none", "zombie"}
  BY <1>1, <1>3, AbortedIsTyped
<1>5. /\ hsReader' \in [HsReaders -> Readers] /\ hsReader'[r].stage = "idle"
      /\ \A q \in HsReaders : q # r => hsReader'[q] = hsReader[q]
  BY <1>1, <1>2, NewIsTyped
<1>6. \A k \in HsJobs : JobIsGood(k)'
  BY <1>1, <1>4 DEF HistoryInv, JobIsGood
<1>7. ASSUME NEW q \in HsReaders, q # r, hsReader[q].stage = "waits" PROVE hsReader[q].job \notin gone
  BY <1>3, <1>7 DEF ReadersOf
<1>8. \A q \in HsReaders : ReaderIsGood(q)'
  BY <1>1, <1>4, <1>5, <1>7 DEF HistoryInv, ReaderIsGood, Good
<1>9. \A k \in keyed' : ReadersOf(k)' # {}
  <2>1. ASSUME NEW k \in keyed, k \notin gone PROVE \E q \in ReadersOf(k) : q # r
    <3>1. CASE k = j
      <4>1. r \in ReadersOf(j) /\ ReadersOf(j) # {r}
        BY <1>1, <1>3, <2>1, <3>1 DEF ReadersOf
      <4>2. QED
        BY <3>1, <4>1
    <3>2. CASE k # j
      <4>1. ReadersOf(k) # {} /\ r \notin ReadersOf(k)
        BY <3>2 DEF HistoryInv, JobsAreWanted, ReadersOf
      <4>2. QED
        BY <4>1
    <3>3. QED
      BY <3>1, <3>2
  <2>2. QED
    BY <1>4, <1>5, <2>1 DEF ReadersOf
<1>10. JobsAreWanted'
  BY <1>2, <1>4, <1>9 DEF HistoryInv, JobsAreWanted
<1>11. JobsKept
  BY <1>1, <1>2, <1>4, <1>5, <1>6, <1>8, <1>10 DEF JobsKept, HistoryInv, HsTypeOK
<1>12. WindowsKept
  BY <1>1, WindowsUntouched DEF HistoryInv, HsTypeOK
<1>13. QED
  BY <1>11, <1>12, BothKept

(* A longer range is asked for while there are days before it.                           *)
LEMMA LongerIsContract ==
    ASSUME NEW c \in Contract, ~Expanded(c), Bounded(c)
    PROVE  [c EXCEPT !.from = c.from - 1] \in Contract
<1>1. Today \in Nat \ {0} /\ Cursor \in 2..Today /\ c.from \in 0..Today
  BY HistoryAssumption DEF Contract
<1>2. c.from - 1 \in 0..Today
  BY <1>1 DEF Expanded
<1>3. QED
  BY <1>2 DEF Contract

LEMMA GoingOnKeeps == ASSUME HistoryInv, NEW r \in HsReaders, GoesOn(r) PROVE HistoryInv'
<1> DEFINE c == hsReader[r].contract
           raw == hsReader[r].got
           longer == [c EXCEPT !.from = c.from - 1]
<1>1. /\ hsReader[r].stage = "has" /\ UNCHANGED <<cooling, hsClosed, hsGen, sourceReads, life>>
  BY DEF GoesOn
<1>2. /\ ~hsClosed /\ Fine(raw) /\ c \in Contract
  BY <1>1, GoodIsFine DEF HistoryInv, ClosedIsEmpty, Calm, ReaderIsGood, HsTypeOK, Readers
<1>3. UNCHANGED <<near, long>> => WindowsKept
  BY <1>1, WindowsUntouched DEF HistoryInv, HsTypeOK
<1>4. CASE hsReader' = [hsReader EXCEPT ![r] = NewReader] /\ UNCHANGED <<hsJob, keyed>>
  <2>1. JobsKept
    BY <1>1, <1>4, NewIsTyped, ReaderSteps
  <2>2. UNCHANGED <<near, long>> \/ Retain(raw, c.tier)
    BY DEF GoesOn
  <2> HIDE DEF raw
  <2>3. WindowsKept
    BY <1>1, <1>2, <1>3, <2>2, RetainKeeps DEF HistoryInv, HsTypeOK
  <2>4. QED
    BY <2>1, <2>3, BothKept
<1>5. CASE Bounded(c) /\ ~Expanded(c) /\ Ensure(r, longer) /\ UNCHANGED <<near, long>>
  <2>1. longer \in Contract
    BY <1>2, <1>5, LongerIsContract
  <2> HIDE DEF longer, c
  <2>2. JobsKept
    BY <1>1, <1>2, <1>5, <2>1, EnsureKeeps
  <2>3. QED
    BY <1>3, <1>5, <2>2, BothKept
<1>6. QED
  BY <1>4, <1>5 DEF GoesOn

LEMMA TimeKeeps == ASSUME HistoryInv, Ages \/ Evict \/ ReopenHistory PROVE HistoryInv'
<1>1. /\ UNCHANGED <<hsJob, keyed, hsReader, hsGen, sourceReads, life>>
      /\ hsClosed' \in BOOLEAN /\ (hsClosed' => hsClosed)
  <2>1. UNCHANGED <<hsJob, keyed, hsReader, hsGen, sourceReads, life>>
    BY DEF Ages, Evict, ReopenHistory
  <2>2. UNCHANGED hsClosed \/ hsClosed' = FALSE
    BY DEF Ages, Evict, ReopenHistory
  <2>3. hsClosed \in BOOLEAN
    BY DEF HistoryInv, HsTypeOK
  <2>4. hsClosed' \in BOOLEAN
    BY <2>2, <2>3
  <2>5. ASSUME hsClosed' PROVE hsClosed
    BY <2>2, <2>5, Zenon
  <2>6. QED
    BY <2>1, <2>4, <2>5
<1>2. JobsKept
  BY <1>1, JobsUntouched
<1>3. /\ near' \in {near, NoWindow} \/ (near # NoWindow /\ near' = [near EXCEPT !.fresh = FALSE])
      /\ long' \in {long, NoWindow} \/ (long # NoWindow /\ long' = [long EXCEPT !.fresh = FALSE])
      /\ cooling' \in {cooling, FALSE}
  BY DEF Ages, Evict, ReopenHistory
<1>4. \A w \in {near, long} : w # NoWindow => Fine(w) /\ Fine([w EXCEPT !.fresh = FALSE])
  BY GoodIsFine, AgedIsFine DEF HistoryInv
<1>5. /\ near' \in Cached /\ Good(near') /\ long' \in Cached /\ Good(long') /\ cooling' \in BOOLEAN
  <2>1. NoWindow \in Cached /\ Good(NoWindow)
    BY DEF Cached, Good
  <2>2. QED
    BY <1>3, <1>4, <2>1, FineIsGood DEF HistoryInv, HsTypeOK
<1>6. WindowsKept
  BY <1>1, <1>3, <1>5 DEF WindowsKept, HistoryInv, ClosedIsEmpty, Good
<1>7. QED
  BY <1>2, <1>6, BothKept

(* Nothing is left of before: no window, no job to join, and no call that waits.         *)
LEMMA EmptyKeeps ==
    ASSUME HistoryInv, Calm, NEW gone, gone = keyed, Empty(gone),
           hsClosed' \in BOOLEAN, hsGen' \in Nat, UNCHANGED sourceReads
    PROVE  HistoryInv'
<1>1. /\ hsReader \in [HsReaders -> Readers] /\ keyed \in SUBSET HsJobs /\ life \in Nat
      /\ sourceReads \in Nat
  BY DEF HistoryInv, HsTypeOK
<1>2. /\ life' = life + 1 /\ near' = NoWindow /\ long' = NoWindow /\ cooling' = FALSE /\ Aborted(gone)
      /\ hsReader' = [r \in HsReaders |-> IF hsReader[r].job \in gone THEN NewReader ELSE hsReader[r]]
  BY DEF Empty
<1>3. /\ hsJob' \in [HsJobs -> Jobs] /\ keyed' = {} /\ PlacesAreKept'
      /\ \A j \in HsJobs : IF j \notin keyed THEN hsJob'[j] = hsJob[j]
                           ELSE hsJob'[j].stage \in {"none", "zombie"}
  BY <1>1, <1>2, AbortedIsTyped
<1>4. \A j \in HsJobs : hsJob'[j].stage \notin {"queued", "reading"}
  BY <1>3 DEF HistoryInv, JobIsGood
<1>5. \A j \in HsJobs : JobIsGood(j)'
  BY <1>3, <1>4 DEF JobIsGood
<1>6. /\ hsReader' \in [HsReaders -> Readers]
      /\ \A r \in HsReaders : hsReader'[r].stage = "idle"
  <2>1. \A r \in HsReaders : hsReader[r].stage \in {"idle", "waits"}
    BY <1>1 DEF Calm, Readers
  <2>2. \A r \in HsReaders : hsReader[r].stage = "waits" => hsReader[r].job \in gone
    BY DEF HistoryInv, ReaderIsGood
  <2>3. QED
    BY <1>1, <1>2, <2>1, <2>2, NewIsTyped
<1>7. JobsKept
  BY <1>1, <1>2, <1>3, <1>5, <1>6 DEF JobsKept, JobsAreWanted, ReaderIsGood, Calm
<1>8. WindowsKept
  BY <1>2 DEF WindowsKept, Good, Cached
<1>9. QED
  BY <1>7, <1>8, BothKept

LEMMA ClosingKeeps == ASSUME HistoryInv, Invalidate \/ CloseHistory PROVE HistoryInv'
<1>1. CASE Invalidate
  BY <1>1, EmptyKeeps DEF Invalidate, HistoryInv, HsTypeOK
<1>2. CASE CloseHistory
  <2>1. {j \in HsJobs : hsJob[j].stage \in {"queued", "reading"}} = keyed
    BY DEF HistoryInv, HsTypeOK, JobIsGood
  <2>2. Calm /\ Empty(keyed) /\ hsClosed' \in BOOLEAN /\ hsGen' \in Nat /\ UNCHANGED sourceReads
    BY <1>2, <2>1 DEF CloseHistory, HistoryInv, HsTypeOK
  <2>3. QED
    BY <2>2, EmptyKeeps
<1>3. QED
  BY <1>1, <1>2
-----------------------------------------------------------------------------
LEMMA StepKeepsHistoryInv == ASSUME HistoryInv, [HistoryNext]_hsVars PROVE HistoryInv'
<1>1. CASE HistoryNext
  <2>1. \A c \in {Recent, Wide, Page} : c \in Contract
    BY NewIsTyped
  <2>2. QED
    BY <1>1, <2>1, GetKeeps, StartKeeps, SuccessKeeps, FailureKeeps, LeavingKeeps, GoingOnKeeps,
       TimeKeeps, ClosingKeeps DEF HistoryNext
<1>2. CASE UNCHANGED hsVars
  <2>1. JobsKept
    BY <1>2, JobsUntouched DEF hsVars, HistoryInv, HsTypeOK
  <2>2. WindowsKept
    BY <1>2, WindowsUntouched DEF hsVars, HistoryInv, HsTypeOK
  <2>3. QED
    BY <2>1, <2>2, BothKept
<1>3. QED
  BY <1>1, <1>2

LEMMA InitIsHistory == ASSUME HistoryInit PROVE HistoryInv
<1>1. /\ \A j \in HsJobs : hsJob[j] = NewJob
      /\ \A r \in HsReaders : hsReader[r] = NewReader
  BY DEF HistoryInit
<1>2. HsTypeOK
  BY NewIsTyped DEF HistoryInit, HsTypeOK, Cached
<1>3. Running = {}
  BY <1>1, NewIsTyped DEF Running
<1>4. PlacesAreKept
  BY <1>3, FS_EmptySet, HistoryAssumption DEF PlacesAreKept
<1>5. QED
  BY <1>1, <1>2, <1>4, NewIsTyped
     DEF HistoryInit, HistoryInv, Good, JobIsGood, ReaderIsGood, JobsAreWanted, ClosedIsEmpty

LEMMA HistoryHolds == HistorySpec => []HistoryInv
BY InitIsHistory, StepKeepsHistoryInv, PTL DEF HistorySpec

(* After a close or an invalidation nothing of before comes back, whatever jobs are    *)
(* still under way, and a closed service has nothing.                                    *)
THEOREM NothingComesBack == HistorySpec => []NothingOfBefore
<1>1. HistoryInv => NothingOfBefore
  BY DEF HistoryInv, Good, ClosedIsEmpty, NothingOfBefore
<1>2. QED
  BY <1>1, HistoryHolds, PTL

(* Every caller that waits has a job that will answer it, there is one such job per     *)
(* request contract, and no more run than there are places.                              *)
THEOREM CallersAreServed == HistorySpec => []CallersHaveTheirJob
<1>1. HistoryInv => CallersHaveTheirJob
  BY DEF HistoryInv, HsTypeOK, ReaderIsGood, JobIsGood, JobsAreWanted, PlacesAreKept,
         CallersHaveTheirJob
<1>2. QED
  BY <1>1, HistoryHolds, PTL
-----------------------------------------------------------------------------
\* A window of a later read than the job's own stays as it is when the job ends.
Overtaken(j) ==
    (Lives(j) /\ hsJob'[j].stage = "none")
        => /\ (near # NoWindow /\ near.read > hsJob[j].read) => near' = near
           /\ (long # NoWindow /\ long.read > hsJob[j].read) => long' = long

LEMMA OvertakenIsSuperseded ==
    ASSUME HistoryInv, NEW j \in HsJobs, hsJob[j].stage = "reading", NEW w \in {near, long},
           w # NoWindow, w.read > hsJob[j].read
    PROVE  Superseded(j)
<1> DEFINE owners == hsJob[j].owners
<1>1. /\ owners \in Cached \X Cached /\ hsJob[j].read \in Nat /\ w.read \in Nat
      /\ \A i \in {1, 2} : owners[i] # NoWindow => owners[i] \in Windows /\ owners[i].read < hsJob[j].read
  BY DEF HistoryInv, HsTypeOK, Jobs, Cached, Windows, JobIsGood
<1>2. \A i \in {1, 2} : owners[i] # NoWindow => owners[i].read \in Nat
  BY <1>1 DEF Windows
<1>3. \A i \in {1, 2} : owners[i] # NoWindow => owners[i].read # w.read /\ owners[i] # w
  BY <1>1, <1>2
<1>4. QED
  BY <1>3 DEF Superseded

LEMMA JobsGoOn ==
    ASSUME HistoryInv, NEW r \in HsReaders, NEW c, Ensure(r, c), NEW j \in HsJobs, hsJob[j].stage = "reading"
    PROVE  hsJob'[j].stage = "reading"
BY DEF Ensure, HistoryInv, HsTypeOK

LEMMA StepIsOvertaken ==
    ASSUME HistoryInv, [HistoryNext]_hsVars, NEW j \in HsJobs PROVE Overtaken(j)
<1> SUFFICES ASSUME hsJob[j].stage = "reading", hsJob'[j].stage = "none"
             PROVE  \A w \in {near, long} : w # NoWindow /\ w.read > hsJob[j].read
                                                => UNCHANGED <<near, long>>
  BY DEF Overtaken, Lives
<1>1. hsJob \in [HsJobs -> Jobs] /\ ~UNCHANGED hsJob
  BY DEF HistoryInv, HsTypeOK
<1>2. ASSUME NEW r \in HsReaders, NEW c, NEW force, Get(r, c, force) PROVE FALSE
  BY <1>1, <1>2, JobsGoOn DEF Get
<1>3. ASSUME NEW r \in HsReaders, GoesOn(r) PROVE FALSE
  BY <1>1, <1>3, JobsGoOn DEF GoesOn
<1>4. ASSUME NEW gone \in SUBSET HsJobs, Aborted(gone) PROVE FALSE
  BY <1>4, AbortedIsTyped
<1>5. ASSUME NEW r \in HsReaders, ReaderLeaves(r) PROVE FALSE
  <2>1. TakenAlong(r) \in SUBSET HsJobs
    BY <1>5 DEF ReaderLeaves, TakenAlong, HistoryInv, HsTypeOK, ReaderIsGood
  <2>2. QED
    BY <1>4, <1>5, <2>1 DEF ReaderLeaves
<1>6. CASE Invalidate \/ CloseHistory
  BY <1>4, <1>6 DEF Invalidate, CloseHistory, Empty, HistoryInv, HsTypeOK
<1>7. ASSUME NEW k \in HsJobs, StartJob(k) PROVE UNCHANGED <<near, long>>
  BY <1>7 DEF StartJob
<1>8. ASSUME NEW k \in HsJobs, NEW deadline \in BOOLEAN, ReadFails(k, deadline)
      PROVE  UNCHANGED <<near, long>>
  BY <1>8 DEF ReadFails
<1>9. ASSUME NEW k \in HsJobs, ReadSucceeds(k),
             NEW w \in {near, long}, w # NoWindow, w.read > hsJob[j].read
      PROVE  UNCHANGED <<near, long>>
  <2>1. k = j
    BY <1>1, <1>9 DEF ReadSucceeds, Ended
  <2>2. Superseded(j)
    BY <1>9, OvertakenIsSuperseded
  <2>3. QED
    BY <1>9, <2>1, <2>2 DEF ReadSucceeds
<1>10. CASE Ages \/ Evict \/ ReopenHistory \/ UNCHANGED hsVars
  BY <1>1, <1>10 DEF Ages, Evict, ReopenHistory, hsVars
<1>11. QED
  BY <1>2, <1>3, <1>5, <1>6, <1>7, <1>8, <1>9, <1>10 DEF HistoryNext

(* A job that was overtaken keeps its hands off a window that shows a later read.       *)
THEOREM OvertakenKeepsOff == HistorySpec => OvertakenPublishesNothing
<1>1. HistoryInv /\ [HistoryNext]_hsVars => HistoryInv'
  BY StepKeepsHistoryInv
<1>2. HistoryInv /\ [HistoryNext]_hsVars
        => [\A j \in HsJobs :
               (Lives(j) /\ hsJob'[j].stage = "none")
                 => /\ (near # NoWindow /\ near.read > hsJob[j].read) => near' = near
                    /\ (long # NoWindow /\ long.read > hsJob[j].read) => long' = long]_hsVars
  BY StepIsOvertaken DEF Overtaken
<1>3. QED
  BY <1>1, <1>2, InitIsHistory, PTL DEF HistorySpec, OvertakenPublishesNothing

(***************************************************************************)
(* HistoryPrewarm                                                          *)
(***************************************************************************)

Numerals == 0..(1 + Cardinality(Clients))
Requests == [saved : Bodies \cup {Current}, askers : SUBSET Askers]
Entries == [member : BOOLEAN, periods : BOOLEAN, due : BOOLEAN]

FileTypes ==
    /\ disk \in Bodies \cup {None} /\ finalBody \in Bodies \cup {None}
    /\ pending \in Requests \cup {None}
    /\ writer \in [at : {"idle", "woken", "writing"}, body : Bodies \cup {None},
                   askers : SUBSET Askers]
    /\ writer.at = "idle" => writer = Idle /\ pending = None
    /\ writer.at = "woken" => writer.askers = {} /\ pending # None
    /\ writer.at = "writing" => writer.body \in Bodies
    /\ durable \in [no : Numerals, list : Lists \cup {{}}]
    /\ posted \in [Clients -> Numerals] /\ latest \in Nat /\ acked \in Nat
    /\ stopping \in {"no", "waiting", "saving", "settling", "done"}

MemberTypes ==
    /\ leases \in [Owners -> SUBSET Symbols]
    /\ watchlist \in SUBSET Symbols /\ Cardinality(watchlist) <= MaxMembers
    /\ entries \in [Symbols -> Entries]
    /\ tasks \in [Symbols -> {"none", "current", "stale"}] /\ Cardinality(Busy) <= MaxWorkers
    /\ cached \in SUBSET Symbols
    /\ EntriesAreMembers

RunTypes ==
    /\ running \in BOOLEAN /\ initialized \in BOOLEAN /\ moved \in BOOLEAN
    /\ saveTimer \in BOOLEAN /\ drainTimer \in BOOLEAN
    /\ restore \in [at : {"idle", "reading", "read", "next", "awaiting", "over"},
                    file : Bodies \cup {None}, todo : SUBSET Symbols, symbol : Symbols \cup {None}]
    /\ restore.at = "read" => restore.file \in Bodies
    /\ restore.at = "awaiting" => restore.symbol \in Symbols

\* The clients whose save is not confirmed, and those that have made one.
Asks(c) == c \in writer.askers \/ (pending # None /\ c \in pending.askers)

Posted == {c \in Clients : posted[c] # 0}

\* Lists are numbered in the order in which they were saved.
Numbered == /\ \A c \in Clients : posted[c] <= 1 + Cardinality(Posted)
            /\ acked <= 1 + Cardinality(Posted)
            /\ \A c \in Clients : Asks(c) => c \in Posted

\* The list in memory is no older than what was confirmed or is asked for.
Known == durable.no >= acked /\ \A c \in Clients : Asks(c) => durable.no >= posted[c]

\* Before the file has been read nothing is written.
Early == running => restore.at \in {"reading", "read"} /\ ~moved
Quiet == pending = None /\ writer = Idle /\ finalBody = None /\ Early

Writing ==
    writer.at = "writing" => /\ writer.body.no >= acked
                             /\ \A c \in Clients : c \in writer.askers => writer.body.no >= posted[c]

\* As long as no list is saved, the file that is being restored stays as it is.
Restoring ==
    running /\ restore.at \in {"reading", "read"} /\ ~moved =>
        /\ writer = Idle /\ pending = None
        /\ restore.at = "read" => restore.file.no >= acked

\* What stop() has saved is what it hands over, and it is the last to ask.
Final ==
    /\ finalBody # None => /\ finalBody.no = durable.no
                           /\ stopping \in {"waiting", "saving", "settling", "done"}
    /\ pending # None /\ pending.saved # Current => stopping = "saving"
    /\ stopping # "saving" => /\ Stopper \notin writer.askers
                              /\ pending # None => Stopper \notin pending.askers
    /\ stopping = "saving" =>
          /\ finalBody # None
          /\ \/ /\ pending # None /\ pending.saved = finalBody
                /\ Stopper \in pending.askers /\ Stopper \notin writer.askers
             \/ /\ pending = None /\ writer.at = "writing" /\ writer.body = finalBody
                /\ Stopper \in writer.askers

\* The phases of the service.
Phases ==
    /\ running => stopping = "no"
    /\ ~running => ~saveTimer /\ ~drainTimer
    /\ ~running /\ stopping = "no" => /\ restore = NoRestore /\ Busy = {}
                                     /\ writer = Idle /\ pending = None
    /\ stopping \in {"saving", "settling", "done"} => Busy = {} /\ restore.at = "idle"
    /\ stopping = "done" => writer = Idle /\ pending = None
    /\ stopping \in {"settling", "done"} /\ finalBody # None =>
          pending = None /\ writer = Idle /\ disk = finalBody

Newer == running => durable.no >= latest /\ (~moved => latest = 0)

FileInv ==
    /\ FileTypes /\ SavedListKept /\ Newer /\ Numbered /\ (Known \/ Quiet)
    /\ Writing /\ Restoring /\ Final /\ Phases

WarmInv == MemberTypes /\ RunTypes /\ FileInv

-----------------------------------------------------------------------------
LEMMA PostedIsFinite == /\ IsFiniteSet(Posted) /\ Cardinality(Posted) \in Nat
                        /\ Cardinality(Posted) <= Cardinality(Clients) /\ Cardinality(Clients) \in Nat
<1>1. Posted \subseteq Clients /\ IsFiniteSet(Clients)
  BY PrewarmAssumption DEF Posted
<1> HIDE DEF Posted
<1> QED
  BY <1>1, FS_Subset, FS_CardinalityType

\* Numbers of lists fit into bodies.
LEMMA BodyIsTyped ==
    ASSUME NEW n \in Numerals, NEW list \in Lists \cup {{}}, NEW history \in SUBSET Symbols
    PROVE  Body(n, list, history) \in Bodies /\ Body(n, list, history).no = n
BY DEF Body, Bodies, Numerals

LEMMA BodyHas ==
    ASSUME NEW b \in Bodies
    PROVE  /\ b.no \in Numerals /\ b.list \in Lists \cup {{}} /\ b.history \in SUBSET Symbols
           /\ b # None /\ b # Current /\ b.no \in Nat
<1>1. b # None /\ b # Current
  BY BodiesAssumption
<1>2. b.no \in Numerals /\ b.list \in Lists \cup {{}} /\ b.history \in SUBSET Symbols
  BY DEF Bodies, Numerals
<1> QED
  BY <1>1, <1>2, PostedIsFinite DEF Numerals

LEMMA NoRequest == ASSUME NEW r \in Requests PROVE r # None
BY BodiesAssumption DEF Requests

LEMMA CheckpointIsTyped ==
    ASSUME FileTypes, MemberTypes
    PROVE  Checkpoint \in Bodies /\ Checkpoint.no = durable.no
<1>1. durable.no \in Numerals /\ durable.list \in Lists \cup {{}} /\ watchlist \cap cached \in SUBSET Symbols
  BY DEF FileTypes, MemberTypes
<1> QED
  BY <1>1, BodyIsTyped DEF Checkpoint

-----------------------------------------------------------------------------
(* The members                                                             *)

LEMMA SelectionFits ==
    ASSUME NEW list \in SUBSET Symbols, NEW owned \in SUBSET Symbols, NEW w \in Selection(list, owned)
    PROVE  w \in SUBSET Symbols /\ Cardinality(w) <= MaxMembers
<1> DEFINE requested == list \cup owned
<1>1. w \subseteq requested /\ Cardinality(w) = IF Cardinality(requested) < MaxMembers
                                                THEN Cardinality(requested) ELSE MaxMembers
  BY DEF Selection
<1>2. IsFiniteSet(requested) /\ requested \subseteq Symbols
  BY PrewarmAssumption, FS_Subset
<1>3. Cardinality(requested) \in Nat
  BY <1>2, FS_CardinalityType
<1> HIDE DEF requested
<1> QED
  BY <1>1, <1>2, <1>3, PrewarmAssumption

LEMMA ReconcileHolds ==
    ASSUME MemberTypes, Reconcile, leases' \in [Owners -> SUBSET Symbols],
           durable'.list \in SUBSET Symbols, cached' \in SUBSET Symbols,
           drainTimer \in BOOLEAN, running \in BOOLEAN
    PROVE  /\ MemberTypes' /\ Busy' = Busy /\ drainTimer' \in BOOLEAN
           /\ ~running => drainTimer' = drainTimer
<1>1. CASE UNCHANGED <<watchlist, entries, tasks, drainTimer>>
  BY <1>1 DEF MemberTypes, Busy, EntriesAreMembers
<1>2. ASSUME NEW list \in Selection(durable'.list, Owned(leases')), Members(list), drainTimer' = DrainSoon
      PROVE  MemberTypes' /\ Busy' = Busy
  <2>1. Owned(leases') \in SUBSET Symbols
    BY DEF Owned
  <2>2. list \in SUBSET Symbols /\ Cardinality(list) <= MaxMembers
    BY <2>1, SelectionFits
  <2>3. tasks' \in [Symbols -> {"none", "current", "stale"}]
    BY <1>2 DEF Members, MemberTypes
  <2>4. Busy' = Busy
    BY <1>2 DEF Members, MemberTypes, Busy
  <2>5. /\ entries' \in [Symbols -> Entries]
        /\ \A s \in Symbols : entries'[s].member <=> s \in list
    <3>1. ASSUME NEW s \in Symbols
          PROVE  entries'[s] \in Entries /\ (entries'[s].member <=> s \in list)
      <4>1. entries'[s] = IF s \notin list THEN NoEntry
                          ELSE IF entries[s].member THEN entries[s] ELSE NewEntry
        BY <1>2 DEF Members
      <4>2. entries[s] \in Entries
        BY DEF MemberTypes
      <4> QED
        BY <4>1, <4>2 DEF NoEntry, NewEntry, Entries
    <3>2. entries' = [s \in Symbols |-> entries'[s]]
      BY <1>2 DEF Members
    <3> QED
      BY <3>1, <3>2
  <2> QED
    BY <1>2, <2>2, <2>3, <2>4, <2>5 DEF Members, MemberTypes, EntriesAreMembers
<1> QED
  BY <1>1, <1>2 DEF Reconcile, DrainSoon

\* An entry is written again, and a worker forgotten or overtaken.
LEMMA EntryHolds ==
    ASSUME MemberTypes, NEW s \in Symbols, NEW e \in Entries, e.member = entries[s].member,
           entries' = entries \/ entries' = [entries EXCEPT ![s] = e],
           NEW t \in {"none", "current", "stale"}, t # "none" => tasks[s] # "none",
           tasks' = tasks \/ tasks' = [tasks EXCEPT ![s] = t],
           cached' \in SUBSET Symbols, UNCHANGED <<leases, watchlist>>
    PROVE  MemberTypes' /\ Busy' \subseteq Busy
<1>1. tasks' \in [Symbols -> {"none", "current", "stale"}] /\ Busy' \subseteq Busy
  BY DEF MemberTypes, Busy
<1>2. entries' \in [Symbols -> Entries] /\ EntriesAreMembers'
  BY DEF MemberTypes, EntriesAreMembers
<1>3. IsFiniteSet(Busy)
  BY PrewarmAssumption, FS_Subset DEF Busy
<1>4. Cardinality(Busy') <= Cardinality(Busy)
  <2> HIDE DEF Busy
  <2> QED
    BY <1>1, <1>3, FS_Subset
<1>5. Cardinality(Busy') \in Nat /\ Cardinality(Busy) \in Nat
  <2>1. IsFiniteSet(Busy')
    BY <1>1, <1>3, FS_Subset
  <2> QED
    BY <1>3, <2>1, FS_CardinalityType
<1>6. Cardinality(Busy') <= MaxWorkers
  BY <1>4, <1>5, PrewarmAssumption DEF MemberTypes
<1> QED
  BY <1>1, <1>2, <1>6 DEF MemberTypes

LEMMA RunDueHolds ==
    ASSUME MemberTypes, NEW picked \in SUBSET Symbols, RunDue(picked), UNCHANGED <<leases, watchlist, cached>>
    PROVE  MemberTypes'
<1>1. tasks' \in [Symbols -> {"none", "current", "stale"}] /\ Busy' = picked \cup Busy
  BY DEF RunDue, MemberTypes, Busy
<1>2. Cardinality(picked \cup Busy) <= MaxWorkers
  BY DEF RunDue, Picked
<1>3. ASSUME NEW s \in Symbols
      PROVE  entries'[s] \in Entries /\ entries'[s].member = entries[s].member
  BY DEF RunDue, MemberTypes, Entries
<1>4. entries' = [s \in Symbols |-> entries'[s]]
  BY DEF RunDue
<1>5. entries' \in [Symbols -> Entries] /\ EntriesAreMembers'
  BY <1>3, <1>4 DEF MemberTypes, EntriesAreMembers
<1> QED
  BY <1>1, <1>2, <1>5 DEF MemberTypes

LEMMA DurableIsSymbols == ASSUME FileTypes PROVE durable.list \in SUBSET Symbols
BY PrewarmAssumption DEF FileTypes

-----------------------------------------------------------------------------
(* Steps that leave the file alone                                         *)

\* restore() is past the file, or stays where it is.
PastTheFile == restore' = restore \/ (/\ restore.at \notin {"idle", "reading", "read"}
                                      /\ restore'.at \notin {"reading", "read"})

\* What the service does with its members and entries.
FileAlone ==
    /\ UNCHANGED <<checkpointVars, running, durable, moved, stopVars, historyVars>>
    /\ PastTheFile /\ (running \/ Busy' \subseteq Busy)
    /\ ~running => ~saveTimer' /\ ~drainTimer'

LEMMA FileStays ==
    ASSUME FileInv, FileAlone
    PROVE  FileInv'
<1>1. FileTypes' /\ SavedListKept' /\ Newer' /\ Numbered' /\ Writing' /\ Final'
  BY DEF FileInv, FileAlone, checkpointVars, stopVars, historyVars, FileTypes, SavedListKept, Newer,
         Numbered, Posted, Asks, Writing, Final
<1>2. (Known \/ Quiet)'
  BY DEF FileInv, FileAlone, PastTheFile, checkpointVars, stopVars, historyVars, Known, Quiet, Early,
         Posted, Asks
<1>3. Restoring'
  BY DEF FileInv, FileAlone, PastTheFile, checkpointVars, historyVars, Restoring
<1>4. Phases'
  <2>1. Phases /\ FileTypes
    BY DEF FileInv
  <2>2. ~running' /\ stopping' = "no" => restore' = NoRestore /\ Busy' = {}
    BY <2>1 DEF FileAlone, PastTheFile, Phases, NoRestore, stopVars
  <2>3. stopping' \in {"saving", "settling", "done"} => Busy' = {} /\ restore'.at = "idle"
    BY <2>1 DEF FileAlone, PastTheFile, Phases, stopVars
  <2> QED
    BY <2>1, <2>2, <2>3 DEF FileAlone, Phases, checkpointVars, stopVars
<1> QED
  BY <1>1, <1>2, <1>3, <1>4 DEF FileInv

LEMMA LeaseKeeps ==
    ASSUME WarmInv, NEW o \in Owners, NEW list \in Lists \cup {{}}, Lease(o, list) \/ Release(o)
    PROVE  WarmInv'
<1>1. leases' \in [Owners -> SUBSET Symbols]
  BY PrewarmAssumption DEF WarmInv, MemberTypes, Lease, Release
<1>2. durable'.list \in SUBSET Symbols /\ cached' \in SUBSET Symbols
  BY DurableIsSymbols DEF WarmInv, FileInv, MemberTypes, Lease, Release
<1>3. /\ MemberTypes' /\ Busy' = Busy /\ drainTimer' \in BOOLEAN
      /\ ~running => drainTimer' = drainTimer
  BY <1>1, <1>2, ReconcileHolds DEF WarmInv, RunTypes, Lease, Release
<1>4. saveTimer' \in BOOLEAN /\ (~running => saveTimer' = saveTimer)
  BY DEF WarmInv, RunTypes, Lease, Release, SaveSoon
<1>5. RunTypes'
  BY <1>3, <1>4 DEF WarmInv, RunTypes, Lease, Release, runVars, restoreVars
<1>6. FileAlone
  BY <1>3, <1>4 DEF WarmInv, FileInv, Phases, Lease, Release, runVars, restoreVars, stopVars, historyVars,
                    FileAlone, PastTheFile
<1> QED
  BY <1>3, <1>5, <1>6, FileStays DEF WarmInv

LEMMA DrainKeeps ==
    ASSUME WarmInv, Drain
    PROVE  WarmInv'
<1>1. MemberTypes'
  BY RunDueHolds DEF WarmInv, Drain, memberVars
<1>2. RunTypes'
  BY DEF WarmInv, RunTypes, Drain, runVars, restoreVars
<1>3. FileAlone
  BY DEF Drain, runVars, restoreVars, memberVars, stopVars, historyVars, FileAlone, PastTheFile
<1> QED
  BY <1>1, <1>2, <1>3, FileStays DEF WarmInv

LEMMA CommitHolds ==
    ASSUME MemberTypes, NEW s \in Symbols, NEW later \in BOOLEAN, Commit(s, later)
    PROVE  \E e \in Entries : /\ e.member = entries[s].member
                              /\ entries' = entries \/ entries' = [entries EXCEPT ![s] = e]
<1>1. entries[s] \in Entries
  BY DEF MemberTypes
<1>2. CASE entries[s].member
  <2> DEFINE e == [Warm EXCEPT !.due = later]
  <2>1. entries' = [entries EXCEPT ![s] = e] /\ e \in Entries /\ e.member = TRUE
    BY <1>2 DEF Commit, Warm, Entries
  <2> QED
    BY <1>2, <2>1
<1>3. CASE ~entries[s].member
  BY <1>1, <1>3 DEF Commit
<1> QED
  BY <1>2, <1>3

LEMMA DueHolds ==
    ASSUME MemberTypes, NEW s \in Symbols, NEW later \in BOOLEAN,
           entries' = entries \/ entries' = [entries EXCEPT ![s].due = later]
    PROVE  \E e \in Entries : /\ e.member = entries[s].member
                              /\ entries' = entries \/ entries' = [entries EXCEPT ![s] = e]
<1> DEFINE e == [entries[s] EXCEPT !.due = later]
<1>1. entries[s] \in Entries
  BY DEF MemberTypes
<1>2. e \in Entries /\ e.member = entries[s].member
  BY <1>1 DEF Entries
<1>3. entries' = entries \/ entries' = [entries EXCEPT ![s] = e]
  BY DEF MemberTypes
<1> QED
  BY <1>2, <1>3

LEMMA WorkerKeeps ==
    ASSUME WarmInv, NEW s \in Symbols, NEW ok \in BOOLEAN, WorkerEnds(s, ok) \/ TimePasses(s)
    PROVE  WarmInv'
<1>1. PICK e \in Entries : /\ e.member = entries[s].member
                           /\ entries' = entries \/ entries' = [entries EXCEPT ![s] = e]
  BY CommitHolds, DueHolds DEF WarmInv, WorkerEnds, TimePasses
<1>2. /\ tasks' = tasks \/ tasks' = [tasks EXCEPT ![s] = "none"]
      /\ cached' \in SUBSET Symbols /\ UNCHANGED <<leases, watchlist>>
  BY DEF WarmInv, MemberTypes, WorkerEnds, TimePasses, memberVars
<1>3. MemberTypes' /\ Busy' \subseteq Busy
  BY <1>1, <1>2, EntryHolds DEF WarmInv
<1>4. /\ saveTimer' \in BOOLEAN /\ (~running => saveTimer' = saveTimer)
      /\ drainTimer' \in BOOLEAN /\ (~running => drainTimer' = drainTimer)
  BY DEF WarmInv, RunTypes, WorkerEnds, TimePasses, SaveSoon, DrainSoon
<1>5. RunTypes'
  BY <1>4 DEF WarmInv, RunTypes, WorkerEnds, TimePasses, runVars, restoreVars
<1>6. FileAlone
  BY <1>3, <1>4 DEF WarmInv, FileInv, Phases, WorkerEnds, TimePasses, runVars, restoreVars, memberVars,
                    stopVars, historyVars, FileAlone, PastTheFile
<1> QED
  BY <1>3, <1>5, <1>6, FileStays DEF WarmInv

LEMMA RestoreNextKeeps ==
    ASSUME WarmInv, RestoreNext
    PROVE  WarmInv'
<1>1. MemberTypes' /\ Busy' = Busy
  BY DEF WarmInv, MemberTypes, RestoreNext, memberVars, Busy, EntriesAreMembers
<1>2. RunTypes' /\ PastTheFile
  BY DEF WarmInv, RunTypes, RestoreNext, runVars, Over, NoRestore, PastTheFile
<1>3. FileAlone
  BY <1>1, <1>2 DEF WarmInv, FileInv, Phases, RestoreNext, runVars, memberVars, stopVars, historyVars, FileAlone
<1> QED
  BY <1>1, <1>2, <1>3, FileStays DEF WarmInv

LEMMA RestoreOneKeeps ==
    ASSUME WarmInv, RestoreOne
    PROVE  WarmInv'
<1> DEFINE s == restore.symbol
<1>1. s \in Symbols
  BY DEF WarmInv, RunTypes, RestoreOne
<1>2. PICK e \in Entries : /\ e.member = entries[s].member
                           /\ entries' = entries \/ entries' = [entries EXCEPT ![s] = e]
  <2>1. CASE Commit(s, TRUE)
    BY <1>1, <2>1, CommitHolds DEF WarmInv
  <2>2. CASE UNCHANGED entries
    BY <1>1, <2>2, DueHolds DEF WarmInv
  <2> QED
    BY <2>1, <2>2 DEF RestoreOne
<1>3. tasks' = tasks \/ (tasks[s] # "none" /\ tasks' = [tasks EXCEPT ![s] = "stale"])
  BY DEF WarmInv, MemberTypes, RestoreOne
<1>4. cached' \in SUBSET Symbols /\ UNCHANGED <<leases, watchlist>>
  BY DEF WarmInv, MemberTypes, RestoreOne, memberVars
<1>5. MemberTypes' /\ Busy' \subseteq Busy
  <2> HIDE DEF s
  <2>1. CASE tasks' = tasks
    BY <1>1, <1>2, <1>4, <2>1, EntryHolds DEF WarmInv
  <2>2. CASE tasks[s] # "none" /\ tasks' = [tasks EXCEPT ![s] = "stale"]
    BY <1>1, <1>2, <1>4, <2>2, EntryHolds DEF WarmInv
  <2> QED
    BY <1>3, <2>1, <2>2
<1>6. saveTimer' \in BOOLEAN /\ (~running => saveTimer' = saveTimer)
  BY DEF WarmInv, RunTypes, RestoreOne, Commit, SaveSoon
<1>7. RunTypes' /\ PastTheFile
  <2>1. \/ restore' = [restore EXCEPT !.at = "next", !.symbol = None]
        \/ restore' = [NoRestore EXCEPT !.at = "over"]
    BY DEF RestoreOne, Over
  <2>2. /\ restore' \in [at : {"idle", "reading", "read", "next", "awaiting", "over"},
                         file : Bodies \cup {None}, todo : SUBSET Symbols, symbol : Symbols \cup {None}]
        /\ restore'.at \in {"next", "over"}
    BY <2>1 DEF WarmInv, RunTypes, NoRestore
  <2>3. restore.at = "awaiting" /\ UNCHANGED <<runVars, moved, drainTimer>>
    BY DEF RestoreOne
  <2> QED
    BY <1>6, <2>2, <2>3 DEF WarmInv, RunTypes, runVars, PastTheFile
<1>8. FileAlone
  BY <1>5, <1>6, <1>7 DEF WarmInv, FileInv, Phases, RestoreOne, runVars, memberVars, stopVars, historyVars,
                          FileAlone
<1> QED
  BY <1>5, <1>7, <1>8, FileStays DEF WarmInv

LEMMA InitializedKeeps ==
    ASSUME WarmInv, Initialized
    PROVE  WarmInv'
<1>1. MemberTypes' /\ (running \/ Busy' = Busy)
  <2>1. CASE running
    BY <2>1, RunDueHolds DEF WarmInv, Initialized, memberVars
  <2>2. CASE ~running
    BY <2>2 DEF WarmInv, MemberTypes, Initialized, memberVars, Busy, EntriesAreMembers
  <2> QED
    BY <2>1, <2>2
<1>2. RunTypes' /\ PastTheFile
  BY DEF WarmInv, RunTypes, Initialized, NoRestore, PastTheFile
<1>3. FileAlone
  BY <1>1, <1>2 DEF WarmInv, FileInv, Phases, Initialized, memberVars, stopVars, historyVars, FileAlone
<1> QED
  BY <1>1, <1>2, <1>3, FileStays DEF WarmInv

-----------------------------------------------------------------------------
(* Saving and writing                                                      *)

\* Steps that leave the members and their entries alone.
LEMMA MembersStay ==
    ASSUME MemberTypes, UNCHANGED <<leases, watchlist, entries, tasks>>, cached' = cached \/ cached' = {}
    PROVE  MemberTypes' /\ Busy' = Busy
BY DEF MemberTypes, Busy, EntriesAreMembers

LEMMA PersistHolds ==
    ASSUME FileTypes, NEW a \in Askers, NEW saved \in Bodies \cup {Current}, Persist(a, saved)
    PROVE  /\ pending' \in Requests /\ pending' # None /\ pending'.saved = saved
           /\ a \in pending'.askers
           /\ \A x \in Askers : x \in pending'.askers => x = a \/ (pending # None /\ x \in pending.askers)
           /\ writer' \in [at : {"idle", "woken", "writing"}, body : Bodies \cup {None},
                           askers : SUBSET Askers]
           /\ writer'.at # "idle" /\ (writer'.at = "woken" => writer'.askers = {})
           /\ writer'.askers = writer.askers
           /\ writer'.at = "writing" => writer' = writer
           /\ disk' = disk
<1>1. /\ pending' \in Requests /\ pending'.saved = saved /\ a \in pending'.askers
      /\ \A x \in Askers : x \in pending'.askers => x = a \/ (pending # None /\ x \in pending.askers)
  BY DEF Persist, FileTypes, Requests
<1>2. pending' # None
  BY <1>1, NoRequest
<1>3. CASE writer.at = "idle"
  BY <1>1, <1>2, <1>3 DEF Persist, FileTypes, Idle
<1>4. CASE writer.at # "idle"
  BY <1>1, <1>2, <1>4 DEF Persist, FileTypes
<1> QED
  BY <1>3, <1>4

\* A list that a client saves has the highest number so far.
LEMMA NumberIsNext ==
    ASSUME FileTypes, NEW c \in Clients, posted[c] = 0, posted' = [posted EXCEPT ![c] = NextNumber]
    PROVE  /\ NextNumber = 2 + Cardinality(Posted) /\ NextNumber \in Numerals
           /\ Cardinality(Posted') = Cardinality(Posted) + 1 /\ Cardinality(Posted) \in Nat
           /\ Posted' = Posted \cup {c} /\ c \notin Posted
<1>1. NextNumber = 2 + Cardinality(Posted)
  BY DEF NextNumber, Posted
<1>2. Posted' = Posted \cup {c} /\ c \notin Posted
  <2>1. NextNumber # 0
    BY <1>1, PostedIsFinite
  <2> QED
    BY <2>1 DEF FileTypes, Posted
<1>3. Cardinality(Posted \cup {c}) = Cardinality(Posted) + 1 /\ IsFiniteSet(Posted \cup {c})
  <2> HIDE DEF Posted
  <2> QED
    BY <1>2, PostedIsFinite, FS_AddElement
<1>4. Cardinality(Posted \cup {c}) <= Cardinality(Clients)
  <2>1. Posted \cup {c} \subseteq Clients /\ IsFiniteSet(Clients)
    BY PrewarmAssumption DEF Posted
  <2> HIDE DEF Posted
  <2> QED
    BY <2>1, FS_Subset
<1> QED
  BY <1>1, <1>2, <1>3, <1>4, PostedIsFinite DEF Numerals

LEMMA SaveKeeps ==
    ASSUME WarmInv, Troubles = {}, NEW c \in Clients, NEW list \in Lists, Save(c, list)
    PROVE  WarmInv'
<1>1. /\ posted[c] = 0 /\ running /\ durable' = [no |-> NextNumber, list |-> list]
      /\ posted' = [posted EXCEPT ![c] = NextNumber] /\ latest' = NextNumber /\ moved' = TRUE
      /\ Persist(c, Current) /\ Reconcile /\ saveTimer' = FALSE
      /\ UNCHANGED <<running, initialized, leases, restore, stopping, finalBody, acked, cached>>
  BY DEF Save, Late, runVars, stopVars
<1>2. FileTypes /\ stopping = "no" /\ FileInv
  BY <1>1 DEF WarmInv, FileInv, Phases
<1>3. /\ NextNumber = 2 + Cardinality(Posted) /\ NextNumber \in Numerals
      /\ Cardinality(Posted') = Cardinality(Posted) + 1 /\ Cardinality(Posted) \in Nat
      /\ Posted' = Posted \cup {c} /\ c \notin Posted
  BY <1>1, <1>2, NumberIsNext
<1>4. /\ pending' \in Requests /\ pending' # None /\ pending'.saved = Current
      /\ \A x \in Askers : x \in pending'.askers => x = c \/ (pending # None /\ x \in pending.askers)
      /\ writer' \in [at : {"idle", "woken", "writing"}, body : Bodies \cup {None}, askers : SUBSET Askers]
      /\ writer'.at # "idle" /\ (writer'.at = "woken" => writer'.askers = {})
      /\ writer'.askers = writer.askers /\ (writer'.at = "writing" => writer' = writer) /\ disk' = disk
  BY <1>1, <1>2, PrewarmAssumption, PersistHolds
<1>5. MemberTypes' /\ Busy' = Busy /\ drainTimer' \in BOOLEAN
  BY <1>1, PrewarmAssumption, ReconcileHolds DEF WarmInv, MemberTypes, RunTypes
<1>6. RunTypes'
  BY <1>1, <1>5 DEF WarmInv, RunTypes
<1>7. FileTypes' /\ SavedListKept' /\ Newer'
  BY <1>1, <1>2, <1>3, <1>4 DEF FileInv, FileTypes, SavedListKept, Newer, Numerals
<1>8. Numbered' /\ Known'
  <2>1. posted' \in [Clients -> Nat] /\ \A x \in Clients \ {c} : posted'[x] = posted[x]
    BY <1>1, <1>2, <1>3 DEF FileTypes, Numerals
  <2>2. \A x \in Clients : posted'[x] <= NextNumber
    BY <1>1, <1>2, <1>3, <2>1 DEF FileInv, Numbered, FileTypes, Numerals
  <2>3. \A x \in Clients : Asks(x)' => x \in Posted'
    BY <1>2, <1>3, <1>4, PrewarmAssumption DEF FileInv, Numbered, Asks
  <2>4. acked <= 1 + Cardinality(Posted) /\ acked \in Nat
    BY <1>2 DEF FileInv, Numbered, FileTypes
  <2> QED
    BY <1>1, <1>3, <2>1, <2>2, <2>3, <2>4 DEF Numbered, Known
<1>9. Writing'
  <2>1. SUFFICES ASSUME writer'.at = "writing"
                 PROVE  /\ writer'.body.no >= acked
                        /\ \A x \in Clients : x \in writer'.askers => writer'.body.no >= posted'[x]
    BY <1>1 DEF Writing
  <2>2. writer' = writer
    BY <1>4, <2>1
  <2>3. c \notin writer.askers
    BY <1>2, <1>3 DEF FileInv, Numbered, Asks
  <2> QED
    BY <1>1, <1>2, <2>1, <2>2, <2>3 DEF FileInv, Writing, FileTypes
<1>10. Restoring' /\ Phases'
  BY <1>1, <1>2 DEF Restoring, Phases
<1>11. Final'
  <2>1. Stopper \in Askers /\ Stopper # c
    BY PrewarmAssumption
  <2> QED
    BY <1>1, <1>2, <1>4, <2>1 DEF FileInv, Final
<1> QED
  BY <1>5, <1>6, <1>7, <1>8, <1>9, <1>10, <1>11 DEF WarmInv, FileInv

LEMMA TimerKeeps ==
    ASSUME WarmInv, Troubles = {}, SaveTimerFires
    PROVE  WarmInv'
<1>1. /\ saveTimer /\ restore.at \notin {"reading", "read"} /\ saveTimer' = FALSE /\ Persist(Timer, Current)
      /\ UNCHANGED <<running, initialized, durable, leases, watchlist, entries, tasks, cached, drainTimer,
                     restore, moved, restored, stopping, finalBody, posted, latest, acked>>
  BY DEF SaveTimerFires, Slow, runVars, memberVars, restoreVars, stopVars, historyVars
<1>2. FileInv /\ FileTypes /\ running /\ stopping = "no"
  BY <1>1 DEF WarmInv, FileInv, Phases
<1>3. Known
  BY <1>1, <1>2 DEF FileInv, Quiet, Early
<1>4. /\ pending' \in Requests /\ pending' # None /\ pending'.saved = Current
      /\ \A x \in Askers : x \in pending'.askers => x = Timer \/ (pending # None /\ x \in pending.askers)
      /\ writer' \in [at : {"idle", "woken", "writing"}, body : Bodies \cup {None}, askers : SUBSET Askers]
      /\ writer'.at # "idle" /\ (writer'.at = "woken" => writer'.askers = {})
      /\ writer'.askers = writer.askers /\ (writer'.at = "writing" => writer' = writer) /\ disk' = disk
  BY <1>1, <1>2, PrewarmAssumption, PersistHolds
<1>5. MemberTypes' /\ RunTypes'
  BY <1>1, MembersStay DEF WarmInv, RunTypes
<1>6. FileTypes' /\ SavedListKept' /\ Newer' /\ Writing' /\ Restoring' /\ Phases'
  BY <1>1, <1>2, <1>4 DEF FileInv, FileTypes, SavedListKept, Newer, Writing, Restoring, Phases
<1>7. \A c \in Clients : Asks(c)' => Asks(c)
  BY <1>4, PrewarmAssumption DEF Asks
<1>8. Numbered' /\ Known'
  BY <1>1, <1>2, <1>3, <1>7 DEF FileInv, Numbered, Known, Posted
<1>9. Final'
  <2>1. Stopper \in Askers /\ Stopper # Timer
    BY PrewarmAssumption
  <2> QED
    BY <1>1, <1>2, <1>4, <2>1 DEF FileInv, Final
<1> QED
  BY <1>5, <1>6, <1>8, <1>9 DEF WarmInv, FileInv

\* The next write carries the list in memory, or what stop() has taken of it.
LEMMA NextHolds ==
    ASSUME WarmInv, Known, TakeNext(Checkpoint), pending # None, FileTypes
    PROVE  /\ pending' = None /\ writer'.at = "writing" /\ writer'.body \in Bodies
           /\ writer'.body.no = durable.no /\ writer'.askers = pending.askers
           /\ pending.saved # Current => writer'.body = pending.saved
           /\ writer' \in [at : {"idle", "woken", "writing"}, body : Bodies \cup {None},
                           askers : SUBSET Askers]
<1>1. pending \in Requests /\ Checkpoint \in Bodies /\ Checkpoint.no = durable.no
  BY CheckpointIsTyped DEF WarmInv, FileTypes
<1>2. pending.saved # Current => pending.saved = finalBody /\ finalBody.no = durable.no
  BY <1>1, BodyHas DEF WarmInv, FileInv, Final, Requests
<1> QED
  BY <1>1, <1>2 DEF TakeNext, Requests

LEMMA BeginsKeeps ==
    ASSUME WarmInv, WriteBegins
    PROVE  WarmInv'
<1>1. /\ writer.at = "woken" /\ TakeNext(Checkpoint) /\ disk' = disk /\ UNCHANGED prewarmVars
  BY DEF WriteBegins, DrainBegins
<1>2. /\ UNCHANGED <<running, initialized, durable, leases, watchlist, entries, tasks, cached, saveTimer,
                     drainTimer, restore, moved, restored, stopping, finalBody, posted, latest, acked>>
  BY <1>1 DEF prewarmVars
<1>3. FileInv /\ FileTypes /\ pending # None /\ writer.askers = {}
  BY <1>1 DEF WarmInv, FileInv, FileTypes
<1>4. Known
  BY <1>3 DEF FileInv, Quiet
<1>5. /\ pending' = None /\ writer'.at = "writing" /\ writer'.body \in Bodies
      /\ writer'.body.no = durable.no /\ writer'.askers = pending.askers
      /\ pending.saved # Current => writer'.body = pending.saved
      /\ writer' \in [at : {"idle", "woken", "writing"}, body : Bodies \cup {None}, askers : SUBSET Askers]
  BY <1>1, <1>3, <1>4, NextHolds
<1>6. MemberTypes' /\ RunTypes'
  BY <1>2, MembersStay DEF WarmInv, RunTypes
<1>7. FileTypes' /\ SavedListKept' /\ Newer' /\ Phases'
  BY <1>1, <1>2, <1>3, <1>5 DEF FileInv, FileTypes, SavedListKept, Newer, Phases, Idle, Busy
<1>8. \A c \in Clients : Asks(c)' => Asks(c)
  BY <1>3, <1>5 DEF Asks
<1>9. Numbered' /\ Known' /\ Writing'
  <2>1. Numbered' /\ Known'
    BY <1>2, <1>3, <1>4, <1>8 DEF FileInv, Numbered, Known, Posted
  <2> QED
    BY <1>2, <1>5, <2>1 DEF Known, Asks, Writing
<1>10. Restoring'
  BY <1>1, <1>2, <1>3 DEF FileInv, Restoring, Idle
<1>11. Final'
  <2>1. Stopper \notin writer.askers
    BY <1>3
  <2>2. stopping = "saving" => pending.saved = finalBody /\ Stopper \in pending.askers /\ finalBody # Current
    BY <1>3, <2>1, BodyHas DEF FileInv, Final, FileTypes
  <2> QED
    BY <1>2, <1>3, <1>5, <2>2 DEF FileInv, Final
<1> QED
  BY <1>6, <1>7, <1>9, <1>10, <1>11 DEF WarmInv, FileInv

\* Sets of natural numbers have a least member.
LEMMA LeastNumber == ASSUME NEW S \in SUBSET Nat, S # {} PROVE \E x \in S : \A y \in S : x <= y
<1> DEFINE R == {pair \in Nat \X Nat : pair[1] < pair[2]}
<1>1. IsWellFoundedOn(R, Nat)
  BY NatLessThanWellFounded DEF OpToRel
<1> HIDE DEF R
<1>2. PICK x \in S : \A y \in S : <<y, x>> \notin R
  BY <1>1, WFMin
<1>3. \A y \in S : ~(y < x)
  BY <1>2 DEF R
<1> QED
  BY <1>3

\* The highest of the numbers that a write confirms.
Confirmed == {posted[c] : c \in writer.askers \cap Clients}

LEMMA HighestConfirmed ==
    ASSUME FileTypes, Confirmed # {}
    PROVE  \E n \in Confirmed : \A m \in Confirmed : m <= n
<1>1. Confirmed \subseteq Nat /\ \A m \in Confirmed : m <= 1 + Cardinality(Clients)
  BY PostedIsFinite DEF Confirmed, FileTypes, Numerals
<1> DEFINE B == 1 + Cardinality(Clients)
           Room == {B - n : n \in Confirmed}
<1>2. B \in Nat
  BY PostedIsFinite
<1>3. Room \subseteq Nat /\ Room # {}
  <2>1. ASSUME NEW n \in Confirmed PROVE B - n \in Nat
    <3> HIDE DEF Confirmed, B
    <3>1. n \in Nat /\ n <= B
      BY <1>1 DEF B
    <3> QED
      BY <1>2, <3>1
  <2> HIDE DEF Confirmed, B
  <2> QED
    BY <2>1
<1>4. PICK least \in Room : \A r \in Room : least <= r
  <2> HIDE DEF Room
  <2> QED
    BY <1>3, LeastNumber
<1>5. PICK n \in Confirmed : least = B - n
  BY <1>4
<1>6. ASSUME NEW m \in Confirmed PROVE m <= n
  <2>1. B - m \in Room
    OBVIOUS
  <2>2. least <= B - m
    BY <1>4, <2>1
  <2> HIDE DEF Confirmed, Room
  <2> QED
    BY <1>1, <1>2, <1>5, <2>2
<1> QED
  BY <1>6

\* What a write confirms is in the file.
LEMMA AckedHolds ==
    ASSUME WarmInv, NEW ok \in BOOLEAN, Write(ok)
    PROVE  /\ acked' \in Nat /\ acked' >= acked
           /\ acked' <= writer.body.no /\ (~ok => acked' = acked)
           /\ acked' # acked => acked' \in Confirmed
<1>1. FileTypes /\ Writing /\ writer.at = "writing" /\ writer.body \in Bodies /\ acked \in Nat
  BY DEF WarmInv, FileInv, Write, WriteEnds, FileTypes
<1>2. acked' = IF ok /\ \E n \in Confirmed : n > acked
               THEN CHOOSE n \in Confirmed : \A m \in Confirmed : m <= n ELSE acked
  BY DEF Write, Confirmed
<1>3. Confirmed \subseteq Nat /\ writer.body.no \in Nat /\ acked <= writer.body.no
  BY <1>1, BodyHas, PostedIsFinite DEF Confirmed, FileTypes, Numerals, Writing
<1>4. \A n \in Confirmed : n <= writer.body.no
  BY <1>1, <1>3 DEF Confirmed, Writing
<1>5. CASE ok /\ \E n \in Confirmed : n > acked
  <2>1. \E n \in Confirmed : \A m \in Confirmed : m <= n
    BY <1>1, <1>5, HighestConfirmed
  <2>2. acked' \in Confirmed /\ \A m \in Confirmed : m <= acked'
    BY <1>2, <1>5, <2>1
  <2>3. PICK n \in Confirmed : n > acked
    BY <1>5
  <2> HIDE DEF Confirmed
  <2>4. n \in Nat /\ acked' \in Nat /\ n <= acked' /\ acked' <= writer.body.no
    BY <1>3, <1>4, <2>2
  <2> QED
    BY <1>1, <1>5, <2>2, <2>3, <2>4
<1>6. CASE ~(ok /\ \E n \in Confirmed : n > acked)
  <2> HIDE DEF Confirmed
  <2>1. acked' = acked
    BY <1>2, <1>6
  <2> QED
    BY <1>1, <1>3, <2>1
<1> QED
  BY <1>5, <1>6

LEMMA WriteKeeps ==
    ASSUME WarmInv, NEW ok \in BOOLEAN, Write(ok)
    PROVE  WarmInv'
<1>1. /\ writer.at = "writing" /\ disk' = (IF ok THEN writer.body ELSE disk)
      /\ TakeNext(Checkpoint) /\ StopWritten(ok)
      /\ UNCHANGED <<running, initialized, durable, leases, watchlist, entries, tasks, cached, saveTimer,
                     drainTimer, restore, moved, restored, posted, latest>>
  BY DEF Write, WriteEnds, runVars, memberVars, restoreVars
<1>2. FileInv /\ FileTypes /\ writer.body \in Bodies /\ writer # Idle
  BY <1>1 DEF WarmInv, FileInv, FileTypes, Idle
<1>3. Known
  BY <1>2 DEF FileInv, Quiet
<1>4. /\ acked' \in Nat /\ acked' >= acked
      /\ acked' <= writer.body.no /\ (~ok => acked' = acked)
      /\ acked' # acked => acked' \in Confirmed
  BY AckedHolds
<1>5. /\ pending' = None
      /\ pending = None => writer' = Idle
      /\ pending # None => /\ writer'.at = "writing" /\ writer'.body \in Bodies
                           /\ writer'.body.no = durable.no /\ writer'.askers = pending.askers
                           /\ pending.saved # Current => writer'.body = pending.saved
      /\ writer' \in [at : {"idle", "woken", "writing"}, body : Bodies \cup {None}, askers : SUBSET Askers]
  <2>1. CASE pending = None
    BY <1>1, <2>1 DEF TakeNext, Idle
  <2>2. CASE pending # None
    BY <1>1, <1>2, <1>3, <2>2, NextHolds
  <2> QED
    BY <2>1, <2>2
<1>6. MemberTypes' /\ RunTypes' /\ Busy' = Busy
  BY <1>1, MembersStay DEF WarmInv, RunTypes
<1>7. durable.no \in Nat /\ acked' <= durable.no /\ acked' <= 1 + Cardinality(Posted)
  <2>1. durable.no \in Nat /\ acked <= durable.no /\ acked <= 1 + Cardinality(Posted)
    BY <1>2, <1>3, PostedIsFinite DEF FileTypes, Numerals, Known, FileInv, Numbered
  <2>2. \A n \in Confirmed : n <= durable.no /\ n <= 1 + Cardinality(Posted)
    BY <1>2, <1>3 DEF Confirmed, Known, Asks, FileInv, Numbered
  <2> HIDE DEF Confirmed
  <2> QED
    BY <1>4, <2>1, <2>2
<1>8. \A c \in Clients : Asks(c)' => Asks(c)
  BY <1>5 DEF Asks, Idle
<1>9. Numbered' /\ Known' /\ Writing'
  <2>1. Numbered'
    BY <1>1, <1>2, <1>7, <1>8 DEF FileInv, Numbered, Posted
  <2>2. Known'
    BY <1>1, <1>3, <1>7, <1>8 DEF Known
  <2>3. Writing'
    BY <1>1, <1>5, <1>7, <2>2 DEF Known, Asks, Writing, Idle
  <2> QED
    BY <2>1, <2>2, <2>3
<1>10. SavedListKept'
  <2>1. CASE ok
    BY <1>1, <1>2, <1>4, <2>1, BodyHas DEF SavedListKept
  <2>2. CASE ~ok
    BY <1>1, <1>2, <1>4, <2>2 DEF FileInv, SavedListKept
  <2> QED
    BY <2>1, <2>2
<1>11. Newer' /\ Restoring'
  BY <1>1, <1>2 DEF FileInv, Newer, Restoring
<1>12. FileTypes' /\ Final' /\ Phases'
  <2>0. Stopper \in writer.askers => stopping = "saving" /\ pending = None /\ writer.body = finalBody /\ ~running
    BY <1>2 DEF FileInv, Final, Phases
  <2>1. stopping \in {"no", "waiting", "saving", "settling", "done"} /\ finalBody \in Bodies \cup {None}
    BY <1>2 DEF FileTypes
  <2>2. disk' \in Bodies \cup {None}
    BY <1>1, <1>2 DEF FileTypes
  <2>3. writer'.at # "woken" /\ (writer'.at = "idle" => writer' = Idle)
    BY <1>5 DEF Idle
  <2>4. CASE Stopper \in writer.askers
    <3>1. stopping' = (IF ok THEN "settling" ELSE "done") /\ finalBody' = (IF ok THEN finalBody ELSE None)
      BY <1>1, <2>4 DEF StopWritten
    <3>2. writer' = Idle
      BY <1>5, <2>0, <2>4
    <3>3. FileTypes'
      BY <1>1, <1>2, <1>4, <1>5, <2>1, <2>2, <3>1, <3>2 DEF FileTypes, Idle
    <3>4. Final'
      BY <1>1, <1>2, <1>5, <2>0, <2>4, <3>1, <3>2 DEF FileInv, Final, Idle
    <3>5. Phases'
      BY <1>1, <1>2, <1>5, <1>6, <2>0, <2>4, <3>1, <3>2 DEF FileInv, Phases
    <3> QED
      BY <3>3, <3>4, <3>5
  <2>5. CASE Stopper \notin writer.askers
    <3>1. UNCHANGED <<stopping, finalBody>>
      BY <1>1, <2>5 DEF StopWritten, stopVars
    <3>2. FileTypes'
      BY <1>1, <1>2, <1>4, <1>5, <2>1, <2>2, <2>3, <3>1 DEF FileTypes, Idle
    <3>3. Final'
      <4>1. stopping = "saving" => /\ pending # None /\ pending.saved = finalBody /\ Stopper \in pending.askers
                                   /\ finalBody # Current
        BY <1>2, <2>5, BodyHas DEF FileInv, Final, FileTypes
      <4> QED
        BY <1>1, <1>2, <1>5, <3>1, <4>1 DEF FileInv, Final, Idle
    <3>4. Phases'
      BY <1>1, <1>2, <1>5, <1>6, <3>1 DEF FileInv, Phases
    <3> QED
      BY <3>2, <3>3, <3>4
  <2> QED
    BY <2>4, <2>5
<1> QED
  BY <1>6, <1>9, <1>10, <1>11, <1>12 DEF WarmInv, FileInv

-----------------------------------------------------------------------------
(* start(), restore() and stop()                                           *)

LEMMA ServiceStarts ==
    ASSUME WarmInv, Start
    PROVE  WarmInv'
<1>1. /\ ~running /\ stopping \in {"no", "done"} /\ running' = TRUE
      /\ restore' = [NoRestore EXCEPT !.at = "reading"] /\ moved' = FALSE /\ latest' = 0
      /\ stopping' = "no" /\ finalBody' = None
      /\ UNCHANGED <<disk, pending, writer, initialized, durable, leases, watchlist, entries, tasks, cached,
                     saveTimer, drainTimer, posted, acked>>
  BY DEF Start, checkpointVars, memberVars
<1>2. FileInv /\ FileTypes /\ writer = Idle /\ pending = None
  BY <1>1 DEF WarmInv, FileInv, Phases
<1>3. MemberTypes'
  BY <1>1, MembersStay DEF WarmInv
<1>4. RunTypes' /\ restore'.at = "reading"
  BY <1>1 DEF WarmInv, RunTypes, NoRestore
<1>5. FileTypes' /\ SavedListKept' /\ Newer' /\ Numbered' /\ Writing'
  BY <1>1, <1>2, PostedIsFinite DEF FileInv, FileTypes, SavedListKept, Newer, Numbered, Posted, Asks, Writing,
                                    Numerals
<1>6. Quiet' /\ Restoring' /\ Final' /\ Phases'
  BY <1>1, <1>2, <1>4 DEF Quiet, Early, Restoring, Final, Phases, Idle
<1> QED
  BY <1>3, <1>4, <1>5, <1>6 DEF WarmInv, FileInv

LEMMA ReadFileKeeps ==
    ASSUME WarmInv, Troubles = {}, ReadFile
    PROVE  WarmInv'
<1>1. /\ restore.at = "reading"
      /\ UNCHANGED <<disk, pending, writer, running, initialized, durable, leases, watchlist, entries, tasks,
                     cached, saveTimer, drainTimer, moved, stopping, finalBody, posted, latest, acked>>
      /\ \/ disk # None /\ restore' = [restore EXCEPT !.at = "read", !.file = disk]
         \/ disk = None /\ restore' = [NoRestore EXCEPT !.at = "over"]
  BY DEF ReadFile, Over, Unreadable, checkpointVars, runVars, memberVars, stopVars, historyVars
<1>2. FileInv /\ FileTypes /\ stopping \in {"no", "waiting"}
  BY <1>1 DEF WarmInv, FileInv, Phases, FileTypes
<1>3. ~(~running /\ stopping = "no")
  BY <1>1, <1>2 DEF FileInv, Phases, NoRestore
<1>4. MemberTypes' /\ Busy' = Busy
  BY <1>1, MembersStay DEF WarmInv
<1>5. RunTypes' /\ restore'.at \in {"read", "over"} /\ (restore'.at = "read" => restore'.file = disk /\ disk # None)
      /\ (restore'.at = "over" => disk = None)
  BY <1>1, <1>2 DEF WarmInv, RunTypes, FileTypes, NoRestore
<1>6. FileTypes' /\ SavedListKept' /\ Newer' /\ Numbered' /\ Writing' /\ Final'
  BY <1>1, <1>2 DEF FileInv, FileTypes, SavedListKept, Newer, Numbered, Posted, Asks, Writing, Final
<1>7. Phases'
  BY <1>1, <1>2, <1>3, <1>4 DEF FileInv, Phases
<1>8. Restoring'
  <2>1. disk # None => disk.no >= acked
    BY <1>2, BodyHas DEF FileInv, SavedListKept, FileTypes
  <2> QED
    BY <1>1, <1>2, <1>5, <2>1 DEF FileInv, Restoring
<1>9. (Known \/ Quiet)'
  <2>1. CASE Known
    BY <1>1, <2>1 DEF Known, Asks
  <2>2. CASE Quiet /\ (~running \/ restore'.at = "read")
    BY <1>1, <2>2 DEF Quiet, Early
  <2>3. CASE Quiet /\ restore'.at = "over"
    <3>1. disk = None /\ acked = 0
      BY <1>2, <1>5, <2>3 DEF FileInv, SavedListKept, FileTypes
    <3>2. Known
      BY <1>2, <2>3, <3>1, PostedIsFinite DEF Quiet, Known, Asks, Idle, FileTypes, Numerals
    <3> QED
      BY <1>1, <3>2 DEF Known, Asks
  <2> QED
    BY <1>2, <1>5, <2>1, <2>2, <2>3 DEF FileInv
<1> QED
  BY <1>4, <1>5, <1>6, <1>7, <1>8, <1>9 DEF WarmInv, FileInv

LEMMA TakeKeeps ==
    ASSUME WarmInv, TakeFile, restore.at = "read",
           UNCHANGED <<checkpointVars, runVars, moved, restored, stopVars, historyVars>>
    PROVE  WarmInv'
<1>1. /\ running /\ restore.file \in Bodies /\ FileInv /\ FileTypes /\ stopping = "no"
      /\ cached' = cached \cup restore.file.history
      /\ UNCHANGED <<disk, pending, writer, running, initialized, leases, moved, stopping, finalBody, posted, latest, acked>>
  BY DEF TakeFile, WarmInv, RunTypes, FileInv, Phases, checkpointVars, runVars, stopVars, historyVars, memberVars
<1>2. /\ restore.file.no \in Numerals /\ restore.file.no \in Nat /\ restore.file.list \in Lists \cup {{}}
      /\ restore.file.history \in SUBSET Symbols /\ cached' \in SUBSET Symbols
  BY <1>1, BodyHas DEF WarmInv, MemberTypes
<1>3. /\ MemberTypes' /\ drainTimer' \in BOOLEAN /\ saveTimer' \in BOOLEAN
      /\ durable' \in [no : Numerals, list : Lists \cup {{}}]
      /\ moved => durable' = durable
      /\ ~moved => durable'.no = restore.file.no
  <2>1. CASE moved
    BY <1>1, <1>2, <2>1 DEF TakeFile, WarmInv, MemberTypes, RunTypes, FileTypes, memberVars, Busy, EntriesAreMembers
  <2>2. CASE ~moved
    <3>1. /\ durable' = [no |-> restore.file.no, list |-> restore.file.list] /\ Reconcile
          /\ saveTimer' = SaveSoon
      BY <2>2 DEF TakeFile
    <3>2. durable'.list \in SUBSET Symbols
      BY <1>2, <3>1, PrewarmAssumption
    <3>3. MemberTypes' /\ drainTimer' \in BOOLEAN
      BY <1>1, <1>2, <3>1, <3>2, ReconcileHolds DEF WarmInv, MemberTypes, RunTypes
    <3> QED
      BY <1>2, <2>2, <3>1, <3>3 DEF WarmInv, RunTypes, SaveSoon
  <2> QED
    BY <2>1, <2>2
<1>4. RunTypes' /\ restore'.at = "next"
  <2>1. restore' = [restore EXCEPT !.at = "next", !.file = None, !.todo = watchlist'] /\ watchlist' \in SUBSET Symbols
    BY <1>3 DEF TakeFile, MemberTypes
  <2>2. /\ restore' \in [at : {"idle", "reading", "read", "next", "awaiting", "over"},
                         file : Bodies \cup {None}, todo : SUBSET Symbols, symbol : Symbols \cup {None}]
        /\ restore'.at = "next"
    BY <2>1 DEF WarmInv, RunTypes
  <2> QED
    BY <1>1, <1>3, <2>2 DEF WarmInv, RunTypes
<1>5. Known' /\ Newer'
  <2>1. CASE moved
    <3>1. Known
      BY <1>1, <2>1 DEF FileInv, Quiet, Early
    <3> QED
      BY <1>1, <1>3, <2>1, <3>1 DEF FileInv, Newer, Known, Asks
  <2>2. CASE ~moved
    <3>1. restore.file.no >= acked /\ writer = Idle /\ pending = None
      BY <1>1, <2>2 DEF FileInv, Restoring
    <3>2. \A c \in Clients : ~Asks(c)'
      BY <1>1, <3>1 DEF Asks, Idle
    <3> QED
      BY <1>1, <1>2, <1>3, <2>2, <3>1, <3>2 DEF FileInv, Newer, Known
  <2> QED
    BY <2>1, <2>2
<1>6. FileTypes' /\ SavedListKept' /\ Numbered' /\ Writing'
  BY <1>1, <1>3 DEF FileInv, FileTypes, SavedListKept, Numbered, Posted, Asks, Writing
<1>7. Restoring' /\ Phases'
  BY <1>1, <1>4 DEF Restoring, Phases
<1>8. Final'
  BY <1>1 DEF FileInv, Final
<1> QED
  BY <1>3, <1>4, <1>5, <1>6, <1>7, <1>8 DEF WarmInv, FileInv

LEMMA ApplyKeeps ==
    ASSUME WarmInv, RestoreApply
    PROVE  WarmInv'
<1>1. CASE TakeFile
  BY <1>1, TakeKeeps DEF RestoreApply
<1>2. CASE /\ ~running /\ Over
           /\ UNCHANGED <<memberVars, entries, tasks, cached, saveTimer, drainTimer>>
  <2>1. /\ ~running /\ restore' = [NoRestore EXCEPT !.at = "over"] /\ restore.at = "read"
        /\ UNCHANGED <<disk, pending, writer, running, initialized, durable, leases, watchlist, entries, tasks,
                       cached, saveTimer, drainTimer, moved, stopping, finalBody, posted, latest, acked>>
    BY <1>2 DEF RestoreApply, Over, checkpointVars, runVars, memberVars, stopVars, historyVars
  <2>2. FileInv /\ stopping \notin {"no", "saving", "settling", "done"}
    BY <2>1 DEF WarmInv, FileInv, Phases, NoRestore
  <2>3. MemberTypes' /\ Busy' = Busy
    BY <2>1, MembersStay DEF WarmInv
  <2>4. RunTypes' /\ restore'.at = "over"
    BY <2>1 DEF WarmInv, RunTypes, NoRestore
  <2>5. FileTypes' /\ SavedListKept' /\ Newer' /\ Numbered' /\ Writing' /\ Final'
    BY <2>1, <2>2 DEF FileInv, FileTypes, SavedListKept, Newer, Numbered, Posted, Asks, Writing, Final
  <2>6. (Known \/ Quiet)'
    BY <2>1, <2>2 DEF FileInv, Known, Asks, Quiet, Early
  <2>7. Restoring' /\ Phases'
    BY <2>1, <2>2, <2>3 DEF FileInv, Restoring, Phases
  <2> QED
    BY <2>3, <2>4, <2>5, <2>6, <2>7 DEF WarmInv, FileInv
<1> QED
  BY <1>1, <1>2 DEF RestoreApply

LEMMA StopKeeps ==
    ASSUME WarmInv, Troubles = {}, Stop
    PROVE  WarmInv'
<1>1. /\ running /\ ~(initialized /\ restore.at \in {"reading", "read"})
      /\ running' = FALSE /\ stopping' = "waiting" /\ finalBody' = (IF initialized THEN Checkpoint ELSE None)
      /\ saveTimer' = FALSE /\ drainTimer' = FALSE /\ cached' = {}
      /\ UNCHANGED <<disk, pending, writer, initialized, durable, leases, watchlist, entries, tasks, restore,
                     moved, posted, latest, acked>>
  BY DEF Stop, Hasty, checkpointVars, memberVars, restoreVars, historyVars
<1>2. FileInv /\ FileTypes /\ stopping = "no" /\ initialized \in BOOLEAN
  BY <1>1 DEF WarmInv, RunTypes, FileInv, Phases
<1>3. Checkpoint \in Bodies /\ Checkpoint.no = durable.no /\ Checkpoint # None
  BY <1>2, CheckpointIsTyped, BodyHas DEF WarmInv
<1>4. MemberTypes' /\ RunTypes'
  BY <1>1, MembersStay DEF WarmInv, RunTypes
<1>5. FileTypes' /\ SavedListKept' /\ Newer' /\ Numbered' /\ Writing' /\ Restoring' /\ Phases'
  BY <1>1, <1>2, <1>3 DEF FileInv, FileTypes, SavedListKept, Newer, Numbered, Posted, Asks, Writing, Restoring, Phases
<1>6. (Known \/ Quiet)'
  <2>1. CASE Known
    BY <1>1, <2>1 DEF Known, Asks
  <2>2. CASE Quiet
    BY <1>1, <1>2, <2>2 DEF Quiet, Early
  <2> QED
    BY <1>2, <2>1, <2>2 DEF FileInv
<1>7. Final'
  BY <1>1, <1>2, <1>3 DEF FileInv, Final
<1> QED
  BY <1>4, <1>5, <1>6, <1>7 DEF WarmInv, FileInv

LEMMA StopSavesKeeps ==
    ASSUME WarmInv, StopSaves
    PROVE  WarmInv'
<1>1. /\ stopping = "waiting" /\ restore.at = "idle" /\ Busy = {}
      /\ saveTimer' = saveTimer \/ saveTimer' = FALSE
      /\ UNCHANGED <<running, initialized, durable, leases, watchlist, entries, tasks, cached, drainTimer,
                     restore, moved, finalBody, posted, latest, acked>>
      /\ IF finalBody = None THEN stopping' = "settling" /\ UNCHANGED <<disk, pending, writer>>
         ELSE stopping' = "saving" /\ Persist(Stopper, finalBody)
  BY DEF StopSaves, runVars, memberVars, restoreVars, historyVars, checkpointVars
<1>2. FileInv /\ FileTypes /\ ~running /\ Stopper \notin writer.askers
  BY <1>1 DEF WarmInv, FileInv, Phases, Final
<1>3. MemberTypes' /\ RunTypes' /\ Busy' = Busy
  BY <1>1, MembersStay DEF WarmInv, RunTypes
<1>4. CASE finalBody = None
  <2>1. FileTypes' /\ SavedListKept' /\ Newer' /\ Numbered' /\ Writing' /\ Restoring'
    BY <1>1, <1>2, <1>4 DEF FileInv, FileTypes, SavedListKept, Newer, Numbered, Posted, Asks, Writing, Restoring
  <2>2. (Known \/ Quiet)' /\ Final'
    BY <1>1, <1>2, <1>4 DEF FileInv, Known, Asks, Quiet, Early, Final
  <2>3. Phases'
    BY <1>1, <1>2, <1>3, <1>4 DEF WarmInv, FileInv, Phases
  <2> QED
    BY <1>3, <2>1, <2>2, <2>3 DEF WarmInv, FileInv
<1>5. CASE finalBody # None
  <2>1. stopping' = "saving" /\ finalBody \in Bodies /\ Persist(Stopper, finalBody) /\ Stopper \in Askers
    BY <1>1, <1>2, <1>5, PrewarmAssumption DEF FileTypes
  <2>2. /\ pending' \in Requests /\ pending' # None /\ pending'.saved = finalBody /\ Stopper \in pending'.askers
        /\ \A x \in Askers : x \in pending'.askers => x = Stopper \/ (pending # None /\ x \in pending.askers)
        /\ writer' \in [at : {"idle", "woken", "writing"}, body : Bodies \cup {None}, askers : SUBSET Askers]
        /\ writer'.at # "idle" /\ (writer'.at = "woken" => writer'.askers = {})
        /\ writer'.askers = writer.askers /\ (writer'.at = "writing" => writer' = writer) /\ disk' = disk
    BY <1>2, <2>1, PersistHolds
  <2>3. Known
    BY <1>2, <1>5 DEF FileInv, Quiet
  <2>4. \A c \in Clients : Asks(c)' => Asks(c)
    BY <2>2, PrewarmAssumption DEF Asks
  <2>5. FileTypes' /\ SavedListKept' /\ Newer' /\ Writing' /\ Restoring'
    BY <1>1, <1>2, <2>1, <2>2 DEF FileInv, FileTypes, SavedListKept, Newer, Writing, Restoring
  <2>6. Numbered' /\ Known'
    BY <1>1, <1>2, <2>3, <2>4 DEF FileInv, Numbered, Posted, Known
  <2>7. Final'
    BY <1>1, <1>2, <1>5, <2>1, <2>2 DEF FileInv, Final
  <2>8. Phases'
    BY <1>1, <1>2, <1>3, <2>1 DEF WarmInv, FileInv, Phases
  <2> QED
    BY <1>3, <2>5, <2>6, <2>7, <2>8 DEF WarmInv, FileInv
<1> QED
  BY <1>4, <1>5

LEMMA SettlesKeeps ==
    ASSUME WarmInv, StopSettles
    PROVE  WarmInv'
<1>1. /\ stopping = "settling" /\ writer.at = "idle" /\ stopping' = "done"
      /\ UNCHANGED <<disk, pending, writer, running, initialized, durable, leases, watchlist, entries, tasks,
                     cached, saveTimer, drainTimer, restore, moved, finalBody, posted, latest, acked>>
  BY DEF StopSettles, checkpointVars, runVars, memberVars, restoreVars, historyVars
<1>2. FileInv /\ FileTypes /\ ~running /\ writer = Idle /\ pending = None
  BY <1>1 DEF WarmInv, FileInv, Phases, FileTypes
<1>3. MemberTypes' /\ RunTypes' /\ Busy' = Busy
  BY <1>1, MembersStay DEF WarmInv, RunTypes
<1>4. FileTypes' /\ SavedListKept' /\ Newer' /\ Numbered' /\ Writing' /\ Restoring'
  BY <1>1, <1>2 DEF FileInv, FileTypes, SavedListKept, Newer, Numbered, Posted, Asks, Writing, Restoring
<1>5. (Known \/ Quiet)' /\ Final'
  BY <1>1, <1>2 DEF FileInv, Known, Asks, Quiet, Early, Final
<1>6. Phases'
  BY <1>1, <1>2, <1>3 DEF FileInv, Phases
<1> QED
  BY <1>3, <1>4, <1>5, <1>6 DEF WarmInv, FileInv

\* Nothing is left in memory.
LEMMA NothingRuns ==
    ASSUME leases = [o \in Owners |-> {}] /\ watchlist = {} /\ cached = {},
           entries = [s \in Symbols |-> NoEntry], tasks = [s \in Symbols |-> "none"]
    PROVE  MemberTypes /\ Busy = {}
<1>1. Busy = {}
  BY DEF Busy
<1>2. Cardinality({}) = 0
  BY FS_EmptySet
<1> QED
  BY <1>1, <1>2, PrewarmAssumption DEF MemberTypes, EntriesAreMembers, NoEntry, Entries

LEMMA CrashKeeps ==
    ASSUME WarmInv, Crash
    PROVE  WarmInv'
<1>1. /\ CheckpointCrash /\ running' = FALSE /\ initialized' = FALSE /\ durable' = [no |-> 0, list |-> {}]
      /\ saveTimer' = FALSE /\ drainTimer' = FALSE /\ restore' = NoRestore /\ moved' = FALSE
      /\ stopping' = "no" /\ finalBody' = None
      /\ UNCHANGED <<posted, latest, acked>>
  BY DEF Crash
<1>2. /\ pending' = None /\ writer' = Idle
      /\ disk' = disk \/ (writer.at = "writing" /\ disk' = writer.body)
  BY <1>1 DEF CheckpointCrash
<1>3. FileInv /\ FileTypes
  BY DEF WarmInv, FileInv
<1>4. MemberTypes' /\ Busy' = {}
  <2>1. /\ leases' = [o \in Owners |-> {}] /\ watchlist' = {} /\ cached' = {}
        /\ entries' = [s \in Symbols |-> NoEntry] /\ tasks' = [s \in Symbols |-> "none"]
    BY DEF Crash
  <2>2. Busy' = {}
    BY <2>1 DEF Busy
  <2>3. Cardinality({}) = 0
    BY FS_EmptySet
  <2> QED
    BY <2>1, <2>2, <2>3, PrewarmAssumption DEF MemberTypes, EntriesAreMembers, NoEntry, Entries
<1>5. RunTypes' /\ restore'.at = "idle"
  BY <1>1 DEF RunTypes, NoRestore
<1>6. FileTypes'
  BY <1>1, <1>2, <1>3, PostedIsFinite DEF FileTypes, Idle, Numerals
<1>7. SavedListKept'
  <2>1. writer.at = "writing" => writer.body # None /\ writer.body.no >= acked
    BY <1>3, BodyHas DEF FileInv, FileTypes, Writing
  <2> QED
    BY <1>1, <1>2, <1>3, <2>1 DEF FileInv, SavedListKept
<1>8. Numbered' /\ Quiet' /\ Writing' /\ Restoring' /\ Final' /\ Newer'
  BY <1>1, <1>2, <1>3 DEF FileInv, Numbered, Posted, Asks, Quiet, Early, Writing, Restoring, Final, Newer, Idle
<1>9. Phases'
  BY <1>1, <1>2, <1>4 DEF Phases
<1> QED
  BY <1>4, <1>5, <1>6, <1>7, <1>8, <1>9 DEF WarmInv, FileInv

LEMMA WarmInvStarts == Init => WarmInv
<1> SUFFICES ASSUME Init PROVE WarmInv
  OBVIOUS
<1>1. PICK list \in Lists, history \in SUBSET Symbols : \E contents \in {None, Body(1, list, history)} :
          CheckpointInit(contents) /\ acked = IF contents = None THEN 0 ELSE 1
  BY DEF Init
<1>2. PICK contents \in {None, Body(1, list, history)} :
          CheckpointInit(contents) /\ acked = IF contents = None THEN 0 ELSE 1
  BY <1>1
<1>3. 1 \in Numerals /\ 0 \in Numerals
  BY PostedIsFinite DEF Numerals
<1>4. Body(1, list, history) \in Bodies /\ Body(1, list, history).no = 1
  BY <1>3, BodyIsTyped
<1>5. disk = contents /\ pending = None /\ writer = Idle
  BY <1>2 DEF CheckpointInit
<1>6. disk \in Bodies \cup {None} /\ acked \in {0, 1} /\ SavedListKept
  BY <1>2, <1>4, <1>5 DEF SavedListKept
<1>7. /\ running = FALSE /\ initialized = FALSE /\ durable = [no |-> 0, list |-> {}]
      /\ saveTimer = FALSE /\ drainTimer = FALSE /\ restore = NoRestore /\ moved = FALSE
      /\ stopping = "no" /\ finalBody = None /\ posted = [c \in Clients |-> 0] /\ latest = 0
  BY DEF Init
<1>8. MemberTypes /\ Busy = {}
  BY NothingRuns DEF Init
<1>9. RunTypes /\ restore.at = "idle"
  BY <1>7 DEF RunTypes, NoRestore
<1>10. FileTypes
  BY <1>3, <1>5, <1>6, <1>7 DEF FileTypes, Idle
<1>11. Numbered
  BY <1>5, <1>6, <1>7, PostedIsFinite DEF Numbered, Asks, Idle
<1>12. Quiet /\ Writing /\ Restoring /\ Final /\ Newer /\ Phases
  BY <1>5, <1>7, <1>8 DEF Quiet, Early, Writing, Restoring, Final, Newer, Phases, Idle
<1> QED
  BY <1>6, <1>8, <1>9, <1>10, <1>11, <1>12 DEF WarmInv, FileInv

LEMMA StepKeepsWarmInv == ASSUME Troubles = {}, WarmInv, [Next]_vars PROVE WarmInv'
<1>1. CASE UNCHANGED vars
  BY <1>1 DEF vars, checkpointVars, prewarmVars, WarmInv, MemberTypes, Busy, EntriesAreMembers, RunTypes,
              FileInv, FileTypes, SavedListKept, Newer, Numbered, Posted, Asks, Known, Quiet, Early, Writing,
              Restoring, Final, Phases
<1>2. CASE \E o \in Owners : Release(o) \/ \E list \in Lists \ {{}} : Lease(o, list)
  <2>1. CASE \E o \in Owners, list \in Lists \ {{}} : Lease(o, list)
    BY <2>1, LeaseKeeps
  <2>2. CASE \E o \in Owners : Release(o)
    <3>1. {} \in Lists \cup {{}}
      OBVIOUS
    <3> QED
      BY <2>2, <3>1, LeaseKeeps
  <2> QED
    BY <1>2, <2>1, <2>2
<1>3. CASE \E c \in Clients, list \in Lists : Save(c, list)
  BY <1>3, SaveKeeps
<1>4. CASE SaveTimerFires \/ WriteBegins \/ \E ok \in BOOLEAN : Write(ok)
  BY <1>4, TimerKeeps, BeginsKeeps, WriteKeeps
<1>5. CASE Drain
  BY <1>5, DrainKeeps
<1>6. CASE \E s \in Symbols : TimePasses(s) \/ \E ok \in BOOLEAN : WorkerEnds(s, ok)
  BY <1>6, WorkerKeeps
<1>7. CASE Start \/ ReadFile \/ RestoreApply \/ RestoreNext \/ RestoreOne \/ Initialized
  BY <1>7, ServiceStarts, ReadFileKeeps, ApplyKeeps, RestoreNextKeeps, RestoreOneKeeps, InitializedKeeps
<1>8. CASE Stop \/ StopSaves \/ StopSettles \/ Crash
  BY <1>8, StopKeeps, StopSavesKeeps, SettlesKeeps, CrashKeeps
<1> QED
  BY <1>1, <1>2, <1>3, <1>4, <1>5, <1>6, <1>7, <1>8 DEF Next

\* What a reader of the warm histories relies on holds in a service without the four
\* troubles: entries for exactly the members, no confirmed list lost from the file or
\* overtaken by the one restore() reads, and nothing under way after stop()
\* (history-prewarm.js:16-35, 77-89, latest-checkpoint.js:5-16).
THEOREM WarmListsAreKept == (Troubles = {}) => (Spec => []PrewarmInv)
<1> SUFFICES ASSUME Troubles = {} PROVE Spec => []PrewarmInv
  OBVIOUS
<1>1. Init => WarmInv
  BY WarmInvStarts
<1>2. WarmInv /\ [Next]_vars => WarmInv'
  BY StepKeepsWarmInv
<1>3. WarmInv => PrewarmInv
  <2> SUFFICES ASSUME WarmInv PROVE PrewarmInv
    OBVIOUS
  <2>1. PrewarmTypeOK /\ EntriesAreMembers
    BY DEF WarmInv, MemberTypes, RunTypes, FileInv, FileTypes, PrewarmTypeOK
  <2>2. SavedListKept /\ RestoreKeepsNewerList
    BY DEF WarmInv, FileInv, Newer, RestoreKeepsNewerList
  <2>3. StopIsFinal
    BY DEF WarmInv, FileInv, Phases, StopIsFinal
  <2> QED
    BY <2>1, <2>2, <2>3 DEF PrewarmInv
<1> QED
  BY <1>1, <1>2, <1>3, PTL DEF Spec
=============================================================================
