------------------------ MODULE CachedResourceProofs ------------------------
(***************************************************************************)
(* What the shared loads of a cached resource guarantee for any number of  *)
(* keys, readers and loads, and what its cache may hold.                   *)
(***************************************************************************)
EXTENDS CachedResource, SequenceTheorems, TLAPS

Active == {"created", "producing"}

\* A producer nobody has asked for yet has no reader and is nobody's.
FreeIsFree ==
    /\ \A t \in Tasks : phase[t] = "free" => why[t] = "live"
    /\ \A k \in Keys : jobOf[k] \in Tasks => phase[jobOf[k]] # "free"
    /\ \A r \in Readers : joined[r] \in Tasks => phase[joined[r]] # "free"

\* A producer that executes and has not been given up is the one that new readers
\* of its key join; it was asked for after the last close().
WantedIsJoinable ==
    \A t \in Tasks :
        phase[t] \in Active /\ why[t] = "live" =>
            keyOf[t] \in Keys /\ jobOf[keyOf[t]] = t /\ born[t] = epoch /\ ~cacheClosed

CacheIInv ==
    /\ SharedTypeOK /\ FreeIsFree /\ WantedIsJoinable /\ NobodyInheritsAnAbort

-----------------------------------------------------------------------------
LEMMA CacheIInvInit == CacheInit => CacheIInv
BY TaskAssumption
DEF CacheInit, SharedInit, CacheIInv, SharedTypeOK, Phases, Results, FreeIsFree, WantedIsJoinable,
    NobodyInheritsAnAbort, Active

\* A reader joins the producer of its key, or a new one.
LEMMA JoinKeeps ==
    ASSUME CacheIInv, ~cacheClosed, NEW r \in Readers, NEW k \in Keys, Join(r, k),
           born' = [t \in Tasks |-> IF phase[t] = "free" THEN epoch ELSE born[t]],
           UNCHANGED <<cacheClosed, epoch>>
    PROVE  CacheIInv'
<1>t. SharedTypeOK /\ FreeIsFree /\ WantedIsJoinable /\ NobodyInheritsAnAbort
  BY DEF CacheIInv
<1> USE TaskAssumption DEF SharedTypeOK, Phases, Results
<1>1. why' = why /\ answer' = [answer EXCEPT ![r] = "waiting"]
  BY DEF Join
<1>2. ASSUME NEW t \in Tasks, MustStart(k), IsNext(t),
             phase' = [phase EXCEPT ![t] = "created"], keyOf' = [keyOf EXCEPT ![t] = k],
             jobOf' = [jobOf EXCEPT ![k] = t], joined' = [joined EXCEPT ![r] = t],
             result' = result
      PROVE  CacheIInv'
  <2>1. phase[t] = "free" /\ why[t] = "live"
    BY <1>2, <1>t DEF IsNext, FreeIsFree
  <2>2. SharedTypeOK'
    BY <1>1, <1>2, <1>t
  <2>3. FreeIsFree'
    BY <1>1, <1>2, <1>t, <2>1 DEF FreeIsFree
  <2>4. ASSUME NEW u \in Tasks, phase'[u] \in Active, why'[u] = "live"
        PROVE  keyOf'[u] \in Keys /\ jobOf'[keyOf'[u]] = u /\ born'[u] = epoch' /\ ~cacheClosed'
    <3>1. CASE u = t
      BY <1>2, <1>t, <2>1, <3>1
    <3>2. CASE u # t
      <4>1. /\ phase[u] \in Active /\ why[u] = "live" /\ phase[u] # "free"
            /\ keyOf'[u] = keyOf[u]
        BY <1>1, <1>2, <1>t, <2>4, <3>2 DEF Active
      <4>2. keyOf[u] \in Keys /\ jobOf[keyOf[u]] = u /\ born[u] = epoch
        BY <1>t, <4>1 DEF WantedIsJoinable
      <4>3. keyOf[u] # k
        BY <1>2, <4>1, <4>2 DEF MustStart
      <4> QED
        BY <1>2, <1>t, <4>1, <4>2, <4>3
    <3> QED
      BY <3>1, <3>2
  <2>5. WantedIsJoinable'
    BY <2>4 DEF WantedIsJoinable
  <2>6. NobodyInheritsAnAbort'
    BY <1>1, <1>2, <1>t, <2>1 DEF NobodyInheritsAnAbort
  <2> QED
    BY <2>2, <2>3, <2>5, <2>6 DEF CacheIInv
<1>3. CASE ~MustStart(k) /\ joined' = [joined EXCEPT ![r] = jobOf[k]]
             /\ UNCHANGED <<phase, keyOf, jobOf, result>>
  <2>1. jobOf[k] \in Tasks /\ why[jobOf[k]] = "live"
    BY <1>3 DEF MustStart
  <2>2. SharedTypeOK'
    BY <1>1, <1>3, <1>t, <2>1
  <2>3. FreeIsFree'
    BY <1>1, <1>3, <1>t, <2>1 DEF FreeIsFree
  <2>4. WantedIsJoinable'
    BY <1>1, <1>3, <1>t DEF WantedIsJoinable, Active
  <2>5. NobodyInheritsAnAbort'
    BY <1>1, <1>3, <1>t, <2>1 DEF NobodyInheritsAnAbort
  <2> QED
    BY <2>2, <2>3, <2>4, <2>5 DEF CacheIInv
<1> QED
  BY <1>2, <1>3 DEF Join

\* A producer begins, unless it has been given up by then.
LEMMA ProduceKeeps ==
    ASSUME CacheIInv, NEW t \in Tasks, Produce(t), UNCHANGED <<cacheClosed, epoch, born>>
    PROVE  CacheIInv'
<1>t. SharedTypeOK /\ FreeIsFree /\ WantedIsJoinable /\ NobodyInheritsAnAbort
  BY DEF CacheIInv
<1> USE TaskAssumption DEF SharedTypeOK, Phases, Results, Produce
<1>1. SharedTypeOK'
  BY <1>t
<1>2. FreeIsFree'
  <2>1. \A u \in Tasks : phase'[u] = "free" => phase[u] = "free"
    BY <1>t
  <2>2. phase'[t] # "free"
    BY <1>t
  <2>3. \A u \in Tasks : phase'[u] = "free" <=> phase[u] = "free"
    BY <1>t, <2>1, <2>2
  <2> QED
    BY <1>t, <2>3 DEF FreeIsFree
<1>3. WantedIsJoinable'
  BY <1>t DEF WantedIsJoinable, Active
<1>4. NobodyInheritsAnAbort'
  BY <1>t DEF NobodyInheritsAnAbort
<1> QED
  BY <1>1, <1>2, <1>3, <1>4 DEF CacheIInv

\* It settles, with whatever it came to.
LEMMA SettleKeeps ==
    ASSUME CacheIInv, NEW t \in Tasks, NEW res \in Results, SettleTask(t, res),
           UNCHANGED <<cacheClosed, epoch, born>>
    PROVE  CacheIInv'
<1>t. SharedTypeOK /\ FreeIsFree /\ WantedIsJoinable /\ NobodyInheritsAnAbort
  BY DEF CacheIInv
<1> USE TaskAssumption DEF SharedTypeOK, Phases, Results, SettleTask
<1>1. SharedTypeOK'
  BY <1>t
<1>2. FreeIsFree'
  BY <1>t DEF FreeIsFree
<1>3. WantedIsJoinable'
  BY <1>t DEF WantedIsJoinable, Active
<1>4. NobodyInheritsAnAbort'
  BY <1>t DEF NobodyInheritsAnAbort
<1> QED
  BY <1>1, <1>2, <1>3, <1>4 DEF CacheIInv

\* It leaves the map, unless another producer has taken its place there.
LEMMA ForgetKeeps ==
    ASSUME CacheIInv, NEW t \in Tasks, Forget(t), UNCHANGED <<cacheClosed, epoch, born>>
    PROVE  CacheIInv'
<1>t. SharedTypeOK /\ FreeIsFree /\ WantedIsJoinable /\ NobodyInheritsAnAbort
  BY DEF CacheIInv
<1> USE TaskAssumption DEF SharedTypeOK, Phases, Results, Forget
<1>1. SharedTypeOK'
  BY <1>t
<1>2. FreeIsFree'
  BY <1>t DEF FreeIsFree
<1>3. WantedIsJoinable'
  BY <1>t DEF WantedIsJoinable, Active
<1>4. NobodyInheritsAnAbort'
  BY <1>t DEF NobodyInheritsAnAbort
<1> QED
  BY <1>1, <1>2, <1>3, <1>4 DEF CacheIInv

\* A reader is answered, or leaves; the last one to leave gives the producer up.
LEMMA DepartureKeeps ==
    ASSUME CacheIInv, NEW r \in Readers, Deliver(r) \/ Leave(r), UNCHANGED <<cacheClosed, epoch, born>>
    PROVE  CacheIInv'
<1>t. SharedTypeOK /\ FreeIsFree /\ WantedIsJoinable /\ NobodyInheritsAnAbort
  BY DEF CacheIInv
<1> USE TaskAssumption DEF SharedTypeOK, Phases, Results
<1>1. /\ joined' = [joined EXCEPT ![r] = None] /\ UNCHANGED <<jobOf, keyOf, phase, result>>
      /\ joined[r] \in Tasks /\ phase[joined[r]] # "free"
  BY <1>t DEF Deliver, Leave, FreeIsFree
<1>2. /\ why' \in [Tasks -> {"live", "aborted", "stopped"}]
      /\ \A t \in Tasks : why'[t] = why[t] \/ (why'[t] = "aborted" /\ ReadersOf(t) = {r})
  BY <1>t DEF Deliver, Leave, Give
<1>3. SharedTypeOK'
  <2>1. answer' \in [Readers -> Results \cup {"idle", "waiting"}]
    BY <1>t, <1>1 DEF Deliver, Leave
  <2> QED
    BY <1>t, <1>1, <1>2, <2>1
<1>4. FreeIsFree'
  BY <1>t, <1>1, <1>2 DEF FreeIsFree, ReadersOf
<1>5. WantedIsJoinable'
  BY <1>t, <1>1, <1>2 DEF WantedIsJoinable, Active
<1>6. NobodyInheritsAnAbort'
  <2> SUFFICES ASSUME NEW q \in Readers, joined'[q] \in Tasks PROVE why'[joined'[q]] # "aborted"
    BY DEF NobodyInheritsAnAbort
  <2>1. q # r /\ joined'[q] = joined[q]
    BY <1>t, <1>1
  <2>2. q \in ReadersOf(joined[q]) /\ why[joined[q]] # "aborted"
    BY <1>t, <2>1 DEF ReadersOf, NobodyInheritsAnAbort
  <2> QED
    BY <1>2, <2>1, <2>2
<1> QED
  BY <1>3, <1>4, <1>5, <1>6 DEF CacheIInv

\* close(): every producer in the map is stopped, so none that executes is wanted.
LEMMA CloseKeeps == ASSUME CacheIInv, CloseCache PROVE CacheIInv'
<1>t. SharedTypeOK /\ FreeIsFree /\ WantedIsJoinable /\ NobodyInheritsAnAbort
  BY DEF CacheIInv
<1> USE TaskAssumption DEF SharedTypeOK, Phases, Results
<1>1. /\ jobOf' = [k \in Keys |-> None] /\ UNCHANGED <<keyOf, phase, result, joined, answer>>
      /\ why' \in [Tasks -> {"live", "aborted", "stopped"}]
      /\ \A t \in Tasks : why'[t] = IF t \in {jobOf[k] : k \in Keys} /\ why[t] = "live"
                                    THEN "stopped" ELSE why[t]
  BY <1>t DEF CloseCache, AbortAll, Give
<1>2. SharedTypeOK'
  BY <1>t, <1>1
<1>3. FreeIsFree'
  BY <1>t, <1>1 DEF FreeIsFree
<1>4. \A t \in Tasks : ~(phase[t] \in Active /\ why'[t] = "live")
  BY <1>t, <1>1 DEF WantedIsJoinable
<1>5. WantedIsJoinable'
  BY <1>1, <1>4 DEF WantedIsJoinable
<1>6. NobodyInheritsAnAbort'
  BY <1>t, <1>1 DEF NobodyInheritsAnAbort
<1> QED
  BY <1>2, <1>3, <1>5, <1>6 DEF CacheIInv

\* Nothing that concerns the loads changes.
LEMMA RestKeeps ==
    ASSUME CacheIInv, UNCHANGED <<sharedVars, epoch, born>>, cacheClosed' => cacheClosed
    PROVE  CacheIInv'
BY DEF CacheIInv, sharedVars, SharedTypeOK, FreeIsFree, WantedIsJoinable, NobodyInheritsAnAbort

LEMMA CacheIInvStep == CacheIInv /\ [CacheNext]_vars => CacheIInv'
<1> SUFFICES ASSUME CacheIInv, [CacheNext]_vars PROVE CacheIInv'
  OBVIOUS
<1>t. \A t \in Tasks : why[t] \in {"live", "aborted", "stopped"}
  BY DEF CacheIInv, SharedTypeOK
<1>1. CASE CloseCache
  BY <1>1, CloseKeeps
<1>2. CASE ReopenCache \/ Clear \/ Tick \/ UNCHANGED vars
  BY <1>2, RestKeeps DEF ReopenCache, Clear, Tick, vars, cacheVars
<1>3. ASSUME NEW t \in Tasks, StartLoad(t) PROVE CacheIInv'
  BY <1>3, ProduceKeeps DEF StartLoad
<1>4. ASSUME NEW t \in Tasks, Loaded(t) PROVE CacheIInv'
  <2>1. \E res \in Results : SettleTask(t, res)
    BY <1>4, <1>t DEF Loaded, Results
  <2> QED
    BY <1>4, <2>1, SettleKeeps DEF Loaded
<1>5. ASSUME NEW t \in Tasks, NEW h \in Hints, LoadFailed(t, h) PROVE CacheIInv'
  <2>1. \E res \in Results : SettleTask(t, res)
    BY <1>5, <1>t DEF LoadFailed, Results
  <2> QED
    BY <1>5, <2>1, SettleKeeps DEF LoadFailed
<1>6. ASSUME NEW t \in Tasks, LoadEnds(t) PROVE CacheIInv'
  BY <1>6, ForgetKeeps DEF LoadEnds, cacheVars
<1>7. ASSUME NEW r \in Readers, NEW k \in Keys, NEW swr \in BOOLEAN, GetNow(r, k, swr)
      PROVE  CacheIInv'
  BY <1>7, RestKeeps DEF GetNow
<1>8. ASSUME NEW r \in Readers, NEW k \in Keys, NEW swr \in BOOLEAN, GetLoad(r, k, swr)
      PROVE  CacheIInv'
  BY <1>8, JoinKeeps DEF GetLoad
<1>9. ASSUME NEW r \in Readers, NEW k \in Keys, Refresh(r, k) PROVE CacheIInv'
  BY <1>9, JoinKeeps DEF Refresh
<1>10. ASSUME NEW r \in Readers, GetReturns(r) \/ ReaderLeaves(r) PROVE CacheIInv'
  BY <1>10, DepartureKeeps DEF GetReturns, ReaderLeaves
<1> QED
  BY <1>1, <1>2, <1>3, <1>4, <1>5, <1>6, <1>7, <1>8, <1>9, <1>10 DEF CacheNext, Load

LEMMA CacheInvariant == CacheSpec => []CacheIInv
BY CacheIInvInit, CacheIInvStep, PTL DEF CacheSpec

-----------------------------------------------------------------------------
(* Nobody waits on a load that the other readers have given up, in whatever order   *)
(* readers join, leave and are answered while loads start, end and are stopped        *)
(* (shared-task.js:13-24).                                                            *)
THEOREM AbortsStayPrivate == CacheSpec => []NobodyInheritsAnAbort
<1>1. CacheIInv => NobodyInheritsAnAbort
  BY DEF CacheIInv
<1> QED
  BY <1>1, CacheInvariant, PTL

(* The readers of a key never pay for two loads that somebody wants: a second one     *)
(* is started only when the first has been given up or stopped (shared-task.js:8-10).  *)
THEOREM LoadsAreShared == CacheSpec => []OneWantedProducer
<1>1. CacheIInv => OneWantedProducer
  BY DEF CacheIInv, WantedIsJoinable, OneWantedProducer, Active
<1> QED
  BY <1>1, CacheInvariant, PTL

(* A load that was given up or stopped, and one that close() and reopen() passed       *)
(* over while it ran, never starts or changes a cooldown, for every pause and every      *)
(* hint (cached-resource.js).                                                            *)
THEOREM StoppedLoadsCoolNothing == CacheSpec => GivenUpIsNoFailure
<1> DEFINE Quiet == \A t \in Tasks :
                        phase[t] = "producing" /\ phase'[t] = "settled"
                          /\ (why[t] # "live" \/ cacheClosed \/ born[t] # epoch)
                        => failures' = failures
<1>1. CacheIInv /\ [CacheNext]_vars => [Quiet]_vars
  <2> SUFFICES ASSUME CacheIInv, CacheNext, NEW t \in Tasks,
                      phase[t] = "producing", phase'[t] = "settled",
                      why[t] # "live" \/ cacheClosed \/ born[t] # epoch
               PROVE  failures' = failures
    OBVIOUS
  <2>1. why[t] # "live"
    BY DEF CacheIInv, WantedIsJoinable, Active
  <2>2. phase \in [Tasks -> Phases]
    BY DEF CacheIInv, SharedTypeOK
  <2>3. ASSUME NEW u \in Tasks, Loaded(u) PROVE failures' = failures
    <3>1. u = t
      BY <2>2, <2>3 DEF Loaded, SettleTask
    <3> QED
      BY <2>1, <2>3, <3>1 DEF Loaded
  <2>4. ASSUME NEW u \in Tasks, NEW h \in Hints, LoadFailed(u, h) PROVE failures' = failures
    <3>1. u = t
      BY <2>2, <2>4 DEF LoadFailed, SettleTask
    <3> QED
      BY <2>1, <2>4, <3>1 DEF LoadFailed
  <2>5. CASE Clear
    BY <2>5 DEF Clear, sharedVars
  <2> QED
    BY <2>3, <2>4, <2>5
    DEF CacheNext, CloseCache, ReopenCache, Tick, Load, StartLoad, LoadEnds, cacheVars, GetNow, GetLoad,
        Refresh, GetReturns, ReaderLeaves
<1> QED
  BY <1>1, CacheInvariant, PTL DEF CacheSpec, GivenUpIsNoFailure
-----------------------------------------------------------------------------
(* The maps, as sequences                                                     *)

Distinct(map) == \A i, j \in DOMAIN map : map[i].key = map[j].key => i = j

LEMMA WithoutHolds ==
    ASSUME NEW S, NEW map \in Seq(S), NEW k
    PROVE  /\ Without(map, k) \in Seq(S)
           /\ Len(Without(map, k)) <= Len(map)
           /\ ToSet(Without(map, k)) \subseteq ToSet(map)
           /\ Distinct(map) => /\ Distinct(Without(map, k))
                               /\ \A i \in DOMAIN Without(map, k) : Without(map, k)[i].key # k
<1> DEFINE n == Len(map)
           w == Without(map, k)
<1>0. n \in Nat /\ DOMAIN map = 1..n /\ \A i \in 1..n : map[i] \in S
  OBVIOUS
<1>1. CASE ~HasEntry(map, k)
  BY <1>0, <1>1 DEF Without, HasEntry, ToSet, Distinct
<1>2. CASE HasEntry(map, k)
  <2> DEFINE p == CHOOSE i \in DOMAIN map : map[i].key = k
             front == SubSeq(map, 1, p - 1)
             back == SubSeq(map, p + 1, n)
  <2>1. p \in 1..n /\ map[p].key = k
    BY <1>0, <1>2 DEF HasEntry, ToSet
  <2>2. w = front \o back
    BY <1>2 DEF Without, RemoveAt
  <2> HIDE DEF p
  <2>3. /\ front \in Seq(S) /\ Len(front) = p - 1
        /\ \A i \in 1..p - 1 : front[i] = map[i]
    <3>1. /\ p - 1 \in Int /\ \A i \in 1..p - 1 : map[i] \in S
          /\ 1 <= p - 1 => p - 1 - 1 + 1 = p - 1
          /\ ~(1 <= p - 1) => p - 1 = 0
      BY <1>0, <2>1
    <3>2. /\ front \in Seq(S) /\ Len(front) = IF 1 <= p - 1 THEN p - 1 - 1 + 1 ELSE 0
          /\ \A i \in 1..(p - 1 - 1 + 1) : front[i] = map[1 + i - 1]
      BY <3>1, SubSeqProperties
    <3>3. QED
      BY <2>1, <3>1, <3>2
  <2>4. /\ back \in Seq(S) /\ Len(back) = n - p
        /\ \A i \in 1..n - p : back[i] = map[p + i]
    <3>1. p + 1 \in Int /\ n \in Int /\ \A i \in p + 1..n : map[i] \in S
      BY <1>0, <2>1
    <3>2. /\ back \in Seq(S) /\ Len(back) = IF p + 1 <= n THEN n - (p + 1) + 1 ELSE 0
          /\ \A i \in 1..(n - (p + 1) + 1) : back[i] = map[p + 1 + i - 1]
      BY <3>1, SubSeqProperties
    <3> HIDE DEF back, n
    <3>3. Len(back) = n - p /\ n - (p + 1) + 1 = n - p
      BY <1>0, <2>1, <3>2
    <3>4. \A i \in 1..n - p : p + 1 + i - 1 = p + i
      BY <1>0, <2>1
    <3>5. QED
      BY <3>2, <3>3, <3>4
  <2> HIDE DEF front, back, n
  <2>5. /\ front \o back \in Seq(S) /\ Len(front \o back) = Len(front) + Len(back)
        /\ \A i \in 1..Len(front) + Len(back) :
              (front \o back)[i] = IF i <= Len(front) THEN front[i] ELSE back[i - Len(front)]
    BY <2>3, <2>4, ConcatProperties
  <2>6. w \in Seq(S) /\ Len(w) = n - 1
    BY <1>0, <2>1, <2>2, <2>3, <2>4, <2>5
  <2>7. ASSUME NEW i \in 1..n - 1
        PROVE  w[i] = map[IF i < p THEN i ELSE i + 1]
    <3>1. CASE i < p
      BY <1>0, <2>1, <2>2, <2>3, <2>4, <2>5, <3>1
    <3>2. CASE ~(i < p)
      <4>1. i - (p - 1) \in 1..n - p /\ p + (i - (p - 1)) = i + 1
        BY <1>0, <2>1, <2>7, <3>2
      <4>2. w[i] = back[i - (p - 1)]
        BY <1>0, <2>1, <2>2, <2>3, <2>4, <2>5, <3>2
      <4>3. QED
        BY <2>4, <3>2, <4>1, <4>2
    <3>3. QED
      BY <3>1, <3>2
  <2> HIDE DEF w
  <2>8. DOMAIN w = 1..n - 1
    BY <2>6
  <2>9. \A i \in 1..n - 1 : (IF i < p THEN i ELSE i + 1) \in (1..n) \ {p}
    BY <1>0, <2>1
  <2>10. ToSet(w) \subseteq ToSet(map)
    BY <1>0, <2>7, <2>8, <2>9 DEF ToSet
  <2>11. ASSUME Distinct(map)
         PROVE  Distinct(w) /\ \A i \in DOMAIN w : w[i].key # k
    <3>1. ASSUME NEW i \in 1..n - 1, NEW j \in 1..n - 1, w[i].key = w[j].key
          PROVE  i = j
      <4> DEFINE a == IF i < p THEN i ELSE i + 1
                 b == IF j < p THEN j ELSE j + 1
      <4>1. a \in DOMAIN map /\ b \in DOMAIN map /\ map[a].key = map[b].key
        BY <1>0, <2>7, <2>9, <3>1
      <4>2. a = b
        BY <2>11, <4>1 DEF Distinct
      <4>3. QED
        BY <1>0, <2>1, <4>2
    <3>2. ASSUME NEW i \in 1..n - 1, w[i].key = k PROVE FALSE
      <4> DEFINE a == IF i < p THEN i ELSE i + 1
      <4>1. a \in DOMAIN map /\ p \in DOMAIN map /\ map[a].key = map[p].key /\ a # p
        BY <1>0, <2>1, <2>7, <2>9, <3>2
      <4>2. QED
        BY <2>11, <4>1 DEF Distinct
    <3>3. QED
      BY <2>8, <3>1, <3>2 DEF Distinct
  <2>12. n - 1 <= n
    BY <1>0
  <2>13. QED
    BY <2>6, <2>10, <2>11, <2>12 DEF w, n
<1>3. QED
  BY <1>1, <1>2

LEMMA TrimHolds ==
    ASSUME NEW S, NEW map \in Seq(S)
    PROVE  /\ Trim(map) \in Seq(S) /\ Len(Trim(map)) <= MaxEntries
           /\ ToSet(Trim(map)) \subseteq ToSet(map)
           /\ Distinct(map) => Distinct(Trim(map))
<1> DEFINE n == Len(map)
           cut == IF n > MaxEntries THEN n - MaxEntries ELSE 0
           kept == SubSeq(map, 1 + cut, n)
<1>0. /\ n \in Nat /\ DOMAIN map = 1..n /\ \A i \in 1..n : map[i] \in S
      /\ MaxEntries \in Nat \ {0} /\ Trim(map) = kept
  BY CacheAssumption DEF Trim
<1>1. cut \in 0..n /\ n - cut <= MaxEntries /\ cut \in Int
  BY <1>0
<1> HIDE DEF cut
<1>2. 1 + cut \in Int /\ n \in Int /\ \A i \in 1 + cut..n : map[i] \in S
  BY <1>0, <1>1
<1>3. /\ kept \in Seq(S) /\ Len(kept) = IF 1 + cut <= n THEN n - (1 + cut) + 1 ELSE 0
      /\ \A i \in 1..(n - (1 + cut) + 1) : kept[i] = map[1 + cut + i - 1]
  BY <1>2, SubSeqProperties
<1> HIDE DEF kept, n
<1>4. Len(kept) = n - cut /\ \A i \in 1..n - cut : kept[i] = map[cut + i] /\ cut + i \in 1..n
  BY <1>0, <1>1, <1>3
<1>5. DOMAIN kept = 1..n - cut
  BY <1>3, <1>4
<1>6. ToSet(kept) \subseteq ToSet(map)
  BY <1>0, <1>4, <1>5 DEF ToSet
<1>7. ASSUME Distinct(map) PROVE Distinct(kept)
  <2>1. ASSUME NEW i \in 1..n - cut, NEW j \in 1..n - cut, kept[i].key = kept[j].key
        PROVE  i = j
    <3>1. map[cut + i].key = map[cut + j].key /\ cut + i \in DOMAIN map /\ cut + j \in DOMAIN map
      BY <1>0, <1>4, <2>1
    <3>2. cut + i = cut + j
      BY <1>7, <3>1 DEF Distinct
    <3>3. QED
      BY <1>1, <3>2
  <2>2. QED
    BY <1>5, <2>1 DEF Distinct
<1>8. QED
  BY <1>0, <1>1, <1>3, <1>4, <1>6, <1>7

LEMMA AppendHolds ==
    ASSUME NEW S, NEW map \in Seq(S), NEW e \in S
    PROVE  /\ Append(map, e) \in Seq(S)
           /\ ToSet(Append(map, e)) = ToSet(map) \cup {e}
           /\ Distinct(map) /\ (\A i \in DOMAIN map : map[i].key # e.key)
                => Distinct(Append(map, e))
<1> DEFINE n == Len(map)
           w == Append(map, e)
<1>1. /\ w \in Seq(S) /\ n \in Nat /\ Len(w) = n + 1 /\ DOMAIN map = 1..n
      /\ \A i \in 1..n : w[i] = map[i]
      /\ w[n + 1] = e
  BY AppendProperties
<1> HIDE DEF w, n
<1>2. DOMAIN w = 1..n + 1
  BY <1>1
<1>3. \A i \in 1..n + 1 : i \in 1..n \/ i = n + 1
  BY <1>1
<1>4. ToSet(w) \subseteq ToSet(map) \cup {e}
  BY <1>1, <1>2, <1>3 DEF ToSet
<1>5. ToSet(map) \cup {e} \subseteq ToSet(w)
  BY <1>1, <1>2 DEF ToSet
<1>6. Distinct(map) /\ (\A i \in DOMAIN map : map[i].key # e.key) => Distinct(w)
  BY <1>1, <1>2, <1>3 DEF Distinct
<1>7. QED
  BY <1>1, <1>4, <1>5, <1>6 DEF w
-----------------------------------------------------------------------------
(* What the cache holds                                                       *)

Entries == [key : Keys, ts : Nat, from : Tasks]

\* Producers are numbered as they are asked for; of those of a key the one that is
\* wanted was asked for last.
WantedIsNewest ==
    /\ \A t, u \in Tasks : phase[t] = "free" /\ phase[u] # "free" => u < t
    /\ \A t, u \in Tasks :
          /\ phase[t] \in Active /\ why[t] = "live"
          /\ keyOf[u] = keyOf[t] /\ phase[u] # "free"
          => u <= t

\* One entry for a key, from a producer of that key.
CacheIsSound ==
    /\ cache \in Seq(Entries) /\ Distinct(cache)
    /\ \A e \in ToSet(cache) : phase[e.from] # "free" /\ keyOf[e.from] = e.key

MapsBounded ==
    /\ Len(cache) <= MaxEntries
    /\ (\E S : failures \in Seq(S)) /\ Len(failures) <= MaxEntries

OthersTyped ==
    /\ now \in 0..MaxTime /\ epoch \in 0..MaxEpoch /\ cacheClosed \in BOOLEAN
    /\ inflight \in [Keys -> Tasks \cup {None}]
    /\ owner \in [Tasks -> 0..MaxEpoch] /\ born \in [Tasks -> 0..MaxEpoch]
    /\ got \in [Readers -> {"none", "fresh", "stale", "error", "stopped", "aborted"}]
    /\ held \in [Readers -> BOOLEAN]

ContentsInv == WantedIsNewest /\ CacheIsSound /\ MapsBounded /\ OthersTyped

LEMMA ContentsInvInit == CacheInit => ContentsInv
<1> SUFFICES ASSUME CacheInit PROVE ContentsInv
  OBVIOUS
<1>1. WantedIsNewest
  BY DEF CacheInit, SharedInit, WantedIsNewest, Active
<1>2. CacheIsSound /\ MapsBounded
  <2>1. /\ <<>> \in Seq(Entries) /\ <<>> \in Seq({}) /\ Len(<<>>) = 0 /\ DOMAIN <<>> = {}
    OBVIOUS
  <2>2. cache = <<>> /\ failures = <<>>
    BY DEF CacheInit
  <2>3. CacheIsSound
    BY <2>1, <2>2 DEF CacheIsSound, Distinct, ToSet
  <2>4. Len(cache) <= MaxEntries /\ Len(failures) <= MaxEntries
    BY <2>1, <2>2, CacheAssumption
  <2>5. \E S : failures \in Seq(S)
    BY <2>1, <2>2
  <2>6. QED
    BY <2>3, <2>4, <2>5 DEF MapsBounded
<1>3. OthersTyped
  <2>1. MaxTime \in Nat /\ MaxEpoch \in Nat
    BY CacheAssumption
  <2>2. 0 \in 0..MaxTime /\ 0 \in 0..MaxEpoch
    BY <2>1
  <2>3. QED
    BY <2>2 DEF CacheInit, OthersTyped
<1>4. QED
  BY <1>1, <1>2, <1>3 DEF ContentsInv

(* Producers go on, settle or are given up: their order stays.                     *)
LEMMA OrderStays ==
    ASSUME CacheIInv, ContentsInv, keyOf' = keyOf,
           \A t \in Tasks : /\ phase'[t] = "free" <=> phase[t] = "free"
                            /\ phase'[t] \in Active => phase[t] \in Active
                            /\ why'[t] = "live" => why[t] = "live"
    PROVE  WantedIsNewest'
BY DEF ContentsInv, WantedIsNewest

LEMMA CacheElements ==
    ASSUME CacheIsSound
    PROVE  \A e \in ToSet(cache) : /\ e \in Entries /\ e.from \in Tasks
                                   /\ phase[e.from] # "free" /\ keyOf[e.from] = e.key
<1>1. cache \in Seq(Entries)
  BY DEF CacheIsSound
<1>2. \A i \in DOMAIN cache : cache[i] \in Entries
  BY <1>1
<1>3. \A e \in ToSet(cache) : e \in Entries
  BY <1>2 DEF ToSet
<1>4. QED
  BY <1>3 DEF CacheIsSound, Entries

LEMMA CacheStays ==
    ASSUME CacheIInv, ContentsInv, cache' = cache \/ cache' = <<>>,
           \A t \in Tasks : phase[t] # "free" => phase'[t] # "free" /\ keyOf'[t] = keyOf[t]
    PROVE  CacheIsSound'
<1>1. CASE cache' = cache
  <2>1. \A e \in ToSet(cache) : e.from \in Tasks
    BY CacheElements DEF ContentsInv
  <2>2. QED
    BY <1>1, <2>1 DEF ContentsInv, CacheIsSound, Distinct
<1>2. CASE cache' = <<>>
  <2>1. <<>> \in Seq(Entries) /\ DOMAIN <<>> = {}
    OBVIOUS
  <2>2. QED
    BY <1>2, <2>1 DEF CacheIsSound, Distinct, ToSet
<1>3. QED
  BY <1>1, <1>2

LEMMA MapsStay ==
    ASSUME ContentsInv, cache' = cache \/ cache' = <<>>, failures' = failures \/ failures' = <<>>
    PROVE  MapsBounded'
<1>1. <<>> \in Seq({}) /\ Len(<<>>) = 0 /\ MaxEntries \in Nat
  BY CacheAssumption
<1>2. PICK S : failures \in Seq(S)
  BY DEF ContentsInv, MapsBounded
<1>3. failures' \in Seq(S) \/ failures' \in Seq({})
  BY <1>1, <1>2
<1>4. QED
  BY <1>1, <1>3 DEF ContentsInv, MapsBounded

(* A reader that joins may start a producer, which is then the newest of all.      *)
LEMMA JoinKeepsContents ==
    ASSUME CacheIInv, ContentsInv, NEW r \in Readers, NEW k \in Keys, Join(r, k),
           UNCHANGED <<cache, failures>>
    PROVE  WantedIsNewest' /\ CacheIsSound' /\ MapsBounded'
<1>t. SharedTypeOK /\ WantedIsJoinable /\ WantedIsNewest /\ why' = why
  BY DEF CacheIInv, ContentsInv, Join
<1>1. ASSUME NEW t \in Tasks, MustStart(k), IsNext(t),
             phase' = [phase EXCEPT ![t] = "created"], keyOf' = [keyOf EXCEPT ![t] = k]
      PROVE  WantedIsNewest' /\ CacheIsSound'
  <2>1. phase[t] = "free" /\ \A u \in Tasks : phase[u] = "free" => t <= u
    BY <1>1 DEF IsNext
  <2>2. /\ phase'[t] = "created" /\ keyOf'[t] = k
        /\ \A u \in Tasks \ {t} : phase'[u] = phase[u] /\ keyOf'[u] = keyOf[u]
    BY <1>1, <1>t DEF SharedTypeOK
  <2>3. \A u \in Tasks : u \in Nat
    BY TaskAssumption
  <2>4. \A u, v \in Tasks : phase'[u] = "free" /\ phase'[v] # "free" => v < u
    BY <1>t, <2>1, <2>2, <2>3 DEF WantedIsNewest
  <2>5. ASSUME NEW u \in Tasks, NEW v \in Tasks, phase'[u] \in Active, why'[u] = "live",
               keyOf'[v] = keyOf'[u], phase'[v] # "free"
        PROVE  v <= u
    <3>1. CASE u = t
      BY <1>t, <2>1, <2>2, <2>3, <2>5, <3>1 DEF WantedIsNewest
    <3>2. CASE u # t
      <4>1. phase[u] \in Active /\ why[u] = "live" /\ jobOf[keyOf[u]] = u
        BY <1>t, <2>2, <2>5, <3>2 DEF WantedIsJoinable
      <4>2. keyOf[u] # k
        BY <1>1, <4>1 DEF MustStart
      <4>3. v # t
        BY <2>2, <2>5, <3>2, <4>2
      <4>4. QED
        BY <1>t, <2>2, <2>5, <3>2, <4>1, <4>3 DEF WantedIsNewest
    <3>3. QED
      BY <3>1, <3>2
  <2>6. WantedIsNewest'
    BY <2>4, <2>5 DEF WantedIsNewest
  <2>7. CacheIsSound'
    BY <2>1, <2>2, CacheStays
  <2>8. QED
    BY <2>6, <2>7
<1>2. CASE UNCHANGED <<phase, keyOf>>
  BY <1>2, <1>t, OrderStays, CacheStays, MapsStay
<1>3. QED
  BY <1>1, <1>2, MapsStay DEF Join

(* Data of a wanted load are cached: under its key alone, and last.                *)
LEMMA LoadedKeepsContents ==
    ASSUME CacheIInv, ContentsInv, NEW t \in Tasks, Loaded(t)
    PROVE  /\ CacheIsSound' /\ MapsBounded'
           /\ cache' # cache =>
                 /\ why[t] = "live" /\ phase[t] = "producing"
                 /\ \A e \in ToSet(cache') : (e \in ToSet(cache) /\ e.key # keyOf[t])
                                             \/ (e.from = t /\ e.key = keyOf[t])
<1>0. /\ phase[t] = "producing" /\ keyOf' = keyOf
      /\ \A u \in Tasks : phase[u] # "free" => phase'[u] # "free"
  BY DEF Loaded, SettleTask, CacheIInv, SharedTypeOK
<1>1. CASE UNCHANGED <<cache, failures>>
  BY <1>0, <1>1, CacheStays, MapsStay
<1>2. ASSUME why[t] = "live",
             cache' = Trim(Append(Without(cache, keyOf[t]), [key |-> keyOf[t], ts |-> now, from |-> t])),
             failures' = Without(failures, keyOf[t])
      PROVE  /\ CacheIsSound' /\ MapsBounded'
             /\ \A e \in ToSet(cache') : (e \in ToSet(cache) /\ e.key # keyOf[t])
                                         \/ (e.from = t /\ e.key = keyOf[t])
  <2> DEFINE k == keyOf[t]
             new == [key |-> k, ts |-> now, from |-> t]
             rest == Without(cache, k)
             list == Append(rest, new)
  <2>1. k \in Keys /\ now \in Nat
    BY <1>0, <1>2, CacheAssumption DEF CacheIInv, WantedIsJoinable, Active, ContentsInv, OthersTyped
  <2>2. new \in Entries /\ new.key = k /\ new.from = t
    BY <2>1 DEF Entries
  <2>3. cache \in Seq(Entries) /\ Distinct(cache)
    BY DEF ContentsInv, CacheIsSound
  <2> HIDE DEF k, new
  <2>4. /\ rest \in Seq(Entries) /\ Distinct(rest) /\ ToSet(rest) \subseteq ToSet(cache)
        /\ \A i \in DOMAIN rest : rest[i].key # k
    BY <2>3, WithoutHolds
  <2> HIDE DEF rest
  <2>5. /\ list \in Seq(Entries) /\ Distinct(list) /\ ToSet(list) = ToSet(rest) \cup {new}
    BY <2>2, <2>4, AppendHolds
  <2> HIDE DEF list
  <2>6. cache' = Trim(list)
    BY <1>2 DEF list, rest, new, k
  <2>7. /\ cache' \in Seq(Entries) /\ Len(cache') <= MaxEntries
        /\ Distinct(cache') /\ ToSet(cache') \subseteq ToSet(list)
    BY <2>5, <2>6, TrimHolds
  <2>8. \A e \in ToSet(rest) : e \in ToSet(cache) /\ e.key # k
    BY <2>4 DEF ToSet
  <2>9. \A e \in ToSet(cache') : (e \in ToSet(cache) /\ e.key # k) \/ e = new
    BY <2>5, <2>7, <2>8
  <2>10. CacheIsSound'
    <3>1. \A e \in ToSet(cache) : phase[e.from] # "free" /\ keyOf[e.from] = e.key /\ e.from \in Tasks
      BY CacheElements DEF ContentsInv
    <3>2. \A e \in ToSet(cache') : phase'[e.from] # "free" /\ keyOf'[e.from] = e.key
      BY <1>0, <2>2, <2>9, <3>1 DEF k
    <3>3. QED
      BY <2>7, <3>2 DEF CacheIsSound
  <2>11. MapsBounded'
    <3>1. PICK S : failures \in Seq(S)
      BY DEF ContentsInv, MapsBounded
    <3>2. failures' \in Seq(S) /\ Len(failures') <= Len(failures)
      BY <1>2, <3>1, WithoutHolds
    <3>3. Len(failures) <= MaxEntries /\ MaxEntries \in Nat /\ Len(failures) \in Nat /\ Len(failures') \in Nat
      BY <3>1, <3>2, CacheAssumption DEF ContentsInv, MapsBounded
    <3>4. Len(failures') <= MaxEntries
      BY <3>2, <3>3
    <3>5. QED
      BY <2>7, <3>2, <3>4 DEF MapsBounded
  <2>12. QED
    BY <2>2, <2>9, <2>10, <2>11 DEF k
<1>3. QED
  BY <1>0, <1>1, <1>2 DEF Loaded

(* A failure is put in its place, or last: the map is cut like the cache.          *)
LEMMA FailedKeepsBounds ==
    ASSUME ContentsInv, NEW e, failures' = Trim(Put(failures, e)), cache' = cache
    PROVE  MapsBounded'
<1>1. PICK S : failures \in Seq(S)
  BY DEF ContentsInv, MapsBounded
<1> DEFINE T == S \cup {e}
           n == Len(failures)
<1>2. /\ n \in Nat /\ DOMAIN failures = 1..n /\ failures \in Seq(T) /\ e \in T
      /\ \A i \in 1..n : failures[i] \in T
  BY <1>1
<1>3. Put(failures, e) \in Seq(T)
  <2>1. CASE HasEntry(failures, e.key)
    <3> DEFINE w == [i \in DOMAIN failures |-> IF failures[i].key = e.key THEN e ELSE failures[i]]
    <3> HIDE DEF T, n
    <3>1. w \in [1..n -> T]
      BY <1>2
    <3>2. w \in Seq(T)
      BY <1>2, <3>1
    <3>3. QED
      BY <2>1, <3>2 DEF Put
  <2>2. CASE ~HasEntry(failures, e.key)
    BY <1>2, <2>2, AppendProperties DEF Put
  <2>3. QED
    BY <2>1, <2>2
<1> HIDE DEF T
<1>4. failures' \in Seq(T) /\ Len(failures') <= MaxEntries
  BY <1>3, TrimHolds
<1>5. QED
  BY <1>4 DEF ContentsInv, MapsBounded

LEMMA OthersStayTyped ==
    ASSUME CacheIInv, ContentsInv, [CacheNext]_vars
    PROVE  OthersTyped'
<1>t. /\ OthersTyped /\ \A t \in Tasks : result[t] \in Results
      /\ MaxTime \in Nat /\ MaxEpoch \in Nat
  BY CacheAssumption DEF ContentsInv, CacheIInv, SharedTypeOK
<1> USE DEF OthersTyped
<1>1. CASE CloseCache
  BY <1>1, <1>t DEF CloseCache
<1>2. CASE ReopenCache \/ Clear \/ UNCHANGED vars
  BY <1>2, <1>t DEF ReopenCache, Clear, vars, cacheVars
<1>3. CASE Tick
  BY <1>3, <1>t DEF Tick
<1>4. ASSUME NEW t \in Tasks, StartLoad(t) PROVE OthersTyped'
  BY <1>4, <1>t DEF StartLoad
<1>5. ASSUME NEW t \in Tasks, LeaveFlight(t), UNCHANGED <<now, cacheClosed, epoch, owner, got, held, born>>
      PROVE  OthersTyped'
  BY <1>5, <1>t DEF LeaveFlight
<1>6. ASSUME NEW t \in Tasks, LoadEnds(t) PROVE OthersTyped'
  BY <1>6, <1>t DEF LoadEnds, cacheVars
<1>7. ASSUME NEW r \in Readers, NEW k \in Keys, NEW swr \in BOOLEAN, GetNow(r, k, swr)
      PROVE  OthersTyped'
  BY <1>7, <1>t DEF GetNow, Return
<1>8. ASSUME NEW r \in Readers, NEW k \in Keys, NEW swr \in BOOLEAN,
             GetLoad(r, k, swr) \/ Refresh(r, k)
      PROVE  OthersTyped'
  <2>1. born' \in [Tasks -> 0..MaxEpoch] /\ UNCHANGED <<now, cacheClosed, epoch, owner, inflight>>
    BY <1>8, <1>t DEF GetLoad, Refresh
  <2>2. got' \in [Readers -> {"none", "fresh", "stale", "error", "stopped", "aborted"}]
    BY <1>8, <1>t DEF GetLoad, Refresh, Return
  <2>3. held' \in [Readers -> BOOLEAN]
    <3>1. HasEntry(cache, k) \in BOOLEAN
      BY DEF HasEntry
    <3>2. QED
      BY <1>8, <1>t, <3>1 DEF GetLoad, Refresh
  <2>4. QED
    BY <1>t, <2>1, <2>2, <2>3
<1>9. ASSUME NEW r \in Readers, GetReturns(r) PROVE OthersTyped'
  <2>1. result[joined[r]] \in Results
    BY <1>9, <1>t DEF GetReturns, Deliver
  <2>2. got' \in [Readers -> {"none", "fresh", "stale", "error", "stopped", "aborted"}]
    BY <1>9, <1>t, <2>1 DEF GetReturns, Return, Results
  <2>3. QED
    BY <1>9, <1>t, <2>2 DEF GetReturns
<1>10. ASSUME NEW r \in Readers, ReaderLeaves(r) PROVE OthersTyped'
  BY <1>10, <1>t DEF ReaderLeaves, Return
<1> QED
  BY <1>1, <1>2, <1>3, <1>4, <1>5, <1>6, <1>7, <1>8, <1>9, <1>10
  DEF CacheNext, Load, Loaded, LoadFailed

LEMMA StepKeepsContents ==
    ASSUME CacheIInv, ContentsInv, [CacheNext]_vars
    PROVE  ContentsInv'
<1>t. phase \in [Tasks -> Phases] /\ why \in [Tasks -> {"live", "aborted", "stopped"}]
  BY DEF CacheIInv, SharedTypeOK
<1>1. SUFFICES WantedIsNewest' /\ CacheIsSound' /\ MapsBounded'
  BY OthersStayTyped DEF ContentsInv
<1>2. CASE \/ CloseCache \/ ReopenCache \/ Clear \/ Tick \/ UNCHANGED vars
  BY <1>2, <1>t, OrderStays, CacheStays, MapsStay
  DEF CloseCache, AbortAll, Give, ReopenCache, Clear, Tick, vars, sharedVars, cacheVars
<1>3. ASSUME NEW t \in Tasks, StartLoad(t) \/ LoadEnds(t)
      PROVE  WantedIsNewest' /\ CacheIsSound' /\ MapsBounded'
  <2>1. /\ UNCHANGED <<keyOf, why, cache, failures>>
        /\ \A u \in Tasks : /\ phase'[u] = "free" <=> phase[u] = "free"
                            /\ phase'[u] \in Active => phase[u] \in Active
    BY <1>3, <1>t DEF StartLoad, Produce, LoadEnds, Forget, cacheVars, Active, Phases
  <2>2. QED
    BY <2>1, OrderStays, CacheStays, MapsStay
<1>4. ASSUME NEW t \in Tasks, NEW res, SettleTask(t, res) PROVE WantedIsNewest'
  <2>1. /\ UNCHANGED <<keyOf, why>>
        /\ \A u \in Tasks : /\ phase'[u] = "free" <=> phase[u] = "free"
                            /\ phase'[u] \in Active => phase[u] \in Active
    BY <1>4, <1>t DEF SettleTask, Active, Phases
  <2>2. QED
    BY <2>1, OrderStays
<1>5. ASSUME NEW t \in Tasks, Loaded(t) PROVE WantedIsNewest' /\ CacheIsSound' /\ MapsBounded'
  BY <1>4, <1>5, LoadedKeepsContents DEF Loaded
<1>6. ASSUME NEW t \in Tasks, NEW h \in Hints, LoadFailed(t, h)
      PROVE  WantedIsNewest' /\ CacheIsSound' /\ MapsBounded'
  <2>1. WantedIsNewest'
    BY <1>4, <1>6 DEF LoadFailed
  <2>2. CacheIsSound'
    <3>1. /\ cache' = cache /\ keyOf' = keyOf
          /\ \A u \in Tasks : phase[u] # "free" => phase'[u] # "free"
      BY <1>6, <1>t DEF LoadFailed, SettleTask
    <3>2. QED
      BY <3>1, CacheStays
  <2>3. MapsBounded'
    <3>1. CASE UNCHANGED failures
      BY <1>6, <3>1, MapsStay DEF LoadFailed
    <3>2. CASE ~UNCHANGED failures
      <4>1. PICK e : failures' = Trim(Put(failures, e))
        BY <1>6, <3>2 DEF LoadFailed
      <4>2. QED
        BY <1>6, <4>1, FailedKeepsBounds DEF LoadFailed
    <3>3. QED
      BY <3>1, <3>2
  <2>4. QED
    BY <2>1, <2>2, <2>3
<1>7. ASSUME NEW r \in Readers, NEW k \in Keys, NEW swr \in BOOLEAN, GetNow(r, k, swr)
      PROVE  WantedIsNewest' /\ CacheIsSound' /\ MapsBounded'
  BY <1>7, OrderStays, CacheStays, MapsStay DEF GetNow, sharedVars
<1>8. ASSUME NEW r \in Readers, NEW k \in Keys, NEW swr \in BOOLEAN,
             GetLoad(r, k, swr) \/ Refresh(r, k)
      PROVE  WantedIsNewest' /\ CacheIsSound' /\ MapsBounded'
  BY <1>8, JoinKeepsContents DEF GetLoad, Refresh
<1>9. ASSUME NEW r \in Readers, GetReturns(r) \/ ReaderLeaves(r)
      PROVE  WantedIsNewest' /\ CacheIsSound' /\ MapsBounded'
  <2>1. UNCHANGED <<keyOf, phase, cache, failures>> /\ \A t \in Tasks : why'[t] = "live" => why[t] = "live"
    BY <1>9, <1>t DEF GetReturns, ReaderLeaves, Deliver, Leave, Give
  <2>2. QED
    BY <2>1, OrderStays, CacheStays, MapsStay
<1> QED
  BY <1>2, <1>3, <1>5, <1>6, <1>7, <1>8, <1>9 DEF CacheNext, Load

LEMMA ContentsInvariant == CacheSpec => [](CacheIInv /\ ContentsInv)
<1>1. CacheInit => CacheIInv /\ ContentsInv
  BY CacheIInvInit, ContentsInvInit
<1>2. (CacheIInv /\ ContentsInv) /\ [CacheNext]_vars => (CacheIInv /\ ContentsInv)'
  BY CacheIInvStep, StepKeepsContents
<1> QED
  BY <1>1, <1>2, PTL DEF CacheSpec

(* The cache and the list of failures keep their bound, whatever is loaded, fails, is *)
(* closed and reopened (trim()), with the two guarantees of the shared loads.           *)
THEOREM CacheIsBounded == CacheSpec => []CacheInv
<1>1. CacheIInv /\ ContentsInv => CacheInv
  BY DEF CacheIInv, ContentsInv, OthersTyped, MapsBounded, CacheInv, CacheTypeOK, WantedIsJoinable,
         OneWantedProducer, Active
<1> QED
  BY <1>1, ContentsInvariant, PTL

\* Only a load that arrives adds to the cache.
LEMMA OnlyLoadsAdd ==
    ASSUME CacheNext, NEW e \in ToSet(cache'), e \notin ToSet(cache)
    PROVE  \E t \in Tasks : Loaded(t) /\ cache' # cache
<1>1. cache' # cache
  OBVIOUS
<1>2. ~Clear
  <2>1. Clear => ToSet(cache') = {}
    BY DEF Clear, ToSet
  <2>2. QED
    BY <2>1
<1>3. QED
  BY <1>1, <1>2
  DEF CacheNext, CloseCache, ReopenCache, Tick, Load, StartLoad, LoadEnds, LoadFailed, cacheVars, GetNow,
      GetLoad, Refresh, GetReturns, ReaderLeaves

(* What was asked for before close() is not cached after it, however late the data      *)
(* arrive and however often the resource was reopened in between (cached-resource.js:16). *)
THEOREM CloseCutsLoadsOff == CacheSpec => NothingAcrossClose
<1> DEFINE Cut == \A e \in ToSet(cache') \ ToSet(cache) : ~cacheClosed /\ born[e.from] = epoch
<1>1. (CacheIInv /\ ContentsInv) /\ [CacheNext]_vars => [Cut]_vars
  <2> SUFFICES ASSUME CacheIInv, ContentsInv, CacheNext, NEW e \in ToSet(cache') \ ToSet(cache)
               PROVE  ~cacheClosed /\ born[e.from] = epoch
    OBVIOUS
  <2>1. PICK t \in Tasks : Loaded(t) /\ cache' # cache
    BY OnlyLoadsAdd
  <2>2. why[t] = "live" /\ phase[t] = "producing" /\ e.from = t
    BY <2>1, LoadedKeepsContents
  <2> QED
    BY <2>2 DEF CacheIInv, WantedIsJoinable, Active
<1> QED
  BY <1>1, ContentsInvariant, PTL DEF CacheSpec, NothingAcrossClose

(* A cached value is never replaced by that of a load asked for earlier: the load whose  *)
(* data are cached is the last one of its key (cached-resource.js:17, shared-task.js:8).  *)
THEOREM NewerLoadsWin == CacheSpec => NewestLoadWins
<1> DEFINE Newest == \A e \in ToSet(cache), f \in ToSet(cache') : e.key = f.key => f.from >= e.from
<1>1. (CacheIInv /\ ContentsInv) /\ [CacheNext]_vars => [Newest]_vars
  <2> SUFFICES ASSUME CacheIInv, ContentsInv, CacheNext, NEW e \in ToSet(cache),
                      NEW f \in ToSet(cache'), e.key = f.key
               PROVE  f.from >= e.from
    OBVIOUS
  <2>1. /\ e \in Entries /\ e.from \in Tasks /\ e.from \in Nat
        /\ phase[e.from] # "free" /\ keyOf[e.from] = e.key
    BY CacheElements, TaskAssumption DEF ContentsInv
  <2>2. CASE f \in ToSet(cache)
    <3>1. e = f
      BY <2>2 DEF ContentsInv, CacheIsSound, Distinct, ToSet
    <3> QED
      BY <2>1, <3>1
  <2>3. CASE f \notin ToSet(cache)
    <3>1. PICK t \in Tasks : Loaded(t) /\ cache' # cache
      BY <2>3, OnlyLoadsAdd
    <3>2. why[t] = "live" /\ phase[t] = "producing" /\ f.from = t /\ f.key = keyOf[t]
      BY <2>3, <3>1, LoadedKeepsContents
    <3>3. e.from <= t
      BY <2>1, <3>2 DEF ContentsInv, WantedIsNewest, Active
    <3> QED
      BY <2>1, <3>2, <3>3, TaskAssumption
  <2> QED
    BY <2>2, <2>3
<1> QED
  BY <1>1, ContentsInvariant, PTL DEF CacheSpec, NewestLoadWins
=============================================================================
