---------------------------- MODULE StoreProofs -----------------------------
(***************************************************************************)
(* What the two stores promise of their files: the recovery store for any   *)
(* number of processes, symbols, entries and passes, the sample store for   *)
(* any number of symbols, days, points and crashes, and any limit on what   *)
(* fits.                                                                   *)
(***************************************************************************)
EXTENDS RecoveryStore, SampleStore, FiniteSetTheorems, TLAPS

(***************************************************************************)
(* RecoveryStore                                                           *)
(***************************************************************************)

\* A map of entries, within the limit or (when two are merged) not yet.
Quotes(m) == /\ DOMAIN m \subseteq Symbols /\ IsFiniteSet(DOMAIN m)
             /\ \A s \in DOMAIN m : m[s] \in 0..MaxTime

Kept(m) == Quotes(m) /\ Cardinality(DOMAIN m) <= MaxEntries

\* Covers at the instant n, and the same of all that a map holds.
Has(n, m, s, t) ==
    \/ ~(t + Age >= n)
    \/ s \in DOMAIN m /\ m[s] >= t
    \/ Cardinality(DOMAIN m) = MaxEntries /\ \A x \in DOMAIN m : m[x] >= t

Replaces(n, m, old) == \A s \in DOMAIN old : Has(n, m, s, old[s])

-----------------------------------------------------------------------------
(* The operators on maps                                                   *)

\* What covers a quote covers an older one, and covers it later as well.
LEMMA HasOlder ==
    ASSUME NEW n \in Nat, NEW k \in Nat, n <= k, NEW m, Quotes(m), NEW s,
           NEW t \in Nat, NEW u \in Nat, u <= t, Has(n, m, s, t)
    PROVE  Has(k, m, s, u)
BY StoreAssumption DEF Has, Quotes

\* A map that replaces another covers all that the other covers.
LEMMA HasThrough ==
    ASSUME NEW n \in Nat, NEW m, Kept(m), NEW new, Kept(new), Replaces(n, new, m),
           NEW s, NEW t \in Nat, Has(n, m, s, t)
    PROVE  Has(n, new, s, t)
<1>1. \A x \in DOMAIN m : m[x] \in Nat
    BY StoreAssumption DEF Kept, Quotes
<1>2. \A x \in DOMAIN new : new[x] \in Nat
    BY StoreAssumption DEF Kept, Quotes
<1>3. CASE ~(t + Age >= n)
    BY <1>3 DEF Has
<1>4. CASE s \in DOMAIN m /\ m[s] >= t
  <2>1. Has(n, new, s, m[s])
      BY <1>4 DEF Replaces
  <2> QED
      BY <1>4, <1>1, <2>1, HasOlder DEF Kept
<1>5. CASE /\ t + Age >= n /\ Cardinality(DOMAIN m) = MaxEntries
           /\ \A x \in DOMAIN m : m[x] >= t
  <2>1. CASE \E x \in DOMAIN m : x \notin DOMAIN new \/ new[x] < m[x]
    <3>1. PICK x \in DOMAIN m : x \notin DOMAIN new \/ new[x] < m[x]
        BY <2>1
    <3>2. m[x] >= t /\ Has(n, new, x, m[x])
        BY <1>5 DEF Replaces
    <3>3. Cardinality(DOMAIN new) = MaxEntries /\ \A y \in DOMAIN new : new[y] >= m[x]
        BY <1>1, <1>2, <1>5, <3>1, <3>2, StoreAssumption DEF Has
    <3>4. \A y \in DOMAIN new : new[y] >= t
        BY <1>1, <1>2, <3>2, <3>3
    <3> QED
        BY <3>3, <3>4 DEF Has
  <2>2. CASE \A x \in DOMAIN m : x \in DOMAIN new /\ new[x] >= m[x]
    <3>1. DOMAIN m \in SUBSET DOMAIN new /\ IsFiniteSet(DOMAIN new)
        BY <2>2 DEF Kept, Quotes
    <3>2. Cardinality(DOMAIN new) <= MaxEntries
        BY DEF Kept
    <3>3. Cardinality(DOMAIN m) <= Cardinality(DOMAIN new)
        BY <3>1, FS_Subset
    <3>4. Cardinality(DOMAIN new) \in Nat
        BY <3>1, FS_CardinalityType
    <3>5. Cardinality(DOMAIN new) = MaxEntries /\ Cardinality(DOMAIN new) = Cardinality(DOMAIN m)
        BY <1>5, <3>2, <3>3, <3>4, StoreAssumption
    <3>6. DOMAIN new = DOMAIN m
        BY <3>1, <3>5, FS_Subset
    <3>7. \A y \in DOMAIN new : new[y] >= t
        BY <1>1, <1>2, <1>5, <2>2, <3>6
    <3> QED
        BY <3>5, <3>7 DEF Has
  <2> QED
      BY <1>1, <1>2, <2>1, <2>2
<1> QED
    BY <1>3, <1>4, <1>5 DEF Has

\* boundMap() replaces a map by one that is kept, entries as they were.
LEMMA BoundedHolds ==
    ASSUME NEW n \in Nat, NEW map, Quotes(map), NEW m \in Bounded(map)
    PROVE  /\ Kept(m) /\ Replaces(n, m, map)
           /\ \A s \in DOMAIN m : s \in DOMAIN map /\ m[s] = map[s]
<1>1. PICK keep \in SUBSET DOMAIN map :
          /\ Cardinality(keep) <= MaxEntries
          /\ keep # DOMAIN map => Cardinality(keep) = MaxEntries
          /\ \A s \in keep, x \in DOMAIN map \ keep : map[x] <= map[s]
          /\ m = Restrict(map, keep)
    BY DEF Bounded
<1>2. DOMAIN m = keep /\ \A s \in keep : m[s] = map[s]
    BY <1>1 DEF Restrict
<1>3. IsFiniteSet(keep)
    BY <1>1, FS_Subset DEF Quotes
<1>4. Kept(m)
    BY <1>1, <1>2, <1>3 DEF Kept, Quotes
<1>5. ASSUME NEW s \in DOMAIN map
      PROVE  Has(n, m, s, map[s])
  <2>1. map[s] \in Nat
      BY StoreAssumption DEF Quotes
  <2>2. CASE s \in keep
      BY <1>2, <2>1, <2>2 DEF Has
  <2>3. CASE s \notin keep
    <3>1. Cardinality(DOMAIN m) = MaxEntries
        BY <1>1, <1>2, <2>3
    <3>2. \A x \in DOMAIN m : m[x] >= map[s]
        BY <1>1, <1>2, <2>3 DEF Quotes
    <3> QED
        BY <3>1, <3>2 DEF Has
  <2> QED
      BY <2>2, <2>3
<1> QED
    BY <1>1, <1>2, <1>4, <1>5 DEF Replaces

\* mergeMaps() has every entry of both maps, or a newer one.
LEMMA MergeHolds ==
    ASSUME NEW left, Quotes(left), NEW right, Quotes(right)
    PROVE  LET m == Merge(left, right)
           IN  /\ Quotes(m)
               /\ \A s \in DOMAIN left : s \in DOMAIN m /\ m[s] >= left[s]
               /\ \A s \in DOMAIN right : s \in DOMAIN m /\ m[s] >= right[s]
<1> DEFINE m == Merge(left, right)
<1>1. DOMAIN m = DOMAIN left \cup DOMAIN right
    BY DEF Merge
<1>2. IsFiniteSet(DOMAIN m)
    BY <1>1, FS_Union DEF Quotes
<1>3. \A s \in DOMAIN left : left[s] \in 0..MaxTime /\ left[s] \in Nat
    BY StoreAssumption DEF Quotes
<1>4. \A s \in DOMAIN right : right[s] \in 0..MaxTime /\ right[s] \in Nat
    BY StoreAssumption DEF Quotes
<1>5. \A s \in DOMAIN m : m[s] =
          IF s \notin DOMAIN left THEN right[s]
          ELSE IF s \in DOMAIN right /\ right[s] >= left[s] THEN right[s]
          ELSE left[s]
    BY <1>1 DEF Merge
<1> HIDE DEF m
<1>6. Quotes(m)
  <2>1. \A s \in DOMAIN m : m[s] \in 0..MaxTime
      BY <1>1, <1>3, <1>4, <1>5
  <2> QED
      BY <1>1, <1>2, <2>1 DEF Quotes
<1>7. \A s \in DOMAIN left : s \in DOMAIN m /\ m[s] >= left[s]
    BY <1>1, <1>3, <1>4, <1>5
<1>8. \A s \in DOMAIN right : s \in DOMAIN m /\ m[s] >= right[s]
    BY <1>1, <1>3, <1>4, <1>5
<1> QED
    BY <1>6, <1>7, <1>8 DEF m

\* The two together replace both.
LEMMA MergedHolds ==
    ASSUME NEW n \in Nat, NEW left, Quotes(left), NEW right, Quotes(right),
           NEW m \in Bounded(Merge(left, right))
    PROVE  Kept(m) /\ Replaces(n, m, left) /\ Replaces(n, m, right)
<1> DEFINE both == Merge(left, right)
<1>1. /\ Quotes(both)
      /\ \A s \in DOMAIN left : s \in DOMAIN both /\ both[s] >= left[s]
      /\ \A s \in DOMAIN right : s \in DOMAIN both /\ both[s] >= right[s]
    BY MergeHolds
<1>2. m \in Bounded(both)
    OBVIOUS
<1> HIDE DEF both
<1>3. Kept(m) /\ Replaces(n, m, both)
    BY <1>1, <1>2, BoundedHolds
<1>4. Quotes(m) /\ \A s \in DOMAIN both : both[s] \in Nat
    BY <1>1, <1>3, StoreAssumption DEF Kept, Quotes
<1>5. ASSUME NEW s \in DOMAIN left
      PROVE  Has(n, m, s, left[s])
  <2>1. left[s] \in Nat /\ s \in DOMAIN both /\ both[s] >= left[s]
      BY <1>1, StoreAssumption DEF Quotes
  <2>2. Has(n, m, s, both[s])
      BY <1>3, <2>1 DEF Replaces
  <2> QED
      BY <1>4, <2>1, <2>2, HasOlder
<1>6. ASSUME NEW s \in DOMAIN right
      PROVE  Has(n, m, s, right[s])
  <2>1. right[s] \in Nat /\ s \in DOMAIN both /\ both[s] >= right[s]
      BY <1>1, StoreAssumption DEF Quotes
  <2>2. Has(n, m, s, both[s])
      BY <1>3, <2>1 DEF Replaces
  <2> QED
      BY <1>4, <2>1, <2>2, HasOlder
<1> QED
    BY <1>3, <1>5, <1>6 DEF Replaces

\* What is not read of a file has expired.
LEMMA AliveHolds ==
    ASSUME NEW map, Quotes(map), now \in Nat
    PROVE  LET alive == Alive(map)
           IN  /\ Quotes(alive) /\ DOMAIN alive \subseteq DOMAIN map
               /\ \A s \in DOMAIN alive : alive[s] = map[s]
               /\ \A s \in DOMAIN map : s \in DOMAIN alive \/ ~(map[s] + Age >= now)
<1> DEFINE alive == Alive(map)
<1>1. /\ DOMAIN alive = {s \in DOMAIN map : map[s] + Age >= now}
      /\ \A s \in DOMAIN alive : alive[s] = map[s]
    BY DEF Alive, Restrict, Valid
<1>2. IsFiniteSet(DOMAIN alive)
    BY <1>1, FS_Subset DEF Quotes
<1> HIDE DEF alive
<1>3. Quotes(alive)
    BY <1>1, <1>2 DEF Quotes
<1> QED
    BY <1>1, <1>3 DEF alive

LEMMA ReadHolds ==
    ASSUME NEW map, Quotes(map), now \in Nat, NEW right, Quotes(right),
           NEW m \in Bounded(Merge(Alive(map), right))
    PROVE  Kept(m) /\ Replaces(now, m, map) /\ Replaces(now, m, right)
<1> DEFINE alive == Alive(map)
<1>1. /\ Quotes(alive) /\ \A s \in DOMAIN alive : alive[s] = map[s]
      /\ \A s \in DOMAIN map : s \in DOMAIN alive \/ ~(map[s] + Age >= now)
    BY AliveHolds
<1>2. Kept(m) /\ Replaces(now, m, alive) /\ Replaces(now, m, right)
    BY <1>1, MergedHolds
<1> HIDE DEF alive
<1> QED
    BY <1>1, <1>2 DEF Replaces, Has

-----------------------------------------------------------------------------
(* The inductive invariant                                                 *)

FileOK ==
    /\ Kept(file.map) /\ file.version \in Nat /\ file.valid \in BOOLEAN
    /\ corrupt \in Nat /\ raced \in BOOLEAN
    /\ ~file.valid => file.map = Empty

PerProcess ==
    /\ DOMAIN entries = Processes /\ DOMAIN up = Processes /\ DOMAIN dirty = Processes
    /\ DOMAIN touched = Processes /\ DOMAIN pc = Processes /\ DOMAIN attempt = Processes
    /\ DOMAIN observed = Processes /\ DOMAIN merged = Processes
    /\ DOMAIN heard = Processes /\ DOMAIN checked = Processes

ProcessTypes(p) ==
    /\ Kept(entries[p]) /\ Kept(merged[p])
    /\ up[p] \in BOOLEAN /\ dirty[p] \in BOOLEAN /\ touched[p] \in BOOLEAN
    /\ pc[p] \in Stages /\ attempt[p] \in 0..(Attempts - 1)
    /\ observed[p] \in Nat /\ checked[p] \in Nat
    /\ heard[p] \in [Symbols -> 0..MaxTime]

\* The map covers all that the process has accepted.
HasHeard(n, m, h) == \A s \in Symbols : h[s] # 0 => Has(n, m, s, h[s])

\* What a process has accepted is in its memory, in what it is going to write
\* unless it has to go round again, and in the file once it thinks so.
HeardOK(p) ==
    /\ ~up[p] => heard[p] = [s \in Symbols |-> 0]
    /\ HasHeard(now, entries[p], heard[p])
    /\ pc[p] \in {"check", "recheck", "rename", "finish"} /\ ~touched[p]
          => HasHeard(now, merged[p], heard[p])
    /\ up[p] /\ ~dirty[p] /\ ~raced => HasHeard(now, file.map, heard[p])

\* What a process is going to write replaces the file it has read, if it is
\* still that file; what it has written is replaced by the file.
WriteOK(p) ==
    /\ pc[p] \in {"quarantine", "check", "recheck", "rename"}
          => /\ observed[p] <= file.version
             /\ ~file.valid => observed[p] = file.version
    /\ pc[p] = "quarantine" /\ observed[p] = file.version => ~file.valid
    /\ pc[p] \in {"check", "recheck", "rename"} /\ observed[p] = file.version
          => /\ Replaces(now, merged[p], file.map)
             /\ ~file.valid => corrupt = file.version
    /\ pc[p] = "rename" => checked[p] = observed[p]
    /\ pc[p] = "finish" /\ ~raced => Replaces(now, file.map, merged[p])

ProcessOK(p) == ProcessTypes(p) /\ HeardOK(p) /\ WriteOK(p)

RecoveryInv ==
    /\ now \in 1..MaxTime /\ FileOK /\ PerProcess
    /\ \A p \in Processes : ProcessOK(p)

-----------------------------------------------------------------------------
LEMMA EmptyKept == Kept(Empty) /\ DOMAIN Empty = {}
<1>1. DOMAIN Empty = {}
    BY DEF Empty
<1>2. IsFiniteSet(DOMAIN Empty) /\ Cardinality(DOMAIN Empty) = 0
    BY <1>1, FS_EmptySet
<1> QED
    BY <1>1, <1>2, StoreAssumption DEF Kept, Quotes

LEMMA LeftKept == ASSUME NEW s \in Symbols PROVE Kept(Left(s))
<1>1. DOMAIN Left(s) = {s} /\ Left(s)[s] = 0
    BY DEF Left
<1>2. IsFiniteSet({s}) /\ Cardinality({s}) = 1
    BY FS_Singleton
<1>3. IsFiniteSet(DOMAIN Left(s)) /\ Cardinality(DOMAIN Left(s)) = 1
    BY <1>1, <1>2
<1>4. \A x \in DOMAIN Left(s) : Left(s)[x] \in 0..MaxTime
    BY <1>1, StoreAssumption
<1> QED
    BY <1>1, <1>3, <1>4, StoreAssumption DEF Kept, Quotes

LEMMA RecoveryInvInit == Init => RecoveryInv
<1> SUFFICES ASSUME Init PROVE RecoveryInv
    OBVIOUS
<1> USE DEF Init
<1>1. now \in 1..MaxTime
    BY StoreAssumption
<1>2. FileOK
  <2>1. CASE file = [version |-> 0, valid |-> TRUE, map |-> Empty]
      BY <2>1, EmptyKept DEF FileOK
  <2>2. CASE file = [version |-> 1, valid |-> FALSE, map |-> Empty]
      BY <2>2, EmptyKept DEF FileOK
  <2>3. CASE \E s \in Symbols : file = [version |-> 1, valid |-> TRUE, map |-> Left(s)]
    <3>1. PICK s \in Symbols : file = [version |-> 1, valid |-> TRUE, map |-> Left(s)]
        BY <2>3
    <3>2. Kept(Left(s))
        BY LeftKept
    <3> QED
        BY <3>1, <3>2 DEF FileOK
  <2> QED
      BY <2>1, <2>2, <2>3
<1>3. PerProcess
    BY DEF PerProcess
<1>4. ASSUME NEW p \in Processes
      PROVE  ProcessOK(p)
  <2>1. ProcessTypes(p)
      BY EmptyKept, StoreAssumption DEF ProcessTypes, Stages
  <2>2. HeardOK(p)
      BY DEF HeardOK, HasHeard
  <2>3. WriteOK(p)
      BY DEF WriteOK
  <2> QED
      BY <2>1, <2>2, <2>3 DEF ProcessOK
<1> QED
    BY <1>1, <1>2, <1>3, <1>4 DEF RecoveryInv

\* A process rests while another moves, unless that one replaces the file.
ProcessRests(p) ==
    /\ entries'[p] = entries[p] /\ up'[p] = up[p] /\ dirty'[p] = dirty[p]
    /\ touched'[p] = touched[p] /\ pc'[p] = pc[p] /\ attempt'[p] = attempt[p]
    /\ observed'[p] = observed[p] /\ merged'[p] = merged[p] /\ heard'[p] = heard[p]
    /\ checked'[p] = checked[p]

LEMMA RestKeeps ==
    ASSUME NEW p \in Processes, ProcessOK(p), ProcessRests(p),
           now' = now, file' = file, raced' = raced,
           corrupt' = corrupt \/ corrupt' = file.version
    PROVE  ProcessOK(p)'
<1> USE DEF ProcessRests
<1>1. ProcessTypes(p)'
    BY DEF ProcessOK, ProcessTypes
<1>2. HeardOK(p)'
    BY DEF ProcessOK, HeardOK
<1>3. WriteOK(p)'
    BY DEF ProcessOK, WriteOK
<1> QED
    BY <1>1, <1>2, <1>3 DEF ProcessOK

\* All that a step of p leaves to prove when it does not replace the file.
LEMMA StepKeeps ==
    ASSUME RecoveryInv, NEW p \in Processes, PerProcess', ProcessOK(p)',
           \A q \in Processes \ {p} : ProcessRests(q),
           now' = now, file' = file, raced' = raced,
           corrupt' = corrupt \/ corrupt' = file.version
    PROVE  RecoveryInv'
<1>1. FileOK'
    BY DEF RecoveryInv, FileOK
<1>2. ASSUME NEW q \in Processes
      PROVE  ProcessOK(q)'
  <2>1. CASE q = p
      BY <2>1
  <2>2. CASE q # p
    <3>1. ProcessOK(q) /\ ProcessRests(q)
        BY <2>2 DEF RecoveryInv
    <3> QED
        BY <3>1, RestKeeps
  <2> QED
      BY <2>1, <2>2
<1> QED
    BY <1>1, <1>2 DEF RecoveryInv

-----------------------------------------------------------------------------
(* One lemma per action                                                    *)

LEMMA HeardThrough ==
    ASSUME NEW n \in Nat, NEW m, Kept(m), NEW new, Kept(new), Replaces(n, new, m),
           NEW h \in [Symbols -> 0..MaxTime], HasHeard(n, m, h)
    PROVE  HasHeard(n, new, h)
<1>1. ASSUME NEW s \in Symbols, h[s] # 0
      PROVE  Has(n, new, s, h[s])
  <2>1. h[s] \in Nat
      BY StoreAssumption
  <2>2. Has(n, m, s, h[s])
      BY <1>1 DEF HasHeard
  <2> QED
      BY <2>1, <2>2, HasThrough
<1> QED
    BY <1>1 DEF HasHeard

LEMMA ReplacedThrough ==
    ASSUME NEW n \in Nat, NEW old, Quotes(old), NEW m, Kept(m), NEW new, Kept(new),
           Replaces(n, new, m), Replaces(n, m, old)
    PROVE  Replaces(n, new, old)
<1>1. ASSUME NEW s \in DOMAIN old
      PROVE  Has(n, new, s, old[s])
  <2>1. old[s] \in Nat /\ Has(n, m, s, old[s])
      BY StoreAssumption DEF Quotes, Replaces
  <2> QED
      BY <2>1, HasThrough
<1> QED
    BY <1>1 DEF Replaces

LEMMA LoadKeeps ==
    ASSUME RecoveryInv, NEW p \in Processes, Load(p)
    PROVE  RecoveryInv'
<1>1. ProcessOK(p) /\ PerProcess /\ FileOK /\ now \in Nat
    BY StoreAssumption DEF RecoveryInv
<1>2. PICK m \in Bounded(Alive(file.map)) :
          /\ entries' = [entries EXCEPT ![p] = m]
          /\ dirty' = [dirty EXCEPT ![p] = DOMAIN m # DOMAIN file.map]
    BY DEF Load
<1>3. /\ ~up[p] /\ up' = [up EXCEPT ![p] = TRUE]
      /\ now' = now /\ touched' = touched /\ heard' = heard /\ pc' = pc
      /\ attempt' = attempt /\ observed' = observed /\ merged' = merged
      /\ checked' = checked /\ file' = file /\ corrupt' = corrupt /\ raced' = raced
    BY DEF Load, flushVars, fileVars
<1>4. Kept(m)
  <2>1. Quotes(Alive(file.map))
      BY <1>1, AliveHolds DEF FileOK, Kept
  <2> QED
      BY <1>1, <2>1, BoundedHolds
<1>5. heard[p] = [s \in Symbols |-> 0]
    BY <1>1, <1>3 DEF ProcessOK, HeardOK
<1>6. ProcessTypes(p)'
    BY <1>1, <1>2, <1>3, <1>4 DEF ProcessOK, ProcessTypes, PerProcess
<1>7. \A n, x : HasHeard(n, x, heard[p])
    BY <1>5 DEF HasHeard
<1>8. HeardOK(p)'
  <2>1. up'[p]
      BY <1>1, <1>3 DEF PerProcess
  <2> QED
      BY <1>3, <1>7, <2>1 DEF HeardOK
<1>9. WriteOK(p)'
    BY <1>1, <1>3 DEF ProcessOK, WriteOK
<1>10. \A q \in Processes \ {p} : ProcessRests(q)
    BY <1>1, <1>2, <1>3 DEF ProcessRests, PerProcess
<1>11. PerProcess'
    BY <1>1, <1>2, <1>3 DEF PerProcess
<1> QED
    BY <1>3, <1>6, <1>8, <1>9, <1>10, <1>11, StepKeeps DEF ProcessOK

LEMMA CrashKeeps ==
    ASSUME RecoveryInv, NEW p \in Processes, Crash(p)
    PROVE  RecoveryInv'
<1>1. ProcessOK(p) /\ PerProcess /\ FileOK /\ now \in Nat
    BY StoreAssumption DEF RecoveryInv
<1>2. /\ up' = [up EXCEPT ![p] = FALSE]
      /\ entries' = [entries EXCEPT ![p] = Empty]
      /\ dirty' = [dirty EXCEPT ![p] = FALSE]
      /\ touched' = [touched EXCEPT ![p] = FALSE]
      /\ heard' = [heard EXCEPT ![p] = [s \in Symbols |-> 0]]
      /\ pc' = [pc EXCEPT ![p] = "idle"]
      /\ merged' = [merged EXCEPT ![p] = Empty]
      /\ now' = now /\ attempt' = attempt /\ observed' = observed
      /\ checked' = checked /\ file' = file /\ corrupt' = corrupt /\ raced' = raced
    BY DEF Crash, fileVars
<1>3. /\ ~up'[p] /\ pc'[p] = "idle" /\ entries'[p] = Empty /\ merged'[p] = Empty
      /\ heard'[p] = [s \in Symbols |-> 0] /\ ~dirty'[p] /\ ~touched'[p]
      /\ dirty'[p] \in BOOLEAN /\ touched'[p] \in BOOLEAN /\ up'[p] \in BOOLEAN
      /\ attempt'[p] = attempt[p] /\ observed'[p] = observed[p] /\ checked'[p] = checked[p]
    BY <1>1, <1>2 DEF PerProcess
<1>4. ProcessTypes(p)'
  <2>1. heard'[p] \in [Symbols -> 0..MaxTime]
      BY <1>3, StoreAssumption
  <2> QED
      BY <1>1, <1>3, <2>1, EmptyKept DEF ProcessOK, ProcessTypes, Stages
<1>5. HeardOK(p)'
    BY <1>3 DEF HeardOK, HasHeard
<1>6. WriteOK(p)'
    BY <1>3 DEF WriteOK
<1>7. \A q \in Processes \ {p} : ProcessRests(q)
    BY <1>1, <1>2 DEF ProcessRests, PerProcess
<1>8. PerProcess'
    BY <1>1, <1>2 DEF PerProcess
<1> QED
    BY <1>2, <1>4, <1>5, <1>6, <1>7, <1>8, StepKeeps DEF ProcessOK

LEMMA GetExpiredKeeps ==
    ASSUME RecoveryInv, NEW p \in Processes, NEW s \in Symbols, GetExpired(p, s)
    PROVE  RecoveryInv'
<1>1. ProcessOK(p) /\ PerProcess /\ FileOK /\ now \in Nat
    BY StoreAssumption DEF RecoveryInv
<1> DEFINE m == Restrict(entries[p], DOMAIN entries[p] \ {s})
<1>2. /\ ~(entries[p][s] + Age >= now)
      /\ entries' = [entries EXCEPT ![p] = m]
      /\ dirty' = [dirty EXCEPT ![p] = TRUE]
      /\ touched' = [touched EXCEPT ![p] = TRUE]
      /\ now' = now /\ up' = up /\ heard' = heard /\ pc' = pc
      /\ attempt' = attempt /\ observed' = observed /\ merged' = merged
      /\ checked' = checked /\ file' = file /\ corrupt' = corrupt /\ raced' = raced
    BY DEF GetExpired, Valid, flushVars, fileVars
<1>3. /\ DOMAIN m = DOMAIN entries[p] \ {s}
      /\ \A x \in DOMAIN m : m[x] = entries[p][x]
    BY DEF Restrict
<1> HIDE DEF m
<1>4. Kept(m)
  <2>1. Kept(entries[p])
      BY <1>1 DEF ProcessOK, ProcessTypes
  <2>2. DOMAIN m \in SUBSET DOMAIN entries[p] /\ IsFiniteSet(DOMAIN entries[p])
      BY <1>3, <2>1 DEF Kept, Quotes
  <2>3. IsFiniteSet(DOMAIN m) /\ Cardinality(DOMAIN m) <= Cardinality(DOMAIN entries[p])
      BY <2>2, FS_Subset
  <2>4. Cardinality(DOMAIN m) \in Nat /\ Cardinality(DOMAIN entries[p]) \in Nat
      BY <2>2, <2>3, FS_CardinalityType
  <2>5. Cardinality(DOMAIN m) <= MaxEntries
      BY <2>1, <2>3, <2>4, StoreAssumption DEF Kept
  <2> QED
      BY <1>3, <2>1, <2>3, <2>5 DEF Kept, Quotes
<1>5. Replaces(now, m, entries[p])
  <2>1. \A x \in DOMAIN entries[p] : entries[p][x] \in Nat
      BY <1>1, StoreAssumption DEF ProcessOK, ProcessTypes, Kept, Quotes
  <2> QED
      BY <1>2, <1>3, <2>1 DEF Replaces, Has
<1>6. /\ entries'[p] = m /\ dirty'[p] = TRUE /\ touched'[p] = TRUE
    BY <1>1, <1>2 DEF PerProcess
<1>7. ProcessTypes(p)'
    BY <1>1, <1>2, <1>4, <1>6 DEF ProcessOK, ProcessTypes
<1>8. HasHeard(now, m, heard[p])
    BY <1>1, <1>4, <1>5, HeardThrough DEF ProcessOK, ProcessTypes, HeardOK
<1>9. HeardOK(p)'
    BY <1>1, <1>2, <1>6, <1>8 DEF ProcessOK, HeardOK
<1>10. WriteOK(p)'
    BY <1>1, <1>2 DEF ProcessOK, WriteOK
<1>11. \A q \in Processes \ {p} : ProcessRests(q)
    BY <1>1, <1>2 DEF ProcessRests, PerProcess
<1>12. PerProcess'
    BY <1>1, <1>2 DEF PerProcess
<1> QED
    BY <1>2, <1>7, <1>9, <1>10, <1>11, <1>12, StepKeeps DEF ProcessOK

LEMMA RememberKeeps ==
    ASSUME RecoveryInv, NEW p \in Processes, NEW s \in Symbols, NEW t \in 1..MaxTime,
           Remember(p, s, t)
    PROVE  RecoveryInv'
<1>1. ProcessOK(p) /\ PerProcess /\ FileOK /\ now \in Nat
    BY StoreAssumption DEF RecoveryInv
<1>2. /\ dirty' = [dirty EXCEPT ![p] = TRUE]
      /\ touched' = [touched EXCEPT ![p] = TRUE]
      /\ now' = now /\ up' = up /\ pc' = pc
      /\ attempt' = attempt /\ observed' = observed /\ merged' = merged
      /\ checked' = checked /\ file' = file /\ corrupt' = corrupt /\ raced' = raced
    BY DEF Remember, flushVars, fileVars
<1>3. /\ up[p] /\ dirty'[p] = TRUE /\ touched'[p] = TRUE
    BY <1>1, <1>2 DEF PerProcess, Remember
<1>4. /\ Kept(entries'[p]) /\ heard'[p] \in [Symbols -> 0..MaxTime]
      /\ HasHeard(now, entries'[p], heard'[p])
      /\ DOMAIN entries' = Processes /\ DOMAIN heard' = Processes
      /\ \A q \in Processes \ {p} : entries'[q] = entries[q] /\ heard'[q] = heard[q]
  <2>1. CASE UNCHANGED <<entries, heard>>
      BY <1>1, <2>1 DEF ProcessOK, ProcessTypes, HeardOK, PerProcess
  <2>2. CASE ~(s \in DOMAIN entries[p] /\ t < entries[p][s])
    <3> DEFINE new == [x \in DOMAIN entries[p] \cup {s} |->
                          IF x = s THEN t ELSE entries[p][x]]
    <3>1. PICK m \in Bounded(new) :
              /\ s \in DOMAIN m
              /\ entries' = [entries EXCEPT ![p] = m]
              /\ heard' = [heard EXCEPT ![p][s] = t]
        BY <2>2 DEF Remember
    <3>2. /\ DOMAIN new = DOMAIN entries[p] \cup {s} /\ new[s] = t
          /\ \A x \in DOMAIN entries[p] : x # s => new[x] = entries[p][x]
        OBVIOUS
    <3>3. m \in Bounded(new)
        OBVIOUS
    <3> HIDE DEF new
    <3>4. Kept(entries[p]) /\ heard[p] \in [Symbols -> 0..MaxTime]
          /\ HasHeard(now, entries[p], heard[p])
        BY <1>1 DEF ProcessOK, ProcessTypes, HeardOK
    <3>5. Quotes(new)
      <4>1. IsFiniteSet(DOMAIN new)
          BY <3>2, <3>4, FS_AddElement DEF Kept, Quotes
      <4> QED
          BY <3>2, <3>4, <4>1, StoreAssumption DEF Kept, Quotes
    <3>6. /\ Kept(m) /\ Replaces(now, m, new)
          /\ \A x \in DOMAIN m : x \in DOMAIN new /\ m[x] = new[x]
        BY <1>1, <3>3, <3>5, BoundedHolds
    <3>7. Replaces(now, m, entries[p])
      <4>1. ASSUME NEW x \in DOMAIN entries[p]
            PROVE  Has(now, m, x, entries[p][x])
        <5>1. /\ x \in DOMAIN new /\ entries[p][x] \in Nat /\ new[x] \in Nat
              /\ entries[p][x] <= new[x]
            BY <2>2, <3>2, <3>4, <3>5, StoreAssumption DEF Kept, Quotes
        <5>2. Has(now, m, x, new[x])
            BY <3>6, <5>1 DEF Replaces
        <5> QED
            BY <1>1, <3>6, <5>1, <5>2, HasOlder DEF Kept
      <4> QED
          BY <4>1 DEF Replaces
    <3>8. HasHeard(now, m, heard[p])
        BY <1>1, <3>4, <3>6, <3>7, HeardThrough
    <3>9. /\ entries'[p] = m /\ heard'[p] = [heard[p] EXCEPT ![s] = t]
          /\ DOMAIN entries' = Processes /\ DOMAIN heard' = Processes
          /\ \A q \in Processes \ {p} : entries'[q] = entries[q] /\ heard'[q] = heard[q]
        BY <1>1, <3>1 DEF PerProcess
    <3>10. /\ heard'[p] \in [Symbols -> 0..MaxTime] /\ heard'[p][s] = t
           /\ \A x \in Symbols : x # s => heard'[p][x] = heard[p][x]
        BY <3>4, <3>9, StoreAssumption
    <3>11. HasHeard(now, m, heard'[p])
      <4>1. Has(now, m, s, t)
        <5>1. t \in Nat /\ m[s] = t
            BY <3>1, <3>2, <3>6, StoreAssumption
        <5> QED
            BY <3>1, <5>1 DEF Has
      <4> QED
          BY <3>8, <3>10, <4>1 DEF HasHeard
    <3> QED
        BY <3>6, <3>9, <3>10, <3>11
  <2> QED
      BY <2>1, <2>2 DEF Remember
<1>5. ProcessTypes(p)'
    BY <1>1, <1>2, <1>3, <1>4 DEF ProcessOK, ProcessTypes
<1>6. HeardOK(p)'
    BY <1>2, <1>3, <1>4 DEF HeardOK
<1>7. WriteOK(p)'
    BY <1>1, <1>2 DEF ProcessOK, WriteOK
<1>8. \A q \in Processes \ {p} : ProcessRests(q)
    BY <1>1, <1>2, <1>4 DEF ProcessRests, PerProcess
<1>9. PerProcess'
    BY <1>1, <1>2, <1>4 DEF PerProcess
<1> QED
    BY <1>2, <1>5, <1>6, <1>7, <1>8, <1>9, StepKeeps DEF ProcessOK

\* A flush that begins, goes round again or gives up.
LEMMA PassKeeps ==
    ASSUME RecoveryInv, NEW p \in Processes, DOMAIN pc' = Processes,
           DOMAIN touched' = Processes, DOMAIN attempt' = Processes,
           \A q \in Processes \ {p} :
              pc'[q] = pc[q] /\ touched'[q] = touched[q] /\ attempt'[q] = attempt[q],
           pc'[p] \in {"read", "idle"}, touched'[p] \in BOOLEAN,
           attempt'[p] \in 0..(Attempts - 1),
           UNCHANGED <<now, entries, up, dirty, heard, observed, merged, checked, fileVars>>
    PROVE  RecoveryInv'
<1>1. ProcessOK(p) /\ PerProcess
    BY DEF RecoveryInv
<1>2. /\ now' = now /\ entries' = entries /\ up' = up /\ dirty' = dirty /\ heard' = heard
      /\ observed' = observed /\ merged' = merged /\ checked' = checked
      /\ file' = file /\ corrupt' = corrupt /\ raced' = raced
    BY DEF fileVars
<1>3. ProcessTypes(p)'
    BY <1>1, <1>2 DEF ProcessOK, ProcessTypes, Stages
<1>4. HeardOK(p)'
    BY <1>1, <1>2 DEF ProcessOK, HeardOK
<1>5. WriteOK(p)'
    BY <1>1, <1>2 DEF ProcessOK, WriteOK
<1>6. \A q \in Processes \ {p} : ProcessRests(q)
    BY <1>1, <1>2 DEF ProcessRests, PerProcess
<1>7. PerProcess'
    BY <1>1, <1>2 DEF PerProcess
<1> QED
    BY <1>2, <1>3, <1>4, <1>5, <1>6, <1>7, StepKeeps DEF ProcessOK

LEMMA PassHolds ==
    ASSUME RecoveryInv, NEW p \in Processes, NEW n \in Nat, Pass(p, n)
    PROVE  /\ DOMAIN pc' = Processes /\ DOMAIN touched' = Processes
           /\ DOMAIN attempt' = Processes
           /\ \A q \in Processes \ {p} :
                 pc'[q] = pc[q] /\ touched'[q] = touched[q] /\ attempt'[q] = attempt[q]
           /\ pc'[p] \in {"read", "idle"} /\ touched'[p] \in BOOLEAN
           /\ attempt'[p] \in 0..(Attempts - 1)
<1>1. ProcessTypes(p) /\ PerProcess
    BY DEF RecoveryInv, ProcessOK
<1>2. CASE n < Attempts
  <2>1. /\ pc' = [pc EXCEPT ![p] = "read"]
        /\ attempt' = [attempt EXCEPT ![p] = n]
        /\ touched' = [touched EXCEPT ![p] = FALSE]
      BY <1>2 DEF Pass
  <2>2. pc'[p] = "read" /\ touched'[p] = FALSE /\ attempt'[p] = n
      BY <1>1, <2>1 DEF PerProcess
  <2>3. n \in 0..(Attempts - 1)
      BY <1>2, StoreAssumption
  <2> QED
      BY <1>1, <2>1, <2>2, <2>3 DEF PerProcess
<1>3. CASE ~(n < Attempts)
    BY <1>1, <1>3 DEF Pass, PerProcess, ProcessTypes
<1> QED
    BY <1>2, <1>3

LEMMA NextPassKeeps ==
    ASSUME RecoveryInv, NEW p \in Processes, NextPass(p)
    PROVE  RecoveryInv'
<1>1. attempt[p] + 1 \in Nat
    BY StoreAssumption DEF RecoveryInv, ProcessOK, ProcessTypes
<1> QED
    BY <1>1, PassHolds, PassKeeps DEF NextPass

LEMMA FlushKeeps ==
    ASSUME RecoveryInv, NEW p \in Processes, Flush(p)
    PROVE  RecoveryInv'
BY PassHolds, PassKeeps DEF Flush

LEMMA FlushFailsKeeps ==
    ASSUME RecoveryInv, NEW p \in Processes, FlushFails(p)
    PROVE  RecoveryInv'
<1>1. ProcessTypes(p) /\ PerProcess
    BY DEF RecoveryInv, ProcessOK
<1>2. /\ pc' = [pc EXCEPT ![p] = "idle"]
      /\ touched' = touched /\ attempt' = attempt
      /\ UNCHANGED <<now, entries, up, dirty, heard, observed, merged, checked, fileVars>>
    BY DEF FlushFails, memVars
<1>3. /\ DOMAIN pc' = Processes /\ DOMAIN touched' = Processes /\ DOMAIN attempt' = Processes
      /\ \A q \in Processes \ {p} :
            pc'[q] = pc[q] /\ touched'[q] = touched[q] /\ attempt'[q] = attempt[q]
      /\ pc'[p] = "idle" /\ touched'[p] \in BOOLEAN /\ attempt'[p] \in 0..(Attempts - 1)
    BY <1>1, <1>2 DEF PerProcess, ProcessTypes
<1> QED
    BY <1>2, <1>3, PassKeeps

LEMMA ReadKeeps ==
    ASSUME RecoveryInv, NEW p \in Processes, Read(p)
    PROVE  RecoveryInv'
<1>1. ProcessOK(p) /\ PerProcess /\ FileOK /\ now \in Nat
    BY StoreAssumption DEF RecoveryInv
<1>2. /\ observed' = [observed EXCEPT ![p] = file.version]
      /\ now' = now /\ entries' = entries /\ up' = up /\ dirty' = dirty
      /\ touched' = touched /\ heard' = heard /\ attempt' = attempt
      /\ checked' = checked /\ file' = file /\ corrupt' = corrupt /\ raced' = raced
    BY DEF Read, memVars, fileVars
<1>3. observed'[p] = file.version
    BY <1>1, <1>2 DEF PerProcess
<1>4. CASE file.valid
  <2>1. PICK m \in Bounded(Merge(Alive(file.map), entries[p])) :
            merged' = [merged EXCEPT ![p] = m]
      BY <1>4 DEF Read
  <2>2. pc' = [pc EXCEPT ![p] = "check"]
      BY <1>4 DEF Read
  <2>3. merged'[p] = m /\ pc'[p] = "check"
      BY <1>1, <2>1, <2>2 DEF PerProcess
  <2>4. Quotes(file.map) /\ Quotes(entries[p])
      BY <1>1 DEF FileOK, ProcessOK, ProcessTypes, Kept
  <2>5. Kept(m) /\ Replaces(now, m, file.map) /\ Replaces(now, m, entries[p])
      BY <1>1, <2>4, ReadHolds
  <2>6. HasHeard(now, m, heard[p])
      BY <1>1, <2>5, HeardThrough DEF ProcessOK, ProcessTypes, HeardOK
  <2>7. ProcessTypes(p)'
      BY <1>1, <1>2, <1>3, <2>3, <2>5 DEF ProcessOK, ProcessTypes, Stages, FileOK
  <2>8. HeardOK(p)'
      BY <1>1, <1>2, <2>3, <2>6 DEF ProcessOK, HeardOK
  <2>9. WriteOK(p)'
      BY <1>1, <1>2, <1>3, <1>4, <2>3, <2>5 DEF WriteOK, FileOK
  <2>10. \A q \in Processes \ {p} : ProcessRests(q)
      BY <1>1, <1>2, <2>1, <2>2 DEF ProcessRests, PerProcess
  <2>11. PerProcess'
      BY <1>1, <1>2, <2>1, <2>2 DEF PerProcess
  <2> QED
      BY <1>2, <2>7, <2>8, <2>9, <2>10, <2>11, StepKeeps DEF ProcessOK
<1>5. CASE ~file.valid
  <2>1. pc' = [pc EXCEPT ![p] = "quarantine"] /\ merged' = merged
      BY <1>5 DEF Read
  <2>2. merged'[p] = merged[p] /\ pc'[p] = "quarantine"
      BY <1>1, <2>1 DEF PerProcess
  <2>3. ProcessTypes(p)'
      BY <1>1, <1>2, <1>3, <2>2 DEF ProcessOK, ProcessTypes, Stages, FileOK
  <2>4. HeardOK(p)'
      BY <1>1, <1>2, <2>2 DEF ProcessOK, HeardOK
  <2>5. WriteOK(p)'
      BY <1>1, <1>2, <1>3, <1>5, <2>2 DEF WriteOK, FileOK
  <2>6. \A q \in Processes \ {p} : ProcessRests(q)
      BY <1>1, <1>2, <2>1 DEF ProcessRests, PerProcess
  <2>7. PerProcess'
      BY <1>1, <1>2, <2>1 DEF PerProcess
  <2> QED
      BY <1>2, <2>3, <2>4, <2>5, <2>6, <2>7, StepKeeps DEF ProcessOK
<1> QED
    BY <1>4, <1>5

LEMMA QuarantineKeeps ==
    ASSUME RecoveryInv, NEW p \in Processes, Quarantine(p)
    PROVE  RecoveryInv'
<1>1. ProcessOK(p) /\ PerProcess /\ FileOK /\ now \in Nat /\ pc[p] = "quarantine"
    BY StoreAssumption DEF RecoveryInv, Quarantine
<1>2. /\ now' = now /\ entries' = entries /\ up' = up /\ dirty' = dirty
      /\ touched' = touched /\ heard' = heard /\ attempt' = attempt /\ observed' = observed
      /\ checked' = checked /\ file' = file /\ raced' = raced
    BY DEF Quarantine, memVars
<1>3. CASE file.version # observed[p]
  <2>1. pc' = [pc EXCEPT ![p] = "idle"] /\ corrupt' = corrupt /\ merged' = merged
      BY <1>3 DEF Quarantine
  <2>2. /\ DOMAIN pc' = Processes /\ DOMAIN touched' = Processes /\ DOMAIN attempt' = Processes
        /\ \A q \in Processes \ {p} :
              pc'[q] = pc[q] /\ touched'[q] = touched[q] /\ attempt'[q] = attempt[q]
        /\ pc'[p] = "idle" /\ touched'[p] \in BOOLEAN /\ attempt'[p] \in 0..(Attempts - 1)
      BY <1>1, <1>2, <2>1 DEF PerProcess, ProcessOK, ProcessTypes
  <2> QED
      BY <1>2, <2>1, <2>2, PassKeeps DEF fileVars
<1>4. CASE file.version = observed[p]
  <2>1. /\ corrupt' = observed[p]
        /\ merged' = [merged EXCEPT ![p] = entries[p]]
        /\ pc' = [pc EXCEPT ![p] = "check"]
      BY <1>4 DEF Quarantine
  <2>2. merged'[p] = entries[p] /\ pc'[p] = "check"
      BY <1>1, <2>1 DEF PerProcess
  <2>3. file.map = Empty
      BY <1>1, <1>4 DEF ProcessOK, WriteOK, FileOK
  <2>4. Replaces(now, entries[p], file.map)
      BY <2>3, EmptyKept DEF Replaces
  <2>5. ProcessTypes(p)'
      BY <1>1, <1>2, <2>2 DEF ProcessOK, ProcessTypes, Stages
  <2>6. HeardOK(p)'
      BY <1>1, <1>2, <2>2 DEF ProcessOK, HeardOK
  <2>7. WriteOK(p)'
      BY <1>1, <1>2, <1>4, <2>1, <2>2, <2>4 DEF WriteOK, FileOK
  <2>8. \A q \in Processes \ {p} : ProcessRests(q)
      BY <1>1, <1>2, <2>1 DEF ProcessRests, PerProcess
  <2>9. PerProcess'
      BY <1>1, <1>2, <2>1 DEF PerProcess
  <2> QED
      BY <1>2, <1>4, <2>1, <2>5, <2>6, <2>7, <2>8, <2>9, StepKeeps DEF ProcessOK
<1> QED
    BY <1>3, <1>4

LEMMA CheckKeeps ==
    ASSUME RecoveryInv, NEW p \in Processes, Check(p) \/ Recheck(p)
    PROVE  RecoveryInv'
<1>1. ProcessOK(p) /\ PerProcess /\ FileOK
    BY DEF RecoveryInv
<1>2. CASE NextPass(p)
    BY <1>2, NextPassKeeps
<1>3. CASE ~NextPass(p)
  <2>1. /\ pc[p] \in {"check", "recheck"} /\ file.version = observed[p]
        /\ \/ pc' = [pc EXCEPT ![p] = "recheck"] /\ checked' = checked
           \/ /\ pc' = [pc EXCEPT ![p] = "rename"]
              /\ checked' = [checked EXCEPT ![p] = file.version]
        /\ now' = now /\ entries' = entries /\ up' = up /\ dirty' = dirty
        /\ touched' = touched /\ heard' = heard /\ attempt' = attempt
        /\ observed' = observed /\ merged' = merged
        /\ file' = file /\ corrupt' = corrupt /\ raced' = raced
      BY <1>3 DEF Check, Recheck, memVars, fileVars
  <2>2. /\ DOMAIN pc' = Processes /\ DOMAIN checked' = Processes
        /\ \A q \in Processes \ {p} : pc'[q] = pc[q] /\ checked'[q] = checked[q]
        /\ pc'[p] \in {"recheck", "rename"} /\ checked'[p] \in Nat
        /\ pc'[p] = "rename" => checked'[p] = observed[p]
      BY <1>1, <2>1 DEF PerProcess, ProcessOK, ProcessTypes, FileOK
  <2>3. ProcessTypes(p)'
      BY <1>1, <2>1, <2>2 DEF ProcessOK, ProcessTypes, Stages
  <2>4. HeardOK(p)'
      BY <1>1, <2>1, <2>2 DEF ProcessOK, HeardOK
  <2>5. WriteOK(p)'
      BY <1>1, <2>1, <2>2 DEF ProcessOK, WriteOK
  <2>6. \A q \in Processes \ {p} : ProcessRests(q)
      BY <2>1, <2>2 DEF ProcessRests
  <2>7. PerProcess'
      BY <1>1, <2>1, <2>2 DEF PerProcess
  <2> QED
      BY <2>1, <2>3, <2>4, <2>5, <2>6, <2>7, StepKeeps DEF ProcessOK
<1> QED
    BY <1>2, <1>3

\* What a rename does: unless it races, the new contents replace the old, and
\* what could not be read has been put aside in any case.
LEMMA RenameHolds ==
    ASSUME RecoveryInv, NEW p \in Processes, Rename(p)
    PROVE  /\ file'.version = file.version + 1 /\ file'.valid = TRUE /\ file'.map = merged[p]
           /\ raced' \in BOOLEAN /\ (~raced' => ~raced)
           /\ ~raced' => Replaces(now, merged[p], file.map)
           /\ ~file.valid => corrupt = file.version
<1>1. ProcessOK(p) /\ FileOK
    BY DEF RecoveryInv
<1>2. pc[p] = "rename" /\ checked[p] = observed[p]
    BY <1>1 DEF Rename, ProcessOK, WriteOK
<1>3. raced' = (raced \/ file.version # checked[p])
    BY DEF Rename
<1>4. file' = [version |-> file.version + 1, valid |-> TRUE, map |-> merged[p]]
    BY DEF Rename
<1>5. file.version = checked[p] => Replaces(now, merged[p], file.map)
    BY <1>1, <1>2 DEF ProcessOK, WriteOK
<1>6. ~file.valid => corrupt = file.version
    BY <1>1, <1>2 DEF ProcessOK, WriteOK
<1>7. raced' \in BOOLEAN
    BY <1>3
<1>8. ~raced' => ~raced /\ file.version = checked[p]
    BY <1>3
<1> QED
    BY <1>4, <1>5, <1>6, <1>7, <1>8

LEMMA RenameKeeps ==
    ASSUME RecoveryInv, NEW p \in Processes, Rename(p)
    PROVE  RecoveryInv'
<1>1. PerProcess /\ FileOK /\ now \in Nat /\ \A q \in Processes : ProcessOK(q)
    BY StoreAssumption DEF RecoveryInv
<1>2. /\ pc' = [pc EXCEPT ![p] = "finish"]
      /\ now' = now /\ entries' = entries /\ up' = up /\ dirty' = dirty
      /\ touched' = touched /\ heard' = heard /\ attempt' = attempt
      /\ observed' = observed /\ merged' = merged /\ checked' = checked
      /\ corrupt' = corrupt
    BY DEF Rename, memVars
<1>3. /\ file'.version = file.version + 1 /\ file'.valid = TRUE /\ file'.map = merged[p]
      /\ raced' \in BOOLEAN /\ (~raced' => ~raced)
      /\ ~raced' => Replaces(now, merged[p], file.map)
    BY RenameHolds
<1>4. Kept(merged[p]) /\ Kept(file.map)
    BY <1>1 DEF ProcessOK, ProcessTypes, FileOK
<1>5. FileOK'
  <2>1. Kept(file'.map)
      BY <1>3, <1>4
  <2>2. file'.version \in Nat /\ corrupt' \in Nat
      BY <1>1, <1>2, <1>3 DEF FileOK
  <2>3. file'.valid \in BOOLEAN /\ file'.valid
      BY <1>3
  <2> QED
      BY <1>3, <2>1, <2>2, <2>3 DEF FileOK
<1>6. PerProcess'
    BY <1>1, <1>2 DEF PerProcess
<1>7. ASSUME NEW q \in Processes
      PROVE  ProcessOK(q)'
  <2>1. ProcessTypes(q)'
      BY <1>1, <1>2 DEF ProcessOK, ProcessTypes, PerProcess, Stages
  <2>2. heard[q] \in [Symbols -> 0..MaxTime] /\ Kept(merged[q])
      BY <1>1 DEF ProcessOK, ProcessTypes
  <2>3. up[q] /\ ~dirty[q] /\ ~raced' => HasHeard(now, merged[p], heard[q])
      BY <1>1, <1>3, <1>4, <2>2, HeardThrough DEF ProcessOK, HeardOK
  <2>4. pc'[q] = "finish" /\ q # p => pc[q] = "finish"
      BY <1>1, <1>2 DEF PerProcess
  <2>5. pc'[q] \in {"check", "recheck", "rename"} => pc'[q] = pc[q]
      BY <1>1, <1>2 DEF PerProcess
  <2>6. pc'[q] \in {"check", "recheck", "rename", "finish"} =>
            pc[q] \in {"check", "recheck", "rename", "finish"}
    <3>1. pc[p] = "rename"
        BY DEF Rename
    <3> QED
        BY <1>1, <1>2, <3>1 DEF PerProcess
  <2>7. HeardOK(q)'
      BY <1>1, <1>2, <1>3, <2>3, <2>6 DEF ProcessOK, HeardOK
  <2>8. pc'[q] = "finish" /\ ~raced' => Replaces(now, merged[p], merged[q])
    <3>1. CASE q = p
      <4>1. \A s \in DOMAIN merged[p] : merged[p][s] >= merged[p][s]
          BY <1>4, StoreAssumption DEF Kept, Quotes
      <4> QED
          BY <3>1, <4>1 DEF Replaces, Has
    <3>2. CASE q # p
      <4>1. pc'[q] = "finish" /\ ~raced' => Replaces(now, file.map, merged[q])
          BY <1>1, <1>3, <2>4, <3>2 DEF ProcessOK, WriteOK
      <4>2. Quotes(merged[q])
          BY <2>2 DEF Kept
      <4> QED
          BY <1>1, <1>3, <1>4, <4>1, <4>2, ReplacedThrough
    <3> QED
        BY <3>1, <3>2
  <2>9. pc'[q] \in {"quarantine", "check", "recheck", "rename"} =>
            pc[q] = pc'[q] /\ observed[q] <= file.version /\ observed[q] # file.version + 1
      BY <1>1, <1>2 DEF ProcessOK, WriteOK, ProcessTypes, FileOK, PerProcess
  <2>10. file.version \in Nat /\ observed[q] \in Nat
      BY <1>1 DEF FileOK, ProcessOK, ProcessTypes
  <2>11. WriteOK(q)'
    <3>1. pc'[q] = "rename" => checked[q] = observed[q]
        BY <1>1, <2>5 DEF ProcessOK, WriteOK
    <3> QED
        BY <1>2, <1>3, <2>8, <2>9, <2>10, <3>1 DEF WriteOK
  <2> QED
      BY <2>1, <2>7, <2>11 DEF ProcessOK
<1> QED
    BY <1>1, <1>2, <1>5, <1>6, <1>7 DEF RecoveryInv

LEMMA FinishKeeps ==
    ASSUME RecoveryInv, NEW p \in Processes, Finish(p)
    PROVE  RecoveryInv'
<1>1. ProcessOK(p) /\ PerProcess /\ FileOK /\ now \in Nat /\ pc[p] = "finish"
    BY StoreAssumption DEF RecoveryInv, Finish
<1>2. /\ now' = now /\ up' = up /\ heard' = heard /\ observed' = observed
      /\ merged' = merged /\ checked' = checked
      /\ file' = file /\ corrupt' = corrupt /\ raced' = raced
    BY DEF Finish, fileVars
<1>3. Kept(merged[p]) /\ Kept(entries[p]) /\ heard[p] \in [Symbols -> 0..MaxTime]
    BY <1>1 DEF ProcessOK, ProcessTypes
<1>4. CASE touched[p]
  <2>1. PICK m \in Bounded(Merge(merged[p], entries[p])) :
            entries' = [entries EXCEPT ![p] = m]
      BY <1>4 DEF Finish
  <2>2. Pass(p, attempt[p] + 1) /\ dirty' = dirty
      BY <1>4 DEF Finish
  <2>3. /\ DOMAIN pc' = Processes /\ DOMAIN touched' = Processes
        /\ DOMAIN attempt' = Processes
        /\ \A q \in Processes \ {p} :
              pc'[q] = pc[q] /\ touched'[q] = touched[q] /\ attempt'[q] = attempt[q]
        /\ pc'[p] \in {"read", "idle"} /\ touched'[p] \in BOOLEAN
        /\ attempt'[p] \in 0..(Attempts - 1)
    <3>1. attempt[p] + 1 \in Nat
        BY <1>1, StoreAssumption DEF ProcessOK, ProcessTypes
    <3> QED
        BY <2>2, <3>1, PassHolds
  <2>4. Kept(m) /\ Replaces(now, m, entries[p])
    <3>1. Quotes(merged[p]) /\ Quotes(entries[p])
        BY <1>3 DEF Kept
    <3> QED
        BY <1>1, <3>1, MergedHolds
  <2>5. entries'[p] = m
      BY <1>1, <2>1 DEF PerProcess
  <2>6. HasHeard(now, m, heard[p])
      BY <1>1, <1>3, <2>4, HeardThrough DEF ProcessOK, HeardOK
  <2>7. ProcessTypes(p)'
      BY <1>1, <1>2, <2>2, <2>3, <2>4, <2>5 DEF ProcessOK, ProcessTypes, Stages
  <2>8. HeardOK(p)'
      BY <1>1, <1>2, <2>2, <2>3, <2>5, <2>6 DEF ProcessOK, HeardOK
  <2>9. WriteOK(p)'
      BY <2>3 DEF WriteOK
  <2>10. \A q \in Processes \ {p} : ProcessRests(q)
      BY <1>1, <1>2, <2>1, <2>2, <2>3 DEF ProcessRests, PerProcess
  <2>11. PerProcess'
      BY <1>1, <1>2, <2>1, <2>2, <2>3 DEF PerProcess
  <2> QED
      BY <1>2, <2>7, <2>8, <2>9, <2>10, <2>11, StepKeeps DEF ProcessOK
<1>5. CASE ~touched[p]
  <2>1. /\ entries' = [entries EXCEPT ![p] = merged[p]]
        /\ dirty' = [dirty EXCEPT ![p] = FALSE]
        /\ pc' = [pc EXCEPT ![p] = "idle"]
        /\ attempt' = attempt /\ touched' = touched
      BY <1>5 DEF Finish
  <2>2. entries'[p] = merged[p] /\ dirty'[p] = FALSE /\ pc'[p] = "idle"
      BY <1>1, <2>1 DEF PerProcess
  <2>3. HasHeard(now, merged[p], heard[p])
      BY <1>1, <1>5 DEF ProcessOK, HeardOK
  <2>4. ~raced => HasHeard(now, file.map, heard[p])
    <3>1. ~raced => Replaces(now, file.map, merged[p])
        BY <1>1 DEF ProcessOK, WriteOK
    <3>2. Kept(file.map)
        BY <1>1 DEF FileOK
    <3> QED
        BY <1>1, <1>3, <2>3, <3>1, <3>2, HeardThrough
  <2>5. ProcessTypes(p)'
      BY <1>1, <1>2, <2>1, <2>2 DEF ProcessOK, ProcessTypes, Stages
  <2>6. HeardOK(p)'
      BY <1>1, <1>2, <2>2, <2>3, <2>4 DEF ProcessOK, HeardOK
  <2>7. WriteOK(p)'
      BY <2>2 DEF WriteOK
  <2>8. \A q \in Processes \ {p} : ProcessRests(q)
      BY <1>1, <1>2, <2>1 DEF ProcessRests, PerProcess
  <2>9. PerProcess'
      BY <1>1, <1>2, <2>1 DEF PerProcess
  <2> QED
      BY <1>2, <2>5, <2>6, <2>7, <2>8, <2>9, StepKeeps DEF ProcessOK
<1> QED
    BY <1>1, <1>4, <1>5 DEF ProcessOK, ProcessTypes

\* Time only makes more quotes expire.
LEMMA TickKeeps ==
    ASSUME RecoveryInv, Tick
    PROVE  RecoveryInv'
<1>1. /\ now \in Nat /\ now' = now + 1 /\ now' \in 1..MaxTime
      /\ entries' = entries /\ up' = up /\ dirty' = dirty /\ touched' = touched
      /\ heard' = heard /\ pc' = pc /\ attempt' = attempt /\ observed' = observed
      /\ merged' = merged /\ checked' = checked
      /\ file' = file /\ corrupt' = corrupt /\ raced' = raced
    BY StoreAssumption DEF RecoveryInv, Tick, memVars, flushVars, fileVars
<1>2. \A m, s, t : Has(now, m, s, t) /\ t \in Nat => Has(now', m, s, t)
    BY <1>1, StoreAssumption DEF Has
<1>3. ASSUME NEW m, NEW old, Quotes(old), Replaces(now, m, old)
      PROVE  Replaces(now', m, old)
    BY <1>2, <1>3, StoreAssumption DEF Replaces, Quotes
<1>4. ASSUME NEW m, NEW h \in [Symbols -> 0..MaxTime], HasHeard(now, m, h)
      PROVE  HasHeard(now', m, h)
  <2>1. \A s \in Symbols : h[s] \in Nat
      BY StoreAssumption
  <2> QED
      BY <1>2, <1>4, <2>1 DEF HasHeard
<1>5. FileOK' /\ PerProcess'
    BY <1>1 DEF RecoveryInv, FileOK, PerProcess
<1>6. ASSUME NEW q \in Processes
      PROVE  ProcessOK(q)'
  <2>1. ProcessOK(q) /\ FileOK
      BY DEF RecoveryInv
  <2>2. /\ heard[q] \in [Symbols -> 0..MaxTime] /\ Quotes(merged[q]) /\ Quotes(file.map)
      BY <2>1 DEF ProcessOK, ProcessTypes, FileOK, Kept
  <2>3. ProcessTypes(q)'
      BY <1>1, <2>1 DEF ProcessOK, ProcessTypes
  <2>4. HeardOK(q)'
      BY <1>1, <1>4, <2>1, <2>2 DEF ProcessOK, HeardOK
  <2>5. WriteOK(q)'
      BY <1>1, <1>3, <2>1, <2>2 DEF ProcessOK, WriteOK
  <2> QED
      BY <2>3, <2>4, <2>5 DEF ProcessOK
<1> QED
    BY <1>1, <1>5, <1>6 DEF RecoveryInv

LEMMA RecoveryStep == RecoveryInv /\ [Next]_vars => RecoveryInv'
<1> SUFFICES ASSUME RecoveryInv, [Next]_vars PROVE RecoveryInv'
    OBVIOUS
<1>1. CASE Tick
    BY <1>1, TickKeeps
<1>2. ASSUME NEW p \in Processes,
             \/ Load(p) \/ Crash(p)
             \/ \E s \in Symbols : GetExpired(p, s)
             \/ \E s \in Symbols, t \in 1..MaxTime : Remember(p, s, t)
             \/ Flush(p) \/ Read(p) \/ Quarantine(p) \/ Check(p) \/ Recheck(p)
             \/ Rename(p) \/ Finish(p) \/ FlushFails(p)
      PROVE  RecoveryInv'
    BY <1>2, LoadKeeps, CrashKeeps, GetExpiredKeeps, RememberKeeps, FlushKeeps,
       ReadKeeps, QuarantineKeeps, CheckKeeps, RenameKeeps, FinishKeeps, FlushFailsKeeps
<1>3. CASE UNCHANGED vars
  <2>1. /\ now' = now /\ entries' = entries /\ up' = up /\ dirty' = dirty
        /\ touched' = touched /\ heard' = heard /\ pc' = pc /\ attempt' = attempt
        /\ observed' = observed /\ merged' = merged /\ checked' = checked
        /\ file' = file /\ corrupt' = corrupt /\ raced' = raced
      BY <1>3 DEF vars, memVars, flushVars, fileVars
  <2>2. ASSUME NEW q \in Processes
        PROVE  ProcessOK(q)'
    <3>1. ProcessOK(q) /\ ProcessRests(q)
        BY <2>1 DEF RecoveryInv, ProcessRests
    <3> QED
        BY <2>1, <3>1, RestKeeps
  <2>3. FileOK' /\ PerProcess'
      BY <2>1 DEF RecoveryInv, FileOK, PerProcess
  <2> QED
      BY <2>1, <2>2, <2>3 DEF RecoveryInv
<1> QED
    BY <1>1, <1>2, <1>3 DEF Next

LEMMA RecoveryInvariant == Spec => []RecoveryInv
BY RecoveryInvInit, RecoveryStep, PTL DEF Spec

-----------------------------------------------------------------------------
\* StoreInv: a recovery store that thinks it has nothing to save has lost
\* nothing it accepted, whatever the other processes write and whoever dies.
THEOREM NothingAcceptedIsLost == Spec => []StoreInv
<1>1. RecoveryInv => StoreInv
  <2> SUFFICES ASSUME RecoveryInv PROVE StoreInv
      OBVIOUS
  <2>1. FileOK /\ now \in 1..MaxTime /\ \A p \in Processes : ProcessOK(p)
      BY DEF RecoveryInv
  <2>2. \A m : Kept(m) => IsMap(m)
      BY DEF Kept, Quotes, IsMap
  <2>3. StoreTypeOK
      BY <2>1, <2>2 DEF StoreTypeOK, FileOK, ProcessOK, ProcessTypes
  <2>4. CleanMeansSaved
      BY <2>1 DEF CleanMeansSaved, ProcessOK, HeardOK, HasHeard, Has, Covers, Valid
  <2> QED
      BY <2>3, <2>4 DEF StoreInv
<1> QED
    BY <1>1, RecoveryInvariant, PTL

\* NothingOnDiskIsLost: a rename replaces the file by one that covers it, and
\* contents that could not be read are in the quarantine slot by then.
THEOREM DiskIsKept == Spec => NothingOnDiskIsLost
<1>1. RecoveryInv /\ [Next]_vars => [FileNeverGoesBack /\ CorruptIsKept]_vars
  <2> SUFFICES ASSUME RecoveryInv, Next
               PROVE  FileNeverGoesBack /\ CorruptIsKept
      OBVIOUS
  <2>1. FileOK
      BY DEF RecoveryInv
  <2>2. CASE \E p \in Processes : Rename(p)
    <3>1. PICK p \in Processes : Rename(p)
        BY <2>2
    <3>2. /\ file'.map = merged[p]
          /\ ~raced' => Replaces(now, merged[p], file.map)
          /\ ~file.valid => corrupt = file.version
        BY <3>1, RenameHolds
    <3>3. FileNeverGoesBack
        BY <3>2 DEF FileNeverGoesBack, Replaces, Has, Covers, Valid
    <3>4. CorruptIsKept
        BY <2>1, <3>2 DEF CorruptIsKept
    <3> QED
        BY <3>3, <3>4
  <2>3. CASE ~\E p \in Processes : Rename(p)
    <3>1. file' = file
        BY <2>3 DEF Next, Tick, Load, Crash, GetExpired, Remember, Flush, Read, Quarantine,
                    Check, Recheck, NextPass, Finish, FlushFails, fileVars
    <3>2. \A s \in DOMAIN file.map : file.map[s] >= file.map[s]
        BY <2>1, StoreAssumption DEF FileOK, Kept, Quotes
    <3>3. FileNeverGoesBack
        BY <3>1, <3>2 DEF FileNeverGoesBack, Covers
    <3>4. CorruptIsKept
        BY <3>1 DEF CorruptIsKept
    <3> QED
        BY <3>3, <3>4
  <2> QED
      BY <2>2, <2>3
<1> QED
    BY <1>1, RecoveryInvariant, PTL DEF Spec, NothingOnDiskIsLost

-----------------------------------------------------------------------------
(***************************************************************************)
(* SampleStore                                                             *)
(***************************************************************************)

Job == [file : File, revision : Nat, orphan : Nat]
Hand == [file : File, revision : Nat, body : Nat]

FlushTypes(fl) ==
    /\ fl = [stage |-> fl.stage, todo |-> fl.todo, hand |-> fl.hand]
    /\ fl.stage \in {"idle", "unlink", "write"}
    /\ fl.stage = "unlink" => fl.todo \subseteq File
    /\ fl.stage = "write" => fl.todo \subseteq Job
    /\ fl.hand # NoFile => fl.hand \in Hand /\ fl.stage = "write"

SampleTypes ==
    /\ days \in [File -> Nat] /\ disk \in [File -> Nat] /\ points \in Nat
    /\ dirtyDays \subseteq File /\ deleted \subseteq File
    /\ phase \in {"running", "first", "again", "stopped"}
    /\ FlushTypes(flush)

\* What is to be removed is not in memory; what is to be written is; and every
\* number has been a point's.
Marks ==
    /\ \A f \in deleted : days[f] = 0
    /\ \A f \in dirtyDays : days[f] # 0
    /\ \A f \in File : days[f] <= points /\ disk[f] <= points

\* A job of the flush: made of a point, kept once its day was evicted, of a file
\* that is still to write or to remove.
JobOK(job, ds, work, last) ==
    /\ job.revision \in 1..last /\ job.orphan <= last
    /\ job.orphan # 0 => ds[job.file] # job.revision
    /\ job.file \in work

\* What is being written is the day the job was made of, unless it changed since.
HandOK(hand, ds, work, last) ==
    /\ hand.revision \in 1..last /\ hand.body \in 1..last
    /\ ds[hand.file] = hand.revision => hand.body = hand.revision
    /\ hand.file \in work

FlushOK(fl, ds, work, last) ==
    /\ fl.stage = "unlink" => fl.todo \subseteq work
    /\ fl.stage = "write" =>
          /\ \A job \in fl.todo : JobOK(job, ds, work, last)
          /\ \A job, other \in fl.todo : job.file = other.file => job = other
    /\ fl.hand # NoFile => /\ HandOK(fl.hand, ds, work, last)
                           /\ \A job \in fl.todo : job.file # fl.hand.file

FlushInv == FlushOK(flush, days, dirtyDays \cup deleted, points)

\* The flush is still to do all there is: nothing changes any more.
LastOK(fl, ds, changed, gone) ==
    /\ fl.stage = "unlink" => gone \subseteq fl.todo
    /\ fl.stage = "write" =>
          /\ gone = {}
          /\ \A job \in fl.todo : job.revision = ds[job.file] /\ job.orphan = 0
          /\ fl.hand # NoFile => fl.hand.revision = ds[fl.hand.file]
          /\ \A f \in changed : \/ \E job \in fl.todo : job.file = f
                                \/ fl.hand # NoFile /\ fl.hand.file = f

LastFlush == phase = "again" /\ ~failing => LastOK(flush, days, dirtyDays, deleted)

Stopping ==
    /\ phase \in {"first", "again"} => flush.stage # "idle"
    /\ phase = "stopped" => flush.stage = "idle"

SampleInv == /\ SampleTypes /\ Marks /\ FlushInv /\ LastFlush /\ Stopping
             /\ CleanDaysAreOnDisk /\ StopSavesEverything
-----------------------------------------------------------------------------
LEMMA IdleOK ==
    ASSUME NEW ds, NEW work, NEW last
    PROVE  FlushTypes(NoFlush) /\ FlushOK(NoFlush, ds, work, last) /\ NoFlush.stage = "idle"
BY DEF FlushTypes, FlushOK, NoFlush

LEMMA SampleInvInit == SampleInit => SampleInv
<1> SUFFICES ASSUME SampleInit PROVE SampleInv
  OBVIOUS
<1>1. /\ days = [f \in File |-> 0] /\ disk = [f \in File |-> 0] /\ points = 0
      /\ dirtyDays = {} /\ deleted = {} /\ phase = "running" /\ flush = NoFlush
  BY DEF SampleInit
<1>2. SampleTypes /\ Marks /\ FlushInv
  BY <1>1, IdleOK DEF SampleTypes, Marks, FlushInv
<1>3. LastFlush /\ Stopping /\ CleanDaysAreOnDisk /\ StopSavesEverything
  BY <1>1 DEF LastFlush, Stopping, CleanDaysAreOnDisk, StopSavesEverything
<1> QED
  BY <1>2, <1>3 DEF SampleInv

\* A flush that begins with the files to remove.
LEMMA BegunOK ==
    ASSUME NEW remove \in SUBSET File, NEW ds, NEW work, remove \subseteq work, NEW last,
           NEW fl, fl = [stage |-> "unlink", todo |-> remove, hand |-> NoFile]
    PROVE  FlushTypes(fl) /\ FlushOK(fl, ds, work, last) /\ fl.stage = "unlink" /\ fl.todo = remove
BY DEF FlushTypes, FlushOK

\* Days that leave memory (prune, eviction) or get a new point while a flush may be
\* under way: its jobs keep what they need.
LEMMA FlushKept ==
    ASSUME NEW fl, FlushTypes(fl), NEW last \in Nat, NEW later \in Nat, last <= later,
           NEW ds \in [File -> Nat], NEW changed \in [File -> Nat], NEW work, NEW more,
           work \subseteq more, \A f \in File : changed[f] \in {ds[f], 0, last + 1},
           FlushOK(fl, ds, work, last)
    PROVE  FlushOK(fl, changed, more, later)
<1>1. fl.stage = "unlink" => fl.todo \subseteq more
  BY DEF FlushOK
<1>2. ASSUME fl.stage = "write", NEW job \in fl.todo PROVE JobOK(job, changed, more, later)
  <2>1. job \in Job /\ JobOK(job, ds, work, last) /\ job.file \in File
    BY <1>2 DEF FlushTypes, FlushOK, Job
  <2>2. changed[job.file] \in {ds[job.file], 0, last + 1}
    BY <2>1
  <2> QED
    BY <2>1, <2>2 DEF JobOK, Job
<1>3. fl.stage = "write" => \A job, other \in fl.todo : job.file = other.file => job = other
  BY DEF FlushOK
<1>4. ASSUME fl.hand # NoFile PROVE HandOK(fl.hand, changed, more, later)
  <2>1. fl.hand \in Hand /\ HandOK(fl.hand, ds, work, last) /\ fl.hand.file \in File
    BY <1>4 DEF FlushTypes, FlushOK, Hand
  <2>2. changed[fl.hand.file] \in {ds[fl.hand.file], 0, last + 1}
    BY <2>1
  <2> QED
    BY <2>1, <2>2 DEF HandOK, Hand
<1>5. fl.hand # NoFile => \A job \in fl.todo : job.file # fl.hand.file
  BY DEF FlushOK
<1> QED
  BY <1>1, <1>2, <1>3, <1>4, <1>5 DEF FlushOK

\* The same when some jobs take their evicted day along.
Orphaning(job, gone, ds) ==
    IF job.file[1] \in gone /\ job.orphan = 0 THEN [job EXCEPT !.orphan = ds[job.file]] ELSE job

LEMMA OrphansKept ==
    ASSUME FlushTypes(flush), FlushInv, flush.stage = "write",
           points \in Nat, points' \in Nat, points <= points',
           days \in [File -> Nat], days' \in [File -> Nat],
           dirtyDays \cup deleted \subseteq dirtyDays' \cup deleted',
           \A f \in File : days'[f] \in {days[f], 0, points + 1},
           \A f \in File : days[f] <= points, NEW gone,
           \A f \in File : f[1] \in gone /\ days[f] # 0 => days'[f] \in {0, points + 1},
           flush' = [flush EXCEPT !.todo = {Orphaning(job, gone, days) : job \in flush.todo}]
    PROVE  FlushTypes(flush') /\ FlushInv'
<1>0. FlushOK(flush, days, dirtyDays \cup deleted, points)
  BY DEF FlushInv
<1>1. /\ flush'.stage = "write" /\ flush'.hand = flush.hand
      /\ flush'.todo = {Orphaning(job, gone, days) : job \in flush.todo}
      /\ flush' = [stage |-> flush'.stage, todo |-> flush'.todo, hand |-> flush'.hand]
  BY DEF FlushTypes
<1>2. FlushOK(flush, days', dirtyDays' \cup deleted', points')
  BY <1>0, FlushKept
<1>3. flush.todo \subseteq Job
  BY DEF FlushTypes
<1>4. ASSUME NEW job \in Job
      PROVE  /\ Orphaning(job, gone, days) \in Job /\ Orphaning(job, gone, days).file = job.file
             /\ Orphaning(job, gone, days).revision = job.revision
             /\ \/ Orphaning(job, gone, days).orphan = job.orphan
                \/ job.file[1] \in gone /\ Orphaning(job, gone, days).orphan = days[job.file]
  <2>1. job.file \in File /\ days[job.file] \in Nat
    BY DEF Job
  <2>2. CASE job.file[1] \in gone /\ job.orphan = 0
    <3>1. Orphaning(job, gone, days) = [job EXCEPT !.orphan = days[job.file]]
      BY <2>2 DEF Orphaning
    <3> QED
      BY <2>1, <2>2, <3>1 DEF Job
  <2>3. CASE ~(job.file[1] \in gone /\ job.orphan = 0)
    BY <2>3 DEF Orphaning
  <2> QED
    BY <2>2, <2>3
<1>5. ASSUME NEW job \in flush.todo
      PROVE  JobOK(Orphaning(job, gone, days), days', dirtyDays' \cup deleted', points')
  <2>1. job \in Job /\ JobOK(job, days', dirtyDays' \cup deleted', points') /\ job.file \in File
    BY <1>2, <1>3 DEF FlushOK, Job
  <2>2. /\ JobOK(job, days, dirtyDays \cup deleted, points)
        /\ days[job.file] <= points /\ days[job.file] \in Nat
    BY <1>0, <2>1 DEF FlushOK
  <2>3. CASE Orphaning(job, gone, days).orphan = job.orphan
    BY <1>4, <2>1, <2>3 DEF JobOK
  <2>4. CASE job.file[1] \in gone /\ Orphaning(job, gone, days).orphan = days[job.file]
    <3>1. days[job.file] # 0 => days'[job.file] \in {0, points + 1}
      BY <2>1, <2>4
    <3>2. days[job.file] # 0 => days'[job.file] # job.revision
      BY <2>1, <2>2, <3>1 DEF JobOK, Job
    <3> QED
      BY <1>4, <2>1, <2>2, <2>4, <3>2 DEF JobOK
  <2> QED
    BY <1>4, <2>1, <2>3, <2>4
<1>6. \A job, other \in flush.todo : job.file = other.file => job = other
  BY <1>0 DEF FlushOK
<1>7. FlushTypes(flush')
  BY <1>1, <1>3, <1>4 DEF FlushTypes
<1>8. flush'.hand # NoFile => /\ HandOK(flush'.hand, days', dirtyDays' \cup deleted', points')
                           /\ \A job \in flush'.todo : job.file # flush'.hand.file
  BY <1>1, <1>2, <1>3, <1>4 DEF FlushOK
<1>9. /\ \A job \in flush'.todo : JobOK(job, days', dirtyDays' \cup deleted', points')
      /\ \A job, other \in flush'.todo : job.file = other.file => job = other
  BY <1>1, <1>3, <1>4, <1>5, <1>6
<1> QED
  BY <1>1, <1>7, <1>8, <1>9 DEF FlushOK, FlushInv

-----------------------------------------------------------------------------
\* accept(), with whatever symbols reclaimRetired() gives up.
LEMMA AcceptKeeps ==
    ASSUME SampleInv, NEW s \in SsSymbols, NEW d \in 1..LastDay, Accept(s, d)
    PROVE  SampleInv'
<1> DEFINE f == <<s, d>>
           gone == IF days[f] # 0 \/ Room({}) THEN {} ELSE Reclaimed
           fits == days[f] # 0 \/ Room(gone)
           lost == {g \in File : g[1] \in gone /\ days[g] # 0}
<1>a. /\ days' = [g \in File |-> IF g = f /\ fits THEN points + 1
                                 ELSE IF g \in lost THEN 0 ELSE days[g]]
      /\ dirtyDays' = (dirtyDays \ lost) \cup (IF fits THEN {f} ELSE {})
      /\ deleted' = IF fits THEN (deleted \cup lost) \ {f} ELSE deleted \cup lost
      /\ flush' = IF flush.stage = "write"
                  THEN [flush EXCEPT !.todo = {Orphaning(job, gone, days) : job \in flush.todo}]
                  ELSE flush
      /\ refused' = IF fits THEN refused \ {f} ELSE refused
      /\ points' = points + 1 /\ UNCHANGED <<disk, phase, failing>>
      /\ phase = "running"
  BY DEF Accept, Undeleted, Orphaned, Orphaning
<1>t. /\ SampleTypes /\ Marks /\ FlushInv /\ CleanDaysAreOnDisk
      /\ f \in File /\ lost \subseteq File /\ points \in Nat /\ points' \in Nat /\ points <= points'
      /\ \A g \in File : g[1] \in gone /\ days[g] # 0 => g \in lost
  BY <1>a DEF SampleInv, SampleTypes, File
<1> HIDE DEF fits, lost, gone, f
<1>d. ASSUME NEW g \in File
      PROVE  /\ g = f /\ fits => days'[g] = points + 1
             /\ ~(g = f /\ fits) /\ g \in lost => days'[g] = 0
             /\ ~(g = f /\ fits) /\ g \notin lost => days'[g] = days[g]
  BY <1>a
<1>m. dirtyDays \cup deleted \subseteq dirtyDays' \cup deleted'
  BY <1>a, <1>t
<1>1. days' \in [File -> Nat] /\ dirtyDays' \subseteq File /\ deleted' \subseteq File
  BY <1>a, <1>t DEF SampleTypes
<1>2. FlushTypes(flush') /\ FlushInv'
  <2>1. /\ \A g \in File : days'[g] \in {days[g], 0, points + 1}
        /\ \A g \in File : g[1] \in gone /\ days[g] # 0 => days'[g] \in {0, points + 1}
    BY <1>d, <1>t
  <2>2. /\ FlushOK(flush, days, dirtyDays \cup deleted, points) /\ FlushTypes(flush)
        /\ days \in [File -> Nat] /\ \A g \in File : days[g] <= points
    BY <1>t DEF FlushInv, SampleTypes, Marks
  <2>3. CASE flush.stage # "write"
    <3>1. FlushOK(flush, days', dirtyDays' \cup deleted', points')
      BY <1>1, <1>m, <1>t, <2>1, <2>2, FlushKept
    <3> QED
      BY <1>a, <2>2, <2>3, <3>1 DEF FlushInv
  <2>4. CASE flush.stage = "write"
    <3>1. flush' = [flush EXCEPT !.todo = {Orphaning(job, gone, days) : job \in flush.todo}]
      BY <1>a, <2>4
    <3>2. FlushInv
      BY <1>t
    <3> QED
      BY <1>1, <1>m, <1>t, <2>1, <2>2, <2>4, <3>1, <3>2, OrphansKept
  <2> QED
    BY <2>3, <2>4
<1>3. SampleTypes'
  BY <1>1, <1>2, <1>a, <1>t DEF SampleTypes
<1>4. Marks'
  <2>1. \A g \in deleted' : days'[g] = 0
    BY <1>a, <1>d, <1>t DEF Marks, SampleTypes
  <2>2. \A g \in dirtyDays' : days'[g] # 0
    BY <1>a, <1>d, <1>t DEF Marks, SampleTypes
  <2>3. \A g \in File : days'[g] <= points' /\ disk'[g] <= points'
    BY <1>a, <1>d, <1>t DEF Marks, SampleTypes
  <2> QED
    BY <2>1, <2>2, <2>3 DEF Marks
<1>5. CleanDaysAreOnDisk'
  <2> SUFFICES ASSUME NEW g \in File, g \notin dirtyDays', g \notin deleted', g \notin refused'
               PROVE  disk'[g] = days'[g]
    BY DEF CleanDaysAreOnDisk
  <2>1. g \notin lost /\ ~(g = f /\ fits)
    BY <1>a
  <2>2. g \notin dirtyDays /\ g \notin deleted /\ g \notin refused
    BY <1>a, <2>1
  <2> QED
    BY <1>a, <1>d, <1>t, <2>1, <2>2 DEF CleanDaysAreOnDisk
<1>6. LastFlush' /\ Stopping' /\ StopSavesEverything'
  BY <1>a DEF LastFlush, Stopping, StopSavesEverything
<1> QED
  BY <1>2, <1>3, <1>4, <1>5, <1>6 DEF SampleInv

\* runDue(): what is over leaves memory, and a flush begins if none runs.
LEMMA MinuteKeeps == ASSUME SampleInv, Minute PROVE SampleInv'
<1> DEFINE old == {f \in File : days[f] # 0 /\ f[2] \notin Window}
<1>a. /\ days' = [f \in File |-> IF f \in old THEN 0 ELSE days[f]]
      /\ dirtyDays' = dirtyDays \ old /\ deleted' = deleted \cup old
      /\ flush' = Begun(deleted \cup old)
      /\ UNCHANGED <<disk, phase, points, refused, failing>> /\ phase = "running"
  BY DEF Minute
<1>t. SampleTypes /\ Marks /\ FlushInv /\ CleanDaysAreOnDisk /\ old \subseteq File
  BY DEF SampleInv
<1> HIDE DEF old
<1>d. \A f \in File : days'[f] = IF f \in old THEN 0 ELSE days[f]
  BY <1>a
<1>1. /\ days \in [File -> Nat] /\ days' \in [File -> Nat] /\ points \in Nat
      /\ dirtyDays' \subseteq File /\ deleted' \in SUBSET File
      /\ dirtyDays \cup deleted \subseteq dirtyDays' \cup deleted'
  BY <1>a, <1>t DEF SampleTypes
<1>2. FlushTypes(flush') /\ FlushInv'
  <2>1. CASE flush.stage = "idle"
    <3>1. flush' = [stage |-> "unlink", todo |-> deleted', hand |-> NoFile]
      BY <1>a, <2>1 DEF Begun
    <3>2. FlushTypes(flush') /\ FlushOK(flush', days', dirtyDays' \cup deleted', points')
      BY <1>1, <3>1, BegunOK
    <3> QED
      BY <3>2 DEF FlushInv
  <2>2. CASE flush.stage # "idle"
    <3>1. flush' = flush /\ points' = points
      BY <1>a, <2>2 DEF Begun
    <3>2. FlushTypes(flush) /\ FlushOK(flush, days, dirtyDays \cup deleted, points)
      BY <1>t DEF SampleTypes, FlushInv
    <3>3. \A f \in File : days'[f] \in {days[f], 0, points + 1}
      BY <1>d
    <3>4. FlushOK(flush, days', dirtyDays' \cup deleted', points)
      BY <1>1, <3>2, <3>3, FlushKept
    <3> QED
      BY <3>1, <3>2, <3>4 DEF FlushInv
  <2> QED
    BY <2>1, <2>2
<1>3. SampleTypes'
  BY <1>1, <1>2, <1>a, <1>t DEF SampleTypes
<1>4. Marks'
  BY <1>a, <1>d, <1>t DEF Marks, SampleTypes
<1>5. CleanDaysAreOnDisk'
  BY <1>a, <1>d, <1>t DEF CleanDaysAreOnDisk
<1>6. LastFlush' /\ Stopping' /\ StopSavesEverything'
  BY <1>a DEF LastFlush, Stopping, StopSavesEverything
<1> QED
  BY <1>2, <1>3, <1>4, <1>5, <1>6 DEF SampleInv

\* A file goes, or stays although it should have gone.
LEMMA UnlinkKeeps ==
    ASSUME SampleInv, NEW f \in File, NEW ok \in BOOLEAN, Unlink(f, ok) PROVE SampleInv'
<1>a. /\ flush.stage = "unlink" /\ f \in flush.todo
      /\ flush' = [flush EXCEPT !.todo = flush.todo \ {f}]
      /\ UNCHANGED <<days, dirtyDays, phase, points, refused>>
      /\ ok => disk' = [disk EXCEPT ![f] = 0] /\ deleted' = deleted \ {f}
      /\ ~ok => UNCHANGED <<disk, deleted>>
  BY DEF Unlink
<1>f. ~failing' /\ phase # "running" => ok /\ ~failing
  BY DEF Unlink
<1>t. SampleTypes /\ Marks /\ FlushInv /\ LastFlush /\ CleanDaysAreOnDisk /\ Stopping
  BY DEF SampleInv
<1>1. /\ flush' = [stage |-> flush'.stage, todo |-> flush'.todo, hand |-> flush'.hand]
      /\ flush'.stage = "unlink" /\ flush'.todo = flush.todo \ {f} /\ flush'.hand = NoFile
      /\ flush.todo \subseteq File /\ flush.todo \subseteq dirtyDays \cup deleted
  BY <1>a, <1>t DEF SampleTypes, FlushTypes, FlushInv, FlushOK
<1>2. FlushTypes(flush')
  BY <1>1 DEF FlushTypes
<1>3. flush'.todo \subseteq dirtyDays' \cup deleted'
  BY <1>1, <1>a
<1>4. FlushInv'
  BY <1>1, <1>3 DEF FlushInv, FlushOK
<1>5. /\ disk' \in [File -> Nat] /\ deleted' \subseteq deleted
      /\ \A g \in File : disk'[g] = disk[g] \/ (g = f /\ disk'[g] = 0 /\ f \notin deleted')
      /\ \A g \in deleted : g \notin deleted' => g = f /\ disk'[g] = 0
  BY <1>a, <1>t DEF SampleTypes
<1>6. SampleTypes'
  BY <1>2, <1>5, <1>a, <1>t DEF SampleTypes
<1>7. Marks'
  BY <1>5, <1>a, <1>t DEF Marks, SampleTypes
<1>8. CleanDaysAreOnDisk'
  <2> SUFFICES ASSUME NEW g \in File, g \notin dirtyDays', g \notin deleted', g \notin refused'
               PROVE  disk'[g] = days'[g]
    BY DEF CleanDaysAreOnDisk
  <2>1. CASE g \in deleted
    BY <1>5, <1>a, <1>t, <2>1 DEF Marks
  <2>2. CASE g \notin deleted
    <3>1. g # f
      BY <1>1, <1>a, <2>2
    <3> QED
      BY <1>5, <1>a, <1>t, <2>2, <3>1 DEF CleanDaysAreOnDisk
  <2> QED
    BY <2>1, <2>2
<1>9. LastFlush'
  <2> SUFFICES ASSUME phase' = "again", ~failing' PROVE deleted' \subseteq flush'.todo
    BY <1>1 DEF LastFlush, LastOK
  <2>1. ok /\ ~failing /\ phase = "again"
    BY <1>a, <1>f
  <2>2. deleted \subseteq flush.todo
    BY <1>a, <1>t, <2>1 DEF LastFlush, LastOK
  <2> QED
    BY <1>1, <1>a, <2>1, <2>2
<1>10. Stopping' /\ StopSavesEverything'
  BY <1>1, <1>a, <1>t DEF Stopping, StopSavesEverything
<1> QED
  BY <1>4, <1>6, <1>7, <1>8, <1>9, <1>10 DEF SampleInv

\* The jobs are made of the days that changed.
LEMMA ToWriteKeeps == ASSUME SampleInv, ToWrite PROVE SampleInv'
<1> DEFINE made(f) == [file |-> f, revision |-> days[f], orphan |-> 0]
<1>a. /\ flush.stage = "unlink" /\ flush.todo = {}
      /\ flush' = [stage |-> "write", hand |-> NoFile, todo |-> {made(f) : f \in dirtyDays}]
      /\ UNCHANGED <<days, dirtyDays, deleted, disk, phase, points, refused, failing>>
  BY DEF ToWrite
<1>t. /\ SampleTypes /\ Marks /\ FlushInv /\ LastFlush /\ CleanDaysAreOnDisk /\ Stopping
      /\ StopSavesEverything
  BY DEF SampleInv
<1>1. /\ flush'.stage = "write" /\ flush'.hand = NoFile
      /\ flush'.todo = {made(f) : f \in dirtyDays}
      /\ flush' = [stage |-> flush'.stage, todo |-> flush'.todo, hand |-> flush'.hand]
  BY <1>a
<1>2. \A f \in dirtyDays : /\ made(f) \in Job /\ made(f).file = f /\ made(f).revision = days[f]
                           /\ made(f).orphan = 0 /\ days[f] \in 1..points
  BY <1>t DEF SampleTypes, Marks, Job
<1> HIDE DEF made
<1>3. FlushTypes(flush')
  BY <1>1, <1>2 DEF FlushTypes
<1>4. /\ \A job \in flush'.todo : JobOK(job, days, dirtyDays \cup deleted, points)
      /\ \A job, other \in flush'.todo : job.file = other.file => job = other
  BY <1>1, <1>2, <1>t DEF JobOK, SampleTypes
<1>5. FlushInv'
  BY <1>1, <1>4, <1>a DEF FlushInv, FlushOK
<1>6. LastFlush'
  <2> SUFFICES ASSUME phase = "again", ~failing PROVE LastOK(flush', days, dirtyDays, deleted)
    BY <1>a DEF LastFlush
  <2>1. deleted = {}
    BY <1>a, <1>t DEF LastFlush, LastOK
  <2>2. \A job \in flush'.todo : job.revision = days[job.file] /\ job.orphan = 0
    BY <1>1, <1>2
  <2>3. \A f \in dirtyDays : \E job \in flush'.todo : job.file = f
    BY <1>1, <1>2
  <2> QED
    BY <1>1, <2>1, <2>2, <2>3 DEF LastOK
<1>7. SampleTypes' /\ Marks' /\ CleanDaysAreOnDisk'
  BY <1>3, <1>a, <1>t DEF SampleTypes, Marks, CleanDaysAreOnDisk
<1>8. Stopping' /\ StopSavesEverything'
  BY <1>1, <1>a, <1>t DEF Stopping, StopSavesEverything
<1> QED
  BY <1>5, <1>6, <1>7, <1>8 DEF SampleInv

\* A job is taken in hand with what its day holds now, or has nothing to write.
LEMMA TakeJobKeeps ==
    ASSUME SampleInv, NEW job \in flush.todo, TakeJob(job) PROVE SampleInv'
<1> DEFINE body == IF job.orphan # 0 THEN job.orphan ELSE days[job.file]
           hand == [file |-> job.file, revision |-> job.revision, body |-> body]
<1>a. /\ flush.stage = "write" /\ flush.hand = NoFile
      /\ body = 0 => /\ flush' = [flush EXCEPT !.todo = flush.todo \ {job}]
                     /\ dirtyDays' = dirtyDays \ {job.file}
      /\ body # 0 => /\ flush' = [flush EXCEPT !.todo = flush.todo \ {job}, !.hand = hand]
                     /\ UNCHANGED dirtyDays
      /\ UNCHANGED <<days, deleted, disk, phase, points, refused, failing>>
  BY DEF TakeJob
<1>t. /\ SampleTypes /\ Marks /\ FlushInv /\ LastFlush /\ CleanDaysAreOnDisk /\ Stopping
      /\ StopSavesEverything
  BY DEF SampleInv
<1>j. /\ flush.todo \subseteq Job /\ job \in Job /\ job.file \in File
      /\ \A o \in flush.todo : JobOK(o, days, dirtyDays \cup deleted, points)
      /\ \A o, p \in flush.todo : o.file = p.file => o = p
  BY <1>a, <1>t DEF SampleTypes, FlushTypes, FlushInv, FlushOK, Job
<1>b. /\ body \in Nat /\ body <= points /\ job.revision \in 1..points
      /\ days[job.file] = job.revision => body = job.revision
      /\ job.file \in dirtyDays \cup deleted /\ points \in Nat /\ days[job.file] \in Nat
  BY <1>j, <1>t DEF JobOK, Job, SampleTypes, Marks
<1>d. dirtyDays' = dirtyDays
  <2>1. CASE body = 0
    <3>1. days[job.file] = 0
      BY <2>1, <1>j DEF Job
    <3> QED
      BY <1>a, <1>t, <2>1, <3>1 DEF Marks
  <2> QED
    BY <1>a, <2>1
<1>f. hand.file = job.file /\ hand.revision = job.revision /\ hand.body = body
  OBVIOUS
<1> HIDE DEF body
<1>h. ASSUME body # 0
      PROVE  hand \in Hand /\ HandOK(hand, days, dirtyDays \cup deleted, points) /\ hand # NoFile
  <2>1. hand \in Hand
    BY <1>b, <1>j DEF Hand, Job
  <2> HIDE DEF hand
  <2>2. HandOK(hand, days, dirtyDays \cup deleted, points)
    BY <1>b, <1>f, <1>h DEF HandOK
  <2>3. NoFile \notin Hand
    BY SampleAssumption, Zenon DEF Hand
  <2> QED
    BY <2>1, <2>2, <2>3
<1> HIDE DEF hand
<1>1. /\ flush'.stage = "write" /\ flush'.todo = flush.todo \ {job}
      /\ body = 0 => flush'.hand = NoFile
      /\ body # 0 => flush'.hand = hand
      /\ flush' = [stage |-> flush'.stage, todo |-> flush'.todo, hand |-> flush'.hand]
  <2>0. flush = [stage |-> "write", todo |-> flush.todo, hand |-> NoFile]
    BY <1>a, <1>t DEF SampleTypes, FlushTypes
  <2>1. CASE body = 0
    <3>1. flush' = [stage |-> "write", todo |-> flush.todo \ {job}, hand |-> NoFile]
      BY <1>a, <2>0, <2>1
    <3> QED
      BY <2>1, <3>1
  <2>2. CASE body # 0
    <3>1. flush' = [stage |-> "write", todo |-> flush.todo \ {job}, hand |-> hand]
      BY <1>a, <2>0, <2>2
    <3> QED
      BY <2>2, <3>1
  <2> QED
    BY <2>1, <2>2
<1>2. FlushTypes(flush')
  BY <1>1, <1>h, <1>j DEF FlushTypes
<1>3. FlushOK(flush', days, dirtyDays \cup deleted, points)
  BY <1>1, <1>f, <1>h, <1>j DEF FlushOK
<1>4. FlushInv'
  BY <1>3, <1>a, <1>d DEF FlushInv
<1>5. LastFlush'
  <2> SUFFICES ASSUME phase = "again", ~failing PROVE LastOK(flush', days, dirtyDays, deleted)
    BY <1>a, <1>d DEF LastFlush
  <2>1. LastOK(flush, days, dirtyDays, deleted)
    BY <1>t DEF LastFlush
  <2>2. job.revision = days[job.file] /\ body # 0
    BY <1>a, <1>b, <2>1 DEF LastOK
  <2>3. flush'.hand = hand /\ hand # NoFile
    BY <1>1, <1>h, <2>2
  <2>4. \A f \in dirtyDays : \/ \E o \in flush'.todo : o.file = f
                             \/ hand.file = f
    BY <1>1, <1>a, <1>f, <2>1 DEF LastOK
  <2> QED
    BY <1>1, <1>a, <1>f, <2>1, <2>2, <2>3, <2>4 DEF LastOK
<1>6. SampleTypes' /\ Marks' /\ CleanDaysAreOnDisk'
  BY <1>2, <1>a, <1>d, <1>t DEF SampleTypes, Marks, CleanDaysAreOnDisk
<1>7. Stopping' /\ StopSavesEverything'
  BY <1>1, <1>a, <1>d, <1>t DEF Stopping, StopSavesEverything
<1> QED
  BY <1>4, <1>5, <1>6, <1>7 DEF SampleInv

\* What is written is what the day holds, if the day is clean after it.
LEMMA WrittenKeeps == ASSUME SampleInv, NEW ok \in BOOLEAN, Written(ok) PROVE SampleInv'
<1> DEFINE hand == flush.hand
<1>a. /\ flush.stage = "write" /\ hand # NoFile
      /\ flush' = [flush EXCEPT !.hand = NoFile]
      /\ UNCHANGED <<days, deleted, phase, points, refused>>
      /\ ok => /\ disk' = [disk EXCEPT ![hand.file] = hand.body]
               /\ dirtyDays' = IF IsSame(hand) THEN dirtyDays \ {hand.file} ELSE dirtyDays
      /\ ~ok => UNCHANGED <<disk, dirtyDays>>
  BY DEF Written
<1>f. ~failing' /\ phase # "running" => ok /\ ~failing
  BY DEF Written
<1>t. /\ SampleTypes /\ Marks /\ FlushInv /\ LastFlush /\ CleanDaysAreOnDisk /\ Stopping
      /\ StopSavesEverything
  BY DEF SampleInv
<1>j. /\ flush.todo \subseteq Job /\ hand \in Hand /\ hand.file \in File /\ hand.body \in Nat
      /\ \A o \in flush.todo : JobOK(o, days, dirtyDays \cup deleted, points) /\ o.file # hand.file
      /\ \A o, p \in flush.todo : o.file = p.file => o = p
      /\ HandOK(hand, days, dirtyDays \cup deleted, points)
  BY <1>a, <1>t DEF SampleTypes, FlushTypes, FlushInv, FlushOK, Hand
<1>1. /\ flush'.stage = "write" /\ flush'.todo = flush.todo /\ flush'.hand = NoFile
      /\ flush' = [stage |-> flush'.stage, todo |-> flush'.todo, hand |-> flush'.hand]
  BY <1>a, <1>t DEF SampleTypes, FlushTypes
<1>b. HandOK(hand, days, dirtyDays \cup deleted, points) /\ points \in Nat
  BY <1>j, <1>t DEF SampleTypes
<1> HIDE DEF hand
<1>2. FlushTypes(flush')
  BY <1>1, <1>j DEF FlushTypes
<1>3. dirtyDays' \subseteq dirtyDays /\ \A f \in dirtyDays : f # hand.file => f \in dirtyDays'
  BY <1>a
<1>4. FlushInv'
  <2>1. \A o \in flush.todo : JobOK(o, days, dirtyDays' \cup deleted, points)
    BY <1>3, <1>j DEF JobOK
  <2> QED
    BY <1>1, <1>a, <1>j, <2>1 DEF FlushInv, FlushOK
<1>5. /\ disk' \in [File -> Nat] /\ \A f \in File : disk'[f] = disk[f] \/ (ok /\ f = hand.file)
      /\ ok => disk'[hand.file] = hand.body
  BY <1>a, <1>j, <1>t DEF SampleTypes
<1>6. hand.body <= points
  BY <1>b DEF HandOK
<1>7. SampleTypes'
  BY <1>2, <1>3, <1>5, <1>a, <1>t DEF SampleTypes
<1>8. Marks'
  <2>1. (\A f \in deleted' : days'[f] = 0) /\ (\A f \in dirtyDays' : days'[f] # 0)
    BY <1>3, <1>a, <1>t DEF Marks
  <2>2. \A f \in File : days'[f] <= points' /\ disk'[f] <= points'
    BY <1>5, <1>6, <1>a, <1>t DEF Marks
  <2> QED
    BY <2>1, <2>2 DEF Marks
<1>9. CleanDaysAreOnDisk'
  <2> SUFFICES ASSUME NEW f \in File, f \notin dirtyDays', f \notin deleted', f \notin refused'
               PROVE  disk'[f] = days'[f]
    BY DEF CleanDaysAreOnDisk
  <2>1. CASE f # hand.file \/ ~ok
    <3>1. disk'[f] = disk[f] /\ f \notin dirtyDays
      BY <1>3, <1>5, <1>a, <2>1
    <3> QED
      BY <1>a, <1>t, <3>1 DEF CleanDaysAreOnDisk
  <2>2. CASE f = hand.file /\ ok
    <3>1. f \in dirtyDays
      BY <1>a, <1>b, <2>2 DEF HandOK
    <3>2. days[hand.file] = hand.revision
      BY <1>a, <2>2, <3>1 DEF IsSame
    <3> QED
      BY <1>5, <1>a, <1>b, <2>2, <3>2 DEF HandOK
  <2> QED
    BY <2>1, <2>2
<1>10. LastFlush'
  <2> SUFFICES ASSUME phase = "again", ~failing'
               PROVE  LastOK(flush', days, dirtyDays', deleted)
    BY <1>a DEF LastFlush
  <2>1. ok /\ LastOK(flush, days, dirtyDays, deleted)
    BY <1>f, <1>t DEF LastFlush
  <2>2. /\ hand.revision = days[hand.file]
        /\ \A o \in flush.todo : o.revision = days[o.file] /\ o.orphan = 0
    BY <1>a, <2>1 DEF LastOK, hand
  <2>3. dirtyDays' = dirtyDays \ {hand.file}
    BY <1>a, <2>1, <2>2 DEF IsSame
  <2>4. \A f \in dirtyDays : f = hand.file \/ \E o \in flush.todo : o.file = f
    BY <1>a, <2>1 DEF LastOK, hand
  <2> QED
    BY <1>1, <1>a, <2>1, <2>2, <2>3, <2>4 DEF LastOK
<1>11. Stopping' /\ StopSavesEverything'
  BY <1>1, <1>a, <1>t DEF Stopping, StopSavesEverything
<1> QED
  BY <1>4, <1>7, <1>8, <1>9, <1>10, <1>11 DEF SampleInv

\* stop() begins: the flush under way goes on, or one begins.
LEMMA StopKeeps == ASSUME SampleInv, Stop PROVE SampleInv'
<1>a. /\ phase = "running" /\ phase' = "first" /\ flush' = Begun(deleted)
      /\ UNCHANGED <<days, dirtyDays, deleted, disk, points, refused>>
  BY DEF Stop
<1>t. SampleTypes /\ Marks /\ FlushInv /\ CleanDaysAreOnDisk
  BY DEF SampleInv
<1>1. FlushTypes(flush') /\ FlushInv' /\ flush'.stage # "idle"
  <2>1. CASE flush.stage = "idle"
    <3>1. /\ flush' = [stage |-> "unlink", todo |-> deleted, hand |-> NoFile]
          /\ deleted \in SUBSET File
      BY <1>a, <1>t, <2>1 DEF Begun, SampleTypes
    <3>2. /\ FlushTypes(flush') /\ FlushOK(flush', days, dirtyDays \cup deleted, points)
          /\ flush'.stage = "unlink"
      BY <3>1, BegunOK
    <3> QED
      BY <1>a, <3>2 DEF FlushInv
  <2>2. CASE flush.stage # "idle"
    BY <1>a, <1>t, <2>2 DEF Begun, SampleTypes, FlushInv
  <2> QED
    BY <2>1, <2>2
<1>2. SampleTypes' /\ Marks' /\ CleanDaysAreOnDisk'
  BY <1>1, <1>a, <1>t DEF SampleTypes, Marks, CleanDaysAreOnDisk
<1>3. LastFlush' /\ Stopping' /\ StopSavesEverything'
  BY <1>1, <1>a DEF LastFlush, Stopping, StopSavesEverything
<1> QED
  BY <1>1, <1>2, <1>3 DEF SampleInv

\* The flush has done all it had to; the second one of stop() had everything to do.
LEMMA FlushEndsKeeps == ASSUME SampleInv, FlushEnds PROVE SampleInv'
<1>a. /\ flush.stage = "write" /\ flush.todo = {} /\ flush.hand = NoFile
      /\ UNCHANGED <<days, dirtyDays, deleted, disk, points, refused, failing>>
      /\ phase' = CASE phase = "first" -> "again" [] phase = "again" -> "stopped" [] OTHER -> phase
      /\ flush' = IF phase' = "again" /\ phase = "first"
                  THEN [stage |-> "unlink", todo |-> deleted, hand |-> NoFile] ELSE NoFlush
  BY DEF FlushEnds, AfterFirst
<1>t. /\ SampleTypes /\ Marks /\ FlushInv /\ LastFlush /\ CleanDaysAreOnDisk /\ Stopping
      /\ deleted \in SUBSET File
  BY DEF SampleInv, SampleTypes
<1>1. CASE phase = "first"
  <2>1. phase' = "again" /\ flush' = [stage |-> "unlink", todo |-> deleted, hand |-> NoFile]
    BY <1>1, <1>a
  <2>2. /\ FlushTypes(flush') /\ FlushOK(flush', days, dirtyDays \cup deleted, points)
        /\ flush'.stage = "unlink" /\ flush'.todo = deleted
    BY <1>t, <2>1, BegunOK
  <2>3. SampleTypes' /\ Marks' /\ CleanDaysAreOnDisk' /\ FlushInv'
    BY <1>a, <1>t, <2>1, <2>2 DEF SampleTypes, Marks, CleanDaysAreOnDisk, FlushInv
  <2>4. LastFlush' /\ Stopping' /\ StopSavesEverything'
    BY <1>a, <2>1, <2>2 DEF LastFlush, LastOK, Stopping, StopSavesEverything
  <2> QED
    BY <2>3, <2>4 DEF SampleInv
<1>2. CASE phase # "first"
  <2>1. /\ flush' = NoFlush /\ phase' \in {"stopped", "running"}
        /\ phase' = "stopped" => phase = "again"
    BY <1>2, <1>a, <1>t DEF SampleTypes, Stopping
  <2>2. /\ FlushTypes(flush') /\ FlushOK(flush', days, dirtyDays \cup deleted, points)
        /\ flush'.stage = "idle"
    BY <1>2, <1>a, IdleOK
  <2>3. SampleTypes' /\ Marks' /\ CleanDaysAreOnDisk' /\ FlushInv'
    BY <1>a, <1>t, <2>1, <2>2 DEF SampleTypes, Marks, CleanDaysAreOnDisk, FlushInv
  <2>4. LastFlush' /\ Stopping'
    BY <2>1, <2>2 DEF LastFlush, Stopping
  <2>5. StopSavesEverything'
    BY <1>a, <1>t, <2>1 DEF StopSavesEverything, LastFlush, LastOK
  <2> QED
    BY <2>3, <2>4, <2>5 DEF SampleInv
<1> QED
  BY <1>1, <1>2

\* Another process takes over what it finds on disk.
LEMMA RestartKeeps == ASSUME SampleInv, Restart PROVE SampleInv'
<1> DEFINE found == {f \in File : disk[f] # 0}
           usable == {f \in found : f[2] \in Window}
<1>1. PICK read \in SUBSET usable :
          /\ days' = [f \in File |-> IF f \in read THEN disk[f] ELSE 0]
          /\ deleted' = found \ usable /\ refused' = usable \ read
  BY DEF Restart
<1>a. /\ dirtyDays' = {} /\ flush' = NoFlush /\ phase' = "running" /\ UNCHANGED <<disk, points>>
  BY DEF Restart
<1>t. SampleTypes /\ Marks
  BY DEF SampleInv
<1>2. /\ \A f \in File : days'[f] = IF f \in read THEN disk[f] ELSE 0
      /\ days' \in [File -> Nat] /\ deleted' \subseteq File
  BY <1>1, <1>t DEF SampleTypes
<1>3. /\ FlushTypes(flush') /\ FlushOK(flush', days', dirtyDays' \cup deleted', points')
      /\ flush'.stage = "idle"
  BY <1>a, IdleOK
<1>4. SampleTypes' /\ FlushInv'
  BY <1>2, <1>3, <1>a, <1>t DEF SampleTypes, FlushInv
<1>5. Marks'
  BY <1>1, <1>2, <1>a, <1>t DEF Marks, SampleTypes
<1>6. CleanDaysAreOnDisk'
  BY <1>1, <1>2, <1>a, <1>t DEF CleanDaysAreOnDisk, SampleTypes
<1>7. LastFlush' /\ Stopping' /\ StopSavesEverything'
  BY <1>a DEF LastFlush, Stopping, StopSavesEverything
<1> QED
  BY <1>4, <1>5, <1>6, <1>7 DEF SampleInv

LEMMA OthersKeep ==
    ASSUME SampleInv, UNCHANGED <<days, dirtyDays, deleted, disk, flush, points, refused, failing>>,
           phase' = phase \/ (phase = "stopped" /\ phase' = "running")
    PROVE  SampleInv'
<1>1. SampleTypes' /\ Marks' /\ CleanDaysAreOnDisk' /\ FlushInv'
  BY DEF SampleInv, SampleTypes, Marks, CleanDaysAreOnDisk, FlushInv
<1>2. LastFlush' /\ Stopping' /\ StopSavesEverything'
  BY DEF SampleInv, LastFlush, Stopping, StopSavesEverything
<1> QED
  BY <1>1, <1>2 DEF SampleInv
-----------------------------------------------------------------------------
LEMMA SampleStep == SampleInv /\ [SampleNext]_ssVars => SampleInv'
<1> SUFFICES ASSUME SampleInv, [SampleNext]_ssVars PROVE SampleInv'
  OBVIOUS
<1>1. ASSUME NEW s \in SsSymbols, NEW d \in 1..LastDay, Accept(s, d) PROVE SampleInv'
  BY <1>1, AcceptKeeps
<1>2. ASSUME NEW f \in File, NEW ok \in BOOLEAN, Unlink(f, ok) PROVE SampleInv'
  BY <1>2, UnlinkKeeps
<1>3. ASSUME NEW job \in flush.todo, TakeJob(job) PROVE SampleInv'
  BY <1>3, TakeJobKeeps
<1>4. ASSUME NEW ok \in BOOLEAN, Written(ok) PROVE SampleInv'
  BY <1>4, WrittenKeeps
<1>5. ASSUME NEW list \in SUBSET SsSymbols, Retain(list) PROVE SampleInv'
  BY <1>5, OthersKeep DEF Retain
<1>6. CASE Minute
  BY <1>6, MinuteKeeps
<1>7. CASE ToWrite
  BY <1>7, ToWriteKeeps
<1>8. CASE Stop
  BY <1>8, StopKeeps
<1>9. CASE FlushEnds
  BY <1>9, FlushEndsKeeps
<1>10. CASE StartAgain
  BY <1>10, OthersKeep DEF StartAgain
<1>11. CASE Restart
  BY <1>11, RestartKeeps
<1>12. CASE NextDay
  BY <1>12, OthersKeep DEF NextDay
<1>13. CASE UNCHANGED ssVars
  BY <1>13, OthersKeep DEF ssVars
<1> QED
  BY <1>1, <1>2, <1>3, <1>4, <1>5, <1>6, <1>7, <1>8, <1>9, <1>10, <1>11, <1>12, <1>13 DEF SampleNext

LEMMA SampleInvariant == SampleSpec => []SampleInv
  BY SampleInvInit, SampleStep, PTL DEF SampleSpec

(* A day that nobody has to write or remove is on disk as it is in memory, for every *)
(* number of symbols, days, points and crashes, whatever evicts, prunes or changes a  *)
(* day while a flush is under way (sample-store.js:126-180).                            *)
THEOREM CleanDaysAreSaved == SampleSpec => []CleanDaysAreOnDisk
<1>1. SampleInv => CleanDaysAreOnDisk
  BY DEF SampleInv
<1> QED
  BY <1>1, SampleInvariant, PTL

(* The two flushes of stop() leave nothing to write or to remove when no write failed, *)
(* also when the first of them had begun before (quote-samples.js).                      *)
THEOREM StopLeavesNothing == SampleSpec => []StopSavesEverything
<1>1. SampleInv => StopSavesEverything
  BY DEF SampleInv
<1> QED
  BY <1>1, SampleInvariant, PTL
=============================================================================
