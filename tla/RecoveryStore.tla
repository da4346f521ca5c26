--------------------------- MODULE RecoveryStore ---------------------------
(***************************************************************************)
(* src/lib/recovery-store.js: the last good quotes, kept in memory and in  *)
(* one file that is replaced atomically.  flush() reads the file, merges,  *)
(* and writes a new one only if nobody has replaced the file meanwhile;    *)
(* quotes arrive while it awaits, several processes may share the file,    *)
(* and each may die at any point.                                          *)
(*                                                                         *)
(* A quote is reduced to its time: a map is a function from symbols to     *)
(* times.  The byte limit evicts like the entry limit and is left out.     *)
(* The identity of a file (inode, size, times) is a version number, and    *)
(* "revision" is compared with startedRevision only: touched[p] says that  *)
(* they differ.                                                            *)
(***************************************************************************)
EXTENDS Naturals, FiniteSets, Functions

CONSTANTS
    Processes,
    Symbols,
    MaxEntries,     \* maxEntries
    Age,            \* maxAgeMs
    Attempts,       \* passes of flushOnce(), 4 in the code
    MaxTime         \* bound on the clock

ASSUME StoreAssumption ==
    /\ MaxEntries \in Nat \ {0} /\ Age \in Nat /\ Attempts \in Nat \ {0}
    /\ MaxTime \in Nat \ {0}

VARIABLES
    now,
    file,       \* version, whether its contents parse, and its entries
    corrupt,    \* version of the contents in the quarantine slot, 0 if none
    entries,    \* entries in memory
    up, dirty, touched,
    pc,         \* where flush() of a process stands
    attempt,
    observed,   \* version flushOnce() has read
    merged,     \* what it is going to write
    heard,      \* history: newest time accepted for a symbol since the start
    checked,    \* history: version at the last check before the rename
    raced       \* history: some rename has replaced a file it had not checked

memVars   == <<entries, up, dirty, touched, heard>>
flushVars == <<pc, attempt, observed, merged, checked>>
fileVars  == <<file, corrupt, raced>>
vars      == <<now, memVars, flushVars, fileVars>>

Stages == {"idle", "read", "quarantine", "check", "recheck", "rename", "finish"}

Empty == [s \in {} |-> 0]

\* What an earlier run may have left in the file.
Left(s) == [x \in {s} |-> 0]

Init ==
    /\ now = 1
    /\ file \in {[version |-> 0, valid |-> TRUE, map |-> Empty],     \* no file
                 [version |-> 1, valid |-> FALSE, map |-> Empty]}
                \cup {[version |-> 1, valid |-> TRUE, map |-> Left(s)] : s \in Symbols}
    /\ corrupt = 0
    /\ entries = [p \in Processes |-> Empty]
    /\ up = [p \in Processes |-> FALSE]
    /\ dirty = [p \in Processes |-> FALSE]
    /\ touched = [p \in Processes |-> FALSE]
    /\ pc = [p \in Processes |-> "idle"]
    /\ attempt = [p \in Processes |-> 0]
    /\ observed = [p \in Processes |-> 0]
    /\ merged = [p \in Processes |-> Empty]
    /\ heard = [p \in Processes |-> [s \in Symbols |-> 0]]
    /\ checked = [p \in Processes |-> 0]
    /\ raced = FALSE

-----------------------------------------------------------------------------
(* Maps of entries                                                         *)

Valid(t) == t + Age >= now

\* rootEntries(): what has expired is not read.
Alive(map) == Restrict(map, {s \in DOMAIN map : Valid(map[s])})

\* mergeMaps(): the newer entry wins, the second at equal times.
Merge(left, right) ==
    [s \in DOMAIN left \cup DOMAIN right |->
        IF s \notin DOMAIN left THEN right[s]
        ELSE IF s \in DOMAIN right /\ right[s] >= left[s] THEN right[s]
        ELSE left[s]]

\* boundMap(): the oldest entries go first; which of two of the same age depends
\* on the order of insertion.
Bounded(map) ==
    {Restrict(map, keep) : keep \in
        {k \in SUBSET DOMAIN map :
            /\ Cardinality(k) <= MaxEntries
            /\ k # DOMAIN map => Cardinality(k) = MaxEntries
            /\ \A s \in k, x \in DOMAIN map \ k : map[x] <= map[s]}}

-----------------------------------------------------------------------------
\* load(), called when the process starts.
Load(p) ==
    /\ ~up[p]
    /\ up' = [up EXCEPT ![p] = TRUE]
    /\ \E m \in Bounded(Alive(file.map)) :
          /\ entries' = [entries EXCEPT ![p] = m]
          /\ dirty' = [dirty EXCEPT ![p] = DOMAIN m # DOMAIN file.map]
    /\ UNCHANGED <<now, touched, heard, flushVars, fileVars>>

Crash(p) ==
    /\ up[p]
    /\ up' = [up EXCEPT ![p] = FALSE]
    /\ entries' = [entries EXCEPT ![p] = Empty]
    /\ dirty' = [dirty EXCEPT ![p] = FALSE]
    /\ touched' = [touched EXCEPT ![p] = FALSE]
    /\ heard' = [heard EXCEPT ![p] = [s \in Symbols |-> 0]]
    /\ pc' = [pc EXCEPT ![p] = "idle"]
    /\ merged' = [merged EXCEPT ![p] = Empty]
    /\ UNCHANGED <<now, attempt, observed, checked, fileVars>>

\* remember(): of a late quote at most the chart history is kept, which changes
\* the entry but not its time; a quote that the limit would evict is refused.
Remember(p, s, t) ==
    /\ up[p] /\ t <= now /\ Valid(t)
    /\ IF s \in DOMAIN entries[p] /\ t < entries[p][s]
       THEN UNCHANGED <<entries, heard>>
       ELSE \E m \in Bounded([x \in DOMAIN entries[p] \cup {s} |->
                                  IF x = s THEN t ELSE entries[p][x]]) :
               /\ s \in DOMAIN m
               /\ entries' = [entries EXCEPT ![p] = m]
               /\ heard' = [heard EXCEPT ![p][s] = t]
    /\ dirty' = [dirty EXCEPT ![p] = TRUE]
    /\ touched' = [touched EXCEPT ![p] = TRUE]
    /\ UNCHANGED <<now, up, flushVars, fileVars>>

\* get() of an entry that has expired.
GetExpired(p, s) ==
    /\ up[p] /\ s \in DOMAIN entries[p] /\ ~Valid(entries[p][s])
    /\ entries' = [entries EXCEPT ![p] = Restrict(@, DOMAIN @ \ {s})]
    /\ dirty' = [dirty EXCEPT ![p] = TRUE]
    /\ touched' = [touched EXCEPT ![p] = TRUE]
    /\ UNCHANGED <<now, up, heard, flushVars, fileVars>>

-----------------------------------------------------------------------------
(* flush(): one at a time per process (pathQueues).                        *)

\* A pass of flushOnce() begins; without another pass the flush has failed.
Pass(p, n) ==
    IF n < Attempts
    THEN /\ pc' = [pc EXCEPT ![p] = "read"]
         /\ attempt' = [attempt EXCEPT ![p] = n]
         /\ touched' = [touched EXCEPT ![p] = FALSE]
    ELSE /\ pc' = [pc EXCEPT ![p] = "idle"]
         /\ UNCHANGED <<attempt, touched>>

Flush(p) ==
    /\ up[p] /\ pc[p] = "idle" /\ dirty[p]
    /\ Pass(p, 0)
    /\ UNCHANGED <<now, entries, up, dirty, heard, observed, merged, checked, fileVars>>

\* readTargetForMerge() and the merge with what is in memory by then.
Read(p) ==
    /\ pc[p] = "read"
    /\ observed' = [observed EXCEPT ![p] = file.version]
    /\ IF file.valid
       THEN /\ \E m \in Bounded(Merge(Alive(file.map), entries[p])) :
                  merged' = [merged EXCEPT ![p] = m]
            /\ pc' = [pc EXCEPT ![p] = "check"]
       ELSE /\ pc' = [pc EXCEPT ![p] = "quarantine"]
            /\ UNCHANGED merged
    /\ UNCHANGED <<now, memVars, attempt, checked, fileVars>>

\* Contents that do not parse are put aside, unless the file has changed.
Quarantine(p) ==
    /\ pc[p] = "quarantine"
    /\ IF file.version # observed[p]
       THEN /\ pc' = [pc EXCEPT ![p] = "idle"]
            /\ UNCHANGED <<corrupt, merged>>
       ELSE /\ corrupt' = observed[p]
            /\ merged' = [merged EXCEPT ![p] = entries[p]]
            /\ pc' = [pc EXCEPT ![p] = "check"]
    /\ UNCHANGED <<now, memVars, attempt, observed, checked, file, raced>>

NextPass(p) ==
    /\ Pass(p, attempt[p] + 1)
    /\ UNCHANGED <<now, entries, up, dirty, heard, observed, merged, checked, fileVars>>

\* The first lstat() of writeAtomic().
Check(p) ==
    /\ pc[p] = "check"
    /\ \/ file.version # observed[p] /\ NextPass(p)
       \/ /\ file.version = observed[p]
          /\ pc' = [pc EXCEPT ![p] = "recheck"]
          /\ UNCHANGED <<now, memVars, attempt, observed, merged, checked, fileVars>>

\* The file is not looked at again once the temporary file is written.
RecheckBug(p) ==
    /\ pc[p] = "recheck"
    /\ pc' = [pc EXCEPT ![p] = "rename"]
    /\ checked' = [checked EXCEPT ![p] = file.version]
    /\ UNCHANGED <<now, memVars, attempt, observed, merged, fileVars>>

\* The second one, when the temporary file has been written.
Recheck(p) ==
    /\ pc[p] = "recheck"
    /\ \/ file.version # observed[p] /\ NextPass(p)
       \/ /\ file.version = observed[p]
          /\ pc' = [pc EXCEPT ![p] = "rename"]
          /\ checked' = [checked EXCEPT ![p] = file.version]
          /\ UNCHANGED <<now, memVars, attempt, observed, merged, fileVars>>

Rename(p) ==
    /\ pc[p] = "rename"
    /\ file' = [version |-> file.version + 1, valid |-> TRUE, map |-> merged[p]]
    /\ raced' = (raced \/ file.version # checked[p])
    /\ pc' = [pc EXCEPT ![p] = "finish"]
    /\ UNCHANGED <<now, memVars, attempt, observed, merged, checked, corrupt>>

\* What was remembered during the write is taken for written.
FinishBug(p) ==
    /\ pc[p] = "finish"
    /\ entries' = [entries EXCEPT ![p] = merged[p]]
    /\ dirty' = [dirty EXCEPT ![p] = FALSE]
    /\ pc' = [pc EXCEPT ![p] = "idle"]
    /\ UNCHANGED <<now, up, heard, touched, attempt, observed, merged, checked, fileVars>>

\* Back in flushOnce(): done, or once more with what came in the meantime.
Finish(p) ==
    /\ pc[p] = "finish"
    /\ IF touched[p]
       THEN /\ \E m \in Bounded(Merge(merged[p], entries[p])) :
                  entries' = [entries EXCEPT ![p] = m]
            /\ Pass(p, attempt[p] + 1)
            /\ UNCHANGED dirty
       ELSE /\ entries' = [entries EXCEPT ![p] = merged[p]]
            /\ dirty' = [dirty EXCEPT ![p] = FALSE]
            /\ pc' = [pc EXCEPT ![p] = "idle"]
            /\ UNCHANGED <<attempt, touched>>
    /\ UNCHANGED <<now, up, heard, observed, merged, checked, fileVars>>

\* A system call fails, a full disk for one: flush() gives up and reports it.
FlushFails(p) ==
    /\ pc[p] \in Stages \ {"idle", "finish"}
    /\ pc' = [pc EXCEPT ![p] = "idle"]
    /\ UNCHANGED <<now, memVars, attempt, observed, merged, checked, fileVars>>

Tick ==
    /\ now < MaxTime
    /\ now' = now + 1
    /\ UNCHANGED <<memVars, flushVars, fileVars>>

Next ==
    \/ Tick
    \/ \E p \in Processes :
          \/ Load(p) \/ Crash(p)
          \/ \E s \in Symbols : GetExpired(p, s)
          \/ \E s \in Symbols, t \in 1..MaxTime : Remember(p, s, t)
          \/ Flush(p) \/ Read(p) \/ Quarantine(p) \/ Check(p) \/ Recheck(p)
          \/ Rename(p) \/ Finish(p) \/ FlushFails(p)

Spec == Init /\ [][Next]_vars

-----------------------------------------------------------------------------
IsMap(m) == /\ DOMAIN m \subseteq Symbols /\ Cardinality(DOMAIN m) <= MaxEntries
            /\ \A s \in DOMAIN m : m[s] \in 0..MaxTime

StoreTypeOK ==
    /\ now \in 1..MaxTime
    /\ file.version \in Nat /\ file.valid \in BOOLEAN /\ IsMap(file.map)
    /\ \A p \in Processes :
          /\ IsMap(entries[p]) /\ IsMap(merged[p])
          /\ pc[p] \in Stages /\ attempt[p] \in 0..(Attempts - 1)
          /\ {up[p], dirty[p], touched[p]} \subseteq BOOLEAN

\* A quote of time t for s is in the map, or has been replaced by a newer one,
\* has expired, or has made room for newer ones.
Covers(map, s, t) ==
    \/ ~Valid(t)
    \/ s \in DOMAIN map /\ map[s] >= t
    \/ Cardinality(DOMAIN map) = MaxEntries /\ \A x \in DOMAIN map : map[x] >= t

\* A store that thinks it has nothing to save has lost nothing: whatever it
\* accepted, during which await of its flushes ever, is covered by the file.
CleanMeansSaved ==
    \A p \in Processes : up[p] /\ ~dirty[p] /\ ~raced =>
        \A s \in Symbols : heard[p][s] # 0 => Covers(file.map, s, heard[p][s])

StoreInv == StoreTypeOK /\ CleanMeansSaved

\* No step makes the file forget a quote it held, in favour of an older one or
\* of none, except two renames that meet between the last check and the rename.
FileNeverGoesBack ==
    ~raced' => \A s \in DOMAIN file.map : Covers(file'.map, s, file.map[s])

\* Contents that could not be read are replaced only after they were put aside.
CorruptIsKept == ~file.valid /\ file'.valid => corrupt = file.version

\* What is on disk is not lost, readable or not: a rename replaces a file by one
\* that covers it, and contents nobody could read are in the quarantine slot.
NothingOnDiskIsLost == [][FileNeverGoesBack /\ CorruptIsKept]_vars
=============================================================================
