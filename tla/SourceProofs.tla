---------------------------- MODULE SourceProofs ----------------------------
(* The quote sources: what the snapshot service promises of the prices it shows, *)
(* what a read of a polled source is told, and what the trade stream shows, for    *)
(* any symbols, prices and orders.                                                  *)
EXTENDS SnapshotService, FastPolling, AlpacaStream, SequenceTheorems, TLAPS

Instant == Nat \cup {NoJob}

SnapshotTypes ==
    /\ members \subseteq SnSymbols /\ snNow \in Nat
    /\ snap \in [SnSymbols -> [at : Nat, stale : BOOLEAN, since : Instant]]
    /\ fallback \in [SnSymbols -> [at : Nat, since : Nat]]
    /\ confirmedAt \in [SnSymbols -> Instant] /\ enrichAt \in [SnSymbols -> Instant]
    /\ retryAt \in [SnSymbols -> Nat] /\ notBefore \in [SnSymbols -> Nat]

\* Only symbols of the group are in a batch.
BatchIsGrouped == batch # NoJob => batch.asked \subseteq grouped

\* What checked a symbol's price was checked in the past, and is remembered.
Checked(s) ==
    /\ fallback[s].at # 0 => confirmedAt[s] = fallback[s].since
    /\ fallback[s].since <= snNow
    /\ snap[s].since # NoJob => snap[s].since <= snNow

\* A price that is not marked has somebody behind it; one that stands in for the
\* batch was checked no later than the fallback it came from.
Backed(s) ==
    snap[s].at # 0 /\ ~snap[s].stale =>
        /\ s \notin grouped => snap[s].since = NoJob /\ confirmedAt[s] # NoJob
        /\ s \in grouped /\ snap[s].since = NoJob => s \in batchGood
        /\ s \in grouped /\ snap[s].since # NoJob /\ fallback[s].at # 0
              => snap[s].since <= fallback[s].since

\* Nothing is left of a symbol that is not a member.
Forgotten(s) ==
    s \notin members =>
        /\ snap[s] = None /\ fallback[s] = NoFallback /\ enrichAt[s] = NoJob
        /\ s \notin attempted /\ dueAt[s] = 0 /\ retryAt[s] = 0 /\ notBefore[s] = 0

SymbolInv(s) == Checked(s) /\ Backed(s) /\ Forgotten(s)

SnapshotInv == SnapshotTypes /\ BatchIsGrouped /\ \A s \in SnSymbols : SymbolInv(s)

-----------------------------------------------------------------------------
USE DEF Instant

LEMMA SnapshotInit == SnapshotsInit => SnapshotInv
BY SnapshotAssumption
DEF SnapshotsInit, SnapshotInv, SnapshotTypes, BatchIsGrouped, SymbolInv, Checked, Backed,
    Forgotten, None, NoFallback

\* What stale() makes of a snapshot.
LEMMA StaledIsBacked ==
    ASSUME SnapshotInv, NEW s \in SnSymbols
    PROVE  /\ Staled(s) \in [at : Nat, stale : BOOLEAN, since : Instant]
           /\ Staled(s).at >= snap[s].at
           /\ Staled(s).at # 0 /\ ~Staled(s).stale =>
                 /\ fallback[s].at # 0 /\ Staled(s).since = fallback[s].since
           /\ Staled(s).since # NoJob => Staled(s).since = fallback[s].since
BY SnapshotAssumption
DEF SnapshotInv, SnapshotTypes, Staled, StandIn, None

\* The members that a tick or a forced refresh lets enrichment ask for.
LEMMA EnrichAsksMembers ==
    ASSUME SnapshotTypes, NEW reopened, NEW busy, NEW at \in [SnSymbols -> Instant], NEW retry,
           Enrich(reopened, busy, at, retry)
    PROVE  /\ enrichAt' \in [SnSymbols -> Instant]
           /\ \A s \in SnSymbols \ members : enrichAt'[s] = at[s]
BY DEF Enrich, Ready, SnapshotTypes

\* A symbol of which nothing changes but the time.
LEMMA Untouched ==
    ASSUME SnapshotInv, NEW s \in SnSymbols, snNow' \in Nat, snNow' >= snNow,
           UNCHANGED <<grouped, members>>,
           snap'[s] = snap[s], fallback'[s] = fallback[s], confirmedAt'[s] = confirmedAt[s],
           s \in batchGood => s \in batchGood',
           s \notin members => /\ enrichAt'[s] = NoJob /\ s \notin attempted'
                               /\ dueAt'[s] = 0 /\ retryAt'[s] = 0 /\ notBefore'[s] = 0
    PROVE  SymbolInv(s)'
<1>1. SymbolInv(s) /\ snap[s].since \in Instant /\ fallback[s].since \in Nat /\ snNow \in Nat
  BY DEF SnapshotInv, SnapshotTypes
<1>2. Checked(s)'
  BY <1>1, SnapshotAssumption DEF SymbolInv, Checked
<1>3. Backed(s)'
  BY <1>1 DEF SymbolInv, Backed
<1>4. Forgotten(s)'
  BY <1>1 DEF SymbolInv, Forgotten
<1> QED
  BY <1>2, <1>3, <1>4 DEF SymbolInv

-----------------------------------------------------------------------------
\* Symbols leave.
LEMMA DropKeeps ==
    ASSUME SnapshotInv, NEW gone \in SUBSET members, DropAll(gone),
           UNCHANGED <<grouped, batch, snNow>>
    PROVE  SnapshotInv'
<1>1. SnapshotTypes'
  BY DEF SnapshotInv, SnapshotTypes, DropAll, None, NoFallback
<1>2. BatchIsGrouped'
  BY DEF SnapshotInv, BatchIsGrouped
<1>3. ASSUME NEW s \in SnSymbols PROVE SymbolInv(s)'
  <2>0. SymbolInv(s) /\ snNow \in Nat
    BY DEF SnapshotInv, SnapshotTypes
  <2>1. CASE s \in gone
    BY <2>0, <2>1 DEF DropAll, None, NoFallback, SymbolInv, Checked, Backed, Forgotten
  <2>2. CASE s \notin gone
    <3>1. /\ snap'[s] = snap[s] /\ fallback'[s] = fallback[s] /\ confirmedAt'[s] = confirmedAt[s]
          /\ enrichAt'[s] = enrichAt[s] /\ dueAt'[s] = dueAt[s] /\ retryAt'[s] = retryAt[s]
          /\ notBefore'[s] = notBefore[s]
          /\ s \in members' <=> s \in members
          /\ s \in attempted' <=> s \in attempted
          /\ s \in batchGood' <=> s \in batchGood
      BY <2>2 DEF DropAll
    <3> QED
      BY <2>0, <3>1 DEF SymbolInv, Checked, Backed, Forgotten
  <2> QED
    BY <2>1, <2>2
<1> QED
  BY <1>1, <1>2, <1>3 DEF SnapshotInv

\* Symbols join.
LEMMA JoinKeeps ==
    ASSUME SnapshotInv, NEW asked \in SUBSET SnSymbols, members' = members \cup asked,
           UNCHANGED <<grouped, snap, fallback, batch, attempted, dueAt, enrichAt, retryAt,
                       notBefore, snNow, batchGood, confirmedAt>>
    PROVE  SnapshotInv'
<1>1. SnapshotTypes' /\ BatchIsGrouped'
  BY DEF SnapshotInv, SnapshotTypes, BatchIsGrouped
<1>2. ASSUME NEW s \in SnSymbols PROVE SymbolInv(s)'
  BY DEF SnapshotInv, SymbolInv, Checked, Backed, Forgotten
<1> QED
  BY <1>1, <1>2 DEF SnapshotInv

\* tick().
LEMMA TickKeeps == ASSUME SnapshotInv, SnapshotTick PROVE SnapshotInv'
<1>1. PICK reopened \in SUBSET members :
        /\ \/ BatchBegins(Due(reopened)) \/ UNCHANGED <<batch, attempted>>
        /\ Enrich(reopened, batch' # NoJob, enrichAt, retryAt)
  BY DEF SnapshotTick
<1>t. SnapshotTypes
  BY DEF SnapshotInv
<1>2. enrichAt' \in [SnSymbols -> Instant] /\ \A s \in SnSymbols \ members : enrichAt'[s] = enrichAt[s]
  BY <1>1, <1>t, EnrichAsksMembers DEF SnapshotTypes
<1>3. SnapshotTypes'
  BY <1>2, <1>t DEF SnapshotTypes, SnapshotTick
<1>4. Due(reopened) \subseteq members \cap grouped
  BY DEF Due
<1>5. BatchIsGrouped'
  BY <1>1, <1>4 DEF SnapshotInv, BatchIsGrouped, BatchBegins, SnapshotTick
<1>6. attempted' \subseteq attempted \cup members
  BY <1>1, <1>4 DEF BatchBegins
<1>7. ASSUME NEW s \in SnSymbols PROVE SymbolInv(s)'
  <2>1. s \notin members => enrichAt'[s] = NoJob /\ s \notin attempted'
    BY <1>2, <1>6 DEF SnapshotInv, SymbolInv, Forgotten
  <2>2. s \notin members => dueAt'[s] = 0 /\ retryAt'[s] = 0 /\ notBefore'[s] = 0
    BY DEF SnapshotInv, SymbolInv, Forgotten, SnapshotTick
  <2>3. /\ snNow' = snNow /\ snNow' \in Nat /\ snNow' >= snNow /\ UNCHANGED <<grouped, members>>
        /\ snap'[s] = snap[s] /\ fallback'[s] = fallback[s] /\ confirmedAt'[s] = confirmedAt[s]
        /\ batchGood' = batchGood
    BY <1>t DEF SnapshotTick, SnapshotTypes
  <2> QED
    BY <2>1, <2>2, <2>3, Untouched
<1> QED
  BY <1>3, <1>5, <1>7 DEF SnapshotInv

\* A batch ends: each of its members is given a price, is marked, or is left alone.
LEMMA BatchKeeps ==
    ASSUME SnapshotInv, batch # NoJob, batch' = NoJob,
           NEW taken \in SUBSET members, NEW empty \in SUBSET members,
           NEW price \in [taken -> Nat], NEW here \in SUBSET members,
           taken \cap empty = {}, empty \subseteq grouped, taken \subseteq grouped,
           snap' = [s \in SnSymbols |-> IF s \in taken THEN Fresh(price[s])
                                        ELSE IF s \in empty THEN Staled(s) ELSE snap[s]],
           \A s \in SnSymbols \ here : dueAt'[s] = dueAt[s],
           batchGood' = (batchGood \ empty) \cup taken,
           UNCHANGED <<grouped, members, fallback, attempted, enrichAt, retryAt, notBefore,
                       snNow, confirmedAt>>
    PROVE  SnapshotInv'
<1>t. SnapshotTypes /\ members \subseteq SnSymbols /\ snNow \in Nat
  BY DEF SnapshotInv, SnapshotTypes
<1>1. SnapshotTypes'
  <2>1. ASSUME NEW s \in SnSymbols
        PROVE  snap'[s] \in [at : Nat, stale : BOOLEAN, since : Instant]
    <3>1. CASE s \in taken
      BY <3>1 DEF Fresh
    <3>2. CASE s \in empty
      BY <3>2, StaledIsBacked
    <3>3. CASE s \notin taken \cup empty
      BY <1>t, <3>3 DEF SnapshotTypes
    <3> QED
      BY <3>1, <3>2, <3>3
  <2>2. snap' \in [SnSymbols -> [at : Nat, stale : BOOLEAN, since : Instant]]
    BY <2>1
  <2> QED
    BY <1>t, <2>2 DEF SnapshotTypes
<1>2. BatchIsGrouped'
  BY DEF BatchIsGrouped
<1>3. ASSUME NEW s \in SnSymbols PROVE SymbolInv(s)'
  <2>0. SymbolInv(s) /\ fallback[s].since \in Nat
    BY <1>t DEF SnapshotInv, SnapshotTypes
  <2>1. CASE s \in taken
    <3>1. snap'[s] = Fresh(price[s]) /\ s \in batchGood' /\ s \in grouped /\ s \in members
      BY <2>1
    <3> QED
      BY <2>0, <3>1 DEF Fresh, SymbolInv, Checked, Backed, Forgotten
  <2>2. CASE s \in empty
    <3>1. snap'[s] = Staled(s) /\ s \in grouped /\ s \in members
      BY <2>2
    <3>2. Checked(s)' /\ Forgotten(s)'
      BY <2>0, <3>1, StaledIsBacked DEF SymbolInv, Checked, Forgotten
    <3>3. Backed(s)'
      BY <2>0, <3>1, StaledIsBacked, SnapshotAssumption DEF Backed
    <3> QED
      BY <3>2, <3>3 DEF SymbolInv
  <2>3. CASE s \notin taken \cup empty
    <3>1. snap'[s] = snap[s] /\ (s \in batchGood => s \in batchGood')
      BY <2>3
    <3>2. s \notin members => dueAt'[s] = 0
      BY <2>0 DEF SymbolInv, Forgotten
    <3>3. s \notin members => /\ enrichAt'[s] = NoJob /\ s \notin attempted'
                              /\ dueAt'[s] = 0 /\ retryAt'[s] = 0 /\ notBefore'[s] = 0
      BY <2>0, <3>2 DEF SymbolInv, Forgotten
    <3> QED
      BY <1>t, <3>1, <3>3, Untouched
  <2> QED
    BY <2>1, <2>2, <2>3
<1> QED
  BY <1>1, <1>2, <1>3 DEF SnapshotInv

\* The answer of an earlier epoch only frees the group.
LEMMA LateBatchKeeps ==
    ASSUME SnapshotInv, batch' = NoJob,
           UNCHANGED <<grouped, members, snap, fallback, attempted, dueAt, enrichAt, retryAt,
                       notBefore, snNow, batchGood, confirmedAt>>
    PROVE  SnapshotInv'
<1>1. SnapshotTypes' /\ BatchIsGrouped'
  BY DEF SnapshotInv, SnapshotTypes, BatchIsGrouped
<1>2. ASSUME NEW s \in SnSymbols PROVE SymbolInv(s)'
  BY DEF SnapshotInv, SymbolInv, Checked, Backed, Forgotten
<1> QED
  BY <1>1, <1>2 DEF SnapshotInv

LEMMA BatchAnswersKeeps == ASSUME SnapshotInv, BatchAnswers PROVE SnapshotInv'
<1>1. CASE ~Valid(batch.epoch)
  BY <1>1, LateBatchKeeps DEF BatchAnswers
<1>2. CASE Valid(batch.epoch)
  <2>1. PICK price \in [batch.asked -> Prices \cup {0}], late \in BOOLEAN :
          LET here == batch.asked \cap members
              empty == {s \in here : price[s] = 0}
              taken == {s \in here \ empty : Takes(s, price[s], late)}
          IN /\ snap' = [s \in SnSymbols |-> CASE s \in taken -> Fresh(price[s])
                                              [] s \in empty -> Staled(s)
                                              [] OTHER -> snap[s]]
             /\ \A s \in SnSymbols \ here : dueAt'[s] = dueAt[s]
             /\ batchGood' = (batchGood \ empty) \cup taken
    BY <1>2 DEF BatchAnswers
  <2> DEFINE here == batch.asked \cap members
             empty == {s \in here : price[s] = 0}
             taken == {s \in here \ empty : Takes(s, price[s], late)}
             given == [s \in taken |-> price[s]]
  <2>2. /\ taken \cap empty = {} /\ here \in SUBSET members
        /\ empty \in SUBSET members /\ taken \in SUBSET members
        /\ given \in [taken -> Nat]
    BY SnapshotAssumption
  <2>3. batch # NoJob /\ batch' = NoJob
    BY DEF BatchAnswers
  <2>4. empty \subseteq grouped /\ taken \subseteq grouped
    BY <2>3 DEF SnapshotInv, BatchIsGrouped
  <2>5. snap' = [s \in SnSymbols |-> IF s \in taken THEN Fresh(given[s])
                                     ELSE IF s \in empty THEN Staled(s) ELSE snap[s]]
    BY <2>1, <2>2
  <2>6. UNCHANGED <<grouped, members, fallback, attempted, enrichAt, retryAt, notBefore,
                    snNow, confirmedAt>>
    BY DEF BatchAnswers
  <2>7. /\ \A s \in SnSymbols \ here : dueAt'[s] = dueAt[s]
        /\ batchGood' = (batchGood \ empty) \cup taken
    BY <2>1
  <2> HIDE DEF here, empty, taken, given
  <2> QED
    BY <2>2, <2>3, <2>4, <2>5, <2>6, <2>7, BatchKeeps
<1> QED
  BY <1>1, <1>2

LEMMA BatchFailsKeeps == ASSUME SnapshotInv, BatchFails PROVE SnapshotInv'
<1>1. CASE ~Valid(batch.epoch)
  BY <1>1, LateBatchKeeps DEF BatchFails
<1>2. CASE Valid(batch.epoch)
  <2> DEFINE here == batch.asked \cap members
             nothing == [s \in {} |-> 0]
  <2>1. /\ snap' = [s \in SnSymbols |-> IF s \in here THEN Staled(s) ELSE snap[s]]
        /\ \A s \in SnSymbols \ here : dueAt'[s] = dueAt[s]
        /\ batchGood' = batchGood \ here
    BY <1>2 DEF BatchFails
  <2>2. batch # NoJob /\ batch' = NoJob
    BY DEF BatchFails
  <2>3. here \subseteq grouped /\ here \in SUBSET members
    BY <2>2 DEF SnapshotInv, BatchIsGrouped
  <2>4. UNCHANGED <<grouped, members, fallback, attempted, enrichAt, retryAt, notBefore,
                    snNow, confirmedAt>>
    BY DEF BatchFails
  <2>5. nothing \in [{} -> Nat]
    OBVIOUS
  <2>6. /\ snap' = [s \in SnSymbols |-> IF s \in {} THEN Fresh(nothing[s])
                                        ELSE IF s \in here THEN Staled(s) ELSE snap[s]]
        /\ batchGood' = (batchGood \ here) \cup {}
    BY <2>1
  <2> HIDE DEF here, nothing
  <2> QED
    BY <2>1, <2>2, <2>3, <2>4, <2>5, <2>6, BatchKeeps
<1> QED
  BY <1>1, <1>2

-----------------------------------------------------------------------------
\* An enrichment ends: one symbol changes.
LEMMA OneChanges ==
    ASSUME SnapshotInv, NEW s \in members,
           NEW new \in [at : Nat, stale : BOOLEAN, since : Instant],
           NEW behind \in [at : Nat, since : Nat], NEW when \in Instant,
           snap' = [snap EXCEPT ![s] = new], fallback' = [fallback EXCEPT ![s] = behind],
           confirmedAt' = [confirmedAt EXCEPT ![s] = when],
           retryAt' \in [SnSymbols -> Nat], notBefore' \in [SnSymbols -> Nat],
           \A o \in SnSymbols \ {s} : retryAt'[o] = retryAt[o] /\ notBefore'[o] = notBefore[o],
           UNCHANGED <<grouped, members, batch, attempted, dueAt, enrichAt, snNow, batchGood>>,
           Checked(s)', Backed(s)'
    PROVE  SnapshotInv'
<1>t. SnapshotTypes /\ members \subseteq SnSymbols /\ snNow \in Nat
  BY DEF SnapshotInv, SnapshotTypes
<1>1. SnapshotTypes'
  BY <1>t DEF SnapshotTypes
<1>2. BatchIsGrouped'
  BY DEF SnapshotInv, BatchIsGrouped
<1>3. ASSUME NEW o \in SnSymbols PROVE SymbolInv(o)'
  <2>1. CASE o = s
    BY <2>1 DEF SymbolInv, Forgotten
  <2>2. CASE o # s
    <3>1. snap'[o] = snap[o] /\ fallback'[o] = fallback[o] /\ confirmedAt'[o] = confirmedAt[o]
      BY <1>t, <2>2 DEF SnapshotTypes
    <3>2. o \notin members => /\ enrichAt'[o] = NoJob /\ o \notin attempted'
                              /\ dueAt'[o] = 0 /\ retryAt'[o] = 0 /\ notBefore'[o] = 0
      BY <2>2 DEF SnapshotInv, SymbolInv, Forgotten
    <3> QED
      BY <1>t, <3>1, <3>2, Untouched
  <2> QED
    BY <2>1, <2>2
<1> QED
  BY <1>1, <1>2, <1>3 DEF SnapshotInv

LEMMA RetryLaterTypes ==
    ASSUME SnapshotTypes, NEW s \in SnSymbols, RetryLater(s)
    PROVE  /\ retryAt' \in [SnSymbols -> Nat] /\ notBefore' \in [SnSymbols -> Nat]
           /\ \A o \in SnSymbols \ {s} : retryAt'[o] = retryAt[o] /\ notBefore'[o] = notBefore[o]
BY DEF RetryLater, Soon, SnapshotTypes

LEMMA EnrichmentFailsKeeps ==
    ASSUME SnapshotInv, NEW s \in SnSymbols, EnrichmentFails(s)
    PROVE  SnapshotInv'
<1>t. SnapshotTypes /\ s \in members /\ SymbolInv(s) /\ snNow \in Nat
  BY DEF SnapshotInv, SnapshotTypes, EnrichmentFails
<1>1. PICK cold \in Prices \cup {0} :
          snap' = [snap EXCEPT ![s] =
                      IF snap[s].at = 0 /\ cold # 0 THEN [at |-> cold, stale |-> TRUE, since |-> NoJob]
                      ELSE IF s \notin grouped /\ snap[s].at # 0 THEN [@ EXCEPT !.stale = TRUE]
                      ELSE @]
  BY DEF EnrichmentFails
<1> DEFINE new == snap'[s]
<1>2. /\ snap' = [snap EXCEPT ![s] = new]
      /\ new \in [at : Nat, stale : BOOLEAN, since : Instant]
      /\ new.since # NoJob => new.since = snap[s].since
      /\ new.stale \/ new = snap[s]
      /\ new.at # 0 /\ ~new.stale => s \in grouped
  BY <1>1, <1>t, SnapshotAssumption DEF SnapshotTypes
<1>3. /\ fallback' = [fallback EXCEPT ![s] = NoFallback] /\ fallback'[s] = NoFallback
      /\ confirmedAt' = [confirmedAt EXCEPT ![s] = NoJob]
      /\ NoFallback \in [at : Nat, since : Nat]
  BY <1>t DEF EnrichmentFails, NoFallback, SnapshotTypes
<1>4. UNCHANGED <<grouped, members, batch, attempted, dueAt, enrichAt, snNow, batchGood>>
  BY DEF EnrichmentFails, EnrichmentEnds
<1>5. Checked(s)'
  BY <1>t, <1>2, <1>3, <1>4 DEF SymbolInv, Checked, NoFallback
<1>6. Backed(s)'
  BY <1>t, <1>2, <1>3, <1>4 DEF SymbolInv, Backed, NoFallback
<1>7. /\ retryAt' \in [SnSymbols -> Nat] /\ notBefore' \in [SnSymbols -> Nat]
      /\ \A o \in SnSymbols \ {s} : retryAt'[o] = retryAt[o] /\ notBefore'[o] = notBefore[o]
  BY <1>t, RetryLaterTypes DEF EnrichmentFails
<1> HIDE DEF new
<1> QED
  BY <1>t, <1>2, <1>3, <1>4, <1>5, <1>6, <1>7, OneChanges

LEMMA EnrichmentSucceedsKeeps ==
    ASSUME SnapshotInv, NEW s \in SnSymbols, EnrichmentSucceeds(s)
    PROVE  SnapshotInv'
<1>t. SnapshotTypes /\ s \in members /\ SymbolInv(s) /\ snNow \in Nat
  BY DEF SnapshotInv, SnapshotTypes, EnrichmentSucceeds
<1>1. PICK price \in Prices :
          /\ fallback' = [fallback EXCEPT ![s] = [at |-> price, since |-> snNow]]
          /\ snap' = IF \/ snap[s].at = 0
                        \/ /\ s \notin grouped \/ snap[s].stale \/ snap[s].since # NoJob
                           /\ price >= snap[s].at
                     THEN [snap EXCEPT ![s] = [at |-> price, stale |-> FALSE,
                                               since |-> IF s \in grouped THEN snNow ELSE NoJob]]
                     ELSE snap
  BY DEF EnrichmentSucceeds
<1> DEFINE new == snap'[s]
           behind == [at |-> price, since |-> snNow]
<1>2. /\ snap' = [snap EXCEPT ![s] = new]
      /\ new \in [at : Nat, stale : BOOLEAN, since : Instant]
  BY <1>1, <1>t, SnapshotAssumption DEF SnapshotTypes
<1>3. \/ new = snap[s]
      \/ new = [at |-> price, stale |-> FALSE, since |-> IF s \in grouped THEN snNow ELSE NoJob]
  BY <1>1, <1>t DEF SnapshotTypes
<1>4. /\ fallback' = [fallback EXCEPT ![s] = behind] /\ fallback'[s] = behind
      /\ confirmedAt' = [confirmedAt EXCEPT ![s] = snNow] /\ confirmedAt'[s] = snNow
      /\ behind \in [at : Nat, since : Nat]
  BY <1>1, <1>t, SnapshotAssumption DEF EnrichmentSucceeds, SnapshotTypes
<1>5. UNCHANGED <<grouped, members, batch, attempted, dueAt, enrichAt, snNow, batchGood>>
  BY DEF EnrichmentSucceeds, EnrichmentEnds
<1>6. Checked(s)'
  BY <1>t, <1>3, <1>4, <1>5 DEF SymbolInv, Checked
<1>7. Backed(s)'
  BY <1>t, <1>3, <1>4, <1>5, SnapshotAssumption DEF SymbolInv, Checked, Backed
<1>8. /\ retryAt' \in [SnSymbols -> Nat] /\ notBefore' \in [SnSymbols -> Nat]
      /\ \A o \in SnSymbols \ {s} : retryAt'[o] = retryAt[o] /\ notBefore'[o] = notBefore[o]
  <2>1. (IF enrichAt[s] = NoJob THEN 0 ELSE enrichAt[s] + Cadence) \in Nat
    BY <1>t, SnapshotAssumption DEF SnapshotTypes
  <2>2. CASE RetryLater(s)
    BY <1>t, <2>2, RetryLaterTypes
  <2>3. CASE /\ notBefore' = [notBefore EXCEPT ![s] = 0]
             /\ retryAt' = [retryAt EXCEPT ![s] = IF enrichAt[s] = NoJob THEN 0
                                                   ELSE enrichAt[s] + Cadence]
    BY <1>t, <2>1, <2>3 DEF SnapshotTypes
  <2> QED
    BY <2>2, <2>3 DEF EnrichmentSucceeds
<1> HIDE DEF new, behind
<1> QED
  BY <1>t, <1>2, <1>4, <1>5, <1>6, <1>7, <1>8, OneChanges

\* A forced refresh ends.
LEMMA ForceEndsKeeps == ASSUME SnapshotInv, ForceEnds PROVE SnapshotInv'
<1>t. SnapshotTypes /\ snNow \in Nat /\ members \subseteq SnSymbols
  BY DEF SnapshotInv, SnapshotTypes
<1>0. UNCHANGED <<grouped, members, batch, attempted, notBefore, snNow>>
  BY DEF ForceEnds
<1>1. CASE ~Valid(manual.epoch)
  <2>1. UNCHANGED <<snap, fallback, dueAt, enrichAt, retryAt, batchGood, confirmedAt>>
    BY <1>1 DEF ForceEnds
  <2>2. SnapshotTypes' /\ BatchIsGrouped'
    BY <1>0, <2>1 DEF SnapshotInv, SnapshotTypes, BatchIsGrouped
  <2>3. ASSUME NEW s \in SnSymbols PROVE SymbolInv(s)'
    BY <1>0, <2>1 DEF SnapshotInv, SymbolInv, Checked, Backed, Forgotten
  <2> QED
    BY <2>2, <2>3 DEF SnapshotInv
<1>2. CASE Valid(manual.epoch)
  <2>1. PICK price \in [manual.asked -> Prices \cup {0}], late \in BOOLEAN, wait \in Soon :
          LET here == manual.asked \cap members
              taken == {s \in here \cap grouped : price[s] # 0 /\ Takes(s, price[s], late)}
          IN /\ snap' = [s \in SnSymbols |-> IF s \in taken THEN Fresh(price[s]) ELSE snap[s]]
             /\ fallback' = [s \in SnSymbols |->
                    IF s \in taken THEN [at |-> price[s], since |-> snNow] ELSE fallback[s]]
             /\ dueAt' = [s \in SnSymbols |-> IF s \in taken THEN snNow + wait ELSE dueAt[s]]
             /\ retryAt' = [s \in SnSymbols |-> IF s \in here THEN notBefore[s] ELSE retryAt[s]]
             /\ batchGood' = batchGood \cup taken
             /\ confirmedAt' = [s \in SnSymbols |-> IF s \in taken THEN snNow ELSE confirmedAt[s]]
             /\ Enrich({}, batch # NoJob,
                       [s \in SnSymbols |-> IF s \in here THEN NoJob ELSE enrichAt[s]], retryAt')
    BY <1>2 DEF ForceEnds
  <2> DEFINE here == manual.asked \cap members
             taken == {s \in here \cap grouped : price[s] # 0 /\ Takes(s, price[s], late)}
             at == [s \in SnSymbols |-> IF s \in here THEN NoJob ELSE enrichAt[s]]
  <2>2. taken \subseteq members /\ taken \subseteq grouped /\ here \subseteq members
        /\ \A s \in taken : price[s] \in Nat
    BY SnapshotAssumption
  <2>3. at \in [SnSymbols -> Instant] /\ \A s \in SnSymbols \ members : at[s] = enrichAt[s]
    BY <1>t DEF SnapshotTypes
  <2>4. enrichAt' \in [SnSymbols -> Instant] /\ \A s \in SnSymbols \ members : enrichAt'[s] = enrichAt[s]
    <3>1. Enrich({}, batch # NoJob, at, retryAt')
      BY <2>1
    <3> HIDE DEF at
    <3> QED
      BY <1>t, <2>3, <3>1, EnrichAsksMembers
  <2> HIDE DEF here, taken, at
  <2>5. /\ \A s \in SnSymbols :
             /\ snap'[s] = IF s \in taken THEN Fresh(price[s]) ELSE snap[s]
             /\ fallback'[s] = IF s \in taken THEN [at |-> price[s], since |-> snNow] ELSE fallback[s]
             /\ dueAt'[s] = IF s \in taken THEN snNow + wait ELSE dueAt[s]
             /\ retryAt'[s] = IF s \in here THEN notBefore[s] ELSE retryAt[s]
             /\ confirmedAt'[s] = IF s \in taken THEN snNow ELSE confirmedAt[s]
        /\ batchGood' = batchGood \cup taken
    BY <2>1 DEF here, taken
  <2>6. SnapshotTypes'
    <3>1. snap' \in [SnSymbols -> [at : Nat, stale : BOOLEAN, since : Instant]]
      <4>1. snap' = [s \in SnSymbols |-> IF s \in taken THEN Fresh(price[s]) ELSE snap[s]]
        BY <2>1 DEF here, taken
      <4> QED
        BY <1>t, <2>2, <4>1 DEF SnapshotTypes, Fresh
    <3>2. fallback' \in [SnSymbols -> [at : Nat, since : Nat]]
      <4>1. fallback' = [s \in SnSymbols |->
               IF s \in taken THEN [at |-> price[s], since |-> snNow] ELSE fallback[s]]
        BY <2>1 DEF here, taken
      <4> QED
        BY <1>t, <2>2, <4>1 DEF SnapshotTypes
    <3>3. retryAt' \in [SnSymbols -> Nat] /\ confirmedAt' \in [SnSymbols -> Instant]
      <4>1. /\ retryAt' = [s \in SnSymbols |-> IF s \in here THEN notBefore[s] ELSE retryAt[s]]
            /\ confirmedAt' = [s \in SnSymbols |-> IF s \in taken THEN snNow ELSE confirmedAt[s]]
        BY <2>1 DEF here, taken
      <4> QED
        BY <1>t, <4>1 DEF SnapshotTypes
    <3> QED
      BY <1>0, <1>t, <2>4, <3>1, <3>2, <3>3 DEF SnapshotTypes
  <2>7. BatchIsGrouped'
    BY <1>0 DEF SnapshotInv, BatchIsGrouped
  <2>8. ASSUME NEW s \in SnSymbols PROVE SymbolInv(s)'
    <3>0. SymbolInv(s)
      BY DEF SnapshotInv
    <3>1. s \notin members => /\ enrichAt'[s] = NoJob /\ s \notin attempted'
                              /\ dueAt'[s] = 0 /\ retryAt'[s] = 0 /\ notBefore'[s] = 0
      BY <1>0, <2>2, <2>4, <2>5, <3>0 DEF SymbolInv, Forgotten
    <3>2. CASE s \in taken
      <4>1. /\ snap'[s] = Fresh(price[s]) /\ fallback'[s] = [at |-> price[s], since |-> snNow]
            /\ confirmedAt'[s] = snNow /\ s \in batchGood' /\ s \in members /\ s \in grouped
        BY <2>2, <2>5, <3>2
      <4> QED
        BY <1>0, <1>t, <4>1 DEF Fresh, SymbolInv, Checked, Backed, Forgotten
    <3>3. CASE s \notin taken
      <4>1. /\ snap'[s] = snap[s] /\ fallback'[s] = fallback[s] /\ confirmedAt'[s] = confirmedAt[s]
            /\ s \in batchGood => s \in batchGood'
        BY <2>5, <3>3
      <4> QED
        BY <1>0, <1>t, <3>1, <4>1, Untouched
    <3> QED
      BY <3>2, <3>3
  <2> QED
    BY <2>6, <2>7, <2>8 DEF SnapshotInv
<1> QED
  BY <1>1, <1>2

-----------------------------------------------------------------------------
\* Steps that concern no symbol: start, the clock, an enrichment of no use.
LEMMA OthersKeep ==
    ASSUME SnapshotInv, snNow' \in Nat, snNow' >= snNow,
           UNCHANGED <<grouped, members, snap, fallback, batch, attempted, dueAt, enrichAt, retryAt,
                       notBefore, batchGood, confirmedAt>>
    PROVE  SnapshotInv'
<1>1. SnapshotTypes' /\ BatchIsGrouped'
  BY DEF SnapshotInv, SnapshotTypes, BatchIsGrouped
<1>2. ASSUME NEW s \in SnSymbols PROVE SymbolInv(s)'
  BY Untouched DEF SnapshotInv, SymbolInv, Forgotten
<1> QED
  BY <1>1, <1>2 DEF SnapshotInv

LEMMA SnapshotStep == SnapshotInv /\ [SnapshotsNext]_snVars => SnapshotInv'
<1> SUFFICES ASSUME SnapshotInv, [SnapshotsNext]_snVars PROVE SnapshotInv'
  OBVIOUS
<1>t. snNow \in Nat /\ members \subseteq SnSymbols
  BY DEF SnapshotInv, SnapshotTypes
<1>1. ASSUME NEW s \in SnSymbols, Get(s) PROVE SnapshotInv'
  BY <1>1, JoinKeeps DEF Get
<1>2. ASSUME NEW s \in SnSymbols, Leave(s) PROVE SnapshotInv'
  BY <1>2, DropKeeps DEF Leave
<1>3. ASSUME NEW s \in SnSymbols, EnrichmentDropped(s) PROVE SnapshotInv'
  BY <1>3, <1>t, OthersKeep DEF EnrichmentDropped, EnrichmentEnds
<1>4. ASSUME NEW s \in SnSymbols, EnrichmentFails(s) \/ EnrichmentSucceeds(s) PROVE SnapshotInv'
  BY <1>4, EnrichmentFailsKeeps, EnrichmentSucceedsKeeps
<1>5. ASSUME NEW asked \in SUBSET SnSymbols, ForceAsk(asked) PROVE SnapshotInv'
  BY <1>5, JoinKeeps DEF ForceAsk
<1>6. CASE SnapshotTick
  BY <1>6, TickKeeps
<1>7. CASE BatchAnswers \/ BatchFails
  BY <1>7, BatchAnswersKeeps, BatchFailsKeeps
<1>8. CASE ForceEnds
  BY <1>8, ForceEndsKeeps
<1>9. CASE StartSnapshots \/ SnapshotSecond \/ UNCHANGED snVars
  BY <1>9, <1>t, OthersKeep DEF StartSnapshots, SnapshotSecond, snVars
<1>10. CASE StopSnapshots
  BY <1>10, DropKeeps DEF StopSnapshots
<1> QED
  BY <1>1, <1>2, <1>3, <1>4, <1>5, <1>6, <1>7, <1>8, <1>9, <1>10 DEF SnapshotsNext

LEMMA SnapshotInvariant == SnapshotsSpec => []SnapshotInv
BY SnapshotInit, SnapshotStep, PTL DEF SnapshotsSpec

-----------------------------------------------------------------------------
(* Nothing is shown as current without a source behind it, and nothing is left of a    *)
(* symbol that has gone, for any cadence, any prices and any order of batches,           *)
(* enrichments, forced refreshes, failures, starts and stops (snapshot-service.js).      *)
THEOREM CurrentIsConfirmed == SnapshotsSpec => []ShownIsConfirmed
<1>1. ASSUME SnapshotInv PROVE ShownIsConfirmed
  <2> SUFFICES ASSUME NEW s \in SnSymbols, s \in members, snap[s].at # 0, ~Shown(s).stale,
                      s \notin batchGood
               PROVE  confirmedAt[s] # NoJob /\ (s \notin grouped \/ snNow - confirmedAt[s] < Cadence)
    BY <1>1 DEF ShownIsConfirmed, SnapshotInv, SymbolInv, Forgotten
  <2>1. /\ Checked(s) /\ Backed(s) /\ snap[s].since \in Instant /\ snNow \in Nat
        /\ fallback[s].since \in Nat /\ NoJob \notin Nat /\ Cadence \in Nat
    BY <1>1, SnapshotAssumption DEF SnapshotInv, SymbolInv, SnapshotTypes
  <2>2. /\ ~snap[s].stale
        /\ snap[s].since # NoJob => fallback[s].at # 0 /\ ~(snNow - snap[s].since >= Cadence)
    BY DEF Shown
  <2>3. CASE s \notin grouped
    BY <2>1, <2>2, <2>3 DEF Backed
  <2>4. CASE s \in grouped
    <3>1. snap[s].since # NoJob
      BY <2>1, <2>2, <2>4 DEF Backed
    <3>2. confirmedAt[s] = fallback[s].since /\ snap[s].since <= fallback[s].since
      BY <2>1, <2>2, <2>4, <3>1 DEF Backed, Checked
    <3> QED
      BY <2>1, <2>2, <3>1, <3>2
  <2> QED
    BY <2>3, <2>4
<1> QED
  BY <1>1, SnapshotInvariant, PTL

(* The price shown of a member never goes back in time, whichever of the batch, the      *)
(* enrichment, the forced refresh or a failure writes last (snapshot-service.js).          *)
THEOREM PricesGoForward == SnapshotsSpec => ShownPriceNeverGoesBack
<1> DEFINE Forward == \A s \in members : s \in members' => snap'[s].at >= snap[s].at
<1>1. SnapshotInv /\ [SnapshotsNext]_snVars => [Forward]_snVars
  <2> SUFFICES ASSUME SnapshotInv, SnapshotsNext, NEW s \in members, s \in members'
               PROVE  snap'[s].at >= snap[s].at
    OBVIOUS
  <2>t. SnapshotTypes /\ s \in SnSymbols /\ snap[s].at \in Nat
    BY DEF SnapshotInv, SnapshotTypes
  <2>1. CASE snap'[s] = snap[s]
    BY <2>1, <2>t
  <2>2. ASSUME NEW o \in SnSymbols, EnrichmentFails(o) PROVE snap'[s].at >= snap[s].at
    BY <2>2, <2>t, SnapshotAssumption DEF EnrichmentFails, SnapshotTypes
  <2>3. ASSUME NEW o \in SnSymbols, EnrichmentSucceeds(o) PROVE snap'[s].at >= snap[s].at
    BY <2>3, <2>t, SnapshotAssumption DEF EnrichmentSucceeds, SnapshotTypes
  <2>s. Staled(s).at >= snap[s].at
    BY <2>t, StaledIsBacked
  <2>c. ASSUME NEW p \in Prices \cup {0}, NEW late \in BOOLEAN, Takes(s, p, late),
               snap'[s] = Fresh(p)
        PROVE  snap'[s].at >= snap[s].at
    <3>1. snap'[s].at = p
      BY <2>c DEF Fresh
    <3>2. p \in Nat
      BY SnapshotAssumption
    <3>3. p >= snap[s].at
      BY <2>c, <2>t, <3>2 DEF Takes
    <3> QED
      BY <3>1, <3>3
  <2>4. CASE BatchAnswers
    <3>1. \/ snap'[s] = snap[s] \/ snap'[s] = Staled(s)
          \/ \E p \in Prices \cup {0}, late \in BOOLEAN : Takes(s, p, late) /\ snap'[s] = Fresh(p)
      BY <2>4, <2>t DEF BatchAnswers
    <3> QED
      BY <2>1, <2>s, <2>c, <3>1
  <2>5. CASE BatchFails
    BY <2>5, <2>t, <2>s DEF BatchFails
  <2>6. CASE ForceEnds
    <3>1. CASE ~Valid(manual.epoch)
      BY <2>1, <2>6, <3>1 DEF ForceEnds
    <3>2. CASE Valid(manual.epoch)
      <4>1. PICK price \in [manual.asked -> Prices \cup {0}], late \in BOOLEAN :
              LET here == manual.asked \cap members
                  taken == {o \in here \cap grouped : price[o] # 0 /\ Takes(o, price[o], late)}
              IN snap' = [o \in SnSymbols |-> IF o \in taken THEN Fresh(price[o]) ELSE snap[o]]
        BY <2>6, <3>2 DEF ForceEnds
      <4>2. CASE s \in manual.asked /\ Takes(s, price[s], late) /\ snap'[s] = Fresh(price[s])
        BY <2>c, <4>2
      <4>3. CASE snap'[s] = snap[s]
        BY <2>1, <4>3
      <4> QED
        BY <2>t, <4>1, <4>2, <4>3
    <3> QED
      BY <3>1, <3>2
  <2>7. ASSUME NEW gone \in SUBSET SnSymbols, DropAll(gone) PROVE snap'[s] = snap[s]
    BY <2>7, <2>t DEF DropAll
  <2>8. CASE StopSnapshots \/ \E o \in SnSymbols : Leave(o)
    <3>1. members \in SUBSET SnSymbols
      BY <2>t DEF SnapshotTypes
    <3> QED
      BY <2>1, <2>7, <2>8, <3>1 DEF StopSnapshots, Leave
  <2>9. CASE UNCHANGED snap
    BY <2>1, <2>9
  <2> QED
    BY <2>2, <2>3, <2>4, <2>5, <2>6, <2>8, <2>9
    DEF SnapshotsNext, Get, EnrichmentDropped, ForceAsk, SnapshotTick, StartSnapshots,
        SnapshotSecond
<1> QED
  BY <1>1, SnapshotInvariant, PTL DEF SnapshotsSpec, ShownPriceNeverGoesBack
-----------------------------------------------------------------------------
Stages == {"idle", "waits", "resumes"}
Batches == [owner : Nat, symbols : SUBSET PollSymbols, stage : {"queued", "asked"}]
Calls == [stage : Stages, want : SUBSET PollSymbols, left : SUBSET PollSymbols,
          covered : SUBSET PollSymbols, owner : Nat, force : BOOLEAN,
          ok : SUBSET PollSymbols]

PollTypeOK ==
    /\ pollEpoch \in Nat
    /\ pollJob \in Batches \cup {NoBatch}
    /\ reading \in [PollCallers -> Calls]
    /\ polled \in [PollSymbols -> {NoQuoteYet, pollEpoch}]

\* Nobody belongs to an epoch that is still to come.
OwnersPast ==
    /\ pollJob # NoBatch => pollJob.owner <= pollEpoch
    /\ \A c \in PollCallers : reading[c].owner <= pollEpoch

\* What the batch under way will have asked for when it settles.
Coming == IF pollJob # NoBatch /\ pollJob.owner = pollEpoch THEN pollJob.symbols ELSE {}

\* What a call of this epoch wants has been asked for, or comes with the batch it
\* waits for, or is what it will ask for next.
Accounted(call) ==
    /\ call.stage = "waits" => pollJob # NoBatch
    /\ call.owner = pollEpoch =>
          /\ call.stage = "waits" => call.want \subseteq call.ok \cup call.covered \cup Coming
          /\ call.stage = "resumes" => call.want \subseteq call.ok \cup call.covered

PollInv ==
    /\ PollTypeOK
    /\ OwnersPast
    /\ missed = {}
    /\ \A c \in PollCallers : Accounted(reading[c])

\* A call that looks at what is left: the rest of what it wants is accounted for.
Looking(call) ==
    /\ call \in Calls /\ call.owner <= pollEpoch
    /\ call.owner = pollEpoch => call.want \subseteq call.ok \cup call.left
-----------------------------------------------------------------------------
(* read() keeps the invariant: it joins, asks, or comes back with nothing missed. *)
LEMMA ReadKeeps ==
    ASSUME PollInv, NEW c \in PollCallers, NEW call, Looking(call), Read(c, call),
           reading[c].stage # "waits", UNCHANGED <<pollEpoch, due, polled>>
    PROVE  PollInv'
<1> USE DEF PollInv, PollTypeOK, Calls, Batches, Stages, Looking
<1>1. CASE call.owner # pollEpoch /\ Returns(c, call) /\ UNCHANGED pollJob
  BY <1>1 DEF Returns, NotReading, OwnersPast, Accounted, Coming
<1>2. CASE /\ call.owner = pollEpoch /\ pollJob # NoBatch
           /\ reading' = [reading EXCEPT ![c] =
                  [call EXCEPT !.stage = "waits", !.covered = Uncovered(call, pollJob)]]
           /\ missed' = {} /\ UNCHANGED pollJob
  BY <1>2 DEF Uncovered, OwnersPast, Accounted, Coming
<1>3. CASE call.owner = pollEpoch /\ pollJob = NoBatch
  <2> DEFINE ask == IF call.force THEN call.left ELSE call.left \cap due
             seen == [call EXCEPT !.ok = @ \cup (call.left \ ask)]
  <2>1. /\ ask \subseteq PollSymbols /\ seen \in Calls /\ seen.owner = pollEpoch
        /\ seen.want = call.want /\ seen.ok = call.ok \cup (call.left \ ask)
    BY <1>3
  <2>2. CASE ask = {} /\ Returns(c, seen) /\ UNCHANGED pollJob
    <3>1. missed' = {}
      BY <1>3, <2>1, <2>2 DEF Returns
    <3>2. QED
      BY <1>3, <2>2, <3>1 DEF Returns, NotReading, OwnersPast, Accounted, Coming
  <2>3. CASE /\ pollJob' = [owner |-> call.owner, symbols |-> ask, stage |-> "queued"]
             /\ reading' = [reading EXCEPT ![c] = [seen EXCEPT !.stage = "waits", !.covered = {}]]
             /\ missed' = {}
    <3> HIDE DEF ask, seen
    <3>1. pollJob' \in Batches /\ pollJob' # NoBatch
      BY <1>3, <2>1, <2>3, PollAssumption
    <3>2. PollTypeOK' /\ OwnersPast'
      BY <1>3, <2>1, <2>3, <3>1 DEF OwnersPast
    <3>3. ASSUME NEW d \in PollCallers PROVE Accounted(reading[d])'
      <4>1. CASE d = c
        BY <1>3, <2>1, <2>3, <3>1, <4>1 DEF Accounted, Coming
      <4>2. CASE d # c
        BY <1>3, <2>1, <2>3, <3>1, <4>2 DEF Accounted, Coming
      <4>3. QED
        BY <4>1, <4>2
    <3>4. QED
      BY <2>3, <3>2, <3>3
  <2>4. QED
    BY <1>3, <2>2, <2>3 DEF Read
<1>4. QED
  BY <1>1, <1>2, <1>3 DEF Read

(* A batch that settles has asked for what those who wait in its epoch rely on.   *)
LEMMA SettledKeeps ==
    ASSUME PollInv, NEW asking \in BOOLEAN, Settled(asking), pollJob # NoBatch,
           asking <=> OfThisEpoch, pollEpoch' = pollEpoch,
           polled' \in [PollSymbols -> {NoQuoteYet, pollEpoch}]
    PROVE  PollInv'
<1>1. ASSUME NEW c \in PollCallers
      PROVE  /\ reading'[c] \in Calls /\ reading'[c].owner <= pollEpoch /\ Accounted(reading[c])'
  <2>1. reading[c] \in Calls /\ reading[c].owner <= pollEpoch /\ Accounted(reading[c])
    BY DEF PollInv, PollTypeOK, OwnersPast
  <2>2. pollJob' = NoBatch
    BY DEF Settled
  <2>3. CASE reading[c].stage # "waits"
    <3>1. reading'[c] = reading[c]
      BY <2>3 DEF Settled
    <3>2. QED
      BY <2>1, <2>2, <2>3, <3>1 DEF Accounted
  <2>4. CASE reading[c].stage = "waits"
    <3> DEFINE told == IF asking /\ reading[c].owner = pollEpoch
                       THEN reading[c].ok \cup pollJob.symbols ELSE reading[c].ok
    <3>1. reading'[c] = [reading[c] EXCEPT !.stage = "resumes", !.ok = told]
      BY <2>4 DEF Settled
    <3>2. told \subseteq PollSymbols
      BY <2>1 DEF Calls, PollInv, PollTypeOK, Batches
    <3>3. /\ reading'[c] \in Calls /\ reading'[c].owner = reading[c].owner
          /\ reading'[c].stage = "resumes" /\ reading'[c].ok = told
          /\ reading'[c].want = reading[c].want /\ reading'[c].covered = reading[c].covered
      <4> HIDE DEF told
      <4>1. QED
        BY <2>1, <3>1, <3>2 DEF Calls, Stages
    <3>4. reading[c].owner = pollEpoch => reading[c].want \subseteq told \cup reading[c].covered
      BY <2>1, <2>4 DEF Accounted, Coming, OfThisEpoch
    <3>5. QED
      <4> HIDE DEF told
      <4>1. QED
        BY <2>1, <3>3, <3>4 DEF Accounted
  <2>5. QED
    BY <2>3, <2>4
<1>2. reading' \in [PollCallers -> Calls]
  BY <1>1 DEF Settled
<1>3. QED
  BY <1>1, <1>2 DEF PollInv, PollTypeOK, OwnersPast, Settled
-----------------------------------------------------------------------------
(* Every step of the source keeps the invariant (lib/providers/fast-polling.js).   *)
LEMMA StepKeepsPollInv == PollInv /\ [PollNext]_pollVars => PollInv'
<1> SUFFICES ASSUME PollInv, [PollNext]_pollVars PROVE PollInv'
  OBVIOUS
<1>1. ASSUME NEW c \in PollCallers, NEW want \in SUBSET PollSymbols, NEW force \in BOOLEAN,
             Call(c, want, force)
      PROVE  PollInv'
  <2>1. Looking(NewCall(want, force))
    BY DEF PollInv, PollTypeOK, Looking, Calls, Stages, NewCall
  <2>2. QED
    BY <1>1, <2>1, ReadKeeps DEF Call
<1>2. ASSUME NEW c \in PollCallers, Resume(c) PROVE PollInv'
  <2> DEFINE call == [reading[c] EXCEPT !.left = reading[c].covered, !.covered = {}]
  <2>1. Looking(call) /\ reading[c].stage = "resumes"
    <3>1. /\ reading[c] \in Calls /\ reading[c].owner <= pollEpoch /\ Accounted(reading[c])
          /\ reading[c].stage = "resumes"
      BY <1>2 DEF Resume, PollInv, PollTypeOK, OwnersPast
    <3>2. /\ call \in Calls /\ call.owner = reading[c].owner /\ call.want = reading[c].want
          /\ call.ok = reading[c].ok /\ call.left = reading[c].covered
      BY <3>1 DEF Calls
    <3>3. QED
      <4> HIDE DEF call
      <4>1. QED
        BY <3>1, <3>2 DEF Looking, Accounted
  <2>2. CASE call.left = {} /\ Returns(c, call) /\ UNCHANGED pollJob
    <3>1. missed' = {}
      BY <2>1, <2>2 DEF Returns, Looking
    <3>2. QED
      BY <1>2, <2>2, <3>1 DEF Resume, Returns, NotReading, PollInv, PollTypeOK, OwnersPast,
                              Calls, Stages, Accounted, Coming
  <2>3. CASE Read(c, call)
    BY <1>2, <2>1, <2>3, ReadKeeps DEF Resume
  <2>4. QED
    BY <1>2, <2>2, <2>3 DEF Resume
<1>3. CASE BatchAsks
  <2>1. CASE OfThisEpoch
    <3>1. /\ pollJob \in Batches /\ pollJob' = [pollJob EXCEPT !.stage = "asked"]
          /\ missed' = {} /\ UNCHANGED <<reading, pollEpoch, due, polled>>
      BY <1>3, <2>1 DEF BatchAsks, PollInv, PollTypeOK
    <3>2. /\ pollJob' \in Batches /\ pollJob' # NoBatch
          /\ pollJob'.owner = pollJob.owner /\ pollJob'.symbols = pollJob.symbols
      BY <3>1, PollAssumption DEF Batches
    <3>3. Coming' = Coming
      BY <1>3, <3>1, <3>2 DEF BatchAsks, Coming
    <3>4. ASSUME NEW c \in PollCallers PROVE Accounted(reading[c])'
      BY <3>1, <3>2, <3>3 DEF PollInv, Accounted
    <3>5. QED
      BY <1>3, <3>1, <3>2, <3>4 DEF BatchAsks, PollInv, PollTypeOK, OwnersPast
  <2>2. CASE ~OfThisEpoch
    BY <1>3, <2>2, SettledKeeps DEF BatchAsks, PollInv, PollTypeOK
  <2>3. QED
    BY <2>1, <2>2
<1>4. ASSUME NEW answered \in SUBSET PollSymbols, BatchSettles(answered) PROVE PollInv'
  <2>1. polled' \in [PollSymbols -> {NoQuoteYet, pollEpoch}]
    BY <1>4 DEF BatchSettles, OfThisEpoch, PollInv, PollTypeOK, Batches
  <2>2. QED
    BY <1>4, <2>1, SettledKeeps DEF BatchSettles, OfThisEpoch
<1>5. ASSUME NEW s \in PollSymbols, FallsDue(s) PROVE PollInv'
  BY <1>5 DEF FallsDue, PollInv, PollTypeOK, OwnersPast, Accounted, Coming
<1>6. CASE Reset
  <2>1. PollTypeOK' /\ OwnersPast'
    BY <1>6 DEF Reset, PollInv, PollTypeOK, OwnersPast, Calls, Batches
  <2>2. \A c \in PollCallers : reading'[c].owner # pollEpoch'
    BY <1>6 DEF Reset, PollInv, PollTypeOK, OwnersPast, Calls
  <2>3. QED
    BY <1>6, <2>1, <2>2 DEF Reset, PollInv, Accounted
<1>7. CASE UNCHANGED pollVars
  BY <1>7 DEF pollVars, PollInv, PollTypeOK, OwnersPast, Accounted, Coming
<1>8. QED
  BY <1>1, <1>2, <1>3, <1>4, <1>5, <1>6, <1>7 DEF PollNext

(* A read that comes back in its own epoch was told of every symbol it wants, also *)
(* when it had joined batches of other symbols or of before a reset, and nothing    *)
(* asked for before a reset is cached after it.                                      *)
THEOREM PollingMissesNothing == PollSpec => []SharedBatchesMissNothing
<1>1. PollInit => PollInv
  BY DEF PollInit, PollInv, PollTypeOK, OwnersPast, Calls, Stages, Batches, NotReading,
         Accounted, Coming
<1>2. PollInv => SharedBatchesMissNothing
  BY DEF PollInv, PollTypeOK, SharedBatchesMissNothing
<1>3. QED
  BY <1>1, <1>2, StepKeepsPollInv, PTL DEF PollSpec
-----------------------------------------------------------------------------
(* The trade stream.  The client, the requests and messages on their way, and a   *)
(* batch of the REST source.                                                       *)
Made == [id : Nat \ {0}, at : Nat \ {0}]
Requests == [kind : {"subscribe", "unsubscribe"}, list : SUBSET AlSymbols]
Clients == [running : BOOLEAN, gen : Nat, active : SUBSET AlSymbols, socket : Nat,
            auth : BOOLEAN, fatal : BOOLEAN, blocked : BOOLEAN, requested : SUBSET AlSymbols,
            acknowledged : SUBSET AlSymbols, backoff : BOOLEAN, quiet : BOOLEAN,
            sent : Seq(Requests)]
Messages == [kind : {"welcome", "error", "limit"}]
            \cup [kind : {"list"}, list : SUBSET AlSymbols]
            \cup [kind : {"trade", "cancel"}, symbol : AlSymbols, trade : Made]
RestBatches == [gen : Nat, symbols : SUBSET AlSymbols,
                read : [AlSymbols -> Made \cup {NoTrade}] \cup {<<>>}]
Records == [trade : Made \cup {NoTrade}, invalid : Nat, gen : Nat]
Showings == [at : Nat, gone : Nat]
Tapes == [AlSymbols -> Seq(Nat \ {0})]

AlTypeOK ==
    /\ al \in Clients
    /\ record \in [AlSymbols -> Records] /\ shown \in [AlSymbols -> Showings]
    /\ rest \in RestBatches \cup {NoRest}
    /\ opened \in 0..MaxConnections
    /\ inbox \in [Conn -> Seq(Messages)]
    /\ subscribed \subseteq AlSymbols
    /\ tape \in Tapes

\* The trade of a record is the one shown last; where there is none, nothing shown was
\* made after the instant that is invalid, which is never before that of a cancelled one.
Past(rec, was) ==
    /\ was.gone <= rec.invalid
    /\ IF rec.trade # NoTrade THEN was.at = rec.trade.at ELSE was.at <= rec.invalid
ShownIsPast == \A s \in AlSymbols : Past(record[s], shown[s])

\* Without a login nothing has been asked for, and without a socket there is none.
Coupled(a) ==
    /\ a \in Clients /\ a.socket <= opened
    /\ a.auth => a.socket # 0
    /\ a.socket # 0 => a.running
    /\ ~a.auth => a.sent = <<>> /\ a.acknowledged = {}

\* The last list on its way is what the provider has; without one on its way the
\* client has acknowledged no more.  Before the login there is none.
Lists(q) == {i \in 1..Len(q) : q[i].kind = "list"}
Truth(q, acknowledged, auth) ==
    /\ \A i \in Lists(q) : (\A j \in Lists(q) : j <= i) => q[i].list = subscribed
    /\ Lists(q) = {} => acknowledged \subseteq subscribed
    /\ ~auth => Lists(q) = {}
ListsTellTheTruth ==
    al.socket # 0 => Truth(inbox[al.socket], al.acknowledged, al.auth)

\* A connection that is still to come has no messages.
FutureIsEmpty == \A k \in Conn : k > opened => inbox[k] = <<>>

AlpacaInv ==
    /\ AlTypeOK /\ ShownIsPast
    /\ Coupled(al) /\ ListsTellTheTruth /\ FutureIsEmpty
-----------------------------------------------------------------------------
\* What a step may make of the client: the socket stays, with no more acknowledged
\* and no login lost; or it goes; or a new one opens.
Follows(a) ==
    /\ a \in Clients /\ a.gen >= al.gen
    /\ a.auth => a.socket # 0
    /\ a.socket # 0 => a.running
    /\ ~a.auth => a.sent = <<>> /\ a.acknowledged = {}
    /\ \/ a.socket = al.socket /\ a.acknowledged \subseteq al.acknowledged /\ (al.auth => a.auth)
       \/ a.socket = 0
       \/ a.socket = opened + 1 /\ opened < MaxConnections /\ ~a.auth

LEMMA ClientFollows == ASSUME AlpacaInv PROVE Follows(al)
BY DEF AlpacaInv, AlTypeOK, Coupled, Follows, Clients

LEMMA DisconnectedFollows == ASSUME AlpacaInv, NEW a, Follows(a) PROVE Follows(Disconnected(a))
<1> DEFINE d == Disconnected(a)
<1>1. a \in Clients /\ <<>> \in Seq(Requests)
  BY DEF Follows
<1>2. /\ d \in Clients /\ d.gen = a.gen /\ d.running = a.running /\ d.socket = 0 /\ ~d.auth
      /\ d.sent = <<>> /\ d.acknowledged = {}
  BY <1>1 DEF Clients, Disconnected
<1> HIDE DEF d
<1>3. Follows(d)
  BY <1>2 DEF Follows
<1>4. QED
  BY <1>3 DEF d

LEMMA FailedFollows ==
    ASSUME AlpacaInv, NEW permanent \in BOOLEAN
    PROVE  Follows(Failed(al, permanent)) /\ Failed(al, permanent).socket = 0
<1> DEFINE d == Disconnected(al)
           e == Failed(al, permanent)
<1>1. Follows(d) /\ d.socket = 0 /\ ~d.auth
  BY ClientFollows, DisconnectedFollows DEF Disconnected, AlpacaInv, AlTypeOK, Clients
<1>2. e = [d EXCEPT !.backoff = TRUE, !.fatal = @ \/ permanent]
  BY DEF Failed
<1> HIDE DEF d, e
<1>3. e \in Clients /\ e.gen = d.gen /\ e.running = d.running /\ e.socket = d.socket /\ e.auth = d.auth
      /\ e.sent = d.sent /\ e.acknowledged = d.acknowledged
  BY <1>1, <1>2 DEF Follows, Clients
<1>4. QED
  BY <1>1, <1>3 DEF Follows, e

LEMMA ConnectedFollows == ASSUME AlpacaInv, NEW a, Follows(a) PROVE Follows(Connected(a))
<1>1. CASE ~Connects(a)
  BY <1>1 DEF Connected
<1>2. CASE Connects(a)
  <2> DEFINE e == Connected(a)
  <2>1. e = [a EXCEPT !.socket = opened + 1] /\ a.running /\ a.socket = 0 /\ opened < MaxConnections
    BY <1>2 DEF Connected, Connects
  <2>2. opened \in Nat
    BY AlpacaAssumption DEF AlpacaInv, AlTypeOK
  <2> HIDE DEF e
  <2>3. a \in Clients /\ opened + 1 \in Nat /\ opened + 1 # 0
    BY <2>2 DEF Follows
  <2>4. e \in Clients /\ e.gen = a.gen /\ e.running = a.running /\ e.socket = opened + 1 /\ e.auth = a.auth
        /\ e.sent = a.sent /\ e.acknowledged = a.acknowledged
    BY <2>1, <2>3 DEF Clients
  <2>5. ~a.auth
    BY <2>1 DEF Follows
  <2>6. Follows(e)
    BY <2>1, <2>3, <2>4, <2>5 DEF Follows
  <2>7. QED
    BY <2>6 DEF e
<1>3. QED
  BY <1>1, <1>2

LEMMA ReconciledFollows == ASSUME AlpacaInv, NEW a, Follows(a) PROVE Follows(Reconciled(a))
<1> DEFINE ask(symbols, kind) == IF symbols = {} THEN <<>> ELSE <<[kind |-> kind, list |-> symbols]>>
           more == ask(a.requested \ a.active, "unsubscribe") \o ask(a.active \ a.requested, "subscribe")
           e == [a EXCEPT !.quiet = TRUE, !.requested = a.active,
                          !.sent = @ \o ask(a.requested \ a.active, "unsubscribe")
                                     \o ask(a.active \ a.requested, "subscribe")]
<1>1. Reconciled(a) = a \/ (a.auth /\ Reconciled(a) = e)
  BY DEF Reconciled
<1>2. ASSUME a.auth PROVE Follows(e)
  <2>1. /\ ask(a.requested \ a.active, "unsubscribe") \in Seq(Requests)
        /\ ask(a.active \ a.requested, "subscribe") \in Seq(Requests)
    <3>1. a.active \subseteq AlSymbols /\ a.requested \subseteq AlSymbols
      BY DEF Follows, Clients
    <3>2. \A x \in Requests : <<x>> \in Seq(Requests)
      OBVIOUS
    <3>3. \A x \in SUBSET AlSymbols, kind \in {"subscribe", "unsubscribe"} :
             [kind |-> kind, list |-> x] \in Requests
      BY DEF Requests
    <3>4. ASSUME NEW x \in SUBSET AlSymbols, NEW kind \in {"subscribe", "unsubscribe"}
          PROVE  ask(x, kind) \in Seq(Requests)
      <4>1. <<[kind |-> kind, list |-> x]>> \in Seq(Requests)
        BY <3>2, <3>3
      <4>2. QED
        BY <4>1
    <3>5. a.requested \ a.active \in SUBSET AlSymbols /\ a.active \ a.requested \in SUBSET AlSymbols
      BY <3>1
    <3> HIDE DEF ask
    <3>6. QED
      BY <3>4, <3>5
  <2>2. a.sent \o ask(a.requested \ a.active, "unsubscribe")
               \o ask(a.active \ a.requested, "subscribe") \in Seq(Requests)
    <3> HIDE DEF ask
    <3>1. QED
      BY <2>1 DEF Follows, Clients
  <2> HIDE DEF ask
  <2>3. e \in Clients /\ e.gen = a.gen /\ e.running = a.running /\ e.socket = a.socket /\ e.auth = a.auth
        /\ e.acknowledged = a.acknowledged
    BY <2>2 DEF Follows, Clients
  <2> HIDE DEF e
  <2>4. QED
    BY <1>2, <2>3 DEF Follows
<1>3. QED
  BY <1>1, <1>2

LEMMA WithoutFollows ==
    ASSUME AlpacaInv, NEW gone
    PROVE  /\ Follows(Without(al, gone))
           /\ Without(al, gone).active = al.active \ gone
           /\ Follows([Without(al, gone) EXCEPT !.blocked = FALSE, !.quiet = FALSE])
<1> DEFINE e == Without(al, gone)
           o == [e EXCEPT !.blocked = FALSE, !.quiet = FALSE]
<1>1. Follows(al)
  BY ClientFollows
<1>2. e = [al EXCEPT !.active = al.active \ gone, !.acknowledged = al.acknowledged \ gone]
  BY DEF Without
<1> HIDE DEF e
<1>3. e \in Clients /\ e.gen = al.gen /\ e.running = al.running /\ e.socket = al.socket
      /\ e.auth = al.auth /\ e.sent = al.sent /\ e.acknowledged = al.acknowledged \ gone
      /\ e.active = al.active \ gone
  BY <1>1, <1>2 DEF Follows, Clients
<1>4. Follows(e)
  BY <1>1, <1>3 DEF Follows
<1>5. o \in Clients /\ o.gen = e.gen /\ o.running = e.running /\ o.socket = e.socket
      /\ o.auth = e.auth /\ o.sent = e.sent /\ o.acknowledged = e.acknowledged
  BY <1>3 DEF Clients
<1> HIDE DEF o
<1>6. Follows(o)
  BY <1>4, <1>5 DEF Follows
<1>7. QED
  BY <1>3, <1>4, <1>6 DEF e, o
-----------------------------------------------------------------------------
LEMMA SocketIsConnection ==
    ASSUME AlpacaInv
    PROVE  /\ opened \in Nat /\ MaxConnections \in Nat /\ al.socket \in Nat
           /\ al.socket <= opened
           /\ al.socket # 0 => al.socket \in Conn
           /\ inbox \in [Conn -> Seq(Messages)]
BY AlpacaAssumption DEF AlpacaInv, AlTypeOK, Coupled, Conn, Clients

(* A client that follows keeps what concerns it, if the messages on its way do.      *)
LEMMA BecomesKeeps ==
    ASSUME AlpacaInv, NEW a, Follows(a), Becomes(a), inbox' \in [Conn -> Seq(Messages)],
           \A k \in Conn : k > opened => inbox'[k] = <<>>,
           a.socket = al.socket /\ a.socket # 0 => Truth(inbox'[a.socket], a.acknowledged, a.auth)
    PROVE  /\ al' \in Clients /\ opened' \in 0..MaxConnections /\ subscribed' \subseteq AlSymbols
           /\ Coupled(al)' /\ ListsTellTheTruth' /\ FutureIsEmpty'
<1> USE AlpacaAssumption
<1>1. /\ al \in Clients /\ opened \in 0..MaxConnections /\ opened \in Nat /\ MaxConnections \in Nat
      /\ subscribed \subseteq AlSymbols /\ al.socket \in Nat /\ al.socket <= opened
      /\ Lists(<<>>) = {}
  BY DEF AlpacaInv, AlTypeOK, Clients, Coupled, Lists
<1>2. /\ al' = a /\ opened' = (IF a.socket > opened THEN a.socket ELSE opened)
      /\ subscribed' = (IF a.socket = al.socket THEN subscribed ELSE {})
      /\ a \in Clients /\ a.socket \in Nat
  BY DEF Becomes, Follows, Clients
<1>3. opened' \in 0..MaxConnections /\ opened' \in Nat /\ opened <= opened' /\ a.socket <= opened'
  BY <1>1, <1>2 DEF Follows
<1>4. Coupled(al)'
  BY <1>2, <1>3 DEF Coupled, Follows
<1>5. FutureIsEmpty'
  BY <1>1, <1>2, <1>3 DEF FutureIsEmpty, Conn
<1>6. ListsTellTheTruth'
  <2>1. CASE a.socket = al.socket /\ a.socket # 0
    BY <1>2, <2>1 DEF ListsTellTheTruth, Truth, Lists
  <2>2. CASE a.socket = 0
    BY <1>2, <2>2 DEF ListsTellTheTruth
  <2>3. CASE a.socket # al.socket /\ a.socket # 0
    <3>1. a.socket = opened + 1 /\ a.socket \in Conn /\ ~a.auth /\ a.acknowledged = {}
      BY <1>1, <1>2, <2>3 DEF Follows, Conn
    <3>2. inbox'[a.socket] = <<>>
      BY <1>1, <3>1
    <3>3. QED
      BY <1>1, <1>2, <3>1, <3>2 DEF ListsTellTheTruth, Truth, Lists
  <2>4. QED
    BY <2>1, <2>2, <2>3
<1>7. QED
  BY <1>2, <1>3, <1>4, <1>5, <1>6, <1>1

LEMMA QuietBecomes ==
    ASSUME AlpacaInv, NEW a, Follows(a), Becomes(a), UNCHANGED inbox
    PROVE  /\ al' \in Clients /\ opened' \in 0..MaxConnections /\ subscribed' \subseteq AlSymbols
           /\ Coupled(al)' /\ ListsTellTheTruth' /\ FutureIsEmpty'
<1>1. /\ inbox' \in [Conn -> Seq(Messages)]
      /\ \A k \in Conn : k > opened => inbox'[k] = <<>>
  BY DEF AlpacaInv, AlTypeOK, FutureIsEmpty
<1>2. ASSUME a.socket = al.socket, a.socket # 0
      PROVE  Truth(inbox'[a.socket], a.acknowledged, a.auth)
  <2>1. Truth(inbox[al.socket], al.acknowledged, al.auth)
    BY <1>2 DEF AlpacaInv, ListsTellTheTruth
  <2>2. a.acknowledged \subseteq al.acknowledged /\ (al.auth => a.auth)
    BY <1>2, SocketIsConnection DEF Follows
  <2>3. inbox'[a.socket] = inbox[al.socket]
    BY <1>2
  <2>4. QED
    BY <2>1, <2>2, <2>3 DEF Truth
<1>3. QED
  BY <1>1, <1>2, BecomesKeeps

\* The same of a client that changes without a socket that opens or goes.
LEMMA StaysBecomes ==
    ASSUME AlpacaInv, NEW a, Follows(a), al' = a, a.socket = al.socket,
           UNCHANGED <<opened, subscribed>>
    PROVE  Becomes(a)
BY DEF AlpacaInv, AlTypeOK, Coupled, Becomes, Clients
-----------------------------------------------------------------------------
LEMMA TruthOfTail ==
    ASSUME NEW q \in Seq(Messages), q # <<>>, NEW acknowledged, NEW auth,
           Truth(q, acknowledged, auth)
    PROVE  /\ q[1].kind # "list" => Truth(Tail(q), acknowledged, auth)
           /\ q[1].kind = "list" => \A X : Truth(Tail(q), q[1].list \cap X, auth)
<1> DEFINE t == Tail(q)
<1>1. /\ t \in Seq(Messages) /\ Len(t) = Len(q) - 1 /\ Len(q) \in Nat \ {0} /\ Len(t) \in Nat
      /\ \A i \in 1..Len(t) : t[i] = q[i + 1]
  BY HeadTailProperties
<1> HIDE DEF t
<1>2. \A i \in Lists(t) : i + 1 \in Lists(q) /\ t[i] = q[i + 1] /\ i \in 1..Len(t)
  BY <1>1 DEF Lists
<1>3. \A i \in Lists(q) : i = 1 \/ i - 1 \in Lists(t)
  BY <1>1 DEF Lists
<1>4. ASSUME NEW i \in Lists(t), \A j \in Lists(t) : j <= i PROVE t[i].list = subscribed
  <2>1. \A j \in Lists(q) : j <= i + 1
    BY <1>1, <1>2, <1>3, <1>4 DEF Lists
  <2>2. QED
    BY <1>2, <2>1 DEF Truth
<1>5. ~auth => Lists(t) = {}
  BY <1>2 DEF Truth
<1>6. CASE q[1].kind # "list"
  <2>1. 1 \notin Lists(q)
    BY <1>6 DEF Lists
  <2>2. Lists(t) = {} => acknowledged \subseteq subscribed
    BY <1>3, <2>1 DEF Truth
  <2>3. QED
    BY <1>4, <1>5, <1>6, <2>2 DEF Truth, t
<1>7. CASE q[1].kind = "list"
  <2>1. ASSUME Lists(t) = {} PROVE q[1].list = subscribed
    <3>1. 1 \in Lists(q) /\ \A j \in Lists(q) : j <= 1
      BY <1>1, <1>3, <1>7, <2>1 DEF Lists
    <3>2. QED
      BY <3>1 DEF Truth
  <2>2. QED
    BY <1>4, <1>5, <1>7, <2>1 DEF Truth, t
<1>8. QED
  BY <1>6, <1>7

LEMMA TruthOfAppend ==
    ASSUME NEW q \in Seq(Messages), NEW m \in Messages, NEW acknowledged, NEW auth
    PROVE  /\ m.kind # "list" /\ Truth(q, acknowledged, auth) => Truth(Append(q, m), acknowledged, auth)
           /\ m.kind = "list" =>
                 /\ \A i \in Lists(Append(q, m)) :
                       (\A j \in Lists(Append(q, m)) : j <= i) => Append(q, m)[i].list = m.list
                 /\ Lists(Append(q, m)) # {}
<1> DEFINE t == Append(q, m)
           n == Len(q)
<1>1. /\ t \in Seq(Messages) /\ Len(t) = n + 1 /\ n \in Nat
      /\ t[n + 1] = m /\ \A i \in 1..n : t[i] = q[i]
  OBVIOUS
<1> HIDE DEF t
<1>2. \A i \in 1..(n + 1) : i \in 1..n \/ i = n + 1
  BY <1>1
<1>3. CASE m.kind # "list"
  <2>1. Lists(t) = Lists(q)
    BY <1>1, <1>2, <1>3 DEF Lists
  <2>2. \A i \in Lists(t) : t[i] = q[i]
    BY <1>1, <2>1 DEF Lists
  <2>3. QED
    BY <1>3, <2>1, <2>2 DEF Truth, t
<1>4. CASE m.kind = "list"
  <2>1. n + 1 \in Lists(t) /\ \A i \in Lists(t) : i \in 1..(n + 1)
    BY <1>1, <1>4 DEF Lists
  <2>2. ASSUME NEW i \in Lists(t), \A j \in Lists(t) : j <= i PROVE t[i].list = m.list
    BY <1>1, <2>1, <2>2
  <2>3. QED
    BY <1>4, <2>1, <2>2 DEF t
<1>5. QED
  BY <1>3, <1>4
-----------------------------------------------------------------------------
\* What a step may do to the trade of a symbol.
Forward(s) ==
    record'[s].trade \notin {NoTrade, record[s].trade}
        => /\ record'[s].trade.at >= shown[s].at
           /\ record'[s].trade.at > shown[s].gone
           /\ record'[s].gen = al'.gen

\* The other half of the invariant, and what the step promises.
RecordsKept ==
    /\ record' \in [AlSymbols -> Records] /\ shown' \in [AlSymbols -> Showings]
    /\ ShownIsPast'
    /\ \A s \in AlSymbols : Forward(s)

LEMMA RecordsUntouched == ASSUME AlpacaInv, UNCHANGED <<record, shown>> PROVE RecordsKept
BY DEF AlpacaInv, AlTypeOK, ShownIsPast, RecordsKept, Forward

(* It is enough to look at the symbols one by one.                                     *)
LEMMA OneByOne ==
    ASSUME AlpacaInv, NEW rec, NEW was,
           record' = [s \in AlSymbols |-> rec[s]], shown' = [s \in AlSymbols |-> was[s]],
           \A s \in AlSymbols :
              /\ rec[s] \in Records /\ was[s] \in Showings /\ Past(rec[s], was[s])
              /\ rec[s].trade \notin {NoTrade, record[s].trade}
                    => /\ rec[s].trade.at >= shown[s].at
                       /\ rec[s].trade.at > shown[s].gone
                       /\ rec[s].gen = al'.gen
    PROVE  RecordsKept
<1>1. \A s \in AlSymbols : record'[s] = rec[s] /\ shown'[s] = was[s]
  OBVIOUS
<1>2. record' \in [AlSymbols -> Records] /\ shown' \in [AlSymbols -> Showings]
  OBVIOUS
<1>3. ShownIsPast'
  BY <1>1 DEF ShownIsPast, Past
<1>4. \A s \in AlSymbols : Forward(s)
  BY <1>1 DEF Forward
<1>5. QED
  BY <1>2, <1>3, <1>4 DEF RecordsKept

LEMMA OneIsTyped ==
    ASSUME AlpacaInv, NEW s \in AlSymbols
    PROVE  /\ record[s] \in Records /\ shown[s] \in Showings /\ Past(record[s], shown[s])
           /\ record[s].invalid \in Nat /\ shown[s].at \in Nat /\ shown[s].gone \in Nat
           /\ record[s].trade \in Made \cup {NoTrade} /\ record[s].trade.at \in Nat
BY DEF AlpacaInv, AlTypeOK, ShownIsPast, Records, Showings, Made, NoTrade

LEMMA RecordsForgotten == ASSUME AlpacaInv, NEW gone, Forgets(gone) PROVE RecordsKept
<1> DEFINE rec == [s \in AlSymbols |-> IF s \in gone THEN NoRecord ELSE record[s]]
           was == [s \in AlSymbols |-> IF s \in gone THEN NothingShown ELSE shown[s]]
<1>1. /\ NoRecord \in Records /\ NothingShown \in Showings /\ Past(NoRecord, NothingShown)
      /\ NoRecord.trade = NoTrade
  BY DEF NoRecord, NothingShown, Records, Showings, Past
<1>2. ASSUME NEW s \in AlSymbols
      PROVE  /\ rec[s] \in Records /\ was[s] \in Showings /\ Past(rec[s], was[s])
             /\ rec[s].trade \in {NoTrade, record[s].trade}
  <2>1. CASE s \in gone
    <3>1. rec[s] = NoRecord /\ was[s] = NothingShown
      BY <2>1
    <3> HIDE DEF rec, was
    <3>2. QED
      BY <1>1, <3>1
  <2>2. CASE s \notin gone
    <3>1. rec[s] = record[s] /\ was[s] = shown[s]
      BY <2>2
    <3> HIDE DEF rec, was
    <3>2. QED
      BY <3>1, OneIsTyped
  <2>3. QED
    BY <2>1, <2>2
<1>3. record' = [s \in AlSymbols |-> rec[s]] /\ shown' = [s \in AlSymbols |-> was[s]]
  BY DEF Forgets
<1> HIDE DEF rec, was
<1>4. QED
  BY <1>2, <1>3, OneByOne

(* A trade that is accepted was not made earlier than any shown, and later than any    *)
(* that was cancelled while it was shown.                                                *)
LEMMA AcceptedGoesForward ==
    ASSUME AlpacaInv, NEW s \in AlSymbols, NEW trade \in Made, NEW gen \in Nat,
           Accepts(s, trade)
    PROVE  /\ Accepted(s, trade, gen) \in Records /\ Shows(s, trade) \in Showings
           /\ Past(Accepted(s, trade, gen), Shows(s, trade))
           /\ Accepted(s, trade, gen).trade = trade /\ Accepted(s, trade, gen).gen = gen
           /\ trade.at >= shown[s].at /\ trade.at > shown[s].gone
<1> DEFINE a == Accepted(s, trade, gen)
           w == Shows(s, trade)
<1>1. trade.at \in Nat /\ trade # NoTrade
  BY DEF Made, NoTrade
<1>2. /\ record[s] \in Records /\ shown[s] \in Showings
      /\ record[s].invalid \in Nat /\ shown[s].at \in Nat /\ shown[s].gone \in Nat
      /\ record[s].trade.at \in Nat
  BY OneIsTyped
<1>3. trade.at > record[s].invalid /\ trade.at >= record[s].trade.at
  BY DEF Accepts
<1>4. /\ shown[s].gone <= record[s].invalid
      /\ shown[s].at = record[s].trade.at \/ shown[s].at <= record[s].invalid
  BY OneIsTyped DEF Past
<1>5. trade.at >= shown[s].at /\ trade.at > shown[s].gone
  BY <1>1, <1>2, <1>3, <1>4
<1>6. a \in Records /\ a.trade = trade /\ a.gen = gen /\ a.invalid = record[s].invalid
  BY <1>2 DEF Accepted, Records
<1>7. w \in Showings /\ w.at = trade.at /\ w.gone = shown[s].gone
  BY <1>1, <1>2 DEF Shows, Showings
<1> HIDE DEF a, w
<1>8. Past(a, w)
  BY <1>1, <1>4, <1>6, <1>7 DEF Past
<1>9. QED
  BY <1>5, <1>6, <1>7, <1>8 DEF a, w

(* Records of trades that are accepted.                                                *)
LEMMA RecordsAccepted ==
    ASSUME AlpacaInv, NEW news \in SUBSET AlSymbols, NEW trade \in [news -> Made],
           NEW gen \in Nat, gen = al'.gen, \A s \in news : Accepts(s, trade[s]),
           record' = [s \in AlSymbols |-> IF s \in news THEN Accepted(s, trade[s], gen) ELSE record[s]],
           shown' = [s \in AlSymbols |-> IF s \in news THEN Shows(s, trade[s]) ELSE shown[s]]
    PROVE  RecordsKept
<1> DEFINE rec == [s \in AlSymbols |-> IF s \in news THEN Accepted(s, trade[s], gen) ELSE record[s]]
           was == [s \in AlSymbols |-> IF s \in news THEN Shows(s, trade[s]) ELSE shown[s]]
<1>1. ASSUME NEW s \in AlSymbols
      PROVE  /\ rec[s] \in Records /\ was[s] \in Showings /\ Past(rec[s], was[s])
             /\ rec[s].trade \notin {NoTrade, record[s].trade}
                   => /\ rec[s].trade.at >= shown[s].at
                      /\ rec[s].trade.at > shown[s].gone
                      /\ rec[s].gen = al'.gen
  <2>1. CASE s \in news
    <3>1. rec[s] = Accepted(s, trade[s], gen) /\ was[s] = Shows(s, trade[s])
          /\ trade[s] \in Made /\ Accepts(s, trade[s])
      BY <2>1
    <3> HIDE DEF rec, was
    <3>2. QED
      BY <3>1, AcceptedGoesForward
  <2>2. CASE s \notin news
    <3>1. rec[s] = record[s] /\ was[s] = shown[s]
      BY <2>2
    <3> HIDE DEF rec, was
    <3>2. QED
      BY <3>1, OneIsTyped
  <2>3. QED
    BY <2>1, <2>2
<1>2. record' = [s \in AlSymbols |-> rec[s]] /\ shown' = [s \in AlSymbols |-> was[s]]
  OBVIOUS
<1> HIDE DEF rec, was
<1>3. QED
  BY <1>1, <1>2, OneByOne

\* Both halves.
AlpacaKept == AlpacaInv' /\ \A s \in AlSymbols : Forward(s)

LEMMA BothHalves ==
    ASSUME AlpacaInv, RecordsKept, rest' \in RestBatches \cup {NoRest}, tape' \in Tapes,
           al' \in Clients, opened' \in 0..MaxConnections, subscribed' \subseteq AlSymbols,
           inbox' \in [Conn -> Seq(Messages)],
           Coupled(al)', ListsTellTheTruth', FutureIsEmpty'
    PROVE  AlpacaKept
BY DEF AlpacaInv, AlTypeOK, RecordsKept, AlpacaKept

(* A step of the client that touches nothing on its way.                               *)
LEMMA ClientSteps ==
    ASSUME AlpacaInv, NEW a, Follows(a), Becomes(a), UNCHANGED <<inbox, tape>>, RecordsKept,
           rest' \in RestBatches \cup {NoRest}
    PROVE  AlpacaKept
<1>1. inbox' \in [Conn -> Seq(Messages)] /\ tape' \in Tapes
  BY DEF AlpacaInv, AlTypeOK
<1>2. QED
  BY <1>1, QuietBecomes, BothHalves

LEMMA RestIsTyped == AlpacaInv => rest \in RestBatches \cup {NoRest} /\ al \in Clients
BY DEF AlpacaInv, AlTypeOK

LEMMA TouchKeeps == ASSUME AlpacaInv, NEW s \in AlSymbols, Touch(s) PROVE AlpacaKept
<1> DEFINE a == [al EXCEPT !.active = @ \cup {s}]
<1>1. /\ a \in Clients /\ a.gen = al.gen /\ a.running = al.running /\ a.socket = al.socket
      /\ a.auth = al.auth /\ a.sent = al.sent /\ a.acknowledged = al.acknowledged
  BY RestIsTyped DEF Clients
<1> HIDE DEF a
<1>2. Follows(a)
  BY <1>1, ClientFollows DEF Follows
<1>3. Follows(Connected(a))
  BY <1>2, ConnectedFollows
<1>4. Becomes(Connected(a)) /\ UNCHANGED <<record, rest, inbox, tape, shown>>
  BY DEF Touch, a
<1>5. QED
  BY <1>3, <1>4, ClientSteps, RecordsUntouched, RestIsTyped

LEMMA RetainKeeps == ASSUME AlpacaInv, NEW keep, Retain(keep) PROVE AlpacaKept
<1> DEFINE gone == al.active \ keep
           left == Without(al, gone)
           open == IF al.blocked THEN [left EXCEPT !.blocked = FALSE, !.quiet = FALSE] ELSE left
<1>1. Follows(open)
  BY WithoutFollows
<1>2. /\ Becomes(IF open.active = {} THEN Disconnected(open) ELSE Reconciled(open))
      /\ Forgets(gone) /\ UNCHANGED <<rest, inbox, tape>>
  BY DEF Retain
<1> HIDE DEF open, gone
<1>3. RecordsKept
  BY <1>2, RecordsForgotten
<1>4. Follows(Disconnected(open)) /\ Follows(Reconciled(open))
  BY <1>1, DisconnectedFollows, ReconciledFollows
<1>5. QED
  BY <1>2, <1>3, <1>4, ClientSteps, RestIsTyped

LEMMA StepKeeps ==
    ASSUME AlpacaInv, NEW expired \in SUBSET AlSymbols, NEW later \in SUBSET AlSymbols,
           Step(expired, later)
    PROVE  AlpacaKept
<1> DEFINE left == Without(al, expired)
<1>1. Follows(left)
  BY WithoutFollows
<1>2. /\ IF left.active = {} THEN Becomes(Disconnected(left)) /\ UNCHANGED rest
         ELSE /\ Becomes(Reconciled(Connected(left)))
              /\ rest' = IF later = {} THEN rest ELSE [gen |-> al.gen, symbols |-> later, read |-> <<>>]
      /\ Forgets(expired) /\ UNCHANGED <<inbox, tape>>
  BY DEF Step
<1> HIDE DEF left
<1>3. RecordsKept
  BY <1>2, RecordsForgotten
<1>4. Follows(Disconnected(left)) /\ Follows(Reconciled(Connected(left)))
  BY <1>1, DisconnectedFollows, ReconciledFollows, ConnectedFollows
<1>5. rest' \in RestBatches \cup {NoRest}
  BY <1>2, RestIsTyped DEF RestBatches, Clients
<1>6. QED
  BY <1>2, <1>3, <1>4, <1>5, ClientSteps

LEMMA TimesKeep ==
    ASSUME AlpacaInv, SocketFails \/ PauseEnds \/ StartAlpaca \/ StopAlpaca \/ \E s \in AlSymbols : Probe(s)
    PROVE  AlpacaKept
<1>1. CASE SocketFails
  BY <1>1, FailedFollows, ClientSteps, RecordsUntouched, RestIsTyped DEF SocketFails
<1>2. CASE PauseEnds
  <2> PICK a : /\ al' = a /\ a \in {[al EXCEPT !.backoff = FALSE], [al EXCEPT !.quiet = FALSE]}
               /\ UNCHANGED <<record, rest, opened, inbox, subscribed, tape, shown>>
    BY <1>2 DEF PauseEnds
  <2>1. /\ a \in Clients /\ a.gen = al.gen /\ a.running = al.running /\ a.socket = al.socket
        /\ a.auth = al.auth /\ a.sent = al.sent /\ a.acknowledged = al.acknowledged
    BY RestIsTyped DEF Clients
  <2>2. Follows(a)
    BY <2>1, ClientFollows DEF Follows
  <2>3. QED
    BY <2>1, <2>2, StaysBecomes, ClientSteps, RecordsUntouched, RestIsTyped
<1>3. CASE StartAlpaca
  <2> DEFINE a == [al EXCEPT !.running = TRUE, !.fatal = FALSE, !.blocked = FALSE, !.backoff = FALSE]
  <2>1. /\ a \in Clients /\ a.gen = al.gen /\ a.running /\ a.socket = al.socket
        /\ a.auth = al.auth /\ a.sent = al.sent /\ a.acknowledged = al.acknowledged
    BY RestIsTyped DEF Clients
  <2>2. al' = a /\ UNCHANGED <<record, rest, opened, inbox, subscribed, tape, shown>>
    BY <1>3 DEF StartAlpaca
  <2> HIDE DEF a
  <2>3. Follows(a)
    BY <2>1, ClientFollows DEF Follows
  <2>4. QED
    BY <2>1, <2>2, <2>3, StaysBecomes, ClientSteps, RecordsUntouched, RestIsTyped
<1>4. CASE StopAlpaca
  <2> DEFINE d == Disconnected(al)
             a == [d EXCEPT !.running = FALSE, !.gen = @ + 1, !.active = {}]
  <2>1. Follows(d) /\ d.socket = 0 /\ ~d.auth
    BY ClientFollows, DisconnectedFollows, RestIsTyped DEF Disconnected, Clients
  <2>2. Becomes(a) /\ Forgets(AlSymbols) /\ UNCHANGED <<rest, inbox, tape>>
    BY <1>4 DEF StopAlpaca
  <2> HIDE DEF d
  <2>6. d \in Clients
    BY <2>1 DEF Follows
  <2>7. d.gen + 1 \in Nat
    BY <2>6 DEF Clients
  <2>3. /\ a \in Clients /\ a.gen = d.gen + 1 /\ a.socket = d.socket /\ a.auth = d.auth
        /\ a.sent = d.sent /\ a.acknowledged = d.acknowledged
    BY <2>6, <2>7 DEF Clients
  <2> HIDE DEF a
  <2>8. a.gen >= al.gen
    <3>1. d.gen \in Nat /\ d.gen >= al.gen /\ al.gen \in Nat
      BY <2>1, <2>6, RestIsTyped DEF Follows, Clients
    <3>2. QED
      BY <2>3, <3>1
  <2>4. Follows(a)
    BY <2>1, <2>3, <2>8 DEF Follows
  <2>5. QED
    BY <2>2, <2>4, ClientSteps, RecordsForgotten, RestIsTyped
<1>5. ASSUME NEW s \in AlSymbols, Probe(s) PROVE AlpacaKept
  <2> DEFINE a == [al EXCEPT !.quiet = TRUE, !.sent = <<[kind |-> "subscribe", list |-> {s}]>>]
  <2>1. <<[kind |-> "subscribe", list |-> {s}]>> \in Seq(Requests) /\ al.auth
    <3>1. [kind |-> "subscribe", list |-> {s}] \in Requests /\ al.auth
      BY <1>5 DEF Requests, Probe
    <3>2. \A x \in Requests : <<x>> \in Seq(Requests)
      OBVIOUS
    <3>3. QED
      BY <3>1, <3>2
  <2>2. /\ a \in Clients /\ a.gen = al.gen /\ a.running = al.running /\ a.socket = al.socket
        /\ a.auth = al.auth /\ a.acknowledged = al.acknowledged
    BY <2>1, RestIsTyped DEF Clients
  <2>3. al' = a /\ UNCHANGED <<record, rest, opened, inbox, subscribed, tape, shown>>
    BY <1>5 DEF Probe
  <2> HIDE DEF a
  <2>4. Follows(a)
    BY <2>1, <2>2, ClientFollows DEF Follows
  <2>5. QED
    BY <2>2, <2>3, <2>4, StaysBecomes, ClientSteps, RecordsUntouched, RestIsTyped
<1>6. QED
  BY <1>1, <1>2, <1>3, <1>4, <1>5
-----------------------------------------------------------------------------
(* A message is taken off a connection: what is left is still typed.                   *)
LEMMA TakenIsTyped ==
    ASSUME AlpacaInv, NEW k \in Conn, inbox[k] # <<>>,
           inbox' = [inbox EXCEPT ![k] = Tail(@)]
    PROVE  /\ inbox' \in [Conn -> Seq(Messages)] /\ inbox'[k] = Tail(inbox[k])
           /\ \A c \in Conn : c # k => inbox'[c] = inbox[c]
           /\ \A c \in Conn : c > opened => inbox'[c] = <<>>
           /\ inbox[k] \in Seq(Messages) /\ inbox[k][1] \in Messages
           /\ Head(inbox[k]) = inbox[k][1]
<1>1. inbox \in [Conn -> Seq(Messages)] /\ inbox[k] \in Seq(Messages)
  BY SocketIsConnection
<1>2. Tail(inbox[k]) \in Seq(Messages) /\ Head(inbox[k]) \in Messages /\ Head(inbox[k]) = inbox[k][1]
  BY <1>1, HeadTailProperties
<1>3. \A c \in Conn : c > opened => inbox[c] = <<>>
  BY DEF AlpacaInv, FutureIsEmpty
<1>4. QED
  BY <1>1, <1>2, <1>3

(* What a message of the socket in use makes of the client keeps it, if it keeps what  *)
(* the lists say.                                                                        *)
LEMMA HeardBecomes ==
    ASSUME AlpacaInv, NEW k \in Conn, inbox[k] # <<>>, k = al.socket,
           inbox' = [inbox EXCEPT ![k] = Tail(@)], UNCHANGED <<rest, tape>>,
           NEW a, Follows(a), Becomes(a), RecordsKept,
           a.socket # 0 => /\ a.socket = al.socket
                           /\ Truth(Tail(inbox[k]), a.acknowledged, a.auth)
    PROVE  AlpacaKept
<1>1. /\ inbox' \in [Conn -> Seq(Messages)] /\ inbox'[k] = Tail(inbox[k])
      /\ \A c \in Conn : c > opened => inbox'[c] = <<>>
  BY TakenIsTyped
<1>2. a.socket = al.socket /\ a.socket # 0 => Truth(inbox'[a.socket], a.acknowledged, a.auth)
  BY <1>1
<1>3. rest' \in RestBatches \cup {NoRest} /\ tape' \in Tapes
  BY DEF AlpacaInv, AlTypeOK
<1>4. QED
  BY <1>1, <1>2, <1>3, BecomesKeeps, BothHalves

(* A message that does not touch the client.                                            *)
LEMMA HeardInPassing ==
    ASSUME AlpacaInv, NEW k \in Conn, inbox[k] # <<>>, k = al.socket, al.socket # 0,
           inbox' = [inbox EXCEPT ![k] = Tail(@)], UNCHANGED <<rest, tape>>,
           UNCHANGED <<al, opened, subscribed>>, RecordsKept,
           inbox[k][1].kind # "list" \/ ~al.auth
    PROVE  AlpacaKept
<1>1. Follows(al) /\ Becomes(al)
  BY ClientFollows, StaysBecomes
<1>2. Truth(inbox[k], al.acknowledged, al.auth) /\ inbox[k] \in Seq(Messages)
  BY TakenIsTyped DEF AlpacaInv, ListsTellTheTruth
<1>3. inbox[k][1].kind # "list"
  <2>1. CASE ~al.auth
    <3>1. Lists(inbox[k]) = {} /\ 1 \in 1..Len(inbox[k])
      BY <1>2, <2>1 DEF Truth
    <3>2. QED
      BY <3>1 DEF Lists
  <2>2. QED
    BY <2>1
<1>4. Truth(Tail(inbox[k]), al.acknowledged, al.auth)
  BY <1>2, <1>3, TruthOfTail
<1>5. QED
  BY <1>1, <1>4, HeardBecomes

LEMMA WelcomeKeeps ==
    ASSUME AlpacaInv, NEW k \in Conn, inbox[k] # <<>>, k = al.socket, al.socket # 0,
           inbox' = [inbox EXCEPT ![k] = Tail(@)], UNCHANGED <<rest, tape, record, shown>>,
           inbox[k][1].kind = "welcome",
           Becomes(Reconciled([al EXCEPT !.auth = TRUE, !.quiet = FALSE]))
    PROVE  AlpacaKept
<1> DEFINE a == [al EXCEPT !.auth = TRUE, !.quiet = FALSE]
           b == Reconciled(a)
<1>1. /\ a \in Clients /\ a.gen = al.gen /\ a.running = al.running /\ a.socket = al.socket
      /\ a.auth /\ a.acknowledged = al.acknowledged
  BY RestIsTyped DEF Clients
<1>2. b.socket = a.socket /\ b.acknowledged = a.acknowledged /\ b.auth = a.auth
  <2> HIDE DEF a
  <2>1. QED
    BY <1>1 DEF Reconciled, Clients
<1>3. Becomes(b)
  OBVIOUS
<1> HIDE DEF a
<1>4. Follows(a)
  BY <1>1, ClientFollows DEF Follows
<1>5. Follows(b)
  BY <1>4, ReconciledFollows
<1>6. Truth(inbox[k], al.acknowledged, al.auth) /\ inbox[k] \in Seq(Messages)
  BY TakenIsTyped DEF AlpacaInv, ListsTellTheTruth
<1>7. Truth(Tail(inbox[k]), al.acknowledged, al.auth)
  BY <1>6, TruthOfTail
<1>8. Truth(Tail(inbox[k]), b.acknowledged, b.auth)
  BY <1>1, <1>2, <1>7 DEF Truth
<1> HIDE DEF b
<1>9. QED
  BY <1>1, <1>2, <1>3, <1>5, <1>8, HeardBecomes, RecordsUntouched

LEMMA ListKeeps ==
    ASSUME AlpacaInv, NEW k \in Conn, inbox[k] # <<>>, k = al.socket, al.socket # 0,
           inbox' = [inbox EXCEPT ![k] = Tail(@)], UNCHANGED <<rest, tape, record, shown>>,
           inbox[k][1].kind = "list", al.auth,
           Becomes([al EXCEPT !.acknowledged = inbox[k][1].list \cap al.active])
    PROVE  AlpacaKept
<1> DEFINE a == [al EXCEPT !.acknowledged = inbox[k][1].list \cap al.active]
<1>1. inbox[k][1].list \cap al.active \subseteq AlSymbols
  BY RestIsTyped DEF Clients
<1>2. /\ a \in Clients /\ a.gen = al.gen /\ a.running = al.running /\ a.socket = al.socket
      /\ a.auth = al.auth /\ a.acknowledged = inbox[k][1].list \cap al.active
  BY <1>1, RestIsTyped DEF Clients
<1>3. Becomes(a)
  OBVIOUS
<1> HIDE DEF a
<1>4. Truth(inbox[k], al.acknowledged, al.auth) /\ inbox[k] \in Seq(Messages)
      /\ inbox' \in [Conn -> Seq(Messages)] /\ inbox'[k] = Tail(inbox[k])
      /\ \A c \in Conn : c > opened => inbox'[c] = <<>>
  BY TakenIsTyped DEF AlpacaInv, ListsTellTheTruth
<1>5. Truth(Tail(inbox[k]), a.acknowledged, a.auth)
  <2>1. \A X : Truth(Tail(inbox[k]), inbox[k][1].list \cap X, al.auth)
    BY <1>4, TruthOfTail
  <2>2. QED
    BY <1>2, <2>1
<1>6. /\ al' = a /\ UNCHANGED <<opened, subscribed>> /\ al.socket <= opened
  BY <1>2, <1>3, SocketIsConnection DEF Becomes
<1>7. /\ al' \in Clients /\ Coupled(al)' /\ FutureIsEmpty' /\ ListsTellTheTruth'
  <2>1. Coupled(al)'
    BY <1>2, <1>6 DEF Coupled, AlpacaInv
  <2>2. FutureIsEmpty'
    BY <1>4, <1>6 DEF FutureIsEmpty
  <2>3. ListsTellTheTruth'
    BY <1>2, <1>4, <1>5, <1>6 DEF ListsTellTheTruth, Truth, Lists
  <2>4. QED
    BY <1>2, <1>6, <2>1, <2>2, <2>3
<1>8. /\ rest' \in RestBatches \cup {NoRest} /\ tape' \in Tapes
      /\ opened' \in 0..MaxConnections /\ subscribed' \subseteq AlSymbols
  BY <1>6 DEF AlpacaInv, AlTypeOK
<1>9. QED
  BY <1>4, <1>7, <1>8, RecordsUntouched, BothHalves

LEMMA CancelledIsRecord ==
    ASSUME AlpacaInv, NEW s \in AlSymbols, record[s].trade # NoTrade
    PROVE  /\ Cancelled(s) \in Records /\ Cancelled(s).trade = NoTrade
           /\ [shown[s] EXCEPT !.gone = record[s].trade.at] \in Showings
           /\ Past(Cancelled(s), [shown[s] EXCEPT !.gone = record[s].trade.at])
<1> DEFINE r == record[s]
           at == r.trade.at
           q == [r EXCEPT !.trade = NoTrade]
           c == [q EXCEPT !.invalid = at]
           w == [shown[s] EXCEPT !.gone = at]
<1>1. r \in Records /\ shown[s] \in Showings /\ at \in Nat /\ shown[s].at = at
  BY OneIsTyped DEF Past
<1>2. Cancelled(s) = c
  BY DEF Cancelled
<1> HIDE DEF r, at
<1>3. q \in Records /\ q.trade = NoTrade
  BY <1>1 DEF Records
<1> HIDE DEF q
<1>4. c \in Records /\ c.trade = NoTrade /\ c.invalid = at
  BY <1>1, <1>3 DEF Records
<1>5. w \in Showings /\ w.at = at /\ w.gone = at
  BY <1>1 DEF Showings
<1> HIDE DEF c, w
<1>6. Past(c, w)
  BY <1>1, <1>4, <1>5 DEF Past
<1>7. QED
  BY <1>2, <1>4, <1>5, <1>6 DEF w, at, r

(* A cancelled trade: only the one shown loses its price, and none that was made at     *)
(* its instant or before can follow it.                                                  *)
LEMMA CancelKeeps ==
    ASSUME AlpacaInv, NEW s \in AlSymbols, NEW trade \in Made,
           IF record[s].trade.id = trade.id
           THEN /\ record' = [record EXCEPT ![s] = Cancelled(s)]
                /\ shown' = [shown EXCEPT ![s].gone = record[s].trade.at]
           ELSE UNCHANGED <<record, shown>>
    PROVE  RecordsKept
<1>1. CASE record[s].trade.id # trade.id
  BY <1>1, RecordsUntouched
<1>2. CASE record[s].trade.id = trade.id
  <2>1. record[s].trade # NoTrade
    BY <1>2 DEF Made, NoTrade
  <2> DEFINE c == Cancelled(s)
             w == [shown[s] EXCEPT !.gone = record[s].trade.at]
             rec == [x \in AlSymbols |-> IF x = s THEN c ELSE record[x]]
             was == [x \in AlSymbols |-> IF x = s THEN w ELSE shown[x]]
  <2>2. c \in Records /\ c.trade = NoTrade /\ w \in Showings /\ Past(c, w)
    BY <2>1, CancelledIsRecord
  <2>3. /\ record \in [AlSymbols -> Records] /\ shown \in [AlSymbols -> Showings]
        /\ record' = [record EXCEPT ![s] = c] /\ shown' = [shown EXCEPT ![s] = w]
    BY <1>2 DEF AlpacaInv, AlTypeOK
  <2> HIDE DEF c, w
  <2>4. record' = [x \in AlSymbols |-> rec[x]] /\ shown' = [x \in AlSymbols |-> was[x]]
    BY <2>3
  <2>5. ASSUME NEW x \in AlSymbols
        PROVE  /\ rec[x] \in Records /\ was[x] \in Showings /\ Past(rec[x], was[x])
               /\ rec[x].trade \in {NoTrade, record[x].trade}
    <3>1. CASE x = s
      <4>1. rec[x] = c /\ was[x] = w
        BY <3>1
      <4> HIDE DEF rec, was
      <4>2. QED
        BY <2>2, <4>1
    <3>2. CASE x # s
      <4>1. rec[x] = record[x] /\ was[x] = shown[x]
        BY <3>2
      <4> HIDE DEF rec, was
      <4>2. QED
        BY <4>1, OneIsTyped
    <3>3. QED
      BY <3>1, <3>2
  <2> HIDE DEF rec, was
  <2>6. QED
    BY <2>4, <2>5, OneByOne
<1>3. QED
  BY <1>1, <1>2

\* A trade that comes is taken, or changes nothing.
LEMMA TradeKeeps ==
    ASSUME AlpacaInv, NEW s \in AlSymbols, NEW trade \in Made, UNCHANGED al,
           IF Accepts(s, trade)
           THEN /\ record' = [record EXCEPT ![s] = Accepted(s, trade, al.gen)]
                /\ shown' = [shown EXCEPT ![s] = Shows(s, trade)]
           ELSE UNCHANGED <<record, shown>>
    PROVE  RecordsKept
<1>1. CASE ~Accepts(s, trade)
  BY <1>1, RecordsUntouched
<1>2. CASE Accepts(s, trade)
  <2> DEFINE news == {s}
             trades == [x \in news |-> trade]
  <2>1. /\ record \in [AlSymbols -> Records] /\ shown \in [AlSymbols -> Showings] /\ al.gen \in Nat
        /\ trades \in [news -> Made] /\ news \in SUBSET AlSymbols /\ al'.gen = al.gen
    BY DEF AlpacaInv, AlTypeOK, Clients
  <2>2. record' = [x \in AlSymbols |-> IF x \in news THEN Accepted(x, trades[x], al.gen) ELSE record[x]]
    BY <1>2, <2>1
  <2>3. shown' = [x \in AlSymbols |-> IF x \in news THEN Shows(x, trades[x]) ELSE shown[x]]
    BY <1>2, <2>1
  <2>4. \A x \in news : Accepts(x, trades[x])
    BY <1>2
  <2> HIDE DEF news, trades
  <2>5. QED
    BY <2>1, <2>2, <2>3, <2>4, RecordsAccepted
<1>3. QED
  BY <1>1, <1>2

LEMMA ReceiveKeeps == ASSUME AlpacaInv, NEW k \in Conn, Receive(k) PROVE AlpacaKept
<1>1. /\ inbox[k] # <<>> /\ inbox' = [inbox EXCEPT ![k] = Tail(@)] /\ UNCHANGED <<rest, tape>>
      /\ IF Heard(k) THEN Acts(inbox[k][1])
         ELSE UNCHANGED <<al, opened, subscribed, record, shown>>
  BY TakenIsTyped DEF Receive
<1>2. CASE ~Heard(k)
  <2>1. Follows(al) /\ Becomes(al) /\ RecordsKept
    BY <1>1, <1>2, ClientFollows, StaysBecomes, RecordsUntouched
  <2>2. /\ inbox' \in [Conn -> Seq(Messages)] /\ \A c \in Conn : c # k => inbox'[c] = inbox[c]
        /\ \A c \in Conn : c > opened => inbox'[c] = <<>>
    BY <1>1, TakenIsTyped
  <2>3. al.socket # 0 => Truth(inbox'[al.socket], al.acknowledged, al.auth)
    <3>1. al.socket # 0 => al.socket # k /\ al.socket \in Conn
      BY <1>2, SocketIsConnection DEF Heard, AlpacaInv, Coupled
    <3>2. QED
      BY <2>2, <3>1 DEF AlpacaInv, ListsTellTheTruth
  <2>4. rest' \in RestBatches \cup {NoRest} /\ tape' \in Tapes
    BY <1>1 DEF AlpacaInv, AlTypeOK
  <2>5. QED
    BY <2>1, <2>2, <2>3, <2>4, BecomesKeeps, BothHalves
<1>3. CASE Heard(k)
  <2> DEFINE m == inbox[k][1]
  <2>1. /\ Acts(m) /\ k = al.socket /\ al.socket # 0 /\ m \in Messages
    BY <1>1, <1>3, TakenIsTyped, SocketIsConnection DEF Heard, Conn
  <2>2. CASE m.kind = "welcome"
    <3>1. /\ Becomes(Reconciled([al EXCEPT !.auth = TRUE, !.quiet = FALSE]))
          /\ UNCHANGED <<record, shown>>
      BY <2>1, <2>2 DEF Acts
    <3>2. QED
      BY <1>1, <2>1, <2>2, <3>1, WelcomeKeeps
  <2>3. CASE m.kind = "list" /\ al.auth
    <3>1. /\ Becomes([al EXCEPT !.acknowledged = m.list \cap al.active])
          /\ UNCHANGED <<record, shown>>
      BY <2>1, <2>3 DEF Acts
    <3>2. QED
      BY <1>1, <2>1, <2>3, <3>1, ListKeeps
  <2>4. CASE m.kind = "limit"
    <3> DEFINE a == [al EXCEPT !.blocked = TRUE, !.requested = al.acknowledged]
    <3>1. Becomes(a) /\ UNCHANGED <<record, shown>>
      BY <2>1, <2>4 DEF Acts
    <3>2. /\ a \in Clients /\ a.gen = al.gen /\ a.running = al.running /\ a.socket = al.socket
          /\ a.auth = al.auth /\ a.sent = al.sent /\ a.acknowledged = al.acknowledged
      BY RestIsTyped DEF Clients
    <3> HIDE DEF a
    <3>3. Follows(a)
      BY <3>2, ClientFollows DEF Follows
    <3>4. Truth(inbox[k], al.acknowledged, al.auth) /\ inbox[k] \in Seq(Messages)
      BY <1>1, <2>1, TakenIsTyped DEF AlpacaInv, ListsTellTheTruth
    <3>5. Truth(Tail(inbox[k]), a.acknowledged, a.auth)
      BY <1>1, <2>4, <3>2, <3>4, TruthOfTail
    <3>6. QED
      BY <1>1, <2>1, <3>1, <3>2, <3>3, <3>5, HeardBecomes, RecordsUntouched
  <2>5. CASE m.kind = "error"
    <3>1. /\ \E permanent \in BOOLEAN : Becomes(Failed(al, permanent))
          /\ UNCHANGED <<record, shown>>
      BY <2>1, <2>5 DEF Acts
    <3>2. PICK permanent \in BOOLEAN : Becomes(Failed(al, permanent))
      BY <3>1
    <3>3. QED
      BY <1>1, <2>1, <3>1, <3>2, FailedFollows, HeardBecomes, RecordsUntouched
  <2>6. CASE m.kind = "trade" /\ al.auth
    <3>1. /\ IF Accepts(m.symbol, m.trade)
             THEN /\ record' = [record EXCEPT ![m.symbol] = Accepted(m.symbol, m.trade, al.gen)]
                  /\ shown' = [shown EXCEPT ![m.symbol] = Shows(m.symbol, m.trade)]
             ELSE UNCHANGED <<record, shown>>
          /\ UNCHANGED <<al, opened, subscribed>>
      BY <2>1, <2>6 DEF Acts
    <3>2. m.symbol \in AlSymbols /\ m.trade \in Made
      BY <2>1, <2>6 DEF Messages
    <3>3. RecordsKept
      BY <3>1, <3>2, TradeKeeps
    <3>4. QED
      BY <1>1, <2>1, <2>6, <3>1, <3>3, HeardInPassing
  <2>7. CASE m.kind = "cancel" /\ al.auth
    <3>1. /\ IF record[m.symbol].trade.id = m.trade.id
             THEN /\ record' = [record EXCEPT ![m.symbol] = Cancelled(m.symbol)]
                  /\ shown' = [shown EXCEPT ![m.symbol].gone = record[m.symbol].trade.at]
             ELSE UNCHANGED <<record, shown>>
          /\ UNCHANGED <<al, opened, subscribed>>
      BY <2>1, <2>7 DEF Acts
    <3>2. m.symbol \in AlSymbols /\ m.trade \in Made
      BY <2>1, <2>7 DEF Messages
    <3>3. RecordsKept
      BY <3>1, <3>2, CancelKeeps
    <3>4. QED
      BY <1>1, <2>1, <2>7, <3>1, <3>3, HeardInPassing
  <2>8. CASE /\ m.kind \in {"list", "trade", "cancel"} /\ ~al.auth
    <3>1. UNCHANGED <<al, opened, subscribed, record, shown>>
      BY <2>1, <2>8 DEF Acts
    <3>2. QED
      BY <1>1, <2>1, <2>8, <3>1, RecordsUntouched, HeardInPassing
  <2>9. m.kind \in {"welcome", "error", "limit", "list", "trade", "cancel"}
    BY <2>1 DEF Messages
  <2>10. QED
    BY <2>2, <2>3, <2>4, <2>5, <2>6, <2>7, <2>8, <2>9
<1>4. QED
  BY <1>2, <1>3

(* What the exchange has made is a trade.                                              *)
LEMMA StandingIsMade ==
    ASSUME AlpacaInv, NEW s \in AlSymbols, NEW n \in Standing(s)
    PROVE  Trade(s, n) \in Made
<1>1. tape[s] \in Seq(Nat \ {0}) /\ n \in DOMAIN tape[s] /\ DOMAIN tape[s] = 1..Len(tape[s])
  BY DEF AlpacaInv, AlTypeOK, Tapes, Standing
<1>2. n \in Nat \ {0} /\ tape[s][n] \in Nat \ {0}
  BY <1>1
<1>3. QED
  BY <1>2 DEF Trade, Made

LEMMA RestKeeps ==
    ASSUME AlpacaInv, RestReads \/ \E ok \in BOOLEAN : RestReturns(ok) PROVE AlpacaKept
<1>1. Follows(al) /\ (UNCHANGED <<al, opened, subscribed>> => Becomes(al))
  BY ClientFollows, StaysBecomes
<1>2. CASE RestReads
  <2>0. PICK n \in [AlSymbols -> 0..MaxTrades] :
           /\ \A s \in AlSymbols : n[s] # 0 => n[s] \in Standing(s)
           /\ rest' = [rest EXCEPT !.read =
                         [s \in AlSymbols |-> IF n[s] = 0 THEN NoTrade ELSE Trade(s, n[s])]]
    BY <1>2 DEF RestReads
  <2> DEFINE prices == [s \in AlSymbols |-> IF n[s] = 0 THEN NoTrade ELSE Trade(s, n[s])]
  <2>1. /\ rest \in RestBatches /\ tape \in Tapes
        /\ UNCHANGED <<al, opened, subscribed, inbox, tape, record, shown>>
        /\ rest' = [rest EXCEPT !.read = prices]
    BY <1>2, <2>0, RestIsTyped DEF RestReads, AlpacaInv, AlTypeOK
  <2>2. prices \in [AlSymbols -> Made \cup {NoTrade}]
    BY <2>0, StandingIsMade
  <2> HIDE DEF prices
  <2>3. rest' \in RestBatches
    BY <2>1, <2>2 DEF RestBatches
  <2>4. QED
    BY <1>1, <2>1, <2>3, RecordsUntouched, ClientSteps
<1>3. ASSUME NEW ok \in BOOLEAN, RestReturns(ok) PROVE AlpacaKept
  <2> DEFINE news == IF ok /\ MayApply
                     THEN {s \in rest.symbols : rest.read[s] # NoTrade /\ Accepts(s, rest.read[s])} ELSE {}
             trades == [s \in news |-> rest.read[s]]
  <2>1. /\ rest \in RestBatches /\ (ok => rest.read \in [AlSymbols -> Made \cup {NoTrade}])
        /\ UNCHANGED <<al, opened, inbox, subscribed, tape>> /\ rest' = NoRest
    BY <1>3, RestIsTyped DEF RestReturns, RestBatches
  <2>2. /\ record' = [s \in AlSymbols |-> IF s \in news
                         THEN Accepted(s, rest.read[s], rest.gen) ELSE record[s]]
        /\ shown' = [s \in AlSymbols |-> IF s \in news THEN Shows(s, rest.read[s]) ELSE shown[s]]
    BY <1>3 DEF RestReturns
  <2>3. RecordsKept
    <3>1. CASE ok /\ MayApply
      <4>1. news = {s \in rest.symbols : rest.read[s] # NoTrade /\ Accepts(s, rest.read[s])}
        BY <3>1
      <4>2. news \subseteq AlSymbols /\ \A s \in news : rest.read[s] # NoTrade /\ Accepts(s, rest.read[s])
        BY <2>1, <4>1 DEF RestBatches
      <4> HIDE DEF news
      <4>3. trades \in [news -> Made] /\ \A s \in news : trades[s] = rest.read[s]
        BY <2>1, <3>1, <4>2
      <4>4. rest.gen \in Nat /\ rest.gen = al'.gen
        BY <2>1, <3>1 DEF RestBatches, MayApply
      <4> HIDE DEF trades
      <4>5. /\ record' = [s \in AlSymbols |-> IF s \in news
                         THEN Accepted(s, trades[s], rest.gen) ELSE record[s]]
            /\ shown' = [s \in AlSymbols |-> IF s \in news THEN Shows(s, trades[s]) ELSE shown[s]]
        BY <2>2, <4>3
      <4>6. /\ news \in SUBSET AlSymbols
            /\ \A s \in news : Accepts(s, trades[s])
        BY <4>2, <4>3
      <4>7. QED
        BY <4>3, <4>4, <4>5, <4>6, RecordsAccepted
    <3>2. CASE ~(ok /\ MayApply)
      <4>1. news = {}
        BY <3>2
      <4> HIDE DEF news
      <4>2. UNCHANGED <<record, shown>>
        BY <2>2, <4>1 DEF AlpacaInv, AlTypeOK
      <4>3. QED
        BY <4>2, RecordsUntouched
    <3>3. QED
      BY <3>1, <3>2
  <2>4. QED
    BY <1>1, <2>1, <2>3, ClientSteps
<1>4. QED
  BY <1>2, <1>3

-----------------------------------------------------------------------------
(* The provider's end: the last list it sent is what it has.                          *)
LEMMA ToldIsTyped ==
    ASSUME AlpacaInv, al.socket # 0, NEW m \in Messages, Tells(m)
    PROVE  /\ inbox' \in [Conn -> Seq(Messages)]
           /\ inbox'[al.socket] = Append(inbox[al.socket], m)
           /\ \A c \in Conn : c # al.socket => inbox'[c] = inbox[c]
           /\ \A c \in Conn : c > opened => inbox'[c] = <<>>
           /\ inbox[al.socket] \in Seq(Messages)
<1>1. al.socket \in Conn /\ al.socket <= opened /\ al.socket \in Nat /\ opened \in Nat
  BY SocketIsConnection
<1>2. inbox \in [Conn -> Seq(Messages)] /\ inbox[al.socket] \in Seq(Messages)
  BY <1>1, SocketIsConnection
<1>3. Append(inbox[al.socket], m) \in Seq(Messages)
  BY <1>2, AppendProperties
<1>4. inbox' = [inbox EXCEPT ![al.socket] = Append(@, m)]
  BY DEF Tells
<1>5. \A c \in Conn : c > opened => c # al.socket /\ inbox[c] = <<>>
  BY <1>1 DEF AlpacaInv, FutureIsEmpty, Conn
<1>6. QED
  BY <1>1, <1>2, <1>3, <1>4, <1>5

LEMMA ToldKeeps ==
    ASSUME AlpacaInv, al.socket # 0, NEW m \in Messages, Tells(m), m.kind # "list",
           UNCHANGED <<al, opened, subscribed>>
    PROVE  /\ Coupled(al)' /\ ListsTellTheTruth' /\ FutureIsEmpty'
           /\ inbox' \in [Conn -> Seq(Messages)]
<1>1. Truth(inbox[al.socket], al.acknowledged, al.auth) /\ inbox[al.socket] \in Seq(Messages)
  BY ToldIsTyped DEF AlpacaInv, ListsTellTheTruth
<1>2. Truth(Append(inbox[al.socket], m), al.acknowledged, al.auth)
  BY <1>1, TruthOfAppend
<1>3. Follows(al) /\ Becomes(al)
  BY ClientFollows, StaysBecomes
<1>4. QED
  BY <1>2, <1>3, ToldIsTyped, BecomesKeeps

LEMMA ServeKeeps == ASSUME AlpacaInv, Serves PROVE AlpacaKept
<1> DEFINE request == Head(al.sent)
           then == IF request.kind = "subscribe" THEN subscribed \cup request.list
                   ELSE subscribed \ request.list
           limit == [kind |-> "limit"]
           list == [kind |-> "list", list |-> then]
           a == [al EXCEPT !.sent = Tail(@)]
<1>1. /\ al.sent # <<>> /\ al' = a /\ UNCHANGED <<record, rest, opened, tape, shown>>
      /\ \/ Tells(limit) /\ UNCHANGED subscribed
         \/ Tells(list) /\ subscribed' = then
  BY DEF Serves
<1>2. /\ al \in Clients /\ al.sent \in Seq(Requests) /\ subscribed \subseteq AlSymbols
      /\ al.auth /\ al.socket # 0
  BY <1>1 DEF AlpacaInv, AlTypeOK, Coupled, Clients
<1>3. Tail(al.sent) \in Seq(Requests) /\ request \in Requests
  BY <1>1, <1>2, HeadTailProperties
<1>4. then \subseteq AlSymbols
  BY <1>2, <1>3 DEF Requests
<1>5. limit \in Messages /\ list \in Messages /\ limit.kind = "limit" /\ list.kind = "list"
      /\ list.list = then
  BY <1>4 DEF Messages
<1>6. /\ a \in Clients /\ a.gen = al.gen /\ a.running = al.running /\ a.socket = al.socket
      /\ a.auth = al.auth /\ a.acknowledged = al.acknowledged
  BY <1>2, <1>3 DEF Clients
<1> HIDE DEF then, limit, list, a
<1>7. Truth(inbox[al.socket], al.acknowledged, al.auth)
  BY <1>2 DEF AlpacaInv, ListsTellTheTruth
<1>8. /\ inbox' \in [Conn -> Seq(Messages)] /\ subscribed' \subseteq AlSymbols
      /\ \A c \in Conn : c > opened => inbox'[c] = <<>>
  BY <1>1, <1>2, <1>4, <1>5, ToldIsTyped
<1>9. ListsTellTheTruth'
  <2>1. CASE Tells(limit) /\ UNCHANGED subscribed
    <3>1. /\ inbox'[al.socket] = Append(inbox[al.socket], limit)
          /\ inbox[al.socket] \in Seq(Messages)
      BY <1>2, <1>5, <2>1, ToldIsTyped
    <3>2. Truth(inbox'[al.socket], al.acknowledged, al.auth)
      BY <1>5, <1>7, <3>1, TruthOfAppend
    <3>3. QED
      BY <1>1, <1>6, <2>1, <3>2 DEF ListsTellTheTruth, Truth, Lists
  <2>2. CASE Tells(list) /\ subscribed' = then
    <3>1. /\ inbox'[al.socket] = Append(inbox[al.socket], list)
          /\ inbox[al.socket] \in Seq(Messages)
      BY <1>2, <1>5, <2>2, ToldIsTyped
    <3>2. /\ Lists(inbox'[al.socket]) # {}
          /\ \A i \in Lists(inbox'[al.socket]) :
                (\A j \in Lists(inbox'[al.socket]) : j <= i) => inbox'[al.socket][i].list = then
      BY <1>5, <3>1, TruthOfAppend
    <3>3. QED
      BY <1>1, <1>2, <1>6, <2>2, <3>2 DEF ListsTellTheTruth, Truth, Lists
  <2>3. QED
    BY <1>1, <2>1, <2>2
<1>10. /\ Coupled(al)' /\ FutureIsEmpty'
  BY <1>1, <1>2, <1>6, <1>8 DEF AlpacaInv, Coupled, FutureIsEmpty
<1>11. /\ rest' \in RestBatches \cup {NoRest} /\ tape' \in Tapes
       /\ opened' \in 0..MaxConnections /\ al' \in Clients
  BY <1>1, <1>6 DEF AlpacaInv, AlTypeOK
<1>12. QED
  BY <1>1, <1>8, <1>9, <1>10, <1>11, RecordsUntouched, BothHalves

(* What the exchange does is told, or is not.                                          *)
LEMMA ReportKeeps ==
    ASSUME AlpacaInv, NEW s \in AlSymbols, NEW kind \in {"trade", "cancel"}, NEW trade \in Made,
           Reports(s, kind, trade), tape' \in Tapes,
           UNCHANGED <<al, record, rest, opened, subscribed, shown>>
    PROVE  AlpacaKept
<1> DEFINE m == [kind |-> kind, symbol |-> s, trade |-> trade]
<1>1. (al.socket # 0 /\ Tells(m)) \/ UNCHANGED inbox
  BY DEF Reports
<1>2. m \in Messages /\ m.kind # "list"
  BY DEF Messages
<1> HIDE DEF m
<1>3. /\ rest' \in RestBatches \cup {NoRest}
      /\ opened' \in 0..MaxConnections /\ al' \in Clients /\ subscribed' \subseteq AlSymbols
  BY DEF AlpacaInv, AlTypeOK
<1>4. /\ Coupled(al)' /\ ListsTellTheTruth' /\ FutureIsEmpty'
      /\ inbox' \in [Conn -> Seq(Messages)]
  <2>1. CASE al.socket # 0 /\ Tells(m)
    BY <1>2, <2>1, ToldKeeps
  <2>2. CASE UNCHANGED inbox
    BY <2>2 DEF AlpacaInv, AlTypeOK, Coupled, ListsTellTheTruth, FutureIsEmpty, Truth, Lists
  <2>3. QED
    BY <1>1, <2>1, <2>2
<1>5. QED
  BY <1>3, <1>4, RecordsUntouched, BothHalves

LEMMA ExchangeKeeps ==
    ASSUME AlpacaInv, Welcomes \/ \E s \in AlSymbols : Trades(s) \/ Cancels(s)
    PROVE  AlpacaKept
<1>1. CASE Welcomes
  <2>1. PICK kind \in {"welcome", "error"} : Tells([kind |-> kind])
    BY <1>1 DEF Welcomes
  <2>2. al.socket # 0 /\ UNCHANGED <<al, record, rest, opened, subscribed, tape, shown>>
    BY <1>1 DEF Welcomes
  <2>3. [kind |-> kind] \in Messages /\ [kind |-> kind].kind # "list"
    BY DEF Messages
  <2>4. /\ Coupled(al)' /\ ListsTellTheTruth' /\ FutureIsEmpty'
        /\ inbox' \in [Conn -> Seq(Messages)]
    BY <2>1, <2>2, <2>3, ToldKeeps
  <2>5. /\ rest' \in RestBatches \cup {NoRest} /\ tape' \in Tapes
        /\ opened' \in 0..MaxConnections /\ al' \in Clients /\ subscribed' \subseteq AlSymbols
    BY <2>2 DEF AlpacaInv, AlTypeOK
  <2>6. QED
    BY <2>2, <2>4, <2>5, RecordsUntouched, BothHalves
<1>2. ASSUME NEW s \in AlSymbols, Trades(s) PROVE AlpacaKept
  <2>1. /\ tape \in Tapes /\ tape[s] \in Seq(Nat \ {0}) /\ Len(tape[s]) + 1 \in Nat \ {0}
    BY DEF AlpacaInv, AlTypeOK, Tapes
  <2>2. PICK at \in 1..MaxInstant :
           /\ tape' = [tape EXCEPT ![s] = Append(@, at)]
           /\ Reports(s, "trade", [id |-> Len(tape[s]) + 1, at |-> at])
    BY <1>2 DEF Trades
  <2>3. at \in Nat \ {0} /\ Append(tape[s], at) \in Seq(Nat \ {0})
    BY <2>1
  <2>4. tape' \in Tapes /\ [id |-> Len(tape[s]) + 1, at |-> at] \in Made
    BY <2>1, <2>2, <2>3 DEF Tapes, Made
  <2>5. UNCHANGED <<al, record, rest, opened, subscribed, shown>>
    BY <1>2 DEF Trades
  <2>6. QED
    BY <2>2, <2>4, <2>5, ReportKeeps
<1>3. ASSUME NEW s \in AlSymbols, Cancels(s) PROVE AlpacaKept
  <2>1. PICK n \in Standing(s) :
           /\ Reports(s, "cancel", Trade(s, n))
           /\ UNCHANGED <<al, record, rest, opened, subscribed, tape, shown>>
    BY <1>3 DEF Cancels
  <2>2. Trade(s, n) \in Made /\ tape' \in Tapes
    BY <2>1, StandingIsMade DEF AlpacaInv, AlTypeOK
  <2>3. QED
    BY <2>1, <2>2, ReportKeeps
<1>4. QED
  BY <1>1, <1>2, <1>3

LEMMA StepKeepsAlpacaInv == ASSUME AlpacaInv, [AlpacaNext]_alVars PROVE AlpacaKept
<1>1. CASE AlpacaNext
  BY <1>1, TouchKeeps, RetainKeeps, StepKeeps, TimesKeep, ReceiveKeeps, RestKeeps, ServeKeeps,
     ExchangeKeeps DEF AlpacaNext
<1>2. CASE UNCHANGED alVars
  BY <1>2, RestIsTyped, RecordsUntouched
     DEF AlpacaKept, RecordsKept, alVars, AlpacaInv, AlTypeOK, ShownIsPast, Coupled,
         ListsTellTheTruth, FutureIsEmpty, Truth, Lists
<1>3. QED
  BY <1>1, <1>2

LEMMA InitIsAlpaca == ASSUME AlpacaInit PROVE AlpacaInv
<1>1. /\ al \in Clients /\ NoRecord \in Records /\ NothingShown \in Showings
      /\ <<>> \in Seq(Messages) /\ <<>> \in Seq(Nat \ {0}) /\ 0 \in 0..MaxConnections
  BY AlpacaAssumption DEF AlpacaInit, Clients, NoRecord, Records, NothingShown, Showings
<1>2. AlTypeOK
  BY <1>1 DEF AlpacaInit, AlTypeOK, Tapes
<1>3. ShownIsPast
  BY DEF AlpacaInit, ShownIsPast, Past, NoRecord, NothingShown
<1>4. QED
  BY <1>1, <1>2, <1>3 DEF AlpacaInit, AlpacaInv, Coupled, ListsTellTheTruth, FutureIsEmpty

(* A symbol reported as streaming is subscribed: when no answer is on its way, the    *)
(* provider has every acknowledged symbol, for every number of connections.             *)
THEOREM StreamingHolds == AlpacaSpec => []StreamingIsSubscribed
<1>1. ASSUME AlpacaInv PROVE StreamingIsSubscribed
  <2>1. SUFFICES ASSUME al.auth, inbox[al.socket] = <<>>
                 PROVE  al.acknowledged \subseteq subscribed
    BY DEF StreamingIsSubscribed
  <2>2. Truth(<<>>, al.acknowledged, al.auth)
    BY <1>1, <2>1 DEF AlpacaInv, Coupled, ListsTellTheTruth
  <2>3. QED
    BY <2>2 DEF Truth, Lists
<1>2. AlpacaInv /\ [AlpacaNext]_alVars => AlpacaInv'
  BY StepKeepsAlpacaInv DEF AlpacaKept
<1>3. QED
  BY <1>1, <1>2, InitIsAlpaca, PTL DEF AlpacaSpec

(* While a symbol is in use its trades go forward: none shown later was made earlier  *)
(* than one shown before, nor at the instant of one that was cancelled while it was     *)
(* shown, from the stream or from a batch of before.                                      *)
THEOREM TradesGoForward == AlpacaSpec => NoOlderTradeComesBack
<1>1. AlpacaInv /\ [AlpacaNext]_alVars => AlpacaInv'
  BY StepKeepsAlpacaInv DEF AlpacaKept
<1>2. AlpacaInv /\ [AlpacaNext]_alVars
        => [\A s \in AlSymbols :
               record'[s].trade \notin {NoTrade, record[s].trade}
                 => /\ record'[s].trade.at >= shown[s].at
                    /\ record'[s].trade.at > shown[s].gone
                    /\ record'[s].gen = al'.gen]_alVars
  BY StepKeepsAlpacaInv DEF AlpacaKept, Forward
<1>3. QED
  BY <1>1, <1>2, InitIsAlpaca, PTL DEF AlpacaSpec, NoOlderTradeComesBack
=============================================================================
