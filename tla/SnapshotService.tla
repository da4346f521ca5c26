--------------------------- MODULE SnapshotService ---------------------------
(* The quote snapshots, lib/snapshot-service.js.  Three writers compete for the  *)
(* price of a symbol: the batch of its group, the enrichment that also brings     *)
(* its charts, and the refresh a user forces.  A symbol without a group has       *)
(* enrichment alone.                                                              *)
(*                                                                                *)
(* A quote is the time of its price, 0 for none.  A batch or an enrichment may     *)
(* bring any price of the symbol, newer or older than what is known.  Which        *)
(* session a market is in is left out: any tick may find one reopened.  Slow       *)
(* fields, back-off curves, and what a symbol without a price shows are left out.   *)
EXTENDS Naturals, FiniteSets

CONSTANTS
    SnSymbols,
    Prices,         \* times of prices
    Cadence,        \* how long an enrichment's price counts as checked
    EnrichLimit,    \* 2 enrichments at once
    MaxMembers,     \* 500 symbols
    SnTime,         \* bound: the clock
    MaxEpochs,      \* bound: starts and stops
    NoJob

ASSUME SnapshotAssumption ==
    /\ Prices \subseteq Nat \ {0} /\ NoJob \notin Nat
    /\ {Cadence, EnrichLimit, MaxMembers} \subseteq Nat \ {0}

VARIABLES
    grouped,        \* symbols that belong to the batch group (fixed)
    members,        \* active
    snap,           \* per symbol: [at, stale, since]: since is the enrichment's check
                    \* for a snapshot that stands in for the batch, NoJob otherwise
    fallback,       \* per symbol: [at, since] of the last good enrichment or refresh
    batch,          \* the batch under way: [asked, epoch, start], NoJob if none
    manual,         \* the forced refresh under way: [asked, epoch]
    attempted, dueAt, blockedUntil,
    enriching,      \* per symbol: the epoch of the enrichment under way
    enrichAt, retryAt, notBefore,
    running, epochs, snNow,
    batchGood,      \* history: symbols whose last word from the batch was a price
    confirmedAt     \* history: per symbol, when an enrichment or a forced refresh last
                    \* brought a price, NoJob once an enrichment failed after it

snVars == <<grouped, members, snap, fallback, batch, manual, attempted, dueAt,
            blockedUntil, enriching, enrichAt, retryAt, notBefore, running, epochs, snNow,
            batchGood, confirmedAt>>

NoFallback == [at |-> 0, since |-> 0]
None == [at |-> 0, stale |-> FALSE, since |-> NoJob]
Fresh(at) == [at |-> at, stale |-> FALSE, since |-> NoJob]
Soon == 1..2

SnapshotsInit ==
    /\ grouped \in SUBSET SnSymbols
    /\ members = {} /\ attempted = {}
    /\ snap = [s \in SnSymbols |-> None]
    /\ fallback = [s \in SnSymbols |-> NoFallback]
    /\ batch = NoJob /\ manual = NoJob
    /\ dueAt = [s \in SnSymbols |-> 0] /\ blockedUntil = 0
    /\ enriching = [s \in SnSymbols |-> NoJob]
    /\ enrichAt = [s \in SnSymbols |-> NoJob]
    /\ retryAt = [s \in SnSymbols |-> 0] /\ notBefore = [s \in SnSymbols |-> 0]
    /\ running = FALSE /\ epochs = 0 /\ snNow = 0
    /\ batchGood = {} /\ confirmedAt = [s \in SnSymbols |-> NoJob]

\* drop(): nothing is remembered of a symbol that left.
DropAll(gone) ==
    /\ members' = members \ gone /\ attempted' = attempted \ gone /\ batchGood' = batchGood \ gone
    /\ snap' = [s \in SnSymbols |-> IF s \in gone THEN None ELSE snap[s]]
    /\ fallback' = [s \in SnSymbols |-> IF s \in gone THEN NoFallback ELSE fallback[s]]
    /\ dueAt' = [s \in SnSymbols |-> IF s \in gone THEN 0 ELSE dueAt[s]]
    /\ enrichAt' = [s \in SnSymbols |-> IF s \in gone THEN NoJob ELSE enrichAt[s]]
    /\ retryAt' = [s \in SnSymbols |-> IF s \in gone THEN 0 ELSE retryAt[s]]
    /\ notBefore' = [s \in SnSymbols |-> IF s \in gone THEN 0 ELSE notBefore[s]]
    /\ confirmedAt' = [s \in SnSymbols |-> IF s \in gone THEN NoJob ELSE confirmedAt[s]]

\* Not read for five minutes, or no longer retained by the engine.
Leave(s) ==
    /\ s \in members /\ DropAll({s})
    /\ UNCHANGED <<grouped, batch, manual, blockedUntil, enriching, running, epochs, snNow>>

\* getCachedQuote(): a reader makes its symbol a member, up to the limit.
Get(s) ==
    /\ s \notin members /\ Cardinality(members) < MaxMembers
    /\ members' = members \cup {s}
    /\ UNCHANGED <<grouped, snap, fallback, batch, manual, attempted, dueAt, blockedUntil,
                   enriching, enrichAt, retryAt, notBefore, running, epochs, snNow,
            batchGood, confirmedAt>>

Valid(epoch) == running /\ epoch = epochs

\* commitSnapshot(): a price older than the one shown changes nothing; of two of
\* one time the source that checked last wins, which is not modelled further.
TakesBug(s, at, late) == TRUE
Takes(s, at, late) == at > snap[s].at \/ (at = snap[s].at /\ ~late)

\* stale(): the enrichment's price stands in while it is recent and not older;
\* otherwise the quote stays, marked.
StandIn(s) == /\ fallback[s].at # 0
              /\ snNow - fallback[s].since < Cadence
              /\ fallback[s].at >= snap[s].at
\* A failed batch counts as another check of the price that stands in.
StaledBug(s) ==
    IF StandIn(s) THEN [at |-> fallback[s].at, stale |-> FALSE, since |-> snNow]
    ELSE IF snap[s].at # 0 THEN [at |-> snap[s].at, stale |-> TRUE, since |-> NoJob]
    ELSE None
Staled(s) ==
    IF StandIn(s) THEN [at |-> fallback[s].at, stale |-> FALSE, since |-> fallback[s].since]
    ELSE IF snap[s].at # 0 THEN [at |-> snap[s].at, stale |-> TRUE, since |-> NoJob]
    ELSE None
----------------------------------------------------------------------------
\* tick(): ask the group for its members that are due, then enrich.  A market
\* that reopened makes its symbols due at once; the pause of the source holds.
BatchBegins(due) ==
    /\ batch = NoJob /\ snNow >= blockedUntil /\ due # {}
    /\ batch' = [asked |-> due, epoch |-> epochs, start |-> snNow]
    /\ attempted' = attempted \cup due

Due(reopened) == {s \in members \cap grouped :
                     s \notin attempted \/ snNow >= dueAt[s] \/ s \in reopened}

\* The enrichments that start: the oldest attempts first, up to the limit, none
\* before a source's own Retry-After.  A grouped symbol's first batch goes first.
Ready(reopened, busy, at, retry) ==
    {s \in members :
        /\ enriching[s] = NoJob /\ snNow >= notBefore[s]
        /\ s \in reopened \/ snNow >= retry[s]
        /\ ~(s \in grouped /\ busy /\ snap[s].at = 0)}

Age(at) == IF at = NoJob THEN 0 ELSE at + 1

Enrich(reopened, busy, at, retry) ==
    LET ready == Ready(reopened, busy, at, retry)
        room == EnrichLimit - Cardinality({s \in SnSymbols : enriching[s] # NoJob})
    IN \E starts \in SUBSET ready :
          /\ Cardinality(starts) = IF Cardinality(ready) < room THEN Cardinality(ready) ELSE room
          /\ \A s \in starts, o \in ready \ starts : Age(at[s]) <= Age(at[o])
          /\ enriching' = [s \in SnSymbols |-> IF s \in starts THEN epochs ELSE enriching[s]]
          /\ enrichAt' = [s \in SnSymbols |-> IF s \in starts THEN snNow ELSE at[s]]

SnapshotTick ==
    /\ running
    /\ \E reopened \in SUBSET members :
          /\ \/ BatchBegins(Due(reopened))
             \/ /\ ~(batch = NoJob /\ snNow >= blockedUntil /\ Due(reopened) # {})
                /\ UNCHANGED <<batch, attempted>>
          /\ Enrich(reopened, batch' # NoJob, enrichAt, retryAt)
    /\ UNCHANGED <<grouped, members, snap, fallback, manual, dueAt, blockedUntil,
                   retryAt, notBefore, running, epochs, snNow,
            batchGood, confirmedAt>>

\* The batch answers: per symbol a price or nothing.  With no success at all the
\* group rests.  The answer of an earlier epoch only frees the group.
BatchAnswers ==
    /\ batch # NoJob
    /\ batch' = NoJob
    /\ IF ~Valid(batch.epoch)
       THEN UNCHANGED <<snap, dueAt, blockedUntil, batchGood>>
       ELSE \E price \in [batch.asked -> Prices \cup {0}], late \in BOOLEAN, wait \in Soon :
              LET here == batch.asked \cap members
                  empty == {s \in here : price[s] = 0}
                  taken == {s \in here \ empty : Takes(s, price[s], late)}
              IN /\ snap' = [s \in SnSymbols |-> CASE s \in taken -> Fresh(price[s])
                                                  [] s \in empty -> Staled(s)
                                                  [] OTHER -> snap[s]]
                 /\ dueAt' = [s \in SnSymbols |-> IF s \in here THEN batch.start + wait ELSE dueAt[s]]
                 /\ blockedUntil' = IF taken # {} THEN 0 ELSE batch.start + wait
                 /\ batchGood' = (batchGood \ empty) \cup taken
    /\ UNCHANGED <<grouped, members, fallback, manual, attempted, enriching, enrichAt, retryAt,
                   notBefore, running, epochs, snNow, confirmedAt>>

\* The batch fails: the group rests, at least as long as the source asks for.
BatchFails ==
    /\ batch # NoJob
    /\ batch' = NoJob
    /\ IF ~Valid(batch.epoch)
       THEN UNCHANGED <<snap, dueAt, blockedUntil, batchGood>>
       ELSE \E wait \in Soon :
              LET here == batch.asked \cap members IN
              /\ blockedUntil' = snNow + wait
              /\ dueAt' = [s \in SnSymbols |-> IF s \in here THEN snNow + wait ELSE dueAt[s]]
              /\ snap' = [s \in SnSymbols |-> IF s \in here THEN Staled(s) ELSE snap[s]]
              /\ batchGood' = batchGood \ here
    /\ UNCHANGED <<grouped, members, fallback, manual, attempted, enriching, enrichAt, retryAt,
                   notBefore, running, epochs, snNow, confirmedAt>>

\* retryEnrichment(): later, and not before a Retry-After of the source.
RetryLater(s) ==
    \E delay \in Soon, hint \in {0} \cup {snNow + d : d \in Soon} :
        /\ notBefore' = [notBefore EXCEPT ![s] = hint]
        /\ retryAt' = [retryAt EXCEPT ![s] = IF hint > snNow + delay THEN hint ELSE snNow + delay]

\* An enrichment ends and frees its place; one of another epoch, or of a symbol
\* that left, does no more than that.
EnrichmentEnds(s) ==
    /\ enriching[s] # NoJob
    /\ enriching' = [enriching EXCEPT ![s] = NoJob]
    /\ UNCHANGED <<grouped, members, batch, manual, attempted, dueAt, blockedUntil, enrichAt,
                   running, epochs, snNow, batchGood>>

EnrichmentDropped(s) ==
    /\ ~Valid(enriching[s]) \/ s \notin members
    /\ EnrichmentEnds(s)
    /\ UNCHANGED <<snap, fallback, retryAt, notBefore, confirmedAt>>

\* No price, or one the provider itself calls stale (good enough for a start).
EnrichmentFails(s) ==
    /\ Valid(enriching[s]) /\ s \in members
    /\ EnrichmentEnds(s)
    /\ RetryLater(s)
    /\ fallback' = [fallback EXCEPT ![s] = NoFallback]
    /\ confirmedAt' = [confirmedAt EXCEPT ![s] = NoJob]
    /\ \E cold \in Prices \cup {0} :
          snap' = [snap EXCEPT ![s] =
                      IF snap[s].at = 0 /\ cold # 0 THEN [at |-> cold, stale |-> TRUE, since |-> NoJob]
                      ELSE IF s \notin grouped /\ snap[s].at # 0 THEN [@ EXCEPT !.stale = TRUE]
                      ELSE @]

\* A good enrichment stands in for a batch price that is missing or stale, unless
\* it is older; its charts may still be incomplete.
EnrichmentSucceeds(s) ==
    /\ Valid(enriching[s]) /\ s \in members
    /\ EnrichmentEnds(s)
    /\ \/ RetryLater(s)
       \/ /\ notBefore' = [notBefore EXCEPT ![s] = 0]
          /\ retryAt' = [retryAt EXCEPT ![s] = IF enrichAt[s] = NoJob THEN 0
                                                ELSE enrichAt[s] + Cadence]
    /\ \E price \in Prices :
          /\ fallback' = [fallback EXCEPT ![s] = [at |-> price, since |-> snNow]]
          /\ snap' = IF \/ snap[s].at = 0
                        \/ /\ s \notin grouped \/ snap[s].stale \/ snap[s].since # NoJob
                           /\ price >= snap[s].at
                     THEN [snap EXCEPT ![s] = [at |-> price, stale |-> FALSE,
                                               since |-> IF s \in grouped THEN snNow ELSE NoJob]]
                     ELSE snap
    /\ confirmedAt' = [confirmedAt EXCEPT ![s] = snNow]
----------------------------------------------------------------------------
\* forceRefresh(): the symbols become members and their groups are asked at once.
ForceAsk(asked) ==
    /\ running /\ manual = NoJob
    /\ Cardinality(members \cup asked) <= MaxMembers
    /\ members' = members \cup asked
    /\ manual' = [asked |-> asked, epoch |-> epochs]
    /\ UNCHANGED <<grouped, snap, fallback, batch, attempted, dueAt, blockedUntil, enriching,
                   enrichAt, retryAt, notBefore, running, epochs, snNow, batchGood, confirmedAt>>

\* The answer is committed like a batch, and lets enrichment run again, but not
\* before a Retry-After.  A caller that left meanwhile gets nothing back in.
ForceEnds ==
    /\ manual # NoJob
    /\ manual' = NoJob
    /\ IF ~Valid(manual.epoch)
       THEN UNCHANGED <<snap, fallback, dueAt, enriching, enrichAt, retryAt, batchGood, confirmedAt>>
       ELSE \E price \in [manual.asked -> Prices \cup {0}], late \in BOOLEAN, wait \in Soon :
              LET here == manual.asked \cap members
                  taken == {s \in here \cap grouped : price[s] # 0 /\ Takes(s, price[s], late)}
              IN /\ snap' = [s \in SnSymbols |-> IF s \in taken THEN Fresh(price[s]) ELSE snap[s]]
                 /\ fallback' = [s \in SnSymbols |->
                        IF s \in taken THEN [at |-> price[s], since |-> snNow] ELSE fallback[s]]
                 /\ dueAt' = [s \in SnSymbols |-> IF s \in taken THEN snNow + wait ELSE dueAt[s]]
                 /\ retryAt' = [s \in SnSymbols |-> IF s \in here THEN notBefore[s] ELSE retryAt[s]]
                 /\ batchGood' = batchGood \cup taken
                 /\ confirmedAt' = [s \in SnSymbols |-> IF s \in taken THEN snNow ELSE confirmedAt[s]]
                 /\ Enrich({}, batch # NoJob,
                           [s \in SnSymbols |-> IF s \in here THEN NoJob ELSE enrichAt[s]], retryAt')
    /\ UNCHANGED <<grouped, members, batch, attempted, blockedUntil, notBefore, running, epochs, snNow>>

StartSnapshots ==
    /\ ~running /\ epochs < MaxEpochs
    /\ running' = TRUE /\ epochs' = epochs + 1
    /\ UNCHANGED <<grouped, members, snap, fallback, batch, manual, attempted, dueAt, blockedUntil,
                   enriching, enrichAt, retryAt, notBefore, snNow, batchGood, confirmedAt>>

StopSnapshots ==
    /\ running
    /\ running' = FALSE /\ epochs' = epochs + 1
    /\ DropAll(members)
    /\ UNCHANGED <<grouped, batch, manual, blockedUntil, enriching, snNow>>

SnapshotSecond ==
    /\ snNow < SnTime
    /\ snNow' = snNow + 1
    /\ UNCHANGED <<grouped, members, snap, fallback, batch, manual, attempted, dueAt, blockedUntil,
                   enriching, enrichAt, retryAt, notBefore, running, epochs, batchGood, confirmedAt>>

SnapshotsNext ==
    \/ \E s \in SnSymbols : \/ Get(s) \/ Leave(s) \/ EnrichmentDropped(s)
                            \/ EnrichmentFails(s) \/ EnrichmentSucceeds(s)
    \/ \E asked \in SUBSET SnSymbols \ {{}} : ForceAsk(asked)
    \/ SnapshotTick \/ BatchAnswers \/ BatchFails \/ ForceEnds
    \/ StartSnapshots \/ StopSnapshots \/ SnapshotSecond

SnapshotsSpec == SnapshotsInit /\ [][SnapshotsNext]_snVars
----------------------------------------------------------------------------
\* getCachedQuote(): a price that stands in for the batch expires by itself.
Shown(s) ==
    [at |-> snap[s].at,
     stale |-> \/ snap[s].stale
               \/ snap[s].since # NoJob /\ (fallback[s].at = 0 \/ snNow - snap[s].since >= Cadence)]

(* The price shown of a member never goes back in time, whichever of the batch,   *)
(* the enrichment, the forced refresh or a failure writes last.                   *)
ShownPriceNeverGoesBack ==
    [][\A s \in members : s \in members' => snap'[s].at >= snap[s].at]_snVars

(* A price is shown as current only while its source stands behind it: the batch   *)
(* whose last word was a price, or an enrichment or refresh that brought one within  *)
(* the cadence and has not failed since.  A failed batch never renews it.  Of a       *)
(* symbol that left, by age, by the engine or by a stop, nothing is shown at all, and *)
(* no answer that comes later brings it back.                                         *)
ShownIsConfirmed ==
    \A s \in SnSymbols :
        IF s \in members
        THEN (snap[s].at # 0 /\ ~Shown(s).stale)
                => \/ s \in batchGood
                   \/ confirmedAt[s] # NoJob /\ (s \notin grouped \/ snNow - confirmedAt[s] < Cadence)
        ELSE /\ snap[s] = None /\ fallback[s] = NoFallback /\ enrichAt[s] = NoJob
             /\ s \notin attempted /\ dueAt[s] = 0 /\ retryAt[s] = 0 /\ notBefore[s] = 0
=============================================================================
