---------------------------- MODULE QuoteEngine ----------------------------
(***************************************************************************)
(* src/lib/quote-engine.js: the set of active symbols (watched by streams  *)
(* or leased by readers), one read per symbol in flight, notifications     *)
(* that are collapsed and replayed, the guard against late prices, and the *)
(* change messages to the listeners.                                       *)
(*                                                                         *)
(* A quote is reduced to whether it has a price, the time of that price    *)
(* and the stale mark.  The signature the code compares is the quote.      *)
(***************************************************************************)
EXTENDS Naturals, FiniteSets

CONSTANTS
    Symbols,
    Clients,        \* tokens of watch()
    MaxSymbols,
    Lease,          \* leaseMs
    Jobs,           \* reads of one symbol that can be alive at a time
    Times,          \* times of prices
    Kinds,          \* kinds of answers
    Asked, Asking,  \* symbols that are asked for, and clients that watch
    Refreshed,      \* symbols refreshNow() is called for
    MaxTime, MaxEpoch   \* bounds on the clock and on the number of stops

ASSUME EngineAssumption ==
    /\ IsFiniteSet(Symbols) /\ IsFiniteSet(Clients)
    /\ MaxSymbols \in Nat /\ Lease \in Nat \ {0}
    /\ MaxTime \in Nat \ {0} /\ MaxEpoch \in Nat
    /\ Jobs \subseteq Nat \ {0} /\ Times \subseteq Nat \ {0}
    /\ Kinds \subseteq {"price", "invalidated", "error", "nothing"}
    /\ Refreshed \subseteq Symbols /\ Asked \subseteq Symbols /\ Asking \subseteq Clients

VARIABLES
    running, epoch, now,
    active,         \* activeSymbols
    watchers,       \* number of clients per symbol
    clients,        \* symbols of a client, {} without one
    leases,         \* end of a lease, 0 without one
    told,           \* list onMembership() was last called with
    quotes,         \* NoQuote or a quote
    dirty,          \* symbols of the armed change message
    poked,          \* symbols of the armed poke timer
    inflight,       \* job reading a symbol, 0 without one
    readAgain,
    job,            \* stage and epoch of the jobs of each symbol
    unread,         \* history: notified, and not read since
    seen,           \* history: quote the listeners last heard of
    caller          \* the caller of refreshNow()

membershipVars == <<active, watchers, clients, leases, told>>
vars == <<running, epoch, now, membershipVars, quotes, dirty, poked, inflight,
          readAgain, job, unread, seen, caller>>

NoQuote == [price |-> FALSE, at |-> 0, stale |-> FALSE, none |-> TRUE]
Price(t, s) == [price |-> TRUE, at |-> t, stale |-> s, none |-> FALSE]
Broken  == [price |-> FALSE, at |-> 0, stale |-> FALSE, none |-> FALSE]

NoCaller == [at |-> "idle", symbol |-> CHOOSE s \in Symbols : TRUE, job |-> 0,
             epoch |-> 0, until |-> 0, fresh |-> FALSE]

Free == [stage |-> "free", owner |-> 0]

IsActive(s) == s \in active /\ (watchers[s] > 0 \/ leases[s] > now)

Init ==
    /\ running = FALSE /\ epoch = 0 /\ now = 1
    /\ active = {} /\ watchers = [s \in Symbols |-> 0]
    /\ clients = [c \in Clients |-> {}] /\ leases = [s \in Symbols |-> 0]
    /\ told = {}
    /\ quotes = [s \in Symbols |-> NoQuote]
    /\ dirty = {} /\ poked = {}
    /\ inflight = [s \in Symbols |-> 0] /\ readAgain = {}
    /\ job = [s \in Symbols |-> [j \in Jobs |-> Free]]
    /\ unread = {} /\ seen = [s \in Symbols |-> NoQuote]
    /\ caller = NoCaller

-----------------------------------------------------------------------------
(* Membership                                                              *)

\* Leases that have run out, and the symbols nothing else keeps.
RunOut  == {s \in Symbols : leases[s] # 0 /\ leases[s] <= now}
Expired == {s \in active \cap RunOut : watchers[s] = 0}
LeasesLeft == [s \in Symbols |-> IF s \in RunOut THEN 0 ELSE leases[s]]

Without(gone) == [s \in Symbols |-> IF s \in gone THEN NoQuote ELSE quotes[s]]

\* membership(): drop what has expired, tell the consumers if the set changed.
Membership(new) ==
    /\ active' = (active \ Expired) \cup new
    /\ told' = active'
    /\ quotes' = Without(Expired)

\* admit(): the places left after the expired ones are gone.
Fits(list) == Cardinality((active \ Expired) \cup list) <= MaxSymbols

-----------------------------------------------------------------------------
(* update()                                                                *)

NextJob(s) == CHOOSE j \in Jobs : job[s][j] = Free
HasJob(s)  == \E j \in Jobs : job[s][j] = Free

\* A read for each symbol of the list that has none in flight.
NewReads(list) ==
    LET new == {s \in list : inflight[s] = 0} IN
    /\ \A s \in new : HasJob(s)
    /\ inflight' = [s \in Symbols |-> IF s \in new THEN NextJob(s) ELSE inflight[s]]
    /\ job' = [s \in Symbols |->
          IF s \in new
          THEN [job[s] EXCEPT ![NextJob(s)] = [stage |-> "created", owner |-> epoch]]
          ELSE job[s]]

\* A notification that meets a read in flight is taken as answered by it.
UpdateBug(list) ==
    IF ~running THEN UNCHANGED <<inflight, readAgain, job>>
    ELSE NewReads(list) /\ UNCHANGED readAgain

\* A new read for each symbol that has none; the others are read once more.
Update(list) ==
    IF ~running THEN UNCHANGED <<inflight, readAgain, job>>
    ELSE /\ NewReads(list)
         /\ readAgain' = readAgain \cup {s \in list : inflight[s] # 0}

\* The first microtask of a job reads the source if that still makes sense.
StartRead(s, j) ==
    /\ job[s][j].stage = "created"
    /\ IF running /\ job[s][j].owner = epoch /\ IsActive(s)
       THEN /\ job' = [job EXCEPT ![s][j].stage = "reading"]
            /\ unread' = unread \ {s}
            /\ caller' = IF caller.at # "idle" /\ caller.symbol = s THEN [caller EXCEPT !.fresh = TRUE]
                         ELSE caller
       ELSE /\ job' = [job EXCEPT ![s][j].stage = "read"]
            /\ UNCHANGED <<unread, caller>>
    /\ UNCHANGED <<running, epoch, now, membershipVars, quotes, dirty, poked,
                   inflight, readAgain, seen>>

\* commit() without the guard against late prices.
CommittedBug(old, kind, t, stale) ==
    IF kind = "error"
    THEN IF old.price THEN [old EXCEPT !.stale = TRUE] ELSE Broken
    ELSE Price(t, stale)

\* What commit() stores for a value of the given kind and time.  A rejected read,
\* an error or pending record and a price from the future are of kind "error":
\* they keep the last price and mark it stale.  A late price is dropped unless
\* it invalidates the trade it replaces.
Committed(old, kind, t, stale) ==
    IF kind = "nothing" THEN old
    ELSE IF kind = "error"
    THEN IF old.price THEN [old EXCEPT !.stale = TRUE] ELSE Broken
    ELSE IF old.price /\ old.at > t /\ kind # "invalidated"
    THEN [old EXCEPT !.stale = @ \/ stale]
    ELSE Price(t, stale)

\* The source answers; the value counts only for a symbol that is still wanted
\* in the epoch the read was started in.
CommitRead(s, j, kind, t, stale) ==
    /\ job[s][j].stage = "reading"
    /\ job' = [job EXCEPT ![s][j].stage = "read"]
    /\ IF running /\ job[s][j].owner = epoch /\ IsActive(s)
       THEN LET new == Committed(quotes[s], kind, t, stale) IN
            /\ quotes' = [quotes EXCEPT ![s] = new]
            /\ dirty' = IF new = quotes[s] THEN dirty ELSE dirty \cup {s}
       ELSE UNCHANGED <<quotes, dirty>>
    /\ UNCHANGED <<running, epoch, now, membershipVars, poked, inflight,
                   readAgain, unread, seen, caller>>

\* A job somebody awaits keeps its number until that caller has gone on.
Done(s, j) == IF caller.at # "idle" /\ caller.symbol = s /\ caller.job = j
              THEN [stage |-> "ended", owner |-> 0] ELSE Free

\* finally(): give the symbol free, and read again what was asked for meanwhile.
FinishRead(s, j) ==
    /\ job[s][j].stage = "read"
    /\ IF inflight[s] # j
       THEN /\ job' = [job EXCEPT ![s][j] = Done(s, j)]
            /\ UNCHANGED <<inflight, readAgain>>
       ELSE /\ readAgain' = readAgain \ {s}
            /\ IF s \in readAgain /\ running /\ job[s][j].owner = epoch /\ IsActive(s)
               THEN LET next == CHOOSE i \in Jobs : i # j /\ job[s][i] = Free IN
                    /\ \E i \in Jobs : i # j /\ job[s][i] = Free
                    /\ inflight' = [inflight EXCEPT ![s] = next]
                    /\ job' = [job EXCEPT ![s][j] = Done(s, j),
                                          ![s][next] = [stage |-> "created",
                                                        owner |-> epoch]]
               ELSE /\ inflight' = [inflight EXCEPT ![s] = 0]
                    /\ job' = [job EXCEPT ![s][j] = Done(s, j)]
    /\ UNCHANGED <<running, epoch, now, membershipVars, quotes, dirty, poked,
                   unread, seen, caller>>

-----------------------------------------------------------------------------
(* The interface                                                           *)

\* read() with a lease.
Read(list) ==
    IF Fits(list)
    THEN /\ Membership(list)
         /\ leases' = [s \in Symbols |-> IF s \in list THEN now + Lease
                                         ELSE LeasesLeft[s]]
         /\ Update(list \ (active \ Expired))
    ELSE /\ Membership({})
         /\ leases' = LeasesLeft
         /\ UNCHANGED <<inflight, readAgain, job>>

ReadQuotes(list) ==
    /\ Read(list)
    /\ UNCHANGED <<running, epoch, now, watchers, clients, dirty, poked, unread,
                   seen, caller>>

Watch(c, list) ==
    /\ clients[c] = {}
    /\ leases' = LeasesLeft
    /\ IF Fits(list)
       THEN /\ Membership(list)
            /\ clients' = [clients EXCEPT ![c] = list]
            /\ watchers' = [s \in Symbols |-> watchers[s] + IF s \in list THEN 1 ELSE 0]
            /\ Update(list \ (active \ Expired))
       ELSE /\ Membership({})
            /\ UNCHANGED <<clients, watchers, inflight, readAgain, job>>
    /\ UNCHANGED <<running, epoch, now, dirty, poked, unread, seen, caller>>

\* The function watch() returns.
Unwatch(c) ==
    /\ clients[c] # {}
    /\ clients' = [clients EXCEPT ![c] = {}]
    /\ watchers' = [s \in Symbols |-> watchers[s] - IF s \in clients[c] THEN 1 ELSE 0]
    /\ leases' = LeasesLeft
    /\ LET gone == {s \in clients[c] \cup Expired :
                      s \in active /\ watchers'[s] = 0 /\ leases'[s] = 0} IN
       /\ active' = active \ gone
       /\ quotes' = Without(gone)
    /\ told' = active'
    /\ UNCHANGED <<running, epoch, now, dirty, poked, inflight, readAgain, job,
                   unread, seen, caller>>

Poke(s) ==
    /\ running /\ IsActive(s)
    /\ poked' = poked \cup {s}
    /\ unread' = unread \cup {s}
    /\ UNCHANGED <<running, epoch, now, membershipVars, quotes, dirty, inflight,
                   readAgain, job, seen, caller>>

PokeTimer ==
    /\ poked # {}
    /\ poked' = {}
    /\ Update({s \in poked : IsActive(s)})
    /\ UNCHANGED <<running, epoch, now, membershipVars, quotes, dirty, unread,
                   seen, caller>>

\* The listeners get one message for all changes since the last one.
FlushTimer ==
    /\ dirty # {}
    /\ dirty' = {}
    /\ seen' = [s \in Symbols |-> IF s \in dirty THEN quotes[s] ELSE seen[s]]
    /\ UNCHANGED <<running, epoch, now, membershipVars, quotes, poked, inflight,
                   readAgain, job, unread, caller>>

TickTimer ==
    /\ running
    /\ Membership({})
    /\ leases' = LeasesLeft
    /\ Update(active')
    /\ UNCHANGED <<running, epoch, now, watchers, clients, dirty, poked, unread,
                   seen, caller>>

-----------------------------------------------------------------------------
(* refreshNow(): wait for the read in flight, then for one more.           *)

Await(at, s, j) == [caller EXCEPT !.at = at, !.symbol = s, !.job = j]

RefreshNow(s) ==
    /\ caller.at = "idle" /\ Fits({s})
    /\ IF inflight[s] # 0 \/ (running /\ s \notin active \ Expired)
       THEN Read({s}) /\ caller' = [at |-> "first", symbol |-> s, job |-> inflight'[s],
                                    epoch |-> epoch, until |-> now + Lease,
                                    fresh |-> FALSE]
       ELSE /\ Membership({s})
            /\ leases' = [LeasesLeft EXCEPT ![s] = now + Lease]
            /\ Update({s})
            /\ caller' = IF running
                         THEN [at |-> "second", symbol |-> s, job |-> inflight'[s],
                               epoch |-> epoch, until |-> now + Lease, fresh |-> FALSE]
                         ELSE caller
    /\ UNCHANGED <<running, epoch, now, watchers, clients, dirty, poked, unread, seen>>

Awaited == job[caller.symbol][caller.job].stage = "ended"

\* The second read is skipped.
RefreshGoesOnBug ==
    /\ caller.at = "first" /\ Awaited
    /\ caller' = [caller EXCEPT !.at = "second"]
    /\ UNCHANGED <<running, epoch, now, membershipVars, quotes, dirty, poked,
                   inflight, readAgain, job, unread, seen>>

RefreshGoesOn ==
    /\ caller.at = "first" /\ Awaited
    /\ LET s == caller.symbol IN
       IF ~running
       THEN /\ job' = [job EXCEPT ![s][caller.job] = Free]
            /\ caller' = NoCaller
            /\ UNCHANGED <<inflight, readAgain>>
       ELSE LET next == IF inflight[s] # 0 THEN inflight[s]
                        ELSE CHOOSE j \in Jobs : j # caller.job /\ job[s][j] = Free
            IN
            /\ inflight[s] = 0 => \E j \in Jobs : j # caller.job /\ job[s][j] = Free
            /\ readAgain' = IF inflight[s] # 0 THEN readAgain \cup {s} ELSE readAgain
            /\ inflight' = [inflight EXCEPT ![s] = next]
            /\ job' = [job EXCEPT ![s] = [i \in Jobs |->
                          IF i = caller.job THEN Free
                          ELSE IF i = next /\ inflight[s] = 0
                          THEN [stage |-> "created", owner |-> epoch]
                          ELSE job[s][i]]]
            /\ caller' = Await("second", s, next)
    /\ UNCHANGED <<running, epoch, now, membershipVars, quotes, dirty, poked,
                   unread, seen>>

RefreshReturns ==
    /\ caller.at = "second" /\ Awaited
    /\ job' = [job EXCEPT ![caller.symbol][caller.job] = Free]
    /\ caller' = NoCaller
    /\ UNCHANGED <<running, epoch, now, membershipVars, quotes, dirty, poked,
                   inflight, readAgain, unread, seen>>

-----------------------------------------------------------------------------
Start ==
    /\ ~running
    /\ running' = TRUE
    /\ Membership({})
    /\ leases' = LeasesLeft
    /\ NewReads(active')
    /\ readAgain' = readAgain \cup {s \in active' : inflight[s] # 0}
    /\ UNCHANGED <<epoch, now, watchers, clients, dirty, poked, unread, seen, caller>>

Stop ==
    /\ running /\ epoch < MaxEpoch
    /\ running' = FALSE /\ epoch' = epoch + 1
    /\ active' = {} /\ watchers' = [s \in Symbols |-> 0]
    /\ clients' = [c \in Clients |-> {}] /\ leases' = [s \in Symbols |-> 0]
    /\ told' = {}
    /\ quotes' = [s \in Symbols |-> NoQuote]
    /\ dirty' = {} /\ poked' = {} /\ readAgain' = {}
    /\ inflight' = [s \in Symbols |-> 0]
    /\ unread' = {}
    /\ UNCHANGED <<now, job, seen, caller>>

Tick ==
    /\ now < MaxTime
    /\ now' = now + 1
    /\ UNCHANGED <<running, epoch, membershipVars, quotes, dirty, poked, inflight,
                   readAgain, job, unread, seen, caller>>

Lists == SUBSET Asked \ {{}}

Next ==
    \/ Start \/ Stop \/ Tick \/ TickTimer \/ PokeTimer \/ FlushTimer
    \/ RefreshGoesOn \/ RefreshReturns
    \/ \E l \in Lists : ReadQuotes(l) \/ \E c \in Asking : Watch(c, l)
    \/ \E c \in Clients : Unwatch(c)
    \/ \E s \in Symbols :
          \/ Poke(s)
          \/ s \in Refreshed /\ RefreshNow(s)
          \/ \E j \in Jobs :
                \/ StartRead(s, j) \/ FinishRead(s, j)
                \/ \E k \in Kinds, t \in Times, b \in BOOLEAN : CommitRead(s, j, k, t, b)

Spec == Init /\ [][Next]_vars

-----------------------------------------------------------------------------
EngineTypeOK ==
    /\ running \in BOOLEAN /\ epoch \in 0..MaxEpoch /\ now \in 1..MaxTime
    /\ active \subseteq Symbols /\ told \subseteq Symbols
    /\ watchers \in [Symbols -> 0..Cardinality(Clients)]
    /\ clients \in [Clients -> SUBSET Symbols]
    /\ leases \in [Symbols -> 0..(MaxTime + Lease)]
    /\ inflight \in [Symbols -> Jobs \cup {0}]
    /\ dirty \subseteq Symbols /\ poked \subseteq Symbols
    /\ readAgain \subseteq Symbols /\ unread \subseteq Symbols

\* The active symbols are exactly those some client watches or some lease
\* keeps, within the capacity, and the consumers of the membership know them.
MembershipExact ==
    /\ active = {s \in Symbols : leases[s] # 0 \/ \E c \in Clients : s \in clients[c]}
    /\ \A s \in Symbols : watchers[s] = Cardinality({c \in Clients : s \in clients[c]})
    /\ Cardinality(active) <= MaxSymbols
    /\ told = active

\* A notification is never lost in a read that was already under way: as long
\* as it has not been read, something will read its symbol again.
NotificationKept ==
    \A s \in unread :
        running /\ IsActive(s) =>
            \/ s \in poked
            \/ inflight[s] # 0 /\ (s \in readAgain \/ job[s][inflight[s]].stage = "created")

\* A quote is held for active symbols only, whatever reads are still under way
\* when a symbol is dropped or the engine is stopped.
NoOrphanQuote ==
    \A s \in Symbols : quotes[s] # NoQuote => s \in active

\* Membership and quotes agree, and everything is what it should be.
MembershipInv == EngineTypeOK /\ MembershipExact /\ NoOrphanQuote

\* Whoever reads a quote that differs from the one last announced is about to
\* be told of the change.
ChangesAnnounced ==
    \A s \in active : quotes[s] \notin {NoQuote, seen[s]} => s \in dirty

\* No notification is lost, no change is kept from the listeners, and nothing
\* outlives its place among the active symbols.
EngineInv == MembershipInv /\ NotificationKept /\ ChangesAnnounced

\* While a symbol stays active its price never goes back in time, except by an
\* answer that invalidates the trade, and it is never lost to an error.
PriceGoesForward ==
    \A s \in Symbols :
        LET By(kind) == \E j \in Jobs, t \in Times, b \in BOOLEAN :
                           CommitRead(s, j, kind, t, b)
        IN  quotes[s].price /\ s \in active' /\ ~quotes'[s].none =>
               /\ quotes'[s].price
               /\ quotes'[s].at < quotes[s].at => By("invalidated") /\ ~By("price")

\* The prices that reads bring never go back in time (quote-engine.js:57).
ReadPricesGoForward == [][PriceGoesForward]_vars

\* refreshNow() returns after a read that began after the call, unless the
\* engine was stopped or the lease of the call ran out in the meantime.
RefreshIsFresh ==
    [][caller.at = "second" /\ caller'.at = "idle"
          => caller.fresh \/ epoch # caller.epoch \/ now >= caller.until]_vars
=============================================================================
