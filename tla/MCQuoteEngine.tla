--------------------------- MODULE MCQuoteEngine ---------------------------
(* QuoteEngine on small instances, one in each behaviour: the reads of one      *)
(* symbol that overlap, two symbols that compete for one active place, and two   *)
(* clients that share a symbol.                                                  *)
EXTENDS QuoteEngine

CONSTANTS s1, s2, c1, c2

VARIABLE part

Members == INSTANCE QuoteEngine WITH
    Asked <- {s1, s2}, Jobs <- {1}, Times <- {1}, Kinds <- {"error"}, Refreshed <- {}
Shared == INSTANCE QuoteEngine WITH
    Asking <- {c1, c2}, Jobs <- {1}, Times <- {1}, Kinds <- {"price", "nothing"},
    Refreshed <- {}

PartsInit ==
    \/ part = "reads" /\ Init
    \/ part = "members" /\ Members!Init
    \/ part = "shared" /\ Shared!Init

PartsNext ==
    /\ UNCHANGED part
    /\ \/ part = "reads" /\ Next
       \/ part = "members" /\ Members!Next
       \/ part = "shared" /\ Shared!Next

PartsSpec == PartsInit /\ [][PartsNext]_<<part, vars>>

\* Only the time a lease has left matters, and whether a job or a caller
\* belongs to the epoch that is running.
Left(s) == IF leases[s] = 0 THEN 0
           ELSE IF leases[s] <= now THEN 1 ELSE 1 + leases[s] - now

View == <<part, running, epoch, active, clients, watchers, [s \in DOMAIN leases |-> Left(s)],
          told, quotes, dirty, poked, inflight, readAgain,
          [s \in DOMAIN job |-> [j \in DOMAIN job[s] |->
              <<job[s][j].stage, job[s][j].owner = epoch>>]],
          unread, seen,
          IF caller.at = "idle" THEN <<>>
          ELSE <<caller.at, caller.symbol, caller.job, caller.epoch = epoch,
                 now < caller.until, caller.fresh>>>>
=============================================================================
