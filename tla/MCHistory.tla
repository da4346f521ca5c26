----------------------------- MODULE MCHistory ------------------------------
(* The two sides of the histories: what is kept warm across restarts, and the  *)
(* windows of one symbol.  They share no state, so one run checks each of them  *)
(* on its own: in a behaviour one part runs while the other rests.              *)
EXTENDS HistoryPrewarm, HistoryService, TLC

CONSTANTS Parts, s1, s2, o1, c1, r1, r2, j1, j2

VARIABLE part

PartsInit == part \in Parts /\ Init /\ HistoryInit

PartsNext ==
    /\ UNCHANGED part
    /\ IF part = "prewarm" THEN Next ELSE UNCHANGED vars
    /\ IF part = "windows" THEN HistoryNext ELSE UNCHANGED hsVars

PartsSpec == PartsInit /\ [][PartsNext]_<<part, vars, hsVars>>

Symmetry == Permutations(Symbols) \cup Permutations(HsReaders) \cup Permutations(HsJobs)

\* Nothing looks at whether the timer asked for a write, at a list saved before
\* the last start, nor at whether restore() succeeded.
Of(request) == IF request = None THEN None
               ELSE <<request.saved, request.askers \ {Timer}>>

PrewarmView == <<disk, Of(pending), writer.at, writer.body, writer.askers \ {Timer},
                 running, initialized, starts < MaxStarts, durable, leases, watchlist,
                 entries, tasks, cached, saveTimer, drainTimer, restore, moved, stopping,
                 finalBody, posted, IF running THEN latest ELSE 0, acked>>

View == <<part, IF part = "prewarm" THEN PrewarmView ELSE hsVars>>
=============================================================================
