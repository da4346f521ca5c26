----------------------------- MODULE MCServices -----------------------------
(* The services between the engine and its clients, and the quote sources they *)
(* read: keys, quota and streams; realtime quotes, snapshots, fast polling and  *)
(* the trade stream.  They share no state, so one run checks each of them on     *)
(* its own: in a behaviour one part runs while the others rest.                  *)
EXTENDS ApiKeys, ContextLimiter, QuoteStreams, RealtimeQuotes, SnapshotService,
        FastPolling, AlpacaStream

CONSTANTS
    Parts,
    admin1, admin2, e1, e2, n1, n2, n3, f1, f2, api1, api2, sse1, q1, s1, s2,
    t1, t2, t3, caller1, caller2

VARIABLE part
vars == <<part, keyVars, quotaVars, streamVars, rtVars, snVars, pollVars, alVars>>

Init ==
    /\ part \in Parts
    /\ KeysInit /\ QuotaInit /\ StreamsInit /\ RealtimeInit /\ SnapshotsInit
    /\ PollInit /\ AlpacaInit
    /\ part # "keys" => env = NoKey
    /\ part # "snapshots" => grouped = {}

\* What is anonymous is taken in the order of a list: the first of it that is free.
Secret == <<n1, n2, n3>>
Task == <<t1, t2, t3>>
InOrder(list, before, after) ==
    \A n \in DOMAIN list :
        list[n] \in before \ after => \A m \in 1..n - 1 : list[m] \notin before
IdleTasks == {t \in RtTasks : task[t].stage = "idle"}
IdleCallers == {c \in PollCallers : reading[c].stage = "idle"}
NewConns == {c \in ApiConns : phase[c] = "idle"}

KeysPart == KeysNext /\ InOrder(Secret, NewSecrets \ drawn, NewSecrets \ drawn')
\* Families differ in name only: the first connection may be taken to use f1.
StreamsPart == /\ StreamsNext /\ InOrder(<<api1, api2>>, NewConns, NewConns')
               /\ family'[api1] \in {NoFamily, f1}
RealtimePart == RealtimeNext /\ InOrder(Task, IdleTasks, IdleTasks')
PollPart == PollNext /\ InOrder(<<caller1, caller2>>, IdleCallers, IdleCallers')

\* The trade stream twice: its subscriptions without trades, over two connections;
\* and the trades of one symbol over one connection and REST.
SubscriptionsPart == AlpacaNext /\ UNCHANGED <<tape, rest>>
TradesPart == AlpacaNext /\ opened' <= 1 /\ al'.active \subseteq {s1} /\ tape'[s2] = <<>>

Next ==
    /\ UNCHANGED part
    /\ IF part = "keys" THEN KeysPart ELSE UNCHANGED keyVars
    /\ IF part = "quota" THEN QuotaNext ELSE UNCHANGED quotaVars
    /\ IF part = "streams" THEN StreamsPart ELSE UNCHANGED streamVars
    /\ IF part = "realtime" THEN RealtimePart ELSE UNCHANGED rtVars
    /\ IF part = "snapshots" THEN SnapshotsNext ELSE UNCHANGED snVars
    /\ IF part = "polling" THEN PollPart ELSE UNCHANGED pollVars
    /\ CASE part = "subscriptions" -> SubscriptionsPart
         [] part = "trades" -> TradesPart
         [] OTHER -> UNCHANGED alVars

Spec == Init /\ [][Next]_vars

\* A connection that ended is known by its end alone; of what it was told last only
\* whether it is current matters.  Administrators differ in name only.
ConnView(c) ==
    IF c \in Open
    THEN <<socket[c], {i \in Items : sent[c][i] = ver[i]}, c \in dirty,
           IF c \in ApiConns THEN family[c] ELSE pending[c]>>
    ELSE <<phase[c] = "idle", socket[c] = "down">>

\* Of a clock only what is left of a pause and how old a quote is, up to the
\* cadence, can be told; of an epoch only whether it is the current one.
Left(t) == IF t > snNow THEN t - snNow ELSE 0
AgeOf(t) == IF t = NoJob THEN NoJob ELSE IF snNow - t < Cadence THEN snNow - t ELSE Cadence
SymbolView(s) ==
    <<snap[s].at, snap[s].stale, AgeOf(snap[s].since), fallback[s].at, AgeOf(fallback[s].since),
      AgeOf(confirmedAt[s]), Left(dueAt[s]), Left(retryAt[s]), Left(notBefore[s]),
      AgeOf(enrichAt[s]), enriching[s] = NoJob, enriching[s] # NoJob /\ Valid(enriching[s])>>
SnapshotView ==
    <<grouped, members, running, batchGood, attempted, Left(blockedUntil),
      [s \in SnSymbols |-> SymbolView(s)],
      IF batch = NoJob THEN <<>> ELSE <<batch.asked, Valid(batch.epoch), AgeOf(batch.start)>>,
      IF manual = NoJob THEN <<>> ELSE <<manual.asked, Valid(manual.epoch)>>>>

\* Of an epoch only whether it is the current one, or that of the batch.
EpochView(e) == <<e = pollEpoch, pollJob # NoBatch /\ e = pollJob.owner>>
PollView ==
    <<due, missed, [s \in PollSymbols |-> polled[s] \in {NoQuoteYet, pollEpoch}],
      IF pollJob = NoBatch THEN <<>> ELSE <<pollJob.symbols, pollJob.stage, OfThisEpoch>>,
      [c \in PollCallers |-> IF reading[c].stage = "idle" THEN <<>>
                              ELSE <<[reading[c] EXCEPT !.owner = 0], EpochView(reading[c].owner)>>]>>

View ==
    <<part,
      CASE part = "keys" -> <<records, file, env, serving, {work[a] : a \in Admins}, drawn,
                             keyNow, starts, revokedBefore, revived>>
        [] part = "quota" -> quotaVars
        [] part = "streams" -> <<[c \in Conns |-> ConnView(c)], held, perKey, blocked,
                                 keyWorks, scheduled, stall>>
        [] part = "realtime" -> rtVars
        [] part = "snapshots" -> SnapshotView
        [] part = "polling" -> PollView
        [] OTHER -> alVars>>
=============================================================================
