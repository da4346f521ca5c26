------------------------------ MODULE HostGate ------------------------------
(***************************************************************************)
(* One host of the request gate in src/lib/host-gate.js.  Every request to *)
(* a provider's host passes a TaskQueue with one slot; the work of a job   *)
(* checks the cooldown, keeps the minimum gap between two requests, sends  *)
(* the request and learns from its response how long the host must rest.   *)
(*                                                                         *)
(* The module composes with TaskQueue by extending it: each step here is a *)
(* step of the queue, or leaves the queue alone, joined with what the gate *)
(* does.  The oracle "ready" of the queue becomes what readyAt() computes  *)
(* from the gate's clock, so Spec of TaskQueue is checked as a property.   *)
(***************************************************************************)
EXTENDS TaskQueue, Integers

CONSTANTS
    Gap,            \* minGap(group)
    Hints,          \* instants a provider may name in retry-after headers
    LimitBase, LimitCap,     \* pause after 429: min(capMs, baseMs * 2^n)
    ServerBase, ServerCap,   \* pause after 5xx and transport errors
    ForbiddenPause,          \* pause after 403
    HasPolicy,      \* the yahoo host, whose state reset() and expire() clear
    MaxTime         \* bound on the clock

ASSUME GateAssumption ==
    /\ MaxActive = 1
    /\ {Gap, LimitBase, LimitCap, ServerBase, ServerCap, ForbiddenPause} \subseteq Nat
    /\ Hints \subseteq Nat
    /\ HasPolicy \in BOOLEAN /\ MaxTime \in Nat

VARIABLES
    now,
    lastStart,      \* instant of the last request, Never at first
    until,          \* end of the cooldown
    failures,
    step,           \* where the gate's work of a job stands
    banned          \* history: latest retryAt learned and not reset

gateVars == <<now, lastStart, until, failures, step, banned>>
vars     == <<queueVars, gateVars>>

Never == 0 - Gap

\* "denied" is the 403 of Finnhub, which withholds one dataset only.
Statuses == {"ok", "limited", "forbidden", "denied", "server", "other"}
Steps    == {"none", "delay", "work", "answered", "failed"}

queueButReady == <<waiting, running, stage, outcome, prio, seqNo, sequence,
                   burst, closed, wake, draining, overdue, bypassed>>

AtLeast(a, b) == IF a >= b THEN a ELSE b
AtMost(a, b)  == IF a <= b THEN a ELSE b

\* readyAt() against the clock: during a cooldown jobs start, to fail at once.
ReadyNow == until > now \/ lastStart + Gap <= now

Gone(j) == outcome[j] \in Cancelled

-----------------------------------------------------------------------------
GateInit ==
    /\ Init /\ ready = TRUE
    /\ now = 0 /\ lastStart = Never /\ until = 0 /\ failures = 0
    /\ step = [j \in Jobs |-> "none"]
    /\ banned = 0

\* Steps of the queue that do not concern the gate.
QueueStep ==
    /\ \/ Drain \/ WakeTimer \/ Close \/ Reopen
       \/ \E j \in Jobs :
             \/ Refuse(j)
             \/ \E p \in Roles : Admit(j, p) \/ Promote(j, p)
             \/ ReaderAborts(j) \/ DeadlineTimer(j) \/ DeadlinePasses(j)
             \/ Release(j)
    /\ UNCHANGED gateVars

\* The request goes out: lastStart, calls and busy are set in one go.
Send(j) ==
    /\ lastStart' = now
    /\ step' = [step EXCEPT ![j] = "work"]

\* The work is called without a second look at the cooldown.
EnterBug(j) ==
    /\ Begin(j)
    /\ IF Gone(j) THEN UNCHANGED <<step, lastStart>>
       ELSE IF lastStart + Gap > now
       THEN step' = [step EXCEPT ![j] = "delay"] /\ UNCHANGED lastStart
       ELSE Send(j)
    /\ UNCHANGED <<now, until, failures, banned>>
    /\ ready' = ReadyNow'

\* The queue calls the work: cooldown, then gap, then the request.
Enter(j) ==
    /\ Begin(j)
    /\ IF Gone(j) THEN UNCHANGED <<step, lastStart>>
       ELSE IF until > now
       THEN step' = [step EXCEPT ![j] = "failed"] /\ UNCHANGED lastStart
       ELSE IF lastStart + Gap > now
       THEN step' = [step EXCEPT ![j] = "delay"] /\ UNCHANGED lastStart
       ELSE Send(j)
    /\ UNCHANGED <<now, until, failures, banned>>
    /\ ready' = ReadyNow'

\* After the delay the reader is not looked at again.
EndDelayBug(j) ==
    /\ ~draining /\ step[j] = "delay"
    /\ Gone(j) \/ lastStart + Gap <= now
    /\ IF lastStart + Gap > now \/ until > now
       THEN step' = [step EXCEPT ![j] = "failed"] /\ UNCHANGED lastStart
       ELSE Send(j)
    /\ UNCHANGED <<queueButReady, now, until, failures, banned>>
    /\ ready' = ReadyNow'

\* The delay for the rest of the gap ends early when the reader leaves; when it
\* ends in time the cooldown is looked at again.
EndDelay(j) ==
    /\ ~draining /\ step[j] = "delay"
    /\ Gone(j) \/ lastStart + Gap <= now
    /\ IF Gone(j) \/ until > now
       THEN step' = [step EXCEPT ![j] = "failed"] /\ UNCHANGED lastStart
       ELSE Send(j)
    /\ UNCHANGED <<queueButReady, now, until, failures, banned>>
    /\ ready' = ReadyNow'

\* providerRetryAt(): a hint can only lengthen the pause.
RetryAt(pause, hint) == AtLeast(now + pause, hint)

LimitPause(n)  == AtMost(LimitCap, LimitBase * 2 ^ AtMost(n - 1, 8))
ServerPause(n) == AtMost(ServerCap, ServerBase * 2 ^ AtMost(n - 1, 4))

Rest(n, t) == failures' = n /\ until' = t /\ banned' = AtLeast(banned, t)

\* A success is taken off the failures instead of clearing them.
LearnBug(status, hint) ==
    \/ /\ status \in {"limited", "forbidden", "server"}
       /\ Rest(failures + 1, RetryAt(ServerPause(failures + 1), hint))
    \/ /\ status \in {"ok", "denied"}
       /\ failures' = failures - 1 /\ until' = 0 /\ UNCHANGED banned
    \/ /\ status = "other"
       /\ UNCHANGED <<failures, until, banned>>

\* What a response says of the host.
Learn(status, hint) ==
    \/ /\ status = "limited"
       /\ Rest(failures + 1, RetryAt(LimitPause(failures + 1), hint))
    \/ /\ status = "forbidden"
       /\ Rest(failures + 1, RetryAt(ForbiddenPause, hint))
    \/ /\ status = "server"
       /\ Rest(failures + 1, RetryAt(ServerPause(failures + 1), hint))
    \/ /\ status \in {"ok", "denied"}
       /\ failures' = 0 /\ until' = 0 /\ UNCHANGED banned
    \/ /\ status = "other"
       /\ UNCHANGED <<failures, until, banned>>

\* A response, also one whose reader has left.
Respond(j, status, hint) ==
    /\ ~draining /\ step[j] = "work"
    /\ Learn(status, hint)
    /\ step' = [step EXCEPT ![j] = "answered"]
    /\ UNCHANGED <<queueButReady, now, lastStart>>
    /\ ready' = ReadyNow'

\* A transport error; one caused by the reader leaving is not held against the host.
Fail(j) ==
    /\ ~draining /\ step[j] = "work"
    /\ IF Gone(j) THEN UNCHANGED <<failures, until, banned>>
       ELSE Rest(failures + 1, AtLeast(until, now + ServerPause(failures + 1)))
    /\ step' = [step EXCEPT ![j] = "failed"]
    /\ UNCHANGED <<queueButReady, now, lastStart>>
    /\ ready' = ReadyNow'

\* The promise of the work settles the job.
Return(j) ==
    /\ \/ step[j] = "answered" /\ Settle(j, "value")
       \/ step[j] = "failed" /\ Settle(j, "error")
    /\ step' = [step EXCEPT ![j] = "none"]
    /\ UNCHANGED <<now, lastStart, until, failures, banned>>

\* yahooPolicy.reset() and expire().
ResetPolicy ==
    /\ HasPolicy /\ ~draining /\ (until > 0 \/ failures > 0)
    /\ until' = 0 /\ banned' = 0
    /\ failures' \in {0, failures}
    /\ UNCHANGED <<queueButReady, now, lastStart, step>>
    /\ ready' = ReadyNow'

Tick ==
    /\ ~draining /\ now < MaxTime
    /\ now' = now + 1
    /\ UNCHANGED <<queueButReady, lastStart, until, failures, step, banned>>
    /\ ready' = ReadyNow'

GateNext ==
    \/ QueueStep \/ ResetPolicy \/ Tick
    \/ \E j \in Jobs :
          \/ Enter(j) \/ EndDelay(j) \/ Fail(j) \/ Return(j)
          \/ \E s \in Statuses, h \in Hints : Respond(j, s, h)

GateSpec == GateInit /\ [][GateNext]_vars

-----------------------------------------------------------------------------
GateTypeOK ==
    /\ now \in 0..MaxTime
    /\ lastStart \in {Never} \cup 0..MaxTime
    /\ {until, banned, failures} \subseteq Nat
    /\ step \in [Jobs -> Steps]
    /\ ready = ReadyNow

\* Two requests to a host are at least the gap apart, whatever has been
\* cancelled, closed, reopened or reset between them (host-gate.js:35-38).
GapKept == lastStart' # lastStart => lastStart' >= lastStart + Gap

\* No request goes out before the latest instant a provider asked for, also
\* when an earlier request is answered well in the meantime.
CooldownHonoured ==
    \A j \in Jobs : step[j] # "work" /\ step'[j] = "work" => banned <= now

\* One request at a time is on the way to a host, even when its reader has
\* long been answered or the gate has been closed and reopened.
OneOnTheWay ==
    Cardinality({j \in Jobs : step[j] \in {"delay", "work"}}) <= 1

\* What the gate's callbacks leave in order: types, and one request on its way.
GateInv == GateTypeOK /\ OneOnTheWay

\* The gap and every pause hold together (host-gate.js:35-38): a request goes out
\* only when both are over.
RequestsAreSpaced == [][GapKept /\ CooldownHonoured]_vars

\* A request goes out only for a reader that still waits: not for one that left, ran
\* out of time or was turned away by close() while its job waited for its microtask or
\* for the rest of the gap (host-gate.js:34,37-38).
SentForReader ==
    \A j \in Jobs : step[j] # "work" /\ step'[j] = "work" => outcome[j] = "pending"

RequestsHaveReaders == [][SentForReader]_vars
=============================================================================
