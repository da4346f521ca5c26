---------------------------- MODULE FastPolling ----------------------------
(* Reading one polled source, read() of lib/providers/fast-polling.js: at most  *)
(* one batch per source, which callers that want other symbols join and then     *)
(* follow up, and a reset() that leaves the batch under way where it is.         *)
(*                                                                               *)
(* The sources are independent of each other, so one is modelled.  Which source   *)
(* is asked when another's quote is old, and the choice between quotes, keep no   *)
(* state here.  A quote is the epoch it was asked in.                             *)
EXTENDS Naturals, FiniteSets

CONSTANTS
    PollSymbols,
    PollCallers,   \* calls of read()
    MaxPollEpochs, \* bound: resets
    NoBatch, NoQuoteYet

ASSUME PollAssumption ==
    NoBatch \notin [owner : Nat, symbols : SUBSET PollSymbols, stage : {"queued", "asked"}]

VARIABLES
    pollEpoch,
    due,         \* symbols whose time has come (next)
    polled,      \* per symbol: its quote (cached)
    pollJob,       \* jobs: the one batch, [owner, symbols, stage]
    reading,     \* per call: [stage, want, left, covered, owner, force, ok]; ok is history:
                 \* the symbols that were not due, or that a batch of the call's epoch
                 \* asked for while it waited
    missed       \* history: what the read that just came back should have asked for
pollVars == <<pollEpoch, due, polled, pollJob, reading, missed>>

NotReading == [stage |-> "idle", want |-> {}, left |-> {}, covered |-> {}, owner |-> 0,
               force |-> FALSE, ok |-> {}]

PollInit ==
    /\ pollEpoch = 0 /\ due = PollSymbols /\ pollJob = NoBatch
    /\ polled = [s \in PollSymbols |-> NoQuoteYet]
    /\ reading = [c \in PollCallers |-> NotReading]
    /\ missed = {}
----------------------------------------------------------------------------
\* What a batch leaves its joiner to ask for: a batch of before a reset, everything.
UncoveredBug(call, joined) == call.left \ joined.symbols
Uncovered(call, joined) ==
    IF joined.owner = call.owner THEN call.left \ joined.symbols ELSE call.left

\* After a reset a read comes back with nothing; otherwise with what is cached.
Returns(c, call) ==
    /\ reading' = [reading EXCEPT ![c] = NotReading]
    /\ missed' = IF call.owner = pollEpoch THEN call.want \ call.ok ELSE {}

\* read(): join the batch, or start one of the symbols that are due.
Read(c, call) ==
    \/ /\ call.owner # pollEpoch
       /\ Returns(c, call) /\ UNCHANGED pollJob
    \/ /\ call.owner = pollEpoch /\ pollJob # NoBatch
       /\ reading' = [reading EXCEPT ![c] =
                         [call EXCEPT !.stage = "waits", !.covered = Uncovered(call, pollJob)]]
       /\ missed' = {} /\ UNCHANGED pollJob
    \/ /\ call.owner = pollEpoch /\ pollJob = NoBatch
       /\ LET ask == IF call.force THEN call.left ELSE call.left \cap due
              seen == [call EXCEPT !.ok = @ \cup (call.left \ ask)]
          IN IF ask = {} THEN Returns(c, seen) /\ UNCHANGED pollJob
             ELSE /\ pollJob' = [owner |-> call.owner, symbols |-> ask, stage |-> "queued"]
                  /\ reading' = [reading EXCEPT ![c] =
                                    [seen EXCEPT !.stage = "waits", !.covered = {}]]
                  /\ missed' = {}

NewCall(want, force) == [stage |-> "idle", want |-> want, left |-> want, covered |-> {},
                         owner |-> pollEpoch, force |-> force, ok |-> {}]

Call(c, want, force) ==
    /\ reading[c].stage = "idle" /\ Read(c, NewCall(want, force))
    /\ UNCHANGED <<pollEpoch, due, polled>>

\* The batch was awaited: what it did not cover is read in turn.
Resume(c) ==
    /\ reading[c].stage = "resumes"
    /\ LET call == [reading[c] EXCEPT !.left = reading[c].covered, !.covered = {}]
       IN IF call.left = {} THEN Returns(c, call) /\ UNCHANGED pollJob ELSE Read(c, call)
    /\ UNCHANGED <<pollEpoch, due, polled>>

\* The batch leaves its place and whoever waits goes on.  asking: its symbols were
\* asked for in the epoch that is still the current one.
Settled(asking) ==
    /\ pollJob' = NoBatch
    /\ reading' = [c \in PollCallers |->
           IF reading[c].stage # "waits" THEN reading[c]
           ELSE [reading[c] EXCEPT !.stage = "resumes",
                    !.ok = IF asking /\ reading[c].owner = pollEpoch THEN @ \cup pollJob.symbols ELSE @]]
    /\ missed' = {}

OfThisEpoch == pollJob.owner = pollEpoch

\* The source is asked in a later turn than the batch was made.
BatchAsks ==
    /\ pollJob # NoBatch /\ pollJob.stage = "queued"
    /\ IF OfThisEpoch
       THEN pollJob' = [pollJob EXCEPT !.stage = "asked"] /\ missed' = {} /\ UNCHANGED reading
       ELSE Settled(FALSE)
    /\ UNCHANGED <<pollEpoch, due, polled>>

\* It answers for some of them, or fails; after a reset neither counts.
BatchSettles(answered) ==
    /\ pollJob # NoBatch /\ pollJob.stage = "asked" /\ answered \subseteq pollJob.symbols
    /\ Settled(pollJob.owner = pollEpoch)
    /\ IF OfThisEpoch
       THEN /\ due' = due \ pollJob.symbols
            /\ polled' = [s \in PollSymbols |->
                             IF s \in answered THEN pollJob.owner
                             ELSE IF s \in pollJob.symbols THEN NoQuoteYet ELSE polled[s]]
       ELSE UNCHANGED <<due, polled>>
    /\ UNCHANGED pollEpoch

FallsDue(s) ==
    /\ s \notin due /\ due' = due \cup {s} /\ missed' = {}
    /\ UNCHANGED <<pollEpoch, polled, pollJob, reading>>

Reset ==
    /\ pollEpoch < MaxPollEpochs
    /\ pollEpoch' = pollEpoch + 1 /\ due' = PollSymbols
    /\ polled' = [s \in PollSymbols |-> NoQuoteYet]
    /\ missed' = {}
    /\ UNCHANGED <<pollJob, reading>>

PollNext ==
    \/ \E c \in PollCallers : \/ Resume(c)
                              \/ \E want \in SUBSET PollSymbols \ {{}}, force \in BOOLEAN :
                                    Call(c, want, force)
    \/ BatchAsks \/ Reset
    \/ \E answered \in SUBSET PollSymbols : BatchSettles(answered)
    \/ \E s \in PollSymbols : FallsDue(s)

PollSpec == PollInit /\ [][PollNext]_pollVars
----------------------------------------------------------------------------
(* "Sharing another batch must not silently drop a newly requested symbol."        *)
(* (lib/providers/fast-polling.js:24)  A read that comes back in its own epoch was   *)
(* told of every symbol it wants: it was not due, or a batch of that epoch asked for  *)
(* it while the read waited, also when the read had joined a batch of before a reset.  *)
(* And what is cached was asked for after the last reset.                             *)
SharedBatchesMissNothing ==
    /\ missed = {}
    /\ \A s \in PollSymbols : polled[s] \in {NoQuoteYet, pollEpoch}
=============================================================================
