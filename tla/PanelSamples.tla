---------------------------- MODULE PanelSamples ----------------------------
(* The minute samples of one symbol on their way to the panel: the changes that *)
(* lib/quote-samples.js emits, the stream of lib/sse.js that joins them for a    *)
(* panel that is slow, and the panel's copy, public/modules/                      *)
(* panel-sample-store.js, with the calls panel-chart-controller.js makes.         *)
(*                                                                                *)
(* A point is known by the revision that added it.  Points that replace others,    *)
(* trading days that end and restarts of the server are left out.                  *)
EXTENDS PanelLive, Naturals, Sequences

CONSTANTS
    MaxRevision,   \* bound
    MaxPending,    \* 8: changes kept while a load is under way
    MaxOnWire,     \* bound: messages on their way
    NoSamples

ASSUME SamplesAssumption ==
    /\ {MaxRevision, MaxPending, MaxOnWire} \subseteq Nat \ {0}
    /\ \A some \in SUBSET (1..MaxRevision) : some # NoSamples
    /\ NoSamples \notin [revision : Nat, points : SUBSET Nat]
    /\ NoSamples \notin [answer : [revision : Nat, points : SUBSET Nat] \cup {NoSamples}]

VARIABLES
    revision, points,   \* the server's samples
    changed,            \* points added since the last emit(), or NoSamples
    channel,            \* the server's side of the stream: [queued, wire], or NoSamples
    copy,               \* the panel's copy: [revision, points]
    status,             \* what the panel says of it: unknown, loading, error, current
    loaded,             \* a load has succeeded
    job,                \* the load under way: [answer], or NoSamples
    held,               \* the changes that came since it began
    selected,           \* the user looks at the samples
    broken              \* history: a load has failed, or more changes than are kept
                        \* came in its time
sampleVars == <<revision, points, changed, channel, copy, status, loaded, job, held,
                selected, broken>>
samplesVars == <<liveVars, sampleVars>>

Reset == [revision |-> 0, points |-> {}]
Streaming == mode = "streaming"

SamplesInit ==
    /\ LiveInit
    /\ revision = 1 /\ points = {1} /\ changed = NoSamples /\ channel = NoSamples
    /\ copy = Reset /\ status = "unknown" /\ loaded = FALSE
    /\ job = NoSamples /\ held = <<>> /\ selected = FALSE /\ broken = FALSE
----------------------------------------------------------------------------
\* accept(): a point; touch(): the revision alone, once a minute and on errors.
Change(new) ==
    /\ revision < MaxRevision /\ revision' = revision + 1
    /\ points' = points \cup new
    /\ changed' = IF changed = NoSamples THEN new ELSE changed \cup new
    /\ UNCHANGED <<liveVars, channel, copy, status, loaded, job, held, selected, broken>>

Accept == Change({revision + 1})
Touch == Change({})

\* emit(): what has changed, with the revision it has now, to the open stream, which
\* adds it to what it has not written yet.
Joined(before, now) ==
    IF before = NoSamples THEN now ELSE [now EXCEPT !.points = @ \cup before.points]

Emit ==
    /\ changed # NoSamples /\ changed' = NoSamples
    /\ channel' = IF channel = NoSamples THEN channel
                  ELSE [channel EXCEPT !.queued =
                            Joined(@, [revision |-> revision, points |-> changed])]
    /\ UNCHANGED <<liveVars, revision, points, copy, status, loaded, job, held, selected, broken>>

\* pump(), when the socket takes more.
PumpSamples ==
    /\ channel # NoSamples /\ channel.queued # NoSamples /\ Len(channel.wire) < MaxOnWire
    /\ channel' = [queued |-> NoSamples, wire |-> Append(channel.wire, channel.queued)]
    /\ UNCHANGED <<liveVars, revision, points, changed, copy, status, loaded, job, held,
                   selected, broken>>
----------------------------------------------------------------------------
\* load(true): the load under way is shared.
Load ==
    IF job # NoSamples THEN UNCHANGED <<job, held, status>>
    ELSE job' = [answer |-> NoSamples] /\ held' = <<>> /\ status' = "loading"

\* merge() of a change that is newer than the copy.
Merged(into, change) ==
    IF change.revision <= into.revision THEN into
    ELSE [revision |-> change.revision, points |-> into.points \cup change.points]

\* What the first n changes make of it, one after the other.
MergedUpTo(into, changes) ==
    LET upto[n \in 0..Len(changes)] ==
            IF n = 0 THEN into ELSE Merged(upto[n - 1], changes[n])
    IN upto

\* apply(): kept for later while a load is under way, dropped before the first.
ApplyChangeBug(change) ==
    /\ IF job = NoSamples /\ loaded /\ change.revision > copy.revision
       THEN copy' = Merged(copy, change) /\ status' = "current"
       ELSE UNCHANGED <<copy, status>>
    /\ UNCHANGED <<held, broken>>

Kept(list) == IF Len(list) > MaxPending THEN Tail(list) ELSE list

ApplyChange(change) ==
    IF job # NoSamples
    THEN /\ held' = Kept(Append(held, change))
         /\ broken' = (broken \/ Len(held) >= MaxPending)
         /\ UNCHANGED <<copy, status>>
    ELSE /\ IF loaded /\ change.revision > copy.revision
            THEN copy' = Merged(copy, change) /\ status' = "current"
            ELSE UNCHANGED <<copy, status>>
         /\ UNCHANGED <<held, broken>>

\* applySamples(): a reset gives up the load under way and, when the samples are
\* looked at, begins another.
ResetArrives ==
    /\ IF selected THEN job' = [answer |-> NoSamples] /\ status' = "loading"
                   ELSE job' = NoSamples /\ UNCHANGED status
    /\ held' = <<>> /\ UNCHANGED <<copy, broken>>

MessageArrives ==
    /\ channel # NoSamples /\ channel.wire # <<>> /\ Receive
    /\ channel' = [channel EXCEPT !.wire = Tail(@)]
    /\ IF Head(channel.wire) = Reset THEN ResetArrives
       ELSE ApplyChange(Head(channel.wire)) /\ UNCHANGED job
    /\ UNCHANGED <<revision, points, changed, loaded, selected>>

\* The first message of a stream resets the panel's samples.
SamplesConnect ==
    /\ Opens /\ channel' = [queued |-> NoSamples, wire |-> <<Reset>>]
    /\ UNCHANGED <<revision, points, changed, copy, status, loaded, job, held, selected, broken>>

SamplesDisconnect ==
    /\ Closes /\ channel' = NoSamples
    /\ UNCHANGED <<revision, points, changed, copy, status, loaded, job, held, selected, broken>>

\* The other messages, and the snapshots of quotes while there is no stream.
RestOfPanel ==
    /\ (channel # NoSamples /\ Receive) \/ PollBegins \/ PollEnds
    /\ UNCHANGED sampleVars
----------------------------------------------------------------------------
\* refreshSamples(): by the minute timer and on return to the page while there is
\* no stream; when the user selects the samples; by the button shown after an error.
RefreshDue == selected /\ ~Streaming
UserRetries == selected /\ status = "error"

Reload ==
    /\ RefreshDue \/ UserRetries \/ ~selected
    /\ selected' = TRUE /\ Load
    /\ UNCHANGED <<liveVars, revision, points, changed, channel, copy, loaded, broken>>

Deselect ==
    /\ selected /\ selected' = FALSE
    /\ UNCHANGED <<liveVars, revision, points, changed, channel, copy, status, loaded, job,
                   held, broken>>

\* GET /api/samples is answered with all there is.
SamplesAnswered ==
    /\ job # NoSamples /\ job.answer = NoSamples
    /\ job' = [answer |-> [revision |-> revision, points |-> points]]
    /\ UNCHANGED <<liveVars, revision, points, changed, channel, copy, status, loaded, held,
                   selected, broken>>

\* The answer replaces the copy; then come the changes that were kept.
LoadArrives ==
    /\ job # NoSamples /\ job.answer # NoSamples
    /\ copy' = MergedUpTo(job.answer, held)[Len(held)]
    /\ status' = "current" /\ loaded' = TRUE /\ job' = NoSamples /\ held' = <<>>
    /\ UNCHANGED <<liveVars, revision, points, changed, channel, selected, broken>>

\* An error, a status that is not ok or the deadline: the copy stays.
LoadFails ==
    /\ job # NoSamples /\ job' = NoSamples /\ status' = "error" /\ broken' = TRUE
    /\ UNCHANGED <<liveVars, revision, points, changed, channel, copy, loaded, held, selected>>

SamplesNext ==
    \/ Accept \/ Touch \/ Emit \/ PumpSamples \/ MessageArrives \/ SamplesConnect \/ SamplesDisconnect
    \/ RestOfPanel \/ Reload \/ Deselect \/ SamplesAnswered \/ LoadArrives \/ LoadFails

SamplesSpec == SamplesInit /\ [][SamplesNext]_samplesVars
----------------------------------------------------------------------------
\* The panel shows samples as current.
ShownAsCurrent == selected /\ status = "current"
Whole == {p \in points : p <= copy.revision} \subseteq copy.points

(* Snapshots and changes come over two connections, in any order, across resets,  *)
(* reconnects and given up loads: as long as no load has failed or was overrun by   *)
(* changes, what is shown as current has every point up to its revision.            *)
UnbrokenSamplesAreWhole == ShownAsCurrent /\ ~broken => Whole

(* Failed loads retain data (tests/v2/sample-client.test.mjs:18), and a client that  *)
(* has fallen behind obtains a complete snapshot (lib/sse.js:49): what is shown as    *)
(* current has no gap.                                                                 *)
SamplesAreWhole == ShownAsCurrent => Whole
=============================================================================
