-------------------------- MODULE LatestCheckpoint --------------------------
(***************************************************************************)
(* src/lib/latest-checkpoint.js: one write of a file at a time and one     *)
(* request behind it.  A request that waits takes its body when its write  *)
(* begins, unless the caller handed one over, and everybody who asks       *)
(* meanwhile shares it.  The counters are for diagnostics and left out.    *)
(***************************************************************************)
EXTENDS Naturals, FiniteSets

CONSTANTS
    Askers,     \* callers of persist()
    Current,    \* persist() without a body: capture() supplies it
    None

VARIABLES
    disk,       \* contents of the file, None without one
    pending,    \* None, or the request that waits: its body and its callers
    writer      \* the loop of drain(): idle, woken (first microtask) or writing

checkpointVars == <<disk, pending, writer>>

Idle == [at |-> "idle", body |-> None, askers |-> {}]

CheckpointInit(contents) ==
    /\ disk = contents /\ pending = None /\ writer = Idle

\* persist(): the latest body counts, for all who wait.
Persist(a, saved) ==
    /\ pending' = [saved |-> saved,
                   askers |-> {a} \cup IF pending = None THEN {} ELSE pending.askers]
    /\ writer' = IF writer.at = "idle" THEN [Idle EXCEPT !.at = "woken"] ELSE writer
    /\ UNCHANGED disk

\* The head of the loop in drain(); captured is what capture() returns now.
TakeNext(captured) ==
    IF pending = None THEN writer' = Idle /\ UNCHANGED pending
    ELSE /\ writer' = [at |-> "writing", askers |-> pending.askers,
                       body |-> IF pending.saved = Current THEN captured
                                                           ELSE pending.saved]
         /\ pending' = None

DrainBegins(captured) ==
    /\ writer.at = "woken"
    /\ TakeNext(captured)
    /\ UNCHANGED disk

\* write() resolves or rejects, writer.askers learn of it, and the loop goes on.
WriteEnds(captured, ok) ==
    /\ writer.at = "writing"
    /\ disk' = IF ok THEN writer.body ELSE disk
    /\ TakeNext(captured)

\* The process dies: before the rename of the file, or after it.
CheckpointCrash ==
    /\ disk' \in {disk} \cup IF writer.at = "writing" THEN {writer.body} ELSE {}
    /\ pending' = None /\ writer' = Idle
=============================================================================
