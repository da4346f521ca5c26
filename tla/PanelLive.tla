----------------------------- MODULE PanelLive -----------------------------
(* The browser's connection to the server, public/modules/panel-live-store.js: *)
(* one event stream, and snapshots asked for one after the other while it is    *)
(* down.  The intervals are left out: a timer that is armed may fire.  A browser *)
(* without EventSource is left out, as is an empty watchlist, where nothing      *)
(* connects.                                                                     *)

VARIABLES
    mode,        \* idle, connecting, streaming, fallback, paused
    stream,      \* an EventSource is open, with its watchdog
    reconnect,   \* the timer of the next connect() is armed
    pollTimer,   \* the timer of the next poll() is armed
    polling      \* a poll() awaits its snapshot
liveVars == <<mode, stream, reconnect, pollTimer, polling>>

Modes == {"idle", "connecting", "streaming", "fallback", "paused"}

\* The store begins paused, in its state "idle".
Paused == mode \in {"idle", "paused"}

LiveInit ==
    /\ mode = "idle"
    /\ stream = FALSE /\ reconnect = FALSE /\ pollTimer = FALSE /\ polling = FALSE

\* connect(): what was open or armed is cleared.  A fallback lasts until the first
\* message.
Connect ==
    /\ stream' = TRUE /\ reconnect' = FALSE
    /\ mode' = IF mode = "fallback" THEN mode ELSE "connecting"

Resume == Paused /\ Connect /\ UNCHANGED <<pollTimer, polling>>

ReconnectTimer == reconnect /\ Connect /\ UNCHANGED <<pollTimer, polling>>

\* setSymbols(), when the watchlist has changed.
ChangeSymbols == ~Paused /\ Connect /\ pollTimer' = FALSE /\ UNCHANGED polling

\* A message of the open stream; those of earlier ones are dropped.
Receive ==
    /\ stream /\ mode' = "streaming" /\ pollTimer' = FALSE
    /\ UNCHANGED <<stream, reconnect, polling>>

\* fail(): the stream ends by an error, a frame that does not parse or the
\* watchdog.  Snapshots take over unless one is still awaited.
StreamFails ==
    /\ stream /\ stream' = FALSE /\ reconnect' = TRUE
    /\ mode' = "fallback" /\ pollTimer' = ~polling
    /\ UNCHANGED polling

\* poll() asks for a snapshot.
PollBegins ==
    /\ pollTimer /\ pollTimer' = FALSE /\ polling' = TRUE
    /\ UNCHANGED <<mode, stream, reconnect>>

\* The snapshot of before a failure does not arm the timer again.
PollEndsBug ==
    /\ polling /\ polling' = FALSE
    /\ UNCHANGED <<mode, stream, reconnect, pollTimer>>

\* It has come, or has failed: reschedule().
PollEnds ==
    /\ polling /\ polling' = FALSE
    /\ pollTimer' = (mode = "fallback")
    /\ UNCHANGED <<mode, stream, reconnect>>

Pause ==
    /\ ~Paused /\ mode' = "paused"
    /\ stream' = FALSE /\ reconnect' = FALSE /\ pollTimer' = FALSE
    /\ UNCHANGED polling

Opens == Resume \/ ReconnectTimer \/ ChangeSymbols
Closes == Pause \/ StreamFails
LiveNext == Opens \/ Closes \/ Receive \/ PollBegins \/ PollEnds

LiveSpec == LiveInit /\ [][LiveNext]_liveVars
----------------------------------------------------------------------------
LiveTypeOK ==
    /\ mode \in Modes
    /\ {stream, reconnect, pollTimer, polling} \subseteq BOOLEAN

\* A panel that is not paused has a stream, which a watchdog ends when it is
\* silent, or polls and is about to connect again; it does not wait for nothing.
NeverSilent ==
    /\ ~Paused => stream # reconnect
    /\ reconnect => mode = "fallback" /\ pollTimer # polling
    /\ mode \in {"connecting", "streaming"} => stream /\ ~pollTimer
    /\ Paused => ~stream /\ ~reconnect /\ ~pollTimer

(* Whatever order messages, failures, snapshots and the user come in, the panel  *)
(* has something to hear from, and at most one of the two ways armed at a time.   *)
LiveInv == LiveTypeOK /\ NeverSilent
=============================================================================
