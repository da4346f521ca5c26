---------------------------- MODULE QuoteStreams ----------------------------
(* The event streams: lib/sse.js (the panel's updates), lib/api-quote-stream.js *)
(* (quotes for API clients) and the budget both share, lib/stream-budget.js.    *)
(*                                                                              *)
(* A connection is served once.  What it is told about is an item, a quote or   *)
(* a sample list of one symbol, known by the version the source is at.  A write *)
(* has three outcomes: "ok"; "full", accepted but the socket asks to wait; and  *)
(* "lost", refused by the budget or the socket, which ends the connection.      *)
(* Frame contents and chart versions are left out.                              *)
EXTENDS Integers, FiniteSets, SequencesExt

CONSTANTS
    ApiConns,      \* connections of api-quote-stream.js
    SseConns,      \* connections of sse.js
    KeyFamilies,   \* families of API keys
    QuoteItems,    \* a quote of one symbol (a stream is opened for at least one)
    SampleItems,   \* the samples of one symbol
    MaxClients,    \* 32: the budget
    MaxApi,        \* 16: api connections
    MaxPerFamily,  \* 2: api connections of one family of keys
    MaxVersion,    \* bound: how often an item changes
    Heartbeat,     \* the item the pulse queues
    NoFamily

ASSUME StreamsAssumption ==
    /\ ApiConns \cap SseConns = {} /\ QuoteItems \cap SampleItems = {}
    /\ Heartbeat \notin QuoteItems \cup SampleItems
    /\ IsFiniteSet(QuoteItems) /\ QuoteItems # {}
    /\ {MaxClients, MaxApi, MaxPerFamily} \subseteq Nat \ {0}

VARIABLES
    phase,      \* per connection: idle, open, closed, refused
    family,     \* per api connection: the family of its key
    socket,     \* per connection: "up", "down" (its close event is due), "gone"
    held,       \* per connection: what it has taken and not given back
    perKey,     \* per family: connections counted
    blocked,    \* clients whose socket asked to wait
    keyWorks,   \* families whose key authenticates
    ver,        \* per item: the version the source is at
    sent,       \* per connection and item: the version last written
    dirty,      \* api connections a quote changed for since their last snapshot
    pending,    \* per sse connection: the items to write, oldest first
    scheduled,  \* sse connections whose pump is due
    stall       \* sse connections whose stall timer runs

streamVars == <<phase, family, socket, held, perKey, blocked, keyWorks, ver, sent,
                dirty, pending, scheduled, stall>>

Conns == ApiConns \cup SseConns
Items == QuoteItems \cup SampleItems
Outcomes == {"ok", "full", "lost"}

Open == {c \in Conns : phase[c] = "open"}
Listening == {c \in Conns : "listen" \in held[c]}
Clients == {c \in Conns : "slot" \in held[c]}

\* What the socket still allows, and what a lost write does to it.
WriteOutcomes(c) == IF socket[c] = "up" THEN Outcomes ELSE {"lost"}
Destroyed(gone) ==
    [c \in Conns |-> IF c \in gone /\ socket[c] = "up" THEN "down" ELSE socket[c]]
----------------------------------------------------------------------------
StreamsInit ==
    /\ phase = [c \in Conns |-> "idle"] /\ family = [c \in ApiConns |-> NoFamily]
    /\ socket = [c \in Conns |-> "up"] /\ held = [c \in Conns |-> {}]
    /\ perKey = [f \in KeyFamilies |-> 0] /\ keyWorks = KeyFamilies
    /\ ver = [i \in Items |-> 1] /\ sent = [c \in Conns |-> [i \in Items |-> 0]]
    /\ pending = [c \in SseConns |-> <<>>]
    /\ blocked = {} /\ dirty = {} /\ scheduled = {} /\ stall = {}

\* The history lease of a panel connection is forgotten.
GivenBackBug(c) == IF c \in ApiConns THEN {"slot", "watch", "listen", "key"}
                                     ELSE {"slot", "watch", "listen"}

\* close() of an api connection and cleanup() of a panel connection.
GivenBack(c) ==
    IF c \in ApiConns THEN {"slot", "watch", "listen", "key"}
                      ELSE {"slot", "watch", "listen", "lease"}

\* They run once, whatever calls them a second time.
End(gone) ==
    LET ends == gone \cap Open
        counted(f) == Cardinality({c \in ends \cap ApiConns : family[c] = f})
    IN /\ phase' = [c \in Conns |-> IF c \in ends THEN "closed" ELSE phase[c]]
       /\ held' = [c \in Conns |-> IF c \in ends THEN held[c] \ GivenBack(c) ELSE held[c]]
       /\ perKey' = [f \in KeyFamilies |-> perKey[f] - counted(f)]
       /\ pending' = [c \in SseConns |-> IF c \in ends THEN <<>> ELSE pending[c]]
       /\ scheduled' = scheduled \ ends
       /\ stall' = stall \ ends
       /\ blocked' = blocked \ ends

\* The budget is asked first and gives the place back when engine.watch() throws.
HasRoom(c, f) ==
    /\ Cardinality(Clients) < MaxClients
    /\ c \in ApiConns => /\ Cardinality(Open \cap ApiConns) < MaxApi
                         /\ perKey[f] < MaxPerFamily

Refuse(c, f) ==
    /\ phase[c] = "idle"
    /\ \/ ~HasRoom(c, f)
       \/ HasRoom(c, f)      \* the engine admits no more symbols
    /\ phase' = [phase EXCEPT ![c] = "refused"]
    /\ UNCHANGED <<family, socket, held, perKey, blocked, keyWorks, ver, sent, dirty,
                   pending, scheduled, stall>>

\* A new api connection writes its preamble, listens, and writes the first
\* snapshot unless its socket is already full or its key no longer works.
OpenApi(c, f) ==
    /\ phase[c] = "idle" /\ HasRoom(c, f)
    /\ \E hello, first \in Outcomes :
          LET works == f \in keyWorks
              taken == {"slot", "watch", "key"} \cup (IF hello = "lost" THEN {} ELSE {"listen"})
              writes == hello = "ok" /\ works
              ends == hello = "lost" \/ ~works \/ (writes /\ first = "lost")
          IN /\ ~writes => first = "ok"
             /\ phase' = [phase EXCEPT ![c] = IF ends THEN "closed" ELSE "open"]
             /\ family' = [family EXCEPT ![c] = f]
             /\ held' = [held EXCEPT ![c] = IF ends THEN taken \ GivenBack(c) ELSE taken]
             /\ perKey' = [perKey EXCEPT ![f] = IF ends THEN @ ELSE @ + 1]
             /\ socket' = IF "lost" \in {hello, first} THEN Destroyed({c}) ELSE socket
             /\ blocked' = IF ~ends /\ "full" \in {hello, first} THEN blocked \cup {c} ELSE blocked
             /\ sent' = IF writes /\ ~ends THEN [sent EXCEPT ![c] = ver] ELSE sent
             /\ dirty' = IF ends \/ writes THEN dirty ELSE dirty \cup {c}
    /\ UNCHANGED <<keyWorks, ver, pending, scheduled, stall>>

\* A new panel connection writes its preamble, takes its history lease, listens,
\* resets the panel's samples, and queues everything else it shows.
OpenSse(c) ==
    /\ phase[c] = "idle" /\ HasRoom(c, NoFamily)
    /\ \E hello, reset \in Outcomes :
          LET taken == {"slot", "watch"} \cup (IF hello = "lost" THEN {} ELSE {"lease", "listen"})
              ends == "lost" \in {hello, reset}
          IN /\ hello = "lost" => reset = "ok"
             /\ phase' = [phase EXCEPT ![c] = IF ends THEN "closed" ELSE "open"]
             /\ held' = [held EXCEPT ![c] = IF ends THEN taken \ GivenBack(c) ELSE taken]
             /\ socket' = IF ends THEN Destroyed({c}) ELSE socket
             /\ blocked' = IF ~ends /\ "full" \in {hello, reset} THEN blocked \cup {c} ELSE blocked
             /\ pending' = [pending EXCEPT ![c] = IF ends THEN <<>> ELSE SetToSeq(QuoteItems)]
             /\ scheduled' = IF ends THEN scheduled ELSE scheduled \cup {c}
             /\ sent' = [sent EXCEPT ![c] = [i \in Items |->
                            IF ~ends /\ i \in SampleItems THEN ver[i] ELSE 0]]
    /\ UNCHANGED <<family, perKey, keyWorks, ver, dirty, stall>>

\* An item changes: the api connections note that, the panel connections queue
\* it, once, and see that their pump runs.
Enqueued(list, i) == IF \E n \in DOMAIN list : list[n] = i THEN list ELSE Append(list, i)

Publish(i) ==
    /\ ver[i] < MaxVersion
    /\ ver' = [ver EXCEPT ![i] = @ + 1]
    /\ dirty' = IF i \in QuoteItems THEN dirty \cup (Listening \cap ApiConns) ELSE dirty
    /\ pending' = [c \in SseConns |->
                      IF c \in Listening THEN Enqueued(pending[c], i) ELSE pending[c]]
    /\ scheduled' = scheduled \cup (Listening \cap SseConns)
    /\ UNCHANGED <<phase, family, socket, held, perKey, blocked, keyWorks, sent, stall>>

\* The key is looked at only before a write.
KeyIsGoneBug(c) == family[c] \notin keyWorks /\ c \notin blocked
KeyIsGone(c) == family[c] \notin keyWorks

\* setInterval(tick) of an api connection: authenticate, then one snapshot of all
\* quotes when one changed (or a heartbeat, or a projection that time changed).
Tick(c) ==
    /\ c \in Open \cap ApiConns
    /\ \/ /\ KeyIsGone(c)          \* auth_error
          /\ End({c})
          /\ UNCHANGED <<socket, sent, dirty>>
       \/ /\ family[c] \in keyWorks /\ c \notin blocked
          /\ \E w \in WriteOutcomes(c) :
                \/ /\ w = "lost"
                   /\ End({c}) /\ socket' = Destroyed({c}) /\ dirty' = dirty \ {c}
                   /\ UNCHANGED sent
                \/ /\ w # "lost"
                   /\ sent' = [sent EXCEPT ![c] = ver] /\ dirty' = dirty \ {c}
                   /\ blocked' = IF w = "full" THEN blocked \cup {c} ELSE blocked
                   /\ UNCHANGED <<phase, socket, held, perKey, pending, scheduled, stall>>
    /\ UNCHANGED <<family, keyWorks, ver>>

\* The timer is not started.
PumpWaitsBug(c) ==
    /\ scheduled' = scheduled \ {c}
    /\ UNCHANGED <<phase, socket, held, perKey, blocked, sent, pending, stall>>

\* setImmediate(pump) of a panel connection: one item per turn.  A socket that is
\* full keeps the items and starts the stall timer.
PumpWaits(c) ==
    /\ stall' = stall \cup {c}
    /\ scheduled' = scheduled \ {c}
    /\ UNCHANGED <<phase, socket, held, perKey, blocked, sent, pending>>

PumpWrites(c) ==
    LET i == Head(pending[c]) IN
    \E w \in WriteOutcomes(c) :
        \/ /\ w = "lost" /\ socket[c] = "up"
           /\ End({c}) /\ socket' = Destroyed({c})
           /\ UNCHANGED sent
        \/ /\ w # "lost" \/ socket[c] # "up"    \* a destroyed socket is left to its close event
           /\ sent' = IF w # "lost" /\ i \in Items THEN [sent EXCEPT ![c][i] = ver[i]] ELSE sent
           /\ pending' = [pending EXCEPT ![c] = Tail(@)]
           /\ scheduled' = IF Len(pending[c]) > 1 THEN scheduled ELSE scheduled \ {c}
           /\ stall' = stall \ {c}
           /\ blocked' = IF w = "full" THEN blocked \cup {c} ELSE blocked
           /\ UNCHANGED <<phase, socket, held, perKey>>

Pump(c) ==
    /\ c \in scheduled
    /\ IF c \in blocked THEN PumpWaits(c) ELSE PumpWrites(c)
    /\ UNCHANGED <<family, keyWorks, ver, dirty>>

\* setInterval(pulse): a heartbeat, so that a silent connection is written to.
Pulse(c) ==
    /\ c \in Open \cap SseConns
    /\ pending' = [pending EXCEPT ![c] = Enqueued(@, Heartbeat)]
    /\ scheduled' = scheduled \cup {c}
    /\ UNCHANGED <<phase, family, socket, held, perKey, blocked, keyWorks, ver, sent, dirty, stall>>

\* Thirty seconds without room in the socket.  (The same happens when the samples
\* queued for one connection outgrow a megabyte.)
StallTimer(c) ==
    /\ c \in stall
    /\ End({c}) /\ socket' = Destroyed({c})
    /\ UNCHANGED <<family, keyWorks, ver, sent, dirty>>

\* What waits is left to the next change.
ResumesBug(c) == FALSE
Resumes(c) == c \in SseConns /\ pending[c] # <<>>

\* The socket has room again: the budget hears of it first, then the connection.
Drain(c) ==
    /\ c \in blocked /\ socket[c] = "up"
    /\ blocked' = blocked \ {c}
    /\ scheduled' = IF Resumes(c) THEN scheduled \cup {c} ELSE scheduled
    /\ UNCHANGED <<phase, family, socket, held, perKey, keyWorks, ver, sent, dirty, pending, stall>>

\* The client goes away; the close event comes later, also after a lost write.
ClientLeaves(c) ==
    /\ c \in Open /\ socket[c] = "up"
    /\ socket' = Destroyed({c})
    /\ UNCHANGED <<phase, family, held, perKey, blocked, keyWorks, ver, sent, dirty, pending,
                   scheduled, stall>>

CloseEvent(c) ==
    /\ socket[c] = "down"
    /\ socket' = [socket EXCEPT ![c] = "gone"]
    /\ End({c})
    /\ UNCHANGED <<family, keyWorks, ver, sent, dirty>>

\* close() of both services ends every connection.
CloseAll ==
    /\ Open # {}
    /\ End(Open)
    /\ UNCHANGED <<family, socket, keyWorks, ver, sent, dirty>>

\* A key is revoked or expires; see ApiKeys.
KeyEnds(f) ==
    /\ f \in keyWorks
    /\ keyWorks' = keyWorks \ {f}
    /\ UNCHANGED <<phase, family, socket, held, perKey, blocked, ver, sent, dirty, pending,
                   scheduled, stall>>

StreamsNext ==
    \/ \E c \in ApiConns : Tick(c) \/ \E f \in KeyFamilies : OpenApi(c, f) \/ Refuse(c, f)
    \/ \E c \in SseConns : OpenSse(c) \/ Refuse(c, NoFamily) \/ Pump(c) \/ Pulse(c) \/ StallTimer(c)
    \/ \E c \in Conns : Drain(c) \/ ClientLeaves(c) \/ CloseEvent(c)
    \/ \E i \in Items : Publish(i)
    \/ \E f \in KeyFamilies : KeyEnds(f)
    \/ CloseAll

StreamsSpec == StreamsInit /\ [][StreamsNext]_streamVars

\* Node runs its timers, its setImmediate queue and the events of its sockets;
\* what clients, keys and sources do is up to them.
StreamsFairness ==
    /\ \A c \in ApiConns : WF_streamVars(Tick(c))
    /\ \A c \in SseConns : /\ WF_streamVars(Pump(c)) /\ WF_streamVars(Pulse(c))
                           /\ WF_streamVars(StallTimer(c))
    /\ \A c \in Conns : WF_streamVars(CloseEvent(c))
----------------------------------------------------------------------------
(* However a connection ends (refusal, error while it opens, lost write, stall,  *)
(* close event, revoked key, shutdown, or several of them), it gives back its    *)
(* place in the budget, its engine watch, its history lease, its subscription    *)
(* and its key's count once; and the limits hold at all times.                   *)
NothingLeaks ==
    /\ \A c \in Conns : c \notin Open => held[c] = {}
    /\ \A f \in KeyFamilies :
          perKey[f] = Cardinality({c \in Open \cap ApiConns : family[c] = f})
    /\ \A f \in KeyFamilies : perKey[f] <= MaxPerFamily
    /\ Cardinality(Clients) <= MaxClients
    /\ blocked \subseteq Open /\ stall \cup scheduled \subseteq Open

(* Frames are coalesced but no change is forgotten: what an open connection was   *)
(* last told is current, or the change is noted, and then something is going to   *)
(* write it: the tick, the pump, the drain event, or the close event.             *)
NoChangeForgotten ==
    /\ \A c \in Open \cap ApiConns, i \in QuoteItems : sent[c][i] # ver[i] => c \in dirty
    /\ \A c \in Open \cap SseConns :
          socket[c] = "up" =>
             /\ \A i \in Items : sent[c][i] # ver[i] => i \in ToSet(pending[c])
             /\ pending[c] # <<>> => c \in scheduled \/ c \in blocked

(* A panel that stops reading is let go: its socket drains or its connection      *)
(* ends, because the heartbeat finds the full socket and the stall timer fires.   *)
StuckPanelsGo == \A c \in SseConns : (c \in blocked) ~> (c \notin blocked)

(* Revoking a key ends the streams opened with it.                                *)
StreamsEndWithKey ==
    \A c \in ApiConns :
        (c \in Open /\ family[c] \notin keyWorks) ~> (c \notin Open)
=============================================================================
