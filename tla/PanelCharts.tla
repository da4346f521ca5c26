---------------------------- MODULE PanelCharts ----------------------------
(* A quote and its chart on their way to the panel: the stream (lib/sse.js), the *)
(* snapshots and forced refreshes of public/app.js, and the cache of charts of    *)
(* public/modules/panel-market-store.js.  A chart the panel is known to hold is    *)
(* not sent again: the frame says "same", with the last bar.  A request names the  *)
(* version it holds; the stream remembers the version it sent last.                 *)
(*                                                                                  *)
(* One symbol with one chart.  A version is the hash of the bars: here a number,    *)
(* 0 for no chart.  Of a chart in the panel it is told which version its bars are    *)
(* of and which version its last bar is of.                                           *)
(*                                                                                  *)
(* Neither the time of a quote nor a version only grows.  A trade that is cancelled  *)
(* gives way to the older quote of the other source, and a symbol nobody followed     *)
(* for a while is read anew; a source may bring bars it has brought before.            *)
EXTENDS PanelLive, Naturals, Sequences

CONSTANTS
    MaxAt, MaxVer,   \* bounds: times of the quote, versions of its chart
    MaxFrames,       \* bound: frames on their way
    Nothing

ASSUME ChartsAssumption ==
    /\ {MaxAt, MaxVer, MaxFrames} \subseteq Nat \ {0}
    /\ Nothing \notin [at : Nat, ver : Nat, same : BOOLEAN]
    /\ Nothing \notin [at : Nat, ver : Nat, bars : Nat, last : Nat]

VARIABLES
    quoteAt, chartVer,   \* the engine's quote, and the version of its chart
    conn,                \* the server's side of the stream: [told, due, frames], or Nothing
    cache,               \* the panel's cache: [ver, last]
    shown,               \* the quote shown: [at, ver, bars, last], or Nothing
    market,              \* GET /api/market: [cv, answer, current], or Nothing
    forced,              \* POST /api/market/refresh: [cv, answer], or Nothing
    withdrawn,           \* history: the latest time taken back, 0 for none
    strayed              \* history: a chart was lost or crossed on its way, and none came since
history == <<withdrawn, strayed>>
chartVars == <<quoteAt, chartVer, conn, cache, shown, market, forced, history>>
panelVars == <<liveVars, chartVars>>

Frame == [at : 1..MaxAt, ver : 1..MaxVer, same : BOOLEAN]
Asked == [cv |-> cache.ver, answer |-> Nothing, current |-> TRUE]

\* A stream that opens is told the version of the panel, and is due its first quote.
NewConn == [told |-> cache.ver, due |-> TRUE, frames |-> <<>>]

ChartsInit ==
    /\ LiveInit
    /\ quoteAt = 1 /\ chartVer = 1 /\ conn = Nothing
    /\ cache = [ver |-> 0, last |-> 0] /\ shown = Nothing
    /\ market = Nothing /\ forced = Nothing /\ withdrawn = 0 /\ strayed = FALSE
----------------------------------------------------------------------------
\* The engine publishes a quote: another price, another chart or both.  The price
\* may be older than the one before, which is then withdrawn.
Publish ==
    /\ quoteAt' \in 1..MaxAt /\ chartVer' \in 1..MaxVer
    /\ <<quoteAt', chartVer'>> # <<quoteAt, chartVer>>
    /\ conn' = IF conn = Nothing THEN conn ELSE [conn EXCEPT !.due = TRUE]
    /\ withdrawn' = IF quoteAt' < quoteAt /\ withdrawn < quoteAt THEN quoteAt ELSE withdrawn
    /\ UNCHANGED <<liveVars, cache, shown, market, forced, strayed>>

\* applyChartVersions(): the quote as it is now, for a reader that holds a version.
Reply(held) == [at |-> quoteAt, ver |-> chartVer, same |-> held = chartVer]

\* pump(): the stream remembers what it wrote.
PumpQuote ==
    /\ conn # Nothing /\ conn.due /\ Len(conn.frames) < MaxFrames
    /\ conn' = [told |-> chartVer, due |-> FALSE, frames |-> Append(conn.frames, Reply(conn.told))]
    /\ UNCHANGED <<liveVars, quoteAt, chartVer, cache, shown, market, forced, history>>
----------------------------------------------------------------------------
\* resolveCharts(): "same" takes the cached bars and patches the last one; bars of
\* the version in the cache are taken from there.
Resolved(f) ==
    CASE f.same /\ cache.ver = 0 -> cache
      [] f.same /\ cache.ver # 0 -> [cache EXCEPT !.last = f.ver]
      [] ~f.same /\ f.ver = cache.ver -> cache
      [] OTHER -> [ver |-> f.ver, last |-> f.ver]

\* A late answer takes the place of what a frame has brought.
NewerBug(f) == f # Nothing

\* applyQuotes(): a quote older than the one shown is dropped with its chart.
Newer(f) == shown = Nothing \/ f.at >= shown.at

ApplyQuote(f) ==
    IF Newer(f)
    THEN /\ cache' = Resolved(f)
         /\ shown' = [at |-> f.at, ver |-> f.ver, bars |-> cache'.ver, last |-> cache'.last]
    ELSE UNCHANGED <<cache, shown>>

\* onQuotes(): what GET /api/market still brings is superseded.
SupersededBug(request) == request
Superseded(request) == IF request = Nothing THEN request ELSE [request EXCEPT !.current = FALSE]

\* A chart that is dropped with its quote is one the stream takes the panel to hold.
\* The next chart that takes the place of the panel's puts that right.
Strays(f) ==
    CASE ~f.same /\ ~Newer(f) -> TRUE
      [] ~f.same /\ Newer(f) /\ f.ver # cache.ver -> FALSE
      [] OTHER -> strayed

FrameArrives ==
    /\ conn # Nothing /\ conn.frames # <<>> /\ Receive
    /\ conn' = [conn EXCEPT !.frames = Tail(@)]
    /\ ApplyQuote(Head(conn.frames)) /\ market' = Superseded(market)
    /\ strayed' = Strays(Head(conn.frames))
    /\ UNCHANGED <<quoteAt, chartVer, forced, withdrawn>>

\* A heartbeat, or a message about something else.
OtherMessage == conn # Nothing /\ Receive /\ UNCHANGED chartVars

ChartsConnect ==
    /\ Opens /\ conn' = NewConn
    /\ UNCHANGED <<quoteAt, chartVer, cache, shown, market, forced, history>>

ChartsDisconnect ==
    /\ Closes /\ conn' = Nothing
    /\ UNCHANGED <<quoteAt, chartVer, cache, shown, market, forced, history>>
----------------------------------------------------------------------------
\* refresh(): one request at a time, for the poll and for the button.
Ask == market' = IF market = Nothing THEN Asked ELSE market

PollAsks ==
    /\ PollBegins /\ Ask
    /\ UNCHANGED <<quoteAt, chartVer, conn, cache, shown, forced, history>>

UserAsks ==
    /\ market = Nothing /\ Ask
    /\ UNCHANGED <<liveVars, quoteAt, chartVer, conn, cache, shown, forced, history>>

\* forceMarketRefresh(), once its snapshot has come and is not fresh enough.
UserForces ==
    /\ forced = Nothing /\ market = Nothing /\ forced' = Asked
    /\ UNCHANGED <<liveVars, quoteAt, chartVer, conn, cache, shown, market, history>>

Unanswered(request) == request # Nothing /\ request.answer = Nothing
Replied(request) == [request EXCEPT !.answer = Reply(request.cv)]

QuotesAnswered ==
    /\ \/ Unanswered(market) /\ market' = Replied(market) /\ UNCHANGED forced
       \/ Unanswered(forced) /\ forced' = Replied(forced) /\ UNCHANGED market
    /\ UNCHANGED <<liveVars, quoteAt, chartVer, conn, cache, shown, history>>

WhoPolls == IF polling THEN PollEnds ELSE UNCHANGED liveVars

\* An answer meets the stream: a frame is on its way, or one is due and the answer
\* brings another chart than the one the stream sent last.
Meets(answer) ==
    conn # Nothing /\ (conn.frames # <<>> \/ (conn.due /\ answer.ver # conn.told))

\* The answer counts unless something has changed the generation since.
MarketArrives ==
    /\ market # Nothing /\ market.answer # Nothing
    /\ IF market.current
       THEN /\ ApplyQuote(market.answer)
            /\ strayed' = (strayed \/ (Newer(market.answer) /\ Meets(market.answer)))
       ELSE UNCHANGED <<cache, shown, strayed>>
    /\ market' = Nothing /\ WhoPolls
    /\ UNCHANGED <<quoteAt, chartVer, conn, forced, withdrawn>>

\* The answer of a forced refresh always counts.  It is late when another answer is
\* awaited, when the panel's chart is no longer the one it was asked with, or when the
\* stream has sent another chart than the answer brings.
Late(request) ==
    \/ market # Nothing \/ cache.ver # request.cv \/ Meets(request.answer)
    \/ conn # Nothing /\ request.answer.ver # conn.told

ForcedArrives ==
    /\ forced # Nothing /\ forced.answer # Nothing
    /\ ApplyQuote(forced.answer)
    /\ strayed' = (strayed \/ (Newer(forced.answer) /\ Late(forced)))
    /\ forced' = Nothing
    /\ UNCHANGED <<liveVars, quoteAt, chartVer, conn, market, withdrawn>>

\* A deadline, an abort or a status that is not ok.
RequestFails ==
    \/ /\ market # Nothing /\ market' = Nothing /\ WhoPolls
       /\ UNCHANGED <<quoteAt, chartVer, conn, cache, shown, forced, history>>
    \/ /\ forced # Nothing /\ forced' = Nothing
       /\ UNCHANGED <<liveVars, quoteAt, chartVer, conn, cache, shown, market, history>>

ChartsNext ==
    \/ Publish \/ PumpQuote \/ FrameArrives \/ OtherMessage \/ ChartsConnect \/ ChartsDisconnect
    \/ PollAsks \/ UserAsks \/ UserForces \/ QuotesAnswered
    \/ MarketArrives \/ ForcedArrives \/ RequestFails

ChartsSpec == ChartsInit /\ [][ChartsNext]_panelVars
----------------------------------------------------------------------------
ChartIsOfItsVersion ==
    shown # Nothing => shown.bars = shown.ver /\ shown.last = shown.ver

(* The stream's memory of what it sent is right: the chart shown is that of the   *)
(* quote, across reconnects, fallbacks, superseded snapshots, withdrawn prices and   *)
(* charts that come again, from the moment the stream brings a chart until one is      *)
(* dropped with its quote or crossed by an answer.                                       *)
StreamKeepsChart == ~strayed => ChartIsOfItsVersion

(* A "same" is answered when the versions agree (panel-market-store.js:4), so the   *)
(* bars shown are of the version the quote names, and so is the last of them.        *)
SameMeansAgree == ChartIsOfItsVersion

(* Once the stream has nothing left to say, the panel shows the newest quote,        *)
(* whatever answers came before, between and after, and its newest chart if none      *)
(* strayed.  It shows a newer quote than that only if a price was withdrawn, and then   *)
(* none newer than what was withdrawn (app.js:157).                                       *)
CaughtUp == conn # Nothing /\ mode = "streaming" /\ ~conn.due /\ conn.frames = <<>>

PanelCatchesUp ==
    CaughtUp => /\ shown # Nothing /\ shown.at >= quoteAt
                /\ shown.at > quoteAt => shown.at <= withdrawn
                /\ ~strayed /\ shown.at = quoteAt => shown.ver = chartVer
=============================================================================
