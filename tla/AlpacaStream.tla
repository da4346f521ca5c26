---------------------------- MODULE AlpacaStream ----------------------------
(* The trade stream, lib/providers/alpaca-stream.js: one socket whose            *)
(* subscriptions follow the symbols in use, and one REST batch beside it, with     *)
(* the provider's end of the socket as the code supposes it: it answers every       *)
(* request with the list of all subscriptions, or refuses the whole request.         *)
(*                                                                                   *)
(* A trade is told by who it is (id and exchange) and the instant it was made: several *)
(* are made at one instant, and they are not reported in the order of their instants.   *)
(* The order book, the snapshot beside the trade and the errors reported are left out.   *)
(* An open socket takes what is sent; time is whether a pause is over, and every timeout  *)
(* may come at any moment.                                                                 *)
EXTENDS Integers, FiniteSets, Sequences

CONSTANTS
    AlSymbols,
    MaxAlActive,   \* ALPACA_MAX_SYMBOLS
    ProviderLimit, \* what the provider allows on one connection
    HasRest,       \* an httpsGet is given
    MaxConnections, MaxStops,   \* bounds
    MaxTrades, MaxInstant,      \* bounds: trades of a symbol, instants they are made at
    MaxWaiting,    \* bound: requests and answers on their way when a second has passed
    NoRest

ASSUME AlpacaAssumption ==
    /\ {MaxAlActive, ProviderLimit} \subseteq Nat \ {0}
    /\ {MaxConnections, MaxStops, MaxTrades, MaxInstant, MaxWaiting} \subseteq Nat
    /\ NoRest \notin [gen : Nat, symbols : SUBSET AlSymbols,
                       read : [AlSymbols -> [id : Nat, at : Nat]] \cup {<<>>}]

VARIABLES
    al,        \* the client: [running, gen, active, socket, auth, fatal, blocked,
               \*   requested, acknowledged, backoff, quiet, sent]; socket 0 is none
    record,    \* per symbol: [trade, invalid, gen]: the trade shown, the instant of the
               \*   one cancelled last, 0 for none; gen is history
    rest,      \* restJob: [gen, symbols, read]
    opened,    \* connections so far
    inbox,     \* per connection: the messages on their way to the client
    subscribed,\* the provider's subscriptions of the current connection
    tape,      \* per symbol: the instants of the trades made so far
    void,      \* per symbol: trades the exchange cancelled
    shown      \* history, per symbol: [at, gone]: the instants of the trade shown last and
               \*   of the last one that was cancelled while it was shown, 0 for none
alVars == <<al, record, rest, opened, inbox, subscribed, tape, void, shown>>

Conn == 1..MaxConnections
NoTrade == [id |-> 0, at |-> 0]
NoRecord == [trade |-> NoTrade, invalid |-> 0, gen |-> 0]
NothingShown == [at |-> 0, gone |-> 0]

AlpacaInit ==
    /\ al = [running |-> TRUE, gen |-> 0, active |-> {}, socket |-> 0, auth |-> FALSE,
             fatal |-> FALSE, blocked |-> FALSE, requested |-> {}, acknowledged |-> {},
             backoff |-> FALSE, quiet |-> FALSE, sent |-> <<>>]
    /\ record = [s \in AlSymbols |-> NoRecord] /\ rest = NoRest /\ opened = 0
    /\ inbox = [k \in Conn |-> <<>>] /\ subscribed = {}
    /\ tape = [s \in AlSymbols |-> <<>>] /\ void = [s \in AlSymbols |-> {}]
    /\ shown = [s \in AlSymbols |-> NothingShown]
----------------------------------------------------------------------------
\* disconnect(), and fail(): a pause before the next connection, or none at all.
DisconnectedBug(a) == [a EXCEPT !.socket = 0, !.auth = FALSE, !.requested = {}, !.sent = <<>>]
Disconnected(a) == [a EXCEPT !.socket = 0, !.auth = FALSE, !.requested = {}, !.acknowledged = {},
                             !.sent = <<>>]
Failed(a, permanent) == [Disconnected(a) EXCEPT !.backoff = TRUE, !.fatal = @ \/ permanent]

\* connect().
Connects(a) == /\ a.running /\ a.socket = 0 /\ ~a.fatal /\ a.active # {} /\ ~a.backoff
               /\ opened < MaxConnections
Connected(a) == IF Connects(a) THEN [a EXCEPT !.socket = opened + 1] ELSE a

\* reconcile(), at most once a second: what is not in use goes, what is missing comes.
Reconciled(a) ==
    LET remove == a.requested \ a.active
        add == a.active \ a.requested
        ask(symbols, kind) == IF symbols = {} THEN <<>> ELSE <<[kind |-> kind, list |-> symbols]>>
    IN IF ~a.auth \/ a.blocked \/ a.quiet \/ (remove = {} /\ add = {}) THEN a
       ELSE [a EXCEPT !.quiet = TRUE, !.requested = a.active,
                      !.sent = @ \o ask(remove, "unsubscribe") \o ask(add, "subscribe")]

\* Symbols leave: their records go with them.
Without(a, gone) == [a EXCEPT !.active = @ \ gone, !.acknowledged = @ \ gone]
Forgets(gone) == /\ record' = [s \in AlSymbols |-> IF s \in gone THEN NoRecord ELSE record[s]]
                 /\ shown' = [s \in AlSymbols |-> IF s \in gone THEN NothingShown ELSE shown[s]]

\* A new connection starts without subscriptions.
Becomes(a) == /\ al' = a
              /\ opened' = IF a.socket > opened THEN a.socket ELSE opened
              /\ subscribed' = IF a.socket = al.socket THEN subscribed ELSE {}

Touch(s) ==
    /\ al.running /\ s \notin al.active /\ Cardinality(al.active) < MaxAlActive
    /\ Becomes(Connected([al EXCEPT !.active = @ \cup {s}]))
    /\ UNCHANGED <<record, rest, inbox, tape, void, shown>>

Retain(keep) ==
    /\ al.active \ keep # {}
    /\ LET gone == al.active \ keep
           left == Without(al, gone)
           open == IF al.blocked THEN [left EXCEPT !.blocked = FALSE, !.quiet = FALSE] ELSE left
       IN /\ Becomes(IF open.active = {} THEN Disconnected(open) ELSE Reconciled(open))
          /\ Forgets(gone)
    /\ UNCHANGED <<rest, inbox, tape, void>>

\* step(), once a second.  Symbols nobody has read expire; the socket is opened and
\* its subscriptions follow; one REST batch is asked for what is due.
Step(expired, due) ==
    /\ al.running /\ expired \subseteq al.active
    /\ LET left == Without(al, expired) IN
       IF left.active = {}
       THEN due = {} /\ Becomes(Disconnected(left)) /\ UNCHANGED rest
       ELSE /\ Becomes(Reconciled(Connected(left)))
            /\ due \subseteq left.active /\ (due # {} => HasRest /\ rest = NoRest)
            /\ rest' = IF due = {} THEN rest
                       ELSE [gen |-> al.gen, symbols |-> due, read |-> <<>>]
    /\ Forgets(expired)
    /\ UNCHANGED <<inbox, tape, void>>

\* A quiet connection is probed by subscribing again to a symbol it has.
Probe(s) ==
    /\ al.auth /\ s \in al.acknowledged /\ ~al.quiet /\ al.sent = <<>>
    /\ inbox[al.socket] = <<>>
    /\ al' = [al EXCEPT !.quiet = TRUE, !.sent = <<[kind |-> "subscribe", list |-> {s}]>>]
    /\ UNCHANGED <<record, rest, opened, inbox, subscribed, tape, void, shown>>

\* A timeout of step(), or an error or close event.
SocketFails ==
    /\ al.socket # 0 /\ Becomes(Failed(al, FALSE))
    /\ UNCHANGED <<record, rest, inbox, tape, void, shown>>

\* The pause after a failure ends; a second has passed since the last request.
PauseEnds ==
    /\ \/ al.backoff /\ al' = [al EXCEPT !.backoff = FALSE]
       \/ /\ al.quiet /\ al' = [al EXCEPT !.quiet = FALSE]
          /\ al.socket # 0 => Len(al.sent) + Len(inbox[al.socket]) <= MaxWaiting
    /\ UNCHANGED <<record, rest, opened, inbox, subscribed, tape, void, shown>>

StartAlpaca ==
    /\ ~al.running
    /\ al' = [al EXCEPT !.running = TRUE, !.fatal = FALSE, !.blocked = FALSE, !.backoff = FALSE]
    /\ UNCHANGED <<record, rest, opened, inbox, subscribed, tape, void, shown>>

\* stop(): the batch under way is aborted, and may still answer.
StopAlpaca ==
    /\ al.running /\ al.gen < MaxStops
    /\ Becomes([Disconnected(al) EXCEPT !.running = FALSE, !.gen = @ + 1, !.active = {}])
    /\ Forgets(AlSymbols)
    /\ UNCHANGED <<rest, inbox, tape, void>>
----------------------------------------------------------------------------
\* acceptTrade(): not of the instant of the cancelled trade or before, not older than
\* the one shown, and not that one again.
Accepts(s, trade) ==
    /\ s \in al.active /\ trade.at > record[s].invalid
    /\ trade.at >= record[s].trade.at /\ trade # record[s].trade

Accepted(s, trade, gen) == [record[s] EXCEPT !.trade = trade, !.gen = gen]
Shows(s, trade) == [shown[s] EXCEPT !.at = trade.at]

\* invalidate(): a cancellation of the trade shown.
CancelledBug(s) == [record[s] EXCEPT !.trade = NoTrade]
Cancelled(s) == [record[s] EXCEPT !.trade = NoTrade, !.invalid = record[s].trade.at]

\* Only the socket in use is heard.
Heard(k) == al.running /\ k = al.socket

Acts(message) ==
    CASE message.kind = "welcome" ->
           /\ Becomes(Reconciled([al EXCEPT !.auth = TRUE, !.quiet = FALSE]))
           /\ UNCHANGED <<record, shown>>
      [] message.kind = "list" /\ al.auth ->
           /\ Becomes([al EXCEPT !.acknowledged = message.list \cap al.active])
           /\ UNCHANGED <<record, shown>>
      [] message.kind = "limit" ->
           /\ Becomes([al EXCEPT !.blocked = TRUE, !.requested = al.acknowledged])
           /\ UNCHANGED <<record, shown>>
      [] message.kind = "error" ->
           /\ \E permanent \in BOOLEAN : Becomes(Failed(al, permanent))
           /\ UNCHANGED <<record, shown>>
      [] message.kind = "trade" /\ al.auth ->
           LET s == message.symbol IN
           /\ IF Accepts(s, message.trade)
              THEN /\ record' = [record EXCEPT ![s] = Accepted(s, message.trade, al.gen)]
                   /\ shown' = [shown EXCEPT ![s] = Shows(s, message.trade)]
              ELSE UNCHANGED <<record, shown>>
           /\ UNCHANGED <<al, opened, subscribed>>
      [] message.kind = "cancel" /\ al.auth ->
           LET s == message.symbol IN
           /\ IF record[s].trade.id = message.trade.id
              THEN /\ record' = [record EXCEPT ![s] = Cancelled(s)]
                   /\ shown' = [shown EXCEPT ![s].gone = record[s].trade.at]
              ELSE UNCHANGED <<record, shown>>
           /\ UNCHANGED <<al, opened, subscribed>>
      [] OTHER -> UNCHANGED <<al, opened, subscribed, record, shown>>

Receive(k) ==
    /\ inbox[k] # <<>>
    /\ inbox' = [inbox EXCEPT ![k] = Tail(@)]
    /\ IF Heard(k) THEN Acts(Head(inbox[k]))
       ELSE UNCHANGED <<al, opened, subscribed, record, shown>>
    /\ UNCHANGED <<rest, tape, void>>

\* The batch comes back, with the trades its source had when it was read, or fails.
MayApply == al.running /\ rest.gen = al.gen

RestReturns(ok) ==
    /\ rest # NoRest /\ (ok => rest.read # <<>>)
    /\ LET news == IF ok /\ MayApply
                   THEN {s \in rest.symbols : rest.read[s] # NoTrade /\ Accepts(s, rest.read[s])} ELSE {}
       IN /\ record' = [s \in AlSymbols |-> IF s \in news
                           THEN Accepted(s, rest.read[s], rest.gen) ELSE record[s]]
          /\ shown' = [s \in AlSymbols |-> IF s \in news THEN Shows(s, rest.read[s]) ELSE shown[s]]
    /\ rest' = NoRest
    /\ UNCHANGED <<al, opened, inbox, subscribed, tape, void>>
----------------------------------------------------------------------------
\* The provider: it lets the client in, reads a request, and reports what happens.
Tells(message) == inbox' = [inbox EXCEPT ![al.socket] = Append(@, message)]

Welcomes ==
    /\ al.socket # 0 /\ ~al.auth /\ inbox[al.socket] = <<>>
    /\ \E kind \in {"welcome", "error"} : Tells([kind |-> kind])
    /\ UNCHANGED <<al, record, rest, opened, subscribed, tape, void, shown>>

Serves ==
    /\ al.sent # <<>>
    /\ LET request == Head(al.sent)
           then == IF request.kind = "subscribe" THEN subscribed \cup request.list
                   ELSE subscribed \ request.list
       IN IF Cardinality(then) > ProviderLimit
          THEN Tells([kind |-> "limit"]) /\ UNCHANGED subscribed
          ELSE Tells([kind |-> "list", list |-> then]) /\ subscribed' = then
    /\ al' = [al EXCEPT !.sent = Tail(@)]
    /\ UNCHANGED <<record, rest, opened, tape, void, shown>>

\* The exchange: a trade, made at some instant, or the cancellation of one.
Reports(s, kind, trade) ==
    IF al.socket # 0 /\ s \in subscribed
    THEN Tells([kind |-> kind, symbol |-> s, trade |-> trade])
    ELSE UNCHANGED inbox

Trades(s) ==
    /\ Len(tape[s]) < MaxTrades
    /\ \E at \in 1..MaxInstant :
          /\ tape' = [tape EXCEPT ![s] = Append(@, at)]
          /\ Reports(s, "trade", [id |-> Len(tape[s]) + 1, at |-> at])
    /\ UNCHANGED <<al, record, rest, opened, subscribed, void, shown>>

Trade(s, n) == [id |-> n, at |-> tape[s][n]]
Standing(s) == DOMAIN tape[s] \ void[s]

Cancels(s) ==
    \E n \in Standing(s) :
        /\ void' = [void EXCEPT ![s] = @ \cup {n}]
        /\ Reports(s, "cancel", Trade(s, n))
        /\ UNCHANGED <<al, record, rest, opened, subscribed, tape, shown>>

\* REST knows of each symbol some trade that is not cancelled, or none.
RestReads ==
    /\ rest # NoRest /\ rest.read = <<>>
    /\ \E n \in [AlSymbols -> 0..MaxTrades] :
           /\ \A s \in AlSymbols : n[s] # 0 => n[s] \in Standing(s)
           /\ rest' = [rest EXCEPT !.read =
                         [s \in AlSymbols |-> IF n[s] = 0 THEN NoTrade ELSE Trade(s, n[s])]]
    /\ UNCHANGED <<al, record, opened, inbox, subscribed, tape, void, shown>>

AlpacaNext ==
    \/ \E s \in AlSymbols : Touch(s) \/ Probe(s) \/ Trades(s) \/ Cancels(s)
    \/ \E keep \in SUBSET AlSymbols : Retain(keep)
    \/ \E expired, due \in SUBSET AlSymbols : Step(expired, due)
    \/ SocketFails \/ PauseEnds \/ StartAlpaca \/ StopAlpaca
    \/ \E k \in Conn : Receive(k)
    \/ \E ok \in BOOLEAN : RestReturns(ok)
    \/ Welcomes \/ Serves \/ RestReads

AlpacaSpec == AlpacaInit /\ [][AlpacaNext]_alVars
----------------------------------------------------------------------------
(* A symbol reported as streaming is: when no answer is on its way, the provider has *)
(* every acknowledged symbol among this connection's subscriptions, after a reconnect *)
(* too, whatever a socket of before still says.                                        *)
StreamingIsSubscribed ==
    al.auth /\ al.sent = <<>> /\ inbox[al.socket] = <<>> => al.acknowledged \subseteq subscribed

(* While a symbol is in use its trades go forward: a trade shown later was not made    *)
(* earlier than any shown before, and was made later than any that was cancelled while   *)
(* it was shown ("Await a newer valid trade", alpaca-stream.js:119), whether it comes      *)
(* from the stream or from a REST batch asked for earlier.  Nothing read before a stop()    *)
(* is shown after it.  Of two trades of one instant either may follow the other, one that     *)
(* was replaced included: the code asks for no more (alpaca-stream.js:94-95).                  *)
NoOlderTradeComesBack ==
    [][\A s \in AlSymbols :
          record'[s].trade \notin {NoTrade, record[s].trade}
            => /\ record'[s].trade.at >= shown[s].at
               /\ record'[s].trade.at > shown[s].gone
               /\ record'[s].gen = al'.gen]_alVars
=============================================================================
