----------------------------- MODULE PanelProofs ----------------------------
(* The panel's connection never leaves it with nothing to hear from, and the    *)
(* chart it shows is that of its quote: what the stream remembers of what it     *)
(* sent and what the panel holds agree, unless an answer crosses or a chart is     *)
(* dropped with a withdrawn price.  What it shows of the minute samples has no gap,  *)
(* unless a load fails or is overrun.                                                 *)
EXTENDS PanelCharts, PanelSamples, SequenceTheorems, NaturalsInduction, WellFoundedInduction, TLAPS

(* The invariant is inductive: every step leaves either a stream, or a poll that *)
(* is armed or under way beside the next connect() (panel-live-store.js).          *)
LEMMA StepKeepsLiveInv ==
    ASSUME LiveInv, [LiveNext]_liveVars
    PROVE  LiveInv'
<1> USE DEF LiveInv, LiveTypeOK, NeverSilent, Modes, Paused
<1>1. CASE Resume
  BY <1>1 DEF Resume, Connect
<1>2. CASE ReconnectTimer
  BY <1>2 DEF ReconnectTimer, Connect
<1>3. CASE ChangeSymbols
  BY <1>3 DEF ChangeSymbols, Connect
<1>4. CASE Pause
  BY <1>4 DEF Pause
<1>5. CASE StreamFails
  BY <1>5 DEF StreamFails
<1>6. CASE Receive
  BY <1>6 DEF Receive
<1>7. CASE PollBegins
  BY <1>7 DEF PollBegins
<1>8. CASE PollEnds
  BY <1>8 DEF PollEnds
<1>9. CASE UNCHANGED liveVars
  BY <1>9 DEF liveVars
<1>10. QED
  BY <1>1, <1>2, <1>3, <1>4, <1>5, <1>6, <1>7, <1>8, <1>9 DEF LiveNext, Opens, Closes

(* Whatever order messages, failures, snapshots and the user come in, a panel that *)
(* is not paused has a stream, or polls and is about to connect again.              *)
THEOREM PanelNeverSilent == LiveSpec => []LiveInv
<1>1. LiveInit => LiveInv
  BY DEF LiveInit, LiveInv, LiveTypeOK, NeverSilent, Modes, Paused
<1>2. LiveInv /\ [LiveNext]_liveVars => LiveInv'
  BY StepKeepsLiveInv
<1>3. QED
  BY <1>1, <1>2, PTL DEF LiveSpec
-----------------------------------------------------------------------------
Connections == [told : Nat, due : BOOLEAN, frames : Seq(Frame)]
Requests == [cv : Nat, answer : Frame \cup {Nothing}, current : BOOLEAN]
Quotes == [at : Nat, ver : Nat, bars : Nat, last : Nat]

ChartsTypeOK ==
    /\ quoteAt \in 1..MaxAt /\ chartVer \in 1..MaxVer
    /\ cache \in [ver : Nat, last : Nat]
    /\ withdrawn \in Nat /\ strayed \in BOOLEAN
    /\ conn # Nothing => conn \in Connections
    /\ shown # Nothing => shown \in Quotes
    /\ market # Nothing => market \in Requests
    /\ forced # Nothing => forced \in Requests

\* Nothing is newer than the quote, unless it was withdrawn.
Published(at) == at <= quoteAt \/ at <= withdrawn

\* "Same" is said of the frame before, and the server remembers the last.
Chained(frames, told) ==
    /\ \A i \in 1..Len(frames) : Published(frames[i].at)
    /\ \A i \in 2..Len(frames) : frames[i].same => frames[i].ver = frames[i - 1].ver
    /\ frames # <<>> => told = frames[Len(frames)].ver

\* An answer is about a quote that was published, and says "same" of the version named.
Answered(request) ==
    request # Nothing =>
        (request.answer # Nothing =>
            /\ Published(request.answer.at)
            /\ request.answer.same => request.answer.ver = request.cv)

\* A stream with nothing due has said the newest, and so has a snapshot no frame met.
Told == conn # Nothing /\ ~conn.due
UpToDate ==
    Told => /\ conn.told = chartVer
            /\ (conn.frames = <<>> /\ market # Nothing) =>
                  (market.current /\ market.answer # Nothing => market.answer.ver = chartVer)

\* What the server says "same" of first is what the panel holds.
Heard(frames, told) ==
    IF frames = <<>> THEN told = cache.ver
    ELSE frames[1].same => frames[1].ver = cache.ver

\* The chart in the cache is whole, and that of the quote shown.
Agreed == cache.last = cache.ver /\ ChartIsOfItsVersion

MemoriesAgree ==
    ~strayed =>
        /\ Agreed
        /\ market # Nothing => (market.current => market.cv = cache.ver)
        /\ conn # Nothing => Heard(conn.frames, conn.told)

ChartsInv ==
    /\ ChartsTypeOK
    /\ shown # Nothing => Published(shown.at)
    /\ conn # Nothing => Chained(conn.frames, conn.told)
    /\ Answered(market) /\ Answered(forced)
    /\ UpToDate
    /\ MemoriesAgree
-----------------------------------------------------------------------------
LEMMA BoundsAreNumbers == MaxAt \in Nat \ {0} /\ MaxVer \in Nat \ {0}
BY ChartsAssumption

(* Whatever is applied, cache and quote stay what they are: versions, and a quote *)
(* that was published.                                                              *)
LEMMA ApplyIsTyped ==
    ASSUME ChartsInv, NEW f \in Frame, Published(f.at), ApplyQuote(f)
    PROVE  /\ cache' \in [ver : Nat, last : Nat]
           /\ shown' # Nothing => shown' \in Quotes /\ Published(shown'.at)
           /\ Newer(f) => /\ shown' # Nothing /\ shown'.at = f.at /\ shown'.ver = f.ver
                          /\ cache' = Resolved(f)
           /\ ~Newer(f) => UNCHANGED <<cache, shown>>
<1> USE BoundsAreNumbers
<1>1. /\ cache \in [ver : Nat, last : Nat] /\ f.ver \in Nat /\ f.at \in Nat
      /\ shown # Nothing => shown \in Quotes /\ Published(shown.at)
  BY DEF ChartsInv, ChartsTypeOK, Frame
<1>2. CASE Newer(f)
  <2>1. /\ cache' = Resolved(f)
        /\ shown' = [at |-> f.at, ver |-> f.ver, bars |-> cache'.ver, last |-> cache'.last]
    BY <1>2 DEF ApplyQuote
  <2>2. cache' \in [ver : Nat, last : Nat]
    BY <1>1, <2>1 DEF Resolved
  <2>3. shown' \in Quotes
    BY <1>1, <2>1, <2>2 DEF Quotes
  <2>4. shown' # Nothing
    BY <2>3, ChartsAssumption DEF Quotes
  <2>5. QED
    BY <1>2, <2>1, <2>2, <2>3, <2>4
<1>3. CASE ~Newer(f)
  BY <1>1, <1>3 DEF ApplyQuote
<1>4. QED
  BY <1>2, <1>3

(* A quote whose "same" is about the chart in a cache that is whole leaves that      *)
(* chart there; so does one that brings another chart, whatever the cache was.         *)
LEMMA ApplyKeepsAgreement ==
    ASSUME ChartsInv, NEW f \in Frame, ApplyQuote(f), Newer(f),
           \/ Agreed /\ (f.same => f.ver = cache.ver)
           \/ ~f.same /\ f.ver # cache.ver
    PROVE  Agreed' /\ cache'.ver = f.ver
<1> USE BoundsAreNumbers
<1>1. /\ cache \in [ver : Nat, last : Nat] /\ f.ver \in Nat \ {0} /\ f.same \in BOOLEAN
  BY DEF ChartsInv, ChartsTypeOK, Frame
<1>2. /\ cache' = Resolved(f)
      /\ shown' = [at |-> f.at, ver |-> f.ver, bars |-> cache'.ver, last |-> cache'.last]
  BY DEF ApplyQuote
<1>3. cache'.ver = f.ver /\ cache'.last = f.ver
  BY <1>1, <1>2 DEF Resolved, Agreed
<1>4. QED
  BY <1>2, <1>3 DEF Agreed, ChartIsOfItsVersion
-----------------------------------------------------------------------------
(* Whatever the engine publishes, what it published before stays published.        *)
LEMMA PublishKeeps == ASSUME ChartsInv, Publish PROVE ChartsInv'
<1> USE BoundsAreNumbers
<1>1. /\ quoteAt \in Nat /\ quoteAt' \in 1..MaxAt /\ chartVer' \in 1..MaxVer
      /\ withdrawn \in Nat /\ withdrawn' \in Nat
      /\ UNCHANGED <<cache, shown, market, forced, strayed>>
  BY DEF ChartsInv, ChartsTypeOK, Publish
<1>2. ASSUME NEW at \in Nat, Published(at) PROVE at <= quoteAt' \/ at <= withdrawn'
  BY <1>1, <1>2 DEF Published, Publish
<1>3. /\ conn = Nothing => conn' = Nothing
      /\ conn # Nothing => /\ conn' \in Connections /\ conn'.due
                           /\ conn'.told = conn.told /\ conn'.frames = conn.frames
  BY DEF Publish, ChartsInv, ChartsTypeOK, Connections
<1>4. ChartsTypeOK'
  BY <1>1, <1>3 DEF ChartsInv, ChartsTypeOK
<1>5. shown' # Nothing => Published(shown.at)'
  BY <1>1, <1>2 DEF ChartsInv, ChartsTypeOK, Quotes, Published
<1>6. ASSUME conn' # Nothing PROVE Chained(conn.frames, conn.told)'
  <2>1. /\ conn # Nothing /\ conn.frames \in Seq(Frame) /\ Chained(conn.frames, conn.told)
    BY <1>3, <1>6 DEF ChartsInv, ChartsTypeOK, Connections
  <2>2. ASSUME NEW i \in 1..Len(conn.frames) PROVE conn.frames[i].at \in Nat
    <3>1. conn.frames[i] \in Frame
      BY <2>1
    <3>2. QED
      BY <3>1 DEF Frame
  <2>3. \A i \in 1..Len(conn.frames) : conn.frames[i].at <= quoteAt' \/ conn.frames[i].at <= withdrawn'
    BY <1>2, <2>1, <2>2 DEF Chained
  <2>4. QED
    BY <1>3, <2>1, <2>3 DEF Chained, Published
<1>7. ASSUME NEW request, Answered(request), request # Nothing => request \in Requests
      PROVE  (request # Nothing /\ request.answer # Nothing) =>
                /\ request.answer.at <= quoteAt' \/ request.answer.at <= withdrawn'
                /\ request.answer.same => request.answer.ver = request.cv
  BY <1>2, <1>7 DEF Answered, Requests, Frame
<1>8. Answered(market)' /\ Answered(forced)'
  BY <1>1, <1>7 DEF ChartsInv, ChartsTypeOK, Answered, Published
<1>9. UpToDate'
  BY <1>3 DEF UpToDate, Told
<1>10. MemoriesAgree'
  BY <1>1, <1>3 DEF ChartsInv, MemoriesAgree, Agreed, ChartIsOfItsVersion, Heard
<1>11. QED
  BY <1>4, <1>5, <1>6, <1>8, <1>9, <1>10 DEF ChartsInv
-----------------------------------------------------------------------------
(* pump() says "same" of the frame before, or of a version the panel still holds.  *)
LEMMA PumpKeeps == ASSUME ChartsInv, PumpQuote PROVE ChartsInv'
<1> USE BoundsAreNumbers
<1> DEFINE f == Reply(conn.told)
           n == Len(conn.frames)
<1>1. /\ conn # Nothing /\ conn \in Connections /\ conn.told \in Nat
      /\ conn.frames \in Seq(Frame) /\ n \in Nat
      /\ Chained(conn.frames, conn.told) /\ chartVer \in Nat
  BY DEF PumpQuote, ChartsInv, ChartsTypeOK, Connections
<1>2. /\ f \in Frame /\ f.at = quoteAt /\ f.ver = chartVer
      /\ f.same => conn.told = chartVer
  BY DEF Reply, Frame, ChartsInv, ChartsTypeOK
<1> HIDE DEF f
<1>3. /\ conn'.told = chartVer /\ conn'.frames = Append(conn.frames, f) /\ conn' \in Connections
      /\ UNCHANGED <<quoteAt, chartVer, cache, shown, market, forced, withdrawn, strayed>>
  BY <1>1, <1>2 DEF PumpQuote, Connections, f, history
<1>4. /\ Len(conn'.frames) = n + 1 /\ conn'.frames[n + 1] = f
      /\ \A i \in 1..n : conn'.frames[i] = conn.frames[i]
      /\ conn'.frames # <<>> /\ (conn.frames = <<>> <=> n = 0)
  BY <1>1, <1>2, <1>3
<1>5. n # 0 => conn.told = conn.frames[n].ver
  BY <1>1, <1>4 DEF Chained
<1>6. /\ \A i \in 1..n : Published(conn.frames[i].at)
      /\ \A i \in 2..n : conn.frames[i].same => conn.frames[i].ver = conn.frames[i - 1].ver
  BY <1>1 DEF Chained
<1> HIDE DEF n
<1>7. ChartsTypeOK'
  BY <1>3 DEF ChartsInv, ChartsTypeOK
<1>8. Chained(conn'.frames, conn'.told)
  <2>1. \A i \in 1..(n + 1) : Published(conn'.frames[i].at)
    <3>1. Published(f.at)
      BY <1>2 DEF Published, ChartsInv, ChartsTypeOK
    <3>2. \A i \in 1..(n + 1) : i \in 1..n \/ i = n + 1
      BY <1>1
    <3>3. QED
      BY <1>4, <1>6, <3>1, <3>2
  <2>2. ASSUME NEW i \in 2..(n + 1), conn'.frames[i].same
        PROVE  conn'.frames[i].ver = conn'.frames[i - 1].ver
    <3>1. i - 1 \in 1..n /\ (i \in 2..n \/ (i = n + 1 /\ n # 0 /\ i - 1 = n))
      BY <1>1
    <3>2. CASE i \in 2..n
      BY <1>1, <1>4, <1>6, <2>2, <3>1, <3>2
    <3>3. CASE i = n + 1 /\ n # 0 /\ i - 1 = n
      <4>1. conn'.frames[n] = conn.frames[n]
        BY <1>4, <3>1, <3>3
      <4>2. QED
        BY <1>2, <1>4, <1>5, <2>2, <3>3, <4>1
    <3>4. QED
      BY <3>1, <3>2, <3>3
  <2>3. QED
    BY <1>2, <1>3, <1>4, <2>1, <2>2 DEF Chained
<1>9. Answered(market)' /\ Answered(forced)' /\ (shown' # Nothing => Published(shown.at)')
  BY <1>3 DEF ChartsInv, Answered, Published
<1>10. UpToDate'
  BY <1>3, <1>4 DEF UpToDate
<1>11. ASSUME ~strayed PROVE Heard(conn.frames, conn.told)'
  <2>1. Heard(conn.frames, conn.told)
    BY <1>1, <1>11 DEF ChartsInv, MemoriesAgree
  <2>2. CASE n = 0
    BY <1>2, <1>3, <1>4, <2>1, <2>2 DEF Heard
  <2>3. CASE n # 0
    <3>1. 1 \in 1..n
      BY <1>1, <2>3
    <3>2. QED
      BY <1>3, <1>4, <2>1, <2>3, <3>1 DEF Heard
  <2>4. QED
    BY <2>2, <2>3
<1>12. MemoriesAgree'
  BY <1>3, <1>11 DEF ChartsInv, MemoriesAgree, Agreed, ChartIsOfItsVersion
<1>13. Chained(conn.frames, conn.told)'
  BY <1>3, <1>8 DEF Chained, Published
<1>14. QED
  BY <1>7, <1>9, <1>10, <1>12, <1>13 DEF ChartsInv

(* What a frame leaves behind: the rest of the frames, and no snapshot that counts.  *)
LEMMA FrameTaken ==
    ASSUME ChartsInv, FrameArrives
    PROVE  /\ conn # Nothing /\ conn' \in Connections
           /\ conn'.told = conn.told /\ conn'.due = conn.due
           /\ conn.frames \in Seq(Frame) /\ Len(conn.frames) \in Nat \ {0}
           /\ conn.frames[1] \in Frame /\ Published(conn.frames[1].at)
           /\ ApplyQuote(conn.frames[1]) /\ strayed' = Strays(conn.frames[1])
           /\ Len(conn'.frames) = Len(conn.frames) - 1
           /\ \A i \in 1..(Len(conn.frames) - 1) : conn'.frames[i] = conn.frames[i + 1]
           /\ conn'.frames = <<>> <=> Len(conn.frames) = 1
           /\ market' # Nothing => /\ market # Nothing /\ market' \in Requests
                                   /\ ~market'.current /\ market'.cv = market.cv
                                   /\ market'.answer = market.answer
           /\ UNCHANGED <<quoteAt, chartVer, forced, withdrawn>>
<1> DEFINE n == Len(conn.frames)
<1>1. /\ conn # Nothing /\ conn \in Connections /\ conn.frames \in Seq(Frame)
      /\ conn.frames # <<>> /\ n \in Nat \ {0} /\ Chained(conn.frames, conn.told)
  BY DEF FrameArrives, ChartsInv, ChartsTypeOK, Connections
<1>2. Head(conn.frames) = conn.frames[1] /\ 1 \in 1..n /\ conn.frames[1] \in Frame
  BY <1>1
<1>3. /\ Len(Tail(conn.frames)) = n - 1 /\ Tail(conn.frames) \in Seq(Frame)
      /\ \A i \in 1..Len(Tail(conn.frames)) : Tail(conn.frames)[i] = conn.frames[i + 1]
  BY <1>1, HeadTailProperties
<1>4. Tail(conn.frames) = <<>> <=> n = 1
  <2>1. Tail(conn.frames) = <<>> <=> Len(Tail(conn.frames)) = 0
    BY <1>3, EmptySeq
  <2>2. QED
    BY <1>1, <1>3, <2>1
<1>5. conn' = [conn EXCEPT !.frames = Tail(conn.frames)]
  BY DEF FrameArrives
<1>6. /\ conn' \in Connections /\ conn'.told = conn.told /\ conn'.due = conn.due
      /\ conn'.frames = Tail(conn.frames)
  BY <1>1, <1>3, <1>5 DEF Connections
<1>7. market' # Nothing => /\ market # Nothing /\ market' \in Requests
                           /\ ~market'.current /\ market'.cv = market.cv
                           /\ market'.answer = market.answer
  BY DEF FrameArrives, Superseded, ChartsInv, ChartsTypeOK, Requests
<1>8. Published(conn.frames[1].at)
  BY <1>1, <1>2 DEF Chained
<1>9. QED
  BY <1>1, <1>2, <1>3, <1>4, <1>6, <1>7, <1>8 DEF FrameArrives

(* The first frame on its way is about what the panel holds; the next one then is. *)
LEMMA FrameKeeps == ASSUME ChartsInv, FrameArrives PROVE ChartsInv'
<1> USE BoundsAreNumbers
<1> DEFINE f == conn.frames[1]
           n == Len(conn.frames)
<1>1. /\ conn # Nothing /\ conn' \in Connections
      /\ conn'.told = conn.told /\ conn'.due = conn.due
      /\ n \in Nat \ {0} /\ Len(conn'.frames) = n - 1
      /\ \A i \in 1..(n - 1) : conn'.frames[i] = conn.frames[i + 1]
      /\ (conn.frames = <<>> <=> n = 0) /\ (conn'.frames = <<>> <=> n = 1)
      /\ UNCHANGED <<quoteAt, chartVer, forced, withdrawn>>
  BY FrameTaken
<1>2. f \in Frame /\ Published(f.at) /\ ApplyQuote(f) /\ strayed' = Strays(f)
  BY FrameTaken
<1>3. market' # Nothing => /\ market # Nothing /\ market' \in Requests /\ ~market'.current
                           /\ market'.cv = market.cv /\ market'.answer = market.answer
  BY FrameTaken
<1>4. /\ \A i \in 1..n : Published(conn.frames[i].at)
      /\ \A i \in 2..n : conn.frames[i].same => conn.frames[i].ver = conn.frames[i - 1].ver
      /\ conn.told = conn.frames[n].ver
  BY <1>1 DEF ChartsInv, Chained
<1>5. /\ f.same \in BOOLEAN /\ strayed \in BOOLEAN
      /\ cache' \in [ver : Nat, last : Nat]
      /\ shown' # Nothing => shown' \in Quotes /\ Published(shown'.at)
      /\ ~Newer(f) => UNCHANGED <<cache, shown>>
  BY <1>2, ApplyIsTyped DEF ChartsInv, ChartsTypeOK, Frame
<1>6. ASSUME ~strayed' PROVE Agreed' /\ cache'.ver = f.ver
  <2>1. \/ ~f.same /\ Newer(f) /\ f.ver # cache.ver
        \/ ~strayed /\ (f.same \/ (Newer(f) /\ f.ver = cache.ver))
    BY <1>2, <1>5, <1>6 DEF Strays
  <2>2. ~strayed => Agreed /\ (f.same => f.ver = cache.ver)
    BY <1>1 DEF ChartsInv, MemoriesAgree, Heard
  <2>3. CASE Newer(f)
    BY <1>2, <2>1, <2>2, <2>3, ApplyKeepsAgreement
  <2>4. CASE ~Newer(f)
    <3>1. Agreed /\ f.ver = cache.ver /\ UNCHANGED <<cache, shown>>
      BY <1>5, <2>1, <2>2, <2>4
    <3>2. QED
      BY <3>1 DEF Agreed, ChartIsOfItsVersion
  <2>5. QED
    BY <2>3, <2>4
<1> HIDE DEF n
<1>7. ChartsTypeOK'
  <2>1. strayed' \in BOOLEAN
    BY <1>2, <1>5 DEF Strays
  <2>2. QED
    BY <1>1, <1>3, <1>5, <2>1 DEF ChartsInv, ChartsTypeOK
<1>8. Chained(conn.frames, conn.told)'
  <2>1. \A i \in 1..(n - 1) : i + 1 \in 2..n /\ i + 1 \in 1..n /\ (i + 1) - 1 = i
    BY <1>1
  <2>2. \A i \in 1..(n - 1) : Published(conn'.frames[i].at)
    BY <1>1, <1>4, <2>1
  <2>3. ASSUME NEW i \in 2..(n - 1), conn'.frames[i].same
        PROVE  conn'.frames[i].ver = conn'.frames[i - 1].ver
    <3>1. i \in 1..(n - 1) /\ i - 1 \in 1..(n - 1) /\ (i - 1) + 1 = i
      BY <1>1
    <3>2. conn'.frames[i] = conn.frames[i + 1] /\ conn'.frames[i - 1] = conn.frames[i]
      BY <1>1, <3>1
    <3>3. QED
      BY <1>4, <2>1, <2>3, <3>1, <3>2
  <2>4. conn'.frames # <<>> => conn'.told = conn'.frames[n - 1].ver
    <3>1. SUFFICES ASSUME n # 1 PROVE conn'.told = conn'.frames[n - 1].ver
      BY <1>1
    <3>2. n - 1 \in 1..(n - 1) /\ (n - 1) + 1 = n
      BY <1>1, <3>1
    <3>3. QED
      BY <1>1, <1>4, <3>2
  <2>5. \A i \in 1..(n - 1) : conn'.frames[i].at <= quoteAt' \/ conn'.frames[i].at <= withdrawn'
    BY <1>1, <2>2 DEF Published
  <2>6. QED
    BY <1>1, <2>3, <2>4, <2>5 DEF Chained, Published
<1>9. Answered(market)' /\ Answered(forced)' /\ (shown' # Nothing => Published(shown.at)')
  BY <1>1, <1>3, <1>5 DEF ChartsInv, Answered, Published
<1>10. UpToDate'
  BY <1>1, <1>3 DEF ChartsInv, UpToDate, Told
<1>11. ASSUME ~strayed' PROVE Heard(conn.frames, conn.told)'
  <2>1. cache'.ver = f.ver
    BY <1>6, <1>11
  <2>2. CASE n = 1
    BY <1>1, <1>4, <2>1, <2>2 DEF Heard
  <2>3. CASE n # 1
    <3>1. 1 \in 1..(n - 1) /\ 2 \in 2..n /\ 1 + 1 = 2 /\ 2 - 1 = 1
      BY <1>1, <2>3
    <3>2. conn'.frames[1] = conn.frames[2] /\ (conn.frames[2].same => conn.frames[2].ver = f.ver)
      BY <1>1, <1>4, <3>1
    <3>3. QED
      BY <1>1, <2>1, <2>3, <3>2 DEF Heard
  <2>4. QED
    BY <2>2, <2>3
<1>12. MemoriesAgree'
  BY <1>3, <1>6, <1>11 DEF MemoriesAgree
<1>13. QED
  BY <1>7, <1>8, <1>9, <1>10, <1>12 DEF ChartsInv
-----------------------------------------------------------------------------
(* Requests that end without an answer.                                            *)
LEMMA QuietKeeps ==
    ASSUME ChartsInv, UNCHANGED <<quoteAt, chartVer, conn, cache, shown, history>>,
           market' \in {market, Nothing}, forced' \in {forced, Nothing}
    PROVE  ChartsInv'
<1> USE DEF history
<1>1. ChartsTypeOK'
  BY DEF ChartsInv, ChartsTypeOK
<1>2. /\ shown' # Nothing => Published(shown.at)'
      /\ conn' # Nothing => Chained(conn.frames, conn.told)'
  BY DEF ChartsInv, Chained, Published
<1>3. Answered(market)' /\ Answered(forced)'
  BY DEF ChartsInv, Answered, Published
<1>4. UpToDate'
  BY DEF ChartsInv, UpToDate, Told
<1>5. MemoriesAgree'
  BY DEF ChartsInv, MemoriesAgree, Agreed, ChartIsOfItsVersion, Heard
<1>6. QED
  BY <1>1, <1>2, <1>3, <1>4, <1>5 DEF ChartsInv

(* A stream that opens is told what the panel holds.                               *)
LEMMA ConnectionKeeps ==
    ASSUME ChartsInv, conn' = NewConn \/ conn' = Nothing,
           UNCHANGED <<quoteAt, chartVer, cache, shown, market, forced, history>>
    PROVE  ChartsInv'
<1> USE BoundsAreNumbers DEF history
<1>1. conn' # Nothing => /\ conn' \in Connections /\ conn'.told = cache.ver /\ conn'.due
                         /\ conn'.frames = <<>>
  <2>1. cache.ver \in Nat /\ <<>> \in Seq(Frame)
    BY DEF ChartsInv, ChartsTypeOK
  <2>2. NewConn = [told |-> cache.ver, due |-> TRUE, frames |-> <<>>]
    BY DEF NewConn
  <2>3. NewConn \in Connections
    BY <2>1, <2>2 DEF Connections
  <2>4. NewConn.told = cache.ver /\ NewConn.due /\ NewConn.frames = <<>>
    BY <2>2
  <2>5. CASE conn' = NewConn
    BY <2>3, <2>4, <2>5
  <2>6. QED
    BY <2>5
<1>2. Len(<<>>) = 0 /\ 1..0 = {} /\ 2..0 = {}
  OBVIOUS
<1>3. ChartsTypeOK'
  BY <1>1 DEF ChartsInv, ChartsTypeOK
<1>4. /\ shown' # Nothing => Published(shown.at)'
      /\ conn' # Nothing => Chained(conn.frames, conn.told)'
  BY <1>1, <1>2 DEF ChartsInv, Chained, Published
<1>5. Answered(market)' /\ Answered(forced)'
  BY DEF ChartsInv, Answered, Published
<1>6. UpToDate'
  BY <1>1 DEF UpToDate, Told
<1>7. MemoriesAgree'
  BY <1>1 DEF ChartsInv, MemoriesAgree, Agreed, ChartIsOfItsVersion, Heard
<1>8. QED
  BY <1>3, <1>4, <1>5, <1>6, <1>7 DEF ChartsInv

(* A request names what the panel holds.                                           *)
LEMMA AskingKeeps ==
    ASSUME ChartsInv, UNCHANGED <<quoteAt, chartVer, conn, cache, shown, history>>,
           market' \in {market, Asked}, forced' \in {forced, Asked}
    PROVE  ChartsInv'
<1> USE DEF history
<1>1. /\ Asked \in Requests /\ Asked.cv = cache.ver /\ Asked.answer = Nothing
  BY DEF Asked, Requests, ChartsInv, ChartsTypeOK
<1> HIDE DEF Asked
<1>2. ChartsTypeOK'
  BY <1>1 DEF ChartsInv, ChartsTypeOK
<1>3. /\ shown' # Nothing => Published(shown.at)'
      /\ conn' # Nothing => Chained(conn.frames, conn.told)'
  BY DEF ChartsInv, Chained, Published
<1>4. Answered(market)' /\ Answered(forced)'
  BY <1>1 DEF ChartsInv, Answered, Published
<1>5. UpToDate'
  BY <1>1 DEF ChartsInv, UpToDate, Told
<1>6. MemoriesAgree'
  BY <1>1 DEF ChartsInv, MemoriesAgree, Agreed, ChartIsOfItsVersion, Heard
<1>7. QED
  BY <1>2, <1>3, <1>4, <1>5, <1>6 DEF ChartsInv

(* An answer is of the chart as it is, for the version the request named.          *)
LEMMA ReplyIsRight ==
    ASSUME ChartsInv, NEW request, request # Nothing, request \in Requests
    PROVE  /\ Replied(request) \in Requests
           /\ Replied(request).cv = request.cv
           /\ Replied(request).current = request.current
           /\ Replied(request).answer.ver = chartVer
           /\ Published(Replied(request).answer.at)
           /\ Replied(request).answer.same => Replied(request).answer.ver = request.cv
<1> USE BoundsAreNumbers
<1> DEFINE f == Reply(request.cv)
<1>1. /\ f \in Frame /\ f.at = quoteAt /\ f.ver = chartVer
      /\ f.same => request.cv = chartVer
  BY DEF Reply, Frame, ChartsInv, ChartsTypeOK
<1> HIDE DEF f
<1>2. /\ Replied(request) \in Requests /\ Replied(request).answer = f
      /\ Replied(request).cv = request.cv /\ Replied(request).current = request.current
  BY <1>1 DEF Replied, Requests, f
<1>3. Published(f.at)
  BY <1>1 DEF Published, ChartsInv, ChartsTypeOK
<1>4. QED
  BY <1>1, <1>2, <1>3

LEMMA AnsweringKeeps == ASSUME ChartsInv, QuotesAnswered PROVE ChartsInv'
<1> USE DEF history
<1>1. UNCHANGED <<quoteAt, chartVer, conn, cache, shown, withdrawn, strayed>>
  BY DEF QuotesAnswered
<1>2. /\ market # Nothing => market \in Requests
      /\ forced # Nothing => forced \in Requests
  BY DEF ChartsInv, ChartsTypeOK
<1>3. /\ shown' # Nothing => Published(shown.at)'
      /\ conn' # Nothing => Chained(conn.frames, conn.told)'
  BY <1>1 DEF ChartsInv, Chained, Published
<1>4. CASE market # Nothing /\ market' = Replied(market) /\ UNCHANGED forced
  <2>1. /\ market' \in Requests /\ market'.cv = market.cv /\ market'.current = market.current
        /\ market'.answer.ver = chartVer /\ Published(market'.answer.at)
        /\ market'.answer.same => market'.answer.ver = market.cv
    BY <1>2, <1>4, ReplyIsRight
  <2>2. ChartsTypeOK'
    BY <1>1, <1>4, <2>1 DEF ChartsInv, ChartsTypeOK
  <2>3. Answered(market)' /\ Answered(forced)'
    BY <1>1, <1>4, <2>1 DEF ChartsInv, Answered, Published
  <2>4. UpToDate'
    BY <1>1, <2>1 DEF ChartsInv, UpToDate, Told
  <2>5. MemoriesAgree'
    BY <1>1, <1>4, <2>1 DEF ChartsInv, MemoriesAgree, Agreed, ChartIsOfItsVersion, Heard
  <2>6. QED
    BY <1>3, <2>2, <2>3, <2>4, <2>5 DEF ChartsInv
<1>5. CASE forced # Nothing /\ forced' = Replied(forced) /\ UNCHANGED market
  <2>1. /\ forced' \in Requests /\ forced'.cv = forced.cv /\ Published(forced'.answer.at)
        /\ forced'.answer.same => forced'.answer.ver = forced.cv
    BY <1>2, <1>5, ReplyIsRight
  <2>2. ChartsTypeOK'
    BY <1>1, <1>5, <2>1 DEF ChartsInv, ChartsTypeOK
  <2>3. Answered(market)' /\ Answered(forced)'
    BY <1>1, <1>5, <2>1 DEF ChartsInv, Answered, Published
  <2>4. UpToDate' /\ MemoriesAgree'
    BY <1>1, <1>5 DEF ChartsInv, UpToDate, Told, MemoriesAgree, Agreed, ChartIsOfItsVersion, Heard
  <2>5. QED
    BY <1>3, <2>2, <2>3, <2>4 DEF ChartsInv
<1>6. QED
  BY <1>4, <1>5 DEF QuotesAnswered, Unanswered
-----------------------------------------------------------------------------
(* An answer that is not late is about the chart the panel holds, and brings the   *)
(* chart the stream sent last.                                                       *)
LEMMA AnswerKeeps ==
    ASSUME ChartsInv, NEW f \in Frame, Published(f.at), ApplyQuote(f),
           UNCHANGED <<quoteAt, chartVer, conn, withdrawn>>, strayed' \in BOOLEAN,
           market' \in {market, Nothing}, forced' \in {forced, Nothing},
           ~strayed' =>
              /\ ~strayed
              /\ Newer(f) => /\ f.same => f.ver = cache.ver
                             /\ market' = Nothing
                             /\ conn # Nothing => conn.frames = <<>> /\ f.ver = conn.told
    PROVE  ChartsInv'
<1>1. /\ cache' \in [ver : Nat, last : Nat]
      /\ shown' # Nothing => shown' \in Quotes /\ Published(shown'.at)
      /\ ~Newer(f) => UNCHANGED <<cache, shown>>
  BY ApplyIsTyped
<1>2. ChartsTypeOK'
  BY <1>1 DEF ChartsInv, ChartsTypeOK
<1>3. /\ shown' # Nothing => Published(shown.at)'
      /\ conn' # Nothing => Chained(conn.frames, conn.told)'
  BY <1>1 DEF ChartsInv, Chained, Published
<1>4. Answered(market)' /\ Answered(forced)'
  BY DEF ChartsInv, Answered, Published
<1>5. UpToDate'
  BY DEF ChartsInv, UpToDate, Told
<1>6. MemoriesAgree'
  <2> SUFFICES ASSUME ~strayed' PROVE MemoriesAgree'
    BY DEF MemoriesAgree
  <2>1. /\ Agreed
        /\ market # Nothing => (market.current => market.cv = cache.ver)
        /\ conn # Nothing => Heard(conn.frames, conn.told)
    BY DEF ChartsInv, MemoriesAgree
  <2>2. CASE Newer(f)
    <3>1. Agreed' /\ cache'.ver = f.ver /\ market' = Nothing
      BY <2>1, <2>2, ApplyKeepsAgreement
    <3>2. conn # Nothing => Heard(conn.frames, conn.told)'
      BY <2>2, <3>1 DEF Heard
    <3>3. QED
      BY <3>1, <3>2 DEF MemoriesAgree
  <2>3. CASE ~Newer(f)
    BY <1>1, <2>1, <2>3 DEF MemoriesAgree, Agreed, ChartIsOfItsVersion, Heard
  <2>4. QED
    BY <2>2, <2>3
<1>7. QED
  BY <1>2, <1>3, <1>4, <1>5, <1>6 DEF ChartsInv

\* A snapshot that counts is of the chart the stream sent last, unless it meets it.
LEMMA SnapshotIsRight ==
    ASSUME ChartsInv, MarketArrives, market.current
    PROVE  /\ market # Nothing /\ market' = Nothing /\ market.answer # Nothing
           /\ market.answer \in Frame /\ Published(market.answer.at)
           /\ ApplyQuote(market.answer) /\ strayed' \in BOOLEAN
           /\ UNCHANGED <<quoteAt, chartVer, conn, forced, withdrawn>>
           /\ ~strayed' =>
                 /\ ~strayed
                 /\ Newer(market.answer) =>
                       /\ market.answer.same => market.answer.ver = cache.ver
                       /\ conn # Nothing => conn.frames = <<>> /\ market.answer.ver = conn.told
<1>1. /\ market # Nothing /\ market \in Requests /\ market.answer # Nothing
      /\ market.answer \in Frame /\ Published(market.answer.at)
      /\ market.answer.same => market.answer.ver = market.cv
      /\ market' = Nothing /\ UNCHANGED <<quoteAt, chartVer, conn, forced, withdrawn>>
  BY DEF MarketArrives, ChartsInv, ChartsTypeOK, Answered, Requests
<1>2. /\ ApplyQuote(market.answer)
      /\ strayed' = (strayed \/ (Newer(market.answer) /\ Meets(market.answer)))
  BY DEF MarketArrives
<1>3. strayed' \in BOOLEAN
  BY <1>2 DEF ChartsInv, ChartsTypeOK
<1>4. ASSUME ~strayed', Newer(market.answer), conn # Nothing
      PROVE  conn.frames = <<>> /\ market.answer.ver = conn.told
  <2>1. conn.frames = <<>> /\ (conn.due => market.answer.ver = conn.told)
    BY <1>2, <1>4 DEF Meets
  <2>2. ~conn.due => conn.told = chartVer /\ market.answer.ver = chartVer
    BY <1>1, <1>4, <2>1 DEF ChartsInv, UpToDate, Told
  <2>3. QED
    BY <2>1, <2>2
<1>5. ~strayed' => ~strayed /\ market.cv = cache.ver
  BY <1>1, <1>2 DEF ChartsInv, MemoriesAgree
<1>6. QED
  BY <1>1, <1>2, <1>3, <1>4, <1>5

LEMMA MarketKeeps == ASSUME ChartsInv, MarketArrives PROVE ChartsInv'
<1>1. CASE market.current
  BY <1>1, SnapshotIsRight, AnswerKeeps
<1>2. CASE ~market.current
  <2>1. /\ UNCHANGED <<quoteAt, chartVer, conn, cache, shown, history, forced>>
        /\ market' = Nothing
    BY <1>2 DEF MarketArrives, history
  <2>2. QED
    BY <2>1, QuietKeeps
<1>3. QED
  BY <1>1, <1>2

LEMMA ForcedIsRight ==
    ASSUME ChartsInv, ForcedArrives
    PROVE  /\ forced.answer \in Frame /\ Published(forced.answer.at)
           /\ ApplyQuote(forced.answer) /\ strayed' \in BOOLEAN
           /\ forced' = Nothing /\ UNCHANGED <<quoteAt, chartVer, conn, market, withdrawn>>
           /\ ~strayed' =>
                 /\ ~strayed
                 /\ Newer(forced.answer) =>
                       /\ forced.answer.same => forced.answer.ver = cache.ver
                       /\ market = Nothing
                       /\ conn # Nothing => conn.frames = <<>> /\ forced.answer.ver = conn.told
<1>1. /\ forced # Nothing /\ forced \in Requests /\ forced.answer # Nothing
      /\ forced.answer \in Frame /\ Published(forced.answer.at)
      /\ forced.answer.same => forced.answer.ver = forced.cv
      /\ forced' = Nothing /\ UNCHANGED <<quoteAt, chartVer, conn, market, withdrawn>>
      /\ ApplyQuote(forced.answer)
      /\ strayed' = (strayed \/ (Newer(forced.answer) /\ Late(forced)))
  BY DEF ForcedArrives, ChartsInv, ChartsTypeOK, Answered, Requests
<1>2. strayed' \in BOOLEAN
  BY <1>1 DEF ChartsInv, ChartsTypeOK
<1>3. ~Late(forced) => /\ market = Nothing /\ cache.ver = forced.cv
                       /\ conn # Nothing => conn.frames = <<>> /\ forced.answer.ver = conn.told
  BY DEF Late, Meets
<1>4. QED
  BY <1>1, <1>2, <1>3

LEMMA ForcedKeeps == ASSUME ChartsInv, ForcedArrives PROVE ChartsInv'
BY ForcedIsRight, AnswerKeeps
-----------------------------------------------------------------------------
LEMMA StepKeepsChartsInv == ASSUME ChartsInv, [ChartsNext]_panelVars PROVE ChartsInv'
<1>1. CASE Publish
  BY <1>1, PublishKeeps
<1>2. CASE PumpQuote
  BY <1>2, PumpKeeps
<1>3. CASE FrameArrives
  BY <1>3, FrameKeeps
<1>4. CASE ChartsConnect \/ ChartsDisconnect
  BY <1>4, ConnectionKeeps DEF ChartsConnect, ChartsDisconnect
<1>5. CASE PollAsks \/ UserAsks \/ UserForces
  BY <1>5, AskingKeeps DEF PollAsks, UserAsks, UserForces, Ask
<1>6. CASE QuotesAnswered
  BY <1>6, AnsweringKeeps
<1>7. CASE MarketArrives
  BY <1>7, MarketKeeps
<1>8. CASE ForcedArrives
  BY <1>8, ForcedKeeps
<1>9. CASE OtherMessage \/ RequestFails
  BY <1>9, QuietKeeps DEF OtherMessage, RequestFails, chartVars, history
<1>10. CASE UNCHANGED panelVars
  BY <1>10, QuietKeeps DEF panelVars, chartVars, history
<1>11. QED
  BY <1>1, <1>2, <1>3, <1>4, <1>5, <1>6, <1>7, <1>8, <1>9, <1>10 DEF ChartsNext

LEMMA ChartsInvStarts == ChartsInit => ChartsInv
<1> SUFFICES ASSUME ChartsInit PROVE ChartsInv
  OBVIOUS
<1> USE BoundsAreNumbers DEF ChartsInit
<1>1. ChartsTypeOK
  <2>1. 1 \in 1..MaxAt /\ 1 \in 1..MaxVer
    OBVIOUS
  <2>2. QED
    BY <2>1 DEF ChartsTypeOK
<1>2. Answered(market) /\ Answered(forced) /\ UpToDate
  BY DEF Answered, UpToDate, Told
<1>3. MemoriesAgree
  BY DEF MemoriesAgree, Agreed, ChartIsOfItsVersion
<1>4. QED
  BY <1>1, <1>2, <1>3 DEF ChartsInv

(* From the moment the stream brings a chart until one is dropped with a withdrawn    *)
(* price or crossed by an answer, the bars the panel shows and the last of them are    *)
(* of the version its quote names: applyChartVersions() and resolveCharts() agree       *)
(* about what the panel holds, though prices are withdrawn and charts come again.        *)
THEOREM ChartsStayTogether == ChartsSpec => []StreamKeepsChart
<1>1. ChartsInit => ChartsInv
  BY ChartsInvStarts
<1>2. ChartsInv /\ [ChartsNext]_panelVars => ChartsInv'
  BY StepKeepsChartsInv
<1>3. ChartsInv => StreamKeepsChart
  BY DEF ChartsInv, MemoriesAgree, Agreed, StreamKeepsChart
<1>4. QED
  BY <1>1, <1>2, <1>3, PTL DEF ChartsSpec
-----------------------------------------------------------------------------
\* A stream with nothing due has said the newest: its last frame is the quote as it
\* is, or the panel shows it, or what it shows is newer and withdrawn.
LastFrameIsNewest ==
    Told /\ conn.frames # <<>> => conn.frames[Len(conn.frames)].at = quoteAt
ShownIsNewest ==
    Told /\ conn.frames = <<>> =>
        /\ shown # Nothing /\ shown.at >= quoteAt
        /\ ~strayed /\ shown.at = quoteAt => shown.ver = chartVer
SaidTheNewest == LastFrameIsNewest /\ ShownIsNewest

LEMMA PumpSaysTheNewest == ASSUME ChartsInv, PumpQuote PROVE SaidTheNewest'
<1> DEFINE f == Reply(conn.told)
<1>1. /\ conn # Nothing /\ conn.told \in Nat /\ conn.frames \in Seq(Frame)
      /\ UNCHANGED quoteAt
  BY DEF PumpQuote, ChartsInv, ChartsTypeOK, Connections
<1>2. f \in Frame /\ f.at = quoteAt
  BY DEF Reply, Frame, ChartsInv, ChartsTypeOK
<1> HIDE DEF f
<1>3. conn'.frames = Append(conn.frames, f)
  BY DEF PumpQuote, f
<1>4. conn'.frames # <<>> /\ conn'.frames[Len(conn'.frames)] = f
  BY <1>1, <1>2, <1>3
<1>5. QED
  BY <1>1, <1>2, <1>4 DEF SaidTheNewest, LastFrameIsNewest, ShownIsNewest

(* The last frame on its way is applied, unless what is shown is newer still.       *)
LEMMA LastFrameShowsTheNewest ==
    ASSUME ChartsInv, SaidTheNewest, FrameArrives
    PROVE  SaidTheNewest'
<1> DEFINE f == conn.frames[1]
           n == Len(conn.frames)
<1>1. /\ conn # Nothing /\ conn'.told = conn.told /\ conn'.due = conn.due
      /\ n \in Nat \ {0} /\ Len(conn'.frames) = n - 1
      /\ \A i \in 1..(n - 1) : conn'.frames[i] = conn.frames[i + 1]
      /\ (conn.frames = <<>> <=> n = 0) /\ (conn'.frames = <<>> <=> n = 1)
      /\ UNCHANGED <<quoteAt, chartVer>>
      /\ f \in Frame /\ Published(f.at) /\ ApplyQuote(f)
  BY FrameTaken
<1>2. Told => conn.frames[n].at = quoteAt /\ conn.frames[n].ver = chartVer
  BY <1>1 DEF SaidTheNewest, LastFrameIsNewest, ChartsInv, UpToDate, Chained
<1> HIDE DEF n
<1>3. LastFrameIsNewest'
  <2> SUFFICES ASSUME Told, n # 1 PROVE conn'.frames[Len(conn'.frames)].at = quoteAt
    BY <1>1 DEF LastFrameIsNewest, Told
  <2>1. n - 1 \in 1..(n - 1) /\ (n - 1) + 1 = n
    BY <1>1
  <2>2. QED
    BY <1>1, <1>2, <2>1
<1>4. ShownIsNewest'
  <2> SUFFICES ASSUME Told, n = 1
               PROVE  /\ shown' # Nothing /\ shown'.at >= quoteAt
                      /\ shown'.at = quoteAt => shown'.ver = chartVer
    BY <1>1 DEF ShownIsNewest, Told
  <2>1. f.at = quoteAt /\ f.ver = chartVer /\ quoteAt \in Nat
    BY <1>2 DEF ChartsInv, ChartsTypeOK
  <2>2. CASE Newer(f)
    <3>1. shown' # Nothing /\ shown'.at = f.at /\ shown'.ver = f.ver
      BY <1>1, <2>2, ApplyIsTyped
    <3>2. QED
      BY <2>1, <3>1
  <2>3. CASE ~Newer(f)
    <3>1. UNCHANGED shown
      BY <1>1, <2>3, ApplyIsTyped
    <3>2. shown # Nothing /\ shown.at > f.at /\ shown.at \in Nat
      BY <2>1, <2>3 DEF Newer, ChartsInv, ChartsTypeOK, Quotes
    <3>3. QED
      BY <2>1, <3>1, <3>2
  <2>4. QED
    BY <2>2, <2>3
<1>5. QED
  BY <1>3, <1>4 DEF SaidTheNewest

(* An answer never takes the panel back in time; and not to another chart than the  *)
(* stream's, unless it is late.                                                       *)
LEMMA AnswerShowsNoLess ==
    ASSUME ChartsInv, SaidTheNewest, NEW f \in Frame, Published(f.at), ApplyQuote(f),
           UNCHANGED <<quoteAt, chartVer, conn>>,
           ~strayed' => /\ ~strayed
                        /\ Newer(f) => (conn # Nothing => f.ver = conn.told)
    PROVE  SaidTheNewest'
<1>1. LastFrameIsNewest'
  BY DEF SaidTheNewest, LastFrameIsNewest, Told
<1>2. ShownIsNewest'
  <2> SUFFICES ASSUME Told, conn.frames = <<>>
               PROVE  /\ shown' # Nothing /\ shown'.at >= quoteAt
                      /\ ~strayed' /\ shown'.at = quoteAt => shown'.ver = chartVer
    BY DEF ShownIsNewest, Told
  <2>1. /\ shown # Nothing /\ shown.at >= quoteAt /\ shown.at \in Nat /\ quoteAt \in Nat
        /\ ~strayed /\ shown.at = quoteAt => shown.ver = chartVer
        /\ conn.told = chartVer /\ conn # Nothing
    BY DEF SaidTheNewest, ShownIsNewest, ChartsInv, ChartsTypeOK, Quotes, UpToDate, Told
  <2>2. CASE ~Newer(f)
    BY <2>1, <2>2, ApplyIsTyped
  <2>3. CASE Newer(f)
    <3>1. shown' # Nothing /\ shown'.at = f.at /\ shown'.ver = f.ver
      BY <2>3, ApplyIsTyped
    <3>2. f.at >= shown.at /\ f.at \in Nat
      BY <2>1, <2>3, BoundsAreNumbers DEF Newer, Frame
    <3>3. QED
      BY <2>1, <2>3, <3>1, <3>2
  <2>4. QED
    BY <2>2, <2>3
<1>3. QED
  BY <1>1, <1>2 DEF SaidTheNewest

LEMMA AnswersShowNoLess ==
    ASSUME ChartsInv, SaidTheNewest, MarketArrives \/ ForcedArrives
    PROVE  SaidTheNewest'
<1>1. CASE MarketArrives /\ market.current
  BY <1>1, SnapshotIsRight, AnswerShowsNoLess
<1>2. CASE MarketArrives /\ ~market.current
  BY <1>2 DEF MarketArrives, SaidTheNewest, LastFrameIsNewest, ShownIsNewest, Told
<1>3. CASE ForcedArrives
  BY <1>3, ForcedIsRight, AnswerShowsNoLess
<1>4. QED
  BY <1>1, <1>2, <1>3

LEMMA StepSaysTheNewest ==
    ASSUME ChartsInv, SaidTheNewest, [ChartsNext]_panelVars
    PROVE  SaidTheNewest'
<1>1. CASE Publish
  <2>1. ~Told'
    BY <1>1 DEF Publish, Told, ChartsInv, ChartsTypeOK, Connections
  <2>2. QED
    BY <2>1 DEF SaidTheNewest, LastFrameIsNewest, ShownIsNewest
<1>2. CASE PumpQuote
  BY <1>2, PumpSaysTheNewest
<1>3. CASE FrameArrives
  BY <1>3, LastFrameShowsTheNewest
<1>4. CASE ChartsConnect \/ ChartsDisconnect
  <2>1. ~Told'
    BY <1>4 DEF ChartsConnect, ChartsDisconnect, NewConn, Told
  <2>2. QED
    BY <2>1 DEF SaidTheNewest, LastFrameIsNewest, ShownIsNewest
<1>5. CASE UNCHANGED <<quoteAt, chartVer, conn, shown, strayed>>
  BY <1>5 DEF SaidTheNewest, LastFrameIsNewest, ShownIsNewest, Told
<1>6. CASE MarketArrives \/ ForcedArrives
  BY <1>6, AnswersShowNoLess
<1>7. QED
  BY <1>1, <1>2, <1>3, <1>4, <1>5, <1>6
  DEF ChartsNext, panelVars, chartVars, history, PollAsks, UserAsks, UserForces,
      QuotesAnswered, OtherMessage, RequestFails

(* Once a stream has nothing left to say, the panel shows the newest quote, or one    *)
(* that was withdrawn and is newer still, and with the newest quote its newest chart    *)
(* if none strayed: no answer takes back what a frame brought, and what applyQuotes()     *)
(* drops as older is never the newest, except for what was withdrawn.                        *)
THEOREM PanelShowsTheNewest == ChartsSpec => []PanelCatchesUp
<1>1. ChartsInit => ChartsInv /\ SaidTheNewest
  <2>1. ChartsInit => SaidTheNewest
    BY DEF ChartsInit, SaidTheNewest, LastFrameIsNewest, ShownIsNewest, Told
  <2>2. QED
    BY <2>1, ChartsInvStarts
<1>2. (ChartsInv /\ SaidTheNewest) /\ [ChartsNext]_panelVars => (ChartsInv /\ SaidTheNewest)'
  BY StepKeepsChartsInv, StepSaysTheNewest
<1>3. ChartsInv /\ SaidTheNewest => PanelCatchesUp
  <2> SUFFICES ASSUME ChartsInv, SaidTheNewest, CaughtUp PROVE PanelCatchesUp
    BY DEF PanelCatchesUp
  <2>1. /\ shown # Nothing /\ shown.at >= quoteAt
        /\ ~strayed /\ shown.at = quoteAt => shown.ver = chartVer
    BY DEF SaidTheNewest, ShownIsNewest, CaughtUp, Told
  <2>2. shown.at <= quoteAt \/ shown.at <= withdrawn
    BY <2>1 DEF ChartsInv, Published
  <2>3. shown.at \in Nat /\ quoteAt \in Nat
    BY <2>1 DEF ChartsInv, ChartsTypeOK, Quotes
  <2>4. QED
    BY <2>1, <2>2, <2>3 DEF PanelCatchesUp
<1>4. QED
  BY <1>1, <1>2, <1>3, PTL DEF ChartsSpec
-----------------------------------------------------------------------------
(* The minute samples: a message is a reset or a change, and what is shown as     *)
(* current stays whole because nothing after it is missing in what is still to     *)
(* come, be it kept for a load, on the wire, queued or not yet emitted.             *)

Message == [revision : Nat, points : SUBSET Nat]

SamplesTypeOK ==
    /\ revision \in Nat /\ points \in SUBSET Nat
    /\ changed \in {NoSamples} \cup SUBSET (1..MaxRevision)
    /\ channel \in [queued : Message \cup {NoSamples}, wire : Seq(Message)] \cup {NoSamples}
    /\ copy \in Message /\ held \in Seq(Message)
    /\ job \in [answer : Message \cup {NoSamples}] \cup {NoSamples}

\* Nothing is ahead of the server.
Behind(m) == m.revision <= revision
SamplesInPast ==
    /\ revision >= 1 /\ \A p \in points : p <= revision
    /\ Behind(copy) /\ \A n \in DOMAIN held : Behind(held[n])
    /\ channel # NoSamples =>
          /\ \A n \in DOMAIN channel.wire : Behind(channel.wire[n])
          /\ channel.queued # NoSamples => Behind(channel.queued)
    /\ job # NoSamples /\ job.answer # NoSamples => Behind(job.answer)

\* Only the first message of a stream is a reset.
ResetIsFirst ==
    channel # NoSamples =>
        /\ \A n \in DOMAIN channel.wire : n > 1 => channel.wire[n] # Reset
        /\ channel.queued # NoSamples => channel.queued # Reset
WillReset(ch) == ch.wire # <<>> /\ Head(ch.wire) = Reset

WholeCopy(c, pts) == \A p \in pts : p <= c.revision => p \in c.points

\* The points after r come with the first message of the list that reaches them.
Brings(r, list, pts) ==
    \A n \in DOMAIN list : \A p \in pts :
        (/\ r < p /\ p <= list[n].revision
         /\ \A l \in 1..n - 1 : list[l].revision < p) => p \in list[n].points

\* Those that no message of the list reaches are still to be sent.
StillToSend(p, queued, chg) ==
    IF queued # NoSamples /\ p <= queued.revision
    THEN p \in queued.points ELSE chg # NoSamples /\ p \in chg
Leaves(r, list, pts, queued, chg) ==
    \A p \in pts :
        (r < p /\ \A l \in DOMAIN list : list[l].revision < p) => StillToSend(p, queued, chg)

\* After r nothing is missing: in the changes that came already, and in what comes
\* as long as no reset does.
Continues(r, came, pts, ch, chg) ==
    /\ Brings(r, came, pts)
    /\ (ch # NoSamples /\ ~WillReset(ch))
          => Brings(r, came \o ch.wire, pts) /\ Leaves(r, came \o ch.wire, pts, ch.queued, chg)

LoadIsWhole ==
    job # NoSamples /\ job.answer # NoSamples
        => /\ WholeCopy(job.answer, points)
           /\ Continues(job.answer.revision, held, points, channel, changed)
CopyIsWhole ==
    job = NoSamples /\ selected
        => /\ loaded /\ WholeCopy(copy, points)
           /\ Continues(copy.revision, <<>>, points, channel, changed)

SamplesInv ==
    /\ SamplesTypeOK /\ SamplesInPast /\ ResetIsFirst
    /\ job # NoSamples => status = "loading"
    /\ ~broken => LoadIsWhole /\ CopyIsWhole
-----------------------------------------------------------------------------
\* A set of numbers has a least one.
LEMMA LeastNat ==
    ASSUME NEW S \in SUBSET Nat, S # {}
    PROVE  \E x \in S : \A y \in S : x <= y
<1> DEFINE R == {pair \in Nat \X Nat : pair[1] < pair[2]}
<1>1. IsWellFoundedOn(R, Nat)
  BY NatLessThanWellFounded DEF OpToRel
<1> HIDE DEF R
<1>2. PICK x \in S : \A y \in S : <<y, x>> \notin R
  BY <1>1, WFMin
<1>3. \A y \in S : ~(y < x)
  BY <1>2 DEF R
<1> QED
  BY <1>3

\* merge() never takes the copy back.
LEMMA MergedIsMessage ==
    ASSUME NEW into \in Message, NEW m \in Message
    PROVE  /\ Merged(into, m) \in Message
           /\ Merged(into, m).revision >= into.revision
           /\ Merged(into, m).revision >= m.revision
           /\ Merged(into, m).revision = into.revision \/ Merged(into, m).revision = m.revision
           /\ m.revision <= into.revision => Merged(into, m) = into
           /\ ~(m.revision <= into.revision) =>
                 /\ Merged(into, m).revision = m.revision
                 /\ Merged(into, m).points = into.points \cup m.points
BY DEF Merged, Message

\* There is such a function for each number of changes, so that MergedUpTo is it.
MergeSteps(into, list, m, f) ==
    f = [n \in 0..m |-> IF n = 0 THEN into ELSE Merged(f[n - 1], list[n])]

LEMMA MergeStepsExist ==
    ASSUME NEW into \in Message, NEW list \in Seq(Message), NEW m \in 0..Len(list)
    PROVE  \E f \in [0..m -> Message] : MergeSteps(into, list, m, f)
<1> DEFINE bad == {k \in 0..Len(list) : ~ \E f \in [0..k -> Message] : MergeSteps(into, list, k, f)}
<1>1. SUFFICES ASSUME bad # {} PROVE FALSE
  OBVIOUS
<1>2. bad \subseteq Nat
  OBVIOUS
<1>3. PICK k \in bad : \A l \in bad : k <= l
  <2> HIDE DEF bad
  <2> QED
    BY <1>1, <1>2, LeastNat
<1>4. k \in 0..Len(list) /\ ~ \E f \in [0..k -> Message] : MergeSteps(into, list, k, f)
  OBVIOUS
<1>5. k # 0
  <2> SUFFICES ASSUME k = 0 PROVE FALSE
    OBVIOUS
  <2> DEFINE f == [n \in 0..0 |-> into]
  <2>1. f \in [0..0 -> Message] /\ MergeSteps(into, list, 0, f)
    BY DEF MergeSteps
  <2> QED
    BY <2>1, <1>4
<1> DEFINE l == k - 1
<1>6. l \in 0..Len(list) /\ l \in Nat /\ k = l + 1 /\ l < k /\ k \in DOMAIN list
  BY <1>4, <1>5
<1>7. l \notin bad
  BY <1>3, <1>6
<1> HIDE DEF l
<1>8. PICK f \in [0..l -> Message] : MergeSteps(into, list, l, f)
  BY <1>6, <1>7
<1> DEFINE g == [n \in 0..k |-> IF n = k THEN Merged(f[l], list[k]) ELSE f[n]]
<1>9. list[k] \in Message
  BY <1>6
<1>10. \A n \in 0..k : n = k \/ n \in 0..l
  BY <1>6
<1>11. /\ g \in [0..k -> Message] /\ g[k] = Merged(f[l], list[k])
       /\ \A n \in 0..l : g[n] = f[n]
  <2>1. Merged(f[l], list[k]) \in Message
    <3>1. f[l] \in Message
      BY <1>6
    <3> QED
      BY <1>9, <3>1, MergedIsMessage
  <2> QED
    BY <2>1, <1>6, <1>10
<1>12. \A n \in 0..l : f[n] = IF n = 0 THEN into ELSE Merged(f[n - 1], list[n])
  BY <1>8 DEF MergeSteps
<1>13. ASSUME NEW n \in 0..k
       PROVE  g[n] = IF n = 0 THEN into ELSE Merged(g[n - 1], list[n])
  <2>1. CASE n = k
    BY <2>1, <1>5, <1>6, <1>11
  <2>2. CASE n \in 0..l
    <3>1. n # 0 => n - 1 \in 0..l
      BY <2>2, <1>6
    <3> QED
      BY <3>1, <2>2, <1>11, <1>12
  <2> QED
    BY <2>1, <2>2, <1>10
<1>14. g = [n \in 0..k |-> g[n]]
  BY <1>11
<1> HIDE DEF g
<1>15. MergeSteps(into, list, k, g)
  BY <1>13, <1>14 DEF MergeSteps
<1> QED
  BY <1>4, <1>11, <1>15

\* Whatever holds of the answer and is kept by each change holds of the result.
LEMMA MergedStepByStep ==
    ASSUME NEW into \in Message, NEW list \in Seq(Message)
    PROVE  LET f == MergedUpTo(into, list)
           IN /\ f[0] = into /\ Len(list) \in Nat
              /\ \A n \in 1..Len(list) : f[n] = Merged(f[n - 1], list[n])
<1> DEFINE upto == CHOOSE f : f = [n \in 0..Len(list) |->
                                     IF n = 0 THEN into ELSE Merged(f[n - 1], list[n])]
<1>1. Len(list) \in Nat /\ Len(list) \in 0..Len(list)
  OBVIOUS
<1>2. \E f : f = [n \in 0..Len(list) |-> IF n = 0 THEN into ELSE Merged(f[n - 1], list[n])]
  <2>1. PICK f \in [0..Len(list) -> Message] : MergeSteps(into, list, Len(list), f)
    BY <1>1, MergeStepsExist
  <2>2. QED
    BY <2>1 DEF MergeSteps
<1>3. upto = [n \in 0..Len(list) |-> IF n = 0 THEN into ELSE Merged(upto[n - 1], list[n])]
  BY <1>2
<1>4. MergedUpTo(into, list) = upto
  BY DEF MergedUpTo
<1> HIDE DEF upto
<1>5. \A n \in 0..Len(list) : upto[n] = IF n = 0 THEN into ELSE Merged(upto[n - 1], list[n])
  BY <1>3
<1>6. upto[0] = into
  BY <1>1, <1>5
<1>7. \A n \in 1..Len(list) : upto[n] = Merged(upto[n - 1], list[n])
  BY <1>1, <1>5
<1> QED
  BY <1>1, <1>4, <1>6, <1>7

\* A change that is the next one keeps the copy whole, and one that is old leaves it.
LEMMA MergedIsWhole ==
    ASSUME points \in SUBSET Nat, NEW into \in Message, NEW m \in Message, WholeCopy(into, points),
           \A p \in points : into.revision < p /\ p <= m.revision => p \in m.points
    PROVE  WholeCopy(Merged(into, m), points)
<1>1. CASE m.revision <= into.revision
  BY <1>1, MergedIsMessage
<1>2. CASE ~(m.revision <= into.revision)
  <2>1. /\ Merged(into, m).revision = m.revision
        /\ Merged(into, m).points = into.points \cup m.points
    BY <1>2, MergedIsMessage
  <2>2. into.revision \in Nat /\ m.revision \in Nat
    BY DEF Message
  <2> SUFFICES ASSUME NEW p \in points, p <= m.revision PROVE p \in into.points \cup m.points
    BY <2>1 DEF WholeCopy
  <2>3. p \in Nat
    OBVIOUS
  <2> QED
    BY <2>2, <2>3 DEF WholeCopy
<1> QED
  BY <1>1, <1>2

\* The kept changes, merged into the answer of a load.
LEMMA AnswerBecomesWhole ==
    ASSUME SamplesTypeOK, NEW into \in Message, Behind(into),
           \A n \in DOMAIN held : Behind(held[n])
    PROVE  LET c == MergedUpTo(into, held)[Len(held)]
           IN /\ c \in Message /\ Behind(c) /\ into.revision <= c.revision
              /\ \A n \in DOMAIN held : held[n].revision <= c.revision
              /\ WholeCopy(into, points) /\ Brings(into.revision, held, points)
                    => WholeCopy(c, points)
<1> DEFINE f == MergedUpTo(into, held)
           nothingMissing == WholeCopy(into, points) /\ Brings(into.revision, held, points)
           Good(n) == /\ f[n] \in Message /\ Behind(f[n])
                      /\ nothingMissing => WholeCopy(f[n], points)
                      /\ into.revision <= f[n].revision
                      /\ \A l \in 1..n : held[l].revision <= f[n].revision
           bad == {n \in 0..Len(held) : ~Good(n)}
<1>1. /\ f[0] = into /\ Len(held) \in Nat /\ held \in Seq(Message) /\ DOMAIN held = 1..Len(held)
      /\ \A n \in 1..Len(held) : f[n] = Merged(f[n - 1], held[n])
      /\ points \in SUBSET Nat /\ revision \in Nat
  BY MergedStepByStep DEF SamplesTypeOK
<1> HIDE DEF f
<1>2. SUFFICES ASSUME bad # {} PROVE FALSE
  BY <1>1 DEF f
<1>3. bad \subseteq Nat
  OBVIOUS
<1>4. PICK k \in bad : \A l \in bad : k <= l
  <2> HIDE DEF bad
  <2> QED
    BY <1>2, <1>3, LeastNat
<1>5. k \in 0..Len(held) /\ ~Good(k)
  OBVIOUS
<1>6. k # 0
  <2>1. into.revision <= into.revision /\ 1..0 = {}
    BY DEF Message
  <2> QED
    BY <1>1, <1>5, <2>1
<1> DEFINE l == k - 1
<1>7. l \in 0..Len(held) /\ l \in Nat /\ k = l + 1 /\ ~(k <= l) /\ k \in 1..Len(held) /\ k - 1 = l
  BY <1>1, <1>5, <1>6
<1>8. Good(l)
  BY <1>4, <1>7
<1> HIDE DEF l
<1> DEFINE m == held[k]
           before == f[l]
           after == Merged(before, m)
<1>9. m \in Message /\ f[k] = after /\ before \in Message /\ k \in DOMAIN held
  BY <1>1, <1>7, <1>8
<1>10. ASSUME nothingMissing
       PROVE  \A p \in points : before.revision < p /\ p <= m.revision => p \in m.points
  <2> SUFFICES ASSUME NEW p \in points, before.revision < p, p <= m.revision PROVE p \in m.points
    OBVIOUS
  <2>1. p \in Nat /\ before.revision \in Nat /\ into.revision \in Nat
    BY <1>1, <1>9 DEF Message
  <2>2. into.revision < p
    BY <1>8, <2>1
  <2>3. \A i \in 1..k - 1 : held[i].revision < p
    <3> SUFFICES ASSUME NEW i \in 1..l PROVE held[i].revision < p
      BY <1>7
    <3>1. held[i].revision <= before.revision
      BY <1>8
    <3>2. held[i] \in Message
      BY <1>1, <1>7
    <3>3. held[i].revision \in Nat
      BY <3>2 DEF Message
    <3> QED
      BY <2>1, <3>1, <3>3
  <2> QED
    BY <1>9, <1>10, <2>2, <2>3 DEF Brings
<1>11. nothingMissing => WholeCopy(after, points)
  BY <1>1, <1>8, <1>9, <1>10, MergedIsWhole
<1>12. /\ after \in Message /\ after.revision >= before.revision /\ after.revision >= m.revision
       /\ after.revision = before.revision \/ after.revision = m.revision
  BY <1>9, MergedIsMessage
<1>13. after.revision \in Nat /\ before.revision \in Nat /\ m.revision \in Nat /\ into.revision \in Nat
  BY <1>9, <1>12 DEF Message
<1>14. Behind(after)
  BY <1>8, <1>9, <1>12 DEF Behind
<1>15. into.revision <= after.revision
  BY <1>8, <1>12, <1>13
<1>16. ASSUME NEW i \in 1..k PROVE held[i].revision <= after.revision
  <2>1. CASE i = k
    BY <2>1, <1>12, <1>13
  <2>2. CASE i # k
    <3>1. i \in 1..l /\ held[i] \in Message
      BY <1>1, <1>7, <2>2
    <3>2. held[i].revision <= before.revision /\ held[i].revision \in Nat
      BY <1>8, <3>1 DEF Message
    <3> QED
      BY <3>2, <1>12, <1>13
  <2> QED
    BY <2>1, <2>2
<1> QED
  BY <1>5, <1>9, <1>11, <1>12, <1>14, <1>15, <1>16
-----------------------------------------------------------------------------
(* What lists of changes bring.                                              *)

\* The elements of a list of messages.
LEMMA RevisionsAreNumbers ==
    ASSUME NEW list \in Seq(Message)
    PROVE  /\ Len(list) \in Nat /\ DOMAIN list = 1..Len(list)
           /\ \A n \in DOMAIN list : list[n] \in Message /\ list[n].revision \in Nat
<1>1. \A n \in DOMAIN list : list[n] \in Message
  OBVIOUS
<1> QED
  BY <1>1 DEF Message

\* Two lists in a row, element by element.
LEMMA Joining ==
    ASSUME NEW front \in Seq(Message), NEW rest \in Seq(Message)
    PROVE  /\ front \o rest \in Seq(Message) /\ Len(front \o rest) = Len(front) + Len(rest)
           /\ \A n \in 1..Len(front) : (front \o rest)[n] = front[n]
           /\ \A n \in 1..Len(rest) : (front \o rest)[Len(front) + n] = rest[n]
           /\ \A n \in 1..Len(front) + Len(rest) :
                 n \in 1..Len(front) \/ n - Len(front) \in 1..Len(rest)
<1>1. Len(front) \in Nat /\ Len(rest) \in Nat
  OBVIOUS
<1>2. /\ front \o rest \in Seq(Message) /\ Len(front \o rest) = Len(front) + Len(rest)
      /\ \A n \in 1..Len(front) : (front \o rest)[n] = front[n]
  BY <1>1
<1>3. ASSUME NEW n \in 1..Len(rest) PROVE (front \o rest)[Len(front) + n] = rest[n]
  BY <1>1
<1>4. \A n \in 1..Len(front) + Len(rest) :
         n \in 1..Len(front) \/ n - Len(front) \in 1..Len(rest)
  BY <1>1
<1> QED
  BY <1>2, <1>3, <1>4

\* What a list brings, its first part brings.
LEMMA BringsFront ==
    ASSUME NEW front \in Seq(Message), NEW rest \in Seq(Message), NEW pts \in SUBSET Nat,
           NEW r \in Nat, Brings(r, front \o rest, pts)
    PROVE  Brings(r, front, pts)
<1> DEFINE both == front \o rest
<1>1. /\ DOMAIN front = 1..Len(front) /\ Len(front) \in Nat /\ DOMAIN both = 1..Len(both)
      /\ Len(both) = Len(front) + Len(rest) /\ Len(rest) \in Nat
      /\ \A n \in 1..Len(front) : both[n] = front[n]
  BY Joining, RevisionsAreNumbers
<1>2. Brings(r, both, pts)
  OBVIOUS
<1> HIDE DEF both
<1> SUFFICES ASSUME NEW n \in 1..Len(front), NEW p \in pts, r < p, p <= front[n].revision,
                    \A l \in 1..n - 1 : front[l].revision < p
             PROVE  p \in front[n].points
  BY <1>1 DEF Brings
<1>3. n \in DOMAIN both /\ both[n] = front[n]
  BY <1>1
<1>4. \A l \in 1..n - 1 : both[l].revision < p
  <2>1. \A l \in 1..n - 1 : l \in 1..Len(front)
    BY <1>1
  <2> QED
    BY <1>1, <2>1
<1> QED
  BY <1>2, <1>3, <1>4 DEF Brings

\* What has been reached, by the copy or by messages that came, is behind.
LEMMA BringsRest ==
    ASSUME NEW front \in Seq(Message), NEW rest \in Seq(Message), NEW pts \in SUBSET Nat,
           NEW r \in Nat, NEW s \in Nat, r <= s,
           \A n \in DOMAIN front : front[n].revision <= s
    PROVE  /\ Brings(r, front \o rest, pts) => Brings(s, rest, pts)
           /\ \A queued, chg : Leaves(r, front \o rest, pts, queued, chg)
                                  => Leaves(s, rest, pts, queued, chg)
<1> DEFINE both == front \o rest
           k == Len(front)
<1>1. /\ DOMAIN front = 1..k /\ k \in Nat /\ DOMAIN both = 1..Len(both)
      /\ Len(both) = k + Len(rest) /\ Len(rest) \in Nat /\ DOMAIN rest = 1..Len(rest)
      /\ \A n \in 1..k : both[n] = front[n] /\ front[n].revision \in Nat
      /\ \A n \in 1..Len(rest) : both[k + n] = rest[n]
      /\ \A n \in 1..k + Len(rest) : n \in 1..k \/ n - k \in 1..Len(rest)
  BY Joining, RevisionsAreNumbers
<1> HIDE DEF both, k
<1>2. ASSUME NEW p \in pts, s < p, NEW n \in 1..Len(rest) \cup {Len(rest) + 1},
             \A l \in 1..n - 1 : rest[l].revision < p
      PROVE  r < p /\ \A l \in 1..k + n - 1 : both[l].revision < p
  <2>1. p \in Nat /\ n \in Nat
    BY <1>1
  <2>2. r < p
    BY <1>2, <2>1
  <2>3. ASSUME NEW l \in 1..k + n - 1 PROVE both[l].revision < p
    <3>1. CASE l \in 1..k
      <4>1. front[l].revision <= s /\ both[l] = front[l] /\ front[l].revision \in Nat
        BY <1>1, <3>1
      <4> QED
        BY <1>2, <2>1, <4>1
    <3>2. CASE l \notin 1..k
      <4>1. l - k \in 1..n - 1 /\ l - k \in 1..Len(rest) /\ k + (l - k) = l
        BY <1>1, <2>1, <3>2
      <4>2. both[l] = rest[l - k]
        BY <1>1, <4>1
      <4> QED
        BY <1>2, <4>1, <4>2
    <3> QED
      BY <3>1, <3>2
  <2> QED
    BY <2>2, <2>3
<1>3. ASSUME Brings(r, both, pts) PROVE Brings(s, rest, pts)
  <2> SUFFICES ASSUME NEW n \in 1..Len(rest), NEW p \in pts, s < p, p <= rest[n].revision,
                      \A l \in 1..n - 1 : rest[l].revision < p
               PROVE  p \in rest[n].points
    BY <1>1 DEF Brings
  <2>1. r < p /\ \A l \in 1..k + n - 1 : both[l].revision < p
    BY <1>2
  <2> DEFINE i == k + n
  <2>2. i \in DOMAIN both /\ both[i] = rest[n]
    <3>1. k + n \in DOMAIN both
      BY <1>1
    <3>2. both[k + n] = rest[n]
      BY <1>1
    <3> QED
      BY <3>1, <3>2
  <2>3. \A l \in 1..i - 1 : both[l].revision < p
    <3>1. \A l \in 1..k + n - 1 : both[l].revision < p
      BY <2>1
    <3>2. k + n - 1 = i - 1
      BY <1>1
    <3> QED
      BY <3>1, <3>2, Zenon
  <2> HIDE DEF i
  <2>4. p <= both[i].revision
    BY <2>2
  <2>5. p \in both[i].points
    BY <1>3, <2>1, <2>2, <2>3, <2>4 DEF Brings
  <2> QED
    BY <2>2, <2>5
<1>4. ASSUME NEW queued, NEW chg, Leaves(r, both, pts, queued, chg)
      PROVE  Leaves(s, rest, pts, queued, chg)
  <2> SUFFICES ASSUME NEW p \in pts, s < p, \A l \in 1..Len(rest) : rest[l].revision < p
               PROVE  StillToSend(p, queued, chg)
    BY <1>1 DEF Leaves
  <2> DEFINE n == Len(rest) + 1
  <2>1. n \in 1..Len(rest) \cup {Len(rest) + 1} /\ 1..n - 1 = 1..Len(rest)
    BY <1>1
  <2>2. k + n - 1 = Len(both)
    BY <1>1
  <2> HIDE DEF n
  <2>3. r < p /\ \A l \in 1..k + n - 1 : both[l].revision < p
    BY <1>2, <2>1
  <2>4. \A l \in DOMAIN both : both[l].revision < p
    BY <1>1, <2>2, <2>3
  <2> QED
    BY <1>4, <2>3, <2>4 DEF Leaves
<1> QED
  BY <1>3, <1>4 DEF both

\* pump(): what was queued is the next message.
LEMMA BringsQueued ==
    ASSUME NEW list \in Seq(Message), NEW m \in Message, NEW pts \in SUBSET Nat,
           NEW r \in Nat, NEW chg, m # NoSamples,
           Brings(r, list, pts), Leaves(r, list, pts, m, chg)
    PROVE  Brings(r, Append(list, m), pts) /\ Leaves(r, Append(list, m), pts, NoSamples, chg)
<1> DEFINE k == Len(list)
           more == Append(list, m)
<1>1. /\ k \in Nat /\ DOMAIN list = 1..k /\ DOMAIN more = 1..k + 1 /\ more[k + 1] = m
      /\ \A n \in 1..k : more[n] = list[n]
      /\ \A n \in 1..k + 1 : n = k + 1 \/ n \in 1..k
  BY RevisionsAreNumbers
<1> HIDE DEF k, more
<1>2. m.revision \in Nat
  BY DEF Message
<1>3. ASSUME NEW n \in 1..k + 1, NEW p \in pts, r < p, p <= more[n].revision,
             \A l \in 1..n - 1 : more[l].revision < p
      PROVE  p \in more[n].points
  <2>1. CASE n = k + 1
    <3>1. \A l \in 1..k : list[l].revision < p
      <4>1. n - 1 = k
        BY <1>1, <2>1
      <4> QED
        BY <1>1, <1>3, <4>1
    <3>2. StillToSend(p, m, chg)
      BY <1>1, <1>3, <3>1 DEF Leaves
    <3>3. p <= m.revision
      BY <1>1, <1>3, <2>1
    <3> QED
      BY <1>1, <2>1, <3>2, <3>3 DEF StillToSend
  <2>2. CASE n \in 1..k
    <3>1. \A l \in 1..n - 1 : list[l].revision < p
      <4>1. \A l \in 1..n - 1 : l \in 1..k
        BY <1>1, <2>2
      <4> QED
        BY <1>1, <1>3, <4>1
    <3> QED
      BY <1>1, <1>3, <2>2, <3>1 DEF Brings
  <2> QED
    BY <1>1, <2>1, <2>2
<1>4. Brings(r, more, pts)
  BY <1>1, <1>3 DEF Brings
<1>5. ASSUME NEW p \in pts, r < p, \A l \in 1..k + 1 : more[l].revision < p
      PROVE  chg # NoSamples /\ p \in chg
  <2>1. \A l \in 1..k : list[l].revision < p
    <3>1. \A l \in 1..k : l \in 1..k + 1
      BY <1>1
    <3> QED
      BY <1>1, <1>5, <3>1
  <2>2. StillToSend(p, m, chg)
    BY <1>1, <1>5, <2>1 DEF Leaves
  <2>3. ~(p <= m.revision)
    <3>1. m.revision < p /\ p \in Nat
      <4>1. k + 1 \in 1..k + 1
        BY <1>1
      <4> QED
        BY <1>1, <1>5, <4>1
    <3> QED
      BY <1>2, <3>1
  <2> QED
    BY <2>2, <2>3 DEF StillToSend
<1>6. Leaves(r, more, pts, NoSamples, chg)
  BY <1>1, <1>5 DEF Leaves, StillToSend
<1> QED
  BY <1>4, <1>6 DEF more

\* emit(): what has changed joins what is queued.
LEMMA LeavesEmitted ==
    ASSUME NEW list \in Seq(Message), NEW pts \in SUBSET Nat, NEW r \in Nat,
           NEW queued \in Message \cup {NoSamples}, NEW chg \in SUBSET Nat, NEW now \in Nat,
           \A p \in pts : p <= now, Leaves(r, list, pts, queued, chg),
           NEW none
    PROVE  Leaves(r, list, pts, Joined(queued, [revision |-> now, points |-> chg]), none)
<1> DEFINE m == [revision |-> now, points |-> chg]
           next == Joined(queued, m)
<1>1. NoSamples \notin Message
  BY SamplesAssumption DEF Message
<1>2. /\ next \in Message /\ next.revision = now /\ chg \subseteq next.points
      /\ queued # NoSamples => queued.points \subseteq next.points
  BY DEF Joined, Message
<1>3. ASSUME NEW p \in pts, r < p, \A l \in DOMAIN list : list[l].revision < p
      PROVE  p \in next.points
  <2>1. StillToSend(p, queued, chg)
    BY <1>3 DEF Leaves
  <2> QED
    BY <2>1, <1>2 DEF StillToSend
<1> QED
  BY <1>1, <1>2, <1>3 DEF Leaves, StillToSend

\* accept() and touch(): a new point is beyond all that has been said.
LEMMA ContinuesThroughChange ==
    ASSUME SamplesTypeOK, SamplesInPast, NEW new \in SUBSET {revision + 1}, Change(new),
           NEW r \in Nat, NEW came \in Seq(Message), \A n \in DOMAIN came : Behind(came[n]),
           Continues(r, came, points, channel, changed)
    PROVE  Continues(r, came, points', channel', changed')
<1>1. /\ points' = points \cup new /\ channel' = channel
      /\ changed' = (IF changed = NoSamples THEN new ELSE changed \cup new)
  BY DEF Change
<1>2. /\ revision \in Nat /\ points \in SUBSET Nat /\ changed \in {NoSamples} \cup SUBSET (1..MaxRevision)
      /\ NoSamples \notin SUBSET (1..MaxRevision) /\ MaxRevision \in Nat
      /\ new \in SUBSET (1..MaxRevision)
  <2>1. revision \in Nat /\ MaxRevision \in Nat /\ revision < MaxRevision
    BY SamplesAssumption DEF SamplesTypeOK, Change
  <2> QED
    BY <2>1, SamplesAssumption DEF SamplesTypeOK
<1>3. changed' # NoSamples /\ new \subseteq changed' /\ (changed # NoSamples => changed \subseteq changed')
  <2>1. changed' \in SUBSET (1..MaxRevision)
    <3>1. CASE changed = NoSamples
      BY <1>1, <1>2, <3>1
    <3>2. CASE changed # NoSamples
      <4>1. changed' = changed \cup new
        BY <1>1, <3>2, Zenon
      <4>2. changed \in SUBSET (1..MaxRevision)
        BY <1>2, <3>2, Zenon
      <4> QED
        BY <1>2, <4>1, <4>2
    <3> QED
      BY <3>1, <3>2
  <2> QED
    BY <1>1, <1>2, <2>1
<1>4. ASSUME NEW list \in Seq(Message), \A n \in DOMAIN list : Behind(list[n]),
             Brings(r, list, points)
      PROVE  Brings(r, list, points')
  <2> SUFFICES ASSUME NEW n \in DOMAIN list, NEW p \in points', r < p, p <= list[n].revision,
                      \A l \in 1..n - 1 : list[l].revision < p
               PROVE  p \in list[n].points
    BY DEF Brings
  <2>1. list[n].revision \in Nat /\ list[n].revision <= revision
    BY <1>4, RevisionsAreNumbers DEF Behind
  <2>2. p # revision + 1
    BY <1>2, <2>1
  <2>3. p \in points
    BY <1>1, <2>2
  <2> QED
    BY <1>4, <2>3 DEF Brings
<1>5. ASSUME channel # NoSamples, ~WillReset(channel)
      PROVE  /\ Brings(r, came \o channel.wire, points')
             /\ Leaves(r, came \o channel.wire, points', channel.queued, changed')
  <2> DEFINE list == came \o channel.wire
  <2>1. /\ channel.wire \in Seq(Message) /\ channel.queued \in Message \cup {NoSamples}
        /\ \A n \in DOMAIN channel.wire : Behind(channel.wire[n])
        /\ channel.queued # NoSamples => Behind(channel.queued)
    BY <1>5 DEF SamplesTypeOK, SamplesInPast
  <2>2. /\ list \in Seq(Message) /\ DOMAIN list = 1..Len(list)
        /\ Len(list) = Len(came) + Len(channel.wire)
        /\ \A n \in 1..Len(came) : list[n] = came[n]
        /\ \A n \in 1..Len(channel.wire) : list[Len(came) + n] = channel.wire[n]
        /\ \A n \in 1..Len(came) + Len(channel.wire) :
              n \in 1..Len(came) \/ n - Len(came) \in 1..Len(channel.wire)
        /\ Len(came) \in Nat /\ DOMAIN came = 1..Len(came)
        /\ DOMAIN channel.wire = 1..Len(channel.wire)
    BY <2>1, Joining, RevisionsAreNumbers
  <2>3. Brings(r, list, points) /\ Leaves(r, list, points, channel.queued, changed)
    BY <1>5 DEF Continues
  <2> HIDE DEF list
  <2>4. ASSUME NEW n \in DOMAIN list PROVE Behind(list[n])
    <3>1. CASE n \in 1..Len(came)
      BY <2>2, <3>1
    <3>2. CASE n - Len(came) \in 1..Len(channel.wire)
      <4>1. Len(came) + (n - Len(came)) = n
        BY <2>2
      <4>2. list[n] = channel.wire[n - Len(came)]
        BY <2>2, <3>2, <4>1
      <4> QED
        BY <2>1, <2>2, <3>2, <4>2
    <3> QED
      BY <2>2, <3>1, <3>2
  <2>5. Brings(r, list, points')
    BY <1>4, <2>2, <2>3, <2>4
  <2>6. ASSUME NEW p \in points', r < p, \A l \in DOMAIN list : list[l].revision < p
        PROVE  StillToSend(p, channel.queued, changed')
    <3>1. CASE p \in points
      <4>1. StillToSend(p, channel.queued, changed)
        BY <2>3, <2>6, <3>1 DEF Leaves
      <4> QED
        BY <1>3, <4>1 DEF StillToSend
    <3>2. CASE p \in new
      <4>1. channel.queued # NoSamples => ~(p <= channel.queued.revision)
        <5>1. SUFFICES ASSUME channel.queued # NoSamples PROVE ~(p <= channel.queued.revision)
          OBVIOUS
        <5>2. channel.queued.revision \in Nat /\ channel.queued.revision <= revision
          BY <2>1, <5>1 DEF Message, Behind
        <5>3. p = revision + 1
          BY <3>2
        <5> QED
          BY <1>2, <5>2, <5>3
      <4> QED
        BY <1>3, <3>2, <4>1 DEF StillToSend
    <3> QED
      BY <1>1, <3>1, <3>2
  <2>7. Leaves(r, list, points', channel.queued, changed')
    BY <2>6 DEF Leaves
  <2> QED
    BY <2>5, <2>7 DEF list
<1>6. Brings(r, came, points')
  BY <1>4 DEF Continues
<1> QED
  BY <1>1, <1>5, <1>6 DEF Continues
-----------------------------------------------------------------------------
(* The steps.                                                                *)

\* A new point is beyond every copy and message there is.
LEMMA ChangeKeeps ==
    ASSUME SamplesInv, NEW new \in SUBSET {revision + 1}, Change(new)
    PROVE  SamplesInv'
<1>1. /\ revision' = revision + 1 /\ points' = points \cup new /\ channel' = channel
      /\ changed' = (IF changed = NoSamples THEN new ELSE changed \cup new)
      /\ copy' = copy /\ status' = status /\ loaded' = loaded /\ job' = job /\ held' = held
      /\ selected' = selected /\ broken' = broken
  BY DEF Change
<1>2. SamplesTypeOK /\ SamplesInPast /\ ResetIsFirst
  BY DEF SamplesInv
<1>3. revision \in Nat /\ points \in SUBSET Nat /\ new \in SUBSET Nat
  BY <1>2 DEF SamplesTypeOK
<1>4. \A m \in Message : Behind(m) => Behind(m)' /\ m.revision <= revision + 1
  <2>1. \A m \in Message : m.revision \in Nat
    BY DEF Message
  <2> QED
    BY <1>1, <1>3, <2>1 DEF Behind
<1>5. SamplesTypeOK'
  <2>1. changed' \in {NoSamples} \cup SUBSET (1..MaxRevision)
    <3> new \in SUBSET (1..MaxRevision)
      BY <1>3, SamplesAssumption DEF Change
    <3>1. CASE changed = NoSamples
      BY <1>1, <3>1
    <3>2. CASE changed # NoSamples
      <4>1. changed' = changed \cup new /\ changed \in SUBSET (1..MaxRevision)
        BY <1>1, <1>2, <3>2, Zenon DEF SamplesTypeOK
      <4> QED
        BY <4>1
    <3> QED
      BY <3>1, <3>2
  <2>2. revision' \in Nat /\ points' \in SUBSET Nat
    BY <1>1, <1>3
  <2> QED
    BY <1>1, <1>2, <2>1, <2>2 DEF SamplesTypeOK
<1>6. SamplesInPast'
  <2>1. revision' >= 1
    BY <1>1, <1>3
  <2>2. \A p \in points' : p <= revision'
    <3>1. \A p \in points : p \in Nat /\ p <= revision
      BY <1>2, <1>3 DEF SamplesInPast
    <3> QED
      BY <1>1, <1>3, <3>1
  <2>3. copy \in Message /\ \A n \in DOMAIN held : held[n] \in Message
    BY <1>2, RevisionsAreNumbers DEF SamplesTypeOK
  <2>4. channel # NoSamples =>
           /\ \A n \in DOMAIN channel.wire : channel.wire[n] \in Message
           /\ channel.queued # NoSamples => channel.queued \in Message
    <3>1. SUFFICES ASSUME channel # NoSamples
                   PROVE  /\ \A n \in DOMAIN channel.wire : channel.wire[n] \in Message
                          /\ channel.queued # NoSamples => channel.queued \in Message
      OBVIOUS
    <3>2. channel.wire \in Seq(Message) /\ channel.queued \in Message \cup {NoSamples}
      BY <1>2, <3>1 DEF SamplesTypeOK
    <3> QED
      BY <3>2, RevisionsAreNumbers
  <2>5. job # NoSamples /\ job.answer # NoSamples => job.answer \in Message
    BY <1>2 DEF SamplesTypeOK
  <2>6. /\ Behind(copy) /\ \A n \in DOMAIN held : Behind(held[n])
        /\ channel # NoSamples =>
              /\ \A n \in DOMAIN channel.wire : Behind(channel.wire[n])
              /\ channel.queued # NoSamples => Behind(channel.queued)
        /\ job # NoSamples /\ job.answer # NoSamples => Behind(job.answer)
    BY <1>2 DEF SamplesInPast
  <2>7. \A m \in Message : m.revision <= revision => m.revision <= revision'
    BY <1>1, <1>4 DEF Behind
  <2> QED
    BY <1>1, <2>1, <2>2, <2>3, <2>4, <2>5, <2>6, <2>7 DEF SamplesInPast, Behind
<1>7. ResetIsFirst'
  BY <1>1, <1>2 DEF ResetIsFirst
<1>8. ASSUME NEW c \in Message, WholeCopy(c, points), Behind(c)
      PROVE  WholeCopy(c, points')
  <2>1. c.revision \in Nat /\ c.revision <= revision
    BY <1>8 DEF Message, Behind
  <2>2. \A p \in new : ~(p <= c.revision)
    <3>1. \A p \in new : p = revision + 1
      OBVIOUS
    <3> QED
      BY <1>3, <2>1, <3>1
  <2> QED
    BY <1>1, <1>8, <2>2 DEF WholeCopy
<1>9. ASSUME ~broken PROVE LoadIsWhole' /\ CopyIsWhole'
  <2>1. LoadIsWhole /\ CopyIsWhole
    BY <1>9 DEF SamplesInv
  <2>2. ASSUME job # NoSamples, job.answer # NoSamples
        PROVE  /\ WholeCopy(job.answer, points')
               /\ Continues(job.answer.revision, held, points', channel', changed')
    <3>1. /\ job.answer \in Message /\ job.answer.revision \in Nat /\ Behind(job.answer)
          /\ held \in Seq(Message) /\ \A n \in DOMAIN held : Behind(held[n])
      BY <1>2, <2>2 DEF SamplesTypeOK, SamplesInPast, Message
    <3>2. Continues(job.answer.revision, held, points, channel, changed)
      BY <2>1, <2>2 DEF LoadIsWhole
    <3>3. Continues(job.answer.revision, held, points', channel', changed')
      BY <1>2, <3>1, <3>2, ContinuesThroughChange
    <3> QED
      BY <1>8, <2>1, <2>2, <3>1, <3>3 DEF LoadIsWhole
  <2>3. ASSUME job = NoSamples, selected
        PROVE  /\ loaded /\ WholeCopy(copy, points')
               /\ Continues(copy.revision, <<>>, points', channel', changed')
    <3>1. copy \in Message /\ copy.revision \in Nat /\ Behind(copy)
      BY <1>2 DEF SamplesTypeOK, SamplesInPast, Message
    <3>2. <<>> \in Seq(Message) /\ \A n \in DOMAIN <<>> : Behind(<<>>[n])
      OBVIOUS
    <3>3. Continues(copy.revision, <<>>, points, channel, changed)
      BY <2>1, <2>3 DEF CopyIsWhole
    <3>4. Continues(copy.revision, <<>>, points', channel', changed')
      BY <1>2, <3>1, <3>2, <3>3, ContinuesThroughChange
    <3> QED
      BY <1>8, <2>1, <2>3, <3>1, <3>4 DEF CopyIsWhole
  <2> QED
    BY <1>1, <2>2, <2>3 DEF LoadIsWhole, CopyIsWhole
<1>10. job # NoSamples => status = "loading"
  BY DEF SamplesInv
<1> QED
  BY <1>1, <1>5, <1>6, <1>7, <1>9, <1>10 DEF SamplesInv

\* Steps of the stream alone: what is to come still continues what there is.
LEMMA StreamKeeps ==
    ASSUME SamplesInv, SamplesTypeOK', SamplesInPast', ResetIsFirst',
           UNCHANGED <<revision, points, copy, status, loaded, job, held, selected, broken>>,
           \A r \in Nat, came \in Seq(Message) :
              Continues(r, came, points, channel, changed)
                 => Continues(r, came, points, channel', changed')
    PROVE  SamplesInv'
<1>1. /\ points' = points /\ copy' = copy /\ status' = status /\ loaded' = loaded
      /\ job' = job /\ held' = held /\ selected' = selected /\ broken' = broken
  OBVIOUS
<1>2. /\ held \in Seq(Message) /\ copy.revision \in Nat /\ <<>> \in Seq(Message)
      /\ job # NoSamples /\ job.answer # NoSamples => job.answer.revision \in Nat
  BY DEF SamplesInv, SamplesTypeOK, Message
<1>3. ASSUME ~broken PROVE LoadIsWhole' /\ CopyIsWhole'
  <2>1. LoadIsWhole /\ CopyIsWhole
    BY <1>3 DEF SamplesInv
  <2>2. LoadIsWhole'
    <3>1. SUFFICES ASSUME job # NoSamples, job.answer # NoSamples
                   PROVE  Continues(job.answer.revision, held, points, channel', changed')
      BY <1>1, <2>1 DEF LoadIsWhole
    <3>2. Continues(job.answer.revision, held, points, channel, changed)
      BY <2>1, <3>1 DEF LoadIsWhole
    <3> QED
      BY <1>2, <3>1, <3>2
  <2>3. CopyIsWhole'
    <3>1. SUFFICES ASSUME job = NoSamples, selected
                   PROVE  Continues(copy.revision, <<>>, points, channel', changed')
      BY <1>1, <2>1 DEF CopyIsWhole
    <3>2. Continues(copy.revision, <<>>, points, channel, changed)
      BY <2>1, <3>1 DEF CopyIsWhole
    <3> QED
      BY <1>2, <3>2
  <2> QED
    BY <2>2, <2>3
<1>4. job # NoSamples => status = "loading"
  BY DEF SamplesInv
<1> QED
  BY <1>1, <1>3, <1>4 DEF SamplesInv

\* The open stream under the invariant.
LEMMA ChannelIsTyped ==
    ASSUME SamplesInv, channel # NoSamples
    PROVE  /\ channel \in [queued : Message \cup {NoSamples}, wire : Seq(Message)]
           /\ channel.wire \in Seq(Message) /\ channel.queued \in Message \cup {NoSamples}
           /\ \A n \in DOMAIN channel.wire : Behind(channel.wire[n])
           /\ channel.queued # NoSamples => Behind(channel.queued) /\ channel.queued # Reset
           /\ \A n \in DOMAIN channel.wire : n > 1 => channel.wire[n] # Reset
BY DEF SamplesInv, SamplesTypeOK, SamplesInPast, ResetIsFirst

\* Points move from what has changed to what is queued.
LEMMA EmitKeeps == ASSUME SamplesInv, Emit PROVE SamplesInv'
<1>1. /\ changed # NoSamples /\ changed' = NoSamples
      /\ UNCHANGED <<revision, points, copy, status, loaded, job, held, selected, broken>>
  BY DEF Emit
<1>2. SamplesTypeOK /\ SamplesInPast /\ ResetIsFirst
  BY DEF SamplesInv
<1>3. CASE channel = NoSamples
  <2>1. channel' = channel
    BY <1>3 DEF Emit
  <2>2. SamplesTypeOK' /\ SamplesInPast' /\ ResetIsFirst'
    BY <1>1, <1>2, <2>1 DEF SamplesTypeOK, SamplesInPast, ResetIsFirst, Behind
  <2>3. \A r \in Nat, came \in Seq(Message) :
           Continues(r, came, points, channel, changed)
              => Continues(r, came, points, channel', changed')
    BY <1>3, <2>1 DEF Continues
  <2> QED
    BY <1>1, <2>2, <2>3, StreamKeeps
<1>4. CASE channel # NoSamples
  <2> DEFINE m == [revision |-> revision, points |-> changed]
             next == Joined(channel.queued, m)
  <2>1. channel' = [channel EXCEPT !.queued = next]
    BY <1>4 DEF Emit
  <2>2. /\ channel \in [queued : Message \cup {NoSamples}, wire : Seq(Message)]
        /\ channel.queued \in Message \cup {NoSamples}
        /\ changed \in SUBSET (1..MaxRevision) /\ changed \in SUBSET Nat /\ revision \in Nat
        /\ revision >= 1
        /\ \A p \in points : p <= revision
        /\ points \in SUBSET Nat
    BY <1>1, <1>2, <1>4, ChannelIsTyped DEF SamplesTypeOK, SamplesInPast
  <2>3. next \in Message /\ next.revision = revision /\ next # Reset
    <3>1. next \in Message /\ next.revision = revision
      BY <2>2 DEF Joined, Message
    <3>2. Reset.revision = 0 /\ revision # 0
      BY <2>2 DEF Reset
    <3> QED
      BY <3>1, <3>2
  <2> HIDE DEF next
  <2>4. /\ channel' \in [queued : Message \cup {NoSamples}, wire : Seq(Message)]
        /\ channel'.wire = channel.wire /\ channel'.queued = next
    BY <2>1, <2>2, <2>3
  <2>5. SamplesTypeOK'
    BY <1>1, <1>2, <2>4 DEF SamplesTypeOK
  <2>6. SamplesInPast' /\ ResetIsFirst'
    <3>1. revision' = revision /\ next.revision <= revision
      BY <1>1, <2>2, <2>3
    <3> QED
      BY <1>1, <1>2, <1>4, <2>3, <2>4, <3>1 DEF SamplesInPast, ResetIsFirst, Behind
  <2>7. ASSUME NEW r \in Nat, NEW came \in Seq(Message),
               Continues(r, came, points, channel, changed)
        PROVE  Continues(r, came, points, channel', changed')
    <3>1. WillReset(channel') = WillReset(channel)
      BY <2>4 DEF WillReset
    <3>2. ASSUME ~WillReset(channel)
          PROVE  Leaves(r, came \o channel.wire, points, next, changed')
      <4>1. Leaves(r, came \o channel.wire, points, channel.queued, changed)
        BY <1>4, <2>7, <3>2 DEF Continues
      <4>2. came \o channel.wire \in Seq(Message)
        BY <2>2, Joining
      <4> QED
        BY <2>2, <4>1, <4>2, LeavesEmitted DEF next
    <3> QED
      BY <1>4, <2>4, <2>7, <3>1, <3>2 DEF Continues
  <2> QED
    BY <1>1, <2>5, <2>6, <2>7, StreamKeeps
<1> QED
  BY <1>3, <1>4

\* The queued message moves to the end of the wire.
LEMMA PumpSamplesKeeps == ASSUME SamplesInv, PumpSamples PROVE SamplesInv'
<1> DEFINE m == channel.queued
           wire == channel.wire
<1>1. /\ channel # NoSamples /\ m # NoSamples
      /\ channel' = [queued |-> NoSamples, wire |-> Append(wire, m)]
      /\ changed' = changed
      /\ UNCHANGED <<revision, points, copy, status, loaded, job, held, selected, broken>>
  BY DEF PumpSamples
<1>2. SamplesTypeOK /\ SamplesInPast /\ ResetIsFirst
  BY DEF SamplesInv
<1>3. /\ wire \in Seq(Message) /\ m \in Message /\ Behind(m) /\ m # Reset
      /\ \A n \in DOMAIN wire : Behind(wire[n]) /\ (n > 1 => wire[n] # Reset)
      /\ points \in SUBSET Nat /\ Len(wire) \in Nat /\ DOMAIN wire = 1..Len(wire)
  BY <1>1, <1>2, ChannelIsTyped, RevisionsAreNumbers DEF SamplesTypeOK
<1> HIDE DEF m, wire
<1>4. /\ channel'.queued = NoSamples /\ channel'.wire = Append(wire, m)
      /\ channel' \in [queued : Message \cup {NoSamples}, wire : Seq(Message)]
  BY <1>1, <1>3
<1>5. SamplesTypeOK'
  BY <1>1, <1>2, <1>4 DEF SamplesTypeOK
<1>6. /\ \A n \in DOMAIN Append(wire, m) : /\ Behind(Append(wire, m)[n])
                                           /\ n > 1 => Append(wire, m)[n] # Reset
  <2> SUFFICES ASSUME NEW n \in 1..Len(wire) + 1
               PROVE  Behind(Append(wire, m)[n]) /\ (n > 1 => Append(wire, m)[n] # Reset)
    BY <1>3
  <2>1. CASE n = Len(wire) + 1
    BY <1>3, <2>1
  <2>2. CASE n # Len(wire) + 1
    <3>1. n \in DOMAIN wire /\ Append(wire, m)[n] = wire[n]
      BY <1>3, <2>2
    <3> QED
      BY <1>3, <3>1
  <2> QED
    BY <2>1, <2>2
<1>7. SamplesInPast' /\ ResetIsFirst'
  BY <1>1, <1>2, <1>4, <1>6 DEF SamplesInPast, ResetIsFirst, Behind
<1>8. WillReset(channel) => WillReset(channel')
  <2>1. SUFFICES ASSUME wire # <<>>, Head(wire) = Reset PROVE Head(Append(wire, m)) = Reset
    BY <1>3, <1>4 DEF WillReset, wire
  <2> QED
    BY <1>3, <2>1
<1>9. ASSUME NEW r \in Nat, NEW came \in Seq(Message),
             Continues(r, came, points, channel, changed)
      PROVE  Continues(r, came, points, channel', changed')
  <2>1. Brings(r, came, points)
    BY <1>9 DEF Continues
  <2>2. ASSUME ~WillReset(channel)
        PROVE  /\ Brings(r, came \o channel'.wire, points)
               /\ Leaves(r, came \o channel'.wire, points, channel'.queued, changed')
    <3>1. Brings(r, came \o wire, points) /\ Leaves(r, came \o wire, points, m, changed)
      BY <1>1, <1>9, <2>2 DEF Continues, wire, m
    <3>2. came \o wire \in Seq(Message)
      BY <1>3, Joining
    <3>3. came \o Append(wire, m) = Append(came \o wire, m)
      BY <1>3
    <3> DEFINE list == came \o wire
    <3> HIDE DEF list
    <3>4. Brings(r, Append(list, m), points) /\ Leaves(r, Append(list, m), points, NoSamples, changed)
      BY <1>1, <1>3, <3>1, <3>2, BringsQueued DEF list, m
    <3> QED
      BY <1>1, <1>4, <3>3, <3>4 DEF list
  <2>3. ~WillReset(channel') => ~WillReset(channel)
    BY <1>8
  <2> QED
    BY <2>1, <2>2, <2>3 DEF Continues
<1> QED
  BY <1>1, <1>5, <1>7, <1>9, StreamKeeps

\* The first message of the stream has come.
LEMMA MessageTaken ==
    ASSUME SamplesInv, channel # NoSamples, channel.wire # <<>>,
           channel' = [channel EXCEPT !.wire = Tail(@)]
    PROVE  LET m == Head(channel.wire)
               rest == Tail(channel.wire)
           IN /\ channel' \in [queued : Message \cup {NoSamples}, wire : Seq(Message)]
              /\ channel'.wire = rest /\ channel'.queued = channel.queued /\ rest \in Seq(Message)
              /\ m \in Message /\ Behind(m) /\ m = channel.wire[1]
              /\ \A n \in DOMAIN rest : Behind(rest[n]) /\ rest[n] # Reset
              /\ ~WillReset(channel')
              /\ \A came \in Seq(Message) : Append(came, m) \o rest = came \o channel.wire
<1> DEFINE wire == channel.wire
           rest == Tail(wire)
           m == Head(wire)
<1>1. /\ channel \in [queued : Message \cup {NoSamples}, wire : Seq(Message)]
      /\ wire \in Seq(Message) /\ wire # <<>>
      /\ \A n \in DOMAIN wire : Behind(wire[n])
      /\ \A n \in DOMAIN wire : n > 1 => wire[n] # Reset
  BY ChannelIsTyped
<1>2. channel'.wire = rest /\ channel'.queued = channel.queued
  BY <1>1
<1> HIDE DEF wire
<1>3. /\ rest \in Seq(Message) /\ m \in Message /\ m = wire[1] /\ 1 \in DOMAIN wire
      /\ Len(wire) \in Nat /\ Len(wire) >= 1 /\ DOMAIN wire = 1..Len(wire)
      /\ Len(rest) = Len(wire) - 1 /\ DOMAIN rest = 1..Len(rest)
      /\ \A n \in 1..Len(rest) : rest[n] = wire[n + 1]
  BY <1>1
<1>4. channel' \in [queued : Message \cup {NoSamples}, wire : Seq(Message)]
  BY <1>1, <1>2, <1>3 DEF wire
<1>5. Behind(m)
  BY <1>1, <1>3
<1>6. ASSUME NEW n \in DOMAIN rest PROVE Behind(rest[n]) /\ rest[n] # Reset
  <2>1. n + 1 \in DOMAIN wire /\ n + 1 > 1 /\ rest[n] = wire[n + 1]
    BY <1>3
  <2> QED
    BY <1>1, <2>1
<1>7. ~WillReset(channel')
  <2>1. SUFFICES ASSUME rest # <<>> PROVE Head(rest) # Reset
    BY <1>2 DEF WillReset
  <2>2. 1 \in DOMAIN rest /\ Head(rest) = rest[1]
    BY <1>3, <2>1
  <2> QED
    BY <1>6, <2>2
<1>8. ASSUME NEW came \in Seq(Message) PROVE Append(came, m) \o rest = came \o wire
  <2> HIDE DEF rest, m
  <2>1. Append(came, m) \in Seq(Message) /\ Append(came, m) \o rest \in Seq(Message)
        /\ came \o wire \in Seq(Message)
    BY <1>1, <1>3, Joining
  <2>2. /\ Len(came) \in Nat /\ Len(Append(came, m)) = Len(came) + 1
        /\ \A n \in 1..Len(came) : Append(came, m)[n] = came[n]
        /\ Append(came, m)[Len(came) + 1] = m
    BY <1>3
  <2>3. Len(Append(came, m) \o rest) = Len(came) + Len(wire)
        /\ Len(came \o wire) = Len(came) + Len(wire)
    <3> DEFINE a == Len(came)
               b == Len(wire)
    <3>1. /\ Len(Append(came, m) \o rest) = Len(Append(came, m)) + Len(rest)
          /\ Len(came \o wire) = a + b
      BY <1>1, <1>3, <2>1, Joining
    <3>2. Len(Append(came, m)) = a + 1 /\ Len(rest) = b - 1 /\ a \in Nat /\ b \in Nat
      BY <1>3, <2>2
    <3> HIDE DEF a, b
    <3>3. (a + 1) + (b - 1) = a + b
      BY <3>2
    <3> QED
      BY <3>1, <3>2, <3>3 DEF a, b
  <2>4. ASSUME NEW n \in 1..Len(came) + Len(wire)
        PROVE  (Append(came, m) \o rest)[n] = (came \o wire)[n]
    <3>1. CASE n \in 1..Len(came)
      <4>1. (came \o wire)[n] = came[n]
        BY <1>1, <3>1, Joining
      <4>2. n \in 1..Len(Append(came, m))
        BY <2>2, <3>1
      <4>3. (Append(came, m) \o rest)[n] = Append(came, m)[n]
        BY <1>3, <2>1, <4>2, Joining
      <4> QED
        BY <2>2, <3>1, <4>1, <4>3
    <3>2. CASE n = Len(came) + 1
      <4>1. (came \o wire)[n] = wire[1]
        BY <1>1, <1>3, <3>2, Joining
      <4>2. n \in 1..Len(Append(came, m))
        BY <2>2, <3>2
      <4>3. (Append(came, m) \o rest)[n] = Append(came, m)[n]
        BY <1>3, <2>1, <4>2, Joining
      <4> QED
        BY <1>3, <2>2, <3>2, <4>1, <4>3
    <3>3. CASE n > Len(came) + 1
      <4> DEFINE k == n - (Len(came) + 1)
      <4>1. k \in 1..Len(rest) /\ k + 1 \in 1..Len(wire) /\ n = Len(Append(came, m)) + k
            /\ n = Len(came) + (k + 1)
        <5> DEFINE a == Len(came)
                   b == Len(wire)
        <5>1. /\ a \in Nat /\ b \in Nat /\ n \in 1..a + b /\ n > a + 1 /\ Len(rest) = b - 1
              /\ Len(Append(came, m)) = a + 1 /\ k = n - (a + 1)
          BY <1>3, <2>2, <3>3
        <5> HIDE DEF a, b, k
        <5>2. n \in Nat /\ n <= a + b /\ k \in Nat
          BY <5>1
        <5>3. n = (a + 1) + k /\ n = a + (k + 1)
          BY <5>1, <5>2
        <5>4. k >= 1 /\ k <= b - 1
          BY <5>1, <5>2
        <5>5. k \in 1..b - 1 /\ k + 1 \in 1..b
          BY <5>1, <5>2, <5>4
        <5> QED
          BY <5>1, <5>3, <5>5 DEF a, b
      <4> HIDE DEF k
      <4>2. (came \o wire)[n] = wire[k + 1]
        BY <1>1, <4>1, Joining
      <4>3. (Append(came, m) \o rest)[n] = rest[k]
        <5> DEFINE longer == Append(came, m)
        <5>1. /\ longer \in Seq(Message) /\ rest \in Seq(Message)
              /\ k \in 1..Len(rest) /\ n = Len(longer) + k
          BY <1>3, <2>1, <4>1
        <5> HIDE DEF longer
        <5>2. (longer \o rest)[Len(longer) + k] = rest[k]
          BY <5>1, Joining
        <5> QED
          BY <5>1, <5>2 DEF longer
      <4> QED
        BY <1>3, <4>1, <4>2, <4>3
    <3> QED
      BY <1>3, <2>2, <3>1, <3>2, <3>3
  <2> DEFINE one == Append(came, m) \o rest
             other == came \o wire
  <2>5. one \in Seq(Message) /\ other \in Seq(Message) /\ Len(one) = Len(other)
        /\ \A n \in 1..Len(one) : one[n] = other[n]
    BY <2>1, <2>3, <2>4
  <2> HIDE DEF one, other
  <2>6. one = other
    BY <2>5, SeqEqual
  <2> QED
    BY <2>6 DEF one, other
<1> QED
  BY <1>2, <1>3, <1>4, <1>5, <1>6, <1>7, <1>8 DEF wire

\* A list of changes that are kept, the oldest of too many dropped.
LEMMA KeptIsTyped ==
    ASSUME NEW list \in Seq(Message), \A n \in DOMAIN list : Behind(list[n])
    PROVE  Kept(list) \in Seq(Message) /\ \A n \in DOMAIN Kept(list) : Behind(Kept(list)[n])
<1>1. CASE Len(list) > MaxPending
  <2>1. Len(list) \in Nat /\ Len(list) > 0
    BY <1>1, SamplesAssumption
  <2>2. /\ Tail(list) \in Seq(Message) /\ DOMAIN Tail(list) = 1..Len(list) - 1
        /\ \A n \in 1..Len(list) - 1 : Tail(list)[n] = list[n + 1] /\ n + 1 \in DOMAIN list
    BY <2>1
  <2> QED
    BY <1>1, <2>2 DEF Kept
<1>2. CASE ~(Len(list) > MaxPending)
  BY <1>2 DEF Kept
<1> QED
  BY <1>1, <1>2

\* A reset gives the load up; a change is kept, merged or dropped.
LEMMA MessageArrivesKeeps == ASSUME SamplesInv, MessageArrives PROVE SamplesInv'
<1> DEFINE wire == channel.wire
           m == Head(channel.wire)
           rest == Tail(channel.wire)
<1>1. /\ channel # NoSamples /\ channel.wire # <<>> /\ channel' = [channel EXCEPT !.wire = Tail(@)]
      /\ UNCHANGED <<revision, points, changed, loaded, selected>>
      /\ IF m = Reset THEN ResetArrives ELSE ApplyChange(m) /\ UNCHANGED job
  BY DEF MessageArrives
<1>2. /\ channel' \in [queued : Message \cup {NoSamples}, wire : Seq(Message)]
      /\ channel'.wire = rest /\ channel'.queued = channel.queued /\ rest \in Seq(Message)
      /\ m \in Message /\ Behind(m) /\ m = wire[1]
      /\ \A n \in DOMAIN rest : Behind(rest[n]) /\ rest[n] # Reset
      /\ ~WillReset(channel')
      /\ \A came \in Seq(Message) : Append(came, m) \o rest = came \o wire
  BY <1>1, MessageTaken
<1>3. /\ wire \in Seq(Message) /\ m \in Message /\ channel.queued \in Message \cup {NoSamples}
      /\ channel.queued # NoSamples => Behind(channel.queued) /\ channel.queued # Reset
  BY <1>1, <1>2, ChannelIsTyped
<1>4. SamplesTypeOK /\ SamplesInPast /\ ResetIsFirst
  BY DEF SamplesInv
<1> HIDE DEF wire, m, rest
<1>5. m # Reset => ~WillReset(channel)
  BY DEF WillReset, m
<1>6. ResetIsFirst'
  BY <1>2, <1>3 DEF ResetIsFirst
<1>7. /\ channel' # NoSamples =>
         /\ \A n \in DOMAIN channel'.wire : channel'.wire[n].revision <= revision'
         /\ channel'.queued # NoSamples => channel'.queued.revision <= revision'
      /\ revision' >= 1 /\ \A p \in points' : p <= revision'
  BY <1>1, <1>2, <1>3, <1>4 DEF Behind, SamplesInPast
<1>8. revision' \in Nat /\ points' \in SUBSET Nat /\ changed' \in {NoSamples} \cup SUBSET (1..MaxRevision)
  BY <1>1, <1>4 DEF SamplesTypeOK
<1>9. /\ copy \in Message /\ held \in Seq(Message) /\ Behind(copy)
      /\ \A n \in DOMAIN held : Behind(held[n])
      /\ job \in [answer : Message \cup {NoSamples}] \cup {NoSamples}
      /\ job # NoSamples /\ job.answer # NoSamples => Behind(job.answer)
      /\ points \in SUBSET Nat /\ revision \in Nat
  BY <1>4 DEF SamplesTypeOK, SamplesInPast
<1>10. \* what the step leaves to show
       ASSUME /\ copy' \in Message /\ Behind(copy')
              /\ held' \in Seq(Message) /\ \A n \in DOMAIN held' : Behind(held'[n])
              /\ job' \in [answer : Message \cup {NoSamples}] \cup {NoSamples}
              /\ job' # NoSamples /\ job'.answer # NoSamples => Behind(job'.answer)
              /\ job' # NoSamples => status' = "loading"
              /\ ~broken' => LoadIsWhole' /\ CopyIsWhole'
       PROVE  SamplesInv'
  <2>1. SamplesTypeOK'
    BY <1>2, <1>8, <1>10 DEF SamplesTypeOK
  <2>2. SamplesInPast'
    BY <1>1, <1>7, <1>10 DEF SamplesInPast, Behind
  <2> QED
    BY <1>6, <1>10, <2>1, <2>2 DEF SamplesInv
<1>11. CASE m = Reset
  <2> DEFINE begun == [answer |-> NoSamples]
  <2>1. /\ held' = <<>> /\ copy' = copy /\ broken' = broken
        /\ IF selected THEN job' = begun /\ status' = "loading" ELSE job' = NoSamples
    BY <1>1, <1>11 DEF ResetArrives
  <2>2. begun \in [answer : Message \cup {NoSamples}] /\ begun # NoSamples /\ begun.answer = NoSamples
    BY SamplesAssumption
  <2> HIDE DEF begun
  <2>3. (job' = begun /\ status' = "loading") \/ (job' = NoSamples /\ ~selected')
    BY <1>1, <2>1
  <2>4. LoadIsWhole' /\ CopyIsWhole'
    BY <2>2, <2>3 DEF LoadIsWhole, CopyIsWhole
  <2>5. <<>> \in Seq(Message) /\ DOMAIN <<>> = {}
    OBVIOUS
  <2> QED
    BY <1>9, <1>10, <2>1, <2>2, <2>3, <2>4, <2>5
<1>12. CASE m # Reset /\ job # NoSamples
  <2>1. /\ held' = Kept(Append(held, m)) /\ copy' = copy /\ status' = status /\ job' = job
        /\ broken' = (broken \/ Len(held) >= MaxPending)
    BY <1>1, <1>12 DEF ApplyChange
  <2> DEFINE more == Append(held, m)
  <2>2. /\ more \in Seq(Message) /\ \A n \in DOMAIN more : Behind(more[n])
        /\ Len(held) \in Nat /\ Len(more) = Len(held) + 1
    <3>1. /\ more \in Seq(Message) /\ Len(held) \in Nat /\ Len(more) = Len(held) + 1
          /\ DOMAIN held = 1..Len(held) /\ DOMAIN more = 1..Len(held) + 1
          /\ \A n \in 1..Len(held) : more[n] = held[n]
          /\ more[Len(held) + 1] = m
          /\ \A n \in 1..Len(held) + 1 : n \in 1..Len(held) \/ n = Len(held) + 1
      BY <1>2, <1>9
    <3> HIDE DEF more
    <3> QED
      BY <1>2, <1>9, <3>1
  <2> HIDE DEF more
  <2>3. held' \in Seq(Message) /\ \A n \in DOMAIN held' : Behind(held'[n])
    BY <2>1, <2>2, KeptIsTyped DEF more
  <2>4. ASSUME ~broken' PROVE LoadIsWhole' /\ CopyIsWhole'
    <3>1. ~broken /\ held' = more
      <4>1. ~broken /\ ~(Len(held) >= MaxPending)
        BY <2>1, <2>4
      <4> QED
        BY <2>1, <2>2, <4>1, SamplesAssumption DEF Kept, more
    <3>2. LoadIsWhole
      BY <3>1 DEF SamplesInv
    <3>3. CopyIsWhole'
      BY <1>12, <2>1 DEF CopyIsWhole
    <3>4. SUFFICES ASSUME job.answer # NoSamples
                   PROVE  /\ WholeCopy(job.answer, points)
                          /\ Continues(job.answer.revision, more, points, channel', changed')
      BY <1>1, <2>1, <3>1, <3>3 DEF LoadIsWhole
    <3> DEFINE r == job.answer.revision
    <3>5. r \in Nat
      BY <1>9, <1>12, <3>4 DEF Message
    <3>6. WholeCopy(job.answer, points) /\ Continues(r, held, points, channel, changed)
      BY <1>12, <3>2, <3>4 DEF LoadIsWhole
    <3> HIDE DEF r
    <3>7. Brings(r, held \o wire, points) /\ Leaves(r, held \o wire, points, channel.queued, changed)
      BY <1>1, <1>5, <1>12, <3>6 DEF Continues, wire
    <3>8. held \o wire = more \o rest
      BY <1>2, <1>9 DEF more
    <3>9. Brings(r, more, points)
      BY <1>2, <1>9, <2>2, <3>5, <3>7, <3>8, BringsFront
    <3> QED
      BY <1>1, <1>2, <3>6, <3>7, <3>8, <3>9 DEF Continues, r
  <2>5. job # NoSamples => status = "loading"
    BY DEF SamplesInv
  <2>6. Behind(copy') /\ (job' # NoSamples /\ job'.answer # NoSamples => Behind(job'.answer))
    BY <1>9, <2>1
  <2> QED
    BY <1>9, <1>10, <2>1, <2>3, <2>4, <2>5, <2>6
<1>13. CASE m # Reset /\ job = NoSamples
  <2>1. /\ held' = held /\ broken' = broken /\ job' = job
        /\ IF loaded /\ m.revision > copy.revision THEN copy' = Merged(copy, m) ELSE copy' = copy
    BY <1>1, <1>13 DEF ApplyChange
  <2>2. /\ copy.revision \in Nat /\ m.revision \in Nat
        /\ Merged(copy, m) \in Message /\ copy.revision <= Merged(copy, m).revision
        /\ m.revision <= Merged(copy, m).revision
        /\ m.revision <= copy.revision => Merged(copy, m) = copy
        /\ Merged(copy, m).revision = copy.revision \/ Merged(copy, m).revision = m.revision
    <3>1. copy.revision \in Nat /\ m.revision \in Nat /\ Merged(copy, m).revision \in Nat
      BY <1>2, <1>9, MergedIsMessage DEF Message
    <3> QED
      BY <1>2, <1>9, <3>1, MergedIsMessage
  <2>3. loaded => copy' = Merged(copy, m)
    BY <2>1, <2>2
  <2>4. copy' \in Message /\ Behind(copy')
    BY <1>2, <1>9, <2>1, <2>2 DEF Behind
  <2>5. ASSUME ~broken', selected
        PROVE  /\ loaded /\ WholeCopy(copy', points)
               /\ Continues(copy'.revision, <<>>, points, channel', changed')
    <3> DEFINE r == copy.revision
               s == Merged(copy, m).revision
               front == <<m>>
    <3>1. CopyIsWhole
      BY <2>1, <2>5 DEF SamplesInv
    <3>2. loaded /\ WholeCopy(copy, points) /\ Continues(r, <<>>, points, channel, changed)
      BY <1>13, <2>5, <3>1 DEF CopyIsWhole
    <3>3. /\ Brings(r, <<>> \o wire, points)
          /\ Leaves(r, <<>> \o wire, points, channel.queued, changed)
      BY <1>1, <1>5, <1>13, <3>2 DEF Continues, wire
    <3>4. /\ <<>> \o wire = front \o rest /\ front \in Seq(Message) /\ DOMAIN front = 1..1
          /\ front[1] = m
      <4>1. Append(<<>>, m) = front
        OBVIOUS
      <4>2. <<>> \in Seq(Message)
        OBVIOUS
      <4>3. front \in Seq(Message) /\ DOMAIN front = 1..1 /\ front[1] = m
        BY <1>2
      <4>4. Append(<<>>, m) \o rest = <<>> \o wire
        <5> HIDE DEF front
        <5> QED
          BY <1>2, <4>2
      <4> QED
        BY <4>1, <4>3, <4>4
    <3>5. r \in Nat /\ s \in Nat /\ r <= s /\ m.revision <= s
      BY <2>2 DEF Message
    <3> HIDE DEF front
    <3>6. Brings(r, front, points)
      BY <1>2, <1>9, <3>3, <3>4, <3>5, BringsFront
    <3>7. \A p \in points : r < p /\ p <= m.revision => p \in m.points
      <4>1. 1 \in DOMAIN front /\ 1..1 - 1 = {}
        BY <3>4
      <4> QED
        BY <3>4, <3>6, <4>1 DEF Brings
    <3>8. WholeCopy(copy', points)
      BY <1>2, <1>9, <2>3, <3>2, <3>7, MergedIsWhole
    <3>9. \A n \in DOMAIN front : front[n].revision <= s
      BY <3>4, <3>5
    <3> HIDE DEF r, s
    <3>10. Brings(s, rest, points) /\ Leaves(s, rest, points, channel.queued, changed)
      BY <1>2, <1>9, <3>3, <3>4, <3>5, <3>9, BringsRest
    <3>11. <<>> \o rest = rest
      BY <1>2
    <3>12. Brings(s, <<>>, points)
      BY DEF Brings
    <3> QED
      BY <1>1, <1>2, <2>3, <3>2, <3>8, <3>10, <3>11, <3>12 DEF Continues, s
  <2>6. ~broken' => LoadIsWhole' /\ CopyIsWhole'
    BY <1>1, <1>13, <2>1, <2>5 DEF LoadIsWhole, CopyIsWhole
  <2> QED
    BY <1>9, <1>10, <1>13, <2>1, <2>4, <2>6
<1> QED
  BY <1>11, <1>12, <1>13

\* A new stream promises nothing but its reset.
LEMMA SamplesConnectKeeps == ASSUME SamplesInv, SamplesConnect PROVE SamplesInv'
<1>1. /\ channel' = [queued |-> NoSamples, wire |-> <<Reset>>]
      /\ UNCHANGED <<revision, points, changed, copy, status, loaded, job, held, selected, broken>>
  BY DEF SamplesConnect
<1>2. SamplesTypeOK /\ SamplesInPast
  BY DEF SamplesInv
<1>3. /\ Reset \in Message /\ Reset.revision = 0
      /\ <<Reset>> \in Seq(Message) /\ DOMAIN <<Reset>> = 1..1 /\ <<Reset>>[1] = Reset
      /\ <<Reset>> # <<>> /\ Head(<<Reset>>) = Reset
  BY DEF Reset, Message
<1>4. /\ channel' \in [queued : Message \cup {NoSamples}, wire : Seq(Message)]
      /\ channel'.wire = <<Reset>> /\ channel'.queued = NoSamples
  BY <1>1, <1>3
<1>5. SamplesTypeOK'
  BY <1>1, <1>2, <1>4 DEF SamplesTypeOK
<1>6. SamplesInPast' /\ ResetIsFirst'
  <2>1. \A n \in DOMAIN channel'.wire : n = 1 /\ channel'.wire[n] = Reset
    BY <1>3, <1>4
  <2>2. revision >= 1
    BY <1>2 DEF SamplesInPast
  <2>3. \A n \in DOMAIN channel'.wire : channel'.wire[n].revision <= revision
    BY <1>2, <1>3, <2>1, <2>2 DEF SamplesTypeOK
  <2> QED
    BY <1>1, <1>2, <1>4, <2>1, <2>3 DEF SamplesInPast, ResetIsFirst, Behind
<1>7. WillReset(channel')
  BY <1>3, <1>4 DEF WillReset
<1>8. \A r \in Nat, came \in Seq(Message) :
         Continues(r, came, points, channel, changed)
            => Continues(r, came, points, channel', changed')
  BY <1>7 DEF Continues
<1> QED
  BY <1>1, <1>5, <1>6, <1>8, StreamKeeps

\* Without a stream nothing is to come.
LEMMA SamplesDisconnectKeeps == ASSUME SamplesInv, SamplesDisconnect PROVE SamplesInv'
<1>1. /\ channel' = NoSamples
      /\ UNCHANGED <<revision, points, changed, copy, status, loaded, job, held, selected, broken>>
  BY DEF SamplesDisconnect
<1>2. SamplesTypeOK /\ SamplesInPast
  BY DEF SamplesInv
<1>3. SamplesTypeOK' /\ SamplesInPast' /\ ResetIsFirst'
  BY <1>1, <1>2 DEF SamplesTypeOK, SamplesInPast, ResetIsFirst, Behind
<1>4. \A r \in Nat, came \in Seq(Message) :
         Continues(r, came, points, channel, changed)
            => Continues(r, came, points, channel', changed')
  BY <1>1 DEF Continues
<1> QED
  BY <1>1, <1>3, <1>4, StreamKeeps

\* Steps of the panel alone.
LEMMA PanelStepKeeps ==
    ASSUME SamplesInv, UNCHANGED <<revision, points, changed, channel>>,
           copy' \in Message, Behind(copy'),
           held' \in Seq(Message), \A n \in DOMAIN held' : Behind(held'[n]),
           job' \in [answer : Message \cup {NoSamples}] \cup {NoSamples},
           job' # NoSamples /\ job'.answer # NoSamples => Behind(job'.answer),
           job' # NoSamples => status' = "loading",
           ~broken' => LoadIsWhole' /\ CopyIsWhole'
    PROVE  SamplesInv'
<1>1. revision' = revision /\ points' = points /\ changed' = changed /\ channel' = channel
  OBVIOUS
<1>2. SamplesTypeOK /\ SamplesInPast /\ ResetIsFirst
  BY DEF SamplesInv
<1>3. SamplesTypeOK'
  BY <1>1, <1>2 DEF SamplesTypeOK
<1>4. SamplesInPast'
  BY <1>1, <1>2 DEF SamplesInPast, Behind
<1>5. ResetIsFirst'
  BY <1>1, <1>2 DEF ResetIsFirst
<1> QED
  BY <1>3, <1>4, <1>5 DEF SamplesInv

\* The panel's side under the invariant.
LEMMA PanelIsTyped ==
    ASSUME SamplesInv
    PROVE  /\ copy \in Message /\ Behind(copy) /\ copy.revision \in Nat
           /\ held \in Seq(Message) /\ \A n \in DOMAIN held : Behind(held[n])
           /\ job \in [answer : Message \cup {NoSamples}] \cup {NoSamples}
           /\ job # NoSamples /\ job.answer # NoSamples => Behind(job.answer)
           /\ job # NoSamples => status = "loading"
           /\ points \in SUBSET Nat /\ revision \in Nat /\ \A p \in points : p <= revision
           /\ channel # NoSamples => /\ channel.wire \in Seq(Message)
                                     /\ channel.queued \in Message \cup {NoSamples}
<1>1. SamplesTypeOK /\ SamplesInPast /\ (job # NoSamples => status = "loading")
  BY DEF SamplesInv
<1>2. channel # NoSamples => /\ channel.wire \in Seq(Message)
                             /\ channel.queued \in Message \cup {NoSamples}
  BY ChannelIsTyped
<1>3. copy.revision \in Nat
  BY <1>1 DEF SamplesTypeOK, Message
<1> QED
  BY <1>1, <1>2, <1>3 DEF SamplesTypeOK, SamplesInPast

\* A load is shared, or begins without an answer.
LEMMA ReloadKeeps == ASSUME SamplesInv, Reload PROVE SamplesInv'
<1>1. /\ UNCHANGED <<revision, points, changed, channel, copy, loaded, broken>>
      /\ selected' = TRUE /\ Load
  BY DEF Reload
<1>2. CASE job # NoSamples
  <2>1. job' = job /\ held' = held /\ status' = status
    BY <1>1, <1>2 DEF Load
  <2>2. ~broken' => LoadIsWhole' /\ CopyIsWhole'
    BY <1>1, <1>2, <2>1 DEF SamplesInv, LoadIsWhole, CopyIsWhole
  <2>3. Behind(copy') /\ (job' # NoSamples /\ job'.answer # NoSamples => Behind(job'.answer))
    BY <1>1, <2>1, PanelIsTyped
  <2> QED
    BY <1>1, <2>1, <2>2, <2>3, PanelIsTyped, PanelStepKeeps
<1>3. CASE job = NoSamples
  <2> DEFINE begun == [answer |-> NoSamples]
  <2>1. job' = begun /\ held' = <<>> /\ status' = "loading"
    BY <1>1, <1>3 DEF Load
  <2>2. begun \in [answer : Message \cup {NoSamples}] /\ begun # NoSamples /\ begun.answer = NoSamples
    BY SamplesAssumption
  <2> HIDE DEF begun
  <2>3. LoadIsWhole' /\ CopyIsWhole'
    BY <2>1, <2>2 DEF LoadIsWhole, CopyIsWhole
  <2>4. <<>> \in Seq(Message) /\ \A n \in DOMAIN <<>> : Behind(<<>>[n])
    OBVIOUS
  <2>5. Behind(copy') /\ copy' \in Message
    BY <1>1, PanelIsTyped
  <2>6. job' # NoSamples /\ job'.answer # NoSamples => Behind(job'.answer)
    BY <2>1, <2>2
  <2>7. held' \in Seq(Message) /\ \A n \in DOMAIN held' : Behind(held'[n])
    BY <2>1, <2>4
  <2> QED
    BY <1>1, <2>1, <2>2, <2>3, <2>5, <2>6, <2>7, PanelStepKeeps
<1> QED
  BY <1>2, <1>3

\* What is not looked at may have gaps.
LEMMA DeselectKeeps == ASSUME SamplesInv, Deselect PROVE SamplesInv'
<1>1. /\ UNCHANGED <<revision, points, changed, channel, copy, status, loaded, job, held, broken>>
      /\ selected' = FALSE
  BY DEF Deselect
<1>2. ~broken' => LoadIsWhole' /\ CopyIsWhole'
  BY <1>1 DEF SamplesInv, LoadIsWhole, CopyIsWhole
<1>3. Behind(copy') /\ (job' # NoSamples /\ job'.answer # NoSamples => Behind(job'.answer))
  BY <1>1, PanelIsTyped
<1> QED
  BY <1>1, <1>2, <1>3, PanelIsTyped, PanelStepKeeps

\* The answer is all there is, and what comes after it is later.
LEMMA SamplesAnsweredKeeps == ASSUME SamplesInv, SamplesAnswered PROVE SamplesInv'
<1> DEFINE all == [revision |-> revision, points |-> points]
<1>1. /\ UNCHANGED <<revision, points, changed, channel, copy, status, loaded, held, selected, broken>>
      /\ job # NoSamples /\ job' = [answer |-> all]
  BY DEF SamplesAnswered
<1>2. /\ all \in Message /\ all.revision = revision /\ all.points = points /\ revision \in Nat
      /\ \A p \in points : p \in Nat /\ p <= revision
      /\ status = "loading"
  BY <1>1, PanelIsTyped DEF Message
<1> HIDE DEF all
<1>3. job' \in [answer : Message \cup {NoSamples}] /\ job'.answer = all /\ job' # NoSamples
  BY <1>1, <1>2, SamplesAssumption DEF Message
<1>4. Behind(all)
  BY <1>2 DEF Behind
<1>5. WholeCopy(all, points)
  BY <1>2 DEF WholeCopy
<1>6. \A p \in points : ~(revision < p)
  BY <1>2
<1>7. /\ \A list : Brings(revision, list, points)
      /\ \A list, queued, chg : Leaves(revision, list, points, queued, chg)
  BY <1>6 DEF Brings, Leaves
<1>8. Continues(revision, held, points, channel, changed)
  BY <1>7 DEF Continues
<1>9. LoadIsWhole' /\ CopyIsWhole'
  BY <1>1, <1>2, <1>3, <1>5, <1>8 DEF LoadIsWhole, CopyIsWhole
<1>10. Behind(copy') /\ Behind(job'.answer) /\ held' = held /\ copy' = copy /\ status' = "loading"
  BY <1>1, <1>2, <1>3, <1>4, PanelIsTyped
<1> QED
  BY <1>1, <1>3, <1>9, <1>10, PanelIsTyped, PanelStepKeeps

\* The answer with what was kept has reached what the wire continues.
LEMMA LoadArrivesKeeps == ASSUME SamplesInv, LoadArrives PROVE SamplesInv'
<1> DEFINE into == job.answer
           c == MergedUpTo(into, held)[Len(held)]
           r == into.revision
           s == c.revision
<1>1. /\ UNCHANGED <<revision, points, changed, channel, selected, broken>>
      /\ job # NoSamples /\ job.answer # NoSamples
      /\ copy' = c /\ status' = "current" /\ loaded' = TRUE /\ job' = NoSamples /\ held' = <<>>
  BY DEF LoadArrives
<1>2. into \in Message /\ Behind(into) /\ r \in Nat
  <2>1. into \in Message /\ Behind(into)
    BY <1>1, PanelIsTyped
  <2> QED
    BY <2>1 DEF Message
<1>3. /\ c \in Message /\ Behind(c) /\ r <= s
      /\ \A n \in DOMAIN held : held[n].revision <= s
      /\ WholeCopy(into, points) /\ Brings(r, held, points) => WholeCopy(c, points)
  <2>1. SamplesTypeOK /\ \A n \in DOMAIN held : Behind(held[n])
    BY PanelIsTyped DEF SamplesInv
  <2> HIDE DEF into
  <2> QED
    BY <1>2, <2>1, AnswerBecomesWhole
<1> HIDE DEF c
<1>4. s \in Nat
  BY <1>3 DEF Message
<1>5. ASSUME ~broken, selected
      PROVE  WholeCopy(c, points) /\ Continues(s, <<>>, points, channel, changed)
  <2>1. WholeCopy(into, points) /\ Continues(r, held, points, channel, changed)
    BY <1>1, <1>5 DEF SamplesInv, LoadIsWhole
  <2>2. WholeCopy(c, points)
    BY <1>3, <2>1 DEF Continues
  <2>3. Brings(s, <<>>, points)
    BY DEF Brings
  <2>4. ASSUME channel # NoSamples, ~WillReset(channel)
        PROVE  /\ Brings(s, <<>> \o channel.wire, points)
               /\ Leaves(s, <<>> \o channel.wire, points, channel.queued, changed)
    <3>1. /\ Brings(r, held \o channel.wire, points)
          /\ Leaves(r, held \o channel.wire, points, channel.queued, changed)
      BY <2>1, <2>4 DEF Continues
    <3>2. channel.wire \in Seq(Message) /\ held \in Seq(Message) /\ points \in SUBSET Nat
      BY <2>4, PanelIsTyped
    <3> HIDE DEF r, s
    <3>3. Brings(s, channel.wire, points) /\ Leaves(s, channel.wire, points, channel.queued, changed)
      BY <1>2, <1>3, <1>4, <3>1, <3>2, BringsRest DEF r, s
    <3>4. <<>> \o channel.wire = channel.wire
      BY <3>2
    <3> QED
      BY <3>3, <3>4
  <2> QED
    BY <2>2, <2>3, <2>4 DEF Continues
<1>6. ~broken' => LoadIsWhole' /\ CopyIsWhole'
  BY <1>1, <1>5 DEF LoadIsWhole, CopyIsWhole
<1>7. <<>> \in Seq(Message) /\ \A n \in DOMAIN <<>> : Behind(<<>>[n])
  OBVIOUS
<1>8. held' \in Seq(Message) /\ \A n \in DOMAIN held' : Behind(held'[n])
  BY <1>1, <1>7
<1> QED
  BY <1>1, <1>3, <1>6, <1>8, PanelStepKeeps

\* The changes that were kept are lost, and broken says so.
LEMMA LoadFailsKeeps == ASSUME SamplesInv, LoadFails PROVE SamplesInv'
<1>1. /\ UNCHANGED <<revision, points, changed, channel, copy, held>>
      /\ job' = NoSamples /\ broken' = TRUE
  BY DEF LoadFails
<1>2. Behind(copy') /\ copy' \in Message
  BY <1>1, PanelIsTyped
<1>3. held' \in Seq(Message) /\ \A n \in DOMAIN held' : Behind(held'[n])
  BY <1>1, PanelIsTyped
<1> QED
  BY <1>1, <1>2, <1>3, PanelStepKeeps

LEMMA SamplesBegin == SamplesInit => SamplesInv
<1> SUFFICES ASSUME SamplesInit PROVE SamplesInv
  OBVIOUS
<1>1. /\ revision = 1 /\ points = {1} /\ changed = NoSamples /\ channel = NoSamples
      /\ copy = Reset /\ job = NoSamples /\ held = <<>> /\ selected = FALSE
  BY DEF SamplesInit
<1>2. Reset \in Message /\ Reset.revision = 0 /\ <<>> \in Seq(Message) /\ DOMAIN <<>> = {}
  BY DEF Reset, Message
<1> QED
  BY <1>1, <1>2 DEF SamplesInv, SamplesTypeOK, SamplesInPast, ResetIsFirst, Behind, LoadIsWhole,
                    CopyIsWhole

LEMMA SamplesStepKeeps == SamplesInv /\ [SamplesNext]_samplesVars => SamplesInv'
<1> SUFFICES ASSUME SamplesInv, [SamplesNext]_samplesVars PROVE SamplesInv'
  OBVIOUS
<1>1. CASE Accept
  <2>1. {revision + 1} \in SUBSET {revision + 1} /\ Change({revision + 1})
    BY <1>1 DEF Accept
  <2> QED
    BY <2>1, ChangeKeeps
<1>2. CASE Touch
  <2>1. {} \in SUBSET {revision + 1} /\ Change({})
    BY <1>2 DEF Touch
  <2> QED
    BY <2>1, ChangeKeeps
<1>3. CASE RestOfPanel \/ UNCHANGED samplesVars
  <2>1. UNCHANGED sampleVars
    BY <1>3 DEF RestOfPanel, samplesVars
  <2> QED
    BY <2>1 DEF sampleVars, SamplesInv, SamplesTypeOK, SamplesInPast, ResetIsFirst, Behind,
                LoadIsWhole, CopyIsWhole
<1> QED
  BY <1>1, <1>2, <1>3, EmitKeeps, PumpSamplesKeeps, MessageArrivesKeeps, SamplesConnectKeeps,
     SamplesDisconnectKeeps, ReloadKeeps, DeselectKeeps, SamplesAnsweredKeeps, LoadArrivesKeeps,
     LoadFailsKeeps DEF SamplesNext

(* What the panel shows as current has every point up to its revision, in whatever   *)
(* order the answers of /api/samples and the changes of the stream come, across         *)
(* resets, reconnects and loads given up, as long as no load has failed or was           *)
(* overrun by more changes than apply() keeps.                                            *)
THEOREM SamplesStayWhole == SamplesSpec => []UnbrokenSamplesAreWhole
<1>1. SamplesInv => UnbrokenSamplesAreWhole
  BY DEF SamplesInv, CopyIsWhole, WholeCopy, UnbrokenSamplesAreWhole, ShownAsCurrent, Whole
<1> QED
  BY <1>1, SamplesBegin, SamplesStepKeeps, PTL DEF SamplesSpec
=============================================================================
