---------------------------- MODULE EngineProofs ----------------------------
(***************************************************************************)
(* What holds of the quote engine for any number of symbols, clients and   *)
(* jobs, any leases and any times of prices.                               *)
(***************************************************************************)
EXTENDS QuoteEngine, FiniteSetTheorems, TLAPS

QuoteRecords == [price : BOOLEAN, at : Nat, stale : BOOLEAN, none : BOOLEAN]
JobRecords == [stage : {"free", "created", "reading", "read", "ended"}, owner : Nat]
CallerRecords == [at : {"idle", "first", "second"}, symbol : Symbols \cup {NoCaller.symbol},
                  job : Nat, epoch : Nat, until : Nat, fresh : BOOLEAN]

CallerTypes ==
    /\ caller \in CallerRecords
    /\ caller.at # "idle" => caller.symbol \in Symbols /\ caller.job \in Jobs

EngineTypes ==
    /\ running \in BOOLEAN /\ epoch \in 0..MaxEpoch /\ now \in 1..MaxTime
    /\ active \in SUBSET Symbols /\ told \in SUBSET Symbols
    /\ watchers \in [Symbols -> Nat]
    /\ clients \in [Clients -> SUBSET Symbols]
    /\ leases \in [Symbols -> 0..(MaxTime + Lease)]
    /\ inflight \in [Symbols -> Jobs \cup {0}]
    /\ dirty \in SUBSET Symbols /\ poked \in SUBSET Symbols
    /\ readAgain \in SUBSET Symbols /\ unread \in SUBSET Symbols
    /\ quotes \in [Symbols -> QuoteRecords] /\ seen \in [Symbols -> QuoteRecords]
    /\ job \in [Symbols -> [Jobs -> JobRecords]]
    /\ CallerTypes

\* What is in flight is under way, in this epoch.
InFlight(s) ==
    inflight[s] # 0 => /\ running
                       /\ job[s][inflight[s]].stage \in {"created", "reading", "read"}
                       /\ job[s][inflight[s]].owner = epoch

ReadsInv ==
    /\ \A s \in Symbols : InFlight(s)
    /\ ~running => unread = {}
    /\ NotificationKept

\* As long as neither a stop nor the end of his lease excuses the engine, the
\* caller of refreshNow() is about to get a read that begins after his call:
\* any read in flight but the one he found has not begun, nor has the one he
\* awaits at last.
CallerOK ==
    caller.at # "idle" =>
        /\ caller.epoch <= epoch /\ caller.until <= now + Lease
        /\ epoch = caller.epoch /\ now < caller.until =>
              LET s == caller.symbol
                  j == caller.job
              IN  /\ running /\ leases[s] >= caller.until
                  /\ \/ caller.fresh
                     \/ caller.at = "first" /\ (inflight[s] \in {0, j} \/ job[s][inflight[s]].stage = "created")
                     \/ caller.at = "second" /\ job[s][j].stage = "created" /\ job[s][j].owner = epoch

EngineIInv == /\ EngineTypes /\ MembershipExact /\ NoOrphanQuote
              /\ ReadsInv /\ ChangesAnnounced /\ CallerOK

-----------------------------------------------------------------------------
(* The operators                                                           *)

Created == [stage |-> "created", owner |-> epoch]

\* What update() does to a symbol: nothing, a new read, or another one later.
Untouched(s) == inflight'[s] = inflight[s] /\ job'[s] = job[s]
Begun(s) == /\ inflight'[s] \in Jobs /\ job[s][inflight'[s]] = Free
            /\ job'[s] = [job[s] EXCEPT ![inflight'[s]] = Created]

LEMMA Numbers ==
    /\ Jobs \subseteq Nat \ {0} /\ Times \subseteq Nat \ {0} /\ Lease \in Nat \ {0}
    /\ MaxTime \in Nat \ {0} /\ MaxEpoch \in Nat /\ MaxSymbols \in Nat
BY EngineAssumption

LEMMA JobNumbers == \A j \in Jobs : j \in Nat /\ j # 0
BY Numbers

LEMMA NewReadsHolds ==
    ASSUME EngineTypes, NEW list \in SUBSET Symbols, NewReads(list)
    PROVE  /\ inflight' \in [Symbols -> Jobs \cup {0}]
           /\ job' \in [Symbols -> [Jobs -> JobRecords]]
           /\ \A s \in Symbols : IF s \in list /\ inflight[s] = 0 THEN Begun(s) ELSE Untouched(s)
<1> DEFINE new == {s \in list : inflight[s] = 0}
<1>1. /\ inflight' = [s \in Symbols |-> IF s \in new THEN NextJob(s) ELSE inflight[s]]
      /\ job' = [s \in Symbols |->
            IF s \in new
            THEN [job[s] EXCEPT ![NextJob(s)] = [stage |-> "created", owner |-> epoch]]
            ELSE job[s]]
      /\ \A s \in new : HasJob(s)
    BY DEF NewReads
<1>2. ASSUME NEW s \in new
      PROVE  NextJob(s) \in Jobs /\ job[s][NextJob(s)] = Free
    BY <1>1, <1>2 DEF HasJob, NextJob
<1>3. Created \in JobRecords /\ job \in [Symbols -> [Jobs -> JobRecords]]
    BY Numbers DEF Created, JobRecords, EngineTypes
<1>4. inflight \in [Symbols -> Jobs \cup {0}]
    BY DEF EngineTypes
<1> HIDE DEF new
<1>5. ASSUME NEW s \in new
      PROVE  [job[s] EXCEPT ![NextJob(s)] = Created] \in [Jobs -> JobRecords]
  <2>1. s \in Symbols
      BY DEF new
  <2>2. job[s] \in [Jobs -> JobRecords]
      BY <1>3, <2>1
  <2> QED
      BY <1>3, <2>2
<1>6. inflight' \in [Symbols -> Jobs \cup {0}]
    BY <1>1, <1>2, <1>4
<1>7. job' \in [Symbols -> [Jobs -> JobRecords]]
    BY <1>1, <1>3, <1>5 DEF Created
<1>8. ASSUME NEW s \in Symbols
      PROVE  IF s \in list /\ inflight[s] = 0 THEN Begun(s) ELSE Untouched(s)
  <2>1. CASE s \in new
      BY <1>1, <1>2, <2>1 DEF Begun, Created, new
  <2>2. CASE s \notin new
      BY <1>1, <2>2 DEF Untouched, new
  <2> QED
      BY <2>1, <2>2
<1> QED
    BY <1>6, <1>7, <1>8

LEMMA UpdateHolds ==
    ASSUME EngineTypes, NEW list \in SUBSET Symbols, Update(list)
    PROVE  /\ inflight' \in [Symbols -> Jobs \cup {0}]
           /\ job' \in [Symbols -> [Jobs -> JobRecords]]
           /\ readAgain' \in SUBSET Symbols
           /\ \A s \in Symbols :
                 IF running /\ s \in list /\ inflight[s] = 0 THEN Begun(s) ELSE Untouched(s)
           /\ \A s \in Symbols :
                 s \in readAgain' <=> s \in readAgain
                                      \/ (running /\ s \in list /\ inflight[s] # 0)
<1>1. CASE ~running
    BY <1>1 DEF Update, EngineTypes, Untouched
<1>2. CASE running
  <2>1. NewReads(list) /\ readAgain' = readAgain \cup {s \in list : inflight[s] # 0}
      BY <1>2 DEF Update
  <2>2. readAgain \in SUBSET Symbols
      BY DEF EngineTypes
  <2> QED
      BY <1>2, <2>1, <2>2, NewReadsHolds
<1> QED
    BY <1>1, <1>2

\* What is active is so for everybody, but for the leases that have run out.
LEMMA StillActive ==
    ASSUME EngineTypes, MembershipExact, NEW s \in active \ Expired
    PROVE  IsActive(s)
<1>1. s \in Symbols /\ leases[s] \in Nat /\ now \in Nat /\ watchers[s] \in Nat
    BY Numbers DEF EngineTypes
<1>2. CASE watchers[s] = 0
  <2>1. {c \in Clients : s \in clients[c]} \in SUBSET Clients
      OBVIOUS
  <2>2. IsFiniteSet({c \in Clients : s \in clients[c]})
      BY <2>1, EngineAssumption, FS_Subset
  <2>3. {c \in Clients : s \in clients[c]} = {}
      BY <1>1, <1>2, <2>2, FS_EmptySet DEF MembershipExact
  <2>4. leases[s] # 0
      BY <2>3 DEF MembershipExact
  <2>5. ~(leases[s] <= now)
      BY <1>1, <1>2, <2>4 DEF Expired, RunOut
  <2> QED
      BY <1>1, <2>5 DEF IsActive
<1>3. CASE watchers[s] # 0
    BY <1>1, <1>3 DEF IsActive
<1> QED
    BY <1>2, <1>3

-----------------------------------------------------------------------------
(* Reads and notifications                                                 *)

LEMMA ReadsUpdated ==
    ASSUME EngineTypes, ReadsInv, NEW list \in SUBSET Symbols, Update(list),
           running' = running, epoch' = epoch, unread' = unread,
           \A s \in unread : s \in poked => s \in poked' \/ s \in list \/ ~IsActive(s)',
           \A s \in Symbols : running /\ IsActive(s)' => IsActive(s) \/ s \in list
    PROVE  ReadsInv'
<1>1. /\ \A s \in Symbols :
            IF running /\ s \in list /\ inflight[s] = 0 THEN Begun(s) ELSE Untouched(s)
      /\ \A s \in Symbols :
            s \in readAgain' <=> s \in readAgain \/ (running /\ s \in list /\ inflight[s] # 0)
    BY UpdateHolds
<1>2. \A s \in Symbols : Begun(s) => /\ inflight'[s] # 0
                                     /\ job'[s][inflight'[s]] = Created
    BY Numbers DEF Begun, EngineTypes
<1>3. ASSUME NEW s \in Symbols
      PROVE  InFlight(s)'
  <2>1. CASE running /\ s \in list /\ inflight[s] = 0
      BY <1>1, <1>2, <2>1 DEF InFlight, Created
  <2>2. CASE ~(running /\ s \in list /\ inflight[s] = 0)
      BY <1>1, <2>2 DEF InFlight, Untouched, ReadsInv
  <2> QED
      BY <2>1, <2>2
<1>4. ASSUME NEW s \in unread', running' /\ IsActive(s)'
      PROVE  s \in poked' \/ (inflight'[s] # 0 /\ (s \in readAgain' \/ job'[s][inflight'[s]].stage = "created"))
  <2>1. s \in unread /\ s \in Symbols /\ running
      BY <1>4 DEF EngineTypes
  <2>2. CASE s \in list
    <3>1. CASE inflight[s] = 0
        BY <1>1, <1>2, <2>1, <2>2, <3>1 DEF Created
    <3>2. CASE inflight[s] # 0
        BY <1>1, <2>1, <2>2, <3>2 DEF Untouched
    <3> QED
        BY <3>1, <3>2
  <2>3. CASE s \notin list
    <3>1. IsActive(s)
        BY <1>4, <2>1, <2>3
    <3>2. s \in poked \/ (inflight[s] # 0 /\ (s \in readAgain \/ job[s][inflight[s]].stage = "created"))
        BY <2>1, <3>1 DEF ReadsInv, NotificationKept
    <3>3. Untouched(s) /\ (s \in readAgain => s \in readAgain')
        BY <1>1, <2>1, <2>3
    <3> QED
        BY <1>4, <2>1, <2>3, <3>2, <3>3 DEF Untouched
  <2> QED
      BY <2>2, <2>3
<1> QED
    BY <1>3, <1>4 DEF ReadsInv, NotificationKept

LEMMA ReadsRest ==
    ASSUME EngineTypes, ReadsInv, running' = running, epoch' = epoch, unread' = unread,
           poked \subseteq poked', inflight' = inflight, readAgain' = readAgain,
           \A s \in Symbols : inflight[s] # 0 =>
              \/ job'[s][inflight[s]] = job[s][inflight[s]]
              \/ /\ job[s][inflight[s]].stage # "created"
                 /\ job'[s][inflight[s]].stage \in {"reading", "read"}
                 /\ job'[s][inflight[s]].owner = job[s][inflight[s]].owner,
           \A s \in Symbols : IsActive(s)' => IsActive(s)
    PROVE  ReadsInv'
<1>1. ASSUME NEW s \in Symbols
      PROVE  InFlight(s)'
    BY DEF InFlight, ReadsInv
<1>2. ASSUME NEW s \in unread', running' /\ IsActive(s)'
      PROVE  s \in poked' \/ (inflight'[s] # 0 /\ (s \in readAgain' \/ job'[s][inflight'[s]].stage = "created"))
  <2>1. s \in unread /\ s \in Symbols /\ running /\ IsActive(s)
      BY <1>2 DEF EngineTypes
  <2> QED
      BY <2>1 DEF ReadsInv, NotificationKept
<1> QED
    BY <1>1, <1>2 DEF ReadsInv, NotificationKept

\* A step of one job, and of no other.
JobMoves(s, j, new) ==
    /\ job' \in [Symbols -> [Jobs -> JobRecords]]
    /\ job'[s][j] = new
    /\ \A i \in Jobs \ {j} : job'[s][i] = job[s][i]
    /\ \A x \in Symbols \ {s} : job'[x] = job[x]

LEMMA JobReplaced ==
    ASSUME EngineTypes, NEW s \in Symbols, NEW j \in Jobs, NEW new \in JobRecords,
           job' = [job EXCEPT ![s] = [job[s] EXCEPT ![j] = new]]
    PROVE  JobMoves(s, j, new)
<1>1. job \in [Symbols -> [Jobs -> JobRecords]] /\ job[s] \in [Jobs -> JobRecords]
    BY DEF EngineTypes
<1>2. [job[s] EXCEPT ![j] = new] \in [Jobs -> JobRecords]
    BY <1>1
<1>3. job'[s] = [job[s] EXCEPT ![j] = new]
    BY <1>1
<1>4. job' \in [Symbols -> [Jobs -> JobRecords]]
    BY <1>1, <1>2
<1> QED
    BY <1>1, <1>3, <1>4 DEF JobMoves

LEMMA StageMoves ==
    ASSUME EngineTypes, NEW s \in Symbols, NEW j \in Jobs,
           NEW stage \in {"free", "created", "reading", "read", "ended"},
           job' = [job EXCEPT ![s][j].stage = stage]
    PROVE  JobMoves(s, j, [stage |-> stage, owner |-> job[s][j].owner])
<1>1. job[s][j] \in JobRecords
    BY DEF EngineTypes
<1>2. [job[s][j] EXCEPT !.stage = stage] = [stage |-> stage, owner |-> job[s][j].owner]
    BY <1>1 DEF JobRecords
<1>3. [stage |-> stage, owner |-> job[s][j].owner] \in JobRecords
    BY <1>1 DEF JobRecords
<1> QED
    BY <1>2, <1>3, JobReplaced

\* A job that ends while somebody awaits it keeps its number.
LEMMA DoneHolds ==
    ASSUME NEW s, NEW j
    PROVE  Done(s, j) \in JobRecords /\ Done(s, j).stage \in {"ended", "free"}
BY DEF Done, Free, JobRecords

LEMMA StartReadKeepsReads ==
    ASSUME EngineTypes, ReadsInv, NEW s \in Symbols, NEW j \in Jobs, StartRead(s, j)
    PROVE  ReadsInv'
<1>1. /\ job[s][j].stage = "created"
      /\ running' = running /\ epoch' = epoch /\ inflight' = inflight /\ readAgain' = readAgain
      /\ poked' = poked /\ active' = active /\ watchers' = watchers /\ leases' = leases /\ now' = now
    BY DEF StartRead, membershipVars
<1>2. \A x \in Symbols : IsActive(x)' <=> IsActive(x)
    BY <1>1 DEF IsActive
<1>3. \A x \in Symbols : inflight[x] # 0 => inflight[x] \in Jobs
    BY DEF EngineTypes
<1>4. CASE running /\ job[s][j].owner = epoch /\ IsActive(s)
  <2>1. job' = [job EXCEPT ![s][j].stage = "reading"] /\ unread' = unread \ {s}
      BY <1>4 DEF StartRead
  <2>2. JobMoves(s, j, [stage |-> "reading", owner |-> job[s][j].owner])
      BY <2>1, StageMoves
  <2>3. ASSUME NEW x \in Symbols
        PROVE  InFlight(x)'
      BY <1>1, <1>3, <2>2 DEF InFlight, ReadsInv, JobMoves
  <2>4. ASSUME NEW x \in unread', running' /\ IsActive(x)'
        PROVE  x \in poked' \/ (inflight'[x] # 0 /\ (x \in readAgain' \/ job'[x][inflight'[x]].stage = "created"))
    <3>1. x \in unread /\ x # s /\ x \in Symbols
        BY <2>1, <2>4 DEF EngineTypes
    <3>2. job'[x] = job[x]
        BY <2>2, <3>1 DEF JobMoves
    <3> QED
        BY <1>1, <1>2, <2>4, <3>1, <3>2 DEF ReadsInv, NotificationKept
  <2>5. ~running' => unread' = {}
      BY <1>1, <1>4
  <2> QED
      BY <2>3, <2>4, <2>5 DEF ReadsInv, NotificationKept
<1>5. CASE ~(running /\ job[s][j].owner = epoch /\ IsActive(s))
  <2>1. job' = [job EXCEPT ![s][j].stage = "read"] /\ unread' = unread
      BY <1>5 DEF StartRead
  <2>2. JobMoves(s, j, [stage |-> "read", owner |-> job[s][j].owner])
      BY <2>1, StageMoves
  <2>3. ASSUME NEW x \in Symbols
        PROVE  InFlight(x)'
      BY <1>1, <1>3, <2>2 DEF InFlight, ReadsInv, JobMoves
  <2>4. ASSUME NEW x \in unread', running' /\ IsActive(x)'
        PROVE  x \in poked' \/ (inflight'[x] # 0 /\ (x \in readAgain' \/ job'[x][inflight'[x]].stage = "created"))
    <3>1. x \in unread /\ x \in Symbols /\ running /\ IsActive(x)
        BY <1>1, <1>2, <2>1, <2>4 DEF EngineTypes
    <3>2. CASE x = s /\ inflight[x] = j
        BY <1>5, <3>1, <3>2, Numbers DEF ReadsInv, InFlight
    <3>3. CASE ~(x = s /\ inflight[x] = j)
      <4>1. inflight[x] # 0 => job'[x][inflight[x]] = job[x][inflight[x]]
          BY <1>3, <2>2, <3>1, <3>3 DEF JobMoves
      <4> QED
          BY <1>1, <3>1, <4>1 DEF ReadsInv, NotificationKept
    <3> QED
        BY <3>2, <3>3
  <2>5. ~running' => unread' = {}
      BY <1>1, <2>1 DEF ReadsInv
  <2> QED
      BY <2>3, <2>4, <2>5 DEF ReadsInv, NotificationKept
<1> QED
    BY <1>4, <1>5

LEMMA FinishHolds ==
    ASSUME EngineTypes, NEW s \in Symbols, NEW j \in Jobs, FinishRead(s, j)
    PROVE  /\ inflight' \in [Symbols -> Jobs \cup {0}] /\ readAgain' \in SUBSET Symbols
           /\ \A x \in Symbols \ {s} : Untouched(x) /\ (x \in readAgain' <=> x \in readAgain)
           /\ job[s][j].stage = "read"
           /\ \/ /\ inflight[s] # j /\ inflight'[s] = inflight[s]
                 /\ readAgain' = readAgain /\ JobMoves(s, j, Done(s, j))
              \/ /\ inflight[s] = j /\ inflight'[s] = 0
                 /\ ~(s \in readAgain /\ running /\ job[s][j].owner = epoch /\ IsActive(s))
                 /\ JobMoves(s, j, Done(s, j))
              \/ /\ inflight[s] = j /\ inflight'[s] \in Jobs \ {j}
                 /\ running /\ job[s][j].owner = epoch
                 /\ job[s][inflight'[s]] = Free
                 /\ job' \in [Symbols -> [Jobs -> JobRecords]]
                 /\ job'[s][j] = Done(s, j) /\ job'[s][inflight'[s]] = Created
                 /\ \A i \in Jobs \ {j, inflight'[s]} : job'[s][i] = job[s][i]
                 /\ \A x \in Symbols \ {s} : job'[x] = job[x]
<1>1. /\ job \in [Symbols -> [Jobs -> JobRecords]] /\ job[s] \in [Jobs -> JobRecords]
      /\ inflight \in [Symbols -> Jobs \cup {0}] /\ readAgain \in SUBSET Symbols
      /\ Done(s, j) \in JobRecords /\ Created \in JobRecords
    BY DoneHolds, Numbers DEF EngineTypes, Created, JobRecords
<1>2. job[s][j].stage = "read"
    BY DEF FinishRead
<1>3. CASE inflight[s] # j
  <2>1. job' = [job EXCEPT ![s][j] = Done(s, j)] /\ inflight' = inflight /\ readAgain' = readAgain
      BY <1>3 DEF FinishRead
  <2>2. JobMoves(s, j, Done(s, j))
      BY <1>1, <2>1, JobReplaced
  <2> QED
      BY <1>1, <1>2, <1>3, <2>1, <2>2 DEF JobMoves, Untouched
<1>4. CASE inflight[s] = j /\ ~(s \in readAgain /\ running /\ job[s][j].owner = epoch /\ IsActive(s))
  <2>1. /\ job' = [job EXCEPT ![s][j] = Done(s, j)] /\ inflight' = [inflight EXCEPT ![s] = 0]
        /\ readAgain' = readAgain \ {s}
      BY <1>4 DEF FinishRead
  <2>2. JobMoves(s, j, Done(s, j))
      BY <1>1, <2>1, JobReplaced
  <2>3. inflight'[s] = 0 /\ \A x \in Symbols \ {s} : inflight'[x] = inflight[x]
      BY <1>1, <2>1
  <2> QED
      BY <1>1, <1>2, <1>4, <2>1, <2>2, <2>3 DEF JobMoves, Untouched
<1>5. CASE inflight[s] = j /\ s \in readAgain /\ running /\ job[s][j].owner = epoch /\ IsActive(s)
  <2> DEFINE next == CHOOSE i \in Jobs : i # j /\ job[s][i] = Free
  <2>1. /\ \E i \in Jobs : i # j /\ job[s][i] = Free
        /\ inflight' = [inflight EXCEPT ![s] = next]
        /\ job' = [job EXCEPT ![s][j] = Done(s, j),
                              ![s][next] = [stage |-> "created", owner |-> epoch]]
        /\ readAgain' = readAgain \ {s}
      BY <1>5 DEF FinishRead
  <2>2. next \in Jobs /\ next # j /\ job[s][next] = Free
      BY <2>1
  <2> HIDE DEF next
  <2> DEFINE new == [[job[s] EXCEPT ![j] = Done(s, j)] EXCEPT ![next] = Created]
  <2>3. new \in [Jobs -> JobRecords]
      BY <1>1
  <2>4. /\ new[j] = Done(s, j) /\ new[next] = Created
        /\ \A i \in Jobs \ {j, next} : new[i] = job[s][i]
      BY <1>1, <2>2
  <2>5. job' = [job EXCEPT ![s] = new]
    <3>1. job' = [[job EXCEPT ![s] = [job[s] EXCEPT ![j] = Done(s, j)]]
                     EXCEPT ![s] = [[job EXCEPT ![s] = [job[s] EXCEPT ![j] = Done(s, j)]][s]
                                        EXCEPT ![next] = Created]]
        BY <2>1 DEF Created
    <3>2. [job EXCEPT ![s] = [job[s] EXCEPT ![j] = Done(s, j)]][s] = [job[s] EXCEPT ![j] = Done(s, j)]
        BY <1>1
    <3> QED
        BY <1>1, <3>1, <3>2
  <2> HIDE DEF new
  <2>6. /\ job'[s] = new /\ job' \in [Symbols -> [Jobs -> JobRecords]]
        /\ \A x \in Symbols \ {s} : job'[x] = job[x]
      BY <1>1, <2>3, <2>5
  <2>7. inflight'[s] = next /\ \A x \in Symbols \ {s} : inflight'[x] = inflight[x]
      BY <1>1, <2>1
  <2>8. inflight' \in [Symbols -> Jobs \cup {0}]
      BY <1>1, <2>1, <2>2
  <2>9. inflight'[s] \in Jobs \ {j} /\ job[s][inflight'[s]] = Free
      BY <2>2, <2>7
  <2>10. /\ job'[s][j] = Done(s, j) /\ job'[s][inflight'[s]] = Created
         /\ \A i \in Jobs \ {j, inflight'[s]} : job'[s][i] = job[s][i]
      BY <2>4, <2>6, <2>7
  <2>11. \A x \in Symbols \ {s} : Untouched(x) /\ (x \in readAgain' <=> x \in readAgain)
      BY <2>1, <2>6, <2>7 DEF Untouched
  <2>12. readAgain' \in SUBSET Symbols
      BY <1>1, <2>1
  <2> QED
      BY <1>2, <1>5, <2>6, <2>8, <2>9, <2>10, <2>11, <2>12
<1> QED
    BY <1>3, <1>4, <1>5

LEMMA FinishReadKeepsReads ==
    ASSUME EngineTypes, ReadsInv, NEW s \in Symbols, NEW j \in Jobs, FinishRead(s, j)
    PROVE  ReadsInv'
<1>1. /\ running' = running /\ epoch' = epoch /\ unread' = unread
      /\ poked' = poked /\ active' = active /\ watchers' = watchers /\ leases' = leases /\ now' = now
    BY DEF FinishRead, membershipVars
<1>2. \A x \in Symbols : IsActive(x)' <=> IsActive(x)
    BY <1>1 DEF IsActive
<1>3. /\ \A x \in Symbols \ {s} : Untouched(x) /\ (x \in readAgain' <=> x \in readAgain)
      /\ job[s][j].stage = "read"
      /\ \/ /\ inflight[s] # j /\ inflight'[s] = inflight[s]
            /\ readAgain' = readAgain /\ JobMoves(s, j, Done(s, j))
         \/ /\ inflight[s] = j /\ inflight'[s] = 0
            /\ ~(s \in readAgain /\ running /\ job[s][j].owner = epoch /\ IsActive(s))
         \/ /\ inflight[s] = j /\ inflight'[s] \in Jobs \ {j}
            /\ running /\ job'[s][inflight'[s]] = Created
    BY FinishHolds
<1>4. \A x \in Symbols : inflight[x] # 0 => inflight[x] \in Jobs
    BY DEF EngineTypes
<1>5. ASSUME NEW x \in Symbols
      PROVE  InFlight(x)'
  <2>1. CASE x # s
      BY <1>1, <1>3, <2>1 DEF InFlight, ReadsInv, Untouched
  <2>2. CASE x = s
      BY <1>1, <1>3, <1>4, <2>2 DEF InFlight, ReadsInv, JobMoves, Created
  <2> QED
      BY <2>1, <2>2
<1>6. ASSUME NEW x \in unread', running' /\ IsActive(x)'
      PROVE  x \in poked' \/ (inflight'[x] # 0 /\ (x \in readAgain' \/ job'[x][inflight'[x]].stage = "created"))
  <2>1. x \in unread /\ x \in Symbols /\ running /\ IsActive(x)
      BY <1>1, <1>2, <1>6 DEF EngineTypes
  <2>2. x \in poked \/ (inflight[x] # 0 /\ (x \in readAgain \/ job[x][inflight[x]].stage = "created"))
      BY <2>1 DEF ReadsInv, NotificationKept
  <2>3. CASE x # s
      BY <1>1, <1>3, <2>1, <2>2, <2>3 DEF Untouched
  <2>4. CASE x = s /\ inflight[s] # j
    <3>1. inflight[s] # 0 => job'[s][inflight[s]] = job[s][inflight[s]]
        BY <1>3, <1>4, <2>4 DEF JobMoves
    <3> QED
        BY <1>1, <1>3, <2>2, <2>4, <3>1
  <2>5. CASE x = s /\ inflight[s] = j
    <3>1. job[s][j].owner = epoch
        BY <2>5, Numbers DEF ReadsInv, InFlight
    <3>2. x \in poked \/ s \in readAgain
        BY <1>3, <2>2, <2>5
    <3> QED
        BY <1>1, <1>3, <2>1, <2>5, <3>1, <3>2, Numbers DEF Created
  <2> QED
      BY <2>3, <2>4, <2>5
<1>7. ~running' => unread' = {}
    BY <1>1 DEF ReadsInv
<1> QED
    BY <1>5, <1>6, <1>7 DEF ReadsInv, NotificationKept

\* refreshNow() goes on: it joins the read that is in flight, or begins one.
LEMMA GoesOnHolds ==
    ASSUME EngineTypes, RefreshGoesOn, NEW s, s = caller.symbol, NEW j, j = caller.job
    PROVE  /\ s \in Symbols /\ j \in Jobs /\ job[s][j].stage = "ended"
           /\ inflight' \in [Symbols -> Jobs \cup {0}] /\ readAgain' \in SUBSET Symbols
           /\ job' \in [Symbols -> [Jobs -> JobRecords]]
           /\ \A x \in Symbols \ {s} : Untouched(x) /\ (x \in readAgain' <=> x \in readAgain)
           /\ \/ /\ ~running /\ caller' = NoCaller
                 /\ inflight' = inflight /\ readAgain' = readAgain
              \/ /\ running /\ inflight[s] # 0 /\ inflight'[s] = inflight[s] /\ s \in readAgain'
                 /\ \A i \in Jobs \ {j} : job'[s][i] = job[s][i]
                 /\ caller' = [caller EXCEPT !.at = "second", !.symbol = s, !.job = inflight'[s]]
              \/ /\ running /\ inflight[s] = 0 /\ inflight'[s] \in Jobs
                 /\ job'[s][inflight'[s]] = Created
                 /\ caller' = [caller EXCEPT !.at = "second", !.symbol = s, !.job = inflight'[s]]
<1>1. caller.at = "first" /\ Awaited
    BY DEF RefreshGoesOn
<1>2. s \in Symbols /\ j \in Jobs /\ job[s][j].stage = "ended"
    BY <1>1 DEF EngineTypes, CallerTypes, Awaited
<1>3. /\ job \in [Symbols -> [Jobs -> JobRecords]] /\ job[s] \in [Jobs -> JobRecords]
      /\ inflight \in [Symbols -> Jobs \cup {0}] /\ readAgain \in SUBSET Symbols
      /\ Free \in JobRecords /\ Created \in JobRecords
    BY <1>2, Numbers DEF EngineTypes, Created, Free, JobRecords
<1>4. CASE ~running
  <2>1. /\ job' = [job EXCEPT ![s] = [job[s] EXCEPT ![j] = Free]]
        /\ caller' = NoCaller /\ inflight' = inflight /\ readAgain' = readAgain
      BY <1>4 DEF RefreshGoesOn
  <2>2. JobMoves(s, j, Free)
      BY <1>2, <1>3, <2>1, JobReplaced
  <2> QED
      BY <1>2, <1>3, <1>4, <2>1, <2>2 DEF JobMoves, Untouched
<1>5. CASE running
  <2> DEFINE next == IF inflight[s] # 0 THEN inflight[s]
                     ELSE CHOOSE i \in Jobs : i # j /\ job[s][i] = Free
             new == [i \in Jobs |-> IF i = j THEN Free
                                    ELSE IF i = next /\ inflight[s] = 0 THEN Created
                                    ELSE job[s][i]]
  <2>1. /\ inflight[s] = 0 => \E i \in Jobs : i # j /\ job[s][i] = Free
        /\ readAgain' = IF inflight[s] # 0 THEN readAgain \cup {s} ELSE readAgain
        /\ inflight' = [inflight EXCEPT ![s] = next]
        /\ job' = [job EXCEPT ![s] = new]
        /\ caller' = [caller EXCEPT !.at = "second", !.symbol = s, !.job = next]
      BY <1>5 DEF RefreshGoesOn, Await, Created
  <2>2. next \in Jobs /\ (inflight[s] = 0 => next # j) /\ (inflight[s] # 0 => next = inflight[s])
      BY <1>2, <1>3, <2>1
  <2> HIDE DEF next
  <2>3. new \in [Jobs -> JobRecords]
      BY <1>3
  <2>4. /\ inflight[s] = 0 => new[next] = Created
        /\ inflight[s] # 0 => \A i \in Jobs \ {j} : new[i] = job[s][i]
      BY <2>2
  <2> HIDE DEF new
  <2>5. /\ job'[s] = new /\ job' \in [Symbols -> [Jobs -> JobRecords]]
        /\ \A x \in Symbols \ {s} : job'[x] = job[x]
      BY <1>2, <1>3, <2>1, <2>3
  <2>6. /\ inflight'[s] = next /\ inflight' \in [Symbols -> Jobs \cup {0}]
        /\ \A x \in Symbols \ {s} : inflight'[x] = inflight[x]
      BY <1>2, <1>3, <2>1, <2>2
  <2>7. /\ readAgain' \in SUBSET Symbols /\ (inflight[s] # 0 => s \in readAgain')
        /\ \A x \in Symbols \ {s} : x \in readAgain' <=> x \in readAgain
      BY <1>2, <1>3, <2>1
  <2>8. \A x \in Symbols \ {s} : Untouched(x)
      BY <2>5, <2>6 DEF Untouched
  <2>9. CASE inflight[s] = 0
      BY <1>2, <1>5, <2>1, <2>2, <2>4, <2>5, <2>6, <2>7, <2>8, <2>9
  <2>10. CASE inflight[s] # 0
      BY <1>2, <1>5, <2>1, <2>2, <2>4, <2>5, <2>6, <2>7, <2>8, <2>10
  <2> QED
      BY <2>9, <2>10
<1> QED
    BY <1>4, <1>5, <1>3 DEF EngineTypes

LEMMA GoesOnKeepsReads ==
    ASSUME EngineTypes, ReadsInv, RefreshGoesOn
    PROVE  ReadsInv'
<1>1. /\ running' = running /\ epoch' = epoch /\ unread' = unread
      /\ poked' = poked /\ active' = active /\ watchers' = watchers /\ leases' = leases /\ now' = now
    BY DEF RefreshGoesOn, membershipVars
<1>2. \A x \in Symbols : IsActive(x)' <=> IsActive(x)
    BY <1>1 DEF IsActive
<1> DEFINE s == caller.symbol
           j == caller.job
<1>3. /\ s \in Symbols /\ j \in Jobs /\ job[s][j].stage = "ended"
      /\ \A x \in Symbols \ {s} : Untouched(x) /\ (x \in readAgain' <=> x \in readAgain)
      /\ \/ /\ ~running /\ inflight' = inflight /\ readAgain' = readAgain
         \/ /\ running /\ inflight[s] # 0 /\ inflight'[s] = inflight[s] /\ s \in readAgain'
            /\ \A i \in Jobs \ {j} : job'[s][i] = job[s][i]
         \/ /\ running /\ inflight[s] = 0 /\ inflight'[s] \in Jobs
            /\ job'[s][inflight'[s]] = Created
    BY GoesOnHolds
<1> HIDE DEF s, j
<1>4. \A x \in Symbols : inflight[x] # 0 => inflight[x] \in Jobs
    BY DEF EngineTypes
<1>5. inflight[s] # j
    BY <1>3, Numbers DEF ReadsInv, InFlight
<1>6. ASSUME NEW x \in Symbols
      PROVE  InFlight(x)'
  <2>1. CASE ~running
      BY <1>1, <1>3, <2>1 DEF InFlight, ReadsInv
  <2>2. CASE running /\ x # s
      BY <1>1, <1>3, <2>2 DEF InFlight, ReadsInv, Untouched
  <2>3. CASE running /\ x = s
      BY <1>1, <1>3, <1>4, <1>5, <2>3 DEF InFlight, ReadsInv, Created
  <2> QED
      BY <2>1, <2>2, <2>3
<1>7. ASSUME NEW x \in unread', running' /\ IsActive(x)'
      PROVE  x \in poked' \/ (inflight'[x] # 0 /\ (x \in readAgain' \/ job'[x][inflight'[x]].stage = "created"))
  <2>1. x \in unread /\ x \in Symbols /\ running /\ IsActive(x)
      BY <1>1, <1>2, <1>7 DEF EngineTypes
  <2>2. x \in poked \/ (inflight[x] # 0 /\ (x \in readAgain \/ job[x][inflight[x]].stage = "created"))
      BY <2>1 DEF ReadsInv, NotificationKept
  <2>3. CASE x # s
      BY <1>1, <1>3, <2>1, <2>2, <2>3 DEF Untouched
  <2>4. CASE x = s
      BY <1>3, <2>1, <2>4, Numbers DEF Created
  <2> QED
      BY <2>3, <2>4
<1>8. ~running' => unread' = {}
    BY <1>1 DEF ReadsInv
<1> QED
    BY <1>6, <1>7, <1>8 DEF ReadsInv, NotificationKept

LEMMA ReturnsHolds ==
    ASSUME EngineTypes, RefreshReturns
    PROVE  /\ caller.symbol \in Symbols /\ caller.job \in Jobs
           /\ job[caller.symbol][caller.job].stage = "ended"
           /\ JobMoves(caller.symbol, caller.job, Free)
<1>1. caller.symbol \in Symbols /\ caller.job \in Jobs /\ Awaited
    BY DEF RefreshReturns, EngineTypes, CallerTypes
<1>2. Free \in JobRecords
    BY DEF Free, JobRecords
<1>3. job' = [job EXCEPT ![caller.symbol] = [job[caller.symbol] EXCEPT ![caller.job] = Free]]
    BY DEF RefreshReturns
<1> QED
    BY <1>1, <1>2, <1>3, JobReplaced DEF Awaited

LEMMA ReturnsKeepsReads ==
    ASSUME EngineTypes, ReadsInv, RefreshReturns
    PROVE  ReadsInv'
<1>1. /\ running' = running /\ epoch' = epoch /\ unread' = unread /\ inflight' = inflight
      /\ readAgain' = readAgain /\ poked' = poked
      /\ active' = active /\ watchers' = watchers /\ leases' = leases /\ now' = now
    BY DEF RefreshReturns, membershipVars
<1>2. \A x \in Symbols : IsActive(x)' => IsActive(x)
    BY <1>1 DEF IsActive
<1>3. ASSUME NEW x \in Symbols, inflight[x] # 0
      PROVE  job'[x][inflight[x]] = job[x][inflight[x]]
  <2>1. inflight[x] \in Jobs
      BY <1>3 DEF EngineTypes
  <2>2. job[x][inflight[x]].stage # "ended"
      BY <1>3 DEF ReadsInv, InFlight
  <2> QED
      BY <2>1, <2>2, ReturnsHolds DEF JobMoves
<1> QED
    BY <1>1, <1>2, <1>3, ReadsRest

LEMMA PokeKeepsReads ==
    ASSUME EngineTypes, ReadsInv, NEW s \in Symbols, Poke(s)
    PROVE  ReadsInv'
<1>1. /\ running /\ running' = running /\ epoch' = epoch /\ inflight' = inflight
      /\ readAgain' = readAgain /\ job' = job
      /\ poked' = poked \cup {s} /\ unread' = unread \cup {s}
      /\ active' = active /\ watchers' = watchers /\ leases' = leases /\ now' = now
    BY DEF Poke, membershipVars
<1>2. \A x \in Symbols : IsActive(x)' <=> IsActive(x)
    BY <1>1 DEF IsActive
<1>3. \A x \in Symbols : InFlight(x)'
    BY <1>1 DEF ReadsInv, InFlight
<1>4. NotificationKept'
  <2>1. ASSUME NEW x \in unread', running' /\ IsActive(x)'
        PROVE  x \in poked' \/ (inflight'[x] # 0 /\ (x \in readAgain' \/ job'[x][inflight'[x]].stage = "created"))
    <3>1. CASE x = s
        BY <1>1, <3>1
    <3>2. CASE x # s
        BY <1>1, <1>2, <2>1, <3>2 DEF ReadsInv, NotificationKept, EngineTypes
    <3> QED
        BY <3>1, <3>2
  <2> QED
      BY <2>1 DEF NotificationKept
<1> QED
    BY <1>1, <1>3, <1>4 DEF ReadsInv

LEMMA StartKeepsReads ==
    ASSUME EngineTypes, ReadsInv, Start
    PROVE  ReadsInv'
<1>1. ~running /\ running' = TRUE /\ epoch' = epoch /\ unread' = unread /\ unread = {}
    BY DEF Start, ReadsInv
<1>2. active' \in SUBSET Symbols
    BY DEF Start, Membership, EngineTypes
<1>3. NewReads(active')
    BY DEF Start
<1>4. \A s \in Symbols : IF s \in active' /\ inflight[s] = 0 THEN Begun(s) ELSE Untouched(s)
    BY <1>2, <1>3, NewReadsHolds
<1>5. ASSUME NEW s \in Symbols
      PROVE  InFlight(s)'
  <2>1. inflight[s] = 0
      BY <1>1 DEF ReadsInv, InFlight
  <2>2. Begun(s) => job'[s][inflight'[s]] = Created
      BY DEF Begun, EngineTypes
  <2> QED
      BY <1>1, <1>4, <2>1, <2>2 DEF InFlight, Untouched, Created
<1> QED
    BY <1>1, <1>5 DEF ReadsInv, NotificationKept

LEMMA StopKeepsReads ==
    ASSUME EngineTypes, Stop
    PROVE  ReadsInv'
BY DEF Stop, ReadsInv, InFlight, NotificationKept

-----------------------------------------------------------------------------
(* Membership                                                              *)

WatchersOf(s) == {c \in Clients : s \in clients[c]}

LEMMA ClientSets ==
    ASSUME NEW S \in SUBSET Clients
    PROVE  IsFiniteSet(S) /\ Cardinality(S) \in Nat /\ Cardinality(S) <= Cardinality(Clients)
BY EngineAssumption, FS_Subset, FS_CardinalityType

LEMMA SymbolSets ==
    ASSUME NEW S \in SUBSET Symbols
    PROVE  IsFiniteSet(S) /\ Cardinality(S) \in Nat
BY EngineAssumption, FS_Subset, FS_CardinalityType

LEMMA NobodyWatches ==
    ASSUME MembershipExact, NEW s \in Symbols
    PROVE  watchers[s] = 0 <=> ~\E c \in Clients : s \in clients[c]
<1>1. watchers[s] = Cardinality(WatchersOf(s))
    BY DEF MembershipExact, WatchersOf
<1>2. WatchersOf(s) \in SUBSET Clients
    BY DEF WatchersOf
<1>3. IsFiniteSet(WatchersOf(s))
    BY <1>2, ClientSets
<1>4. Cardinality(WatchersOf(s)) = 0 <=> WatchersOf(s) = {}
    BY <1>3, FS_EmptySet
<1> QED
    BY <1>1, <1>4 DEF WatchersOf

\* What membership() does: who has expired is gone, with his quote.
LEMMA MembershipHolds ==
    ASSUME EngineTypes, MembershipExact, NoOrphanQuote, NEW new \in SUBSET Symbols,
           Membership(new), Fits(new) \/ new = {}
    PROVE  /\ active' \in SUBSET Symbols /\ told' = active' /\ Cardinality(active') <= MaxSymbols
           /\ \A s \in Symbols :
                 s \in active' <=> (s \in active /\ ~(s \in RunOut /\ watchers[s] = 0)) \/ s \in new
           /\ quotes' \in [Symbols -> QuoteRecords]
           /\ \A s \in Symbols : quotes'[s] = IF s \in Expired THEN NoQuote ELSE quotes[s]
           /\ NoOrphanQuote'
<1>1. /\ active' = (active \ Expired) \cup new /\ told' = active'
      /\ quotes' = [s \in Symbols |-> IF s \in Expired THEN NoQuote ELSE quotes[s]]
    BY DEF Membership, Without
<1>2. active \in SUBSET Symbols /\ quotes \in [Symbols -> QuoteRecords] /\ NoQuote \in QuoteRecords
    BY DEF EngineTypes, NoQuote, QuoteRecords
<1>3. Cardinality(active') <= MaxSymbols
  <2>1. CASE Fits(new)
      BY <1>1, <2>1 DEF Fits
  <2>2. CASE new = {}
    <3>1. active' \in SUBSET active /\ IsFiniteSet(active) /\ Cardinality(active) \in Nat
        BY <1>1, <1>2, <2>2, SymbolSets
    <3>2. Cardinality(active') <= Cardinality(active) /\ Cardinality(active') \in Nat
        BY <3>1, FS_Subset, FS_CardinalityType
    <3> QED
        BY <3>1, <3>2, Numbers DEF MembershipExact
  <2> QED
      BY <2>1, <2>2
<1>4. NoOrphanQuote'
    BY <1>1, <1>2 DEF NoOrphanQuote
<1> QED
    BY <1>1, <1>2, <1>3, <1>4 DEF Expired

LEMMA LeasesLeftHolds ==
    ASSUME EngineTypes
    PROVE  /\ LeasesLeft \in [Symbols -> 0..(MaxTime + Lease)]
           /\ \A s \in Symbols : LeasesLeft[s] = IF s \in RunOut THEN 0 ELSE leases[s]
           /\ \A s \in Symbols : s \in RunOut <=> leases[s] # 0 /\ leases[s] <= now
           /\ now + Lease \in 1..(MaxTime + Lease)
BY Numbers DEF EngineTypes, LeasesLeft, RunOut

\* Leases are renewed or not, the clients stay.
LEMMA LeasesKeepMembership ==
    ASSUME EngineTypes, MembershipExact, NoOrphanQuote, NEW new \in SUBSET Symbols,
           Membership(new), Fits(new) \/ new = {},
           leases' = [s \in Symbols |-> IF s \in new THEN now + Lease ELSE LeasesLeft[s]],
           UNCHANGED <<clients, watchers>>
    PROVE  MembershipExact' /\ leases' \in [Symbols -> 0..(MaxTime + Lease)]
<1>1. /\ active' \in SUBSET Symbols /\ told' = active' /\ Cardinality(active') <= MaxSymbols
      /\ \A s \in Symbols :
            s \in active' <=> (s \in active /\ ~(s \in RunOut /\ watchers[s] = 0)) \/ s \in new
    BY MembershipHolds
<1>2. /\ LeasesLeft \in [Symbols -> 0..(MaxTime + Lease)]
      /\ \A s \in Symbols : LeasesLeft[s] = IF s \in RunOut THEN 0 ELSE leases[s]
      /\ \A s \in Symbols : s \in RunOut <=> leases[s] # 0 /\ leases[s] <= now
      /\ now + Lease \in 1..(MaxTime + Lease)
    BY LeasesLeftHolds
<1>3. leases' \in [Symbols -> 0..(MaxTime + Lease)]
    BY <1>2, Numbers
<1>4. ASSUME NEW s \in Symbols
      PROVE  s \in active' <=> leases'[s] # 0 \/ \E c \in Clients : s \in clients[c]
  <2>1. s \in active <=> leases[s] # 0 \/ \E c \in Clients : s \in clients[c]
      BY DEF MembershipExact
  <2>2. watchers[s] = 0 <=> ~\E c \in Clients : s \in clients[c]
      BY NobodyWatches
  <2>3. leases'[s] = IF s \in new THEN now + Lease ELSE IF s \in RunOut THEN 0 ELSE leases[s]
      BY <1>2
  <2>4. now + Lease # 0 /\ (s \in RunOut => leases[s] # 0)
      BY <1>2, Numbers
  <2> QED
      BY <1>1, <2>1, <2>2, <2>3, <2>4
<1>5. active' = {s \in Symbols : leases'[s] # 0 \/ \E c \in Clients : s \in clients'[c]}
    BY <1>1, <1>4
<1>6. \A s \in Symbols : watchers'[s] = Cardinality({c \in Clients : s \in clients'[c]})
    BY DEF MembershipExact
<1> QED
    BY <1>1, <1>3, <1>5, <1>6 DEF MembershipExact

LEMMA WatchKeepsMembership ==
    ASSUME EngineTypes, MembershipExact, NoOrphanQuote, NEW c \in Clients, NEW list \in SUBSET Symbols,
           Watch(c, list), Fits(list)
    PROVE  /\ MembershipExact' /\ leases' \in [Symbols -> 0..(MaxTime + Lease)]
           /\ clients' \in [Clients -> SUBSET Symbols] /\ watchers' \in [Symbols -> Nat]
           /\ \A s \in Symbols : watchers'[s] = watchers[s] + IF s \in list THEN 1 ELSE 0
<1>1. /\ clients[c] = {} /\ leases' = LeasesLeft /\ Membership(list)
      /\ clients' = [clients EXCEPT ![c] = list]
      /\ watchers' = [s \in Symbols |-> watchers[s] + IF s \in list THEN 1 ELSE 0]
    BY DEF Watch
<1>2. /\ active' \in SUBSET Symbols /\ told' = active' /\ Cardinality(active') <= MaxSymbols
      /\ \A s \in Symbols :
            s \in active' <=> (s \in active /\ ~(s \in RunOut /\ watchers[s] = 0)) \/ s \in list
    BY <1>1, MembershipHolds
<1>3. /\ LeasesLeft \in [Symbols -> 0..(MaxTime + Lease)]
      /\ \A s \in Symbols : LeasesLeft[s] = IF s \in RunOut THEN 0 ELSE leases[s]
      /\ \A s \in Symbols : s \in RunOut <=> leases[s] # 0 /\ leases[s] <= now
    BY LeasesLeftHolds
<1>4. /\ clients \in [Clients -> SUBSET Symbols] /\ watchers \in [Symbols -> Nat]
    BY DEF EngineTypes
<1>5. /\ clients' \in [Clients -> SUBSET Symbols] /\ watchers' \in [Symbols -> Nat]
      /\ clients'[c] = list /\ \A d \in Clients \ {c} : clients'[d] = clients[d]
    BY <1>1, <1>4
<1>6. ASSUME NEW s \in Symbols
      PROVE  /\ s \in active' <=> leases'[s] # 0 \/ \E d \in Clients : s \in clients'[d]
             /\ watchers'[s] = Cardinality({d \in Clients : s \in clients'[d]})
  <2>1. s \in active <=> leases[s] # 0 \/ \E d \in Clients : s \in clients[d]
      BY DEF MembershipExact
  <2>2. watchers[s] = 0 <=> ~\E d \in Clients : s \in clients[d]
      BY NobodyWatches
  <2>3. leases'[s] = IF s \in RunOut THEN 0 ELSE leases[s]
      BY <1>1, <1>3
  <2>4. (\E d \in Clients : s \in clients'[d]) <=> s \in list \/ \E d \in Clients : s \in clients[d]
      BY <1>1, <1>5
  <2>5. s \in active' <=> leases'[s] # 0 \/ \E d \in Clients : s \in clients'[d]
      BY <1>2, <1>3, <2>1, <2>2, <2>3, <2>4
  <2>6. watchers[s] = Cardinality(WatchersOf(s))
      BY DEF MembershipExact, WatchersOf
  <2> DEFINE left == {d \in Clients : s \in clients'[d]}
  <2>7. left = IF s \in list THEN WatchersOf(s) \cup {c} ELSE WatchersOf(s)
      BY <1>1, <1>5 DEF WatchersOf
  <2>8. IsFiniteSet(WatchersOf(s)) /\ c \notin WatchersOf(s) /\ Cardinality(WatchersOf(s)) \in Nat
    <3>1. WatchersOf(s) \in SUBSET Clients
        BY DEF WatchersOf
    <3> QED
        BY <1>1, <3>1, ClientSets DEF WatchersOf
  <2>9. Cardinality(WatchersOf(s) \cup {c}) = Cardinality(WatchersOf(s)) + 1
      BY <2>8, FS_AddElement
  <2>10. watchers'[s] = watchers[s] + IF s \in list THEN 1 ELSE 0
      BY <1>1
  <2>11. watchers'[s] = Cardinality({d \in Clients : s \in clients'[d]})
    <3> HIDE DEF left
    <3>1. Cardinality(left) = IF s \in list THEN Cardinality(WatchersOf(s)) + 1
                              ELSE Cardinality(WatchersOf(s))
        BY <2>7, <2>9
    <3>2. watchers'[s] = Cardinality(left)
        BY <2>6, <2>8, <2>10, <3>1
    <3> QED
        BY <3>2 DEF left
  <2> QED
      BY <2>5, <2>11
<1>7. active' = {s \in Symbols : leases'[s] # 0 \/ \E d \in Clients : s \in clients'[d]}
    BY <1>2, <1>6
<1>8. MembershipExact'
    BY <1>2, <1>6, <1>7 DEF MembershipExact
<1> QED
    BY <1>1, <1>3, <1>5, <1>8

LEMMA UnwatchKeepsMembership ==
    ASSUME EngineTypes, MembershipExact, NoOrphanQuote, NEW c \in Clients, Unwatch(c)
    PROVE  /\ MembershipExact' /\ NoOrphanQuote' /\ leases' \in [Symbols -> 0..(MaxTime + Lease)]
           /\ clients' \in [Clients -> SUBSET Symbols] /\ watchers' \in [Symbols -> Nat]
           /\ active' \in SUBSET active /\ told' = active'
           /\ quotes' \in [Symbols -> QuoteRecords]
           /\ \A s \in Symbols : quotes'[s] \in {quotes[s], NoQuote}
           /\ \A s \in active' : quotes'[s] = quotes[s]
           /\ \A s \in Symbols : watchers'[s] <= watchers[s]
           /\ leases' = LeasesLeft
<1> DEFINE gone == {s \in clients[c] \cup Expired :
                      s \in active /\ watchers'[s] = 0 /\ leases'[s] = 0}
<1>1. /\ clients[c] # {} /\ leases' = LeasesLeft
      /\ clients' = [clients EXCEPT ![c] = {}]
      /\ watchers' = [s \in Symbols |-> watchers[s] - IF s \in clients[c] THEN 1 ELSE 0]
      /\ active' = active \ gone /\ told' = active'
      /\ quotes' = [s \in Symbols |-> IF s \in gone THEN NoQuote ELSE quotes[s]]
    BY DEF Unwatch, Without
<1>2. \A s : s \in gone <=> /\ s \in clients[c] \/ s \in Expired
                            /\ s \in active /\ watchers'[s] = 0 /\ leases'[s] = 0
    OBVIOUS
<1> HIDE DEF gone
<1>3. /\ LeasesLeft \in [Symbols -> 0..(MaxTime + Lease)]
      /\ \A s \in Symbols : LeasesLeft[s] = IF s \in RunOut THEN 0 ELSE leases[s]
      /\ \A s \in Symbols : s \in RunOut <=> leases[s] # 0 /\ leases[s] <= now
    BY LeasesLeftHolds
<1>4. /\ clients \in [Clients -> SUBSET Symbols] /\ watchers \in [Symbols -> Nat]
      /\ active \in SUBSET Symbols /\ quotes \in [Symbols -> QuoteRecords] /\ NoQuote \in QuoteRecords
    BY DEF EngineTypes, NoQuote, QuoteRecords
<1>5. /\ clients' \in [Clients -> SUBSET Symbols]
      /\ clients'[c] = {} /\ \A d \in Clients \ {c} : clients'[d] = clients[d]
    BY <1>1, <1>4
<1>6. ASSUME NEW s \in Symbols
      PROVE  /\ watchers'[s] = Cardinality({d \in Clients : s \in clients'[d]})
             /\ watchers'[s] \in Nat /\ watchers'[s] <= watchers[s]
             /\ watchers'[s] = 0 <=> ~\E d \in Clients : s \in clients'[d]
  <2>1. watchers[s] = Cardinality(WatchersOf(s))
      BY DEF MembershipExact, WatchersOf
  <2> DEFINE left == {d \in Clients : s \in clients'[d]}
  <2>2. left = WatchersOf(s) \ {c} /\ (s \in clients[c] <=> c \in WatchersOf(s))
      BY <1>1, <1>5 DEF WatchersOf
  <2>3. left \in SUBSET Clients /\ WatchersOf(s) \in SUBSET Clients
      BY DEF WatchersOf
  <2>4. left = {} <=> ~\E d \in Clients : s \in clients'[d]
      OBVIOUS
  <2> HIDE DEF left
  <2>5. /\ IsFiniteSet(WatchersOf(s)) /\ Cardinality(WatchersOf(s)) \in Nat
        /\ IsFiniteSet(left) /\ Cardinality(left) \in Nat
      BY <2>3, ClientSets
  <2>6. Cardinality(left) = IF s \in clients[c] THEN Cardinality(WatchersOf(s)) - 1
                            ELSE Cardinality(WatchersOf(s))
      BY <2>2, <2>5, FS_RemoveElement
  <2>7. watchers'[s] = watchers[s] - IF s \in clients[c] THEN 1 ELSE 0
      BY <1>1
  <2>8. watchers'[s] = Cardinality(left)
      BY <2>1, <2>5, <2>6, <2>7
  <2>9. Cardinality(left) = 0 <=> left = {}
      BY <2>5, FS_EmptySet
  <2>10. watchers'[s] <= watchers[s]
      BY <2>1, <2>5, <2>7
  <2> QED
      BY <2>4, <2>5, <2>8, <2>9, <2>10 DEF left
<1>7. ASSUME NEW s \in Symbols
      PROVE  s \in active' <=> leases'[s] # 0 \/ \E d \in Clients : s \in clients'[d]
  <2>1. s \in active <=> leases[s] # 0 \/ \E d \in Clients : s \in clients[d]
      BY DEF MembershipExact
  <2>2. watchers[s] = 0 <=> ~\E d \in Clients : s \in clients[d]
      BY NobodyWatches
  <2>3. leases'[s] = IF s \in RunOut THEN 0 ELSE leases[s]
      BY <1>1, <1>3
  <2>4. watchers'[s] = 0 <=> ~\E d \in Clients : s \in clients'[d]
      BY <1>6
  <2>5. s \in Expired <=> s \in active /\ s \in RunOut /\ watchers[s] = 0
      BY DEF Expired
  <2>6. /\ s \notin clients[c] => ((\E d \in Clients : s \in clients'[d]) <=> (\E d \in Clients : s \in clients[d]))
        /\ (\E d \in Clients : s \in clients'[d]) => (\E d \in Clients : s \in clients[d])
      BY <1>5
  <2> QED
      BY <1>1, <1>2, <1>3, <2>1, <2>2, <2>3, <2>4, <2>5, <2>6
<1>8. active' = {s \in Symbols : leases'[s] # 0 \/ \E d \in Clients : s \in clients'[d]}
    BY <1>1, <1>4, <1>7
<1>9. Cardinality(active') <= MaxSymbols
  <2>1. active' \in SUBSET active /\ IsFiniteSet(active) /\ Cardinality(active) \in Nat
      BY <1>1, <1>4, SymbolSets
  <2>2. Cardinality(active') <= Cardinality(active) /\ Cardinality(active') \in Nat
      BY <2>1, FS_Subset, FS_CardinalityType
  <2> QED
      BY <2>1, <2>2, Numbers DEF MembershipExact
<1>10. MembershipExact'
    BY <1>1, <1>6, <1>8, <1>9 DEF MembershipExact
<1>11. NoOrphanQuote'
    BY <1>1, <1>4 DEF NoOrphanQuote
<1>12. watchers' \in [Symbols -> Nat]
  <2>1. watchers' = [s \in Symbols |-> watchers'[s]]
      BY <1>1
  <2> QED
      BY <1>6, <2>1
<1> QED
    BY <1>1, <1>3, <1>4, <1>5, <1>6, <1>10, <1>11, <1>12
-----------------------------------------------------------------------------
(* The caller of refreshNow()                                              *)

\* A read in flight stays, ends, or makes way for one that has not begun; one
\* that has not begun stays as it is.
ReadsMove ==
    \A s \in Symbols :
        /\ inflight'[s] \in {0, inflight[s]} \/ job'[s][inflight'[s]].stage = "created"
        /\ \A i \in Jobs : job[s][i].stage = "created" => job'[s][i] = job[s][i]

\* A lease that runs is kept or renewed.
LeasesMove ==
    \A s \in Symbols : leases'[s] >= leases[s] \/ leases'[s] = now + Lease \/ leases[s] <= now

LEMMA UpdateMoves ==
    ASSUME EngineTypes, NEW list \in SUBSET Symbols, Update(list)
    PROVE  ReadsMove
<1> SUFFICES ASSUME NEW s \in Symbols
             PROVE  /\ inflight'[s] \in {0, inflight[s]} \/ job'[s][inflight'[s]].stage = "created"
                    /\ \A i \in Jobs : job[s][i].stage = "created" => job'[s][i] = job[s][i]
    BY DEF ReadsMove
<1>1. Begun(s) \/ Untouched(s)
    BY UpdateHolds
<1>2. CASE Begun(s)
    BY <1>2 DEF Begun, EngineTypes, Created, Free
<1>3. CASE Untouched(s)
    BY <1>3 DEF Untouched
<1> QED
    BY <1>1, <1>2, <1>3

LEMMA CallerStays ==
    ASSUME EngineTypes, CallerOK, caller' = caller, running' = running, epoch' = epoch,
           now' \in {now, now + 1}, LeasesMove, ReadsMove, leases' \in [Symbols -> Nat]
    PROVE  CallerOK'
<1> SUFFICES ASSUME caller.at # "idle"
             PROVE  CallerOK'
    BY DEF CallerOK
<1> DEFINE s == caller.symbol
           j == caller.job
<1>1. /\ s \in Symbols /\ j \in Jobs /\ caller.epoch \in Nat /\ caller.until \in Nat
      /\ now \in Nat /\ Lease \in Nat /\ leases[s] \in Nat /\ leases'[s] \in Nat
    BY Numbers DEF EngineTypes, CallerTypes, CallerRecords
<1>2. caller.epoch <= epoch' /\ caller.until <= now' + Lease
    BY <1>1 DEF CallerOK
<1>3. ASSUME epoch' = caller.epoch, now' < caller.until
      PROVE  /\ running' /\ leases'[s] >= caller.until
             /\ \/ caller.fresh
                \/ caller.at = "first" /\ (inflight'[s] \in {0, j} \/ job'[s][inflight'[s]].stage = "created")
                \/ caller.at = "second" /\ job'[s][j].stage = "created" /\ job'[s][j].owner = epoch'
  <2>1. epoch = caller.epoch /\ now < caller.until
      BY <1>1, <1>3
  <2>2. /\ running /\ leases[s] >= caller.until /\ caller.until <= now + Lease
        /\ \/ caller.fresh
           \/ caller.at = "first" /\ (inflight[s] \in {0, j} \/ job[s][inflight[s]].stage = "created")
           \/ caller.at = "second" /\ job[s][j].stage = "created" /\ job[s][j].owner = epoch
      BY <2>1 DEF CallerOK
  <2>3. leases'[s] >= caller.until
      BY <1>1, <2>1, <2>2 DEF LeasesMove
  <2>4. /\ inflight'[s] \in {0, inflight[s]} \/ job'[s][inflight'[s]].stage = "created"
        /\ \A i \in Jobs : job[s][i].stage = "created" => job'[s][i] = job[s][i]
      BY <1>1 DEF ReadsMove
  <2>5. inflight[s] \in Jobs \cup {0}
      BY <1>1 DEF EngineTypes
  <2>6. \/ caller.fresh
        \/ caller.at = "first" /\ (inflight'[s] \in {0, j} \/ job'[s][inflight'[s]].stage = "created")
        \/ caller.at = "second" /\ job'[s][j].stage = "created" /\ job'[s][j].owner = epoch'
      BY <1>1, <2>2, <2>4, <2>5
  <2> QED
      BY <2>2, <2>3, <2>6
<1> QED
    BY <1>2, <1>3 DEF CallerOK

-----------------------------------------------------------------------------
(* The steps                                                               *)

LEMMA AnnouncedStays ==
    ASSUME EngineTypes, NoOrphanQuote, ChangesAnnounced, dirty' = dirty, seen' = seen,
           active' \in SUBSET Symbols, \A s \in Symbols : quotes'[s] \in {quotes[s], NoQuote}
    PROVE  ChangesAnnounced'
<1> SUFFICES ASSUME NEW s \in active', quotes'[s] \notin {NoQuote, seen[s]}
             PROVE  s \in dirty
    BY DEF ChangesAnnounced
<1>1. s \in Symbols /\ quotes'[s] = quotes[s]
    OBVIOUS
<1> QED
    BY <1>1 DEF NoOrphanQuote, ChangesAnnounced

LEMMA NoUpdate ==
    ASSUME EngineTypes, UNCHANGED <<inflight, readAgain, job>>
    PROVE  Update({})
<1>1. /\ inflight \in [Symbols -> Jobs \cup {0}] /\ job \in [Symbols -> [Jobs -> JobRecords]]
      /\ readAgain \in SUBSET Symbols
    BY DEF EngineTypes
<1>2. inflight = [s \in Symbols |-> inflight[s]] /\ job = [s \in Symbols |-> job[s]]
    BY <1>1
<1>3. NewReads({})
    BY <1>2 DEF NewReads
<1> QED
    BY <1>3 DEF Update

\* read(), watch() and a tick: leases are renewed or run out, reads begin.
Listed(new, list) ==
    /\ Membership(new) /\ (Fits(new) \/ new = {})
    /\ leases' = [s \in Symbols |-> IF s \in new THEN now + Lease ELSE LeasesLeft[s]]
    /\ Update(list) /\ (\A s \in new : s \in list \/ s \in active \ Expired)
    /\ UNCHANGED <<running, epoch, now, watchers, clients, dirty, poked, unread, seen>>

LEMMA ListedHolds ==
    ASSUME EngineIInv, NEW new \in SUBSET Symbols, NEW list \in SUBSET Symbols, Listed(new, list)
    PROVE  /\ CallerTypes' => EngineTypes'
           /\ MembershipExact' /\ NoOrphanQuote' /\ ReadsInv' /\ ChangesAnnounced'
           /\ caller' = caller => CallerOK'
           /\ \A s \in new : leases'[s] = now + Lease
<1>1. /\ Membership(new) /\ (Fits(new) \/ new = {})
      /\ leases' = [s \in Symbols |-> IF s \in new THEN now + Lease ELSE LeasesLeft[s]]
      /\ Update(list) /\ (\A s \in new : s \in list \/ s \in active \ Expired)
      /\ running' = running /\ epoch' = epoch /\ now' = now /\ watchers' = watchers
      /\ clients' = clients /\ dirty' = dirty /\ poked' = poked /\ unread' = unread /\ seen' = seen
    BY DEF Listed
<1>2. EngineTypes /\ MembershipExact /\ NoOrphanQuote /\ ReadsInv /\ ChangesAnnounced /\ CallerOK
    BY DEF EngineIInv
<1>3. /\ active' \in SUBSET Symbols /\ told' = active'
      /\ quotes' \in [Symbols -> QuoteRecords] /\ NoOrphanQuote'
      /\ \A s \in Symbols : quotes'[s] = IF s \in Expired THEN NoQuote ELSE quotes[s]
    BY <1>1, <1>2, MembershipHolds
<1>4. MembershipExact' /\ leases' \in [Symbols -> 0..(MaxTime + Lease)]
    BY <1>1, <1>2, LeasesKeepMembership
<1>5. /\ inflight' \in [Symbols -> Jobs \cup {0}] /\ job' \in [Symbols -> [Jobs -> JobRecords]]
      /\ readAgain' \in SUBSET Symbols
    BY <1>1, <1>2, UpdateHolds
<1>6. CallerTypes' => EngineTypes'
    BY <1>1, <1>2, <1>3, <1>4, <1>5 DEF EngineTypes
<1>7. ASSUME NEW s \in Symbols, IsActive(s)'
      PROVE  IsActive(s) \/ s \in list
  <2>1. s \in (active \ Expired) \cup new
      BY <1>1, <1>7 DEF IsActive, Membership
  <2> QED
      BY <1>1, <1>2, <2>1, StillActive
<1>8. ReadsInv'
    BY <1>1, <1>2, <1>7, ReadsUpdated
<1>9. ChangesAnnounced'
    BY <1>1, <1>2, <1>3, AnnouncedStays
<1>10. LeasesMove
  <2>1. \A s \in Symbols : leases[s] \in Nat /\ now \in Nat
      BY <1>2, Numbers DEF EngineTypes
  <2> QED
      BY <1>1, <1>2, <2>1, LeasesLeftHolds DEF LeasesMove
<1>11. ReadsMove
    BY <1>1, <1>2, UpdateMoves
<1>12. leases' \in [Symbols -> Nat]
    BY <1>4, Numbers
<1>13. caller' = caller => CallerOK'
    BY <1>1, <1>2, <1>10, <1>11, <1>12, CallerStays
<1>14. \A s \in new : leases'[s] = now + Lease
    BY <1>1
<1> QED
    BY <1>3, <1>4, <1>6, <1>8, <1>9, <1>13, <1>14

LEMMA ReadQuotesKeeps ==
    ASSUME EngineIInv, NEW list \in SUBSET Symbols, ReadQuotes(list)
    PROVE  EngineIInv'
<1>1. EngineTypes
    BY DEF EngineIInv
<1>2. caller' = caller /\ UNCHANGED <<running, epoch, now, watchers, clients, dirty, poked, unread, seen>>
    BY DEF ReadQuotes
<1>3. CASE Fits(list)
  <2>1. Listed(list, list \ (active \ Expired))
      BY <1>2, <1>3 DEF ReadQuotes, Read, Listed
  <2> QED
      BY <1>1, <1>2, <2>1, ListedHolds DEF EngineIInv, EngineTypes, CallerTypes
<1>4. CASE ~Fits(list)
  <2>1. Membership({}) /\ leases' = LeasesLeft /\ UNCHANGED <<inflight, readAgain, job>>
      BY <1>4 DEF ReadQuotes, Read
  <2>2. Update({})
      BY <1>1, <2>1, NoUpdate
  <2>3. leases' = [s \in Symbols |-> IF s \in {} THEN now + Lease ELSE LeasesLeft[s]]
      BY <2>1 DEF LeasesLeft
  <2>4. Listed({}, {})
      BY <1>2, <2>1, <2>2, <2>3 DEF Listed
  <2> QED
      BY <1>1, <1>2, <2>4, ListedHolds DEF EngineIInv, EngineTypes, CallerTypes
<1> QED
    BY <1>3, <1>4

LEMMA TickTimerKeeps ==
    ASSUME EngineIInv, TickTimer
    PROVE  EngineIInv'
<1>1. EngineTypes
    BY DEF EngineIInv
<1>2. /\ Membership({}) /\ leases' = LeasesLeft /\ Update(active') /\ caller' = caller
      /\ UNCHANGED <<running, epoch, now, watchers, clients, dirty, poked, unread, seen>>
    BY DEF TickTimer
<1>3. leases' = [s \in Symbols |-> IF s \in {} THEN now + Lease ELSE LeasesLeft[s]]
    BY <1>2 DEF LeasesLeft
<1>4. Listed({}, active')
    BY <1>2, <1>3 DEF Listed
<1>5. active' \in SUBSET Symbols
    BY <1>1, <1>2 DEF Membership, EngineTypes
<1> QED
    BY <1>1, <1>2, <1>4, <1>5, ListedHolds DEF EngineIInv, EngineTypes, CallerTypes

\* What refreshNow() awaits: the read it found, or one that has just begun.
LEMMA RefreshNowKeeps ==
    ASSUME EngineIInv, NEW s \in Symbols, RefreshNow(s)
    PROVE  EngineIInv'
<1>1. EngineTypes /\ ReadsInv /\ CallerOK
    BY DEF EngineIInv
<1>2. /\ caller.at = "idle" /\ Fits({s}) /\ epoch' = epoch /\ running' = running /\ now' = now
      /\ UNCHANGED <<running, epoch, now, watchers, clients, dirty, poked, unread, seen>>
    BY DEF RefreshNow
<1>3. epoch \in Nat /\ now \in Nat /\ inflight[s] \in Jobs \cup {0} /\ Lease \in Nat /\ {s} \in SUBSET Symbols
    BY <1>1, Numbers DEF EngineTypes
<1> DEFINE Called(at) == [at |-> at, symbol |-> s, job |-> inflight'[s], epoch |-> epoch,
                          until |-> now + Lease, fresh |-> FALSE]
<1>4. CASE inflight[s] # 0 \/ (running /\ s \notin active \ Expired)
  <2>1. Read({s}) /\ caller' = Called("first")
      BY <1>4 DEF RefreshNow
  <2> DEFINE list == {s} \ (active \ Expired)
  <2>2. Listed({s}, list) /\ Update(list)
      BY <1>2, <2>1 DEF Read, Listed
  <2>3. list \in SUBSET Symbols /\ (s \in list <=> s \notin active \ Expired)
      BY <1>3
  <2> HIDE DEF list
  <2>4. inflight'[s] \in Jobs
    <3>1. IF running /\ s \in list /\ inflight[s] = 0 THEN Begun(s) ELSE Untouched(s)
        BY <1>1, <2>2, <2>3, UpdateHolds
    <3> QED
        BY <1>3, <1>4, <2>3, <3>1 DEF Begun, Untouched
  <2>5. running
      BY <1>1, <1>4 DEF ReadsInv, InFlight
  <2>6. CallerTypes'
    <3>1. now + Lease \in Nat /\ inflight'[s] \in Nat
        BY <1>3, <2>4, JobNumbers
    <3>2. Called("first") \in CallerRecords
        BY <1>3, <3>1 DEF CallerRecords
    <3>3. (caller \in CallerRecords)'
        BY <2>1, <3>2 DEF CallerRecords
    <3> QED
        BY <2>1, <2>4, <3>3 DEF CallerTypes
  <2>7. leases'[s] = now + Lease
      BY <1>3, <2>2, <2>3, ListedHolds
  <2>8. /\ caller'.at = "first" /\ caller'.symbol = s /\ caller'.job = inflight'[s]
        /\ caller'.epoch = epoch /\ caller'.until = now + Lease
      BY <2>1
  <2>9. CallerOK'
      BY <1>2, <1>3, <2>5, <2>7, <2>8 DEF CallerOK
  <2> QED
      BY <1>3, <2>2, <2>3, <2>6, <2>9, ListedHolds DEF EngineIInv
<1>5. CASE ~(inflight[s] # 0 \/ (running /\ s \notin active \ Expired))
  <2>1. /\ Membership({s}) /\ leases' = [LeasesLeft EXCEPT ![s] = now + Lease] /\ Update({s})
        /\ caller' = IF running THEN Called("second") ELSE caller
      BY <1>5 DEF RefreshNow
  <2>2. leases' = [x \in Symbols |-> IF x \in {s} THEN now + Lease ELSE LeasesLeft[x]]
      BY <2>1 DEF LeasesLeft
  <2>3. Listed({s}, {s})
      BY <1>2, <2>1, <2>2 DEF Listed
  <2>4. CASE ~running
      BY <1>1, <1>3, <2>1, <2>3, <2>4, ListedHolds DEF EngineIInv, EngineTypes, CallerTypes
  <2>5. CASE running
    <3>1. Begun(s)
        BY <1>1, <1>3, <1>5, <2>1, <2>5, UpdateHolds
    <3>2. inflight'[s] \in Jobs /\ job'[s][inflight'[s]] = Created
        BY <1>1, <3>1 DEF Begun, EngineTypes
    <3>3. CallerTypes'
      <4>1. now + Lease \in Nat /\ inflight'[s] \in Nat
          BY <1>3, <3>2, JobNumbers
      <4>2. Called("second") \in CallerRecords
          BY <1>3, <4>1 DEF CallerRecords
      <4>3. (caller \in CallerRecords)'
          BY <2>1, <2>5, <4>2 DEF CallerRecords
      <4> QED
          BY <2>1, <2>5, <3>2, <4>3 DEF CallerTypes
    <3>4. leases'[s] = now + Lease
        BY <1>3, <2>3, ListedHolds
    <3>5. /\ caller'.at = "second" /\ caller'.symbol = s /\ caller'.job = inflight'[s]
          /\ caller'.epoch = epoch /\ caller'.until = now + Lease
        BY <2>1, <2>5
    <3>6. CallerOK'
        BY <1>2, <1>3, <2>5, <3>2, <3>4, <3>5 DEF CallerOK, Created
    <3> QED
        BY <1>3, <2>3, <3>3, <3>6, ListedHolds DEF EngineIInv
  <2> QED
      BY <2>4, <2>5
<1> QED
    BY <1>4, <1>5

LEMMA WatchKeeps ==
    ASSUME EngineIInv, NEW c \in Clients, NEW list \in SUBSET Symbols, Watch(c, list)
    PROVE  EngineIInv'
<1>1. EngineTypes /\ MembershipExact /\ NoOrphanQuote /\ ReadsInv /\ ChangesAnnounced /\ CallerOK
    BY DEF EngineIInv
<1>2. /\ leases' = LeasesLeft /\ caller' = caller /\ running' = running /\ epoch' = epoch /\ now' = now
      /\ dirty' = dirty /\ poked' = poked /\ unread' = unread /\ seen' = seen
    BY DEF Watch
<1>3. CASE ~Fits(list)
  <2>1. Membership({}) /\ UNCHANGED <<clients, watchers, inflight, readAgain, job>>
      BY <1>3 DEF Watch
  <2>2. Update({})
      BY <1>1, <2>1, NoUpdate
  <2>3. leases' = [s \in Symbols |-> IF s \in {} THEN now + Lease ELSE LeasesLeft[s]]
      BY <1>2 DEF LeasesLeft
  <2>4. Listed({}, {})
      BY <1>2, <2>1, <2>2, <2>3 DEF Listed
  <2> QED
      BY <1>1, <1>2, <2>4, ListedHolds DEF EngineIInv, EngineTypes, CallerTypes
<1>4. CASE Fits(list)
  <2> DEFINE new == list \ (active \ Expired)
  <2>1. Membership(list) /\ Update(new) /\ new \in SUBSET Symbols
      BY <1>4 DEF Watch
  <2> HIDE DEF new
  <2>2. /\ active' \in SUBSET Symbols /\ told' = active'
        /\ quotes' \in [Symbols -> QuoteRecords] /\ NoOrphanQuote'
        /\ \A s \in Symbols : quotes'[s] = IF s \in Expired THEN NoQuote ELSE quotes[s]
      BY <1>1, <1>4, <2>1, MembershipHolds
  <2>3. /\ MembershipExact' /\ leases' \in [Symbols -> 0..(MaxTime + Lease)]
        /\ clients' \in [Clients -> SUBSET Symbols] /\ watchers' \in [Symbols -> Nat]
        /\ \A s \in Symbols : watchers'[s] = watchers[s] + IF s \in list THEN 1 ELSE 0
      BY <1>1, <1>4, WatchKeepsMembership
  <2>4. /\ inflight' \in [Symbols -> Jobs \cup {0}] /\ job' \in [Symbols -> [Jobs -> JobRecords]]
        /\ readAgain' \in SUBSET Symbols
      BY <1>1, <2>1, UpdateHolds
  <2>5. EngineTypes'
      BY <1>1, <1>2, <2>2, <2>3, <2>4 DEF EngineTypes, CallerTypes
  <2>6. ASSUME NEW s \in Symbols, IsActive(s)'
        PROVE  IsActive(s) \/ s \in new
    <3>1. s \in (active \ Expired) \cup list
        BY <2>1, <2>6 DEF IsActive, Membership
    <3>2. s \in active \ Expired \/ s \in new
        BY <3>1 DEF new
    <3> QED
        BY <1>1, <3>2, StillActive
  <2>7. ReadsInv'
      BY <1>1, <1>2, <2>1, <2>6, ReadsUpdated
  <2>8. ChangesAnnounced'
      BY <1>1, <1>2, <2>2, AnnouncedStays
  <2>9. LeasesMove
    <3>1. \A s \in Symbols : leases[s] \in Nat /\ now \in Nat
        BY <1>1, Numbers DEF EngineTypes
    <3> QED
        BY <1>1, <1>2, <3>1, LeasesLeftHolds DEF LeasesMove
  <2>10. leases' \in [Symbols -> Nat]
      BY <2>3, Numbers
  <2>11. CallerOK'
      BY <1>1, <1>2, <2>1, <2>9, <2>10, UpdateMoves, CallerStays
  <2> QED
      BY <2>2, <2>3, <2>5, <2>7, <2>8, <2>11 DEF EngineIInv
<1> QED
    BY <1>3, <1>4

LEMMA NoReadMoves ==
    ASSUME EngineTypes, inflight' = inflight, job' = job
    PROVE  ReadsMove
BY DEF ReadsMove

LEMMA NoLeaseMoves ==
    ASSUME EngineTypes, leases' = leases \/ leases' = LeasesLeft
    PROVE  LeasesMove /\ leases' \in [Symbols -> Nat]
<1>1. leases \in [Symbols -> Nat] /\ now \in Nat
    BY Numbers DEF EngineTypes
<1>2. /\ LeasesLeft \in [Symbols -> Nat]
      /\ \A s \in Symbols : LeasesLeft[s] = leases[s] \/ leases[s] <= now
    BY <1>1, Numbers, LeasesLeftHolds
<1> QED
    BY <1>1, <1>2 DEF LeasesMove

LEMMA UnwatchKeeps ==
    ASSUME EngineIInv, NEW c \in Clients, Unwatch(c)
    PROVE  EngineIInv'
<1>1. EngineTypes /\ MembershipExact /\ NoOrphanQuote /\ ReadsInv /\ ChangesAnnounced /\ CallerOK
    BY DEF EngineIInv
<1>2. /\ caller' = caller /\ running' = running /\ epoch' = epoch /\ now' = now
      /\ dirty' = dirty /\ poked' = poked /\ unread' = unread /\ seen' = seen
      /\ inflight' = inflight /\ readAgain' = readAgain /\ job' = job
    BY DEF Unwatch
<1>3. /\ MembershipExact' /\ NoOrphanQuote' /\ leases' \in [Symbols -> 0..(MaxTime + Lease)]
      /\ clients' \in [Clients -> SUBSET Symbols] /\ watchers' \in [Symbols -> Nat]
      /\ active' \in SUBSET active /\ told' = active'
      /\ quotes' \in [Symbols -> QuoteRecords]
      /\ \A s \in Symbols : quotes'[s] \in {quotes[s], NoQuote}
      /\ \A s \in Symbols : watchers'[s] <= watchers[s]
      /\ leases' = LeasesLeft
    BY <1>1, UnwatchKeepsMembership
<1>4. active' \in SUBSET Symbols
    BY <1>1, <1>3 DEF EngineTypes
<1>5. EngineTypes'
    BY <1>1, <1>2, <1>3, <1>4 DEF EngineTypes, CallerTypes
<1>6. ASSUME NEW s \in Symbols, IsActive(s)'
      PROVE  IsActive(s)
  <2>1. /\ watchers[s] \in Nat /\ watchers'[s] \in Nat /\ leases[s] \in Nat /\ now \in Nat
      BY <1>1, <1>5, Numbers DEF EngineTypes
  <2>2. LeasesLeft[s] \in {0, leases[s]}
      BY <1>1, LeasesLeftHolds
  <2>3. s \in active' /\ (watchers'[s] > 0 \/ LeasesLeft[s] > now)
      BY <1>2, <1>3, <1>6 DEF IsActive
  <2> QED
      BY <1>3, <2>1, <2>2, <2>3 DEF IsActive
<1>7. ReadsInv'
    BY <1>1, <1>2, <1>6, ReadsRest
<1>8. ChangesAnnounced'
    BY <1>1, <1>2, <1>3, <1>4, AnnouncedStays
<1>9. CallerOK'
    BY <1>1, <1>2, <1>3, NoReadMoves, NoLeaseMoves, CallerStays
<1> QED
    BY <1>3, <1>5, <1>7, <1>8, <1>9 DEF EngineIInv

\* A step that leaves the membership alone.
LEMMA MembershipStays ==
    ASSUME UNCHANGED membershipVars
    PROVE  /\ MembershipExact => MembershipExact'
           /\ active' = active /\ told' = told /\ watchers' = watchers
           /\ clients' = clients /\ leases' = leases
BY DEF membershipVars, MembershipExact

LEMMA QuotesStay ==
    ASSUME UNCHANGED membershipVars, quotes' = quotes
    PROVE  /\ NoOrphanQuote => NoOrphanQuote'
           /\ (dirty' = dirty /\ seen' = seen /\ ChangesAnnounced) => ChangesAnnounced'
BY DEF membershipVars, NoOrphanQuote, ChangesAnnounced

LEMMA PokeTimerKeeps ==
    ASSUME EngineIInv, PokeTimer
    PROVE  EngineIInv'
<1>1. EngineTypes /\ MembershipExact /\ NoOrphanQuote /\ ReadsInv /\ ChangesAnnounced /\ CallerOK
    BY DEF EngineIInv
<1> DEFINE list == {s \in poked : IsActive(s)}
<1>2. /\ caller' = caller /\ running' = running /\ epoch' = epoch /\ now' = now
      /\ dirty' = dirty /\ poked' = {} /\ unread' = unread /\ seen' = seen /\ quotes' = quotes
      /\ Update(list) /\ UNCHANGED membershipVars
    BY DEF PokeTimer
<1>3. list \in SUBSET Symbols
    BY <1>1 DEF EngineTypes
<1>4. \A s \in Symbols : (IsActive(s)' <=> IsActive(s)) /\ (s \in poked => s \in list \/ ~IsActive(s)')
    BY <1>2 DEF membershipVars, IsActive
<1> HIDE DEF list
<1>5. /\ inflight' \in [Symbols -> Jobs \cup {0}] /\ job' \in [Symbols -> [Jobs -> JobRecords]]
      /\ readAgain' \in SUBSET Symbols
    BY <1>1, <1>2, <1>3, UpdateHolds
<1>6. EngineTypes'
    BY <1>1, <1>2, <1>5 DEF EngineTypes, CallerTypes, membershipVars
<1>7. unread \in SUBSET Symbols
    BY <1>1 DEF EngineTypes
<1>8. ReadsInv'
    BY <1>1, <1>2, <1>3, <1>4, <1>7, ReadsUpdated
<1>9. CallerOK'
    BY <1>1, <1>2, <1>3, MembershipStays, UpdateMoves, NoLeaseMoves, CallerStays
<1> QED
    BY <1>1, <1>2, <1>6, <1>8, <1>9, MembershipStays, QuotesStay DEF EngineIInv

LEMMA PokeKeeps ==
    ASSUME EngineIInv, NEW s \in Symbols, Poke(s)
    PROVE  EngineIInv'
<1>1. EngineTypes /\ MembershipExact /\ NoOrphanQuote /\ ReadsInv /\ ChangesAnnounced /\ CallerOK
    BY DEF EngineIInv
<1>2. /\ caller' = caller /\ running' = running /\ epoch' = epoch /\ now' = now
      /\ dirty' = dirty /\ poked' = poked \cup {s} /\ unread' = unread \cup {s}
      /\ seen' = seen /\ quotes' = quotes /\ inflight' = inflight /\ job' = job /\ readAgain' = readAgain
      /\ UNCHANGED membershipVars
    BY DEF Poke
<1>3. EngineTypes'
    BY <1>1, <1>2 DEF EngineTypes, CallerTypes, membershipVars
<1>4. CallerOK'
    BY <1>1, <1>2, MembershipStays, NoReadMoves, NoLeaseMoves, CallerStays
<1> QED
    BY <1>1, <1>2, <1>3, <1>4, PokeKeepsReads, MembershipStays, QuotesStay DEF EngineIInv

LEMMA FlushTimerKeeps ==
    ASSUME EngineIInv, FlushTimer
    PROVE  EngineIInv'
<1>1. EngineTypes /\ MembershipExact /\ NoOrphanQuote /\ ReadsInv /\ ChangesAnnounced /\ CallerOK
    BY DEF EngineIInv
<1>2. /\ caller' = caller /\ running' = running /\ epoch' = epoch /\ now' = now
      /\ dirty' = {} /\ poked' = poked /\ unread' = unread
      /\ seen' = [s \in Symbols |-> IF s \in dirty THEN quotes[s] ELSE seen[s]]
      /\ quotes' = quotes /\ inflight' = inflight /\ job' = job /\ readAgain' = readAgain
      /\ UNCHANGED membershipVars
    BY DEF FlushTimer
<1>3. EngineTypes'
  <2>1. quotes \in [Symbols -> QuoteRecords] /\ seen \in [Symbols -> QuoteRecords]
      BY <1>1 DEF EngineTypes
  <2>2. (seen \in [Symbols -> QuoteRecords])'
      BY <1>2, <2>1
  <2> QED
      BY <1>1, <1>2, <2>2 DEF EngineTypes, CallerTypes, membershipVars
<1>4. ReadsInv'
  <2>1. \A s \in Symbols : IsActive(s)' => IsActive(s)
      BY <1>2 DEF IsActive, membershipVars
  <2> QED
      BY <1>1, <1>2, <2>1, ReadsRest
<1>5. CallerOK'
    BY <1>1, <1>2, MembershipStays, NoReadMoves, NoLeaseMoves, CallerStays
<1>6. ChangesAnnounced'
  <2>1. ASSUME NEW s \in active', quotes'[s] \notin {NoQuote, seen'[s]}
        PROVE  FALSE
    <3>1. s \in active /\ s \in Symbols
        BY <1>1, <1>2 DEF membershipVars, EngineTypes
    <3>2. quotes[s] # NoQuote /\ seen'[s] = IF s \in dirty THEN quotes[s] ELSE seen[s]
        BY <1>2, <2>1, <3>1
    <3> QED
        BY <1>1, <1>2, <2>1, <3>1, <3>2 DEF ChangesAnnounced
  <2> QED
      BY <2>1 DEF ChangesAnnounced
<1> QED
    BY <1>1, <1>2, <1>3, <1>4, <1>5, <1>6, MembershipStays, QuotesStay DEF EngineIInv

LEMMA CommittedHolds ==
    ASSUME NEW old \in QuoteRecords, NEW kind, NEW t \in Nat, NEW b \in BOOLEAN
    PROVE  Committed(old, kind, t, b) \in QuoteRecords
BY DEF Committed, QuoteRecords, Price, Broken

LEMMA CommitReadKeeps ==
    ASSUME EngineIInv, NEW s \in Symbols, NEW j \in Jobs,
           NEW k \in Kinds, NEW t \in Times, NEW b \in BOOLEAN, CommitRead(s, j, k, t, b)
    PROVE  EngineIInv'
<1>1. EngineTypes /\ MembershipExact /\ NoOrphanQuote /\ ReadsInv /\ ChangesAnnounced /\ CallerOK
    BY DEF EngineIInv
<1>2. /\ caller' = caller /\ running' = running /\ epoch' = epoch /\ now' = now
      /\ poked' = poked /\ unread' = unread /\ seen' = seen
      /\ inflight' = inflight /\ readAgain' = readAgain
      /\ UNCHANGED membershipVars /\ job[s][j].stage = "reading"
      /\ job' = [job EXCEPT ![s][j].stage = "read"]
    BY DEF CommitRead
<1>3. JobMoves(s, j, [stage |-> "read", owner |-> job[s][j].owner])
    BY <1>1, <1>2, StageMoves
<1> DEFINE new == Committed(quotes[s], k, t, b)
<1>4. \/ quotes' = quotes /\ dirty' = dirty
      \/ /\ s \in active /\ quotes' = [quotes EXCEPT ![s] = new]
         /\ dirty' = IF new = quotes[s] THEN dirty ELSE dirty \cup {s}
    BY DEF CommitRead, IsActive
<1>5. new \in QuoteRecords
  <2>1. t \in Nat /\ quotes[s] \in QuoteRecords
      BY <1>1, Numbers DEF EngineTypes
  <2> QED
      BY <2>1, CommittedHolds
<1> HIDE DEF new
<1>6. quotes \in [Symbols -> QuoteRecords] /\ dirty \in SUBSET Symbols /\ active \in SUBSET Symbols
    BY <1>1 DEF EngineTypes
<1>7. (quotes \in [Symbols -> QuoteRecords])' /\ (dirty \in SUBSET Symbols)'
    BY <1>4, <1>5, <1>6
<1>8. EngineTypes'
    BY <1>1, <1>2, <1>3, <1>7 DEF EngineTypes, CallerTypes, membershipVars, JobMoves
<1>9. MembershipExact' /\ active' = active
    BY <1>1, <1>2, MembershipStays
<1>10. NoOrphanQuote'
    BY <1>1, <1>4, <1>6, <1>9 DEF NoOrphanQuote
<1>11. ChangesAnnounced'
  <2>1. ASSUME NEW x \in active, quotes'[x] \notin {NoQuote, seen[x]}
        PROVE  x \in dirty'
    <3>1. CASE quotes'[x] = quotes[x]
      <4>1. x \in dirty
          BY <1>1, <2>1, <3>1 DEF ChangesAnnounced
      <4> QED
          BY <1>4, <4>1
    <3>2. CASE quotes'[x] # quotes[x]
        BY <1>4, <1>6, <3>2
    <3> QED
        BY <3>1, <3>2
  <2> QED
      BY <1>2, <1>9, <2>1 DEF ChangesAnnounced
<1>12. ReadsInv'
  <2>1. \A x \in Symbols : IsActive(x)' => IsActive(x)
      BY <1>2 DEF IsActive, membershipVars
  <2>2. ASSUME NEW x \in Symbols, inflight[x] # 0
        PROVE  \/ job'[x][inflight[x]] = job[x][inflight[x]]
               \/ /\ job[x][inflight[x]].stage # "created"
                  /\ job'[x][inflight[x]].stage \in {"reading", "read"}
                  /\ job'[x][inflight[x]].owner = job[x][inflight[x]].owner
    <3>1. inflight[x] \in Jobs
        BY <1>1, <2>2 DEF EngineTypes
    <3>2. CASE x = s /\ inflight[x] = j
      <4>1. job'[s][j] = [stage |-> "read", owner |-> job[s][j].owner]
          BY <1>3 DEF JobMoves
      <4>2. job'[s][j].stage = "read" /\ job'[s][j].owner = job[s][j].owner
          BY <4>1
      <4> QED
          BY <1>2, <3>2, <4>2
    <3>3. CASE x # s \/ inflight[x] # j
        BY <1>3, <3>1, <3>3 DEF JobMoves
    <3> QED
        BY <3>2, <3>3
  <2> QED
      BY <1>1, <1>2, <2>1, <2>2, ReadsRest
<1>13. ReadsMove
    BY <1>2, <1>3 DEF ReadsMove, JobMoves
<1>14. CallerOK'
    BY <1>1, <1>2, <1>13, MembershipStays, NoLeaseMoves, CallerStays
<1> QED
    BY <1>8, <1>9, <1>10, <1>11, <1>12, <1>14 DEF EngineIInv

\* The read of an active symbol that begins is a new one for its caller.
LEMMA StartReadKeepsCaller ==
    ASSUME EngineTypes, MembershipExact, ReadsInv, CallerOK,
           NEW s \in Symbols, NEW j \in Jobs, StartRead(s, j)
    PROVE  CallerOK'
<1>1. /\ job[s][j].stage = "created" /\ inflight' = inflight /\ leases' = leases
      /\ running' = running /\ epoch' = epoch /\ now' = now
    BY DEF StartRead, membershipVars
<1>2. CASE running /\ job[s][j].owner = epoch /\ IsActive(s)
  <2>1. /\ job' = [job EXCEPT ![s][j].stage = "reading"]
        /\ caller' = IF caller.at # "idle" /\ caller.symbol = s THEN [caller EXCEPT !.fresh = TRUE]
                     ELSE caller
      BY <1>2 DEF StartRead
  <2>2. JobMoves(s, j, [stage |-> "reading", owner |-> job[s][j].owner])
      BY <2>1, StageMoves
  <2>3. CASE caller.at # "idle" /\ caller.symbol = s
    <3>1. /\ caller'.at = caller.at /\ caller'.symbol = caller.symbol /\ caller'.epoch = caller.epoch
          /\ caller'.until = caller.until /\ caller'.fresh
        BY <2>1, <2>3 DEF EngineTypes, CallerTypes, CallerRecords
    <3> QED
        BY <1>1, <3>1 DEF CallerOK
  <2>4. CASE caller.at # "idle" /\ caller.symbol # s
    <3>1. caller' = caller /\ caller.symbol \in Symbols /\ job'[caller.symbol] = job[caller.symbol]
        BY <2>1, <2>2, <2>4 DEF EngineTypes, CallerTypes, JobMoves
    <3> QED
        BY <1>1, <3>1 DEF CallerOK
  <2>5. CASE caller.at = "idle"
      BY <2>1, <2>5 DEF CallerOK
  <2> QED
      BY <2>3, <2>4, <2>5
<1>3. CASE ~(running /\ job[s][j].owner = epoch /\ IsActive(s))
  <2>1. job' = [job EXCEPT ![s][j].stage = "read"] /\ caller' = caller
      BY <1>3 DEF StartRead
  <2>2. JobMoves(s, j, [stage |-> "read", owner |-> job[s][j].owner])
      BY <2>1, StageMoves
  <2> SUFFICES ASSUME caller.at # "idle", epoch = caller.epoch, now < caller.until, ~caller.fresh
               PROVE  \/ caller.at = "first"
                         /\ (inflight[caller.symbol] \in {0, caller.job}
                                \/ job'[caller.symbol][inflight[caller.symbol]].stage = "created")
                      \/ /\ caller.at = "second" /\ job'[caller.symbol][caller.job].stage = "created"
                         /\ job'[caller.symbol][caller.job].owner = epoch
      BY <1>1, <2>1 DEF CallerOK
  <2>3. /\ caller.symbol \in Symbols /\ caller.job \in Jobs /\ caller.until \in Nat
        /\ leases[caller.symbol] \in Nat /\ now \in Nat
        /\ inflight[caller.symbol] \in Jobs \cup {0}
      BY Numbers DEF EngineTypes, CallerTypes, CallerRecords
  <2>4. /\ running /\ leases[caller.symbol] >= caller.until
        /\ \/ caller.at = "first" /\ (inflight[caller.symbol] \in {0, caller.job}
                                        \/ job[caller.symbol][inflight[caller.symbol]].stage = "created")
           \/ /\ caller.at = "second" /\ job[caller.symbol][caller.job].stage = "created"
              /\ job[caller.symbol][caller.job].owner = epoch
      BY DEF CallerOK
  <2>5. IsActive(caller.symbol)
    <3>1. leases[caller.symbol] > now /\ leases[caller.symbol] # 0
        BY <2>3, <2>4
    <3> QED
        BY <2>3, <3>1 DEF IsActive, MembershipExact
  <2>6. ASSUME caller.symbol = s
        PROVE  job[s][j].owner # epoch
      BY <1>3, <2>4, <2>5, <2>6
  <2>7. ASSUME NEW i \in Jobs, job[caller.symbol][i].owner = epoch
        PROVE  job'[caller.symbol][i] = job[caller.symbol][i]
      BY <2>2, <2>3, <2>6, <2>7 DEF JobMoves
  <2>8. inflight[caller.symbol] # 0 => job[caller.symbol][inflight[caller.symbol]].owner = epoch
      BY <2>3 DEF ReadsInv, InFlight
  <2> QED
      BY <2>3, <2>4, <2>7, <2>8
<1> QED
    BY <1>2, <1>3

LEMMA StartReadKeeps ==
    ASSUME EngineIInv, NEW s \in Symbols, NEW j \in Jobs, StartRead(s, j)
    PROVE  EngineIInv'
<1>1. EngineTypes /\ MembershipExact /\ NoOrphanQuote /\ ReadsInv /\ ChangesAnnounced /\ CallerOK
    BY DEF EngineIInv
<1>2. /\ running' = running /\ epoch' = epoch /\ now' = now
      /\ dirty' = dirty /\ poked' = poked /\ seen' = seen /\ quotes' = quotes
      /\ inflight' = inflight /\ readAgain' = readAgain /\ UNCHANGED membershipVars
    BY DEF StartRead
<1>3. /\ unread' \in SUBSET Symbols
      /\ caller' \in {caller, [caller EXCEPT !.fresh = TRUE]}
      /\ \E stage \in {"reading", "read"} : job' = [job EXCEPT ![s][j].stage = stage]
    BY <1>1 DEF StartRead, EngineTypes
<1>4. (job \in [Symbols -> [Jobs -> JobRecords]])'
  <2>1. PICK stage \in {"reading", "read"} : job' = [job EXCEPT ![s][j].stage = stage]
      BY <1>3
  <2>2. JobMoves(s, j, [stage |-> stage, owner |-> job[s][j].owner])
      BY <1>1, <2>1, StageMoves
  <2> QED
      BY <2>2 DEF JobMoves
<1>5. CallerTypes'
  <2>1. caller \in CallerRecords
      BY <1>1 DEF EngineTypes, CallerTypes
  <2>2. [caller EXCEPT !.fresh = TRUE] \in CallerRecords
      BY <2>1 DEF CallerRecords
  <2>3. (caller \in CallerRecords)'
      BY <1>3, <2>1, <2>2 DEF CallerRecords
  <2>4. caller'.at = caller.at /\ caller'.symbol = caller.symbol /\ caller'.job = caller.job
      BY <1>3, <2>1 DEF CallerRecords
  <2> QED
      BY <1>1, <2>3, <2>4 DEF EngineTypes, CallerTypes
<1>6. EngineTypes'
    BY <1>1, <1>2, <1>3, <1>4, <1>5 DEF EngineTypes, membershipVars
<1>7. ReadsInv' /\ CallerOK'
    BY <1>1, StartReadKeepsReads, StartReadKeepsCaller
<1> QED
    BY <1>1, <1>2, <1>6, <1>7, MembershipStays, QuotesStay DEF EngineIInv

LEMMA FinishReadKeeps ==
    ASSUME EngineIInv, NEW s \in Symbols, NEW j \in Jobs, FinishRead(s, j)
    PROVE  EngineIInv'
<1>1. EngineTypes /\ MembershipExact /\ NoOrphanQuote /\ ReadsInv /\ ChangesAnnounced /\ CallerOK
    BY DEF EngineIInv
<1>2. /\ caller' = caller /\ running' = running /\ epoch' = epoch /\ now' = now
      /\ dirty' = dirty /\ poked' = poked /\ unread' = unread /\ seen' = seen /\ quotes' = quotes
      /\ UNCHANGED membershipVars
    BY DEF FinishRead
<1>3. /\ inflight' \in [Symbols -> Jobs \cup {0}] /\ readAgain' \in SUBSET Symbols
      /\ \A x \in Symbols \ {s} : Untouched(x)
      /\ job[s][j].stage = "read"
      /\ \/ inflight'[s] = inflight[s] /\ JobMoves(s, j, Done(s, j))
         \/ inflight'[s] = 0 /\ JobMoves(s, j, Done(s, j))
         \/ /\ inflight'[s] \in Jobs \ {j} /\ job[s][inflight'[s]] = Free
            /\ job' \in [Symbols -> [Jobs -> JobRecords]]
            /\ job'[s][inflight'[s]] = Created
            /\ \A i \in Jobs \ {j, inflight'[s]} : job'[s][i] = job[s][i]
    BY <1>1, FinishHolds
<1>4. (job \in [Symbols -> [Jobs -> JobRecords]])'
    BY <1>3 DEF JobMoves
<1>5. EngineTypes'
    BY <1>1, <1>2, <1>3, <1>4 DEF EngineTypes, CallerTypes, membershipVars
<1>6. ReadsMove
  <2>1. \A x \in Symbols \ {s} : inflight'[x] = inflight[x] /\ job'[x] = job[x]
      BY <1>3 DEF Untouched
  <2>2. inflight'[s] \in {0, inflight[s]} \/ job'[s][inflight'[s]].stage = "created"
      BY <1>3 DEF Created
  <2>3. ASSUME NEW i \in Jobs, job[s][i].stage = "created"
        PROVE  job'[s][i] = job[s][i]
      BY <1>3, <2>3 DEF JobMoves, Free
  <2> QED
      BY <2>1, <2>2, <2>3 DEF ReadsMove
<1>7. ReadsInv'
    BY <1>1, FinishReadKeepsReads
<1>8. CallerOK'
    BY <1>1, <1>2, <1>6, MembershipStays, NoLeaseMoves, CallerStays
<1> QED
    BY <1>1, <1>2, <1>5, <1>7, <1>8, MembershipStays, QuotesStay DEF EngineIInv

\* Whoever waited for the read he found goes on with one that has not begun.
LEMMA GoesOnKeeps ==
    ASSUME EngineIInv, RefreshGoesOn
    PROVE  EngineIInv'
<1>1. EngineTypes /\ MembershipExact /\ NoOrphanQuote /\ ReadsInv /\ ChangesAnnounced /\ CallerOK
    BY DEF EngineIInv
<1>2. /\ running' = running /\ epoch' = epoch /\ now' = now
      /\ dirty' = dirty /\ poked' = poked /\ unread' = unread /\ seen' = seen /\ quotes' = quotes
      /\ UNCHANGED membershipVars /\ caller.at = "first"
    BY DEF RefreshGoesOn
<1> DEFINE s == caller.symbol
           j == caller.job
<1>3. /\ s \in Symbols /\ j \in Jobs /\ job[s][j].stage = "ended"
      /\ inflight' \in [Symbols -> Jobs \cup {0}] /\ readAgain' \in SUBSET Symbols
      /\ job' \in [Symbols -> [Jobs -> JobRecords]]
      /\ \/ ~running /\ caller' = NoCaller
         \/ /\ running /\ inflight[s] # 0 /\ inflight'[s] = inflight[s]
            /\ \A i \in Jobs \ {j} : job'[s][i] = job[s][i]
            /\ caller' = [caller EXCEPT !.at = "second", !.symbol = s, !.job = inflight'[s]]
         \/ /\ running /\ inflight[s] = 0 /\ inflight'[s] \in Jobs
            /\ job'[s][inflight'[s]] = Created
            /\ caller' = [caller EXCEPT !.at = "second", !.symbol = s, !.job = inflight'[s]]
    BY <1>1, GoesOnHolds
<1>4. caller \in CallerRecords /\ inflight[s] \in Jobs \cup {0}
    BY <1>1, <1>3 DEF EngineTypes, CallerTypes
<1>5. CASE caller' = NoCaller
  <2>1. CallerTypes' /\ CallerOK'
    <3>1. NoCaller \in CallerRecords /\ NoCaller.at = "idle"
        BY DEF NoCaller, CallerRecords
    <3>2. (caller \in CallerRecords)'
        BY <1>5, <3>1 DEF CallerRecords
    <3> QED
        BY <1>5, <3>1, <3>2 DEF CallerTypes, CallerOK
  <2>2. EngineTypes'
      BY <1>1, <1>2, <1>3, <2>1 DEF EngineTypes, membershipVars
  <2> QED
      BY <1>1, <1>2, <2>1, <2>2, GoesOnKeepsReads, MembershipStays, QuotesStay DEF EngineIInv
<1>6. CASE caller' # NoCaller
  <2> DEFINE next == inflight'[s]
  <2>1. /\ running /\ next \in Jobs
        /\ caller' = [caller EXCEPT !.at = "second", !.symbol = s, !.job = next]
      BY <1>3, <1>4, <1>6
  <2>2. next \in Nat
      BY <2>1, JobNumbers
  <2>3. /\ inflight[s] # 0 => next = inflight[s] /\ \A i \in Jobs \ {j} : job'[s][i] = job[s][i]
        /\ inflight[s] = 0 => job'[s][next] = Created
      BY <1>3, <1>6
  <2> HIDE DEF next
  <2>4. /\ caller'.at = "second" /\ caller'.symbol = s /\ caller'.job = next
        /\ caller'.epoch = caller.epoch /\ caller'.until = caller.until /\ caller'.fresh = caller.fresh
      BY <1>4, <2>1 DEF CallerRecords
  <2>5. CallerTypes'
    <3>1. [caller EXCEPT !.at = "second", !.symbol = s, !.job = next] \in CallerRecords
        BY <1>3, <1>4, <2>2 DEF CallerRecords
    <3>2. (caller \in CallerRecords)'
        BY <2>1, <3>1 DEF CallerRecords
    <3> QED
        BY <1>3, <2>1, <2>4, <3>2 DEF CallerTypes
  <2>6. EngineTypes'
      BY <1>1, <1>2, <1>3, <2>5 DEF EngineTypes, membershipVars
  <2>7. ASSUME epoch = caller.epoch, now < caller.until, ~caller.fresh
        PROVE  job'[s][next].stage = "created" /\ job'[s][next].owner = epoch
    <3>1. CASE inflight[s] = 0
        BY <2>3, <3>1 DEF Created
    <3>2. CASE inflight[s] # 0
      <4>1. job[s][inflight[s]].stage # "ended" /\ job[s][inflight[s]].owner = epoch
          BY <1>1, <1>3, <3>2 DEF ReadsInv, InFlight
      <4>2. inflight[s] # j
          BY <1>3, <4>1
      <4>3. job[s][inflight[s]].stage = "created"
          BY <1>1, <1>2, <2>7, <3>2, <4>2 DEF CallerOK
      <4>4. job'[s][next] = job[s][inflight[s]]
          BY <1>4, <2>3, <3>2, <4>2
      <4> QED
          BY <4>1, <4>3, <4>4
    <3> QED
        BY <3>1, <3>2
  <2>8. CallerOK'
    <3>1. leases' = leases
        BY <1>2 DEF membershipVars
    <3>2. /\ caller.epoch <= epoch /\ caller.until <= now + Lease
          /\ (epoch = caller.epoch /\ now < caller.until) => leases[s] >= caller.until
        BY <1>1, <1>2 DEF CallerOK
    <3> QED
        BY <1>2, <2>1, <2>4, <2>7, <3>1, <3>2 DEF CallerOK
  <2> QED
      BY <1>1, <1>2, <2>6, <2>8, GoesOnKeepsReads, MembershipStays, QuotesStay DEF EngineIInv
<1> QED
    BY <1>5, <1>6

LEMMA ReturnsKeeps ==
    ASSUME EngineIInv, RefreshReturns
    PROVE  EngineIInv'
<1>1. EngineTypes /\ MembershipExact /\ NoOrphanQuote /\ ReadsInv /\ ChangesAnnounced /\ CallerOK
    BY DEF EngineIInv
<1>2. /\ running' = running /\ epoch' = epoch /\ now' = now
      /\ dirty' = dirty /\ poked' = poked /\ unread' = unread /\ seen' = seen /\ quotes' = quotes
      /\ inflight' = inflight /\ readAgain' = readAgain
      /\ UNCHANGED membershipVars /\ caller' = NoCaller
    BY DEF RefreshReturns
<1>3. CallerTypes' /\ CallerOK'
  <2>1. NoCaller \in CallerRecords /\ NoCaller.at = "idle"
      BY DEF NoCaller, CallerRecords
  <2>2. (caller \in CallerRecords)'
      BY <1>2, <2>1 DEF CallerRecords
  <2> QED
      BY <1>2, <2>1, <2>2 DEF CallerTypes, CallerOK
<1>4. (job \in [Symbols -> [Jobs -> JobRecords]])'
    BY <1>1, ReturnsHolds DEF JobMoves
<1>5. EngineTypes'
    BY <1>1, <1>2, <1>3, <1>4 DEF EngineTypes, membershipVars
<1> QED
    BY <1>1, <1>2, <1>3, <1>5, ReturnsKeepsReads, MembershipStays, QuotesStay DEF EngineIInv

LEMMA StartKeeps ==
    ASSUME EngineIInv, Start
    PROVE  EngineIInv'
<1>1. EngineTypes /\ MembershipExact /\ NoOrphanQuote /\ ReadsInv /\ ChangesAnnounced /\ CallerOK
    BY DEF EngineIInv
<1>2. /\ ~running /\ running' = TRUE /\ epoch' = epoch /\ now' = now /\ Membership({})
      /\ leases' = LeasesLeft /\ NewReads(active')
      /\ readAgain' = readAgain \cup {s \in active' : inflight[s] # 0}
      /\ watchers' = watchers /\ clients' = clients /\ dirty' = dirty /\ poked' = poked
      /\ unread' = unread /\ seen' = seen /\ caller' = caller
    BY DEF Start
<1>3. leases' = [s \in Symbols |-> IF s \in {} THEN now + Lease ELSE LeasesLeft[s]]
    BY <1>2 DEF LeasesLeft
<1>4. /\ active' \in SUBSET Symbols /\ told' = active'
      /\ quotes' \in [Symbols -> QuoteRecords] /\ NoOrphanQuote'
      /\ \A s \in Symbols : quotes'[s] = IF s \in Expired THEN NoQuote ELSE quotes[s]
    BY <1>1, <1>2, MembershipHolds
<1>5. MembershipExact' /\ leases' \in [Symbols -> 0..(MaxTime + Lease)]
  <2>1. UNCHANGED <<clients, watchers>>
      BY <1>2
  <2> QED
      BY <1>1, <1>2, <1>3, <2>1, LeasesKeepMembership
<1>6. inflight' \in [Symbols -> Jobs \cup {0}] /\ job' \in [Symbols -> [Jobs -> JobRecords]]
    BY <1>1, <1>2, <1>4, NewReadsHolds
<1>7. readAgain' \in SUBSET Symbols
    BY <1>1, <1>2, <1>4 DEF EngineTypes
<1>8. EngineTypes'
    BY <1>1, <1>2, <1>4, <1>5, <1>6, <1>7 DEF EngineTypes, CallerTypes
<1>9. ReadsInv' /\ ChangesAnnounced'
    BY <1>1, <1>2, <1>4, StartKeepsReads, AnnouncedStays
<1>10. CallerOK'
    BY <1>1, <1>2 DEF CallerOK
<1> QED
    BY <1>4, <1>5, <1>8, <1>9, <1>10 DEF EngineIInv

LEMMA StopKeeps ==
    ASSUME EngineIInv, Stop
    PROVE  EngineIInv'
<1>1. EngineTypes /\ CallerOK
    BY DEF EngineIInv
<1>2. /\ running /\ epoch < MaxEpoch
      /\ running' = FALSE /\ epoch' = epoch + 1
      /\ active' = {} /\ watchers' = [s \in Symbols |-> 0]
      /\ clients' = [c \in Clients |-> {}] /\ leases' = [s \in Symbols |-> 0]
      /\ told' = {} /\ quotes' = [s \in Symbols |-> NoQuote]
      /\ dirty' = {} /\ poked' = {} /\ readAgain' = {}
      /\ inflight' = [s \in Symbols |-> 0] /\ unread' = {}
      /\ now' = now /\ job' = job /\ seen' = seen /\ caller' = caller
    BY DEF Stop
<1>3. EngineTypes'
  <2>1. epoch' \in 0..MaxEpoch
      BY <1>1, <1>2, Numbers DEF EngineTypes
  <2>2. (quotes \in [Symbols -> QuoteRecords])'
      BY <1>2 DEF NoQuote, QuoteRecords
  <2>3. (leases \in [Symbols -> 0..(MaxTime + Lease)])'
      BY <1>2, Numbers
  <2> QED
      BY <1>1, <1>2, <2>1, <2>2, <2>3 DEF EngineTypes, CallerTypes
<1>4. MembershipExact'
  <2>1. Cardinality({}) = 0
      BY FS_EmptySet
  <2>2. active' = {s \in Symbols : leases'[s] # 0 \/ \E c \in Clients : s \in clients'[c]}
      BY <1>2
  <2>3. ASSUME NEW s \in Symbols
        PROVE  watchers'[s] = Cardinality({c \in Clients : s \in clients'[c]})
    <3>1. {c \in Clients : s \in clients'[c]} = {}
        BY <1>2
    <3> QED
        BY <1>2, <2>1, <3>1
  <2> QED
      BY <1>2, <2>1, <2>2, <2>3, Numbers DEF MembershipExact
<1>5. NoOrphanQuote' /\ ChangesAnnounced'
    BY <1>2 DEF NoOrphanQuote, ChangesAnnounced
<1>6. CallerOK'
  <2>1. epoch \in Nat /\ caller.epoch \in Nat
      BY <1>1, Numbers DEF EngineTypes, CallerTypes, CallerRecords
  <2> QED
      BY <1>1, <1>2, <2>1 DEF CallerOK
<1> QED
    BY <1>1, <1>3, <1>4, <1>5, <1>6, StopKeepsReads DEF EngineIInv

LEMMA TickKeeps ==
    ASSUME EngineIInv, Tick
    PROVE  EngineIInv'
<1>1. EngineTypes /\ MembershipExact /\ NoOrphanQuote /\ ReadsInv /\ ChangesAnnounced /\ CallerOK
    BY DEF EngineIInv
<1>2. /\ now < MaxTime /\ now' = now + 1 /\ running' = running /\ epoch' = epoch /\ caller' = caller
      /\ dirty' = dirty /\ poked' = poked /\ unread' = unread /\ seen' = seen /\ quotes' = quotes
      /\ inflight' = inflight /\ readAgain' = readAgain /\ job' = job
      /\ UNCHANGED membershipVars
    BY DEF Tick
<1>3. EngineTypes'
  <2>1. now' \in 1..MaxTime
      BY <1>1, <1>2, Numbers DEF EngineTypes
  <2> QED
      BY <1>1, <1>2, <2>1 DEF EngineTypes, CallerTypes, membershipVars
<1>4. \A s \in Symbols : IsActive(s)' => IsActive(s)
  <2>1. \A s \in Symbols : leases[s] \in Nat /\ now \in Nat
      BY <1>1, Numbers DEF EngineTypes
  <2> QED
      BY <1>2, <2>1 DEF IsActive, membershipVars
<1>5. ReadsInv'
    BY <1>1, <1>2, <1>4, ReadsRest
<1>6. CallerOK'
    BY <1>1, <1>2, MembershipStays, NoReadMoves, NoLeaseMoves, CallerStays
<1> QED
    BY <1>1, <1>2, <1>3, <1>5, <1>6, MembershipStays, QuotesStay DEF EngineIInv

LEMMA StutterKeeps ==
    ASSUME EngineIInv, UNCHANGED vars
    PROVE  EngineIInv'
BY DEF vars, membershipVars, EngineIInv, EngineTypes, CallerTypes, MembershipExact, NoOrphanQuote,
       ReadsInv, InFlight, NotificationKept, IsActive, ChangesAnnounced, CallerOK

LEMMA EngineInit ==
    ASSUME Init
    PROVE  EngineIInv
<1>1. EngineTypes
  <2>1. quotes \in [Symbols -> QuoteRecords] /\ seen \in [Symbols -> QuoteRecords]
      BY DEF Init, NoQuote, QuoteRecords
  <2>2. job \in [Symbols -> [Jobs -> JobRecords]]
      BY DEF Init, Free, JobRecords
  <2>3. CallerTypes
      BY DEF Init, NoCaller, CallerTypes, CallerRecords
  <2>4. leases \in [Symbols -> 0..(MaxTime + Lease)] /\ now \in 1..MaxTime /\ epoch \in 0..MaxEpoch
      BY Numbers DEF Init
  <2> QED
      BY <2>1, <2>2, <2>3, <2>4 DEF Init, EngineTypes
<1>2. MembershipExact
  <2>1. Cardinality({}) = 0
      BY FS_EmptySet
  <2>2. active = {s \in Symbols : leases[s] # 0 \/ \E c \in Clients : s \in clients[c]}
      BY DEF Init
  <2>3. ASSUME NEW s \in Symbols
        PROVE  watchers[s] = Cardinality({c \in Clients : s \in clients[c]})
    <3>1. {c \in Clients : s \in clients[c]} = {}
        BY DEF Init
    <3> QED
        BY <2>1, <3>1 DEF Init
  <2>4. Cardinality(active) <= MaxSymbols /\ told = active
      BY <2>1, Numbers DEF Init
  <2> QED
      BY <2>2, <2>3, <2>4 DEF MembershipExact
<1>3. NoOrphanQuote /\ ReadsInv /\ ChangesAnnounced /\ CallerOK
    BY DEF Init, NoOrphanQuote, ReadsInv, InFlight, NotificationKept, ChangesAnnounced, CallerOK, NoCaller
<1> QED
    BY <1>1, <1>2, <1>3 DEF EngineIInv

LEMMA EngineStep ==
    ASSUME EngineIInv, [Next]_vars
    PROVE  EngineIInv'
<1>1. Lists \subseteq SUBSET Symbols /\ Asking \subseteq Clients
    BY EngineAssumption DEF Lists
<1>2. CASE Start \/ Stop \/ Tick \/ TickTimer \/ PokeTimer \/ FlushTimer \/ RefreshGoesOn \/ RefreshReturns
    BY <1>2, StartKeeps, StopKeeps, TickKeeps, TickTimerKeeps, PokeTimerKeeps, FlushTimerKeeps,
       GoesOnKeeps, ReturnsKeeps
<1>3. CASE \E l \in Lists : ReadQuotes(l) \/ \E c \in Asking : Watch(c, l)
    BY <1>1, <1>3, ReadQuotesKeeps, WatchKeeps
<1>4. CASE \E c \in Clients : Unwatch(c)
    BY <1>4, UnwatchKeeps
<1>5. CASE \E s \in Symbols : Poke(s) \/ RefreshNow(s)
    BY <1>5, PokeKeeps, RefreshNowKeeps
<1>6. CASE \E s \in Symbols, j \in Jobs : StartRead(s, j) \/ FinishRead(s, j)
    BY <1>6, StartReadKeeps, FinishReadKeeps
<1>7. CASE \E s \in Symbols, j \in Jobs, k \in Kinds, t \in Times, b \in BOOLEAN : CommitRead(s, j, k, t, b)
    BY <1>7, CommitReadKeeps
<1>8. CASE UNCHANGED vars
    BY <1>8, StutterKeeps
<1> QED
    BY <1>2, <1>3, <1>4, <1>5, <1>6, <1>7, <1>8 DEF Next

LEMMA EngineAlways == Spec => []EngineIInv
<1> QED
    BY EngineInit, EngineStep, PTL DEF Spec

-----------------------------------------------------------------------------
(* The theorems                                                            *)

LEMMA TypesAreBounded ==
    ASSUME EngineTypes, MembershipExact
    PROVE  EngineTypeOK
<1>1. ASSUME NEW s \in Symbols
      PROVE  watchers[s] \in 0..Cardinality(Clients)
  <2> DEFINE who == {c \in Clients : s \in clients[c]}
  <2>1. who \in SUBSET Clients /\ watchers[s] = Cardinality(who)
      BY DEF MembershipExact
  <2> HIDE DEF who
  <2>2. Cardinality(who) \in Nat /\ Cardinality(who) <= Cardinality(Clients)
      BY <2>1, ClientSets
  <2>3. Cardinality(Clients) \in Nat
      BY ClientSets
  <2> QED
      BY <2>1, <2>2, <2>3
<1>2. watchers \in [Symbols -> Nat]
    BY DEF EngineTypes
<1>3. watchers \in [Symbols -> 0..Cardinality(Clients)]
    BY <1>1, <1>2
<1> QED
    BY <1>3 DEF EngineTypes, EngineTypeOK

(* In every state of the engine, for any number of symbols, clients, leases    *)
(* and jobs, the active symbols are exactly those some client watches or some  *)
(* lease keeps, no more than fit; no notification is lost in a read that was   *)
(* under way, no change is kept from the listeners, and no quote outlives its  *)
(* symbol (membership(), update() and commit() of quote-engine.js).            *)
THEOREM EngineSound == Spec => []EngineInv
<1>1. EngineIInv => EngineInv
    BY TypesAreBounded DEF EngineIInv, EngineInv, MembershipInv, ReadsInv
<1> QED
    BY <1>1, EngineAlways, PTL

\* Only commit() changes a quote otherwise than by dropping it.
LEMMA QuotesChange ==
    ASSUME EngineIInv, [Next]_vars
    PROVE  \/ \A x \in Symbols : quotes'[x] \in {quotes[x], NoQuote}
           \/ \E s \in Symbols, j \in Jobs, k \in Kinds, t \in Times, b \in BOOLEAN :
                 CommitRead(s, j, k, t, b)
<1>1. \A new : Membership(new) => \A x \in Symbols : quotes'[x] \in {quotes[x], NoQuote}
    BY DEF Membership, Without
<1>2. CASE Start \/ TickTimer
    BY <1>1, <1>2 DEF Start, TickTimer
<1>3. CASE Stop \/ Tick \/ PokeTimer \/ FlushTimer \/ RefreshGoesOn \/ RefreshReturns \/ UNCHANGED vars
    BY <1>3 DEF Stop, Tick, PokeTimer, FlushTimer, RefreshGoesOn, RefreshReturns, vars
<1>4. CASE \E l \in Lists : ReadQuotes(l) \/ \E c \in Asking : Watch(c, l)
    BY <1>1, <1>4 DEF ReadQuotes, Read, Watch
<1>5. CASE \E c \in Clients : Unwatch(c)
    BY <1>5 DEF Unwatch, Without
<1>6. CASE \E s \in Symbols : Poke(s) \/ RefreshNow(s)
    BY <1>1, <1>6 DEF Poke, RefreshNow, Read
<1>7. CASE \E s \in Symbols, j \in Jobs : StartRead(s, j) \/ FinishRead(s, j)
    BY <1>7 DEF StartRead, FinishRead
<1>8. CASE \E s \in Symbols, j \in Jobs, k \in Kinds, t \in Times, b \in BOOLEAN : CommitRead(s, j, k, t, b)
    BY <1>8
<1> QED
    BY <1>2, <1>3, <1>4, <1>5, <1>6, <1>7, <1>8 DEF Next

\* What commit() makes of a quote that has a price.
LEMMA CommittedGoesForward ==
    ASSUME NEW old \in QuoteRecords, old.price, NEW kind, NEW t \in Times, NEW b \in BOOLEAN
    PROVE  /\ Committed(old, kind, t, b).price
           /\ Committed(old, kind, t, b).at < old.at => kind = "invalidated"
<1>1. t \in Nat /\ old.at \in Nat
    BY Numbers DEF QuoteRecords
<1> QED
    BY <1>1 DEF Committed, QuoteRecords, Price, Broken

(* The price of an active symbol is never replaced by an older one and never   *)
(* lost to an error, whatever reads overlap and in whatever order they answer, *)
(* unless the provider invalidates the trade (quote-engine.js:57).             *)
THEOREM EnginePricesGoForward == Spec => ReadPricesGoForward
<1>1. ASSUME EngineIInv, [Next]_vars
      PROVE  [PriceGoesForward]_vars
  <2>1. quotes \in [Symbols -> QuoteRecords]
      BY <1>1 DEF EngineIInv, EngineTypes
  <2>2. ASSUME NEW s \in Symbols, quotes[s].price, ~quotes'[s].none
        PROVE  /\ quotes'[s].price
               /\ quotes'[s].at < quotes[s].at =>
                     /\ \E j \in Jobs, t \in Times, b \in BOOLEAN : CommitRead(s, j, "invalidated", t, b)
                     /\ ~\E j \in Jobs, t \in Times, b \in BOOLEAN : CommitRead(s, j, "price", t, b)
    <3>1. quotes[s] \in QuoteRecords /\ quotes[s].at \in Nat
        BY <2>1 DEF QuoteRecords
    <3>2. ASSUME quotes'[s] \in {quotes[s], NoQuote}
          PROVE  quotes'[s].price /\ ~(quotes'[s].at < quotes[s].at)
        BY <2>2, <3>1, <3>2 DEF NoQuote
    <3>3. ASSUME NEW x \in Symbols, NEW j \in Jobs, NEW k \in Kinds, NEW t \in Times, NEW b \in BOOLEAN,
                 CommitRead(x, j, k, t, b)
          PROVE  /\ quotes'[s].price
                 /\ quotes'[s].at < quotes[s].at => x = s /\ k = "invalidated"
      <4>1. quotes'[s] = quotes[s] \/ (x = s /\ quotes'[s] = Committed(quotes[s], k, t, b))
          BY <2>1, <3>3 DEF CommitRead
      <4>2. CASE quotes'[s] = quotes[s]
          BY <3>2, <4>2
      <4>3. CASE x = s /\ quotes'[s] = Committed(quotes[s], k, t, b)
          BY <2>2, <3>1, <4>3, CommittedGoesForward
      <4> QED
          BY <4>1, <4>2, <4>3
    <3>4. CASE \A x \in Symbols : quotes'[x] \in {quotes[x], NoQuote}
        BY <3>2, <3>4
    <3>5. CASE \E x \in Symbols, j \in Jobs, k \in Kinds, t \in Times, b \in BOOLEAN :
                 CommitRead(x, j, k, t, b)
      <4>1. quotes'[s].price
          BY <3>3, <3>5
      <4>2. ASSUME quotes'[s].at < quotes[s].at
            PROVE  /\ \E j \in Jobs, t \in Times, b \in BOOLEAN : CommitRead(s, j, "invalidated", t, b)
                   /\ ~\E j \in Jobs, t \in Times, b \in BOOLEAN : CommitRead(s, j, "price", t, b)
        <5>1. \E j \in Jobs, t \in Times, b \in BOOLEAN : CommitRead(s, j, "invalidated", t, b)
            BY <3>3, <3>5, <4>2
        <5>2. ASSUME NEW j \in Jobs, NEW t \in Times, NEW b \in BOOLEAN, CommitRead(s, j, "price", t, b)
              PROVE  FALSE
          <6>1. quotes'[s] = quotes[s] \/ quotes'[s] = Committed(quotes[s], "price", t, b)
              BY <2>1, <5>2 DEF CommitRead
          <6>2. quotes'[s] = Committed(quotes[s], "price", t, b)
              BY <3>2, <4>2, <6>1
          <6> QED
              BY <2>2, <3>1, <4>2, <6>2, CommittedGoesForward
        <5> QED
            BY <5>1, <5>2
      <4> QED
          BY <4>1, <4>2
    <3> QED
        BY <1>1, <3>4, <3>5, QuotesChange
  <2> QED
      BY <2>2 DEF PriceGoesForward
<1> QED
    BY <1>1, EngineAlways, PTL DEF Spec, ReadPricesGoForward

\* refreshNow() returns in one way only.
LEMMA OnlyReturns ==
    ASSUME EngineTypes, [Next]_vars, caller.at = "second", caller'.at = "idle"
    PROVE  RefreshReturns
<1>1. caller.at # "idle" /\ caller.at # "first" /\ caller' # caller
    OBVIOUS
<1>2. ASSUME NEW s, NEW j, StartRead(s, j)
      PROVE  FALSE
  <2>1. caller' = [caller EXCEPT !.fresh = TRUE]
      BY <1>1, <1>2 DEF StartRead
  <2> QED
      BY <2>1 DEF EngineTypes, CallerTypes, CallerRecords
<1>3. ~Start /\ ~Stop /\ ~Tick /\ ~TickTimer /\ ~PokeTimer /\ ~FlushTimer /\ ~RefreshGoesOn /\ ~UNCHANGED vars
    BY <1>1 DEF Start, Stop, Tick, TickTimer, PokeTimer, FlushTimer, RefreshGoesOn, vars
<1>4. /\ \A l : ~ReadQuotes(l)
      /\ \A c, l : ~Watch(c, l)
      /\ \A c : ~Unwatch(c)
    BY <1>1 DEF ReadQuotes, Watch, Unwatch
<1>5. /\ \A s : ~Poke(s) /\ ~RefreshNow(s)
      /\ \A s, j : ~FinishRead(s, j)
      /\ \A s, j, k, t, b : ~CommitRead(s, j, k, t, b)
    BY <1>1 DEF Poke, RefreshNow, FinishRead, CommitRead
<1> QED
    BY <1>2, <1>3, <1>4, <1>5 DEF Next

(* refreshNow() returns after a read that began after the call, in any         *)
(* interleaving with reads, notifications, ticks and other callers, unless the *)
(* engine was stopped or the lease of the call ran out in the meantime.        *)
THEOREM RefreshReadsAgain == Spec => RefreshIsFresh
<1>1. ASSUME EngineIInv, [Next]_vars
      PROVE  [caller.at = "second" /\ caller'.at = "idle"
                => caller.fresh \/ epoch # caller.epoch \/ now >= caller.until]_vars
  <2>1. EngineTypes /\ CallerOK
      BY <1>1 DEF EngineIInv
  <2>2. now \in Nat /\ caller.until \in Nat
      BY <2>1, Numbers DEF EngineTypes, CallerTypes, CallerRecords
  <2>3. ASSUME caller.at = "second", caller'.at = "idle"
        PROVE  caller.fresh \/ epoch # caller.epoch \/ now >= caller.until
    <3>1. job[caller.symbol][caller.job].stage = "ended"
        BY <1>1, <2>1, <2>3, OnlyReturns DEF RefreshReturns, Awaited
    <3>2. CASE epoch = caller.epoch /\ now < caller.until
        BY <2>1, <2>3, <3>1, <3>2 DEF CallerOK
    <3>3. CASE ~(epoch = caller.epoch /\ now < caller.until)
        BY <2>2, <3>3
    <3> QED
        BY <3>2, <3>3
  <2> QED
      BY <2>3
<1> QED
    BY <1>1, EngineAlways, PTL DEF Spec, RefreshIsFresh
=============================================================================
