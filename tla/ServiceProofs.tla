---------------------------- MODULE ServiceProofs ---------------------------
(* The services between the engine and its clients, one after the other:        *)
(*  - the event streams give back what they took and forget no change;          *)
(*  - the store of API keys keeps a revoked key revoked and drops no live one;   *)
(*  - the on-demand quote reads are finished or asked again after a restart;     *)
(*  - the quota of a key is kept, and what it refuses it accepts when it said.   *)
(* Before the stores stand the facts about sublists by places (Places).          *)
EXTENDS QuoteStreams, ApiKeys, RealtimeQuotes, ContextLimiter, FiniteSetTheorems,
        SequenceTheorems, NaturalsInduction, WellFoundedInduction, TLAPS
-----------------------------------------------------------------------------
(***************************************************************************)
(* QuoteStreams                                                            *)
(***************************************************************************)
Takings == {"slot", "watch", "listen", "key", "lease"}

StreamsTypeOK ==
    /\ phase \in [Conns -> {"idle", "open", "closed", "refused"}]
    /\ family \in [ApiConns -> KeyFamilies \cup {NoFamily}]
    /\ socket \in [Conns -> {"up", "down", "gone"}]
    /\ held \in [Conns -> SUBSET Takings]
    /\ perKey \in [KeyFamilies -> Int]
    /\ ver \in [Items -> Nat] /\ sent \in [Conns -> [Items -> Nat]]
    /\ pending \in [SseConns -> Seq(Items \cup {Heartbeat})]
    /\ scheduled \cup stall \subseteq SseConns

\* An open connection has its place and listens; it gives back all it has.
OpenHolds ==
    /\ IsFiniteSet(Open)
    /\ \A c \in Conns : held[c] \subseteq GivenBack(c)
    /\ \A c \in Open : {"slot", "listen"} \subseteq held[c]

\* The pump is due only for a connection with something to write.
PumpHasWork == \A c \in scheduled : pending[c] # <<>>

StreamsInv ==
    StreamsTypeOK /\ OpenHolds /\ PumpHasWork /\ NothingLeaks /\ NoChangeForgotten

Counted(f) == {c \in Open \cap ApiConns : family[c] = f}
-----------------------------------------------------------------------------
(* The pump's list begins with every quote the panel asked for.                 *)
LEMMA EveryQuoteIsQueued ==
    /\ SetToSeq(QuoteItems) \in Seq(QuoteItems)
    /\ ToSet(SetToSeq(QuoteItems)) = QuoteItems
    /\ SetToSeq(QuoteItems) # <<>>
<1> DEFINE N == Cardinality(QuoteItems)
           L == SetToSeq(QuoteItems)
<1>1. IsFiniteSet(QuoteItems) /\ QuoteItems # {}
  BY StreamsAssumption
<1>2. N \in Nat /\ Bijection(1..N, QuoteItems) # {} /\ N # 0
  BY <1>1, FS_CardinalityType, FS_EmptySet DEF ExistsBijection
<1>3. \E f \in [1..N -> QuoteItems] : IsInjective(f)
  BY <1>2 DEF Bijection, Injection
<1>4. L \in [1..N -> QuoteItems] /\ IsInjective(L)
  BY <1>3 DEF SetToSeq
<1>5. IsFiniteSet(1..N) /\ Cardinality(1..N) = N
  BY <1>2, FS_Interval
<1>6. ASSUME NEW q \in QuoteItems, \A n \in 1..N : L[n] # q
      PROVE  FALSE
  <2>1. L \in [1..N -> QuoteItems \ {q}]
    BY <1>4, <1>6
  <2>2. IsFiniteSet(QuoteItems \ {q}) /\ Cardinality(QuoteItems \ {q}) = N - 1
    BY <1>1, FS_RemoveElement
  <2>3. Cardinality(QuoteItems \ {q}) < Cardinality(1..N)
    BY <1>2, <1>5, <2>2
  <2>4. \E m, n \in 1..N : m # n /\ L[m] = L[n]
    <3> HIDE DEF L, N
    <3>1. QED BY <1>5, <2>1, <2>2, <2>3, FS_PigeonHole
  <2>5. QED
    BY <2>4, <1>4 DEF IsInjective
<1>7. \A q \in QuoteItems : \E n \in 1..N : L[n] = q
  BY <1>6
<1>8. L \in Seq(QuoteItems)
  BY <1>2, <1>4
<1>9. ToSet(L) = QuoteItems
  BY <1>4, <1>7 DEF ToSet
<1>10. QED
  BY <1>8, <1>9, <1>1, <1>2, <1>4 DEF ToSet

(* What is queued stays queued, once; the list is then not empty.               *)
LEMMA EnqueuedHolds ==
    ASSUME NEW S, NEW list \in Seq(S), NEW i \in S
    PROVE  /\ Enqueued(list, i) \in Seq(S)
           /\ ToSet(Enqueued(list, i)) = ToSet(list) \cup {i}
           /\ Enqueued(list, i) # <<>>
<1>1. CASE \E n \in DOMAIN list : list[n] = i
  BY <1>1 DEF Enqueued, ToSet
<1>2. CASE ~\E n \in DOMAIN list : list[n] = i
  <2>1. Enqueued(list, i) = Append(list, i)
    BY <1>2 DEF Enqueued
  <2>2. /\ Append(list, i) \in Seq(S)
        /\ DOMAIN Append(list, i) = 1..Len(list) + 1
        /\ \A n \in 1..Len(list) : Append(list, i)[n] = list[n]
        /\ Append(list, i)[Len(list) + 1] = i
        /\ Len(list) \in Nat /\ DOMAIN list = 1..Len(list)
    OBVIOUS
  <2>3. ToSet(Append(list, i)) = ToSet(list) \cup {i}
    BY <2>2 DEF ToSet
  <2>4. Append(list, i) # <<>>
    BY <2>2
  <2>5. QED
    BY <2>1, <2>2, <2>3, <2>4
<1>3. QED
  BY <1>1, <1>2

(* Writing the oldest item leaves the others queued.                            *)
LEMMA TailHolds ==
    ASSUME NEW S, NEW list \in Seq(S), list # <<>>
    PROVE  /\ Head(list) \in S /\ Tail(list) \in Seq(S)
           /\ ToSet(list) \subseteq ToSet(Tail(list)) \cup {Head(list)}
           /\ Tail(list) # <<>> => Len(list) > 1
           /\ Len(list) > 1 => Tail(list) # <<>>
<1>1. /\ Head(list) \in S /\ Tail(list) \in Seq(S)
      /\ Len(Tail(list)) = Len(list) - 1 /\ Len(list) \in Nat \ {0}
      /\ Head(list) = list[1]
      /\ \A n \in 1..Len(list) - 1 : Tail(list)[n] = list[n + 1]
      /\ DOMAIN list = 1..Len(list) /\ DOMAIN Tail(list) = 1..Len(Tail(list))
  BY HeadTailProperties
<1>2. ASSUME NEW n \in DOMAIN list, n # 1
      PROVE  list[n] \in ToSet(Tail(list))
  <2>1. n - 1 \in DOMAIN Tail(list) /\ Tail(list)[n - 1] = list[n]
    BY <1>1, <1>2
  <2>2. QED
    BY <2>1 DEF ToSet
<1>3. ToSet(list) \subseteq ToSet(Tail(list)) \cup {Head(list)}
  BY <1>1, <1>2 DEF ToSet
<1>4. Tail(list) # <<>> <=> Len(Tail(list)) # 0
  BY <1>1, EmptySeq
<1>5. QED
  BY <1>1, <1>3, <1>4
-----------------------------------------------------------------------------
(* The places taken are those of the open connections.                          *)
LEMMA ClientsAreOpen ==
    ASSUME StreamsTypeOK, OpenHolds, NothingLeaks
    PROVE  Clients = Open /\ Listening = Open
BY DEF StreamsTypeOK, OpenHolds, NothingLeaks, Clients, Listening, Open

(* A connection that ends takes its own count away and no other.                *)
LEMMA EndCounts ==
    ASSUME StreamsTypeOK, OpenHolds, NothingLeaks, NEW gone, End(gone), family' = family
    PROVE  /\ Open' = Open \ gone /\ IsFiniteSet(Open')
           /\ perKey' \in [KeyFamilies -> Int]
           /\ \A f \in KeyFamilies : perKey'[f] = Cardinality(Counted(f)')
                                     /\ perKey'[f] <= perKey[f]
           /\ Cardinality(Open') <= Cardinality(Open)
<1> DEFINE Ends(f) == {c \in (gone \cap Open) \cap ApiConns : family[c] = f}
<1>1. Open' = Open \ gone
  BY DEF StreamsTypeOK, End, Open, Conns
<1>2. IsFiniteSet(Open)
  BY DEF OpenHolds
<1>3. IsFiniteSet(Open') /\ Cardinality(Open') <= Cardinality(Open)
  BY <1>1, <1>2, FS_Subset
<1>4. ASSUME NEW f \in KeyFamilies
      PROVE  /\ perKey'[f] \in Int
             /\ perKey'[f] = Cardinality(Counted(f)') /\ perKey'[f] <= perKey[f]
  <2>1. Counted(f)' = Counted(f) \ Ends(f) /\ Counted(f) \cap Ends(f) = Ends(f)
    BY <1>1 DEF Counted
  <2>2. IsFiniteSet(Counted(f)) /\ IsFiniteSet(Ends(f))
    BY <1>2, FS_Subset, Counted(f) \subseteq Open, Ends(f) \subseteq Open DEF Counted
  <2>3. Cardinality(Ends(f)) \in Nat /\ Cardinality(Counted(f)) \in Nat
    BY <2>2, FS_CardinalityType
  <2>4. Cardinality(Counted(f) \ Ends(f))
            = Cardinality(Counted(f)) - Cardinality(Counted(f) \cap Ends(f))
    BY <2>2, FS_Difference
  <2>5. perKey'[f] = perKey[f] - Cardinality(Ends(f))
    BY DEF End
  <2>6. perKey[f] = Cardinality(Counted(f))
    BY DEF NothingLeaks, Counted
  <2>7. Cardinality(Counted(f)') = Cardinality(Counted(f) \ Ends(f))
    BY <2>1, Zenon
  <2>8. Cardinality(Counted(f) \cap Ends(f)) = Cardinality(Ends(f))
    BY <2>1, Zenon
  <2>9. QED
    <3> HIDE DEF Ends
    <3>1. QED BY <2>3, <2>4, <2>5, <2>6, <2>7, <2>8
<1>5. perKey' = [f \in KeyFamilies |-> perKey'[f]]
  BY DEF End
<1>6. perKey' \in [KeyFamilies -> Int]
  BY <1>4, <1>5
<1>7. QED
  BY <1>1, <1>3, <1>4, <1>6

(* However connections end, what is said of the others holds.                   *)
LEMMA EndKeeps ==
    ASSUME StreamsInv, NEW gone, End(gone), UNCHANGED <<family, ver, sent>>,
           socket' \in [Conns -> {"up", "down", "gone"}],
           \A c \in Conns \ gone : socket'[c] = socket[c],
           \A c \in ApiConns \ gone : c \in dirty => c \in dirty'
    PROVE  StreamsInv'
<1>1. /\ Open' = Open \ gone /\ IsFiniteSet(Open')
      /\ perKey' \in [KeyFamilies -> Int]
      /\ \A f \in KeyFamilies : perKey'[f] = Cardinality(Counted(f)') /\ perKey'[f] <= perKey[f]
      /\ Cardinality(Open') <= Cardinality(Open)
  BY EndCounts DEF StreamsInv
<1>2. StreamsTypeOK'
  <2>1. /\ phase' \in [Conns -> {"idle", "open", "closed", "refused"}]
        /\ held' \in [Conns -> SUBSET Takings]
        /\ scheduled' \cup stall' \subseteq SseConns
    BY DEF StreamsInv, StreamsTypeOK, End
  <2>2. pending' \in [SseConns -> Seq(Items \cup {Heartbeat})]
    BY EmptySeq DEF StreamsInv, StreamsTypeOK, End
  <2>3. QED
    BY <1>1, <2>1, <2>2 DEF StreamsInv, StreamsTypeOK, Items
<1>3. \A c \in Conns : /\ held'[c] \subseteq GivenBack(c)
                       /\ c \notin Open' => held'[c] = {}
                       /\ c \in Open' => held'[c] = held[c]
  BY <1>1 DEF StreamsInv, End, OpenHolds, NothingLeaks
<1>4. OpenHolds'
  <2>1. \A c \in Conns : held'[c] \subseteq GivenBack(c)'
    BY <1>3 DEF GivenBack
  <2>2. \A c \in Open' : {"slot", "listen"} \subseteq held'[c]
    BY <1>1, <1>3 DEF StreamsInv, OpenHolds, Open
  <2>3. QED
    BY <1>1, <2>1, <2>2 DEF OpenHolds
<1>5. NothingLeaks'
  <2>1. blocked' \subseteq Open' /\ stall' \cup scheduled' \subseteq Open'
    BY <1>1 DEF StreamsInv, NothingLeaks, End
  <2>2. Clients = Open /\ Clients' \subseteq Open'
    BY <1>3, ClientsAreOpen DEF StreamsInv, Clients
  <2>3. Cardinality(Clients') <= Cardinality(Open')
    BY <1>1, <2>2, FS_Subset
  <2>4. IsFiniteSet(Open) /\ IsFiniteSet(Clients')
    BY <1>1, <2>2, FS_Subset DEF StreamsInv, OpenHolds
  <2>5. /\ Cardinality(Open) \in Nat /\ Cardinality(Open') \in Nat
        /\ Cardinality(Clients') \in Nat
    BY <1>1, <2>4, FS_CardinalityType
  <2>6. Cardinality(Open) <= MaxClients /\ MaxClients \in Nat
    BY <2>2, StreamsAssumption DEF StreamsInv, NothingLeaks
  <2>7. Cardinality(Clients') <= MaxClients
    BY <1>1, <2>3, <2>5, <2>6
  <2>8. ASSUME NEW f \in KeyFamilies
        PROVE  perKey'[f] = Cardinality(Counted(f)') /\ perKey'[f] <= MaxPerFamily
    <3>1. perKey[f] \in Int /\ perKey'[f] \in Int /\ MaxPerFamily \in Nat
      BY <1>1, StreamsAssumption DEF StreamsInv, StreamsTypeOK
    <3>2. QED
      BY <1>1, <3>1 DEF StreamsInv, NothingLeaks
  <2>9. QED
    BY <1>3, <2>1, <2>7, <2>8 DEF NothingLeaks, Counted
<1>6. PumpHasWork'
  BY DEF StreamsInv, StreamsTypeOK, PumpHasWork, End
<1>7. NoChangeForgotten'
  <2>1. \A c \in Open' : c \in Open /\ c \notin gone /\ socket'[c] = socket[c]
    BY <1>1 DEF Open
  <2>2. \A c \in Open' \cap SseConns : /\ pending'[c] = pending[c]
                                       /\ c \in scheduled => c \in scheduled'
                                       /\ c \in blocked => c \in blocked'
    BY <2>1 DEF End
  <2>3. QED
    BY <2>1, <2>2 DEF StreamsInv, NoChangeForgotten
<1>8. QED
  BY <1>2, <1>4, <1>5, <1>6, <1>7 DEF StreamsInv

(* A step that neither opens nor ends a connection leaves its books alone.      *)
LEMMA RestKeeps ==
    ASSUME StreamsInv, UNCHANGED <<phase, family, held, perKey>>,
           blocked' \subseteq Open, stall' \cup scheduled' \subseteq Open
    PROVE  /\ Open' = Open /\ OpenHolds' /\ NothingLeaks'
           /\ Listening = Open
<1>1. Open' = Open /\ Clients' = Clients /\ Listening = Open
  BY ClientsAreOpen DEF StreamsInv, Open, Clients
<1>2. OpenHolds'
  BY <1>1 DEF StreamsInv, OpenHolds, GivenBack
<1>3. NothingLeaks'
  BY <1>1 DEF StreamsInv, NothingLeaks
<1>4. QED
  BY <1>1, <1>2, <1>3

(* A new connection is counted once, and there was room for it.                  *)
LEMMA OpeningCounts ==
    ASSUME StreamsInv, NEW c \in Conns, NEW f, HasRoom(c, f), phase[c] = "idle",
           phase' = [phase EXCEPT ![c] = "open"],
           held' \in [Conns -> SUBSET Takings],
           held'[c] \subseteq GivenBack(c), {"slot", "listen"} \subseteq held'[c],
           \A d \in Conns \ {c} : held'[d] = held[d],
           \/ c \in SseConns /\ UNCHANGED <<family, perKey>>
           \/ /\ c \in ApiConns /\ f \in KeyFamilies
              /\ family' = [family EXCEPT ![c] = f]
              /\ perKey' = [perKey EXCEPT ![f] = @ + 1],
           blocked' \subseteq blocked \cup {c}, stall' \subseteq stall \cup {c},
           scheduled' \subseteq scheduled \cup {c}
    PROVE  /\ Open' = Open \cup {c} /\ OpenHolds' /\ NothingLeaks'
           /\ perKey' \in [KeyFamilies -> Int]
<1>1. Open' = Open \cup {c} /\ c \notin Open
  BY DEF StreamsInv, StreamsTypeOK, Open
<1>2. Clients = Open /\ Clients' = Open \cup {c}
  <2>1. Clients = Open
    BY ClientsAreOpen DEF StreamsInv
  <2>2. QED
    BY <2>1 DEF Clients
<1>3. IsFiniteSet(Open) /\ Cardinality(Open) \in Nat
  BY FS_CardinalityType DEF StreamsInv, OpenHolds
<1>4. IsFiniteSet(Open') /\ Cardinality(Clients') = Cardinality(Open) + 1
  BY <1>1, <1>2, <1>3, FS_AddElement
<1>5. OpenHolds'
  <2>1. \A d \in Conns : held'[d] \subseteq GivenBack(d)'
    BY DEF StreamsInv, OpenHolds, GivenBack
  <2>2. \A d \in Open' : {"slot", "listen"} \subseteq held'[d]
    BY <1>1 DEF StreamsInv, OpenHolds, Open
  <2>3. QED
    BY <1>4, <2>1, <2>2 DEF OpenHolds
<1>6. ASSUME NEW g \in KeyFamilies
      PROVE  /\ perKey'[g] \in Int
             /\ perKey'[g] = Cardinality(Counted(g)') /\ perKey'[g] <= MaxPerFamily
  <2>1. /\ perKey[g] = Cardinality(Counted(g)) /\ perKey[g] <= MaxPerFamily
        /\ perKey[g] \in Int /\ MaxPerFamily \in Nat
    BY StreamsAssumption DEF StreamsInv, NothingLeaks, Counted, StreamsTypeOK
  <2>2. CASE c \in ApiConns /\ f = g
    <3>1. Counted(g)' = Counted(g) \cup {c} /\ c \notin Counted(g)
      BY <1>1, <2>2, StreamsAssumption DEF Counted, StreamsInv, StreamsTypeOK
    <3>2. IsFiniteSet(Counted(g))
      BY <1>3, FS_Subset, Counted(g) \subseteq Open DEF Counted
    <3>3. Cardinality(Counted(g) \cup {c}) = Cardinality(Counted(g)) + 1
      BY <3>1, <3>2, FS_AddElement
    <3>4. Cardinality(Counted(g)') = Cardinality(Counted(g) \cup {c})
      BY <3>1, Zenon
    <3>5. perKey'[g] = perKey[g] + 1
      BY <2>2, StreamsAssumption DEF StreamsInv, StreamsTypeOK
    <3>6. perKey[g] < MaxPerFamily
      BY <2>2 DEF HasRoom
    <3>7. QED
      BY <2>1, <3>3, <3>4, <3>5, <3>6
  <2>3. CASE ~(c \in ApiConns /\ f = g)
    <3>1. Counted(g)' = Counted(g)
      BY <1>1, <2>3, StreamsAssumption DEF Counted, StreamsInv, StreamsTypeOK
    <3>2. Cardinality(Counted(g)') = Cardinality(Counted(g))
      BY <3>1, Zenon
    <3>3. perKey'[g] = perKey[g]
      BY <2>3, StreamsAssumption DEF StreamsInv, StreamsTypeOK
    <3>4. QED
      BY <2>1, <3>2, <3>3
  <2>4. QED
    BY <2>2, <2>3
<1>7. NothingLeaks'
  <2>1. \A d \in Conns : d \notin Open' => held'[d] = {}
    BY <1>1 DEF StreamsInv, NothingLeaks
  <2>2. Cardinality(Clients') <= MaxClients
    <3>1. Cardinality(Clients) < MaxClients /\ MaxClients \in Nat
      BY StreamsAssumption DEF HasRoom
    <3>2. QED
      BY <1>2, <1>3, <1>4, <3>1
  <2>3. blocked' \subseteq Open' /\ stall' \cup scheduled' \subseteq Open'
    BY <1>1 DEF StreamsInv, NothingLeaks
  <2>4. QED
    BY <1>6, <2>1, <2>2, <2>3 DEF NothingLeaks, Counted
<1>8. perKey' \in [KeyFamilies -> Int]
  <2>1. perKey' = [g \in KeyFamilies |-> perKey'[g]]
    BY StreamsAssumption DEF StreamsInv, StreamsTypeOK
  <2>2. QED
    BY <1>6, <2>1
<1>9. QED
  BY <1>1, <1>5, <1>7, <1>8

(* A connection that is turned away, or fails while it opens, has taken nothing. *)
LEMMA NotOpenedKeeps ==
    ASSUME StreamsInv, NEW c \in Conns, phase[c] = "idle", NEW x, x # "open",
           phase' = [phase EXCEPT ![c] = x],
           held' \in [Conns -> SUBSET Takings], held'[c] = {},
           \A d \in Conns \ {c} : held'[d] = held[d],
           \A d \in ApiConns \ {c} : family'[d] = family[d],
           UNCHANGED <<perKey, blocked, scheduled, stall>>
    PROVE  Open' = Open /\ OpenHolds' /\ NothingLeaks'
<1>1. Open' = Open /\ c \notin Open
  BY DEF StreamsInv, StreamsTypeOK, Open
<1>2. Clients' = Clients
  <2>1. held[c] = {}
    BY <1>1 DEF StreamsInv, NothingLeaks
  <2>2. \A d \in Conns : "slot" \in held'[d] <=> "slot" \in held[d]
    BY <2>1
  <2>3. QED
    BY <2>2 DEF Clients
<1>3. OpenHolds'
  <2>1. \A d \in Conns : held'[d] \subseteq GivenBack(d)'
    BY DEF StreamsInv, OpenHolds, GivenBack
  <2>2. \A d \in Open : d # c /\ d \in Conns
    BY <1>1 DEF Open
  <2>3. QED
    BY <1>1, <2>1, <2>2 DEF StreamsInv, OpenHolds
<1>4. ASSUME NEW g \in KeyFamilies
      PROVE  perKey'[g] = Cardinality(Counted(g)') /\ perKey'[g] <= MaxPerFamily
  <2>1. Counted(g)' = Counted(g)
    BY <1>1 DEF Counted
  <2>2. Cardinality(Counted(g)') = Cardinality(Counted(g))
    BY <2>1, Zenon
  <2>3. perKey[g] = Cardinality(Counted(g)) /\ perKey[g] <= MaxPerFamily
    BY DEF StreamsInv, NothingLeaks, Counted
  <2>4. QED
    BY <2>2, <2>3
<1>5. NothingLeaks'
  BY <1>1, <1>2, <1>4 DEF StreamsInv, NothingLeaks, Counted
<1>6. QED
  BY <1>1, <1>3, <1>5
-----------------------------------------------------------------------------
LEMMA RefuseKeeps ==
    ASSUME StreamsInv, NEW c \in Conns, NEW f, Refuse(c, f)
    PROVE  StreamsInv'
<1>1. phase[c] = "idle" /\ phase' = [phase EXCEPT ![c] = "refused"]
  BY DEF Refuse
<1>2. held[c] = {}
  BY <1>1 DEF StreamsInv, NothingLeaks, Open
<1>3. Open' = Open /\ OpenHolds' /\ NothingLeaks'
  BY <1>1, <1>2, NotOpenedKeeps DEF Refuse, StreamsInv, StreamsTypeOK
<1>4. StreamsTypeOK'
  BY DEF Refuse, StreamsInv, StreamsTypeOK
<1>5. PumpHasWork' /\ NoChangeForgotten'
  BY <1>3 DEF Refuse, StreamsInv, PumpHasWork, NoChangeForgotten
<1>6. QED
  BY <1>3, <1>4, <1>5 DEF StreamsInv

LEMMA OpenApiKeeps ==
    ASSUME StreamsInv, NEW c \in ApiConns, NEW f \in KeyFamilies, OpenApi(c, f)
    PROVE  StreamsInv'
<1>0. /\ phase[c] = "idle" /\ HasRoom(c, f) /\ c \in Conns /\ c \notin SseConns
      /\ family' = [family EXCEPT ![c] = f]
      /\ UNCHANGED <<keyWorks, ver, pending, scheduled, stall>>
  BY StreamsAssumption DEF OpenApi, Conns
<1> PICK hello \in Outcomes, first \in Outcomes :
          LET works == f \in keyWorks
              taken == {"slot", "watch", "key"} \cup (IF hello = "lost" THEN {} ELSE {"listen"})
              writes == hello = "ok" /\ works
              ends == hello = "lost" \/ ~works \/ (writes /\ first = "lost")
          IN /\ ~writes => first = "ok"
             /\ phase' = [phase EXCEPT ![c] = IF ends THEN "closed" ELSE "open"]
             /\ held' = [held EXCEPT ![c] = IF ends THEN taken \ GivenBack(c) ELSE taken]
             /\ perKey' = [perKey EXCEPT ![f] = IF ends THEN @ ELSE @ + 1]
             /\ socket' = IF "lost" \in {hello, first} THEN Destroyed({c}) ELSE socket
             /\ blocked' = IF ~ends /\ "full" \in {hello, first} THEN blocked \cup {c} ELSE blocked
             /\ sent' = IF writes /\ ~ends THEN [sent EXCEPT ![c] = ver] ELSE sent
             /\ dirty' = IF ends \/ writes THEN dirty ELSE dirty \cup {c}
  BY DEF OpenApi
<1> DEFINE works == f \in keyWorks
           taken == {"slot", "watch", "key"} \cup (IF hello = "lost" THEN {} ELSE {"listen"})
           writes == hello = "ok" /\ works
           ends == hello = "lost" \/ ~works \/ (writes /\ first = "lost")
<1>1. StreamsTypeOK' \/ ~ends
  BY <1>0 DEF StreamsInv, StreamsTypeOK, Destroyed, Takings, Items
<1>2. socket' \in [Conns -> {"up", "down", "gone"}]
  BY <1>0 DEF StreamsInv, StreamsTypeOK, Destroyed
<1>3. held' \in [Conns -> SUBSET Takings] /\ \A d \in Conns \ {c} : held'[d] = held[d]
  BY <1>0 DEF StreamsInv, StreamsTypeOK, Takings
<1>4. sent' \in [Conns -> [Items -> Nat]]
  BY <1>0 DEF StreamsInv, StreamsTypeOK
<1>5. CASE ends
  <2>1. held'[c] = {}
    BY <1>0, <1>5 DEF StreamsInv, StreamsTypeOK, GivenBack
  <2>2. perKey' = perKey
    BY <1>5 DEF StreamsInv, StreamsTypeOK
  <2>3. phase' = [phase EXCEPT ![c] = "closed"]
    BY <1>5
  <2>4. \A d \in ApiConns \ {c} : family'[d] = family[d]
    BY <1>0 DEF StreamsInv, StreamsTypeOK
  <2>5. blocked' = blocked /\ dirty' = dirty /\ sent' = sent
    BY <1>5
  <2>6. Open' = Open /\ OpenHolds' /\ NothingLeaks'
    <3> HIDE DEF ends
    <3>1. QED BY <1>0, <1>3, <2>1, <2>2, <2>3, <2>4, <2>5, NotOpenedKeeps
  <2>7. PumpHasWork'
    BY <1>0 DEF StreamsInv, PumpHasWork
  <2>8. \A d \in Open' \cap SseConns : socket'[d] = socket[d]
    BY <1>0, <2>6 DEF Destroyed, Open
  <2>9. NoChangeForgotten'
    BY <1>0, <2>5, <2>6, <2>8 DEF StreamsInv, NoChangeForgotten
  <2>10. QED
    BY <1>1, <1>5, <2>6, <2>7, <2>9 DEF StreamsInv
<1>6. CASE ~ends
  <2>1. /\ phase' = [phase EXCEPT ![c] = "open"]
        /\ held'[c] = {"slot", "watch", "key", "listen"}
        /\ perKey' = [perKey EXCEPT ![f] = @ + 1]
    BY <1>0, <1>6 DEF StreamsInv, StreamsTypeOK
  <2>2. held'[c] \subseteq GivenBack(c) /\ {"slot", "listen"} \subseteq held'[c]
    BY <2>1 DEF GivenBack
  <2>3. blocked' \subseteq blocked \cup {c}
    OBVIOUS
  <2>4. /\ Open' = Open \cup {c} /\ OpenHolds' /\ NothingLeaks'
        /\ perKey' \in [KeyFamilies -> Int]
    <3> HIDE DEF ends
    <3>1. QED BY <1>0, <1>3, <2>1, <2>2, <2>3, OpeningCounts
  <2>5. StreamsTypeOK'
    BY <1>0, <1>2, <1>3, <1>4, <2>1, <2>4 DEF StreamsInv, StreamsTypeOK
  <2>6. PumpHasWork'
    BY <1>0 DEF StreamsInv, PumpHasWork
  <2>7. \A d \in Conns \ {c} : socket'[d] = socket[d] /\ sent'[d] = sent[d]
    BY DEF StreamsInv, StreamsTypeOK, Destroyed
  <2>8. \A i \in QuoteItems : sent'[c][i] # ver'[i] => c \in dirty'
    <3>1. CASE writes
      BY <1>0, <1>6, <3>1 DEF StreamsInv, StreamsTypeOK, Items
    <3>2. CASE ~writes
      BY <1>6, <3>2
    <3>3. QED
      BY <3>1, <3>2
  <2>9. \A d \in dirty : d \in dirty'
    OBVIOUS
  <2>10. \A d \in blocked : d \in blocked'
    OBVIOUS
  <2>11. NoChangeForgotten'
    <3> HIDE DEF ends
    <3>1. \A d \in Open' \cap ApiConns, i \in QuoteItems : sent'[d][i] # ver'[i] => d \in dirty'
      BY <1>0, <2>4, <2>7, <2>8, <2>9 DEF StreamsInv, NoChangeForgotten, Conns
    <3>2. \A d \in Open' \cap SseConns : d \in Open /\ d # c /\ d \in Conns
      BY <1>0, <2>4 DEF Conns
    <3>3. QED
      BY <1>0, <2>7, <2>10, <3>1, <3>2 DEF StreamsInv, NoChangeForgotten
  <2>12. QED
    BY <2>4, <2>5, <2>6, <2>11 DEF StreamsInv
<1>7. QED
  BY <1>5, <1>6

LEMMA OpenSseKeeps ==
    ASSUME StreamsInv, NEW c \in SseConns, OpenSse(c)
    PROVE  StreamsInv'
<1>0. /\ phase[c] = "idle" /\ HasRoom(c, NoFamily) /\ c \in Conns /\ c \notin ApiConns
      /\ UNCHANGED <<family, perKey, keyWorks, ver, dirty, stall>>
  BY StreamsAssumption DEF OpenSse, Conns
<1> PICK hello \in Outcomes, reset \in Outcomes :
          LET taken == {"slot", "watch"} \cup (IF hello = "lost" THEN {} ELSE {"lease", "listen"})
              ends == "lost" \in {hello, reset}
          IN /\ hello = "lost" => reset = "ok"
             /\ phase' = [phase EXCEPT ![c] = IF ends THEN "closed" ELSE "open"]
             /\ held' = [held EXCEPT ![c] = IF ends THEN taken \ GivenBack(c) ELSE taken]
             /\ socket' = IF ends THEN Destroyed({c}) ELSE socket
             /\ blocked' = IF ~ends /\ "full" \in {hello, reset} THEN blocked \cup {c} ELSE blocked
             /\ pending' = [pending EXCEPT ![c] = IF ends THEN <<>> ELSE SetToSeq(QuoteItems)]
             /\ scheduled' = IF ends THEN scheduled ELSE scheduled \cup {c}
             /\ sent' = [sent EXCEPT ![c] = [i \in Items |->
                            IF ~ends /\ i \in SampleItems THEN ver[i] ELSE 0]]
  BY DEF OpenSse
<1> DEFINE taken == {"slot", "watch"} \cup (IF hello = "lost" THEN {} ELSE {"lease", "listen"})
           ends == "lost" \in {hello, reset}
<1>1. /\ socket' \in [Conns -> {"up", "down", "gone"}]
      /\ \A d \in Conns \ {c} : socket'[d] = socket[d] /\ sent'[d] = sent[d]
  BY <1>0 DEF StreamsInv, StreamsTypeOK, Destroyed
<1>2. held' \in [Conns -> SUBSET Takings] /\ \A d \in Conns \ {c} : held'[d] = held[d]
  BY <1>0 DEF StreamsInv, StreamsTypeOK, Takings
<1>3. sent' \in [Conns -> [Items -> Nat]]
  <2>1. [i \in Items |-> IF ~ends /\ i \in SampleItems THEN ver[i] ELSE 0] \in [Items -> Nat]
    BY DEF StreamsInv, StreamsTypeOK
  <2>2. QED
    BY <1>0, <2>1 DEF StreamsInv, StreamsTypeOK
<1>4. /\ pending' \in [SseConns -> Seq(Items \cup {Heartbeat})]
      /\ \A d \in SseConns \ {c} : pending'[d] = pending[d]
  <2>1. <<>> \in Seq(Items \cup {Heartbeat})
    BY EmptySeq
  <2>2. SetToSeq(QuoteItems) \in Seq(Items \cup {Heartbeat})
    BY EveryQuoteIsQueued DEF Items
  <2>3. QED
    BY <2>1, <2>2 DEF StreamsInv, StreamsTypeOK
<1>5. CASE ends
  <2>1. held'[c] = {}
    BY <1>0, <1>5 DEF StreamsInv, StreamsTypeOK, GivenBack
  <2>2. phase' = [phase EXCEPT ![c] = "closed"] /\ blocked' = blocked /\ scheduled' = scheduled
    BY <1>5
  <2>3. Open' = Open /\ OpenHolds' /\ NothingLeaks'
    <3> HIDE DEF ends
    <3>1. QED BY <1>0, <1>2, <2>1, <2>2, NotOpenedKeeps
  <2>4. c \notin Open /\ c \notin scheduled
    BY <1>0 DEF StreamsInv, NothingLeaks, Open
  <2>5. StreamsTypeOK'
    BY <1>0, <1>1, <1>2, <1>3, <1>4, <2>2 DEF StreamsInv, StreamsTypeOK
  <2>6. PumpHasWork'
    BY <1>4, <2>2, <2>4 DEF StreamsInv, StreamsTypeOK, PumpHasWork
  <2>7. NoChangeForgotten'
    <3>1. \A d \in Open : d \in Conns \ {c}
      BY <2>4 DEF Open
    <3>2. \A d \in Open : socket'[d] = socket[d] /\ sent'[d] = sent[d] /\ ver' = ver
      BY <1>0, <1>1, <3>1
    <3>3. \A d \in Open \cap SseConns : pending'[d] = pending[d]
      BY <1>4, <2>4
    <3>4. \A d \in Open' \cap ApiConns, i \in QuoteItems : sent'[d][i] # ver'[i] => d \in dirty'
      BY <1>0, <2>3, <3>2 DEF StreamsInv, NoChangeForgotten
    <3>5. ASSUME NEW d \in Open \cap SseConns, socket'[d] = "up"
          PROVE  /\ \A i \in Items : sent'[d][i] # ver'[i] => i \in ToSet(pending'[d])
                 /\ pending'[d] # <<>> => d \in scheduled' \/ d \in blocked'
      <4>1. socket[d] = "up" /\ sent'[d] = sent[d] /\ pending'[d] = pending[d] /\ ver' = ver
        BY <3>2, <3>3, <3>5
      <4>2. QED
        BY <2>2, <4>1 DEF StreamsInv, NoChangeForgotten
    <3>6. QED
      BY <2>3, <3>4, <3>5 DEF NoChangeForgotten
  <2>8. QED
    BY <2>3, <2>5, <2>6, <2>7 DEF StreamsInv
<1>6. CASE ~ends
  <2>1. /\ phase' = [phase EXCEPT ![c] = "open"]
        /\ held'[c] = {"slot", "watch", "lease", "listen"}
        /\ pending'[c] = SetToSeq(QuoteItems)
        /\ scheduled' = scheduled \cup {c}
    BY <1>0, <1>6 DEF StreamsInv, StreamsTypeOK
  <2>2. held'[c] \subseteq GivenBack(c) /\ {"slot", "listen"} \subseteq held'[c]
    BY <1>0, <2>1 DEF GivenBack
  <2>3. blocked' \subseteq blocked \cup {c}
    OBVIOUS
  <2>4. Open' = Open \cup {c} /\ OpenHolds' /\ NothingLeaks'
    <3> HIDE DEF ends
    <3>1. QED BY <1>0, <1>2, <2>1, <2>2, <2>3, OpeningCounts
  <2>5. StreamsTypeOK'
    BY <1>0, <1>1, <1>2, <1>3, <1>4, <2>1 DEF StreamsInv, StreamsTypeOK
  <2>6. PumpHasWork'
    BY <1>4, <2>1, EveryQuoteIsQueued DEF StreamsInv, StreamsTypeOK, PumpHasWork
  <2>7. \A i \in Items : sent'[c][i] # ver'[i] => i \in ToSet(pending'[c])
    <3>1. \A i \in SampleItems : sent'[c][i] = ver[i]
      BY <1>0, <1>6 DEF StreamsInv, StreamsTypeOK, Items
    <3>2. QED
      BY <1>0, <2>1, <3>1, EveryQuoteIsQueued DEF Items
  <2>8. NoChangeForgotten'
    <3> HIDE DEF ends
    <3>1. \A d \in Open : d \in Conns
      BY DEF Open
    <3>2. \A d \in Open' \cap ApiConns : d \in Open /\ d \in Conns \ {c}
      BY <1>0, <2>4, <3>1
    <3>3. \A d \in Open' \cap SseConns : d = c \/ (d \in Open /\ d \in Conns \ {c} /\ d \in SseConns \ {c})
      BY <2>4, <3>1
    <3>4. \A d \in blocked : d \in blocked'
      OBVIOUS
    <3>5. \A d \in Open' \cap ApiConns, i \in QuoteItems : sent'[d][i] # ver'[i] => d \in dirty'
      BY <1>0, <1>1, <3>2 DEF StreamsInv, NoChangeForgotten
    <3>6. ASSUME NEW d \in Open' \cap SseConns, socket'[d] = "up", d # c
          PROVE  /\ \A i \in Items : sent'[d][i] # ver'[i] => i \in ToSet(pending'[d])
                 /\ pending'[d] # <<>> => d \in scheduled' \/ d \in blocked'
      <4>1. /\ d \in Open /\ d \in Conns \ {c} /\ d \in SseConns \ {c}
        BY <3>3, <3>6
      <4>2. socket[d] = "up" /\ sent'[d] = sent[d] /\ pending'[d] = pending[d] /\ ver' = ver
        BY <1>0, <1>1, <1>4, <3>6, <4>1
      <4>3. QED
        BY <2>1, <3>4, <4>1, <4>2 DEF StreamsInv, NoChangeForgotten
    <3>7. QED
      BY <2>1, <2>7, <3>5, <3>6 DEF NoChangeForgotten
  <2>9. QED
    BY <2>4, <2>5, <2>6, <2>8 DEF StreamsInv
<1>7. QED
  BY <1>5, <1>6

LEMMA PublishKeeps ==
    ASSUME StreamsInv, NEW i \in Items, Publish(i)
    PROVE  StreamsInv'
<1>0. /\ UNCHANGED <<phase, family, socket, held, perKey, blocked, keyWorks, sent, stall>>
      /\ ver' = [ver EXCEPT ![i] = @ + 1]
      /\ dirty' = IF i \in QuoteItems THEN dirty \cup (Listening \cap ApiConns) ELSE dirty
      /\ pending' = [c \in SseConns |->
                      IF c \in Listening THEN Enqueued(pending[c], i) ELSE pending[c]]
      /\ scheduled' = scheduled \cup (Listening \cap SseConns)
  BY DEF Publish
<1>1. Listening = Open
  BY ClientsAreOpen DEF StreamsInv
<1>2. blocked' \subseteq Open /\ stall' \cup scheduled' \subseteq Open
  BY <1>0, <1>1 DEF StreamsInv, NothingLeaks
<1>3. Open' = Open /\ OpenHolds' /\ NothingLeaks'
  BY <1>0, <1>2, RestKeeps
<1>4. \A c \in SseConns : /\ pending[c] \in Seq(Items \cup {Heartbeat})
                          /\ pending'[c] \in Seq(Items \cup {Heartbeat})
                          /\ ToSet(pending[c]) \subseteq ToSet(pending'[c])
                          /\ c \in Open => pending'[c] # <<>> /\ i \in ToSet(pending'[c])
                          /\ c \notin Open => pending'[c] = pending[c]
  <2>1. SUFFICES ASSUME NEW c \in SseConns, pending[c] \in Seq(Items \cup {Heartbeat})
                 PROVE  /\ pending'[c] \in Seq(Items \cup {Heartbeat})
                        /\ ToSet(pending[c]) \subseteq ToSet(pending'[c])
                        /\ c \in Open => pending'[c] # <<>> /\ i \in ToSet(pending'[c])
                        /\ c \notin Open => pending'[c] = pending[c]
    BY DEF StreamsInv, StreamsTypeOK
  <2>2. i \in Items \cup {Heartbeat}
    OBVIOUS
  <2>3. /\ Enqueued(pending[c], i) \in Seq(Items \cup {Heartbeat})
        /\ ToSet(Enqueued(pending[c], i)) = ToSet(pending[c]) \cup {i}
        /\ Enqueued(pending[c], i) # <<>>
    <3> DEFINE S == Items \cup {Heartbeat}
               list == pending[c]
    <3>1. list \in Seq(S) /\ i \in S
      BY <2>1, <2>2
    <3> HIDE DEF S, list
    <3>2. /\ Enqueued(list, i) \in Seq(S)
          /\ ToSet(Enqueued(list, i)) = ToSet(list) \cup {i}
          /\ Enqueued(list, i) # <<>>
      BY <3>1, EnqueuedHolds
    <3>3. QED
      BY <3>2 DEF S, list
  <2>4. QED
    BY <1>0, <1>1, <2>1, <2>3
<1>5. StreamsTypeOK'
  <2>1. ver' \in [Items -> Nat]
    BY <1>0 DEF StreamsInv, StreamsTypeOK
  <2>2. scheduled' \cup stall' \subseteq SseConns
    BY <1>0 DEF StreamsInv, StreamsTypeOK
  <2>3. pending' \in [SseConns -> Seq(Items \cup {Heartbeat})]
    BY <1>0, <1>4
  <2>4. QED
    BY <1>0, <2>1, <2>2, <2>3 DEF StreamsInv, StreamsTypeOK
<1>6. PumpHasWork'
  <2>1. \A c \in scheduled' : c \in SseConns /\ c \in Open
    BY <1>2, <1>5 DEF StreamsTypeOK
  <2>2. QED
    BY <1>4, <2>1 DEF PumpHasWork
<1>7. \A j \in Items : j # i => ver'[j] = ver[j]
  BY <1>0 DEF StreamsInv, StreamsTypeOK
<1>8. \A c \in Open \cap ApiConns, j \in QuoteItems : sent'[c][j] # ver'[j] => c \in dirty'
  BY <1>0, <1>1, <1>7 DEF StreamsInv, NoChangeForgotten, Items
<1>9. \A c \in Open \cap SseConns : c \in scheduled' /\ (socket'[c] = "up" =>
                 \A j \in Items : sent'[c][j] # ver'[j] => j \in ToSet(pending'[c]))
  BY <1>0, <1>1, <1>4, <1>7 DEF StreamsInv, NoChangeForgotten
<1>10. NoChangeForgotten'
  BY <1>3, <1>8, <1>9 DEF NoChangeForgotten
<1>11. QED
  BY <1>3, <1>5, <1>6, <1>10 DEF StreamsInv

LEMMA DestroyedHolds ==
    ASSUME StreamsTypeOK, NEW gone
    PROVE  /\ Destroyed(gone) \in [Conns -> {"up", "down", "gone"}]
           /\ \A c \in Conns \ gone : Destroyed(gone)[c] = socket[c]
           /\ \A c \in Conns : Destroyed(gone)[c] = "up" => socket[c] = "up"
BY DEF StreamsTypeOK, Destroyed

LEMMA TickKeeps ==
    ASSUME StreamsInv, NEW c \in ApiConns, Tick(c)
    PROVE  StreamsInv'
<1>0. c \in Open /\ UNCHANGED <<family, keyWorks, ver>> /\ c \in Conns /\ c \notin SseConns
  BY StreamsAssumption DEF Tick, Conns
<1>1. CASE End({c}) /\ UNCHANGED <<socket, sent, dirty>>
  BY <1>0, <1>1, EndKeeps DEF StreamsInv, StreamsTypeOK
<1>2. CASE End({c}) /\ socket' = Destroyed({c}) /\ dirty' = dirty \ {c} /\ UNCHANGED sent
  BY <1>0, <1>2, EndKeeps, DestroyedHolds DEF StreamsInv
<1>3. CASE /\ sent' = [sent EXCEPT ![c] = ver] /\ dirty' = dirty \ {c}
           /\ blocked' = blocked \/ blocked' = blocked \cup {c}
           /\ UNCHANGED <<phase, socket, held, perKey, pending, scheduled, stall>>
  <2>1. Open' = Open /\ OpenHolds' /\ NothingLeaks'
    BY <1>0, <1>3, RestKeeps DEF StreamsInv, NothingLeaks
  <2>2. StreamsTypeOK'
    BY <1>0, <1>3 DEF StreamsInv, StreamsTypeOK
  <2>3. PumpHasWork'
    BY <1>3 DEF StreamsInv, PumpHasWork
  <2>4. sent'[c] = ver /\ \A d \in Conns \ {c} : sent'[d] = sent[d]
    BY <1>0, <1>3 DEF StreamsInv, StreamsTypeOK
  <2>5. NoChangeForgotten'
    <3>1. \A d \in Open : d \in Conns
      BY DEF Open
    <3>2. \A d \in Open' \cap ApiConns, i \in QuoteItems : sent'[d][i] # ver'[i] => d \in dirty'
      BY <1>0, <1>3, <2>1, <2>4, <3>1 DEF StreamsInv, NoChangeForgotten
    <3>3. \A d \in Open' \cap SseConns : d \in Open /\ sent'[d] = sent[d]
      BY <1>0, <2>1, <2>4, <3>1
    <3>4. \A d \in blocked : d \in blocked'
      BY <1>3
    <3>5. QED
      BY <1>0, <1>3, <3>2, <3>3, <3>4 DEF StreamsInv, NoChangeForgotten
  <2>6. QED
    BY <2>1, <2>2, <2>3, <2>5 DEF StreamsInv
<1>4. QED
  BY <1>1, <1>2, <1>3 DEF Tick

LEMMA PumpWaitsKeeps ==
    ASSUME StreamsInv, NEW c \in scheduled, c \in blocked, PumpWaits(c),
           UNCHANGED <<family, keyWorks, ver, dirty>>
    PROVE  StreamsInv'
<1>1. Open' = Open /\ OpenHolds' /\ NothingLeaks'
  <2>1. blocked' \subseteq Open /\ stall' \cup scheduled' \subseteq Open
    BY DEF StreamsInv, NothingLeaks, PumpWaits
  <2>2. QED
    BY <2>1, RestKeeps DEF PumpWaits
<1>2. StreamsTypeOK'
  BY DEF StreamsInv, StreamsTypeOK, PumpWaits
<1>3. PumpHasWork'
  BY DEF StreamsInv, PumpHasWork, PumpWaits
<1>4. NoChangeForgotten'
  BY <1>1 DEF StreamsInv, NoChangeForgotten, PumpWaits
<1>5. QED
  BY <1>1, <1>2, <1>3, <1>4 DEF StreamsInv

\* The oldest item is written, or dropped because the socket is gone.
LEMMA PumpWritesKeeps ==
    ASSUME StreamsInv, NEW c \in scheduled, c \notin blocked, PumpWrites(c),
           UNCHANGED <<family, keyWorks, ver, dirty>>
    PROVE  StreamsInv'
<1> DEFINE i == Head(pending[c])
<1>0. c \in Open /\ c \in Conns /\ c \in SseConns /\ c \notin ApiConns
  BY StreamsAssumption DEF StreamsInv, StreamsTypeOK, NothingLeaks, Open
<1>1. CASE End({c}) /\ socket' = Destroyed({c}) /\ UNCHANGED sent
  BY <1>0, <1>1, EndKeeps, DestroyedHolds DEF StreamsInv
<1>2. ASSUME NEW w \in WriteOutcomes(c),
             w # "lost" \/ socket[c] # "up",
             sent' = IF w # "lost" /\ i \in Items THEN [sent EXCEPT ![c][i] = ver[i]] ELSE sent,
             pending' = [pending EXCEPT ![c] = Tail(@)],
             scheduled' = IF Len(pending[c]) > 1 THEN scheduled ELSE scheduled \ {c},
             stall' = stall \ {c},
             blocked' = IF w = "full" THEN blocked \cup {c} ELSE blocked,
             UNCHANGED <<phase, socket, held, perKey>>
      PROVE  StreamsInv'
  <2>1. Open' = Open /\ OpenHolds' /\ NothingLeaks'
    <3>1. blocked' \subseteq Open /\ stall' \cup scheduled' \subseteq Open
      BY <1>0, <1>2 DEF StreamsInv, NothingLeaks
    <3>2. QED
      BY <1>2, <3>1, RestKeeps
  <2>2. pending[c] \in Seq(Items \cup {Heartbeat}) /\ pending[c] # <<>>
    BY <1>0 DEF StreamsInv, StreamsTypeOK, PumpHasWork
  <2>3. /\ Tail(pending[c]) \in Seq(Items \cup {Heartbeat})
        /\ ToSet(pending[c]) \subseteq ToSet(Tail(pending[c])) \cup {i}
        /\ Tail(pending[c]) # <<>> => Len(pending[c]) > 1
        /\ Len(pending[c]) > 1 => Tail(pending[c]) # <<>>
    <3> DEFINE S == Items \cup {Heartbeat}
               list == pending[c]
    <3>1. list \in Seq(S) /\ list # <<>>
      BY <2>2
    <3> HIDE DEF S, list
    <3>2. /\ Tail(list) \in Seq(S)
          /\ ToSet(list) \subseteq ToSet(Tail(list)) \cup {Head(list)}
          /\ Tail(list) # <<>> => Len(list) > 1
          /\ Len(list) > 1 => Tail(list) # <<>>
      BY <3>1, TailHolds
    <3>3. QED
      BY <3>2 DEF S, list
  <2>4. pending'[c] = Tail(pending[c]) /\ \A d \in SseConns \ {c} : pending'[d] = pending[d]
    BY <1>0, <1>2 DEF StreamsInv, StreamsTypeOK
  <2>5. StreamsTypeOK'
    <3>1. pending' \in [SseConns -> Seq(Items \cup {Heartbeat})]
      BY <1>0, <1>2, <2>3 DEF StreamsInv, StreamsTypeOK
    <3>2. sent' \in [Conns -> [Items -> Nat]]
      BY <1>0, <1>2 DEF StreamsInv, StreamsTypeOK
    <3>3. QED
      BY <1>0, <1>2, <3>1, <3>2 DEF StreamsInv, StreamsTypeOK
  <2>6. PumpHasWork'
    <3>1. \A d \in scheduled' : d \in scheduled /\ d \in SseConns
                                 /\ (d = c => Len(pending[c]) > 1)
      BY <1>2 DEF StreamsInv, StreamsTypeOK
    <3>2. QED
      BY <2>3, <2>4, <3>1 DEF StreamsInv, PumpHasWork
  <2>7. \A d \in Conns \ {c} : sent'[d] = sent[d]
    BY <1>0, <1>2 DEF StreamsInv, StreamsTypeOK
  <2>8. socket[c] = "up" => \A j \in Items : sent'[c][j] # ver[j] => sent[c][j] # ver[j] /\ j # i
    BY <1>0, <1>2 DEF StreamsInv, StreamsTypeOK
  <2>9. NoChangeForgotten'
    <3>1. \A d \in Open : d \in Conns
      BY DEF Open
    <3>2. \A d \in Open' \cap ApiConns, j \in QuoteItems : sent'[d][j] # ver'[j] => d \in dirty'
      BY <1>0, <2>1, <2>7, <3>1 DEF StreamsInv, NoChangeForgotten
    <3>3. ASSUME NEW d \in Open \cap SseConns, socket'[d] = "up", d # c
          PROVE  /\ \A j \in Items : sent'[d][j] # ver'[j] => j \in ToSet(pending'[d])
                 /\ pending'[d] # <<>> => d \in scheduled' \/ d \in blocked'
      <4>1. socket[d] = "up" /\ sent'[d] = sent[d] /\ pending'[d] = pending[d] /\ ver' = ver
        BY <1>2, <2>4, <2>7, <3>1, <3>3
      <4>2. (d \in scheduled => d \in scheduled') /\ (d \in blocked => d \in blocked')
        BY <1>2, <3>3
      <4>3. QED
        BY <4>1, <4>2 DEF StreamsInv, NoChangeForgotten
    <3>4. ASSUME socket'[c] = "up"
          PROVE  /\ \A j \in Items : sent'[c][j] # ver'[j] => j \in ToSet(pending'[c])
                 /\ pending'[c] # <<>> => c \in scheduled'
      <4>1. \A j \in Items : sent[c][j] # ver[j] => j \in ToSet(pending[c])
        BY <1>0, <1>2, <3>4 DEF StreamsInv, NoChangeForgotten
      <4>2. QED
        BY <1>2, <2>3, <2>4, <2>8, <3>4, <4>1
    <3>5. QED
      BY <2>1, <3>2, <3>3, <3>4 DEF NoChangeForgotten
  <2>10. QED
    BY <2>1, <2>5, <2>6, <2>9 DEF StreamsInv
<1>3. QED
  BY <1>1, <1>2 DEF PumpWrites

LEMMA PulseKeeps ==
    ASSUME StreamsInv, NEW c \in SseConns, Pulse(c)
    PROVE  StreamsInv'
<1> DEFINE S == Items \cup {Heartbeat}
           list == pending[c]
           longer == Enqueued(list, Heartbeat)
<1>1. /\ c \in Open /\ c \in Conns /\ c \notin ApiConns
      /\ pending' = [pending EXCEPT ![c] = longer]
      /\ scheduled' = scheduled \cup {c}
      /\ UNCHANGED <<phase, family, socket, held, perKey, blocked, keyWorks, ver, sent, dirty, stall>>
  BY StreamsAssumption DEF Pulse, Conns
<1>2. list \in Seq(S) /\ Heartbeat \in S
  BY DEF StreamsInv, StreamsTypeOK
<1>3. longer \in Seq(S) /\ ToSet(longer) = ToSet(list) \cup {Heartbeat} /\ longer # <<>>
  <2> HIDE DEF S, list
  <2>1. QED BY <1>2, EnqueuedHolds
<1>4. \A d \in SseConns : /\ pending'[d] \in Seq(S)
                          /\ ToSet(pending[d]) \subseteq ToSet(pending'[d])
                          /\ pending[d] # <<>> => pending'[d] # <<>>
                          /\ d # c => pending'[d] = pending[d]
  <2> HIDE DEF longer
  <2>1. \A d \in SseConns : pending[d] \in Seq(S) /\ pending \in [SseConns -> Seq(S)]
    BY DEF StreamsInv, StreamsTypeOK
  <2>2. pending'[c] = longer /\ \A d \in SseConns \ {c} : pending'[d] = pending[d]
    BY <1>1, <2>1
  <2>3. QED
    BY <1>3, <2>1, <2>2
<1> HIDE DEF list, longer
<1>5. Open' = Open /\ OpenHolds' /\ NothingLeaks'
  <2>1. blocked' \subseteq Open /\ stall' \cup scheduled' \subseteq Open
    BY <1>1 DEF StreamsInv, NothingLeaks
  <2>2. QED
    BY <1>1, <2>1, RestKeeps
<1>6. StreamsTypeOK'
  BY <1>1, <1>3 DEF StreamsInv, StreamsTypeOK
<1>7. PumpHasWork'
  <2>1. pending'[c] # <<>>
    BY <1>1, <1>3 DEF StreamsInv, StreamsTypeOK
  <2>2. \A d \in scheduled' : d = c \/ (d \in scheduled /\ d \in SseConns)
    BY <1>1 DEF StreamsInv, StreamsTypeOK
  <2>3. QED
    BY <1>4, <2>1, <2>2 DEF StreamsInv, PumpHasWork
<1>8. NoChangeForgotten'
  <2>1. \A d \in Open' \cap ApiConns, i \in QuoteItems : sent'[d][i] # ver'[i] => d \in dirty'
    BY <1>1, <1>5 DEF StreamsInv, NoChangeForgotten
  <2>2. ASSUME NEW d \in Open \cap SseConns, socket'[d] = "up"
        PROVE  /\ \A j \in Items : sent'[d][j] # ver'[j] => j \in ToSet(pending'[d])
               /\ pending'[d] # <<>> => d \in scheduled' \/ d \in blocked'
    BY <1>1, <1>4, <2>2 DEF StreamsInv, NoChangeForgotten
  <2>3. QED
    BY <1>5, <2>1, <2>2 DEF NoChangeForgotten
<1>9. QED
  BY <1>5, <1>6, <1>7, <1>8 DEF StreamsInv

LEMMA DrainKeeps ==
    ASSUME StreamsInv, NEW c \in Conns, Drain(c)
    PROVE  StreamsInv'
<1>1. /\ c \in blocked /\ c \in Open /\ blocked' = blocked \ {c}
      /\ scheduled' = IF Resumes(c) THEN scheduled \cup {c} ELSE scheduled
      /\ UNCHANGED <<phase, family, socket, held, perKey, keyWorks, ver, sent, dirty, pending, stall>>
  BY DEF Drain, StreamsInv, NothingLeaks
<1>2. Open' = Open /\ OpenHolds' /\ NothingLeaks'
  <2>1. blocked' \subseteq Open /\ stall' \cup scheduled' \subseteq Open
    BY <1>1 DEF StreamsInv, NothingLeaks
  <2>2. QED
    BY <1>1, <2>1, RestKeeps
<1>3. StreamsTypeOK'
  BY <1>1 DEF StreamsInv, StreamsTypeOK, Resumes
<1>4. PumpHasWork'
  BY <1>1 DEF StreamsInv, PumpHasWork, Resumes
<1>5. NoChangeForgotten'
  <2>1. \A d \in Open \cap SseConns : pending[d] # <<>> /\ (d \in scheduled \/ d \in blocked)
                                     => d \in scheduled' \/ d \in blocked'
    BY <1>1 DEF Resumes
  <2>2. QED
    BY <1>1, <1>2, <2>1 DEF StreamsInv, NoChangeForgotten
<1>6. QED
  BY <1>2, <1>3, <1>4, <1>5 DEF StreamsInv

LEMMA ClientLeavesKeeps ==
    ASSUME StreamsInv, NEW c \in Conns, ClientLeaves(c)
    PROVE  StreamsInv'
<1>1. Open' = Open /\ OpenHolds' /\ NothingLeaks'
  BY RestKeeps DEF ClientLeaves, StreamsInv, NothingLeaks
<1>2. StreamsTypeOK'
  BY DestroyedHolds DEF ClientLeaves, StreamsInv, StreamsTypeOK
<1>3. PumpHasWork'
  BY DEF ClientLeaves, StreamsInv, PumpHasWork
<1>4. NoChangeForgotten'
  <2>1. \A d \in Open : d \in Conns /\ (socket'[d] = "up" => socket[d] = "up")
    BY DestroyedHolds DEF ClientLeaves, StreamsInv, Open
  <2>2. QED
    BY <1>1, <2>1 DEF ClientLeaves, StreamsInv, NoChangeForgotten
<1>5. QED
  BY <1>1, <1>2, <1>3, <1>4 DEF StreamsInv

LEMMA KeyEndsKeeps ==
    ASSUME StreamsInv, UNCHANGED <<phase, family, socket, held, perKey, blocked, ver, sent,
                                   dirty, pending, scheduled, stall>>
    PROVE  StreamsInv'
<1>1. Open' = Open /\ OpenHolds' /\ NothingLeaks'
  BY RestKeeps DEF StreamsInv, NothingLeaks
<1>2. StreamsTypeOK' /\ PumpHasWork'
  BY DEF StreamsInv, StreamsTypeOK, PumpHasWork
<1>3. NoChangeForgotten'
  BY <1>1 DEF StreamsInv, NoChangeForgotten
<1>4. QED
  BY <1>1, <1>2, <1>3 DEF StreamsInv
-----------------------------------------------------------------------------
LEMMA StreamsInvStarts == StreamsInit => StreamsInv
<1> SUFFICES ASSUME StreamsInit PROVE StreamsInv
  OBVIOUS
<1>1. Open = {} /\ Clients = {}
  BY DEF StreamsInit, Open, Clients
<1>2. StreamsTypeOK
  BY EmptySeq DEF StreamsInit, StreamsTypeOK
<1>3. OpenHolds /\ PumpHasWork /\ NoChangeForgotten
  BY <1>1, FS_EmptySet DEF StreamsInit, OpenHolds, PumpHasWork, NoChangeForgotten
<1>4. NothingLeaks
  <2>1. \A f \in KeyFamilies : Counted(f) = {}
    BY <1>1 DEF Counted
  <2>2. ASSUME NEW f \in KeyFamilies
        PROVE  perKey[f] = Cardinality(Counted(f)) /\ perKey[f] <= MaxPerFamily
    <3>1. Cardinality(Counted(f)) = 0
      BY <2>1, FS_EmptySet, Zenon
    <3>2. perKey[f] = 0 /\ MaxPerFamily \in Nat
      BY StreamsAssumption DEF StreamsInit
    <3>3. QED
      BY <3>1, <3>2
  <2>3. Cardinality(Clients) <= MaxClients
    BY <1>1, FS_EmptySet, StreamsAssumption
  <2>4. QED
    BY <1>1, <2>2, <2>3 DEF StreamsInit, NothingLeaks, Counted
<1>5. QED
  BY <1>2, <1>3, <1>4 DEF StreamsInv

LEMMA StepKeepsStreamsInv ==
    ASSUME StreamsInv, [StreamsNext]_streamVars
    PROVE  StreamsInv'
<1>1. CASE \E c \in ApiConns : Tick(c) \/ \E f \in KeyFamilies : OpenApi(c, f) \/ Refuse(c, f)
  BY <1>1, TickKeeps, OpenApiKeeps, RefuseKeeps DEF Conns
<1>2. CASE \E c \in SseConns : OpenSse(c) \/ Refuse(c, NoFamily) \/ Pulse(c)
  BY <1>2, OpenSseKeeps, RefuseKeeps, PulseKeeps DEF Conns
<1>3. ASSUME NEW c \in SseConns, Pump(c) PROVE StreamsInv'
  BY <1>3, PumpWaitsKeeps, PumpWritesKeeps DEF Pump
<1>4. ASSUME NEW c \in SseConns, StallTimer(c) PROVE StreamsInv'
  BY <1>4, EndKeeps, DestroyedHolds DEF StallTimer, StreamsInv
<1>5. CASE \E c \in Conns : Drain(c) \/ ClientLeaves(c)
  BY <1>5, DrainKeeps, ClientLeavesKeeps
<1>6. ASSUME NEW c \in Conns, CloseEvent(c) PROVE StreamsInv'
  <2>1. /\ socket' \in [Conns -> {"up", "down", "gone"}]
        /\ \A d \in Conns \ {c} : socket'[d] = socket[d]
    BY <1>6 DEF CloseEvent, StreamsInv, StreamsTypeOK
  <2>2. QED
    BY <1>6, <2>1, EndKeeps DEF CloseEvent
<1>7. CASE \E i \in Items : Publish(i)
  BY <1>7, PublishKeeps
<1>8. CASE \E f \in KeyFamilies : KeyEnds(f)
  BY <1>8, KeyEndsKeeps DEF KeyEnds
<1>9. CASE CloseAll
  <2>1. PICK all : all = Open
    OBVIOUS
  <2>2. End(all)
    BY <1>9, <2>1 DEF CloseAll
  <2>3. QED
    BY <1>9, <2>2, EndKeeps DEF CloseAll, StreamsInv, StreamsTypeOK
<1>10. CASE UNCHANGED streamVars
  BY <1>10, KeyEndsKeeps DEF streamVars
<1>11. QED
  BY <1>1, <1>2, <1>3, <1>4, <1>5, <1>6, <1>7, <1>8, <1>9, <1>10 DEF StreamsNext

(* Whatever order refusals, lost writes, stalls, revoked keys and close events come *)
(* in, a connection gives back its place, watch, lease, subscription and count once *)
(* (close() and cleanup() of the two stream services).                              *)
THEOREM StreamsLeakNothing == StreamsSpec => []NothingLeaks
<1>1. StreamsInit => StreamsInv
  BY StreamsInvStarts
<1>2. StreamsInv /\ [StreamsNext]_streamVars => StreamsInv'
  BY StepKeepsStreamsInv
<1>3. StreamsInv => NothingLeaks
  BY DEF StreamsInv
<1>4. QED
  BY <1>1, <1>2, <1>3, PTL DEF StreamsSpec

(* Coalescing loses no change: an open stream was told the newest, or has it noted  *)
(* and a tick, pump, drain or close event coming (schedule() and pump() of sse.js). *)
THEOREM ChangesAreRemembered == StreamsSpec => []NoChangeForgotten
<1>1. StreamsInit => StreamsInv
  BY StreamsInvStarts
<1>2. StreamsInv /\ [StreamsNext]_streamVars => StreamsInv'
  BY StepKeepsStreamsInv
<1>3. StreamsInv => NoChangeForgotten
  BY DEF StreamsInv
<1>4. QED
  BY <1>1, <1>2, <1>3, PTL DEF StreamsSpec
-----------------------------------------------------------------------------
(***************************************************************************)
(* Places                                                                  *)
(***************************************************************************)

Below(S, i) == {j \in S : j < i}

LEMMA BelowIsFinite ==
    ASSUME NEW m \in Nat, NEW S \in SUBSET (1..m), NEW i
    PROVE  /\ IsFiniteSet(S) /\ IsFiniteSet(Below(S, i))
           /\ Cardinality(S) \in Nat /\ Cardinality(Below(S, i)) \in Nat
           /\ Cardinality(Below(S, i)) <= Cardinality(S)
<1>1. IsFiniteSet(1..m)
  BY FS_Interval
<1>2. IsFiniteSet(S)
  BY <1>1, FS_Subset
<1>3. Below(S, i) \subseteq S
  BY DEF Below
<1> QED
  BY <1>2, <1>3, FS_Subset, FS_CardinalityType

LEMMA LeastPosition ==
    ASSUME NEW S \in SUBSET Nat, S # {}
    PROVE  \E x \in S : \A y \in S : x <= y
<1> DEFINE R == {pair \in Nat \X Nat : pair[1] < pair[2]}
<1>1. IsWellFoundedOn(R, Nat)
  BY NatLessThanWellFounded DEF OpToRel
<1> HIDE DEF R
<1>2. PICK x \in S : \A y \in S : <<y, x>> \notin R
  BY <1>1, WFMin
<1>3. \A y \in S : ~(y < x)
  BY <1>2 DEF R
<1> QED
  BY <1>3

\* A smaller position has a smaller rank, and a rank below the size.
LEMMA RanksGrow ==
    ASSUME NEW m \in Nat, NEW S \in SUBSET (1..m), NEW i \in S, NEW k \in 1..m + 1, i < k
    PROVE  Cardinality(Below(S, i)) < Cardinality(Below(S, k))
<1>0. \A j \in S : j \in Int /\ (j < i => j < k) /\ ~(i < i)
  OBVIOUS
<1>1. Below(S, i) \cup {i} \subseteq Below(S, k) /\ i \notin Below(S, i)
  BY <1>0, Zenon DEF Below
<1>2. Cardinality(Below(S, i) \cup {i}) = Cardinality(Below(S, i)) + 1
  BY <1>1, BelowIsFinite, FS_AddElement
<1>3. Cardinality(Below(S, i) \cup {i}) <= Cardinality(Below(S, k))
  BY <1>1, BelowIsFinite, FS_Subset
<1>4. Cardinality(Below(S, i)) \in Nat /\ Cardinality(Below(S, k)) \in Nat
  BY BelowIsFinite
<1> QED
  BY <1>2, <1>3, <1>4

LEMMA RankOfAll ==
    ASSUME NEW m \in Nat, NEW S \in SUBSET (1..m)
    PROVE  Below(S, m + 1) = S
<1>1. \A j \in S : j \in Int /\ j < m + 1
  OBVIOUS
<1> QED
  BY <1>1 DEF Below

LEMMA RankFits ==
    ASSUME NEW m \in Nat, NEW S \in SUBSET (1..m), NEW i \in S
    PROVE  Cardinality(Below(S, i)) + 1 \in 1..Cardinality(S)
<1>1. i < m + 1 /\ m + 1 \in 1..m + 1
  OBVIOUS
<1>2. Cardinality(Below(S, i)) < Cardinality(Below(S, m + 1))
  BY <1>1, RanksGrow
<1>3. Cardinality(Below(S, i)) \in Nat /\ Cardinality(S) \in Nat
  BY BelowIsFinite
<1> QED
  BY <1>2, <1>3, RankOfAll

\* The first position with n of S below it comes right after the one of rank n.
LEMMA EveryRankIsTaken ==
    ASSUME NEW m \in Nat, NEW S \in SUBSET (1..m), NEW n \in 1..Cardinality(S)
    PROVE  \E i \in S : Cardinality(Below(S, i)) = n - 1
<1> DEFINE rank(j) == Cardinality(Below(S, j))
           over == {j \in 1..m + 1 : rank(j) >= n}
<1>1. \A j : rank(j) \in Nat
  BY BelowIsFinite
<1>2. rank(m + 1) >= n /\ n \in Nat /\ n >= 1
  BY RankOfAll, BelowIsFinite
<1> HIDE DEF rank
<1>3. m + 1 \in over /\ over \subseteq Nat
  BY <1>2
<1>4. PICK j \in over : \A k \in over : j <= k
  <2> HIDE DEF over
  <2>1. QED BY <1>3, LeastPosition
<1>5. j \in 1..m + 1 /\ rank(j) >= n
  OBVIOUS
<1>6. j # 1
  <2>1. \A i \in S : i \in Int /\ ~(i < 1)
    OBVIOUS
  <2>2. Below(S, 1) = {}
    BY <2>1 DEF Below
  <2>3. rank(1) = 0
    BY <2>2, FS_EmptySet DEF rank
  <2>4. QED BY <2>3, <1>5, <1>2
<1> DEFINE i == j - 1
<1>7. i \in 1..m /\ i \in 1..m + 1 /\ i < j /\ j = i + 1
  BY <1>5, <1>6
<1>8. rank(i) < n
  BY <1>7, <1>4, <1>1, <1>2
<1> HIDE DEF i
<1>9. \A k \in S : k < j <=> (k < i \/ k = i)
  <2>1. \A k \in S : k \in Int
    OBVIOUS
  <2>2. QED BY <2>1, <1>7
<1>10. i \in S
  <2>1. SUFFICES ASSUME i \notin S PROVE FALSE
    OBVIOUS
  <2>2. Below(S, j) = Below(S, i)
    BY <2>1, <1>9 DEF Below
  <2>3. QED BY <2>2, <1>5, <1>8, <1>1, <1>2 DEF rank
<1>11. Below(S, j) = Below(S, i) \cup {i} /\ i \notin Below(S, i)
  <2>1. ~(i < i) /\ i < j
    BY <1>7
  <2>2. QED BY <2>1, <1>9, <1>10, Zenon DEF Below
<1>12. rank(j) = rank(i) + 1
  BY <1>11, BelowIsFinite, FS_AddElement DEF rank
<1>13. rank(i) = n - 1
  BY <1>12, <1>8, <1>5, <1>1, <1>2
<1> QED
  BY <1>13, <1>10 DEF rank

LEMMA NthIsThere ==
    ASSUME NEW m \in Nat, NEW S \in SUBSET (1..m)
    PROVE  /\ \A n \in 1..Cardinality(S) : Nth(S, n) \in S /\ Rank(S, Nth(S, n)) = n - 1
           /\ \A i \in S : \E n \in 1..Cardinality(S) : Nth(S, n) = i
<1>0. \A i : Rank(S, i) = Cardinality(Below(S, i))
  BY DEF Rank, Below
<1>1. ASSUME NEW n \in 1..Cardinality(S)
      PROVE  Nth(S, n) \in S /\ Rank(S, Nth(S, n)) = n - 1
  BY <1>0, EveryRankIsTaken DEF Nth
<1>2. ASSUME NEW i \in S PROVE \E n \in 1..Cardinality(S) : Nth(S, n) = i
  <2>1. PICK n \in 1..Cardinality(S) : n = Cardinality(Below(S, i)) + 1
    BY RankFits
  <2>2. /\ Nth(S, n) \in S /\ n \in Nat
        /\ Cardinality(Below(S, Nth(S, n))) = n - 1
    BY <1>0, <1>1
  <2>3. Cardinality(Below(S, Nth(S, n))) \in Nat /\ Cardinality(Below(S, i)) \in Nat
    BY BelowIsFinite
  <2>4. Nth(S, n) \in 1..m + 1 /\ i \in 1..m + 1
    <3>1. \A j \in S : j \in 1..m + 1
      OBVIOUS
    <3>2. QED BY <3>1, <2>2
  <2>5. ~(Nth(S, n) < i)
    BY <2>1, <2>2, <2>3, <2>4, RanksGrow
  <2>6. ~(i < Nth(S, n))
    BY <2>1, <2>2, <2>3, <2>4, RanksGrow
  <2>7. QED BY <2>4, <2>5, <2>6
<1> QED
  BY <1>1, <1>2

\* What a sublist holds: each element of the places once, in its place.
LEMMA SelectedHolds ==
    ASSUME NEW T, NEW list \in Seq(T), NEW S \in SUBSET (DOMAIN list)
    PROVE  /\ Selected(list, S) \in Seq(T)
           /\ DOMAIN Selected(list, S) = 1..Cardinality(S) /\ Cardinality(S) \in Nat
           /\ \A n \in 1..Cardinality(S) : /\ Nth(S, n) \in S
                                           /\ Selected(list, S)[n] = list[Nth(S, n)]
           /\ \A i \in S : \E n \in 1..Cardinality(S) : Nth(S, n) = i
           /\ \A n, k \in 1..Cardinality(S) : Nth(S, n) = Nth(S, k) => n = k
<1>1. /\ Len(list) \in Nat /\ DOMAIN list = 1..Len(list)
      /\ \A i \in DOMAIN list : list[i] \in T
  OBVIOUS
<1>2. S \in SUBSET (1..Len(list))
  BY <1>1
<1>3. Cardinality(S) \in Nat
  BY <1>1, <1>2, BelowIsFinite
<1>4. /\ \A n \in 1..Cardinality(S) : Nth(S, n) \in S /\ Rank(S, Nth(S, n)) = n - 1
      /\ \A i \in S : \E n \in 1..Cardinality(S) : Nth(S, n) = i
  BY <1>1, <1>2, NthIsThere
<1>5. Selected(list, S) \in [1..Cardinality(S) -> T]
  BY <1>1, <1>4 DEF Selected
<1>6. Selected(list, S) \in Seq(T)
  BY <1>3, <1>5
<1>7. ASSUME NEW n \in 1..Cardinality(S), NEW k \in 1..Cardinality(S), Nth(S, n) = Nth(S, k)
      PROVE  n = k
  <2>1. n - 1 = k - 1
    BY <1>4, <1>7
  <2> QED
    BY <1>3, <2>1
<1> QED
  BY <1>3, <1>4, <1>6, <1>7 DEF Selected

\* The first n are n, unless there are fewer.
LEMMA ForemostCounts ==
    ASSUME NEW m \in Nat, NEW S \in SUBSET (1..m), NEW n \in Nat
    PROVE  /\ Foremost(S, n) \subseteq S /\ IsFiniteSet(Foremost(S, n))
           /\ Cardinality(Foremost(S, n)) \in Nat /\ Cardinality(Foremost(S, n)) <= n
           /\ Foremost(S, n) = S \/ Cardinality(Foremost(S, n)) = n
<1>0. \A i : Rank(S, i) = Cardinality(Below(S, i))
  BY DEF Rank, Below
<1>1. Foremost(S, n) \subseteq S /\ IsFiniteSet(S) /\ Cardinality(S) \in Nat
  BY BelowIsFinite DEF Foremost
<1>2. /\ IsFiniteSet(Foremost(S, n)) /\ Cardinality(Foremost(S, n)) \in Nat
      /\ Cardinality(Foremost(S, n)) <= Cardinality(S)
  BY <1>1, FS_Subset, FS_CardinalityType
<1>3. CASE Cardinality(S) <= n
  <2>1. \A i \in S : Rank(S, i) + 1 \in 1..Cardinality(S)
    BY <1>0, RankFits
  <2>2. \A i \in S : Rank(S, i) \in Nat
    BY <1>0, BelowIsFinite
  <2>3. \A i \in S : Rank(S, i) < n
    BY <2>1, <2>2, <1>1, <1>3
  <2> QED
    BY <1>1, <1>2, <1>3, <2>3 DEF Foremost
<1>4. CASE n < Cardinality(S)
  <2>1. n + 1 \in 1..Cardinality(S)
    BY <1>1, <1>4
  <2>2. PICK i \in S : Cardinality(Below(S, i)) = (n + 1) - 1
    BY <2>1, EveryRankIsTaken
  <2>3. Rank(S, i) = n /\ i \in 1..m + 1 /\ i \in Int
    <3>1. i \in 1..m
      OBVIOUS
    <3> QED
      BY <1>0, <2>2, <3>1
  <2>4. ASSUME NEW j \in S PROVE Rank(S, j) < n <=> j < i
    <3>1. j \in 1..m + 1 /\ j \in Int
      <4>1. j \in 1..m
        OBVIOUS
      <4> QED
        BY <4>1
    <3>2. Rank(S, j) \in Nat /\ Rank(S, i) \in Nat
      BY <1>0, BelowIsFinite
    <3>3. ASSUME j < i PROVE Rank(S, j) < Rank(S, i)
      BY <1>0, <2>3, <3>3, RanksGrow
    <3>4. ASSUME i < j PROVE Rank(S, i) < Rank(S, j)
      BY <1>0, <3>1, <3>4, RanksGrow
    <3> QED
      BY <2>3, <3>1, <3>2, <3>3, <3>4
  <2>5. Foremost(S, n) = Below(S, i)
    BY <2>4 DEF Foremost, Below
  <2> QED
    BY <1>1, <1>2, <2>2, <2>5
<1> QED
  BY <1>1, <1>3, <1>4
-----------------------------------------------------------------------------
(***************************************************************************)
(* ApiKeys                                                                 *)
(***************************************************************************)

KeyRecords ==
    [digest : Secrets, class : {"legacy", "retired", "managed"},
     family : Secrets \cup {"legacy"}, status : {"active", "rotating", "revoked"},
     expires : Nat \cup {NoKey}]

\* A digest is listed once.
Unique(keys) ==
    \A i, j \in DOMAIN keys : keys[i].digest = keys[j].digest => i = j

\* Revoked for good: all that were revoked, but for those the environment brought back.
Final == revokedBefore \ revived

\* What a list of records knows of the keys that are revoked for good, of those the
\* environment brought back, and of those given out.
Sound(keys, gone, back, given) ==
    /\ keys \in Seq(KeyRecords)
    /\ Unique(keys)
    /\ \A i \in DOMAIN keys :
          /\ keys[i].digest \in NewSecrets => keys[i].digest \in given
          /\ keys[i].digest \in EnvSecrets \cup back => keys[i].class # "managed"
          /\ keys[i].class = "retired" => keys[i].status = "revoked"
          /\ keys[i].digest \in gone => keys[i].status = "revoked"
          /\ keys[i].status = "active" => keys[i].expires = NoKey
    /\ gone \cap EnvSecrets \subseteq Digests(keys)

\* A list a process works with knows no environment key but its own.
OfEnv(keys) == \A i \in DOMAIN keys : keys[i].class = "legacy" => keys[i].digest = env

\* What a record of the list in memory may have become in the list being written.
TurnsInto(k, r) ==
    /\ r.digest = k.digest /\ r.class = k.class
    /\ \/ r.status = "revoked"
       \/ r.status = k.status /\ r.expires = k.expires
       \/ r.status = "rotating" /\ k.status = "active"

Carries(next) ==
    \A i \in DOMAIN All :
        Spare(All[i], NoKey) \/ \E n \in DOMAIN next : TurnsInto(All[i], next[n])

WorkSound ==
    \A a \in Admins : work[a] # NoKey =>
        /\ serving
        /\ Sound(work[a], Final, revived, drawn) /\ OfEnv(work[a])
        /\ Carries(work[a])
        /\ \A b \in Admins : work[b] # NoKey => a = b

KeysInv ==
    /\ drawn \subseteq NewSecrets /\ revokedBefore \subseteq EnvSecrets \cup drawn
    /\ keyNow \in Nat /\ starts \in Nat
    /\ env \in EnvSecrets \cup drawn \cup {NoKey}
    /\ revived \subseteq revokedBefore \ EnvSecrets
    /\ work \in [Admins -> Seq(KeyRecords) \cup {NoKey}]
    /\ Sound(file, Final, revived, drawn)
    /\ serving => Sound(records, Final, revived, drawn) /\ OfEnv(records)
    /\ serving /\ env \in Final => env \in Digests(records)
    /\ serving \/ records = <<>>
    /\ WorkSound
-----------------------------------------------------------------------------
(* What a request makes of the list                                         *)

\* Only spare records of the list are missing, and nothing else is there.
PartOf(part, keys, old) ==
    /\ part \in Seq(KeyRecords) /\ Unique(part)
    /\ \A n \in DOMAIN part : \E i \in DOMAIN keys : part[n] = keys[i]
    /\ \A i \in DOMAIN keys : Spare(keys[i], old) \/ \E n \in DOMAIN part : part[n] = keys[i]

LEMMA CompactedIsPart ==
    ASSUME NEW keys \in Seq(KeyRecords), Unique(keys), NEW old
    PROVE  PartOf(Compacted(keys, old), keys, old)
<1> DEFINE spare == {i \in DOMAIN keys : Spare(keys[i], old)}
           excess == Len(keys) - (Capacity - 1)
           stays == DOMAIN keys \ Foremost(spare, excess)
           part == Selected(keys, stays)
<1>1. CASE excess <= 0
  BY <1>1 DEF Compacted, PartOf
<1>2. CASE ~(excess <= 0)
  <2>1. Compacted(keys, old) = part
    BY <1>2 DEF Compacted
  <2>2. stays \subseteq DOMAIN keys /\ \A i \in DOMAIN keys : Spare(keys[i], old) \/ i \in stays
    BY DEF Foremost
  <2> HIDE DEF stays
  <2>3. /\ part \in Seq(KeyRecords) /\ DOMAIN part = 1..Cardinality(stays)
        /\ \A n \in DOMAIN part : Nth(stays, n) \in stays /\ part[n] = keys[Nth(stays, n)]
        /\ \A i \in stays : \E n \in DOMAIN part : Nth(stays, n) = i
        /\ \A n, k \in DOMAIN part : Nth(stays, n) = Nth(stays, k) => n = k
    BY <2>2, SelectedHolds
  <2> HIDE DEF part
  <2>4. \A n \in DOMAIN part : Nth(stays, n) \in DOMAIN keys
    BY <2>2, <2>3
  <2>5. Unique(part)
    BY <2>3, <2>4 DEF Unique
  <2> QED
    BY <2>1, <2>2, <2>3, <2>4, <2>5 DEF PartOf
<1> QED
  BY <1>1, <1>2

\* What a request makes of a list: records that turned into others, and at most one
\* new key with a secret that was not drawn before.
Derived(next, keys, secrets) ==
    /\ next \in Seq(KeyRecords) /\ Unique(next)
    /\ \A n \in DOMAIN next :
          \/ \E i \in DOMAIN keys : TurnsInto(keys[i], next[n])
          \/ /\ next[n].digest \in secrets /\ next[n].class = "managed"
             /\ next[n].status = "active" /\ next[n].expires = NoKey
    /\ \A i \in DOMAIN keys :
          Spare(keys[i], NoKey) \/ \E n \in DOMAIN next : TurnsInto(keys[i], next[n])

LEMMA AppendDerives ==
    ASSUME NEW keys \in Seq(KeyRecords), NEW part \in Seq(KeyRecords), Derived(part, keys, {}),
           NEW s \in NewSecrets, \A i \in DOMAIN keys : keys[i].digest # s,
           NEW fam \in Secrets \cup {"legacy"}
    PROVE  Derived(Append(part, Managed(s, fam)), keys, {s})
<1> DEFINE new == Managed(s, fam)
           next == Append(part, new)
<1>1. /\ new \in KeyRecords /\ new.digest = s /\ new.class = "managed"
      /\ new.status = "active" /\ new.expires = NoKey
  BY DEF Managed, KeyRecords, Secrets
<1> HIDE DEF new
<1>2. /\ next \in Seq(KeyRecords) /\ DOMAIN next = 1..Len(part) + 1
      /\ Len(part) \in Nat /\ DOMAIN part = 1..Len(part)
      /\ next[Len(part) + 1] = new /\ \A n \in DOMAIN part : next[n] = part[n]
  BY <1>1
<1>3. \A n \in DOMAIN next : n \in DOMAIN part \/ n = Len(part) + 1
  BY <1>2
<1>4. \A n \in DOMAIN part : part[n].digest # s
  BY DEF Derived, TurnsInto
<1>5. DOMAIN part \subseteq DOMAIN next
  BY <1>2
<1> HIDE DEF next
<1>6. Unique(next)
  BY <1>1, <1>2, <1>3, <1>4 DEF Unique, Derived
<1> QED
  BY <1>1, <1>2, <1>3, <1>5, <1>6 DEF Derived, next, new

LEMMA PartDerives ==
    ASSUME NEW keys \in Seq(KeyRecords), NEW part, NEW old, PartOf(part, keys, old)
    PROVE  Derived(part, keys, {})
<1>1. \A i \in DOMAIN keys : keys[i].digest # NoKey
  <2>1. \A i \in DOMAIN keys : keys[i] \in KeyRecords
    OBVIOUS
  <2>2. QED BY <2>1, KeysAssumption DEF KeyRecords, Secrets
<1>2. \A i \in DOMAIN keys : Spare(keys[i], old) => Spare(keys[i], NoKey)
  BY <1>1 DEF Spare
<1>3. \A k : TurnsInto(k, k)
  BY DEF TurnsInto
<1> QED
  BY <1>2, <1>3 DEF PartOf, Derived

LEMMA RevokeDerives ==
    ASSUME NEW keys \in Seq(KeyRecords), Unique(keys), NEW fam
    PROVE  Derived(RevokeFamily(keys, fam), keys, {})
<1> DEFINE next == RevokeFamily(keys, fam)
<1>1. /\ Len(keys) \in Nat /\ DOMAIN keys = 1..Len(keys)
      /\ \A i \in DOMAIN keys : keys[i] \in KeyRecords
  OBVIOUS
<1>2. DOMAIN next = DOMAIN keys
  BY DEF RevokeFamily
<1>3. ASSUME NEW i \in DOMAIN keys
      PROVE  next[i] \in KeyRecords /\ TurnsInto(keys[i], next[i])
  BY <1>1 DEF RevokeFamily, TurnsInto, KeyRecords
<1>4. next \in [1..Len(keys) -> KeyRecords]
  BY <1>1, <1>3 DEF RevokeFamily
<1>5. next \in Seq(KeyRecords)
  BY <1>1, <1>4
<1> HIDE DEF next
<1>6. Unique(next)
  BY <1>2, <1>3 DEF Unique, TurnsInto
<1> QED
  BY <1>2, <1>3, <1>5, <1>6 DEF Derived, next

\* The records of a rotation before its new key is appended.
Resting(room, digest) ==
    [n \in DOMAIN room |->
        IF room[n].digest = digest
        THEN [room[n] EXCEPT !.status = "rotating", !.expires = keyNow + 1]
        ELSE room[n]]

LEMMA RotateDerives ==
    ASSUME keyNow \in Nat,
           NEW keys \in Seq(KeyRecords), Unique(keys), NEW i \in DOMAIN keys,
           keys[i].status = "active", NEW room, PartOf(room, keys, keys[i].digest)
    PROVE  Derived(Resting(room, keys[i].digest), keys, {})
<1> DEFINE next == Resting(room, keys[i].digest)
<1>0. Derived(room, keys, {})
  BY PartDerives
<1>1. /\ Len(room) \in Nat /\ DOMAIN room = 1..Len(room)
      /\ \A n \in DOMAIN room : room[n] \in KeyRecords
  BY DEF PartOf
<1>2. DOMAIN next = DOMAIN room
  BY DEF Resting
<1>3. ASSUME NEW n \in DOMAIN room
      PROVE  next[n] \in KeyRecords /\ next[n].digest = room[n].digest
  <2>1. CASE room[n].digest = keys[i].digest
    <3>1. next[n] = [room[n] EXCEPT !.status = "rotating", !.expires = keyNow + 1]
      BY <2>1 DEF Resting
    <3>2. room[n] \in KeyRecords /\ keyNow + 1 \in Nat
      BY <1>1
    <3> HIDE DEF next
    <3> QED
      BY <3>1, <3>2 DEF KeyRecords
  <2>2. CASE room[n].digest # keys[i].digest
    BY <2>2, <1>1 DEF Resting
  <2> QED
    BY <2>1, <2>2
<1>4. next \in [1..Len(room) -> KeyRecords]
  BY <1>1, <1>3 DEF Resting
<1>5. next \in Seq(KeyRecords)
  BY <1>1, <1>4
<1>6. ASSUME NEW n \in DOMAIN room, NEW k \in DOMAIN keys, room[n] = keys[k]
      PROVE  TurnsInto(keys[k], next[n])
  <2>1. CASE room[n].digest = keys[i].digest
    <3>1. k = i
      BY <1>6, <2>1 DEF Unique
    <3>2. QED BY <3>1, <2>1, <1>1, <1>6 DEF Resting, TurnsInto, KeyRecords
  <2>2. CASE room[n].digest # keys[i].digest
    BY <2>2, <1>6 DEF Resting, TurnsInto
  <2> QED
    BY <2>1, <2>2
<1> HIDE DEF next
<1>7. Unique(next)
  BY <1>2, <1>3 DEF Unique, PartOf
<1>8. \A n \in DOMAIN next : \E k \in DOMAIN keys : TurnsInto(keys[k], next[n])
  BY <1>2, <1>6 DEF PartOf
<1>9. ASSUME NEW k \in DOMAIN keys
      PROVE  Spare(keys[k], NoKey) \/ \E n \in DOMAIN next : TurnsInto(keys[k], next[n])
  <2>1. CASE Spare(keys[k], keys[i].digest)
    <3>1. keys[k] \in KeyRecords
      OBVIOUS
    <3>2. QED BY <2>1, <3>1, KeysAssumption DEF Spare, KeyRecords, Secrets
  <2>2. CASE \E n \in DOMAIN room : room[n] = keys[k]
    BY <2>2, <1>2, <1>6
  <2> QED
    BY <2>1, <2>2 DEF PartOf
<1> QED
  BY <1>5, <1>7, <1>8, <1>9 DEF Derived, next
-----------------------------------------------------------------------------
(* The steps                                                                *)

\* The key of the environment stands in front only if it is not revoked for good.
LEMMA AllIsSound ==
    ASSUME KeysInv, serving
    PROVE  /\ Sound(All, Final, revived, drawn) /\ OfEnv(All)
           /\ env \in Final => env \in Digests(All)
<1>1. Sound(records, Final, revived, drawn) /\ OfEnv(records)
  BY DEF KeysInv
<1>2. CASE All = records
  BY <1>1, <1>2 DEF KeysInv
<1>3. CASE /\ All = <<Legacy(env)>> \o records /\ env # NoKey
           /\ \A i \in DOMAIN records : records[i].digest # env
  <2>1. env \notin Digests(records)
    BY <1>3 DEF Digests
  <2>2. env \in Secrets /\ (env \in NewSecrets => env \in drawn) /\ env \notin Final
    BY <1>3, <2>1, KeysAssumption DEF KeysInv, Secrets
  <2> DEFINE new == Legacy(env)
  <2>3. /\ new \in KeyRecords /\ new.digest = env /\ new.class = "legacy"
        /\ new.status = "active" /\ new.expires = NoKey
    BY <2>2 DEF Legacy, KeyRecords, Secrets
  <2> HIDE DEF new
  <2>4. records \in Seq(KeyRecords) /\ Len(records) \in Nat /\ DOMAIN records = 1..Len(records)
    BY <1>1 DEF Sound
  <2>5. /\ All \in Seq(KeyRecords) /\ DOMAIN All = 1..Len(records) + 1
        /\ All[1] = new /\ \A i \in DOMAIN records : All[i + 1] = records[i]
    BY <1>3, <2>3, <2>4 DEF new
  <2>6. \A n \in DOMAIN All : n = 1 \/ \E i \in DOMAIN records : n = i + 1 /\ All[n] = records[i]
    <3>1. ASSUME NEW n \in DOMAIN All, n # 1
          PROVE  n - 1 \in DOMAIN records /\ n = (n - 1) + 1
      BY <3>1, <2>4, <2>5
    <3>2. QED BY <3>1, <2>5
  <2>7. \A i \in DOMAIN records : i + 1 \in DOMAIN All
    BY <2>4, <2>5
  <2>8. Unique(All)
    <3> SUFFICES ASSUME NEW m \in DOMAIN All, NEW n \in DOMAIN All, All[m].digest = All[n].digest
                 PROVE  m = n
      BY DEF Unique
    <3> QED
      BY <1>1, <1>3, <2>3, <2>5, <2>6 DEF Unique, Sound
  <2>9. ASSUME NEW n \in DOMAIN All
        PROVE  /\ All[n].digest \in NewSecrets => All[n].digest \in drawn
               /\ All[n].digest \in EnvSecrets \cup revived => All[n].class # "managed"
               /\ All[n].class = "retired" => All[n].status = "revoked"
               /\ All[n].class = "legacy" => All[n].digest = env
               /\ All[n].digest \in Final => All[n].status = "revoked"
               /\ All[n].status = "active" => All[n].expires = NoKey
    <3>1. CASE n = 1
      BY <3>1, <2>2, <2>3, <2>5
    <3>2. CASE \E i \in DOMAIN records : All[n] = records[i]
      <4>1. PICK i \in DOMAIN records : All[n] = records[i]
        BY <3>2
      <4> QED
        BY <4>1, <1>1 DEF Sound, OfEnv
    <3> QED
      BY <3>1, <3>2, <2>6
  <2>10. Digests(records) \subseteq Digests(All)
    BY <2>5, <2>7 DEF Digests
  <2>11. Final \cap EnvSecrets \subseteq Digests(All)
    BY <1>1, <2>10 DEF Sound
  <2> QED
    BY <2>2, <2>5, <2>8, <2>9, <2>11 DEF Sound, OfEnv
<1> QED
  BY <1>2, <1>3 DEF All, WithEnv

LEMMA DerivedIsSound ==
    ASSUME KeysInv, serving, NEW secrets \in SUBSET (NewSecrets \ drawn),
           NEW next, Derived(next, All, secrets)
    PROVE  Sound(next, Final, revived, drawn \cup secrets) /\ OfEnv(next) /\ Carries(next)
<1>1. Sound(All, Final, revived, drawn) /\ OfEnv(All)
  BY AllIsSound
<1>2. Carries(next)
  BY DEF Carries, Derived
<1>3. next \in Seq(KeyRecords) /\ Unique(next)
  BY DEF Derived
<1>4. ASSUME NEW n \in DOMAIN next
      PROVE  /\ next[n].digest \in NewSecrets => next[n].digest \in drawn \cup secrets
             /\ next[n].digest \in EnvSecrets \cup revived => next[n].class # "managed"
             /\ next[n].class = "retired" => next[n].status = "revoked"
             /\ next[n].class = "legacy" => next[n].digest = env
             /\ next[n].digest \in Final => next[n].status = "revoked"
             /\ next[n].status = "active" => next[n].expires = NoKey
  <2>1. CASE \E i \in DOMAIN All : TurnsInto(All[i], next[n])
    <3>1. PICK i \in DOMAIN All : TurnsInto(All[i], next[n])
      BY <2>1
    <3> QED
      BY <3>1, <1>1 DEF Sound, OfEnv, TurnsInto
  <2>2. CASE next[n].digest \in secrets /\ next[n].class = "managed" /\ next[n].expires = NoKey
    BY <2>2, KeysAssumption DEF KeysInv, Final
  <2> QED
    BY <2>1, <2>2 DEF Derived
<1>5. ASSUME NEW s \in Final \cap EnvSecrets
      PROVE  s \in Digests(next)
  <2>1. PICK i \in DOMAIN All : All[i].digest = s
    BY <1>1 DEF Sound, Digests
  <2>2. All[i].class # "managed"
    BY <1>1, <2>1 DEF Sound
  <2>3. PICK n \in DOMAIN next : TurnsInto(All[i], next[n])
    BY <2>2 DEF Derived, Spare
  <2> QED
    BY <2>1, <2>3 DEF TurnsInto, Digests
<1> QED
  BY <1>2, <1>3, <1>4, <1>5 DEF Sound, OfEnv

\* What is known of a list stays true when more secrets are drawn.
LEMMA SoundGrows ==
    ASSUME NEW gone, NEW back, NEW given, NEW more, given \subseteq more, NEW keys,
           Sound(keys, gone, back, given)
    PROVE  Sound(keys, gone, back, more)
BY DEF Sound

LEMMA BeginKeeps ==
    ASSUME KeysInv, NEW a \in Admins, NEW next, NEW secrets \in SUBSET (NewSecrets \ drawn),
           serving => Derived(next, All, secrets), drawn' = drawn \cup secrets, Begin(a, next)
    PROVE  KeysInv'
<1>1. /\ serving /\ MyTurn(a) /\ work[a] = NoKey
      /\ work' = [work EXCEPT ![a] = next]
      /\ UNCHANGED <<records, file, env, serving, keyNow, starts, revokedBefore, revived>>
  BY DEF Begin
<1>2. Sound(next, Final, revived, drawn') /\ OfEnv(next) /\ Carries(next)
  BY <1>1, DerivedIsSound
<1>3. next \in Seq(KeyRecords)
  BY <1>2 DEF Sound
<1>4. /\ Sound(file, Final, revived, drawn')
      /\ Sound(records, Final, revived, drawn') /\ OfEnv(records)
  BY <1>1, SoundGrows DEF KeysInv
<1>5. \A b \in Admins : work'[b] # NoKey => b = a /\ work'[b] = next
  BY <1>1 DEF KeysInv, MyTurn
<1>6. Carries(next)'
  BY <1>1, <1>2 DEF Carries, All, WithEnv, Spare, Expired, Legacy
<1>7. WorkSound'
  BY <1>1, <1>2, <1>5, <1>6 DEF WorkSound, OfEnv, Final
<1>8. work' \in [Admins -> Seq(KeyRecords) \cup {NoKey}]
  BY <1>1, <1>3 DEF KeysInv
<1>9. env \in Final => env \in Digests(records)
  BY <1>1 DEF KeysInv
<1> QED
  BY <1>1, <1>4, <1>7, <1>8, <1>9 DEF KeysInv, OfEnv, Final, Digests

LEMMA CreateKeeps == ASSUME KeysInv, NEW a \in Admins, Create(a) PROVE KeysInv'
<1> DEFINE room == Compacted(All, NoKey)
<1>1. PICK s \in NewSecrets \ drawn : /\ drawn' = drawn \cup {s}
                                      /\ Begin(a, Append(room, Managed(s, s)))
  BY DEF Create
<1>2. ASSUME serving PROVE Derived(Append(room, Managed(s, s)), All, {s})
  <2>1. All \in Seq(KeyRecords) /\ Unique(All) /\ \A i \in DOMAIN All : All[i].digest # s
    BY <1>2, AllIsSound DEF Sound
  <2>2. PartOf(room, All, NoKey)
    BY <2>1, CompactedIsPart
  <2> HIDE DEF room
  <2>3. Derived(room, All, {})
    BY <2>1, <2>2, PartDerives
  <2>4. room \in Seq(KeyRecords)
    BY <2>3 DEF Derived
  <2> QED
    BY <2>1, <2>3, <2>4, AppendDerives DEF Secrets
<1> QED
  BY <1>1, <1>2, BeginKeeps

LEMMA RotateKeeps == ASSUME KeysInv, NEW a \in Admins, Rotate(a) PROVE KeysInv'
<1>1. PICK s \in NewSecrets \ drawn, i \in DOMAIN All :
          /\ All[i].status = "active"
          /\ drawn' = drawn \cup {s}
          /\ Begin(a, Append(Resting(Compacted(All, All[i].digest), All[i].digest),
                             Managed(s, All[i].family)))
  BY DEF Rotate, Resting
<1> DEFINE room == Compacted(All, All[i].digest)
           resting == Resting(room, All[i].digest)
<1>2. ASSUME serving PROVE Derived(Append(resting, Managed(s, All[i].family)), All, {s})
  <2>1. All \in Seq(KeyRecords) /\ Unique(All) /\ \A n \in DOMAIN All : All[n].digest # s
    BY <1>2, AllIsSound DEF Sound
  <2>2. PartOf(room, All, All[i].digest)
    BY <2>1, CompactedIsPart
  <2>3. Derived(resting, All, {})
    BY <1>1, <2>1, <2>2, RotateDerives DEF KeysInv
  <2>4. All[i] \in KeyRecords /\ resting \in Seq(KeyRecords)
    BY <2>1, <2>3 DEF Derived
  <2>5. All[i].family \in Secrets \cup {"legacy"}
    BY <2>4 DEF KeyRecords
  <2> QED
    BY <2>1, <2>3, <2>4, <2>5, AppendDerives
<1> QED
  BY <1>1, <1>2, BeginKeeps

LEMMA RevokeKeeps == ASSUME KeysInv, NEW a \in Admins, Revoke(a) PROVE KeysInv'
<1>1. PICK i \in DOMAIN All : /\ Begin(a, RevokeFamily(All, All[i].family))
                              /\ UNCHANGED drawn
  BY DEF Revoke
<1>2. ASSUME serving PROVE Derived(RevokeFamily(All, All[i].family), All, {})
  BY <1>2, AllIsSound, RevokeDerives DEF Sound
<1>3. drawn' = drawn \cup {} /\ {} \in SUBSET (NewSecrets \ drawn)
  BY <1>1
<1> QED
  BY <1>1, <1>2, <1>3, BeginKeeps

\* The list that was written knows every revocation it made.
LEMMA WrittenKeeps == ASSUME KeysInv, NEW a \in Admins, Written(a) PROVE KeysInv'
<1> DEFINE next == work[a]
           gone == Final \cup Revoked(next)
           back == revived \ Revoked(next)
<1>1. /\ next # NoKey /\ file' = next /\ records' = next
      /\ revokedBefore' = revokedBefore \cup Revoked(next) /\ revived' = back
      /\ work' = [work EXCEPT ![a] = NoKey]
      /\ UNCHANGED <<env, serving, drawn, keyNow, starts>>
  BY DEF Written
<1>2. /\ serving /\ Sound(next, Final, revived, drawn) /\ OfEnv(next) /\ Carries(next)
      /\ \A b \in Admins : work[b] # NoKey => a = b
  BY <1>1 DEF KeysInv, WorkSound
<1>3. Revoked(next) \subseteq Digests(next)
  BY DEF Revoked, Digests
<1>4. Revoked(next) \subseteq EnvSecrets \cup drawn
  <2>1. ASSUME NEW i \in DOMAIN next PROVE next[i].digest \in EnvSecrets \cup drawn
    <3>1. next[i] \in KeyRecords
      BY <1>2 DEF Sound
    <3> QED
      BY <1>2, <3>1 DEF Sound, KeyRecords, Secrets
  <2> QED
    BY <2>1 DEF Revoked
<1>5. \A i \in DOMAIN next : next[i].digest \in Revoked(next) => next[i].status = "revoked"
  BY <1>2 DEF Revoked, Sound, Unique
<1>6. Sound(next, gone, back, drawn)
  BY <1>2, <1>3, <1>5 DEF Sound
<1>7. Final' = gone
  BY <1>1 DEF Final
<1>8. env \in gone => env \in Digests(next)
  <2>1. SUFFICES ASSUME env \in Final PROVE env \in Digests(next)
    BY <1>3
  <2>2. PICK i \in DOMAIN All : All[i].digest = env
    BY <2>1, <1>2, AllIsSound DEF Digests
  <2>3. PICK n \in DOMAIN next : TurnsInto(All[i], next[n])
    BY <1>2, <2>2 DEF Carries, Spare
  <2> QED
    BY <2>2, <2>3 DEF TurnsInto, Digests
<1>9. \A b \in Admins : work'[b] = NoKey
  BY <1>1, <1>2 DEF KeysInv
<1>10. WorkSound'
  BY <1>9 DEF WorkSound
<1>11. work' \in [Admins -> Seq(KeyRecords) \cup {NoKey}]
  BY <1>1 DEF KeysInv
<1>12. /\ back \subseteq (revokedBefore \cup Revoked(next)) \ EnvSecrets
       /\ revokedBefore \cup Revoked(next) \subseteq EnvSecrets \cup drawn
  BY <1>4 DEF KeysInv
<1> HIDE DEF next, gone, back
<1>13. serving' /\ (env \in Final => env \in Digests(records))' /\ OfEnv(records)'
  BY <1>1, <1>2, <1>7, <1>8 DEF Digests, OfEnv
<1> QED
  BY <1>1, <1>6, <1>7, <1>10, <1>11, <1>12, <1>13 DEF KeysInv

LEMMA WriteFailsKeeps == ASSUME KeysInv, NEW a \in Admins, WriteFails(a) PROVE KeysInv'
<1>1. /\ work[a] # NoKey /\ file' \in {file, work[a]}
      /\ work' = [work EXCEPT ![a] = NoKey]
      /\ UNCHANGED <<records, env, serving, drawn, keyNow, starts, revokedBefore, revived>>
  BY DEF WriteFails
<1>2. /\ Sound(work[a], Final, revived, drawn)
      /\ \A b \in Admins : work[b] # NoKey => a = b
  BY <1>1 DEF KeysInv, WorkSound
<1>3. Sound(file', Final, revived, drawn)
  BY <1>1, <1>2 DEF KeysInv
<1>4. \A b \in Admins : work'[b] = NoKey
  BY <1>1, <1>2 DEF KeysInv
<1>5. work' \in [Admins -> Seq(KeyRecords) \cup {NoKey}]
  BY <1>1 DEF KeysInv
<1> QED
  BY <1>1, <1>3, <1>4, <1>5 DEF KeysInv, WorkSound, Final, Digests, OfEnv

LEMMA RetiredIsSound ==
    ASSUME NEW gone, NEW back, NEW given, NEW keys, Sound(keys, gone, back, given), NEW e
    PROVE  /\ Sound(Retire(keys, e), gone, back, given)
           /\ Digests(Retire(keys, e)) = Digests(keys)
           /\ \A i \in DOMAIN Retire(keys, e) :
                 Retire(keys, e)[i].class = "legacy" => Retire(keys, e)[i].digest = e
<1> DEFINE next == Retire(keys, e)
<1>1. /\ keys \in Seq(KeyRecords) /\ Len(keys) \in Nat /\ DOMAIN keys = 1..Len(keys)
      /\ \A i \in DOMAIN keys : keys[i] \in KeyRecords
  BY DEF Sound
<1>2. DOMAIN next = DOMAIN keys
  BY DEF Retire
<1>3. ASSUME NEW i \in DOMAIN keys
      PROVE  /\ next[i] \in KeyRecords /\ next[i].digest = keys[i].digest
             /\ next[i].status = "revoked" \/ next[i] = keys[i]
             /\ next[i].class # "managed" \/ next[i] = keys[i]
             /\ next[i].class = "retired" => next[i].status = "revoked"
             /\ next[i].class = "legacy" => next[i].digest = e
  <2>1. CASE next[i] = keys[i]
    <3>1. keys[i].class = "legacy" => keys[i].digest = e
      <4>1. next[i] = IF keys[i].class = "legacy" /\ keys[i].digest # e
                      THEN [keys[i] EXCEPT !.class = "retired", !.status = "revoked"]
                      ELSE keys[i]
        BY DEF Retire
      <4> HIDE DEF next
      <4>2. ASSUME keys[i].class = "legacy", keys[i].digest # e PROVE FALSE
        <5>1. keys[i] = [keys[i] EXCEPT !.class = "retired", !.status = "revoked"]
          BY <2>1, <4>1, <4>2
        <5>2. keys[i] \in KeyRecords
          BY <1>1
        <5>3. [keys[i] EXCEPT !.class = "retired", !.status = "revoked"].class = "retired"
          BY <5>2 DEF KeyRecords
        <5> QED
          BY <5>1, <5>3, <4>2
      <4> QED
        BY <4>2
    <3>2. keys[i].class = "retired" => keys[i].status = "revoked"
      BY DEF Sound
    <3> QED
      BY <2>1, <3>1, <3>2, <1>1
  <2>2. CASE next[i] = [keys[i] EXCEPT !.class = "retired", !.status = "revoked"]
    <3> HIDE DEF next
    <3>1. keys[i] \in KeyRecords
      BY <1>1
    <3> QED
      BY <2>2, <3>1 DEF KeyRecords
  <2> QED
    BY <2>1, <2>2 DEF Retire
<1>4. next \in [1..Len(keys) -> KeyRecords]
  BY <1>1, <1>3 DEF Retire
<1>5. next \in Seq(KeyRecords)
  BY <1>1, <1>4
<1> HIDE DEF next
<1>6. Unique(next)
  BY <1>2, <1>3 DEF Unique, Sound
<1>7. Digests(next) = Digests(keys)
  BY <1>2, <1>3 DEF Digests
<1>8. ASSUME NEW i \in DOMAIN keys
      PROVE  /\ next[i].digest \in NewSecrets => next[i].digest \in given
             /\ next[i].digest \in EnvSecrets \cup back => next[i].class # "managed"
             /\ next[i].class = "retired" => next[i].status = "revoked"
             /\ next[i].digest \in gone => next[i].status = "revoked"
             /\ next[i].status = "active" => next[i].expires = NoKey
  BY <1>3 DEF Sound
<1>9. Sound(next, gone, back, given)
  BY <1>2, <1>5, <1>6, <1>7, <1>8 DEF Sound
<1> QED
  BY <1>2, <1>3, <1>7, <1>9 DEF next

\* The key the environment names is brought back only if the file does not know it.
LEMMA RestartKeeps == ASSUME KeysInv, Restart PROVE KeysInv'
<1>1. PICK e \in EnvSecrets \cup drawn \cup {NoKey} :
          /\ starts' = starts + 1 /\ env' = e
          /\ serving' = Loadable(file)
          /\ records' = IF Loadable(file) THEN Retire(file, e) ELSE <<>>
          /\ work' = [a \in Admins |-> NoKey]
          /\ revived' = revived \cup (({e} \cap revokedBefore) \ Digests(file))
          /\ UNCHANGED <<file, drawn, keyNow, revokedBefore>>
  BY DEF Restart
<1> DEFINE back == revived \cup (({e} \cap revokedBefore) \ Digests(file))
           gone == revokedBefore \ back
<1>2. Sound(file, Final, revived, drawn)
  BY DEF KeysInv
<1>3. Sound(file, gone, back, drawn)
  <2>1. \A i \in DOMAIN file : file[i].digest \in back => file[i].digest \in revived
    BY DEF Digests
  <2> QED
    BY <1>2, <2>1 DEF Sound, Final
<1>4. back \subseteq revokedBefore \ EnvSecrets
  <2>1. revived \subseteq revokedBefore \ EnvSecrets
    BY DEF KeysInv
  <2>2. ASSUME e \in revokedBefore, e \in EnvSecrets PROVE e \in Digests(file)
    BY <2>1, <2>2, <1>2 DEF Sound, Final
  <2> QED
    BY <2>1, <2>2
<1>5. e \in gone => e \in Digests(file)
  OBVIOUS
<1>6. serving' => /\ Sound(records', gone, back, drawn) /\ Digests(records') = Digests(file)
                  /\ \A i \in DOMAIN records' : records'[i].class = "legacy" => records'[i].digest = e
  <2> HIDE DEF gone, back
  <2> QED
    BY <1>1, <1>3, RetiredIsSound
<1>7. Final' = gone /\ revived' = back
  BY <1>1 DEF Final
<1> HIDE DEF gone, back
<1>8. (serving /\ env \in Final => env \in Digests(records))' /\ (serving => OfEnv(records))'
  BY <1>1, <1>5, <1>6, <1>7 DEF Digests, OfEnv
<1>9. WorkSound' /\ work' \in [Admins -> Seq(KeyRecords) \cup {NoKey}]
  BY <1>1 DEF WorkSound
<1>10. /\ drawn \subseteq NewSecrets /\ revokedBefore \subseteq EnvSecrets \cup drawn
       /\ keyNow \in Nat /\ starts + 1 \in Nat
  BY DEF KeysInv
<1>11. /\ Sound(file, Final, revived, drawn)'
       /\ (serving => Sound(records, Final, revived, drawn))'
       /\ (serving \/ records = <<>>)'
  BY <1>1, <1>3, <1>6, <1>7
<1> QED
  BY <1>1, <1>4, <1>7, <1>8, <1>9, <1>10, <1>11 DEF KeysInv

LEMMA KeyTickKeeps == ASSUME KeysInv, KeyTick PROVE KeysInv'
<1>1. /\ keyNow' = keyNow + 1
      /\ UNCHANGED <<records, file, env, serving, work, drawn, starts, revokedBefore, revived>>
  BY DEF KeyTick
<1>2. keyNow \in Nat /\ All' = All
  BY <1>1 DEF KeysInv, All, WithEnv, Legacy
<1>3. ASSUME NEW next, serving, Carries(next) PROVE Carries(next)'
  <2>1. Sound(All, Final, revived, drawn)
    BY <1>3, AllIsSound
  <2>2. ASSUME NEW i \in DOMAIN All, Spare(All[i], NoKey) PROVE Spare(All[i], NoKey)'
    <3>1. All[i] \in KeyRecords
      BY <2>1 DEF Sound
    <3>2. All[i].expires \in Nat \/ All[i].expires = NoKey
      BY <3>1 DEF KeyRecords
    <3> QED
      BY <2>2, <3>2, <1>1, <1>2 DEF Spare, Expired
  <2> QED
    BY <2>2, <1>2, <1>3 DEF Carries
<1>4. WorkSound'
  BY <1>1, <1>3 DEF WorkSound, KeysInv, OfEnv, Final
<1> QED
  BY <1>1, <1>2, <1>4 DEF KeysInv, Digests, OfEnv, Final

LEMMA KeysInvStarts == KeysInit => KeysInv
<1> SUFFICES ASSUME KeysInit PROVE KeysInv
  OBVIOUS
<1>1. Sound(<<>>, {}, {}, {})
  BY DEF Sound, Unique, Digests
<1>2. Final = {} /\ revived = {} /\ records = <<>> /\ OfEnv(records)
  BY DEF KeysInit, Final, OfEnv
<1> QED
  BY <1>1, <1>2 DEF KeysInit, KeysInv, WorkSound

LEMMA StepKeepsKeysInv == KeysInv /\ [KeysNext]_keyVars => KeysInv'
<1> SUFFICES ASSUME KeysInv, [KeysNext]_keyVars PROVE KeysInv'
  OBVIOUS
<1>1. CASE UNCHANGED keyVars
  <2>1. /\ UNCHANGED <<records, file, env, serving, work, drawn, keyNow, starts, revokedBefore, revived>>
    BY <1>1 DEF keyVars
  <2>2. \A next : Carries(next) => Carries(next)'
    BY <2>1 DEF Carries, All, WithEnv, Spare, Expired, Legacy
  <2>3. WorkSound'
    BY <2>1, <2>2 DEF WorkSound, KeysInv, OfEnv, Final
  <2> QED
    BY <2>1, <2>3 DEF KeysInv, Digests, OfEnv, Final
<1>2. CASE \E a \in Admins : Create(a) \/ Rotate(a) \/ Revoke(a)
  BY <1>2, CreateKeeps, RotateKeeps, RevokeKeeps
<1>3. CASE \E a \in Admins : Written(a) \/ WriteFails(a)
  BY <1>3, WrittenKeeps, WriteFailsKeeps
<1>4. CASE Restart
  BY <1>4, RestartKeeps
<1>5. CASE KeyTick
  BY <1>5, KeyTickKeeps
<1> QED
  BY <1>1, <1>2, <1>3, <1>4, <1>5 DEF KeysNext

LEMMA KeysInvariant == KeysSpec => []KeysInv
BY KeysInvStarts, StepKeepsKeysInv, PTL DEF KeysSpec

(* A key whose revocation was acknowledged (mutate() returned) does not open a   *)
(* request again, whatever is created, rotated, dropped for room, written or      *)
(* failed to be written meanwhile, and whatever the environment names next: but    *)
(* for a key that was drawn and whose record made room for others, while the        *)
(* environment names that key.                                                        *)
THEOREM RevocationIsFinal == KeysSpec => []RevokedIsFinal
<1>1. KeysInv => RevokedIsFinal
  <2> SUFFICES ASSUME KeysInv, serving, NEW s \in revokedBefore, Authenticates(s)
               PROVE  s = env /\ s \in revived \ EnvSecrets
    BY DEF RevokedIsFinal
  <2>1. Sound(All, Final, revived, drawn) /\ OfEnv(All)
    BY AllIsSound
  <2>2. PICK i \in DOMAIN All : All[i].digest = s /\ All[i].status # "revoked"
    BY DEF Authenticates
  <2>3. s \in revived \ EnvSecrets
    BY <2>1, <2>2 DEF Sound, Final, KeysInv
  <2>4. All[i].class = "legacy"
    <3>1. All[i] \in KeyRecords
      BY <2>1 DEF Sound
    <3>2. All[i].class \in {"legacy", "retired", "managed"}
      BY <3>1 DEF KeyRecords
    <3> QED
      BY <2>1, <2>2, <2>3, <3>2 DEF Sound
  <2> QED
    BY <2>1, <2>2, <2>3, <2>4 DEF OfEnv
<1> QED
  BY <1>1, KeysInvariant, PTL

-----------------------------------------------------------------------------
(* Live keys                                                                *)

\* A key opens a request by the one record of its digest.
LEMMA OneRecordDecides ==
    ASSUME NEW i \in DOMAIN All, All \in Seq(KeyRecords), Unique(All)
    PROVE  Authenticates(All[i].digest)
              <=> (All[i].status # "revoked" /\ ~Expired(All[i]))
<1>1. \A j \in i + 1..Len(All) : j \in DOMAIN All /\ j # i
  <2>1. i \in 1..Len(All) /\ Len(All) \in Nat /\ DOMAIN All = 1..Len(All)
    OBVIOUS
  <2> QED
    BY <2>1
<1>2. \A j \in i + 1..Len(All) : All[j].digest # All[i].digest
  BY <1>1 DEF Unique
<1>3. ASSUME All[i].status # "revoked", ~Expired(All[i])
      PROVE  Authenticates(All[i].digest)
  BY <1>2, <1>3 DEF Authenticates
<1>4. ASSUME Authenticates(All[i].digest)
      PROVE  All[i].status # "revoked" /\ ~Expired(All[i])
  <2>1. PICK k \in DOMAIN All : /\ All[k].digest = All[i].digest
                                /\ All[k].status # "revoked" /\ ~Expired(All[k])
    BY <1>4 DEF Authenticates
  <2>2. k = i
    BY <2>1 DEF Unique
  <2> QED
    BY <2>1, <2>2
<1> QED
  BY <1>3, <1>4

\* What LiveKeysKept allows to happen to a key.
Excused(s) ==
    \/ Authenticates(s)'
    \/ s \in Revoked(records)'
    \/ \E i \in DOMAIN All' : /\ All'[i].digest = s /\ All'[i].status = "rotating"
                             /\ Expired(All[i])'

LEMMA SameListKeeps ==
    ASSUME UNCHANGED <<records, env, keyNow>>, NEW s, Authenticates(s)
    PROVE  Authenticates(s)'
BY DEF Authenticates, All, WithEnv, Legacy, Expired

LEMMA WrittenKeepsLive ==
    ASSUME KeysInv, NEW a \in Admins, Written(a), NEW s, Authenticates(s)
    PROVE  Excused(s)
<1> DEFINE next == work[a]
<1>1. /\ next # NoKey /\ records' = next /\ revokedBefore' = revokedBefore \cup Revoked(next)
      /\ UNCHANGED <<env, serving, keyNow>>
  BY DEF Written
<1>2. serving /\ Sound(next, Final, revived, drawn) /\ Carries(next)
  BY <1>1 DEF KeysInv, WorkSound
<1>3. KeysInv' /\ serving'
  BY <1>1, <1>2, WrittenKeeps
<1>4. All' \in Seq(KeyRecords) /\ Unique(All)'
  <2>1. (KeysInv /\ serving => Sound(All, Final, revived, drawn))'
    BY AllIsSound, PTL
  <2> QED
    BY <2>1, <1>3 DEF Sound, Unique
<1>5. PICK i \in DOMAIN All : All[i].digest = s /\ All[i].status # "revoked" /\ ~Expired(All[i])
  BY DEF Authenticates
<1>6. PICK n \in DOMAIN next : TurnsInto(All[i], next[n])
  BY <1>2, <1>5 DEF Carries, Spare
<1>7. PICK m \in DOMAIN All' : All'[m] = next[n]
  <2>1. next \in Seq(KeyRecords) /\ Len(next) \in Nat /\ DOMAIN next = 1..Len(next)
    BY <1>2 DEF Sound
  <2>2. All' = next \/ All' = <<Legacy(env)>> \o next
    BY <1>1 DEF All, WithEnv, Legacy
  <2>3. CASE All' = next
    BY <2>3
  <2>4. CASE All' = <<Legacy(env)>> \o next
    <3>1. n + 1 \in DOMAIN All' /\ All'[n + 1] = next[n]
      BY <2>1, <2>4
    <3> QED
      BY <3>1
  <2> QED
    BY <2>2, <2>3, <2>4
<1>8. All'[m].digest = s
  BY <1>5, <1>6, <1>7 DEF TurnsInto
<1>9. CASE next[n].status = "revoked"
  <2>1. s \in Revoked(next)
    BY <1>9, <1>7, <1>8 DEF Revoked
  <2> QED
    BY <2>1, <1>1 DEF Excused, Revoked
<1>10. ASSUME next[n].status # "revoked", ~Expired(All[m])'
       PROVE  Excused(s)
  <2>1. Authenticates(s)'
    <3>1. All'[m].status # "revoked" /\ ~Expired(All[m])'
      BY <1>7, <1>10
    <3>2. \A j \in m + 1..Len(All') : All'[j].digest # s
      <4>1. Len(All') \in Nat /\ DOMAIN All' = 1..Len(All')
        BY <1>4
      <4>2. \A j \in m + 1..Len(All') : j \in DOMAIN All' /\ j # m
        BY <4>1, <1>7
      <4> QED
        BY <4>2, <1>4, <1>8 DEF Unique
    <3> QED
      BY <3>1, <3>2, <1>8 DEF Authenticates
  <2> QED
    BY <2>1 DEF Excused
<1>11. ASSUME next[n].status # "revoked", Expired(All[m])'
       PROVE  Excused(s)
  <2>1. next[n].status = "rotating"
    <3>1. CASE next[n].expires = All[i].expires
      BY <3>1, <1>1, <1>5, <1>7, <1>11 DEF Expired
    <3> QED
      BY <3>1, <1>6, <1>11 DEF TurnsInto
  <2> QED
    BY <2>1, <1>7, <1>8, <1>11 DEF Excused
<1> QED
  BY <1>9, <1>10, <1>11

LEMMA KeyTickKeepsLive ==
    ASSUME KeysInv, KeyTick, NEW s, Authenticates(s)
    PROVE  Excused(s)
<1>1. All' = All /\ keyNow' = keyNow + 1
  BY DEF KeyTick, All, WithEnv, Legacy
<1>2. ASSUME NEW i \in DOMAIN All
      PROVE  /\ All[i].status \in {"active", "rotating", "revoked"}
             /\ All[i].status = "active" => All[i].expires = NoKey
  <2>1. CASE serving
    <3>1. Sound(All, Final, revived, drawn)
      BY <2>1, AllIsSound
    <3>2. All[i] \in KeyRecords
      BY <3>1 DEF Sound
    <3> QED
      BY <3>1, <3>2 DEF Sound, KeyRecords
  <2>2. CASE records = <<>>
    <3>1. All = <<>> \/ All = <<Legacy(env)>>
      BY <2>2 DEF All, WithEnv
    <3>2. All[i] = Legacy(env)
      BY <3>1
    <3> QED
      BY <3>2 DEF Legacy
  <2> QED
    BY <2>1, <2>2 DEF KeysInv
<1>3. PICK i \in DOMAIN All :
          /\ All[i].digest = s /\ All[i].status # "revoked"
          /\ \A j \in i + 1..Len(All) : All[j].digest # s
  BY DEF Authenticates
<1>4. CASE Expired(All[i])'
  <2>1. All[i].status # "active"
    BY <1>1, <1>2, <1>4 DEF Expired
  <2>2. All[i].status = "rotating"
    BY <2>1, <1>2, <1>3
  <2> QED
    BY <2>2, <1>1, <1>3, <1>4 DEF Excused
<1>5. CASE ~Expired(All[i])'
  BY <1>1, <1>3, <1>5 DEF Excused, Authenticates
<1> QED
  BY <1>4, <1>5

(* A key that works stops working only by a revocation, by the end of the grace *)
(* period of a rotation, or by a restart: nothing mutate() computes, writes or   *)
(* fails to write drops or replaces the record of a live key.                    *)
THEOREM LiveKeysSurvive == KeysSpec => LiveKeysKept
<1>1. KeysInv /\ [KeysNext]_keyVars
        => [\A s \in Secrets :
               (Authenticates(s) /\ starts' = starts)
                 => \/ Authenticates(s)'
                    \/ s \in Revoked(records)'
                    \/ \E i \in DOMAIN All' : /\ All'[i].digest = s
                                             /\ All'[i].status = "rotating"
                                             /\ Expired(All[i])']_keyVars
  <2> SUFFICES ASSUME KeysInv, [KeysNext]_keyVars, NEW s \in Secrets,
                      Authenticates(s), starts' = starts
               PROVE  Excused(s)
    BY Zenon DEF keyVars, Excused
  <2>1. CASE UNCHANGED keyVars
    BY <2>1, SameListKeeps DEF keyVars, Excused
  <2>2. CASE \E a \in Admins : Create(a) \/ Rotate(a) \/ Revoke(a)
    BY <2>2, SameListKeeps DEF Create, Rotate, Revoke, Begin, Excused
  <2>3. CASE \E a \in Admins : Written(a)
    BY <2>3, WrittenKeepsLive
  <2>4. CASE \E a \in Admins : WriteFails(a)
    BY <2>4, SameListKeeps DEF WriteFails, Excused
  <2>5. CASE Restart
    BY <2>5 DEF Restart, KeysInv
  <2>6. CASE KeyTick
    BY <2>6, KeyTickKeepsLive
  <2> QED
    BY <2>1, <2>2, <2>3, <2>4, <2>5, <2>6 DEF KeysNext
<1> QED
  BY <1>1, KeysInvariant, PTL DEF KeysSpec, LiveKeysKept
-----------------------------------------------------------------------------
(***************************************************************************)
(* RealtimeQuotes                                                          *)
(***************************************************************************)

ReadStages == {"due", "asking", "answered"}
RtEntry == [symbol : RtSymbols, quote : Nat, due : BOOLEAN]
RtTask == [stage : {"idle", "queued"} \cup ReadStages, symbol : RtSymbols,
           epoch : Nat, old : Nat, notify : BOOLEAN]

RtTypes ==
    /\ cached \in Seq(RtEntry) /\ rtClosed \in BOOLEAN /\ generation \in Nat
    /\ refresher \in [Refreshers -> [stage : {"idle", "asking"}, symbol : RtSymbols]]

\* The reads under way and the queue belong together: each side knows the other.
Fits(queue, inf, tasks) ==
    /\ queue \in Seq(RtTasks)
    /\ inf \in [RtSymbols -> RtTasks \cup {NoTask}]
    /\ tasks \in [RtTasks -> RtTask]
    /\ IsFiniteSet(Reading(inf)) /\ Cardinality(Reading(inf)) <= MaxReads
    /\ \A t \in RtTasks : tasks[t].stage \in ReadStages => inf[tasks[t].symbol] = t
    /\ \A s \in Reading(inf) : /\ tasks[inf[s]].stage \in ReadStages
                               /\ tasks[inf[s]].symbol = s
    /\ \A n, m \in DOMAIN queue : tasks[queue[n]].symbol = tasks[queue[m]].symbol => n = m
    /\ \A n \in DOMAIN queue : tasks[queue[n]].stage = "queued"

\* A task waits only for its symbol or for room.
Awaits(queue, inf, tasks) ==
    \A n \in DOMAIN queue : \/ inf[tasks[queue[n]].symbol] # NoTask
                            \/ Cardinality(Reading(inf)) = MaxReads

RtInv ==
    /\ RtTypes /\ Fits(rtQueue, inflight, task) /\ Awaits(rtQueue, inflight, task)
    /\ rtClosed => rtQueue = <<>>

\* The quote a task notes is a number.
LEMMA QuoteOfIsTyped ==
    ASSUME NEW list \in Seq(RtEntry), NEW s PROVE QuoteOf(list, s) \in Nat
<1>1. \A n \in DOMAIN list : list[n] \in RtEntry
  OBVIOUS
<1>2. CASE \E n \in DOMAIN list : list[n].symbol = s
  <2> DEFINE n == CHOOSE m \in DOMAIN list : list[m].symbol = s
  <2>1. n \in DOMAIN list
    BY <1>2
  <2>2. list[n].quote \in Nat
    <3> HIDE DEF n
    <3> QED
      BY <1>1, <2>1 DEF RtEntry
  <2> QED
    BY <1>2, <2>2 DEF QuoteOf
<1>3. CASE ~ \E n \in DOMAIN list : list[n].symbol = s
  BY <1>3 DEF QuoteOf
<1> QED
  BY <1>2, <1>3

LEMMA RememberIsTyped ==
    ASSUME RtTypes, NEW s \in RtSymbols, NEW quote \in Nat
    PROVE  Remember(s, quote) \in Seq(RtEntry)
<1> DEFINE rest == Selected(cached, DOMAIN cached \ Cached(s))
           new == [symbol |-> s, quote |-> quote, due |-> FALSE]
           kept == Append(rest, new)
<1>1. rest \in Seq(RtEntry)
  <2>1. cached \in Seq(RtEntry) /\ DOMAIN cached \ Cached(s) \in SUBSET (DOMAIN cached)
    BY DEF RtTypes
  <2> QED
    BY <2>1, SelectedHolds
<1>2. new \in RtEntry
  BY DEF RtEntry
<1> HIDE DEF rest, new
<1>3. kept \in Seq(RtEntry) /\ kept # <<>>
  <2>1. kept \in Seq(RtEntry) /\ Len(kept) = Len(rest) + 1 /\ Len(rest) \in Nat
    BY <1>1, <1>2
  <2> HIDE DEF kept
  <2> QED
    BY <2>1
<1> HIDE DEF kept
<1>4. Tail(kept) \in Seq(RtEntry)
  BY <1>3
<1>5. Remember(s, quote) = IF Len(kept) > MaxCached THEN Tail(kept) ELSE kept
  BY DEF Remember, kept, rest, new
<1> QED
  BY <1>3, <1>4, <1>5

\* drain() starts as many of the free tasks as there is room, and what waits then
\* waits for its symbol or for room.
LEMMA DrainFits ==
    ASSUME NEW queue, NEW inf, NEW tasks, Fits(queue, inf, tasks),
           NEW entries \in Seq(RtEntry), DrainReads(queue, inf, tasks, entries)
    PROVE  /\ Fits(rtQueue', inflight', task') /\ Awaits(rtQueue', inflight', task')
           /\ queue = <<>> => rtQueue' = <<>>
           /\ \A t \in RtTasks : tasks[t].stage # "queued" => task'[t] = tasks[t]
<1> DEFINE room == MaxReads - Cardinality(Reading(inf))
           free == Free(queue, inf, tasks)
           first == Foremost(free, room)
           taken == {queue[n] : n \in first}
           stays == DOMAIN queue \ first
           Sym(n) == tasks[queue[n]].symbol
           syms == {Sym(n) : n \in first}
<1>1. /\ rtQueue' = Selected(queue, stays)
      /\ inflight' = [s \in RtSymbols |->
                        IF \E t \in taken : tasks[t].symbol = s
                        THEN CHOOSE t \in taken : tasks[t].symbol = s ELSE inf[s]]
      /\ task' = [t \in RtTasks |->
                    IF t \in taken
                    THEN [tasks[t] EXCEPT !.stage = "due", !.old = QuoteOf(entries, tasks[t].symbol)]
                    ELSE tasks[t]]
  BY DEF DrainReads
<1>2. /\ Cardinality(Reading(inf)) \in Nat /\ room \in Nat /\ MaxReads \in Nat
  BY FS_CardinalityType, RealtimeAssumption DEF Fits
<1>3. /\ Len(queue) \in Nat /\ DOMAIN queue = 1..Len(queue)
      /\ \A n \in DOMAIN queue : queue[n] \in RtTasks /\ Sym(n) \in RtSymbols
      /\ \A n \in DOMAIN queue : tasks[queue[n]].stage = "queued"
      /\ \A n, m \in DOMAIN queue : Sym(n) = Sym(m) => n = m
  <2>1. queue \in Seq(RtTasks)
    BY DEF Fits
  <2>2. \A t \in RtTasks : tasks[t].symbol \in RtSymbols
    BY DEF Fits, RtTask
  <2>3. \A n \in DOMAIN queue : queue[n] \in RtTasks
    BY <2>1
  <2> QED
    BY <2>1, <2>2, <2>3 DEF Fits
<1>4. free \in SUBSET (1..Len(queue))
  BY <1>3 DEF Free
<1>5. /\ first \subseteq free /\ IsFiniteSet(first)
      /\ Cardinality(first) \in Nat /\ Cardinality(first) <= room
      /\ first = free \/ Cardinality(first) = room
  <2> HIDE DEF room, free
  <2> QED
    BY <1>2, <1>3, <1>4, ForemostCounts
<1>6. \A n \in first : n \in DOMAIN queue /\ inf[Sym(n)] = NoTask
  BY <1>5 DEF Free
<1> HIDE DEF room, first
<1>7. /\ Len(rtQueue') \in Nat /\ rtQueue' \in Seq(RtTasks)
      /\ \A n \in DOMAIN rtQueue' : Nth(stays, n) \in stays /\ rtQueue'[n] = queue[Nth(stays, n)]
      /\ \A n, m \in DOMAIN rtQueue' : Nth(stays, n) = Nth(stays, m) => n = m
      /\ DOMAIN rtQueue' = 1..Cardinality(stays)
  <2>1. stays \in SUBSET (DOMAIN queue) /\ queue \in Seq(RtTasks)
    BY DEF Fits
  <2> HIDE DEF stays
  <2> DEFINE left == Selected(queue, stays)
  <2>2. /\ left \in Seq(RtTasks) /\ DOMAIN left = 1..Cardinality(stays)
        /\ \A n \in 1..Cardinality(stays) : /\ Nth(stays, n) \in stays
                                            /\ left[n] = queue[Nth(stays, n)]
        /\ \A n, m \in 1..Cardinality(stays) : Nth(stays, n) = Nth(stays, m) => n = m
    BY <2>1, SelectedHolds
  <2>3. left = rtQueue'
    BY <1>1
  <2> HIDE DEF left
  <2> QED
    BY <2>2, <2>3
<1>8. queue = <<>> => rtQueue' = <<>>
  <2> SUFFICES ASSUME queue = <<>> PROVE rtQueue' = <<>>
    OBVIOUS
  <2>1. stays = {}
    BY <1>3
  <2>2. Cardinality(stays) = 0
    BY <2>1, FS_EmptySet
  <2>3. DOMAIN rtQueue' = {}
    BY <1>7, <2>2
  <2> QED
    BY <2>3, <1>7
<1>9. \A t \in taken : t \in RtTasks /\ tasks[t].stage = "queued"
  BY <1>3, <1>6
<1>10. /\ task' \in [RtTasks -> RtTask]
       /\ \A t \in RtTasks : task'[t].symbol = tasks[t].symbol
       /\ \A t \in taken : task'[t].stage = "due"
       /\ \A t \in RtTasks : t \notin taken => task'[t] = tasks[t]
  <2>1. ASSUME NEW t \in RtTasks
        PROVE  /\ task'[t] \in RtTask /\ task'[t].symbol = tasks[t].symbol
               /\ t \in taken => task'[t].stage = "due"
               /\ t \notin taken => task'[t] = tasks[t]
    <3>1. tasks[t] \in RtTask
      BY DEF Fits
    <3>2. CASE t \in taken
      <4>1. task'[t] = [tasks[t] EXCEPT !.stage = "due", !.old = QuoteOf(entries, tasks[t].symbol)]
        BY <1>1, <3>2
      <4>2. QuoteOf(entries, tasks[t].symbol) \in Nat
        BY QuoteOfIsTyped
      <4> QED
        BY <3>1, <3>2, <4>1, <4>2 DEF RtTask, ReadStages
    <3>3. CASE t \notin taken
      BY <1>1, <3>1, <3>3
    <3> QED
      BY <3>2, <3>3
  <2>2. task' = [t \in RtTasks |-> task'[t]]
    BY <1>1
  <2> HIDE DEF taken
  <2> QED
    BY <2>1, <2>2, <1>9
<1>11. \A n \in first : inflight'[Sym(n)] = queue[n]
  <2> SUFFICES ASSUME NEW n \in first PROVE inflight'[Sym(n)] = queue[n]
    OBVIOUS
  <2>1. \A t \in taken : tasks[t].symbol = Sym(n) => t = queue[n]
    BY <1>3, <1>6
  <2>2. queue[n] \in taken /\ tasks[queue[n]].symbol = Sym(n) /\ Sym(n) \in RtSymbols
    BY <1>3, <1>6
  <2> HIDE DEF taken, Sym
  <2> QED
    BY <1>1, <2>1, <2>2
<1>12. \A s \in RtSymbols : s \notin syms => inflight'[s] = inf[s]
  BY <1>1
<1>13. syms \subseteq RtSymbols /\ \A s \in syms : inf[s] = NoTask
  BY <1>3, <1>6
<1>14. inflight' \in [RtSymbols -> RtTasks \cup {NoTask}]
  <2>1. ASSUME NEW s \in RtSymbols PROVE inflight'[s] \in RtTasks \cup {NoTask}
    <3>1. CASE s \in syms
      BY <3>1, <1>3, <1>6, <1>11
    <3>2. CASE s \notin syms
      BY <3>2, <1>12 DEF Fits
    <3> QED
      BY <3>1, <3>2
  <2>2. inflight' = [s \in RtSymbols |-> inflight'[s]]
    BY <1>1
  <2> HIDE DEF taken, syms
  <2> QED
    BY <2>1, <2>2
<1>15. Reading(inflight') = Reading(inf) \cup syms /\ Reading(inf) \cap syms = {}
  <2>1. \A s \in syms : inflight'[s] # NoTask
    BY <1>3, <1>6, <1>11, RealtimeAssumption
  <2> HIDE DEF syms
  <2> QED
    BY <2>1, <1>12, <1>13 DEF Reading
<1>16. IsFiniteSet(syms) /\ Cardinality(syms) = Cardinality(first)
  <2> DEFINE f == [n \in first |-> Sym(n)]
  <2>1. f \in Bijection(first, syms)
    <3>1. f \in [first -> syms] /\ \A s \in syms : \E n \in first : f[n] = s
      OBVIOUS
    <3>2. \A n, m \in first : f[n] = f[m] => n = m
      BY <1>3, <1>6
    <3> HIDE DEF f, syms
    <3> QED
      BY <3>1, <3>2 DEF Bijection, Injection, Surjection, IsInjective
  <2>2. ExistsBijection(first, syms)
    BY <2>1 DEF ExistsBijection
  <2> HIDE DEF syms
  <2> QED
    BY <2>2, <1>5, FS_Bijection
<1>17. /\ IsFiniteSet(Reading(inflight'))
       /\ Cardinality(Reading(inflight')) = Cardinality(Reading(inf)) + Cardinality(first)
  <2>1. IsFiniteSet(Reading(inf))
    BY DEF Fits
  <2> HIDE DEF syms
  <2>2. Cardinality(Reading(inf) \cap syms) = 0
    BY <1>15, FS_EmptySet
  <2>3. /\ IsFiniteSet(Reading(inf) \cup syms)
        /\ Cardinality(Reading(inf) \cup syms)
             = Cardinality(Reading(inf)) + Cardinality(syms) - Cardinality(Reading(inf) \cap syms)
    BY <2>1, <1>16, FS_Union
  <2> QED
    BY <2>2, <2>3, <1>2, <1>5, <1>15, <1>16
<1>18. Cardinality(Reading(inflight')) <= MaxReads
  BY <1>2, <1>5, <1>17 DEF room
<1>19. ASSUME NEW t \in RtTasks, task'[t].stage \in ReadStages
       PROVE  inflight'[task'[t].symbol] = t
  <2>1. CASE t \in taken
    BY <2>1, <1>10, <1>9, <1>11
  <2>2. CASE t \notin taken
    <3>1. tasks[t].stage \in ReadStages /\ inf[tasks[t].symbol] = t /\ tasks[t].symbol \in RtSymbols
      BY <2>2, <1>10, <1>19 DEF Fits, RtTask
    <3>2. inf[tasks[t].symbol] # NoTask
      BY <3>1, RealtimeAssumption
    <3>3. tasks[t].symbol \notin syms
      BY <3>2, <1>13
    <3> QED
      BY <3>1, <3>3, <1>10, <1>12
  <2> QED
    BY <2>1, <2>2
<1>20. ASSUME NEW s \in Reading(inflight')
       PROVE  task'[inflight'[s]].stage \in ReadStages /\ task'[inflight'[s]].symbol = s
  <2>1. CASE s \in syms
    <3>1. PICK n \in first : s = Sym(n)
      BY <2>1
    <3>2. queue[n] \in taken /\ inflight'[s] = queue[n]
      BY <3>1, <1>11
    <3> HIDE DEF taken
    <3> QED
      BY <3>1, <3>2, <1>9, <1>10 DEF ReadStages
  <2>2. CASE s \notin syms
    <3>1. s \in Reading(inf) /\ s \in RtSymbols /\ inflight'[s] = inf[s]
      BY <2>2, <1>12, <1>15 DEF Reading
    <3>2. inf[s] \in RtTasks /\ tasks[inf[s]].stage \in ReadStages /\ tasks[inf[s]].symbol = s
      BY <3>1 DEF Fits, Reading
    <3>3. inf[s] \notin taken
      BY <3>2, <1>9 DEF ReadStages
    <3> QED
      BY <3>1, <3>2, <3>3, <1>10
  <2> QED
    BY <2>1, <2>2
<1>21. ASSUME NEW n \in DOMAIN rtQueue'
       PROVE  /\ rtQueue'[n] \in RtTasks
              /\ task'[rtQueue'[n]] = tasks[queue[Nth(stays, n)]]
              /\ Nth(stays, n) \in DOMAIN queue /\ Nth(stays, n) \notin first
  <2>1. /\ Nth(stays, n) \in DOMAIN queue /\ Nth(stays, n) \notin first
        /\ rtQueue'[n] = queue[Nth(stays, n)]
    BY <1>7
  <2>2. queue[Nth(stays, n)] \notin taken
    BY <2>1, <1>3, <1>6
  <2> QED
    BY <2>1, <2>2, <1>3, <1>10
<1>22. ASSUME NEW n \in DOMAIN rtQueue', NEW m \in DOMAIN rtQueue',
              task'[rtQueue'[n]].symbol = task'[rtQueue'[m]].symbol
       PROVE  n = m
  <2>1. Nth(stays, n) = Nth(stays, m)
    <3>1. Sym(Nth(stays, n)) = Sym(Nth(stays, m))
      BY <1>21, <1>22
    <3>2. Nth(stays, n) \in DOMAIN queue /\ Nth(stays, m) \in DOMAIN queue
      BY <1>21
    <3> HIDE DEF stays, Sym
    <3> QED
      BY <3>1, <3>2, <1>3
  <2> QED
    BY <2>1, <1>7
<1>23. \A n \in DOMAIN rtQueue' : task'[rtQueue'[n]].stage = "queued"
  BY <1>21, <1>3
<1>24. ASSUME NEW n \in DOMAIN rtQueue'
       PROVE  \/ inflight'[task'[rtQueue'[n]].symbol] # NoTask
              \/ Cardinality(Reading(inflight')) = MaxReads
  <2> DEFINE k == Nth(stays, n)
  <2>1. /\ k \in DOMAIN queue /\ k \notin first /\ Sym(k) \in RtSymbols
        /\ task'[rtQueue'[n]].symbol = Sym(k)
    BY <1>21, <1>3
  <2>2. CASE inf[Sym(k)] # NoTask
    BY <2>1, <2>2, <1>12, <1>13
  <2>3. CASE inf[Sym(k)] = NoTask
    <3>1. k \in free
      BY <2>1, <2>3 DEF Free
    <3>2. Cardinality(first) = room
      BY <3>1, <2>1, <1>5
    <3> QED
      BY <3>2, <1>2, <1>17 DEF room
  <2> QED
    BY <2>2, <2>3
<1>25. \A t \in RtTasks : tasks[t].stage # "queued" => task'[t] = tasks[t]
  BY <1>9, <1>10
<1> HIDE DEF taken, stays, syms, Sym
<1>26. Fits(rtQueue', inflight', task')
  BY <1>7, <1>10, <1>14, <1>17, <1>18, <1>19, <1>20, <1>22, <1>23 DEF Fits
<1> QED
  BY <1>8, <1>24, <1>25, <1>26 DEF Awaits

\* One field of one task: the others keep theirs.
LEMMA StageFits ==
    ASSUME Fits(rtQueue, inflight, task), NEW t \in RtTasks, task[t].stage \in ReadStages,
           NEW new \in RtTask, new.stage \in ReadStages, new.symbol = task[t].symbol,
           UNCHANGED <<rtQueue, inflight>>, task' = [task EXCEPT ![t] = new]
    PROVE  Fits(rtQueue', inflight', task')
<1>1. /\ task \in [RtTasks -> RtTask] /\ task' \in [RtTasks -> RtTask] /\ task'[t] = new
      /\ \A u \in RtTasks : u # t => task'[u] = task[u]
  BY DEF Fits
<1>2. \A u \in RtTasks : /\ task'[u].symbol = task[u].symbol
                         /\ task'[u].stage \in ReadStages <=> task[u].stage \in ReadStages
                         /\ task[u].stage = "queued" => task'[u].stage = "queued"
  BY <1>1 DEF ReadStages
<1>3. \A n \in DOMAIN rtQueue : rtQueue[n] \in RtTasks
  <2>1. rtQueue \in Seq(RtTasks)
    BY DEF Fits
  <2> QED
    BY <2>1
<1>4. \A s \in Reading(inflight) : inflight[s] \in RtTasks
  BY DEF Fits, Reading
<1> QED
  BY <1>1, <1>2, <1>3, <1>4 DEF Fits

LEMMA StageKeepsAwaits ==
    ASSUME Fits(rtQueue, inflight, task), Awaits(rtQueue, inflight, task),
           UNCHANGED <<rtQueue, inflight>>,
           \A u \in RtTasks : task'[u].symbol = task[u].symbol
    PROVE  Awaits(rtQueue', inflight', task')
<1>1. \A n \in DOMAIN rtQueue : rtQueue[n] \in RtTasks
  <2>1. rtQueue \in Seq(RtTasks)
    BY DEF Fits
  <2> QED
    BY <2>1
<1> QED
  BY <1>1 DEF Awaits

LEMMA IdleIsTask == Idle \in RtTask
BY RealtimeAssumption DEF Idle, RtTask

LEMMA WarmKeeps ==
    ASSUME RtInv, NEW s \in RtSymbols, NEW t \in RtTasks, Warm(s, t)
    PROVE  /\ RtInv'
           /\ \A u \in RtTasks : task[u].stage \in ReadStages => task'[u] = task[u]
<1> DEFINE queue == Append(rtQueue, t)
           new == [Idle EXCEPT !.stage = "queued", !.symbol = s, !.epoch = generation]
           tasks == [task EXCEPT ![t] = new]
<1>1. /\ MustQueue(s) /\ task[t].stage = "idle" /\ ~rtClosed
      /\ DrainReads(queue, inflight, tasks, cached)
      /\ UNCHANGED <<cached, refresher, rtClosed, generation>>
  BY DEF Warm, MustQueue
<1>2. /\ rtQueue \in Seq(RtTasks) /\ Len(rtQueue) \in Nat /\ DOMAIN rtQueue = 1..Len(rtQueue)
      /\ \A n \in DOMAIN rtQueue : rtQueue[n] \in RtTasks
      /\ \A n \in DOMAIN rtQueue : rtQueue[n] # t /\ task[rtQueue[n]].symbol # s
      /\ task \in [RtTasks -> RtTask]
  <2>1. rtQueue \in Seq(RtTasks) /\ task \in [RtTasks -> RtTask]
    BY DEF RtInv, Fits
  <2>2. \A n \in DOMAIN rtQueue : task[rtQueue[n]].stage = "queued"
    BY DEF RtInv, Fits
  <2> QED
    BY <2>1, <2>2, <1>1 DEF MustQueue
<1>3. new \in RtTask /\ new.stage = "queued" /\ new.symbol = s
  <2>1. Idle \in RtTask /\ generation \in Nat
    BY IdleIsTask DEF RtInv, RtTypes
  <2> HIDE DEF new
  <2>2. new = [Idle EXCEPT !.stage = "queued", !.symbol = s, !.epoch = generation]
    BY DEF new
  <2> QED
    BY <2>1, <2>2 DEF RtTask
<1> HIDE DEF new
<1>4. /\ tasks \in [RtTasks -> RtTask] /\ tasks[t] = new
      /\ \A u \in RtTasks : u # t => tasks[u] = task[u]
  BY <1>2, <1>3
<1>5. /\ queue \in Seq(RtTasks) /\ DOMAIN queue = 1..Len(rtQueue) + 1
      /\ queue[Len(rtQueue) + 1] = t /\ \A n \in DOMAIN rtQueue : queue[n] = rtQueue[n]
  BY <1>2
<1>6. \A n \in DOMAIN queue : n \in DOMAIN rtQueue \/ n = Len(rtQueue) + 1
  BY <1>2, <1>5
<1> HIDE DEF queue, tasks
<1>7. \A n \in DOMAIN queue : tasks[queue[n]].stage = "queued"
  BY <1>2, <1>3, <1>4, <1>5, <1>6 DEF RtInv, Fits
<1>8. \A n, m \in DOMAIN queue : tasks[queue[n]].symbol = tasks[queue[m]].symbol => n = m
  <2>1. \A n \in DOMAIN rtQueue : tasks[queue[n]] = task[rtQueue[n]]
    BY <1>2, <1>4, <1>5
  <2>2. tasks[queue[Len(rtQueue) + 1]].symbol = s
    BY <1>3, <1>4, <1>5
  <2>3. \A n, m \in DOMAIN rtQueue : task[rtQueue[n]].symbol = task[rtQueue[m]].symbol => n = m
    BY DEF RtInv, Fits
  <2> QED
    BY <2>1, <2>2, <2>3, <1>2, <1>6
<1>9. \A u \in RtTasks : tasks[u].stage \in ReadStages
                           <=> (u # t /\ task[u].stage \in ReadStages)
  BY <1>3, <1>4 DEF ReadStages
<1>10. \A r \in Reading(inflight) :
          inflight[r] \in RtTasks /\ inflight[r] # t /\ task[inflight[r]].stage \in ReadStages
  BY <1>1 DEF RtInv, Fits, Reading, ReadStages
<1>11. Fits(queue, inflight, tasks)
  BY <1>4, <1>5, <1>7, <1>8, <1>9, <1>10 DEF RtInv, Fits
<1>12. /\ Fits(rtQueue', inflight', task') /\ Awaits(rtQueue', inflight', task')
       /\ \A u \in RtTasks : tasks[u].stage # "queued" => task'[u] = tasks[u]
  BY <1>1, <1>11, DrainFits DEF RtInv, RtTypes
<1>13. \A u \in RtTasks : task[u].stage \in ReadStages => task'[u] = task[u]
  BY <1>1, <1>4, <1>12 DEF ReadStages
<1> QED
  BY <1>1, <1>12, <1>13 DEF RtInv, RtTypes

LEMMA AskKeeps == ASSUME RtInv, NEW t \in RtTasks, Ask(t) PROVE RtInv'
<1> DEFINE new == [task[t] EXCEPT !.stage = IF IsCurrent(t) THEN "asking" ELSE "answered"]
<1>1. /\ task[t].stage = "due" /\ task' = [task EXCEPT ![t] = new]
      /\ UNCHANGED <<cached, rtQueue, inflight, refresher, rtClosed, generation>>
  BY DEF Ask
<1>2. task \in [RtTasks -> RtTask] /\ task[t] \in RtTask
  BY DEF RtInv, Fits
<1>3. new \in RtTask /\ new.stage \in ReadStages /\ new.symbol = task[t].symbol
  BY <1>2 DEF RtTask, ReadStages
<1> HIDE DEF new
<1>4. Fits(rtQueue', inflight', task')
  BY <1>1, <1>3, StageFits DEF RtInv, ReadStages
<1>5. \A u \in RtTasks : task'[u].symbol = task[u].symbol
  BY <1>1, <1>2, <1>3
<1>6. Awaits(rtQueue', inflight', task')
  BY <1>1, <1>5, StageKeepsAwaits DEF RtInv
<1> QED
  BY <1>1, <1>4, <1>6 DEF RtInv, RtTypes

LEMMA AnswerKeeps == ASSUME RtInv, NEW t \in RtTasks, Answer(t) PROVE RtInv'
<1>1. PICK quote \in {0} \cup Quotes, fails \in BOOLEAN :
        LET next == IF ~fails /\ quote # 0 THEN quote ELSE task[t].old IN
          /\ cached' = IF IsCurrent(t) THEN Remember(task[t].symbol, next) ELSE cached
          /\ task' = [task EXCEPT ![t].stage = "answered",
                         ![t].notify = IsCurrent(t) /\ ~fails /\ next # task[t].old]
  BY DEF Answer
<1> DEFINE next == IF ~fails /\ quote # 0 THEN quote ELSE task[t].old
           new == [task[t] EXCEPT !.stage = "answered",
                      !.notify = IsCurrent(t) /\ ~fails /\ next # task[t].old]
<1>2. /\ task[t].stage = "asking"
      /\ cached' = IF IsCurrent(t) THEN Remember(task[t].symbol, next) ELSE cached
      /\ UNCHANGED <<rtQueue, inflight, refresher, rtClosed, generation>>
  BY <1>1 DEF Answer
<1>3. task \in [RtTasks -> RtTask] /\ task[t] \in RtTask
  BY DEF RtInv, Fits
<1>4. task' = [task EXCEPT ![t] = new]
  BY <1>1, <1>3
<1>5. next \in Nat /\ task[t].symbol \in RtSymbols
  BY <1>3, RealtimeAssumption DEF RtTask
<1>6. new \in RtTask /\ new.stage \in ReadStages /\ new.symbol = task[t].symbol
  <2>1. (IsCurrent(t) /\ ~fails /\ next # task[t].old) \in BOOLEAN
    OBVIOUS
  <2> QED
    BY <1>3, <2>1 DEF RtTask, ReadStages
<1> HIDE DEF next, new
<1>7. cached' \in Seq(RtEntry)
  BY <1>2, <1>5, RememberIsTyped DEF RtInv, RtTypes
<1>8. Fits(rtQueue', inflight', task')
  BY <1>2, <1>4, <1>6, StageFits DEF RtInv, ReadStages
<1>9. \A u \in RtTasks : task'[u].symbol = task[u].symbol
  BY <1>3, <1>4, <1>6
<1>10. Awaits(rtQueue', inflight', task')
  BY <1>2, <1>9, StageKeepsAwaits DEF RtInv
<1> QED
  BY <1>2, <1>7, <1>8, <1>10 DEF RtInv, RtTypes

LEMMA FinishKeeps ==
    ASSUME RtInv, NEW t \in RtTasks, Finish(t)
    PROVE  /\ RtInv'
           /\ \A u \in RtTasks : (u # t /\ task[u].stage \in ReadStages) => task'[u] = task[u]
<1> DEFINE s == task[t].symbol
           left == IF inflight[s] = t THEN [inflight EXCEPT ![s] = NoTask] ELSE inflight
           over == [task EXCEPT ![t] = Idle]
<1>1. /\ task[t].stage = "answered"
      /\ IF rtClosed THEN task' = over /\ inflight' = left /\ UNCHANGED rtQueue
         ELSE DrainReads(rtQueue, left, over, cached)
      /\ UNCHANGED <<cached, refresher, rtClosed, generation>>
  BY DEF Finish
<1>2. /\ task \in [RtTasks -> RtTask] /\ task[t] \in RtTask /\ s \in RtSymbols
      /\ inflight \in [RtSymbols -> RtTasks \cup {NoTask}] /\ inflight[s] = t
      /\ rtQueue \in Seq(RtTasks)
  BY <1>1 DEF RtInv, Fits, RtTask, ReadStages
<1>3. left = [inflight EXCEPT ![s] = NoTask]
  BY <1>2
<1> HIDE DEF left
<1>4. /\ left \in [RtSymbols -> RtTasks \cup {NoTask}]
      /\ left[s] = NoTask /\ \A r \in RtSymbols : r # s => left[r] = inflight[r]
  BY <1>2, <1>3
<1>5. /\ over \in [RtTasks -> RtTask] /\ over[t].stage = "idle"
      /\ \A u \in RtTasks : u # t => over[u] = task[u]
  BY <1>2, IdleIsTask DEF Idle
<1> HIDE DEF over
<1>6. Reading(left) \subseteq Reading(inflight) \ {s}
  BY <1>4 DEF Reading
<1>7. /\ IsFiniteSet(Reading(left)) /\ Cardinality(Reading(left)) <= MaxReads
  <2>1. IsFiniteSet(Reading(inflight)) /\ Cardinality(Reading(inflight)) <= MaxReads
    BY DEF RtInv, Fits
  <2>2. /\ IsFiniteSet(Reading(left)) /\ Cardinality(Reading(left)) <= Cardinality(Reading(inflight))
    BY <2>1, <1>6, FS_Subset
  <2>3. Cardinality(Reading(left)) \in Nat /\ Cardinality(Reading(inflight)) \in Nat /\ MaxReads \in Nat
    BY <2>1, <2>2, FS_CardinalityType, RealtimeAssumption
  <2> QED
    BY <2>1, <2>2, <2>3
<1>8. ASSUME NEW u \in RtTasks, over[u].stage \in ReadStages PROVE left[over[u].symbol] = u
  <2>1. u # t /\ over[u] = task[u]
    BY <1>5, <1>8 DEF ReadStages
  <2>2. inflight[task[u].symbol] = u /\ task[u].symbol \in RtSymbols
    BY <2>1, <1>8 DEF RtInv, Fits, RtTask
  <2> QED
    BY <2>1, <2>2, <1>2, <1>4
<1>9. ASSUME NEW r \in Reading(left)
      PROVE  over[left[r]].stage \in ReadStages /\ over[left[r]].symbol = r
  <2>1. r \in RtSymbols /\ r # s /\ r \in Reading(inflight) /\ left[r] = inflight[r]
    BY <1>4, <1>6 DEF Reading
  <2>2. inflight[r] \in RtTasks /\ task[inflight[r]].stage \in ReadStages /\ task[inflight[r]].symbol = r
    BY <2>1 DEF RtInv, Fits, Reading
  <2> QED
    BY <2>1, <2>2, <1>5
<1>10. \A n \in DOMAIN rtQueue : rtQueue[n] \in RtTasks /\ over[rtQueue[n]] = task[rtQueue[n]]
  <2>1. \A n \in DOMAIN rtQueue : rtQueue[n] \in RtTasks
    BY <1>2
  <2>2. \A n \in DOMAIN rtQueue : rtQueue[n] # t
    BY <1>1 DEF RtInv, Fits
  <2> QED
    BY <2>1, <2>2, <1>5
<1>11. Fits(rtQueue, left, over)
  BY <1>2, <1>4, <1>5, <1>7, <1>8, <1>9, <1>10 DEF RtInv, Fits
<1>12. CASE rtClosed
  <2>1. rtQueue' = <<>> /\ task' = over /\ inflight' = left
    BY <1>1, <1>12 DEF RtInv
  <2>2. Fits(rtQueue', inflight', task')
    BY <2>1, <1>1, <1>11, <1>12
  <2>3. Awaits(rtQueue', inflight', task')
    BY <2>1 DEF Awaits
  <2> QED
    BY <2>1, <2>2, <2>3, <1>1, <1>5 DEF RtInv, RtTypes
<1>13. CASE ~rtClosed
  <2>1. /\ Fits(rtQueue', inflight', task') /\ Awaits(rtQueue', inflight', task')
        /\ \A u \in RtTasks : over[u].stage # "queued" => task'[u] = over[u]
    BY <1>1, <1>11, <1>13, DrainFits DEF RtInv, RtTypes
  <2>2. \A u \in RtTasks : (u # t /\ task[u].stage \in ReadStages) => task'[u] = task[u]
    BY <2>1, <1>5 DEF ReadStages
  <2> QED
    BY <2>1, <2>2, <1>1, <1>13 DEF RtInv, RtTypes
<1> QED
  BY <1>12, <1>13

LEMMA RefreshKeeps ==
    ASSUME RtInv, NEW f \in Refreshers,
           RefreshAnswer(f) \/ \E s \in RtSymbols : RefreshAsk(f, s)
    PROVE  RtInv' /\ UNCHANGED task
<1>1. CASE RefreshAnswer(f)
  <2>1. PICK quote \in {0} \cup Quotes :
           cached' = IF quote # 0 /\ ~rtClosed THEN Remember(refresher[f].symbol, quote) ELSE cached
    BY <1>1 DEF RefreshAnswer
  <2>2. refresher \in [Refreshers -> [stage : {"idle", "asking"}, symbol : RtSymbols]]
    BY DEF RtInv, RtTypes
  <2>3. refresher[f].symbol \in RtSymbols /\ quote \in Nat
    BY <2>2, RealtimeAssumption
  <2>4. cached' \in Seq(RtEntry)
    BY <2>1, <2>3, RememberIsTyped DEF RtInv, RtTypes
  <2>5. refresher' \in [Refreshers -> [stage : {"idle", "asking"}, symbol : RtSymbols]]
    BY <2>2, <1>1 DEF RefreshAnswer
  <2> QED
    BY <2>4, <2>5, <1>1 DEF RefreshAnswer, RtInv, RtTypes
<1>2. CASE \E s \in RtSymbols : RefreshAsk(f, s)
  BY <1>2 DEF RefreshAsk, RtInv, RtTypes
<1> QED
  BY <1>1, <1>2

LEMMA EntriesDueKeeps == ASSUME RtInv, EntriesDue PROVE RtInv' /\ UNCHANGED task
<1>1. /\ cached' = [n \in DOMAIN cached |-> [cached[n] EXCEPT !.due = TRUE]]
      /\ UNCHANGED <<rtQueue, inflight, task, refresher, rtClosed, generation>>
  BY DEF EntriesDue
<1>2. cached \in Seq(RtEntry) /\ Len(cached) \in Nat /\ DOMAIN cached = 1..Len(cached)
  BY DEF RtInv, RtTypes
<1>3. \A n \in DOMAIN cached : [cached[n] EXCEPT !.due = TRUE] \in RtEntry
  <2>1. \A n \in DOMAIN cached : cached[n] \in RtEntry
    BY <1>2
  <2> QED
    BY <2>1 DEF RtEntry
<1>4. cached' \in [1..Len(cached) -> RtEntry]
  BY <1>1, <1>2, <1>3
<1>5. cached' \in Seq(RtEntry)
  BY <1>2, <1>4
<1> QED
  BY <1>1, <1>5 DEF RtInv, RtTypes

LEMMA StopKeeps ==
    ASSUME RtInv, StopRealtime
    PROVE  /\ RtInv'
           /\ \A u \in RtTasks : task[u].stage \in ReadStages => task'[u] = task[u]
<1>1. /\ rtClosed' = TRUE /\ generation' = generation + 1
      /\ cached' = <<>> /\ rtQueue' = <<>>
      /\ task' = [t \in RtTasks |-> IF task[t].stage = "queued" THEN Idle ELSE task[t]]
      /\ UNCHANGED <<inflight, refresher>>
  BY DEF StopRealtime
<1>2. /\ task \in [RtTasks -> RtTask] /\ inflight \in [RtSymbols -> RtTasks \cup {NoTask}]
  BY DEF RtInv, Fits
<1>3. /\ task' \in [RtTasks -> RtTask]
      /\ \A u \in RtTasks : task[u].stage \in ReadStages => task'[u] = task[u]
      /\ \A u \in RtTasks : task'[u].stage \in ReadStages => task'[u] = task[u]
  BY <1>1, <1>2, IdleIsTask DEF ReadStages, Idle
<1>4. \A s \in Reading(inflight) : inflight[s] \in RtTasks /\ task[inflight[s]].stage \in ReadStages
  BY <1>2 DEF RtInv, Fits, Reading
<1>5. Fits(rtQueue', inflight', task')
  BY <1>1, <1>3, <1>4 DEF RtInv, Fits
<1>6. Awaits(rtQueue', inflight', task')
  BY <1>1 DEF Awaits
<1> QED
  BY <1>1, <1>3, <1>5, <1>6 DEF RtInv, RtTypes

LEMMA StartKeeps ==
    ASSUME RtInv, StartRealtime
    PROVE  /\ RtInv'
           /\ \A u \in RtTasks : task[u].stage \in ReadStages => task'[u] = task[u]
<1>1. /\ rtClosed' = FALSE /\ DrainReads(rtQueue, inflight, task, cached)
      /\ UNCHANGED <<cached, refresher, generation>>
  BY DEF StartRealtime
<1>2. /\ Fits(rtQueue', inflight', task') /\ Awaits(rtQueue', inflight', task')
      /\ \A u \in RtTasks : task[u].stage # "queued" => task'[u] = task[u]
  BY <1>1, DrainFits DEF RtInv, RtTypes
<1> QED
  BY <1>1, <1>2 DEF RtInv, RtTypes, ReadStages

LEMMA RtInvStarts == RealtimeInit => RtInv
<1> SUFFICES ASSUME RealtimeInit PROVE RtInv
  OBVIOUS
<1>1. Idle \in RtTask /\ Idle.stage = "idle" /\ Idle.symbol \in RtSymbols
  BY IdleIsTask DEF Idle, RtTask
<1>2. /\ task = [t \in RtTasks |-> Idle] /\ inflight = [s \in RtSymbols |-> NoTask]
      /\ refresher = [f \in Refreshers |-> [stage |-> "idle", symbol |-> Idle.symbol]]
      /\ cached = <<>> /\ rtQueue = <<>> /\ rtClosed = FALSE /\ generation = 0
  BY DEF RealtimeInit
<1>3. Reading(inflight) = {}
  BY <1>2 DEF Reading
<1>4. /\ IsFiniteSet(Reading(inflight)) /\ Cardinality(Reading(inflight)) = 0 /\ MaxReads \in Nat
  BY <1>3, FS_EmptySet, RealtimeAssumption
<1> HIDE DEF Idle
<1>5. Fits(rtQueue, inflight, task)
  BY <1>1, <1>2, <1>3, <1>4 DEF Fits, ReadStages
<1>6. refresher \in [Refreshers -> [stage : {"idle", "asking"}, symbol : RtSymbols]]
  BY <1>1, <1>2
<1>7. cached = <<>> /\ cached \in Seq(RtEntry) /\ DOMAIN rtQueue = {}
  BY <1>2
<1>8. RtTypes
  BY <1>2, <1>6, <1>7 DEF RtTypes
<1>9. Awaits(rtQueue, inflight, task)
  BY <1>7 DEF Awaits
<1> QED
  BY <1>2, <1>5, <1>8, <1>9 DEF RtInv

LEMMA StepKeepsRtInv == RtInv /\ [RealtimeNext]_rtVars => RtInv'
<1> SUFFICES ASSUME RtInv, [RealtimeNext]_rtVars PROVE RtInv'
  OBVIOUS
<1>1. CASE UNCHANGED rtVars
  BY <1>1 DEF rtVars, RtInv, RtTypes
<1>2. CASE \E s \in RtSymbols, t \in RtTasks : Warm(s, t)
  BY <1>2, WarmKeeps
<1>3. CASE \E t \in RtTasks : Ask(t) \/ Answer(t) \/ Finish(t)
  BY <1>3, AskKeeps, AnswerKeeps, FinishKeeps
<1>4. CASE \E f \in Refreshers : RefreshAnswer(f) \/ \E s \in RtSymbols : RefreshAsk(f, s)
  BY <1>4, RefreshKeeps
<1>5. CASE EntriesDue \/ StopRealtime \/ StartRealtime
  BY <1>5, EntriesDueKeeps, StopKeeps, StartKeeps
<1> QED
  BY <1>1, <1>2, <1>3, <1>4, <1>5 DEF RealtimeNext

LEMMA RtInvariant == RealtimeSpec => []RtInv
BY RtInvStarts, StepKeepsRtInv, PTL DEF RealtimeSpec

LEMMA NothingStranded == RtInv => NoReadStranded
<1> SUFFICES ASSUME RtInv PROVE NoReadStranded
  OBVIOUS
<1>1. \A n \in DOMAIN rtQueue : ~rtClosed
  BY DEF RtInv
<1> QED
  BY <1>1 DEF RtInv, Fits, Awaits, NoReadStranded, ReadStages

\* A read of before the stop changes nothing when it answers or ends.
LEMMA OldReadsLeaveNothing ==
    ASSUME RtInv, [RealtimeNext]_rtVars PROVE OldReadsAreDropped
<1> SUFFICES ASSUME NEW t \in RtTasks, task[t].stage \in {"asking", "answered"},
                    task'[t] # task[t], rtClosed \/ task[t].epoch # generation
             PROVE  poked' = {} /\ cached' = cached
  BY DEF OldReadsAreDropped
<1>0. task[t].stage \in ReadStages /\ ~IsCurrent(t)
  BY DEF ReadStages, IsCurrent
<1>1. CASE UNCHANGED rtVars
  BY <1>1 DEF rtVars
<1>2. CASE \E s \in RtSymbols, u \in RtTasks : Warm(s, u)
  BY <1>0, <1>2, WarmKeeps
<1>3. CASE \E u \in RtTasks : Ask(u)
  BY <1>3 DEF Ask
<1>4. CASE \E u \in RtTasks : Answer(u)
  <2>1. PICK u \in RtTasks : Answer(u)
    BY <1>4
  <2>2. u = t
    BY <2>1 DEF Answer, RtInv, Fits
  <2> QED
    BY <2>1, <2>2, <1>0 DEF Answer
<1>5. CASE \E u \in RtTasks : Finish(u)
  <2>1. PICK u \in RtTasks : Finish(u)
    BY <1>5
  <2>2. u = t
    BY <2>1, <1>0, FinishKeeps
  <2> QED
    BY <2>1, <2>2, <1>0 DEF Finish
<1>6. CASE \E f \in Refreshers : RefreshAnswer(f) \/ \E s \in RtSymbols : RefreshAsk(f, s)
  BY <1>6, RefreshKeeps
<1>7. CASE EntriesDue \/ StopRealtime \/ StartRealtime
  BY <1>0, <1>7, EntriesDueKeeps, StopKeeps, StartKeeps
<1> QED
  BY <1>1, <1>2, <1>3, <1>4, <1>5, <1>6, <1>7 DEF RealtimeNext

(* Over any number of stops and starts every read keeps its symbol until it     *)
(* ends, no queued task waits for nothing, and a read that a stop overtook       *)
(* changes neither the cache nor the engine.                                    *)
THEOREM RestartsStrandNothing == RealtimeSpec => ReadsSurviveRestart
<1>1. RtInv /\ RtInv' /\ [RealtimeNext]_rtVars => [NoReadStranded' /\ OldReadsAreDropped]_rtVars
  <2>1. RtInv' => NoReadStranded'
    BY NothingStranded, PTL
  <2> QED
    BY <2>1, OldReadsLeaveNothing
<1> QED
  BY <1>1, RtInvariant, PTL DEF RealtimeSpec, ReadsSurviveRestart
-----------------------------------------------------------------------------
(***************************************************************************)
(* ContextLimiter                                                          *)
(***************************************************************************)

Charges == [time : Nat, cost : Costs]

LEMMA CostsAreNumbers == \A list \in Seq(Charges), n \in Nat :
    n \in DOMAIN list => /\ list[n].cost \in Nat /\ list[n].cost \in Costs
                         /\ list[n].time \in Nat /\ list[n] \in Charges
<1> SUFFICES ASSUME NEW list \in Seq(Charges), NEW n \in DOMAIN list
             PROVE  /\ list[n].cost \in Nat /\ list[n].cost \in Costs
                    /\ list[n].time \in Nat /\ list[n] \in Charges
  OBVIOUS
<1>1. list[n] \in Charges
  OBVIOUS
<1>2. \A c \in Costs : c \in Nat
  <2>1. Limit \in Nat /\ Costs \subseteq 1..Limit
    BY QuotaAssumption
  <2>2. \A c \in 1..Limit : c \in Nat
    BY <2>1
  <2> QED
    BY <2>1, <2>2
<1> QED
  BY <1>1, <1>2 DEF Charges

\* The sums of a list: there are such functions, one length after the other, and
\* Charged chooses the one for the whole list.
Sums(list, m, f) ==
    f = [n \in 0..m |-> IF n = 0 THEN 0 ELSE f[n - 1] + list[n].cost]

LEMMA SumsExist ==
    ASSUME NEW list \in Seq(Charges), NEW m \in 0..Len(list)
    PROVE  \E f \in [0..m -> Nat] : Sums(list, m, f)
<1> DEFINE bad == {k \in 0..Len(list) : ~ \E f \in [0..k -> Nat] : Sums(list, k, f)}
<1>1. SUFFICES ASSUME bad # {} PROVE FALSE
  OBVIOUS
<1>2. bad \subseteq Nat
  OBVIOUS
<1>3. PICK k \in bad : \A l \in bad : k <= l
  <2> HIDE DEF bad
  <2> QED
    BY <1>1, <1>2, LeastPosition
<1>4. k \in 0..Len(list) /\ ~ \E f \in [0..k -> Nat] : Sums(list, k, f)
  OBVIOUS
<1>5. k # 0
  <2> SUFFICES ASSUME k = 0 PROVE FALSE
    OBVIOUS
  <2> DEFINE f == [n \in 0..0 |-> 0]
  <2>1. f \in [0..0 -> Nat] /\ Sums(list, 0, f)
    BY DEF Sums
  <2> QED
    BY <2>1, <1>4
<1> DEFINE l == k - 1
<1>6. l \in 0..Len(list) /\ l \in Nat /\ k = l + 1 /\ l < k /\ k \in DOMAIN list
  BY <1>4, <1>5
<1>7. l \notin bad
  BY <1>3, <1>6
<1> HIDE DEF l
<1>8. PICK f \in [0..l -> Nat] : Sums(list, l, f)
  BY <1>6, <1>7
<1> DEFINE g == [n \in 0..k |-> IF n = k THEN f[l] + list[k].cost ELSE f[n]]
<1>9. list[k].cost \in Nat
  BY <1>6, CostsAreNumbers
<1>10. \A n \in 0..k : n = k \/ n \in 0..l
  BY <1>6
<1>11. /\ g \in [0..k -> Nat] /\ g[k] = f[l] + list[k].cost
       /\ \A n \in 0..l : g[n] = f[n]
  <2>1. f[l] + list[k].cost \in Nat
    BY <1>6, <1>9
  <2> QED
    BY <2>1, <1>6, <1>10
<1>12. \A n \in 0..l : f[n] = IF n = 0 THEN 0 ELSE f[n - 1] + list[n].cost
  BY <1>8 DEF Sums
<1>13. ASSUME NEW n \in 0..k
       PROVE  g[n] = IF n = 0 THEN 0 ELSE g[n - 1] + list[n].cost
  <2>1. CASE n = k
    BY <2>1, <1>5, <1>6, <1>11
  <2>2. CASE n \in 0..l
    <3>1. n # 0 => n - 1 \in 0..l
      BY <2>2, <1>6
    <3> QED
      BY <3>1, <2>2, <1>11, <1>12
  <2> QED
    BY <2>1, <2>2, <1>10
<1>14. g = [n \in 0..k |-> g[n]]
  BY <1>11
<1> HIDE DEF g
<1>15. Sums(list, k, g)
  BY <1>13, <1>14 DEF Sums
<1> QED
  BY <1>4, <1>11, <1>15

LEMMA ChargedIsSum ==
    ASSUME NEW list \in Seq(Charges)
    PROVE  /\ Charged(list) \in [0..Len(list) -> Nat] /\ Charged(list)[0] = 0
           /\ Len(list) \in Nat
           /\ \A n \in 1..Len(list) : Charged(list)[n] = Charged(list)[n - 1] + list[n].cost
<1> DEFINE upto == CHOOSE f : f = [n \in 0..Len(list) |->
                                     IF n = 0 THEN 0 ELSE f[n - 1] + list[n].cost]
<1>1. Len(list) \in Nat /\ Len(list) \in 0..Len(list)
  OBVIOUS
<1>2. \E f : f = [n \in 0..Len(list) |-> IF n = 0 THEN 0 ELSE f[n - 1] + list[n].cost]
  BY <1>1, SumsExist DEF Sums
<1>3. upto = [n \in 0..Len(list) |-> IF n = 0 THEN 0 ELSE upto[n - 1] + list[n].cost]
  BY <1>2
<1>4. Charged(list) = upto
  BY DEF Charged
<1> HIDE DEF upto
<1> DEFINE bad == {n \in 0..Len(list) : upto[n] \notin Nat}
<1>5. \A n \in 0..Len(list) : upto[n] = IF n = 0 THEN 0 ELSE upto[n - 1] + list[n].cost
  BY <1>3
<1>6. bad = {}
  <2>1. SUFFICES ASSUME bad # {} PROVE FALSE
    OBVIOUS
  <2>2. bad \subseteq Nat
    OBVIOUS
  <2>3. PICK k \in bad : \A l \in bad : k <= l
    <3> HIDE DEF bad
    <3> QED
      BY <2>1, <2>2, LeastPosition
  <2>4. k \in 0..Len(list) /\ upto[k] \notin Nat /\ k # 0
    BY <1>5
  <2>5. k - 1 \in 0..Len(list) /\ ~(k <= k - 1) /\ k \in DOMAIN list
    BY <2>4, <1>1
  <2>6. upto[k - 1] \in Nat
    BY <2>3, <2>5
  <2>7. list[k].cost \in Nat
    BY <2>5, CostsAreNumbers
  <2> QED
    BY <2>4, <2>6, <2>7, <1>5
<1>7. upto \in [0..Len(list) -> Nat]
  BY <1>3, <1>6
<1>8. \A n \in 1..Len(list) : upto[n] = upto[n - 1] + list[n].cost
  BY <1>1, <1>5
<1>9. upto[0] = 0
  BY <1>1, <1>5
<1> QED
  BY <1>1, <1>4, <1>7, <1>8, <1>9

\* The sums grow.
LEMMA ChargedGrows ==
    ASSUME NEW list \in Seq(Charges), NEW n \in 0..Len(list), NEW m \in 0..n
    PROVE  Charged(list)[m] <= Charged(list)[n]
<1> DEFINE C == Charged(list)
           bad == {k \in m..Len(list) : ~(C[m] <= C[k])}
<1>1. /\ C \in [0..Len(list) -> Nat] /\ Len(list) \in Nat
      /\ \A k \in 1..Len(list) : C[k] = C[k - 1] + list[k].cost
  BY ChargedIsSum
<1> HIDE DEF C
<1>2. bad = {}
  <2>1. SUFFICES ASSUME bad # {} PROVE FALSE
    OBVIOUS
  <2>2. bad \subseteq Nat
    OBVIOUS
  <2>3. PICK k \in bad : \A l \in bad : k <= l
    <3> HIDE DEF bad
    <3> QED
      BY <2>1, <2>2, LeastPosition
  <2>4. k \in m..Len(list) /\ ~(C[m] <= C[k]) /\ k # m
    BY <1>1
  <2>5. k - 1 \in m..Len(list) /\ ~(k <= k - 1) /\ k \in 1..Len(list) /\ k - 1 \in 0..Len(list)
    BY <2>4, <1>1
  <2>6. C[m] <= C[k - 1]
    BY <2>3, <2>5
  <2>7. list[k].cost \in Nat
    BY <2>5, CostsAreNumbers
  <2>8. m \in 0..Len(list)
    BY <1>1
  <2>9. C[k] = C[k - 1] + list[k].cost /\ C[k - 1] \in Nat /\ C[m] \in Nat
    BY <1>1, <2>5, <2>8
  <2> QED
    BY <2>4, <2>6, <2>7, <2>9
<1>3. n \in m..Len(list)
  BY <1>1
<1> QED
  BY <1>2, <1>3 DEF C

\* The sums of a stretch of a list are the differences of its sums.
LEMMA ChargedPart ==
    ASSUME NEW list \in Seq(Charges), NEW part \in Seq(Charges), NEW d \in Nat,
           NEW m \in 0..Len(part), d + m <= Len(list),
           \A n \in 1..m : part[n] = list[d + n]
    PROVE  \A n \in 0..m : Charged(part)[n] = Charged(list)[d + n] - Charged(list)[d]
<1> DEFINE C == Charged(list)
           P == Charged(part)
           bad == {k \in 0..m : P[k] # C[d + k] - C[d]}
<1>1. /\ C \in [0..Len(list) -> Nat] /\ Len(list) \in Nat
      /\ \A k \in 1..Len(list) : C[k] = C[k - 1] + list[k].cost
  BY ChargedIsSum
<1>2. /\ P \in [0..Len(part) -> Nat] /\ Len(part) \in Nat /\ P[0] = 0
      /\ \A k \in 1..Len(part) : P[k] = P[k - 1] + part[k].cost
  BY ChargedIsSum
<1> HIDE DEF C, P
<1>3. SUFFICES ASSUME bad # {} PROVE FALSE
  BY DEF C, P
<1>4. bad \subseteq Nat
  OBVIOUS
<1>5. PICK k \in bad : \A l \in bad : k <= l
  <2> HIDE DEF bad
  <2> QED
    BY <1>3, <1>4, LeastPosition
<1>6. k \in 0..m /\ P[k] # C[d + k] - C[d]
  OBVIOUS
<1>7. k # 0
  <2>1. d \in 0..Len(list) /\ d + 0 = d
    BY <1>1, <1>2
  <2>2. C[d] \in Nat
    BY <1>1, <2>1
  <2> QED
    BY <1>2, <1>6, <2>1, <2>2
<1> DEFINE l == k - 1
<1>8. l \in 0..m /\ l \in Nat /\ k = l + 1 /\ ~(k <= l) /\ k \in 1..m /\ k \in 1..Len(part)
  BY <1>2, <1>6, <1>7
<1>9. d + k \in 1..Len(list) /\ (d + k) - 1 = d + l /\ d + l \in 0..Len(list) /\ d \in 0..Len(list)
  BY <1>1, <1>2, <1>8
<1>10. P[l] = C[d + l] - C[d]
  BY <1>5, <1>8
<1>11. P[k] = P[l] + part[k].cost /\ C[d + k] = C[d + l] + list[d + k].cost
  BY <1>1, <1>2, <1>8, <1>9
<1>12. list[d + k].cost \in Nat /\ part[k] = list[d + k]
  <2>1. d + k \in DOMAIN list /\ d + k \in Nat
    BY <1>9, <1>1
  <2> QED
    BY <1>8, <2>1, CostsAreNumbers
<1>13. C[d + l] \in Nat /\ C[d] \in Nat
  BY <1>1, <1>9
<1> HIDE DEF l
<1> QED
  BY <1>6, <1>10, <1>11, <1>12, <1>13
-----------------------------------------------------------------------------
\* The part is what is left of the list without its first d elements.
IsEnd(part, list, d) ==
    /\ part \in Seq(Charges) /\ d \in 0..Len(list) /\ Len(part) = Len(list) - d
    /\ \A n \in 1..Len(part) : part[n] = list[d + n]

Sorted(list) == \A m, n \in DOMAIN list : m <= n => list[m].time <= list[n].time

LEMMA EndCharges ==
    ASSUME NEW list \in Seq(Charges), NEW part, NEW d, IsEnd(part, list, d)
    PROVE  Charge(part) = Charge(list) - Charged(list)[d]
<1>1. /\ Len(list) \in Nat /\ Len(part) \in Nat /\ d \in Nat /\ part \in Seq(Charges)
      /\ d + Len(part) = Len(list) /\ d + Len(part) <= Len(list) /\ Len(part) \in 0..Len(part)
      /\ \A n \in 1..Len(part) : part[n] = list[d + n]
  BY DEF IsEnd
<1>2. \A n \in 0..Len(part) : Charged(part)[n] = Charged(list)[d + n] - Charged(list)[d]
  BY <1>1, ChargedPart
<1> QED
  BY <1>1, <1>2 DEF Charge

\* The places of an interval come in their order.
LEMMA NthOfInterval ==
    ASSUME NEW m \in Nat, NEW d \in 0..m
    PROVE  /\ Cardinality(d + 1..m) = m - d
           /\ \A n \in 1..m - d : Nth(d + 1..m, n) = d + n
<1> DEFINE S == d + 1..m
<1>1. S \in SUBSET (1..m)
  OBVIOUS
<1>2. Cardinality(S) = m - d
  <2>1. Cardinality(S) = IF d + 1 > m THEN 0 ELSE m - (d + 1) + 1
    BY FS_Interval
  <2> QED
    BY <2>1
<1>3. ASSUME NEW n \in 1..m - d PROVE Nth(S, n) = d + n
  <2>1. d + n \in S /\ n \in Nat
    OBVIOUS
  <2>2. PICK k \in 1..Cardinality(S) : Nth(S, k) = d + n
    <3> HIDE DEF S
    <3> QED
      BY <1>1, <2>1, NthIsThere
  <2>3. Rank(S, d + n) = k - 1
    <3> HIDE DEF S
    <3> QED
      BY <1>1, <2>2, NthIsThere
  <2>4. {j \in S : j < d + n} = d + 1..d + n - 1
    OBVIOUS
  <2>5. Cardinality(d + 1..d + n - 1) = n - 1
    <3>1. d + 1 \in Int /\ d + n - 1 \in Int
      OBVIOUS
    <3>2. Cardinality(d + 1..d + n - 1)
            = IF d + 1 > d + n - 1 THEN 0 ELSE (d + n - 1) - (d + 1) + 1
      BY <3>1, FS_Interval
    <3> QED
      BY <3>2
  <2>6. k - 1 = n - 1 /\ k \in Int
    <3>1. k \in 1..m - d
      BY <2>2, <1>2
    <3>2. Rank(S, d + n) = n - 1
      BY <2>4, <2>5 DEF Rank
    <3> HIDE DEF S
    <3> QED
      BY <2>3, <3>1, <3>2
  <2> QED
    BY <2>2, <2>6
<1> QED
  BY <1>2, <1>3

LEMMA SameLength == ASSUME NEW m \in Nat, NEW n \in Nat, 1..m = 1..n PROVE m = n
<1>1. m = 0 \/ m \in 1..n
  OBVIOUS
<1>2. n = 0 \/ n \in 1..m
  OBVIOUS
<1> QED
  BY <1>1, <1>2

LEMMA SelectedEnd ==
    ASSUME NEW list \in Seq(Charges), NEW d \in 0..Len(list)
    PROVE  IsEnd(Selected(list, d + 1..Len(list)), list, d)
<1> DEFINE S == d + 1..Len(list)
           part == Selected(list, S)
<1>1. Len(list) \in Nat /\ S \in SUBSET (DOMAIN list) /\ DOMAIN list = 1..Len(list)
  OBVIOUS
<1>2. Cardinality(S) = Len(list) - d /\ \A n \in 1..Len(list) - d : Nth(S, n) = d + n
  BY <1>1, NthOfInterval
<1> HIDE DEF S
<1>3. /\ part \in Seq(Charges) /\ DOMAIN part = 1..Cardinality(S)
      /\ \A n \in 1..Cardinality(S) : part[n] = list[Nth(S, n)]
  BY <1>1, SelectedHolds
<1> HIDE DEF part
<1>4. Len(part) = Len(list) - d
  <2>1. Len(part) \in Nat /\ DOMAIN part = 1..Len(part)
    BY <1>3
  <2>2. 1..Len(part) = 1..Cardinality(S)
    BY <1>3, <2>1
  <2>3. Cardinality(S) \in Nat
    BY <1>1, <1>2
  <2>4. Len(part) = Cardinality(S)
    BY <2>1, <2>2, <2>3, SameLength
  <2> QED
    BY <1>2, <2>4
<1>5. \A n \in 1..Len(part) : part[n] = list[d + n]
  BY <1>2, <1>3, <1>4
<1>6. IsEnd(part, list, d)
  BY <1>3, <1>4, <1>5 DEF IsEnd
<1> QED
  BY <1>6 DEF part, S

\* What the window still charges is the end of the list.
LEMMA WindowIsEnd ==
    ASSUME NEW list \in Seq(Charges), Sorted(list), quotaNow \in Nat
    PROVE  \E d \in 0..Len(list) :
              /\ IsEnd(Selected(list, InWindow(list)), list, d)
              /\ \A n \in 1..d : list[n].time + Window <= quotaNow
              /\ \A n \in d + 1..Len(list) : list[n].time + Window > quotaNow
<1>1. /\ Len(list) \in Nat /\ DOMAIN list = 1..Len(list) /\ Window \in Nat
      /\ \A n \in DOMAIN list : list[n].time \in Nat
  BY CostsAreNumbers, QuotaAssumption
<1>2. \E d \in 0..Len(list) : \A n \in DOMAIN list : n \in InWindow(list) <=> n > d
  <2>1. CASE InWindow(list) = {}
    <3>1. Len(list) \in 0..Len(list) /\ \A n \in DOMAIN list : ~(n > Len(list))
      BY <1>1
    <3> QED
      BY <2>1, <3>1
  <2>2. CASE InWindow(list) # {}
    <3>1. InWindow(list) \subseteq Nat /\ InWindow(list) \subseteq DOMAIN list
      BY <1>1 DEF InWindow
    <3>2. PICK i \in InWindow(list) : \A j \in InWindow(list) : i <= j
      BY <2>2, <3>1, LeastPosition
    <3>3. ASSUME NEW n \in DOMAIN list PROVE n \in InWindow(list) <=> n > i - 1
      <4>1. n \in Nat /\ i \in Nat /\ i \in DOMAIN list
        BY <1>1, <3>1
      <4>2. ASSUME i <= n PROVE n \in InWindow(list)
        <5>1. list[i].time <= list[n].time
          BY <4>1, <4>2 DEF Sorted
        <5>2. list[i].time + Window > quotaNow
          BY DEF InWindow
        <5> QED
          BY <5>1, <5>2, <4>1, <1>1 DEF InWindow
      <4> QED
        BY <4>1, <4>2, <3>2
    <3>4. i - 1 \in 0..Len(list)
      BY <1>1, <3>1
    <3> QED
      BY <3>3, <3>4
  <2> QED
    BY <2>1, <2>2
<1>3. PICK d \in 0..Len(list) : \A n \in DOMAIN list : n \in InWindow(list) <=> n > d
  BY <1>2
<1>4. InWindow(list) = d + 1..Len(list)
  <2>1. InWindow(list) \subseteq DOMAIN list
    BY DEF InWindow
  <2>2. d + 1..Len(list) \subseteq InWindow(list)
    <3>1. \A n \in d + 1..Len(list) : n \in DOMAIN list /\ n > d
      BY <1>1
    <3> QED
      BY <3>1, <1>3
  <2>3. InWindow(list) \subseteq d + 1..Len(list)
    <3>1. \A n \in InWindow(list) : n \in 1..Len(list) /\ n > d
      BY <1>1, <1>3, <2>1
    <3> QED
      BY <3>1, <1>1
  <2> QED
    BY <2>2, <2>3
<1>5. \A n \in 1..d : list[n].time + Window <= quotaNow
  <2>1. \A n \in 1..d : n \in DOMAIN list /\ n \notin InWindow(list)
    BY <1>1, <1>3
  <2> QED
    BY <2>1, <1>1 DEF InWindow
<1>6. \A n \in d + 1..Len(list) : list[n].time + Window > quotaNow
  BY <1>4 DEF InWindow
<1> QED
  BY <1>4, <1>5, <1>6, SelectedEnd

-----------------------------------------------------------------------------
(* One key                                                                  *)

Full == Burst * Refill

QState == [tokens : 0..Full, at : Nat, accepted : Seq(Charges)]
QPromise == [from : Nat, cost : Costs]

LEMMA Numbers ==
    /\ Limit \in Nat /\ Window \in Nat /\ Burst \in Nat /\ Refill \in Nat /\ Full \in Nat
    /\ Refill <= Full /\ Full <= Window /\ QuotaTime \in Nat /\ MaxStates \in Nat
    /\ \A n \in Int : (n + 1) * Refill = n * Refill + Refill
    /\ \A n \in Int : n * Refill \in Int
    /\ \A c \in Costs : c \in Nat /\ 0 < c /\ c <= Limit
<1>1. /\ Limit \in Nat /\ Window \in Nat /\ Burst \in Nat /\ Refill \in Nat
      /\ QuotaTime \in Nat /\ MaxStates \in Nat
      /\ \A c \in Costs : c \in Nat /\ 0 < c /\ c <= Limit
      /\ Burst >= 1 /\ Window >= Burst * Refill
  BY QuotaAssumption
<1>2. Burst * Refill \in Nat
  BY <1>1
<1>3. Refill <= Burst * Refill
  <2>1. PICK b \in Nat : Burst = b + 1
    <3>1. Burst - 1 \in Nat /\ Burst = (Burst - 1) + 1
      BY <1>1
    <3> QED
      BY <3>1
  <2>2. (b + 1) * Refill = b * Refill + Refill /\ b * Refill \in Nat
    BY <1>1
  <2> QED
    BY <1>1, <2>1, <2>2
<1> QED
  BY <1>1, <1>2, <1>3 DEF Full

\* No stretch of the list asks too much.
SpansKept(acc) ==
    \A from, to \in DOMAIN acc :
        LET upto == Charged(acc)
            time == acc[to].time - acc[from].time
        IN from <= to =>
             /\ time < Window => upto[to] - upto[from - 1] <= Limit
             /\ (to - from + 1) * Refill <= Full + time

\* What was accepted so far, with a bucket of tokens at the instant n.
Balanced(acc, tokens, n) ==
    \A from \in DOMAIN acc :
        (Len(acc) - from + 1) * Refill + tokens <= Full + (n - acc[from].time)

\* The list holds all that the window still charges at the instant n.
HoldsWindow(list, acc, n) ==
    \E d \in 0..Len(acc) :
        IsEnd(list, acc, d) /\ \A m \in 1..d : acc[m].time + Window <= n

\* The refused request fits at the instant it was told.
Fitting(st, pr) ==
    /\ st.tokens + (pr.from - st.at) >= Refill
    /\ \/ Charge(st.accepted) + pr.cost <= Limit
       \/ \E n \in DOMAIN st.accepted :
             /\ Charge(st.accepted) - Charged(st.accepted)[n] + pr.cost <= Limit
             /\ st.accepted[n].time + Window <= pr.from

KeyOK(st, acc, pr, now) ==
    /\ st \in QState \cup {NoState} /\ acc \in Seq(Charges) /\ pr \in QPromise \cup {NoState}
    /\ Sorted(acc) /\ SpansKept(acc)
    /\ st = NoState =>
          /\ Balanced(acc, Full, now) /\ HoldsWindow(<<>>, acc, now)
          /\ \A n \in DOMAIN acc : acc[n].time <= now
    /\ st # NoState =>
          /\ st.at <= now
          /\ Balanced(acc, st.tokens, st.at) /\ HoldsWindow(st.accepted, acc, st.at)
          /\ \A n \in DOMAIN acc : acc[n].time <= st.at
          /\ pr # NoState => Fitting(st, pr)

QuotaInv ==
    /\ quotaNow \in 0..QuotaTime
    /\ quota \in [QuotaKeys -> QState \cup {NoState}]
    /\ accepts \in [QuotaKeys -> Seq(Charges)]
    /\ promise \in [QuotaKeys -> QPromise \cup {NoState}]
    /\ \A k \in QuotaKeys : KeyOK(quota[k], accepts[k], promise[k], quotaNow)

LEMMA BalancedLater ==
    ASSUME NEW acc \in Seq(Charges), NEW t \in Nat, NEW u \in Nat, NEW n \in Nat, NEW m \in Nat,
           Balanced(acc, t, n), u - t <= m - n
    PROVE  Balanced(acc, u, m)
<1> SUFFICES ASSUME NEW from \in DOMAIN acc
             PROVE  (Len(acc) - from + 1) * Refill + u <= Full + (m - acc[from].time)
  BY DEF Balanced
<1>1. from \in Nat /\ Len(acc) \in Nat /\ acc[from].time \in Nat /\ Full \in Nat
  BY CostsAreNumbers, Numbers
<1> DEFINE asked == (Len(acc) - from + 1) * Refill
<1>2. asked \in Int
  <2>1. Len(acc) - from + 1 \in Int
    BY <1>1
  <2> QED
    BY <2>1, Numbers
<1>3. asked + t <= Full + (n - acc[from].time)
  BY DEF Balanced
<1> DEFINE then == acc[from].time
<1>4. then \in Nat /\ asked + t <= Full + (n - then) /\ Full \in Nat
  BY <1>1, <1>3
<1> HIDE DEF asked, then
<1>5. asked + u <= Full + (m - then)
  BY <1>2, <1>4
<1> QED
  BY <1>5 DEF asked, then

LEMMA HoldsLater ==
    ASSUME NEW acc \in Seq(Charges), NEW list, NEW n \in Nat, NEW m \in Nat, n <= m,
           HoldsWindow(list, acc, n)
    PROVE  HoldsWindow(list, acc, m)
<1>1. PICK d \in 0..Len(acc) : /\ IsEnd(list, acc, d)
                               /\ \A l \in 1..d : acc[l].time + Window <= n
  BY DEF HoldsWindow
<1>2. \A l \in 1..d : acc[l].time + Window <= m
  <2>1. \A l \in 1..d : acc[l].time \in Nat /\ Window \in Nat
    BY CostsAreNumbers, Numbers
  <2> QED
    BY <1>1, <2>1
<1> QED
  BY <1>1, <1>2 DEF HoldsWindow

LEMMA StateIsNumbers ==
    ASSUME NEW st \in QState
    PROVE  st.tokens \in Nat /\ st.tokens <= Full /\ st.at \in Nat /\ st.accepted \in Seq(Charges)
BY Numbers DEF QState

LEMMA NotAState == NoState \notin QState
<1>1. ASSUME NEW st \in QState
      PROVE  st \in [tokens : Nat, at : Nat, accepted : Seq([time : Nat, cost : Costs])]
  BY StateIsNumbers DEF QState, Charges
<1> QED
  BY <1>1, QuotaAssumption

\* Time passes.
LEMMA LaterIsOK ==
    ASSUME NEW st, NEW acc, NEW pr, NEW n \in Nat, NEW m \in Nat, n <= m, KeyOK(st, acc, pr, n)
    PROVE  KeyOK(st, acc, pr, m)
<1>1. acc \in Seq(Charges) /\ Full \in Nat
  BY Numbers DEF KeyOK
<1>2. \A i \in DOMAIN acc : acc[i].time \in Nat
  BY <1>1, CostsAreNumbers
<1>3. CASE st = NoState
  <2>1. Balanced(acc, Full, m) /\ HoldsWindow(<<>>, acc, m)
    BY <1>1, <1>3, BalancedLater, HoldsLater DEF KeyOK
  <2>2. \A i \in DOMAIN acc : acc[i].time <= m
    BY <1>2, <1>3 DEF KeyOK
  <2> QED
    BY <2>1, <2>2, <1>3 DEF KeyOK
<1>4. CASE st # NoState
  <2>1. st.at \in Nat /\ st.at <= n
    BY <1>4, StateIsNumbers DEF KeyOK
  <2>2. st.at <= m
    BY <2>1
  <2> QED
    BY <2>2, <1>4 DEF KeyOK
<1> QED
  BY <1>3, <1>4

\* A key that is forgotten had a full bucket and an empty window.
LEMMA ForgottenIsOK ==
    ASSUME NEW st, NEW acc, NEW pr, NEW n \in Nat, KeyOK(st, acc, pr, n),
           st # NoState, ~(n - st.at <= Window)
    PROVE  KeyOK(NoState, acc, pr, n)
<1>1. acc \in Seq(Charges) /\ Len(acc) \in Nat /\ DOMAIN acc = 1..Len(acc)
  BY DEF KeyOK
<1>2. \A i \in DOMAIN acc : acc[i].time \in Nat /\ acc[i].time <= st.at
  BY <1>1, CostsAreNumbers DEF KeyOK
<1>3. st.tokens \in Nat /\ st.at \in Nat
  BY StateIsNumbers DEF KeyOK
<1>4. Balanced(acc, Full, n)
  <2>1. Full - st.tokens <= n - st.at /\ Full \in Nat
    BY <1>3, Numbers
  <2> QED
    BY <1>1, <1>3, <2>1, BalancedLater DEF KeyOK
<1>5. HoldsWindow(<<>>, acc, n)
  <2>1. IsEnd(<<>>, acc, Len(acc)) /\ Len(acc) \in 0..Len(acc)
    BY <1>1 DEF IsEnd
  <2>2. \A i \in 1..Len(acc) : acc[i].time + Window <= n
    BY <1>1, <1>2, <1>3, Numbers
  <2> QED
    BY <2>1, <2>2 DEF HoldsWindow
<1>6. \A i \in DOMAIN acc : acc[i].time <= n
  BY <1>2, <1>3, Numbers
<1> QED
  BY <1>4, <1>5, <1>6 DEF KeyOK

\* A remembered key: its bucket filled, and what its list charges is the end of it.
LEMMA KeptCurrent ==
    ASSUME QuotaInv, NEW k \in QuotaKeys, Kept(k)
    PROVE  /\ quota[k] \in QState /\ quota[k] # NoState /\ quota[k].at <= quotaNow
           /\ Current(k).tokens \in 0..Full /\ quotaNow \in Nat
           /\ Current(k).tokens - quota[k].tokens <= quotaNow - quota[k].at
           /\ Current(k).tokens = Full
                \/ Current(k).tokens = quota[k].tokens + (quotaNow - quota[k].at)
           /\ \E e \in 0..Len(quota[k].accepted) :
                 /\ IsEnd(Current(k).accepted, quota[k].accepted, e)
                 /\ \A n \in 1..e : quota[k].accepted[n].time + Window <= quotaNow
                 /\ \A n \in e + 1..Len(quota[k].accepted) :
                       quota[k].accepted[n].time + Window > quotaNow
<1> DEFINE st == quota[k]
           acc == accepts[k]
           list == st.accepted
           full == st.tokens + (quotaNow - st.at)
<1>1. /\ quotaNow \in Nat /\ acc \in Seq(Charges) /\ KeyOK(st, acc, promise[k], quotaNow)
  BY Numbers DEF QuotaInv
<1>2. st \in QState /\ st # NoState
  BY <1>1 DEF Kept, Remembered, KeyOK
<1>3. /\ st.tokens \in Nat /\ st.tokens <= Full /\ st.at \in Nat /\ st.at <= quotaNow
      /\ list \in Seq(Charges) /\ Full \in Nat
  BY <1>1, <1>2, StateIsNumbers, Numbers DEF KeyOK
<1>4. /\ Current(k).tokens = (IF full < Full THEN full ELSE Full)
      /\ Current(k).accepted = Selected(list, InWindow(list))
  BY DEF Current, Full
<1>5. PICK d \in 0..Len(acc) : IsEnd(list, acc, d)
  BY <1>1, <1>2 DEF KeyOK, HoldsWindow
<1> HIDE DEF list
<1>6. /\ Len(list) = Len(acc) - d /\ Len(acc) \in Nat /\ Len(list) \in Nat /\ d \in Nat
      /\ \A n \in 1..Len(list) : list[n] = acc[d + n]
      /\ DOMAIN list = 1..Len(list) /\ DOMAIN acc = 1..Len(acc)
  BY <1>1, <1>3, <1>5 DEF IsEnd
<1>7. Sorted(list)
  <2> SUFFICES ASSUME NEW m \in DOMAIN list, NEW n \in DOMAIN list, m <= n
               PROVE  list[m].time <= list[n].time
    BY DEF Sorted
  <2>1. m \in 1..Len(list) /\ n \in 1..Len(list)
    BY <1>6
  <2>2. d + m \in DOMAIN acc /\ d + n \in DOMAIN acc /\ d + m <= d + n
    BY <1>6, <2>1
  <2>3. acc[d + m].time <= acc[d + n].time
    BY <1>1, <2>2 DEF KeyOK, Sorted
  <2>4. list[m] = acc[d + m] /\ list[n] = acc[d + n]
    BY <1>6, <2>1
  <2> QED
    BY <2>3, <2>4
<1>8. \E e \in 0..Len(list) :
         /\ IsEnd(Selected(list, InWindow(list)), list, e)
         /\ \A n \in 1..e : list[n].time + Window <= quotaNow
         /\ \A n \in e + 1..Len(list) : list[n].time + Window > quotaNow
  BY <1>1, <1>3, <1>7, WindowIsEnd
<1>9. /\ Current(k).tokens \in 0..Full
      /\ Current(k).tokens - st.tokens <= quotaNow - st.at
      /\ Current(k).tokens = Full \/ Current(k).tokens = full
  BY <1>1, <1>3, <1>4
<1> QED
  BY <1>1, <1>2, <1>3, <1>4, <1>8, <1>9 DEF list

\* The bucket and the window of now, whether the key was remembered or not.
LEMMA CurrentIsOK ==
    ASSUME QuotaInv, NEW k \in QuotaKeys
    PROVE  /\ Current(k).tokens \in 0..Full /\ Current(k).accepted \in Seq(Charges)
           /\ Balanced(accepts[k], Current(k).tokens, quotaNow)
           /\ HoldsWindow(Current(k).accepted, accepts[k], quotaNow)
           /\ \A n \in DOMAIN Current(k).accepted :
                 Current(k).accepted[n].time + Window > quotaNow
           /\ \A n \in DOMAIN accepts[k] : accepts[k][n].time <= quotaNow
<1> DEFINE st == quota[k]
           acc == accepts[k]
<1>1. /\ quotaNow \in Nat /\ acc \in Seq(Charges) /\ KeyOK(st, acc, promise[k], quotaNow)
  BY Numbers DEF QuotaInv
<1>2. CASE ~Kept(k)
  <2>1. KeyOK(NoState, acc, promise[k], quotaNow)
    <3>1. CASE st = NoState
      BY <1>1, <3>1
    <3>2. CASE st # NoState
      <4>1. ~(quotaNow - st.at <= Window)
        BY <1>2, <3>2 DEF Kept, Remembered
      <4> HIDE DEF st, acc
      <4> QED
        BY <1>1, <3>2, <4>1, ForgottenIsOK
    <3> QED
      BY <3>1, <3>2
  <2>2. Current(k).tokens = Full /\ Current(k).accepted = <<>>
    BY <1>2 DEF Current, Full
  <2> QED
    BY <2>1, <2>2, Numbers DEF KeyOK
<1>3. CASE Kept(k)
  <2> DEFINE list == st.accepted
             fresh == Current(k).accepted
  <2>1. /\ st \in QState /\ st # NoState /\ st.at <= quotaNow
        /\ Current(k).tokens \in 0..Full
        /\ Current(k).tokens - st.tokens <= quotaNow - st.at
    BY <1>3, KeptCurrent
  <2>2. /\ st.tokens \in Nat /\ st.at \in Nat /\ list \in Seq(Charges) /\ Full \in Nat
    BY <2>1, StateIsNumbers, Numbers
  <2>4. PICK d \in 0..Len(acc) : /\ IsEnd(list, acc, d)
                                 /\ \A m \in 1..d : acc[m].time + Window <= st.at
    BY <1>1, <2>1 DEF KeyOK, HoldsWindow
  <2>5. /\ Len(list) = Len(acc) - d /\ Len(acc) \in Nat /\ Len(list) \in Nat /\ d \in Nat
        /\ \A n \in 1..Len(list) : list[n] = acc[d + n]
        /\ DOMAIN list = 1..Len(list) /\ DOMAIN acc = 1..Len(acc)
    BY <1>1, <2>2, <2>4 DEF IsEnd
  <2>7. PICK e \in 0..Len(list) : /\ IsEnd(fresh, list, e)
                                  /\ \A n \in 1..e : list[n].time + Window <= quotaNow
                                  /\ \A n \in e + 1..Len(list) : list[n].time + Window > quotaNow
    BY <1>3, KeptCurrent
  <2> HIDE DEF fresh, list
  <2>8. /\ fresh \in Seq(Charges) /\ Len(fresh) = Len(list) - e /\ e \in Nat
        /\ \A n \in 1..Len(fresh) : fresh[n] = list[e + n]
    <3>1. IsEnd(fresh, list, e) /\ e \in 0..Len(list)
      BY <2>7
    <3>2. e \in Nat
      BY <2>5, <3>1
    <3> QED
      BY <3>1, <3>2 DEF IsEnd
  <2>9. IsEnd(fresh, acc, d + e) /\ d + e \in 0..Len(acc)
    <3>1. \A n \in 1..Len(fresh) : e + n \in 1..Len(list) /\ d + (e + n) = (d + e) + n
      BY <2>5, <2>8
    <3>2. \A n \in 1..Len(fresh) : fresh[n] = acc[(d + e) + n]
      BY <2>5, <2>8, <3>1
    <3>3. Len(fresh) = Len(acc) - (d + e) /\ d + e \in 0..Len(acc)
      BY <2>5, <2>7, <2>8
    <3> QED
      BY <2>8, <3>2, <3>3 DEF IsEnd
  <2>10. ASSUME NEW n \in 1..d + e PROVE acc[n].time + Window <= quotaNow
    <3>1. acc[n].time \in Nat /\ Window \in Nat
      <4>1. n \in DOMAIN acc /\ n \in Nat
        BY <2>5, <2>9
      <4> QED
        BY <1>1, <4>1, CostsAreNumbers, Numbers
    <3>2. CASE n \in 1..d
      <4>1. acc[n].time + Window <= st.at
        BY <2>4, <3>2
      <4> HIDE DEF acc, st
      <4> QED
        BY <1>1, <2>1, <2>2, <3>1, <4>1
    <3>3. CASE n \notin 1..d
      <4>1. n - d \in 1..e /\ n - d \in 1..Len(list) /\ d + (n - d) = n
        BY <2>5, <2>7, <3>3
      <4> QED
        BY <2>5, <2>7, <4>1
    <3> QED
      BY <3>2, <3>3
  <2>11. HoldsWindow(fresh, acc, quotaNow)
    BY <2>9, <2>10 DEF HoldsWindow
  <2>12. ASSUME NEW n \in DOMAIN fresh PROVE fresh[n].time + Window > quotaNow
    <3>1. n \in 1..Len(fresh) /\ e + n \in e + 1..Len(list)
      BY <2>5, <2>8
    <3> QED
      BY <2>7, <2>8, <3>1
  <2>14. Balanced(acc, Current(k).tokens, quotaNow)
    <3>1. Balanced(acc, st.tokens, st.at)
      BY <1>1, <2>1 DEF KeyOK
    <3>2. Current(k).tokens \in Nat
      BY <2>1, <2>2
    <3> HIDE DEF acc, st
    <3> QED
      BY <1>1, <2>1, <2>2, <3>1, <3>2, BalancedLater
  <2>15. \A n \in DOMAIN acc : acc[n].time <= quotaNow
    <3>1. \A n \in DOMAIN acc : acc[n].time \in Nat /\ acc[n].time <= st.at
      BY <1>1, <2>1, CostsAreNumbers DEF KeyOK
    <3> QED
      BY <1>1, <2>1, <2>2, <3>1
  <2> QED
    BY <2>1, <2>8, <2>11, <2>12, <2>14, <2>15 DEF fresh
<1> QED
  BY <1>2, <1>3
-----------------------------------------------------------------------------
\* What a request waits for: nothing only when it fits, and else until the last of
\* the charges that have to leave has left.
LEMMA WaitOfWindow ==
    ASSUME quotaNow \in Nat, NEW list \in Seq(Charges), NEW cost \in Costs,
           \A n \in DOMAIN list : list[n].time + Window > quotaNow
    PROVE  /\ WindowWait(list, cost) \in Nat
           /\ WindowWait(list, cost) = 0 => Charge(list) + cost <= Limit
           /\ WindowWait(list, cost) # 0 =>
                 \E n \in DOMAIN list :
                    /\ Charge(list) - Charged(list)[n] + cost <= Limit
                    /\ list[n].time + Window = quotaNow + WindowWait(list, cost)
<1>1. CASE Charge(list) + cost <= Limit
  <2>1. WindowWait(list, cost) = 0
    BY <1>1 DEF WindowWait
  <2> QED
    BY <1>1, <2>1
<1>2. CASE ~(Charge(list) + cost <= Limit)
  <2> DEFINE freeing == {n \in DOMAIN list :
                            Charge(list) - Charged(list)[n] + cost <= Limit}
             first == CHOOSE n \in freeing : \A m \in freeing : n <= m
  <2>1. WindowWait(list, cost) = list[first].time + Window - quotaNow
    BY <1>2 DEF WindowWait
  <2>2. /\ Charged(list) \in [0..Len(list) -> Nat] /\ Charged(list)[0] = 0
        /\ Len(list) \in Nat /\ DOMAIN list = 1..Len(list)
    BY ChargedIsSum
  <2>3. cost \in Nat /\ cost <= Limit /\ Limit \in Nat /\ Window \in Nat
    BY Numbers
  <2>4. Charge(list) \in Nat
    BY <2>2 DEF Charge
  <2>5. Len(list) # 0
    BY <1>2, <2>2, <2>3 DEF Charge
  <2>6. Len(list) \in freeing
    <3>1. Len(list) \in DOMAIN list
      BY <2>2, <2>5
    <3>2. Charged(list)[Len(list)] = Charge(list)
      BY DEF Charge
    <3>3. Charge(list) - Charge(list) + cost <= Limit
      BY <2>3, <2>4
    <3>4. Charge(list) - Charged(list)[Len(list)] + cost <= Limit
      BY <3>2, <3>3
    <3> QED
      BY <3>1, <3>4
  <2>7. freeing \subseteq Nat
    BY <2>2
  <2> HIDE DEF freeing
  <2>8. \E n \in freeing : \A m \in freeing : n <= m
    BY <2>6, <2>7, LeastPosition
  <2>9. first \in freeing
    BY <2>8
  <2> HIDE DEF first
  <2>10. /\ first \in DOMAIN list /\ first \in Nat
         /\ Charge(list) - Charged(list)[first] + cost <= Limit
    BY <2>7, <2>9 DEF freeing
  <2>11. list[first].time \in Nat /\ list[first].time + Window > quotaNow
    BY <2>10, CostsAreNumbers
  <2>12. /\ WindowWait(list, cost) \in Nat /\ WindowWait(list, cost) # 0
         /\ list[first].time + Window = quotaNow + WindowWait(list, cost)
    BY <2>1, <2>3, <2>11
  <2> QED
    BY <2>10, <2>12
<1> QED
  BY <1>1, <1>2

LEMMA WaitOfBoth ==
    ASSUME NEW a \in Nat, NEW tokens \in Nat
    PROVE  /\ Later(a, TokenWait(tokens)) \in Nat
           /\ Later(a, TokenWait(tokens)) = 0 => a = 0 /\ tokens >= Refill
           /\ LET w == Later(1, Later(a, TokenWait(tokens)))
              IN w \in Nat /\ a <= w /\ tokens + w >= Refill
<1>1. Refill \in Nat
  BY Numbers
<1>2. /\ TokenWait(tokens) \in Nat /\ tokens + TokenWait(tokens) >= Refill
      /\ TokenWait(tokens) = 0 => tokens >= Refill
  BY <1>1 DEF TokenWait
<1>3. ASSUME NEW x \in Nat, NEW y \in Nat
      PROVE  Later(x, y) \in Nat /\ x <= Later(x, y) /\ y <= Later(x, y)
  BY DEF Later
<1> DEFINE b == TokenWait(tokens)
           v == Later(a, b)
           w == Later(1, v)
<1>4. v \in Nat /\ a <= v /\ b <= v
  BY <1>2, <1>3
<1> HIDE DEF v
<1>5. w \in Nat /\ v <= w
  BY <1>3, <1>4
<1> HIDE DEF w, b
<1>6. b \in Nat /\ tokens + b >= Refill /\ (b = 0 => tokens >= Refill)
  BY <1>2 DEF b
<1>7. v = 0 => a = 0 /\ tokens >= Refill
  BY <1>4, <1>6
<1>8. a <= w /\ tokens + w >= Refill
  BY <1>1, <1>4, <1>5, <1>6
<1> QED
  BY <1>4, <1>5, <1>7, <1>8 DEF v, w, b

\* An accepted request.
LEMMA AcceptedIsOK ==
    ASSUME NEW now \in Nat, NEW acc \in Seq(Charges), NEW list, NEW tokens \in 0..Full,
           NEW cost \in Costs, Sorted(acc), SpansKept(acc), Balanced(acc, tokens, now),
           HoldsWindow(list, acc, now), \A n \in DOMAIN acc : acc[n].time <= now,
           tokens >= Refill, Charge(list) + cost <= Limit
    PROVE  LET entry == [time |-> now, cost |-> cost]
           IN KeyOK([tokens |-> tokens - Refill, at |-> now, accepted |-> Append(list, entry)],
                    Append(acc, entry), NoState, now)
<1> DEFINE entry == [time |-> now, cost |-> cost]
           more == Append(acc, entry)
           longer == Append(list, entry)
           L == Len(acc)
           st == [tokens |-> tokens - Refill, at |-> now, accepted |-> longer]
<1>1. entry \in Charges /\ entry.time = now /\ entry.cost = cost
  BY DEF Charges
<1> HIDE DEF entry
<1>2. /\ L \in Nat /\ DOMAIN acc = 1..L /\ more \in Seq(Charges) /\ Len(more) = L + 1
      /\ DOMAIN more = 1..L + 1 /\ more[L + 1] = entry
      /\ \A n \in 1..L : more[n] = acc[n]
  BY <1>1
<1>3. /\ tokens \in Nat /\ tokens <= Full /\ Full \in Nat /\ Refill \in Nat /\ Limit \in Nat
      /\ Window \in Nat /\ cost \in Nat /\ Refill <= Full
  BY Numbers
<1>4. PICK d \in 0..L : /\ IsEnd(list, acc, d)
                        /\ \A m \in 1..d : acc[m].time + Window <= now
  BY DEF HoldsWindow
<1> HIDE DEF more, longer, L, st
<1>5. \A n \in 1..L : acc[n].time \in Nat /\ acc[n].time <= now
  <2> SUFFICES ASSUME NEW n \in 1..L PROVE acc[n].time \in Nat /\ acc[n].time <= now
    OBVIOUS
  <2>1. n \in DOMAIN acc /\ n \in Nat
    BY <1>2
  <2> QED
    BY <2>1, CostsAreNumbers
<1>6. \A n \in 1..L + 1 : n \in 1..L \/ n = L + 1
  BY <1>2
<1>7. \A n \in 1..L + 1 : more[n].time \in Nat /\ more[n].time <= now
  BY <1>1, <1>2, <1>5, <1>6
<1>8. Sorted(more)
  <2> SUFFICES ASSUME NEW m \in 1..L + 1, NEW n \in 1..L + 1, m <= n
               PROVE  more[m].time <= more[n].time
    BY <1>2 DEF Sorted
  <2>1. CASE n = L + 1
    BY <1>1, <1>2, <1>7, <2>1
  <2>2. CASE n \in 1..L
    <3>1. m \in 1..L
      BY <1>2, <2>2
    <3> QED
      BY <1>2, <2>2, <3>1 DEF Sorted
  <2> QED
    BY <1>6, <2>1, <2>2
<1>9. Charged(acc) \in [0..L -> Nat] /\ Charged(more) \in [0..L + 1 -> Nat]
  BY <1>2, ChargedIsSum DEF L
<1>10. \A n \in 0..L : Charged(more)[n] = Charged(acc)[n]
  <2>1. /\ 0 \in Nat /\ L \in 0..Len(acc) /\ 0 + L <= Len(more)
        /\ \A n \in 1..L : acc[n] = more[0 + n]
    BY <1>2 DEF L
  <2>2. \A n \in 0..L : Charged(acc)[n] = Charged(more)[0 + n] - Charged(more)[0]
    <3> HIDE DEF L
    <3> QED
      BY <1>2, <2>1, ChargedPart
  <2>3. Charged(more)[0] = 0
    BY <1>2, ChargedIsSum
  <2>4. \A n \in 0..L : 0 + n = n /\ Charged(more)[n] \in Nat
    BY <1>2, <1>9
  <2> QED
    BY <2>2, <2>3, <2>4
<1>11. Charged(more)[L + 1] = Charged(acc)[L] + cost
  <2>1. L + 1 \in 1..Len(more) /\ (L + 1) - 1 = L /\ L \in 0..L
    BY <1>2
  <2>2. Charged(more)[L + 1] = Charged(more)[L] + more[L + 1].cost
    BY <1>2, <2>1, ChargedIsSum
  <2> QED
    BY <1>1, <1>2, <1>10, <2>1, <2>2
<1>12. Charge(list) = Charged(acc)[L] - Charged(acc)[d]
  BY <1>4, EndCharges DEF Charge, L
<1>13. \A n \in d..L : Charged(acc)[d] <= Charged(acc)[n]
  <2> SUFFICES ASSUME NEW n \in d..L PROVE Charged(acc)[d] <= Charged(acc)[n]
    OBVIOUS
  <2>1. n \in 0..Len(acc) /\ d \in 0..n
    BY <1>2, <1>4 DEF L
  <2> QED
    BY <2>1, ChargedGrows
<1>14. ASSUME NEW from \in 1..L + 1, now - more[from].time < Window
       PROVE  Charged(more)[L + 1] - Charged(more)[from - 1] <= Limit
  <2>1. ~(from \in 1..d)
    <3>1. SUFFICES ASSUME from \in 1..d PROVE FALSE
      OBVIOUS
    <3>2. from \in 1..L
      BY <1>2, <1>4, <3>1
    <3>3. acc[from].time + Window <= now /\ more[from] = acc[from] /\ acc[from].time \in Nat
      BY <1>2, <1>4, <1>5, <3>1, <3>2
    <3> QED
      BY <1>3, <1>14, <3>3
  <2>2. from - 1 \in d..L /\ from - 1 \in 0..L
    BY <1>2, <1>4, <2>1
  <2>3. /\ Charged(more)[from - 1] = Charged(acc)[from - 1]
        /\ Charged(acc)[d] <= Charged(acc)[from - 1]
    BY <1>10, <1>13, <2>2
  <2>4. Charged(acc)[from - 1] \in Nat /\ Charged(acc)[d] \in Nat /\ Charged(acc)[L] \in Nat
    BY <1>2, <1>4, <1>9, <2>2
  <2> QED
    BY <1>3, <1>11, <1>12, <2>3, <2>4
<1>15. ASSUME NEW from \in 1..L
       PROVE  /\ (L + 1 - from + 1) * Refill + (tokens - Refill) <= Full + (now - more[from].time)
              /\ (L + 1 - from + 1) * Refill <= Full + (now - more[from].time)
  <2> DEFINE asked == (L - from + 1) * Refill
  <2>1. asked \in Int /\ (L + 1 - from + 1) * Refill = asked + Refill
    <3>1. L - from + 1 \in Int /\ L + 1 - from + 1 = (L - from + 1) + 1
      BY <1>2
    <3> QED
      BY <3>1, Numbers
  <2>2. asked + tokens <= Full + (now - acc[from].time)
    BY <1>2 DEF Balanced, L
  <2>3. more[from].time = acc[from].time /\ acc[from].time \in Nat
    BY <1>2, <1>5
  <2> DEFINE then == acc[from].time
             wants == (L + 1 - from + 1) * Refill
  <2>4. /\ asked + tokens <= Full + (now - then) /\ then \in Nat
        /\ wants = asked + Refill /\ more[from].time = then
    BY <2>1, <2>2, <2>3
  <2> HIDE DEF asked, then, wants
  <2>5. /\ wants + (tokens - Refill) <= Full + (now - then)
        /\ wants <= Full + (now - then)
    BY <1>3, <2>1, <2>4
  <2> QED
    BY <2>4, <2>5 DEF wants
<1>16. /\ ((L + 1) - (L + 1) + 1) * Refill + (tokens - Refill) <= Full + (now - more[L + 1].time)
       /\ ((L + 1) - (L + 1) + 1) * Refill <= Full + (now - more[L + 1].time)
  <2>1. (L + 1) - (L + 1) + 1 = 1 /\ 1 * Refill = Refill /\ more[L + 1].time = now
    BY <1>1, <1>2, <1>3
  <2> QED
    BY <1>3, <2>1
<1>17. Balanced(more, tokens - Refill, now)
  BY <1>2, <1>6, <1>15, <1>16 DEF Balanced
<1>18. SpansKept(more)
  <2> SUFFICES ASSUME NEW from \in 1..L + 1, NEW to \in 1..L + 1, from <= to
               PROVE  /\ more[to].time - more[from].time < Window =>
                            Charged(more)[to] - Charged(more)[from - 1] <= Limit
                      /\ (to - from + 1) * Refill <= Full + (more[to].time - more[from].time)
    BY <1>2 DEF SpansKept
  <2>1. CASE to = L + 1
    <3>1. more[to].time = now
      BY <1>1, <1>2, <2>1
    <3>2. (L + 1 - from + 1) * Refill <= Full + (now - more[from].time)
      <4>1. CASE from \in 1..L
        BY <1>15, <4>1
      <4>2. CASE from = L + 1
        <5>1. /\ L + 1 - from + 1 = 1 /\ 1 * Refill = Refill
              /\ more[from].time = now
          BY <1>1, <1>2, <1>3, <4>2
        <5>2. Refill <= Full + (now - now)
          BY <1>3
        <5> QED
          BY <5>1, <5>2
      <4> QED
        BY <1>6, <4>1, <4>2
    <3>3. to - from + 1 = L + 1 - from + 1
      BY <1>2, <2>1
    <3>4. (to - from + 1) * Refill <= Full + (more[to].time - more[from].time)
      BY <3>1, <3>2, <3>3
    <3>5. more[to].time - more[from].time < Window =>
             Charged(more)[to] - Charged(more)[from - 1] <= Limit
      BY <1>14, <2>1, <3>1
    <3> QED
      BY <3>4, <3>5
  <2>2. CASE to \in 1..L
    <3>1. from \in 1..L /\ from - 1 \in 0..L /\ to \in 0..L
      BY <1>2, <2>2
    <3>2. /\ acc[to].time - acc[from].time < Window =>
                Charged(acc)[to] - Charged(acc)[from - 1] <= Limit
          /\ (to - from + 1) * Refill <= Full + (acc[to].time - acc[from].time)
      BY <1>2, <2>2, <3>1 DEF SpansKept
    <3>3. more[to] = acc[to] /\ more[from] = acc[from]
      BY <1>2, <2>2, <3>1
    <3>4. /\ Charged(more)[to] = Charged(acc)[to]
          /\ Charged(more)[from - 1] = Charged(acc)[from - 1]
      BY <1>10, <3>1
    <3> QED
      BY <3>2, <3>3, <3>4
  <2> QED
    BY <1>6, <2>1, <2>2
<1>19. HoldsWindow(longer, more, now)
  <2>1. /\ list \in Seq(Charges) /\ Len(list) = L - d /\ Len(list) \in Nat
        /\ \A n \in 1..Len(list) : list[n] = acc[d + n]
    BY <1>4 DEF IsEnd, L
  <2>2. /\ longer \in Seq(Charges) /\ Len(longer) = Len(list) + 1
        /\ longer[Len(list) + 1] = entry /\ \A n \in 1..Len(list) : longer[n] = list[n]
    BY <1>1, <2>1 DEF longer
  <2>3. ASSUME NEW n \in 1..Len(longer) PROVE longer[n] = more[d + n]
    <3>1. CASE n = Len(list) + 1
      <4>1. d + n = L + 1
        BY <1>2, <1>4, <2>1, <3>1
      <4> QED
        BY <1>2, <2>2, <3>1, <4>1
    <3>2. CASE n # Len(list) + 1
      <4>1. n \in 1..Len(list) /\ d + n \in 1..L
        BY <1>2, <1>4, <2>1, <2>2, <3>2
      <4> QED
        BY <1>2, <2>1, <2>2, <4>1
    <3> QED
      BY <3>1, <3>2
  <2>4. Len(longer) = Len(more) - d /\ d \in 0..Len(more)
    BY <1>2, <1>4, <2>1, <2>2
  <2>5. IsEnd(longer, more, d)
    BY <2>2, <2>3, <2>4 DEF IsEnd
  <2>6. \A m \in 1..d : more[m].time + Window <= now
    <3>1. \A m \in 1..d : m \in 1..L
      BY <1>2, <1>4
    <3> QED
      BY <1>2, <1>4, <3>1
  <2> QED
    BY <2>4, <2>5, <2>6 DEF HoldsWindow
<1>20. st \in QState /\ st # NoState
  <2>1. longer \in Seq(Charges)
    BY <1>19 DEF HoldsWindow, IsEnd
  <2>2. tokens - Refill \in 0..Full
    BY <1>3
  <2>3. st \in QState
    BY <2>1, <2>2 DEF st, QState
  <2> QED
    BY <2>3, NotAState
<1>21. st.tokens = tokens - Refill /\ st.at = now /\ st.accepted = longer
  BY DEF st
<1>22. \A n \in DOMAIN more : more[n].time <= now
  BY <1>2, <1>7
<1>23. KeyOK(st, more, NoState, now)
  BY <1>2, <1>8, <1>17, <1>18, <1>19, <1>20, <1>21, <1>22 DEF KeyOK
<1> QED
  BY <1>23 DEF st, more, longer, entry

\* A refused request, told to come back.
LEMMA RefusedIsOK ==
    ASSUME NEW now \in Nat, NEW acc \in Seq(Charges), NEW list \in Seq(Charges),
           NEW tokens \in 0..Full, NEW cost \in Costs, NEW wait \in Nat,
           Sorted(acc), SpansKept(acc), Balanced(acc, tokens, now),
           HoldsWindow(list, acc, now), \A n \in DOMAIN acc : acc[n].time <= now,
           tokens + wait >= Refill,
           \/ Charge(list) + cost <= Limit
           \/ \E n \in DOMAIN list : /\ Charge(list) - Charged(list)[n] + cost <= Limit
                                     /\ list[n].time + Window <= now + wait
    PROVE  KeyOK([tokens |-> tokens, at |-> now, accepted |-> list],
                 acc, [from |-> now + wait, cost |-> cost], now)
<1> DEFINE st == [tokens |-> tokens, at |-> now, accepted |-> list]
           pr == [from |-> now + wait, cost |-> cost]
<1>1. /\ st \in QState /\ st.tokens = tokens /\ st.at = now /\ st.accepted = list
      /\ pr \in QPromise /\ pr.from = now + wait /\ pr.cost = cost
  BY Numbers DEF QState, QPromise
<1> HIDE DEF st, pr
<1>2. st # NoState
  BY <1>1, NotAState
<1>3. tokens \in Nat /\ Refill \in Nat
  BY Numbers
<1>4. st.tokens + (pr.from - st.at) >= Refill
  BY <1>1, <1>3
<1>5. Fitting(st, pr)
  BY <1>1, <1>4 DEF Fitting
<1>6. KeyOK(st, acc, pr, now)
  BY <1>1, <1>2, <1>5 DEF KeyOK
<1> QED
  BY <1>6 DEF st, pr

\* A key that asks nothing: what Consume keeps of it.
LEMMA OthersAreOK ==
    ASSUME QuotaInv, NEW o \in QuotaKeys
    PROVE  /\ KeyOK(IF Kept(o) THEN quota[o] ELSE NoState, accepts[o], promise[o], quotaNow)
           /\ (IF Kept(o) THEN quota[o] ELSE NoState) \in QState \cup {NoState}
<1>1. /\ KeyOK(quota[o], accepts[o], promise[o], quotaNow) /\ quotaNow \in Nat
      /\ quota[o] \in QState \cup {NoState}
  BY Numbers DEF QuotaInv
<1>2. CASE Kept(o) \/ quota[o] = NoState
  BY <1>1, <1>2
<1>3. CASE ~Kept(o) /\ quota[o] # NoState
  <2>1. ~(quotaNow - quota[o].at <= Window)
    BY <1>3 DEF Kept, Remembered
  <2>2. KeyOK(NoState, accepts[o], promise[o], quotaNow)
    BY <1>1, <1>3, <2>1, ForgottenIsOK
  <2> QED
    BY <1>3, <2>2
<1> QED
  BY <1>2, <1>3

LEMMA ConsumeKeeps ==
    ASSUME QuotaInv, NEW k \in QuotaKeys, NEW cost \in Costs, Consume(k, cost)
    PROVE  QuotaInv'
<1> DEFINE list == Current(k).accepted
           tokens == Current(k).tokens
           acc == accepts[k]
           entry == [time |-> quotaNow, cost |-> cost]
           others == [o \in QuotaKeys |-> IF Kept(o) THEN quota[o] ELSE NoState]
           wait == Wait(k, cost)
           taken == [tokens |-> IF wait = 0 THEN tokens - Refill ELSE tokens, at |-> quotaNow,
                     accepted |-> IF wait = 0 THEN Append(list, entry) ELSE list]
           told == [from |-> quotaNow + Later(1, wait), cost |-> cost]
           now == quotaNow
<1>1. /\ now \in Nat /\ now \in 0..QuotaTime
      /\ quota \in [QuotaKeys -> QState \cup {NoState}]
      /\ accepts \in [QuotaKeys -> Seq(Charges)]
      /\ promise \in [QuotaKeys -> QPromise \cup {NoState}]
      /\ acc \in Seq(Charges)
      /\ \A o \in QuotaKeys : KeyOK(quota[o], accepts[o], promise[o], now)
  BY Numbers DEF QuotaInv
<1>2. \A o \in QuotaKeys : /\ KeyOK(others[o], accepts[o], promise[o], now)
                           /\ others[o] \in QState \cup {NoState}
  BY OthersAreOK
<1>3. quotaNow' = now
  BY DEF Consume
<1>4. CASE TableFull(k)
  <2>1. quota' = others /\ accepts' = accepts /\ promise' = promise
    BY <1>4 DEF Consume
  <2>2. quota' \in [QuotaKeys -> QState \cup {NoState}]
    BY <1>2, <2>1
  <2> HIDE DEF others
  <2> QED
    BY <1>1, <1>2, <1>3, <2>1, <2>2 DEF QuotaInv
<1>5. CASE ~TableFull(k)
  <2>1. /\ quota' = [others EXCEPT ![k] = taken]
        /\ accepts' = IF wait = 0 THEN [accepts EXCEPT ![k] = Append(@, entry)] ELSE accepts
        /\ promise' = [promise EXCEPT ![k] = IF wait = 0 THEN NoState ELSE told]
    BY <1>5 DEF Consume
  <2> DEFINE more == IF wait = 0 THEN Append(acc, entry) ELSE acc
             answer == IF wait = 0 THEN NoState ELSE told
  <2>2. entry \in Charges
    BY <1>1 DEF Charges
  <2>3. KeyOK(taken, more, answer, now)
    <3>1. /\ tokens \in 0..Full /\ list \in Seq(Charges) /\ Balanced(acc, tokens, now)
          /\ HoldsWindow(list, acc, now)
          /\ \A n \in DOMAIN list : list[n].time + Window > now
          /\ \A n \in DOMAIN acc : acc[n].time <= now
      BY CurrentIsOK
    <3>2. Sorted(acc) /\ SpansKept(acc)
      BY <1>1 DEF KeyOK
    <3> DEFINE due == WindowWait(list, cost)
    <3>3. wait = Later(due, TokenWait(tokens))
      BY DEF Wait
    <3> HIDE DEF list, tokens, acc, wait, entry, due
    <3>4. /\ due \in Nat
          /\ due = 0 => Charge(list) + cost <= Limit
          /\ due # 0 => \E n \in DOMAIN list :
                           /\ Charge(list) - Charged(list)[n] + cost <= Limit
                           /\ list[n].time + Window = now + due
      BY <1>1, <3>1, WaitOfWindow DEF due
    <3>5. tokens \in Nat
      BY <3>1, Numbers
    <3>6. /\ wait \in Nat /\ (wait = 0 => due = 0 /\ tokens >= Refill)
          /\ Later(1, wait) \in Nat /\ due <= Later(1, wait)
          /\ tokens + Later(1, wait) >= Refill
      BY <3>3, <3>4, <3>5, WaitOfBoth
    <3>7. CASE wait = 0
      <4>1. Charge(list) + cost <= Limit /\ tokens >= Refill
        BY <3>4, <3>6, <3>7
      <4>2. KeyOK([tokens |-> tokens - Refill, at |-> now, accepted |-> Append(list, entry)],
                  Append(acc, entry), NoState, now)
        BY <1>1, <3>1, <3>2, <4>1, AcceptedIsOK DEF entry
      <4> QED
        BY <3>7, <4>2
    <3>8. CASE wait # 0
      <4>1. \/ Charge(list) + cost <= Limit
            \/ \E n \in DOMAIN list : /\ Charge(list) - Charged(list)[n] + cost <= Limit
                                      /\ list[n].time + Window <= now + Later(1, wait)
        <5>1. CASE due = 0
          BY <3>4, <5>1
        <5>2. CASE due # 0
          <6>1. PICK n \in DOMAIN list : /\ Charge(list) - Charged(list)[n] + cost <= Limit
                                         /\ list[n].time + Window = now + due
            BY <3>4, <5>2
          <6>2. now + due <= now + Later(1, wait)
            BY <1>1, <3>4, <3>6
          <6>3. list[n].time + Window <= now + Later(1, wait)
            BY <6>1, <6>2
          <6> QED
            BY <6>1, <6>3
        <5> QED
          BY <5>1, <5>2
      <4>2. KeyOK([tokens |-> tokens, at |-> now, accepted |-> list], acc, told, now)
        <5> DEFINE w == Later(1, wait)
        <5>1. w \in Nat /\ tokens + w >= Refill
          BY <3>6
        <5> HIDE DEF w
        <5>2. KeyOK([tokens |-> tokens, at |-> now, accepted |-> list],
                    acc, [from |-> now + w, cost |-> cost], now)
          BY <1>1, <3>1, <3>2, <4>1, <5>1, RefusedIsOK DEF w
        <5> QED
          BY <5>2 DEF w
      <4> QED
        BY <3>8, <4>2
    <3> QED
      BY <3>7, <3>8
  <2> HIDE DEF taken, told, others, wait, entry
  <2>4. /\ taken \in QState \cup {NoState} /\ more \in Seq(Charges)
        /\ answer \in QPromise \cup {NoState}
    BY <2>3 DEF KeyOK
  <2>5. /\ DOMAIN others = QuotaKeys
        /\ \A o \in QuotaKeys : others[o] \in QState \cup {NoState}
    BY <1>2 DEF others
  <2>6. /\ DOMAIN quota' = QuotaKeys /\ quota'[k] = taken
        /\ \A o \in QuotaKeys \ {k} : quota'[o] = others[o]
    BY <2>1, <2>5
  <2>7. /\ accepts'[k] = more /\ accepts' \in [QuotaKeys -> Seq(Charges)]
        /\ \A o \in QuotaKeys \ {k} : accepts'[o] = accepts[o]
    <3>1. accepts'[k] = more /\ \A o \in QuotaKeys \ {k} : accepts'[o] = accepts[o]
      BY <1>1, <2>1
    <3>2. accepts' = [o \in QuotaKeys |-> accepts'[o]]
      BY <1>1, <2>1
    <3>3. \A o \in QuotaKeys : accepts'[o] \in Seq(Charges)
      BY <1>1, <2>4, <3>1
    <3> QED
      BY <3>1, <3>2, <3>3
  <2>8. /\ promise'[k] = answer /\ promise' \in [QuotaKeys -> QPromise \cup {NoState}]
        /\ \A o \in QuotaKeys \ {k} : promise'[o] = promise[o]
    BY <1>1, <2>1, <2>4
  <2>9. quota' \in [QuotaKeys -> QState \cup {NoState}]
    <3>1. quota' = [o \in QuotaKeys |-> quota'[o]]
      BY <2>1, <2>5
    <3>2. \A o \in QuotaKeys : quota'[o] \in QState \cup {NoState}
      BY <2>4, <2>5, <2>6
    <3> QED
      BY <3>1, <3>2
  <2>10. \A o \in QuotaKeys : KeyOK(quota'[o], accepts'[o], promise'[o], now)
    <3> HIDE DEF more, answer, acc, now
    <3> QED
      BY <1>2, <2>3, <2>6, <2>7, <2>8
  <2> QED
    BY <1>1, <1>3, <2>7, <2>8, <2>9, <2>10 DEF QuotaInv
<1> QED
  BY <1>4, <1>5

LEMMA QuotaStarts == QuotaInit => QuotaInv
<1> SUFFICES ASSUME QuotaInit PROVE QuotaInv
  OBVIOUS
<1>1. /\ quota = [k \in QuotaKeys |-> NoState] /\ quotaNow = 0
      /\ accepts = [k \in QuotaKeys |-> <<>>] /\ promise = [k \in QuotaKeys |-> NoState]
  BY DEF QuotaInit
<1>2. <<>> \in Seq(Charges) /\ Len(<<>>) = 0 /\ DOMAIN <<>> = {}
  OBVIOUS
<1>3. Sorted(<<>>) /\ SpansKept(<<>>) /\ Balanced(<<>>, Full, 0)
  BY <1>2 DEF Sorted, SpansKept, Balanced
<1>4. HoldsWindow(<<>>, <<>>, 0)
  <2>1. IsEnd(<<>>, <<>>, 0) /\ 0 \in 0..Len(<<>>)
    BY <1>2 DEF IsEnd
  <2> QED
    BY <2>1 DEF HoldsWindow
<1>5. KeyOK(NoState, <<>>, NoState, 0)
  BY <1>2, <1>3, <1>4 DEF KeyOK
<1>6. 0 \in 0..QuotaTime
  BY Numbers
<1> QED
  BY <1>1, <1>2, <1>5, <1>6 DEF QuotaInv

LEMMA QuotaStep == QuotaInv /\ [QuotaNext]_quotaVars => QuotaInv'
<1> SUFFICES ASSUME QuotaInv, [QuotaNext]_quotaVars PROVE QuotaInv'
  OBVIOUS
<1>1. ASSUME NEW k \in QuotaKeys, NEW cost \in Costs, Consume(k, cost) PROVE QuotaInv'
  BY <1>1, ConsumeKeeps
<1>2. CASE Second
  <2>1. /\ quotaNow' = quotaNow + 1 /\ quotaNow < QuotaTime /\ quotaNow \in 0..QuotaTime
        /\ quota' = quota /\ accepts' = accepts /\ promise' = promise
        /\ QuotaTime \in Nat
    BY <1>2, Numbers DEF Second, QuotaInv
  <2>2. /\ quotaNow' \in 0..QuotaTime /\ quotaNow \in Nat /\ quotaNow' \in Nat
        /\ quotaNow <= quotaNow'
    BY <2>1
  <2>3. \A k \in QuotaKeys : KeyOK(quota[k], accepts[k], promise[k], quotaNow')
    BY <2>2, LaterIsOK DEF QuotaInv
  <2> QED
    BY <2>1, <2>2, <2>3 DEF QuotaInv
<1>3. CASE UNCHANGED quotaVars
  BY <1>3 DEF QuotaInv, quotaVars
<1> QED
  BY <1>1, <1>2, <1>3 DEF QuotaNext

\* What the waiting of a refused caller was for is there when it comes back.
LEMMA PromiseIsKept ==
    ASSUME QuotaInv, NEW k \in QuotaKeys, promise[k] # NoState, Kept(k),
           promise[k].from <= quotaNow
    PROVE  Wait(k, promise[k].cost) = 0
<1> DEFINE st == quota[k]
           pr == promise[k]
           list == Current(k).accepted
           tokens == Current(k).tokens
<1>1. /\ st \in QState /\ st # NoState /\ st.at <= quotaNow /\ tokens \in 0..Full
      /\ quotaNow \in Nat
      /\ tokens = Full \/ tokens = st.tokens + (quotaNow - st.at)
  BY KeptCurrent
<1>2. PICK e \in 0..Len(st.accepted) :
         /\ IsEnd(list, st.accepted, e)
         /\ \A n \in e + 1..Len(st.accepted) : st.accepted[n].time + Window > quotaNow
  BY KeptCurrent
<1>3. pr \in QPromise /\ Fitting(st, pr)
  BY <1>1 DEF QuotaInv, KeyOK
<1>4. /\ pr.from \in Nat /\ pr.cost \in Nat /\ pr.from <= quotaNow
      /\ st.tokens \in Nat /\ st.at \in Nat /\ st.accepted \in Seq(Charges)
  BY <1>1, <1>3, StateIsNumbers, Numbers DEF QPromise
<1> HIDE DEF st, pr, list, tokens
<1>5. tokens \in Nat /\ Refill \in Nat /\ Refill <= Full /\ Full \in Nat /\ Limit \in Nat
  BY <1>1, Numbers
<1>6. tokens >= Refill
  <2>1. st.tokens + (pr.from - st.at) >= Refill
    BY <1>3 DEF Fitting
  <2> QED
    BY <1>1, <1>4, <1>5, <2>1
<1>7. TokenWait(tokens) = 0
  BY <1>5, <1>6 DEF TokenWait
<1> DEFINE old == st.accepted
<1>8. /\ Charged(old) \in [0..Len(old) -> Nat] /\ Len(old) \in Nat /\ DOMAIN old = 1..Len(old)
      /\ Charge(old) \in Nat
  BY <1>4, ChargedIsSum DEF Charge
<1>9. Charge(list) = Charge(old) - Charged(old)[e] /\ Charged(old)[e] \in Nat
  BY <1>2, <1>4, <1>8, EndCharges
<1>10. Charge(list) + pr.cost <= Limit
  <2>1. CASE Charge(old) + pr.cost <= Limit
    BY <1>4, <1>5, <1>8, <1>9, <2>1
  <2>2. CASE \E n \in DOMAIN old : /\ Charge(old) - Charged(old)[n] + pr.cost <= Limit
                                   /\ old[n].time + Window <= pr.from
    <3>1. PICK n \in DOMAIN old : /\ Charge(old) - Charged(old)[n] + pr.cost <= Limit
                                  /\ old[n].time + Window <= pr.from
      BY <2>2
    <3>2. n \in 1..Len(old) /\ n \in Nat
      BY <1>8
    <3>3. old[n].time \in Nat /\ Window \in Nat
      BY <1>4, <3>2, CostsAreNumbers, Numbers
    <3>4. ~(n \in e + 1..Len(old))
      <4>1. ~(old[n].time + Window > quotaNow)
        BY <1>1, <1>4, <3>1, <3>3
      <4> QED
        BY <1>2, <4>1
    <3>5. n \in 0..e /\ e \in 0..Len(old)
      BY <1>2, <1>8, <3>2, <3>4
    <3>6. Charged(old)[n] <= Charged(old)[e] /\ Charged(old)[n] \in Nat
      BY <1>4, <1>8, <3>2, <3>5, ChargedGrows
    <3> HIDE DEF old
    <3> QED
      BY <1>4, <1>5, <1>8, <1>9, <3>1, <3>6
  <2> QED
    BY <1>3, <2>1, <2>2 DEF Fitting
<1>11. WindowWait(list, pr.cost) = 0
  BY <1>10 DEF WindowWait
<1> QED
  BY <1>7, <1>11 DEF Wait, Later, list, tokens, pr

LEMMA QuotaInvIsFair == QuotaInv => QuotaIsFair
<1> SUFFICES ASSUME QuotaInv PROVE QuotaIsFair
  OBVIOUS
<1>1. QuotaTypeOK
  <2>1. quotaNow \in 0..QuotaTime
    BY DEF QuotaInv
  <2>2. ASSUME NEW k \in Remembered
        PROVE  /\ quota[k].tokens \in 0..Burst * Refill /\ quota[k].at \in 0..quotaNow
               /\ quota[k].accepted \in Seq([time : 0..quotaNow, cost : Costs])
    <3> DEFINE st == quota[k]
               list == st.accepted
               acc == accepts[k]
    <3>1. /\ k \in QuotaKeys /\ st # NoState /\ st \in QState /\ acc \in Seq(Charges)
          /\ KeyOK(st, acc, promise[k], quotaNow) /\ quotaNow \in Nat
      BY Numbers DEF Remembered, QuotaInv
    <3>2. /\ st.tokens \in 0..Full /\ st.at \in Nat /\ st.at <= quotaNow
          /\ list \in Seq(Charges)
      BY <3>1 DEF QState, KeyOK
    <3>3. PICK d \in 0..Len(acc) : IsEnd(list, acc, d)
      BY <3>1 DEF KeyOK, HoldsWindow
    <3> HIDE DEF list, acc
    <3>4. /\ Len(list) = Len(acc) - d /\ Len(acc) \in Nat /\ d \in Nat
          /\ \A n \in 1..Len(list) : list[n] = acc[d + n]
          /\ DOMAIN list = 1..Len(list) /\ DOMAIN acc = 1..Len(acc) /\ Len(list) \in Nat
      BY <3>1, <3>2, <3>3 DEF IsEnd
    <3>5. ASSUME NEW n \in 1..Len(list)
          PROVE  list[n] \in [time : 0..quotaNow, cost : Costs]
      <4>1. d + n \in DOMAIN acc /\ d + n \in Nat /\ n \in DOMAIN list /\ n \in Nat
        BY <3>3, <3>4
      <4>2. acc[d + n].time <= st.at /\ acc[d + n].time \in Nat
        BY <3>1, <4>1, CostsAreNumbers DEF KeyOK
      <4>3. list[n] = acc[d + n] /\ list[n] \in Charges
        BY <3>2, <3>4, <4>1
      <4>4. list[n].time \in 0..quotaNow
        BY <3>1, <3>2, <4>2, <4>3
      <4> QED
        BY <4>3, <4>4 DEF Charges
    <3>6. list = [n \in 1..Len(list) |-> list[n]]
      BY <3>2
    <3>7. list \in Seq([time : 0..quotaNow, cost : Costs])
      <4> DEFINE T == [time : 0..quotaNow, cost : Costs]
      <4>1. \A n \in 1..Len(list) : list[n] \in T
        BY <3>5
      <4> HIDE DEF T
      <4>2. list \in [1..Len(list) -> T]
        BY <3>6, <4>1
      <4>3. list \in Seq(T)
        BY <3>4, <4>2, SeqDef
      <4> QED
        BY <4>3 DEF T
    <3> QED
      BY <3>1, <3>2, <3>7 DEF Full, list
  <2> QED
    BY <2>1, <2>2 DEF QuotaTypeOK
<1>2. QuotaKept
  <2>1. \A k \in QuotaKeys : SpansKept(accepts[k])
    BY DEF QuotaInv, KeyOK
  <2> QED
    BY <2>1 DEF QuotaKept, SpansKept, Full
<1>3. RetryIsHonest
  BY PromiseIsKept DEF RetryIsHonest
<1> QED
  BY <1>1, <1>2, <1>3 DEF QuotaIsFair

(* Neither too much nor too little, for any number of keys, any window and bucket  *)
(* and any table: no key gets more than Limit symbols accepted within a window nor  *)
(* more requests than the bucket and its refill hold, also after its state was      *)
(* dropped and made anew, and what is refused is accepted after the wait announced. *)
THEOREM QuotaIsKept == QuotaSpec => []QuotaIsFair
<1>1. QuotaInit => QuotaInv
  BY QuotaStarts
<1>2. QuotaInv /\ [QuotaNext]_quotaVars => QuotaInv'
  BY QuotaStep
<1>3. QuotaInv => QuotaIsFair
  BY QuotaInvIsFair
<1> QED
  BY <1>1, <1>2, <1>3, PTL DEF QuotaSpec
=============================================================================
