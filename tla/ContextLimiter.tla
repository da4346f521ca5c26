--------------------------- MODULE ContextLimiter ---------------------------
(* The quota of one API key, lib/api-rate-limit.js: a rolling window that      *)
(* charges symbols, and a bucket of tokens that charges requests.              *)
(*                                                                             *)
(* Time is in seconds.  A token is Refill units, one of which comes back every *)
(* second, so the bucket stays exact.                                          *)
EXTENDS Places

CONSTANTS
    QuotaKeys,      \* keys (families) that ask
    Costs,        \* 1..10: symbols of one request
    Limit,        \* 20: symbols per window
    Window,       \* 60 seconds
    Burst,        \* 3 tokens
    Refill,       \* 3 seconds bring one back
    MaxStates,    \* 256: keys remembered
    QuotaTime,    \* bound: the clock
    NoState

ASSUME QuotaAssumption ==
    /\ {Limit, Window, Refill, MaxStates, QuotaTime} \subseteq Nat
    /\ Burst \in Nat \ {0}
    /\ Costs \subseteq 1..Limit
    /\ Window >= Burst * Refill   \* a key that was forgotten had a full bucket
    /\ NoState \notin [tokens : Nat, at : Nat, accepted : Seq([time : Nat, cost : Costs])]

VARIABLES
    quota,        \* per key: [tokens, at, accepted], NoState when not remembered
    quotaNow,
    accepts,      \* history: per key, every request accepted so far
    promise       \* history: per key, when its last refused request is to fit
quotaVars == <<quota, quotaNow, accepts, promise>>

\* What the first n requests of a list cost together, and all of them.
Charged(list) ==
    LET upto[n \in 0..Len(list)] == IF n = 0 THEN 0 ELSE upto[n - 1] + list[n].cost
    IN upto
Charge(list) == Charged(list)[Len(list)]
Remembered == {k \in QuotaKeys : quota[k] # NoState}
Later(a, b) == IF a > b THEN a ELSE b

QuotaInit ==
    /\ quota = [k \in QuotaKeys |-> NoState] /\ quotaNow = 0
    /\ accepts = [k \in QuotaKeys |-> <<>>] /\ promise = [k \in QuotaKeys |-> NoState]

\* A key that was quiet for longer than the window is forgotten.
Kept(k) == k \in Remembered /\ quotaNow - quota[k].at <= Window

\* What the window of now still charges.
InWindow(list) == {n \in DOMAIN list : list[n].time + Window > quotaNow}

\* The bucket and the window as of now.
Current(k) ==
    IF ~Kept(k) THEN [tokens |-> Burst * Refill, accepted |-> <<>>]
    ELSE LET full == quota[k].tokens + (quotaNow - quota[k].at)
         IN [tokens |-> IF full < Burst * Refill THEN full ELSE Burst * Refill,
             accepted |-> Selected(quota[k].accepted, InWindow(quota[k].accepted))]

\* Only the oldest charge is waited for.
WindowWaitBug(list, cost) ==
    IF Charge(list) + cost <= Limit THEN 0 ELSE list[1].time + Window - quotaNow

\* Seconds until enough of the window has passed: the oldest charges leave first.
WindowWait(list, cost) ==
    LET freeing == {n \in DOMAIN list :
                       Charge(list) - Charged(list)[n] + cost <= Limit}
        first == CHOOSE n \in freeing : \A m \in freeing : n <= m
    IN IF Charge(list) + cost <= Limit THEN 0
       ELSE list[first].time + Window - quotaNow

TokenWait(tokens) == IF tokens < Refill THEN Refill - tokens ELSE 0

Wait(k, cost) ==
    Later(WindowWait(Current(k).accepted, cost), TokenWait(Current(k).tokens))

TableFull(k) == ~Kept(k) /\ Cardinality({o \in QuotaKeys : Kept(o)}) >= MaxStates

Consume(k, cost) ==
    LET state == Current(k)
        ok == Wait(k, cost) = 0
        entry == [time |-> quotaNow, cost |-> cost]
        others == [o \in QuotaKeys |-> IF Kept(o) THEN quota[o] ELSE NoState]
    IN /\ IF TableFull(k)
          THEN quota' = others /\ UNCHANGED <<accepts, promise>>
          ELSE /\ quota' = [others EXCEPT ![k] =
                              [tokens |-> IF ok THEN state.tokens - Refill ELSE state.tokens,
                               at |-> quotaNow,
                               accepted |-> IF ok THEN Append(state.accepted, entry)
                                            ELSE state.accepted]]
               /\ accepts' = IF ok THEN [accepts EXCEPT ![k] = Append(@, entry)] ELSE accepts
               /\ promise' = [promise EXCEPT ![k] = IF ok THEN NoState
                                ELSE [from |-> quotaNow + Later(1, Wait(k, cost)), cost |-> cost]]
       /\ UNCHANGED quotaNow

Second ==
    /\ quotaNow < QuotaTime
    /\ quotaNow' = quotaNow + 1
    /\ UNCHANGED <<quota, accepts, promise>>

QuotaNext == Second \/ \E k \in QuotaKeys, cost \in Costs : Consume(k, cost)

QuotaSpec == QuotaInit /\ [][QuotaNext]_quotaVars
----------------------------------------------------------------------------
QuotaTypeOK ==
    /\ quotaNow \in 0..QuotaTime
    /\ \A k \in Remembered : /\ quota[k].tokens \in 0..Burst * Refill
                             /\ quota[k].at \in 0..quotaNow
                             /\ quota[k].accepted \in Seq([time : 0..quotaNow, cost : Costs])

(* No key ever gets more than Limit symbols accepted within a window, nor more      *)
(* requests than the bucket and its refill hold, also when its state was dropped    *)
(* meanwhile and made anew.                                                         *)
QuotaKept ==
    \A k \in QuotaKeys : \A from, to \in DOMAIN accepts[k] :
        LET upto == Charged(accepts[k])
            time == accepts[k][to].time - accepts[k][from].time
        IN from <= to =>
             /\ time < Window => upto[to] - upto[from - 1] <= Limit
             /\ (to - from + 1) * Refill <= Burst * Refill + time

(* The wait a refused caller is told is enough: if it comes back then, and the key  *)
(* asked nothing in between, the same request is accepted.                          *)
RetryIsHonest ==
    \A k \in QuotaKeys :
        (promise[k] # NoState /\ Kept(k) /\ promise[k].from <= quotaNow)
            => Wait(k, promise[k].cost) = 0

(* Neither too much nor too little: the quota is kept, and what it refuses it        *)
(* accepts after the wait it announced.                                             *)
QuotaIsFair == QuotaTypeOK /\ QuotaKept /\ RetryIsHonest
=============================================================================
