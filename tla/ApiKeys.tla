------------------------------ MODULE ApiKeys ------------------------------
(* The API keys of lib/api-keys.js: the records in memory, the key file, and *)
(* the one key the environment may configure.                               *)
(*                                                                          *)
(* A key is known by its digest, a member of Secrets.  EnvSecrets are what   *)
(* an operator may put into the environment; the others are drawn by create  *)
(* and rotate, each at most once (randomBytes(32)).  A record keeps its      *)
(* class ("managed", the id "legacy", or an id "retired-env-..."), its       *)
(* family, its status and its expiry; labels and scopes are left out.  Time  *)
(* advances in units of the rotation grace period.                          *)
EXTENDS Places

CONSTANTS
    Admins,       \* requests to the key administration under way at once
    EnvSecrets,   \* what the environment may be configured with
    NewSecrets,   \* what create and rotate draw from
    Capacity,     \* 256 records
    KeyTime,      \* bound: the clock
    MaxStarts,    \* bound: how often the process starts
    NoKey         \* no environment key, no expiry, no request

ASSUME KeysAssumption == /\ Capacity \in Nat \ {0}
                         /\ KeyTime \in Nat
                         /\ EnvSecrets \cap NewSecrets = {}
                         /\ NoKey \notin EnvSecrets \cup NewSecrets

VARIABLES
    records,      \* the records in memory, in their order
    file,         \* the records in the key file
    env,          \* the environment key of this process, NoKey if none
    serving,      \* the key store was accepted at startup
    work,         \* per request: the records it is writing, NoKey if none
    drawn,        \* secrets handed out so far
    keyNow,
    starts,
    revokedBefore, \* history: secrets whose revocation was acknowledged
    revived       \* history: those the environment was given again when the file had
                  \* no record of them any more, until they are revoked once more

keyVars == <<records, file, env, serving, work, drawn, keyNow, starts, revokedBefore, revived>>

Secrets == EnvSecrets \cup NewSecrets
Legacy(e) == [digest |-> e, class |-> "legacy", family |-> "legacy",
              status |-> "active", expires |-> NoKey]

Digests(keys) == {keys[i].digest : i \in DOMAIN keys}
Expired(k) == k.expires # NoKey /\ k.expires <= keyNow

\* The environment key stands in front of the records unless they know it.
WithEnv(keys, e) ==
    IF e # NoKey /\ \A i \in DOMAIN keys : keys[i].digest # e /\ keys[i].class # "legacy"
    THEN <<Legacy(e)>> \o keys
    ELSE keys

All == WithEnv(records, env)

\* The last record with the digest decides.
Authenticates(s) ==
    \E i \in DOMAIN All :
        /\ All[i].digest = s
        /\ \A j \in i + 1..Len(All) : All[j].digest # s
        /\ All[i].status # "revoked"
        /\ ~Expired(All[i])

\* A record of an environment key that is no longer configured is retired.
Retire(keys, e) ==
    [i \in DOMAIN keys |->
        IF keys[i].class = "legacy" /\ keys[i].digest # e
        THEN [keys[i] EXCEPT !.class = "retired", !.status = "revoked"]
        ELSE keys[i]]

\* What the startup validation asks of the file.
Loadable(keys) ==
    /\ Len(keys) <= Capacity
    /\ Cardinality(Digests(keys)) = Len(keys)
    /\ Cardinality({i \in DOMAIN keys : keys[i].class = "legacy"}) <= 1
    /\ \A i \in DOMAIN keys : keys[i].status = "rotating" => keys[i].expires # NoKey
----------------------------------------------------------------------------
KeysInit ==
    /\ records = <<>> /\ file = <<>>
    /\ env \in EnvSecrets \cup {NoKey}
    /\ serving = TRUE
    /\ work = [a \in Admins |-> NoKey]
    /\ drawn = {} /\ keyNow = 0 /\ starts = 1
    /\ revokedBefore = {} /\ revived = {}

\* A key that still works makes room, too.
SpareBug(k, old) == k.digest # old /\ k.class = "managed" /\ k.digest # env

\* Only the records nobody needs any more make room: never the key that is being
\* rotated, the environment's, its tombstones, or a key that still works.
Spare(k, old) ==
    /\ k.digest # old
    /\ k.class = "managed"
    /\ k.digest # env
    /\ k.status = "revoked" \/ Expired(k)

\* Drop the oldest spare records until one more fits (KEY_CAPACITY_EXCEEDED
\* when that is not enough: the result is then still full).
Compacted(keys, old) ==
    LET spare == {i \in DOMAIN keys : Spare(keys[i], old)}
        excess == Len(keys) - (Capacity - 1)
    IN IF excess <= 0 THEN keys ELSE Selected(keys, DOMAIN keys \ Foremost(spare, excess))

\* A request computes its records while another is still writing.
MyTurnBug(a) == TRUE

\* serial: a request computes its records after the one before it has ended.
MyTurn(a) == \A b \in Admins \ {a} : work[b] = NoKey

Begin(a, next) ==
    /\ serving /\ work[a] = NoKey /\ MyTurn(a)
    /\ work' = [work EXCEPT ![a] = next]
    /\ UNCHANGED <<records, file, env, serving, keyNow, starts, revokedBefore, revived>>

Managed(s, family) == [digest |-> s, class |-> "managed", family |-> family,
                       status |-> "active", expires |-> NoKey]

Create(a) ==
    \E s \in NewSecrets \ drawn :
        LET room == Compacted(All, NoKey) IN
        /\ Len(room) < Capacity
        /\ drawn' = drawn \cup {s}
        /\ Begin(a, Append(room, Managed(s, s)))

\* The old key works on for the grace period beside its successor.
Rotate(a) ==
    \E s \in NewSecrets \ drawn, i \in DOMAIN All :
        LET old == All[i]
            room == Compacted(All, old.digest)
            resting == [n \in DOMAIN room |->
                           IF room[n].digest = old.digest
                           THEN [room[n] EXCEPT !.status = "rotating", !.expires = keyNow + 1]
                           ELSE room[n]]
        IN /\ old.status = "active" /\ ~Expired(old)
           /\ Len(room) < Capacity
           /\ drawn' = drawn \cup {s}
           /\ Begin(a, Append(resting, Managed(s, old.family)))

\* The whole rotation family goes, siblings in their grace period included.
RevokeFamily(keys, family) ==
    [n \in DOMAIN keys |->
        IF keys[n].family = family THEN [keys[n] EXCEPT !.status = "revoked"] ELSE keys[n]]

Revoke(a) ==
    \E i \in DOMAIN All :
        /\ Begin(a, RevokeFamily(All, All[i].family))
        /\ UNCHANGED drawn

Revoked(keys) == {keys[i].digest : i \in {j \in DOMAIN keys : keys[j].status = "revoked"}}

\* The file is renamed into place, then the records in memory follow it.
Written(a) ==
    /\ work[a] # NoKey
    /\ file' = work[a] /\ records' = work[a]
    /\ revokedBefore' = revokedBefore \cup Revoked(work[a])
    /\ revived' = revived \ Revoked(work[a])
    /\ work' = [work EXCEPT ![a] = NoKey]
    /\ UNCHANGED <<env, serving, drawn, keyNow, starts>>

\* KEY_STORE_WRITE_FAILED: before the rename, or after it when the temporary
\* file cannot be removed.  The caller is told nothing was done.
WriteFails(a) ==
    /\ work[a] # NoKey
    /\ file' \in {file, work[a]}
    /\ work' = [work EXCEPT ![a] = NoKey]
    /\ UNCHANGED <<records, env, serving, drawn, keyNow, starts, revokedBefore, revived>>

\* The process dies and starts again, with the environment key the operator
\* configured meanwhile: one of the operator's own, one that was drawn, whether the
\* file still knows it or not, or none.  A file that fails the validation stops it
\* (KEY_STORE_INVALID).
Restart ==
    \E e \in EnvSecrets \cup drawn \cup {NoKey} :
        /\ starts < MaxStarts
        /\ starts' = starts + 1
        /\ env' = e
        /\ serving' = Loadable(file)
        /\ records' = IF Loadable(file) THEN Retire(file, e) ELSE <<>>
        /\ work' = [a \in Admins |-> NoKey]
        /\ revived' = revived \cup (({e} \cap revokedBefore) \ Digests(file))
        /\ UNCHANGED <<file, drawn, keyNow, revokedBefore>>

KeyTick ==
    /\ keyNow < KeyTime
    /\ keyNow' = keyNow + 1
    /\ UNCHANGED <<records, file, env, serving, work, drawn, starts, revokedBefore, revived>>

KeysNext ==
    \/ \E a \in Admins : Create(a) \/ Rotate(a) \/ Revoke(a) \/ Written(a) \/ WriteFails(a)
    \/ Restart
    \/ KeyTick

KeysSpec == KeysInit /\ [][KeysNext]_keyVars
----------------------------------------------------------------------------
(* A key whose revocation was acknowledged does not open a request again: not  *)
(* after a rotation of its family, a compaction at capacity, a request that   *)
(* was computed meanwhile, a failed write, a restart, or an environment key    *)
(* that is replaced, removed or configured again.  There is one exception: a   *)
(* key that was drawn, revoked, and whose record then made room for others     *)
(* (api-keys.js:56-61), opens requests if the environment is configured with   *)
(* it, for as long as it is, and until it is revoked again.                     *)
RevokedIsFinal ==
    serving => \A s \in revokedBefore :
                  Authenticates(s) => s = env /\ s \in revived \ EnvSecrets

(* The file the store writes is one it accepts at its next start: at most      *)
(* Capacity records, each digest once, one environment key.                    *)
FileLoads == Loadable(file)

(* A key that works stops working only by a revocation, by the end of the      *)
(* grace period a rotation gave it, or by an environment that names another    *)
(* key: no request, failed or not, drops or replaces the record of a live key. *)
LiveKeysKept ==
    [][\A s \in Secrets :
          (Authenticates(s) /\ starts' = starts)
            => \/ Authenticates(s)'
               \/ s \in Revoked(records)'
               \/ \E i \in DOMAIN All' : /\ All'[i].digest = s
                                        /\ All'[i].status = "rotating"
                                        /\ Expired(All[i])']_keyVars
=============================================================================
